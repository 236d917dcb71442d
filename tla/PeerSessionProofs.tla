-------------------------- MODULE PeerSessionProofs --------------------------
(***************************************************************************)
(* What PeerSession keeps, whatever the waits, the players, the inputs of  *)
(* a frame and the order in which its systems and commands take effect:    *)
(* first what a session knows and says, then how long it waits for whom.   *)
(***************************************************************************)
EXTENDS PeerSession, FiniteSetTheorems, SequenceTheorems, TLAPS

------------------------------------------------------------------------------
\* The invariant

\* A world whose hosts compared so far are these.
Sound(w, hosts) ==
  /\ ~Exists(w) => w.lobby.verified = None /\ w.lobby.matched = {}
  /\ w.lobby.hosting => Promoted(w)
  /\ w.removed => ~Exists(w)
  /\ w.lobby.wait.on =>
       Client(w) /\ Promoted(w) /\ w.lobby.wait.successor \in {None, w.host}
  /\ w.lobby.verified \in hosts \cup {None}
  /\ w.lobby.matched \subseteq hosts

\* A queued command that the world has not to fear, in the queue of system s:
\* only hosts compared are verified, only apply_lobby_events names hosts, and
\* HostUuid is let go only once the lobby is gone.
SafeQueue(queue, s, w, hosts) ==
  \A i \in 1..Len(queue) :
    /\ queue[i].do = "verify" => queue[i].host \in hosts
    /\ queue[i].do = "named" => s = "events"
    /\ queue[i].do = "forgetHost" =>
         ~Exists(w) \/ \E j \in 1..(i - 1) : queue[j].do = "despawn"

SafeFrame ==
  /\ (\E n \in DOMAIN inbox.shakes : inbox.shakes[n]) => inbox.from \in compared
  /\ "events" \in todo =>
       /\ buffer["events"] = <<>>
       /\ inbox.over = "disconnected" => ~world.lobby.hosting
  /\ Resting => inbox = NothingRead

SessionInv ==
  /\ TypeOK
  /\ Sound(world, compared)
  /\ \A s \in Systems : SafeQueue(buffer[s], s, world, compared)
  /\ SafeFrame

\* One world follows another as LobbyStage has it, short of a join.
Moves(w, v) ==
  LET from == StageOf(w)
      to == StageOf(v)
  IN \/ from = to /\ v.host = w.host
     \/ from = "joining" /\ to = "playing" /\ v.host = w.host
     \/ from = "playing" /\ to = "waiting" /\ v.host = w.host
     \/ from = "waiting" /\ to = "playing" /\ v.host = w.host
     \/ from # "out" /\ to = "out" /\ v.host \in {w.host, None}
     \/ from = "out" /\ to = "out" /\ v.host = None
     \/ /\ from \in {"joining", "playing", "waiting"}
        /\ v.host \in Players
        /\ to = IF v.host = Me THEN "hosting"
                ELSE IF from = "joining" THEN "joining" ELSE "waiting"

\* What a command must do to the world, and what only naming a host may.
Follows(w, v, hosts) ==
  /\ v \in Worlds
  /\ Sound(v, hosts)
  /\ ~Exists(w) => ~Exists(v)
  /\ Moves(w, v)
Unpromoted(w, v) == ~w.lobby.hosting => ~v.lobby.hosting

------------------------------------------------------------------------------
\* Types of what commands make

\* No wait and no lobby are values like any other.
LEMMA NothingIsTyped == NotWaiting \in Waits /\ NoLobby \in Lobbies
<1>1. NotWaiting \in Waits
  BY DEF NotWaiting, Waits, Causes
<1> QED
  BY <1>1 DEF NoLobby, Lobbies, LastWords

\* The waits promised are naturals.
LEMMA LimitsAreNaturals ==
  /\ SuccessorWithin \in Nat /\ ReachWithin \in Nat
  /\ DefaultReach \in Nat /\ ReconnectWithin \in Nat
BY WaitsAssumption

\* A lobby that goes takes its wait, its verdicts and its host's seat with it.
LEMMA DespawnKeeps ==
  ASSUME NEW w \in Worlds, NEW hosts, Sound(w, hosts)
  PROVE  Follows(w, Despawn(w), hosts) /\ Unpromoted(w, Despawn(w))
<1>1. CASE ~Exists(w)
  BY <1>1 DEF Follows, Unpromoted, Despawn, Moves
<1>2. CASE Exists(w)
  <2> DEFINE v == [w EXCEPT !.lobby = NoLobby, !.removed = TRUE]
  <2>1. v \in Worlds
    BY NothingIsTyped DEF Worlds
  <2>2. v.lobby = NoLobby /\ v.removed /\ v.host = w.host
    BY DEF Worlds
  <2>3. Sound(v, hosts)
    BY <2>2 DEF Sound, NoLobby, NotWaiting, Exists, Client, Promoted
  <2>4. ~Exists(v) /\ ~v.lobby.hosting
    BY <2>2 DEF Exists, NoLobby
  <2>5. Moves(w, v)
    BY <1>2, <2>2, <2>4 DEF Moves, StageOf
  <2> QED
    BY <1>2, <2>1, <2>3, <2>4, <2>5 DEF Follows, Unpromoted, Despawn
<1> QED
  BY <1>1, <1>2

\* Writing LobbyLeft touches nothing else.
LEMMA TellKeeps ==
  ASSUME NEW w \in Worlds, NEW hosts, NEW reason \in Reasons, Sound(w, hosts)
  PROVE  /\ Tell(w, reason) \in Worlds
         /\ Tell(w, reason).lobby = w.lobby
         /\ Tell(w, reason).host = w.host
         /\ Tell(w, reason).removed = w.removed
<1>1. Append(w.left, reason) \in Seq(Reasons)
  BY DEF Worlds
<1> QED
  BY <1>1 DEF Worlds, Tell

\* end_client_session.
LEMMA EndClientSessionKeeps ==
  ASSUME NEW w \in Worlds, NEW hosts, NEW reason \in Reasons, Sound(w, hosts)
  PROVE  LET v == EndClientSession(w, reason)
         IN Follows(w, v, hosts) /\ Unpromoted(w, v)
<1> DEFINE gone == Despawn(w)
           v == Tell(gone, reason)
<1>1. Follows(w, gone, hosts) /\ Unpromoted(w, gone)
  BY DespawnKeeps
<1> HIDE DEF gone
<1>2. v \in Worlds /\ v.lobby = gone.lobby /\ v.host = gone.host /\ v.removed = gone.removed
  BY <1>1, TellKeeps DEF Follows
<1> HIDE DEF v
<1>3. Follows(w, v, hosts) /\ Unpromoted(w, v)
  BY <1>1, <1>2 DEF Follows, Unpromoted, Sound, Moves, StageOf, Exists, Client, Promoted
<1>4. CASE ~Exists(w)
  BY <1>4 DEF EndClientSession, Follows, Unpromoted, Moves
<1>5. CASE Exists(w)
  BY <1>3, <1>5 DEF EndClientSession, v, gone
<1> QED
  BY <1>4, <1>5

\* end_client_lobbies, which lets HostUuid go with the lobby.
LEMMA EndClientLobbiesKeeps ==
  ASSUME NEW w \in Worlds, NEW hosts, NEW reason \in Reasons, Sound(w, hosts)
  PROVE  LET v == EndClientLobbies(w, reason)
         IN Follows(w, v, hosts) /\ Unpromoted(w, v)
<1> DEFINE told == Tell(Despawn(w), reason)
           v == [told EXCEPT !.host = None]
<1>1. CASE ~Exists(w)
  BY <1>1 DEF EndClientLobbies, Follows, Unpromoted, Moves
<1>2. CASE Exists(w)
  <2>1. told = EndClientSession(w, reason)
    BY <1>2 DEF EndClientSession
  <2>2. v = EndClientLobbies(w, reason)
    BY <1>2 DEF EndClientLobbies
  <2>3. Despawn(w) \in Worlds /\ Sound(Despawn(w), hosts) /\ Despawn(w).lobby = NoLobby
    BY <1>2, DespawnKeeps DEF Follows, Despawn, Worlds
  <2>4. told \in Worlds /\ told.lobby = NoLobby /\ told.removed = Despawn(w).removed
    BY <2>3, TellKeeps
  <2> HIDE DEF told
  <2>5. v \in Worlds /\ v.lobby = NoLobby /\ v.host = None
    BY <2>4 DEF Worlds
  <2>6. ~Exists(v) /\ ~v.lobby.hosting /\ Sound(v, hosts)
    BY <2>5 DEF Exists, NoLobby, Sound, NotWaiting
  <2> HIDE DEF v
  <2>7. Moves(w, v)
    BY <1>2, <2>5, <2>6 DEF Moves, StageOf
  <2> QED
    BY <2>2, <2>5, <2>6, <2>7 DEF Follows, Unpromoted
<1> QED
  BY <1>1, <1>2

\* HostUuid goes once no lobby is left.
LEMMA ForgetHostKeeps ==
  ASSUME NEW w \in Worlds, NEW hosts, Sound(w, hosts), ~Exists(w)
  PROVE  LET v == [w EXCEPT !.host = None]
         IN Follows(w, v, hosts) /\ Unpromoted(w, v)
<1> DEFINE v == [w EXCEPT !.host = None]
<1>1. v \in Worlds /\ v.lobby = w.lobby /\ v.host = None /\ v.removed = w.removed
  BY DEF Worlds
<1> HIDE DEF v
<1>2. ~Exists(v) /\ Sound(v, hosts)
  BY <1>1 DEF Exists, Sound, Client, Promoted
<1>3. Moves(w, v)
  BY <1>1, <1>2 DEF Moves, StageOf
<1>4. Follows(w, v, hosts) /\ Unpromoted(w, v)
  BY <1>1, <1>2, <1>3 DEF Follows, Unpromoted
<1> QED
  BY <1>4 DEF v

\* A wait that stops leaves a client playing.
LEMMA StopWaitingKeeps ==
  ASSUME NEW w \in Worlds, NEW hosts, Sound(w, hosts)
  PROVE  Follows(w, StopWaiting(w), hosts) /\ Unpromoted(w, StopWaiting(w))
<1> DEFINE v == StopWaiting(w)
<1>1. /\ v \in Worlds /\ v.host = w.host /\ v.removed = w.removed
      /\ v.lobby = [w.lobby EXCEPT !.wait = NotWaiting]
  BY NothingIsTyped DEF StopWaiting, Worlds, Lobbies
<1> HIDE DEF v
<1>2. /\ v.lobby.phase = w.lobby.phase /\ v.lobby.hosting = w.lobby.hosting
      /\ v.lobby.verified = w.lobby.verified /\ v.lobby.matched = w.lobby.matched
      /\ v.lobby.wait = NotWaiting
  BY <1>1 DEF Worlds, Lobbies
<1>4. Sound(v, hosts) /\ (~Exists(w) => ~Exists(v))
  BY <1>1, <1>2 DEF Sound, Exists, Promoted, NotWaiting
<1>5. Moves(w, v)
  BY <1>1, <1>2 DEF Moves, StageOf, Exists, Promoted, NotWaiting
<1>6. Follows(w, v, hosts) /\ Unpromoted(w, v)
  BY <1>1, <1>2, <1>4, <1>5 DEF Follows, Unpromoted
<1> QED
  BY <1>6 DEF v

------------------------------------------------------------------------------
\* The host is lost, replaced, given up on

\* What forgetting the link to a host leaves as it was.
LEMMA ForgetHostLinkKeeps ==
  ASSUME NEW w \in Worlds, NEW gone
  PROVE  LET v == ForgetHostLink(w, gone)
         IN /\ v \in Worlds
            /\ v.host = w.host /\ v.removed = w.removed
            /\ v.lobby.phase = w.lobby.phase /\ v.lobby.hosting = w.lobby.hosting
            /\ v.lobby.wait = w.lobby.wait /\ v.lobby.verified = None
            /\ v.lobby.migratable = w.lobby.migratable
            /\ v.lobby.matched \subseteq w.lobby.matched
<1> DEFINE held == IF w.host \in gone THEN "none" ELSE w.lobby.held
           l == [w.lobby EXCEPT !.verified = None, !.matched = @ \ gone, !.held = held]
           v == [w EXCEPT !.lobby = l]
<1>1. held \in LastWords /\ w.lobby.matched \ gone \in SUBSET Players
  BY DEF Worlds, Lobbies, LastWords
<1> HIDE DEF held
<1>2. /\ l \in Lobbies
      /\ l.phase = w.lobby.phase /\ l.hosting = w.lobby.hosting
      /\ l.wait = w.lobby.wait /\ l.verified = None
      /\ l.migratable = w.lobby.migratable
      /\ l.matched \subseteq w.lobby.matched
  BY <1>1 DEF Worlds, Lobbies
<1>3. v = ForgetHostLink(w, gone)
  BY DEF ForgetHostLink, held, Worlds, Lobbies
<1> HIDE DEF l
<1>4. v \in Worlds /\ v.lobby = l /\ v.host = w.host /\ v.removed = w.removed
  BY <1>2 DEF Worlds
<1> HIDE DEF v
<1> QED
  BY <1>2, <1>3, <1>4

\* A lobby that starts to wait, or waits otherwise, for its host or its next.
LEMMA NewWaitKeeps ==
  ASSUME NEW w \in Worlds, NEW v \in Worlds, NEW hosts, Sound(w, hosts),
         Client(w), Promoted(w),
         v.host = w.host, v.removed = w.removed,
         v.lobby.phase = w.lobby.phase, v.lobby.hosting = w.lobby.hosting,
         v.lobby.verified \in {None, w.lobby.verified},
         v.lobby.matched \subseteq w.lobby.matched,
         v.lobby.wait.on, v.lobby.wait.successor \in {None, w.host}
  PROVE  Follows(w, v, hosts) /\ Unpromoted(w, v)
<1>1. Sound(v, hosts)
  BY DEF Sound, Exists, Client, Promoted
<1>2. Moves(w, v)
  BY DEF Moves, StageOf, Exists, Client, Promoted
<1> QED
  BY <1>1, <1>2 DEF Follows, Unpromoted, Exists

\* A wait between players that never ran is a wait.
LEMMA WaitIsTyped ==
  ASSUME NEW previous \in Players \cup {None}, NEW successor \in Players \cup {None},
         NEW cause \in Causes, NEW limit \in Nat
  PROVE  /\ Wait(previous, successor, cause, limit) \in Waits
         /\ Wait(previous, successor, cause, limit).on
         /\ Wait(previous, successor, cause, limit).successor = successor
BY DEF Wait, Waits

\* A wait for the same host to come back.
LEMMA WaitForReconnectKeeps ==
  ASSUME NEW w \in Worlds, NEW hosts, NEW cause \in Causes, Sound(w, hosts),
         Client(w), Promoted(w)
  PROVE  LET v == WaitForReconnect(w, cause)
         IN Follows(w, v, hosts) /\ Unpromoted(w, v)
<1> DEFINE u == ForgetHostLink(w, {w.host})
           wait == Wait(w.host, w.host, cause, ReconnectWithin)
           links == IF cause = "Silence" THEN u.links \ {w.host} ELSE u.links
           v == [u EXCEPT !.lobby.wait = wait, !.links = links]
<1>1. v = WaitForReconnect(w, cause)
  BY DEF WaitForReconnect
<1>2. /\ u \in Worlds /\ u.host = w.host /\ u.removed = w.removed
      /\ u.lobby.phase = w.lobby.phase /\ u.lobby.hosting = w.lobby.hosting
      /\ u.lobby.verified = None /\ u.lobby.matched \subseteq w.lobby.matched
  BY ForgetHostLinkKeeps
<1>3. wait \in Waits /\ wait.on /\ wait.successor = w.host
  BY WaitIsTyped, LimitsAreNaturals DEF Worlds
<1> HIDE DEF u, wait
<1>4. links \in SUBSET Players
  BY <1>2 DEF Worlds
<1> HIDE DEF links
<1>5. /\ v \in Worlds /\ v.host = u.host /\ v.removed = u.removed
      /\ v.lobby.phase = u.lobby.phase /\ v.lobby.hosting = u.lobby.hosting
      /\ v.lobby.verified = u.lobby.verified /\ v.lobby.matched = u.lobby.matched
      /\ v.lobby.wait = wait
  BY <1>2, <1>3, <1>4 DEF Worlds, Lobbies
<1> HIDE DEF v
<1>6. Follows(w, v, hosts) /\ Unpromoted(w, v)
  BY <1>2, <1>3, <1>5, NewWaitKeeps
<1> QED
  BY <1>1, <1>6

\* The wait after any loss is typed, and for nobody in particular.
LEMMA WaitForSuccessorIsTyped ==
  ASSUME NEW w \in Worlds, NEW cause \in Causes
  PROVE  LET wait == WaitForSuccessor(w, cause)
         IN wait \in Waits /\ wait.on /\ wait.successor = None
<1> DEFINE wait == w.lobby.wait
<1>1. wait \in Waits /\ w.host \in Players \cup {None}
  BY DEF Worlds, Lobbies
<1> DEFINE Fine(next) == next \in Waits /\ next.on /\ next.successor = None
<1>2. \A p \in Players \cup {None} : Fine(Wait(p, None, cause, SuccessorWithin))
  BY WaitIsTyped, LimitsAreNaturals
<1>3. CASE ~wait.on
  <2>1. WaitForSuccessor(w, cause) = Wait(w.host, None, cause, SuccessorWithin)
    BY <1>3 DEF WaitForSuccessor
  <2>2. Fine(Wait(w.host, None, cause, SuccessorWithin))
    BY <1>1, <1>2
  <2> QED
    BY <2>1, <2>2
<1>4. CASE wait.on /\ wait.successor = None
  <2>1. [wait EXCEPT !.cause = IF cause = "Transport" THEN cause ELSE @] \in Waits
    BY <1>1 DEF Waits
  <2> QED
    BY <1>1, <1>4, <2>1 DEF WaitForSuccessor, Waits
<1>5. CASE wait.on /\ wait.successor # None
  <2>1. wait.successor \in Players \cup {None}
    BY <1>1 DEF Waits
  <2>2. WaitForSuccessor(w, cause) = Wait(wait.successor, None, cause, SuccessorWithin)
    BY <1>5 DEF WaitForSuccessor
  <2>3. Fine(Wait(wait.successor, None, cause, SuccessorWithin))
    BY <2>1, <1>2
  <2> QED
    BY <2>2, <2>3
<1> QED
  BY <1>3, <1>4, <1>5

\* host_lost, whatever the world it is applied to.
LEMMA HostLostKeeps ==
  ASSUME NEW w \in Worlds, NEW hosts, NEW cause \in Causes, Sound(w, hosts)
  PROVE  LET v == HostLost(w, cause)
         IN Follows(w, v, hosts) /\ Unpromoted(w, v)
<1> DEFINE v == HostLost(w, cause)
           waiting == [w EXCEPT !.lobby.wait = WaitForSuccessor(w, cause)]
<1>1. GoneReason(cause) \in Reasons /\ "HostGone" \in Reasons
  BY DEF GoneReason, Reasons, Causes
<1>2. CASE v = w
  BY <1>2 DEF Follows, Unpromoted, Moves
<1>3. CASE \E reason \in Reasons : v = EndClientSession(w, reason)
  BY <1>3, EndClientSessionKeeps
<1>4. CASE Client(w) /\ Promoted(w) /\ v = WaitForReconnect(w, cause)
  BY <1>4, WaitForReconnectKeeps
<1>5. CASE Client(w) /\ Promoted(w) /\ v = waiting
  <2> DEFINE wait == WaitForSuccessor(w, cause)
  <2>1. wait \in Waits /\ wait.on /\ wait.successor = None
    BY WaitForSuccessorIsTyped
  <2>2. v = [w EXCEPT !.lobby.wait = wait]
    BY <1>5
  <2> HIDE DEF wait, v
  <2>3. /\ v \in Worlds /\ v.host = w.host /\ v.removed = w.removed
        /\ v.lobby.phase = w.lobby.phase /\ v.lobby.hosting = w.lobby.hosting
        /\ v.lobby.verified = w.lobby.verified /\ v.lobby.matched = w.lobby.matched
        /\ v.lobby.wait = wait
    BY <2>1, <2>2 DEF Worlds, Lobbies
  <2>4. Follows(w, v, hosts) /\ Unpromoted(w, v)
    BY <1>5, <2>1, <2>3, NewWaitKeeps
  <2> QED
    BY <2>4 DEF v
<1>6. \/ v = w
      \/ \E reason \in Reasons : v = EndClientSession(w, reason)
      \/ Client(w) /\ Promoted(w) /\ v = WaitForReconnect(w, cause)
      \/ Client(w) /\ Promoted(w) /\ v = waiting
  BY <1>1, Zenon DEF HostLost
<1> QED
  BY <1>2, <1>3, <1>4, <1>5, <1>6

\* This peer becomes host.
LEMMA TakeOverKeeps ==
  ASSUME NEW w \in Worlds, NEW hosts, Sound(w, hosts), Client(w)
  PROVE  Follows(w, TakeOver(w), hosts)
<1> DEFINE v == TakeOver(w)
<1>1. /\ v \in Worlds /\ v.host = Me /\ v.removed = w.removed
      /\ v.lobby.phase = "lobby" /\ v.lobby.hosting
      /\ v.lobby.verified = w.lobby.verified /\ v.lobby.matched = w.lobby.matched
      /\ v.lobby.wait = NotWaiting
  BY NothingIsTyped DEF TakeOver, Worlds, Lobbies, Players
<1> HIDE DEF v
<1>2. Sound(v, hosts)
  BY <1>1 DEF Sound, NotWaiting, Exists, Client, Promoted
<1>3. Moves(w, v)
  BY <1>1 DEF Moves, StageOf, Exists, Client, Promoted, Players
<1> QED
  BY <1>1, <1>2, <1>3 DEF Follows, Exists, Client, v

\* This client follows a host that was named.
LEMMA FollowKeeps ==
  ASSUME NEW w \in Worlds, NEW hosts, Sound(w, hosts), Client(w),
         NEW previous \in Players \cup {None}, NEW new_host \in Players \ {Me}
  PROVE  LET v == Follow(w, previous, new_host)
         IN Follows(w, v, hosts) /\ Unpromoted(w, v)
<1> DEFINE cause == IF w.lobby.wait.on THEN w.lobby.wait.cause ELSE "Transport"
           within == IF w.lobby.migratable THEN ReachWithin ELSE DefaultReach
           next == Wait(previous, new_host, cause, within)
           wait == IF ~Promoted(w) THEN w.lobby.wait ELSE next
           v == [w EXCEPT !.host = new_host, !.lobby.wait = wait]
<1>1. v = Follow(w, previous, new_host)
  BY DEF Follow
<1>2. cause \in Causes /\ within \in Nat /\ w.lobby.wait \in Waits
  BY LimitsAreNaturals DEF Causes, Worlds, Lobbies, Waits
<1> HIDE DEF cause, within
<1>3. next \in Waits /\ next.on /\ next.successor = new_host
  BY <1>2, WaitIsTyped
<1> HIDE DEF next
<1>4. wait \in Waits
  BY <1>2, <1>3
<1>5. Promoted(w) => wait.on /\ wait.successor = new_host
  BY <1>3
<1>6. ~Promoted(w) => ~wait.on
  BY DEF Sound
<1> HIDE DEF wait
<1>7. /\ v \in Worlds /\ v.host = new_host /\ v.removed = w.removed
      /\ v.lobby.phase = w.lobby.phase /\ v.lobby.hosting = w.lobby.hosting
      /\ v.lobby.verified = w.lobby.verified /\ v.lobby.matched = w.lobby.matched
      /\ v.lobby.wait = wait
  BY <1>4 DEF Worlds, Lobbies
<1> HIDE DEF v
<1>8. Sound(v, hosts)
  BY <1>5, <1>6, <1>7 DEF Sound, Exists, Client, Promoted
<1>9. Moves(w, v)
  BY <1>5, <1>6, <1>7 DEF Moves, StageOf, Exists, Client, Promoted
<1>10. Follows(w, v, hosts) /\ Unpromoted(w, v)
  BY <1>7, <1>8, <1>9 DEF Follows, Unpromoted, Exists
<1> QED
  BY <1>1, <1>10

\* Moving on after the link to the old host is forgotten is moving on.
LEMMA ForgottenMoves ==
  ASSUME NEW w \in Worlds, NEW u \in Worlds, NEW v, NEW hosts, Sound(w, hosts),
         u.host = w.host, u.removed = w.removed,
         u.lobby.phase = w.lobby.phase, u.lobby.hosting = w.lobby.hosting,
         u.lobby.wait = w.lobby.wait, u.lobby.verified = None,
         u.lobby.matched \subseteq w.lobby.matched
  PROVE  /\ Sound(u, hosts)
         /\ Client(w) => Client(u)
         /\ Follows(u, v, hosts) => Follows(w, v, hosts)
         /\ Unpromoted(u, v) => Unpromoted(w, v)
<1>1. /\ Exists(u) = Exists(w) /\ Promoted(u) = Promoted(w) /\ Client(u) = Client(w)
      /\ StageOf(u) = StageOf(w)
  BY DEF Exists, Promoted, Client, StageOf
<1>2. Sound(u, hosts)
  BY <1>1 DEF Sound
<1>3. Moves(u, v) => Moves(w, v)
  BY <1>1 DEF Moves
<1> QED
  BY <1>1, <1>2, <1>3 DEF Follows, Unpromoted

\* new_host_named, for this peer or another.
LEMMA NewHostNamedKeeps ==
  ASSUME NEW w \in Worlds, NEW hosts, Sound(w, hosts),
         NEW previous \in Players \cup {None}, NEW new_host \in Players
  PROVE  Follows(w, NewHostNamed(w, previous, new_host), hosts)
<1> DEFINE u == ForgetHostLink(w, {previous, w.host} \ {new_host})
           v == NewHostNamed(w, previous, new_host)
<1>1. CASE ~Client(w)
  BY <1>1 DEF NewHostNamed, Follows, Moves
<1>2. CASE Client(w)
  <2>1. /\ u \in Worlds /\ u.host = w.host /\ u.removed = w.removed
        /\ u.lobby.phase = w.lobby.phase /\ u.lobby.hosting = w.lobby.hosting
        /\ u.lobby.wait = w.lobby.wait /\ u.lobby.verified = None
        /\ u.lobby.matched \subseteq w.lobby.matched
    BY ForgetHostLinkKeeps
  <2>2. v = IF new_host = Me THEN TakeOver(u) ELSE Follow(u, previous, new_host)
    BY <1>2 DEF NewHostNamed
  <2> HIDE DEF u, v
  <2>3. Sound(u, hosts) /\ Client(u) /\ (Follows(u, v, hosts) => Follows(w, v, hosts))
    BY <1>2, <2>1, ForgottenMoves
  <2>4. Follows(u, v, hosts)
    BY <2>1, <2>2, <2>3, TakeOverKeeps, FollowKeeps
  <2> QED
    BY <2>3, <2>4 DEF v
<1> QED
  BY <1>1, <1>2

\* reconnect_ran_out, whatever became of the wait.
LEMMA ReconnectRanOutKeeps ==
  ASSUME NEW w \in Worlds, NEW hosts, Sound(w, hosts)
  PROVE  LET v == ReconnectRanOut(w)
         IN Follows(w, v, hosts) /\ Unpromoted(w, v)
<1> DEFINE wait == w.lobby.wait
           next == [wait EXCEPT !.successor = None, !.limit = SuccessorWithin]
           waiting == [w EXCEPT !.lobby.wait = next]
           v == ReconnectRanOut(w)
<1>1. wait \in Waits
  BY DEF Worlds, Lobbies
<1>2. GoneReason(wait.cause) \in Reasons
  BY DEF GoneReason, Reasons
<1>3. CASE v = w
  BY <1>3 DEF Follows, Unpromoted, Moves
<1>4. CASE v = EndClientSession(w, GoneReason(wait.cause))
  BY <1>2, <1>4, EndClientSessionKeeps
<1>5. CASE wait.on /\ v = waiting
  <2>1. next \in Waits /\ next.on /\ next.successor = None
    BY <1>1, <1>5, LimitsAreNaturals DEF Waits
  <2> HIDE DEF next
  <2>2. /\ waiting \in Worlds /\ waiting.host = w.host /\ waiting.removed = w.removed
        /\ waiting.lobby.phase = w.lobby.phase /\ waiting.lobby.hosting = w.lobby.hosting
        /\ waiting.lobby.verified = w.lobby.verified
        /\ waiting.lobby.matched = w.lobby.matched
        /\ waiting.lobby.wait = next
    BY <2>1 DEF Worlds, Lobbies
  <2> HIDE DEF waiting
  <2>3. Client(w) /\ Promoted(w)
    BY <1>5 DEF Sound
  <2> QED
    BY <1>5, <2>1, <2>2, <2>3, NewWaitKeeps
<1>6. v = w \/ v = EndClientSession(w, GoneReason(wait.cause)) \/ (wait.on /\ v = waiting)
  BY DEF ReconnectRanOut, IsReconnect
<1> QED
  BY <1>3, <1>4, <1>5, <1>6

\* Verifying a host that was compared.
LEMMA VerifyKeeps ==
  ASSUME NEW w \in Worlds, NEW hosts, Sound(w, hosts),
         NEW host \in Players \cup {None}, host \in hosts
  PROVE  LET v == Verify(w, host)
         IN Follows(w, v, hosts) /\ Unpromoted(w, v)
<1> DEFINE replayed == w.lobby.verified = None /\ w.lobby.held # "none"
           held == IF replayed THEN "none" ELSE w.lobby.held
           said == IF replayed THEN w.lobby.held ELSE w.said
           v == [w EXCEPT !.lobby.verified = host, !.lobby.held = held, !.said = said]
<1>1. CASE ~Exists(w)
  BY <1>1 DEF Verify, Follows, Unpromoted, Moves
<1>2. CASE Exists(w)
  <2>1. v = Verify(w, host)
    BY <1>2 DEF Verify
  <2>2. held \in LastWords /\ said \in LastWords
    BY DEF Worlds, Lobbies, LastWords
  <2> HIDE DEF held, said
  <2>3. /\ v \in Worlds /\ v.host = w.host /\ v.removed = w.removed
        /\ v.lobby.phase = w.lobby.phase /\ v.lobby.hosting = w.lobby.hosting
        /\ v.lobby.wait = w.lobby.wait /\ v.lobby.verified = host
        /\ v.lobby.matched = w.lobby.matched
    BY <2>2 DEF Worlds, Lobbies
  <2> HIDE DEF v
  <2>4. Sound(v, hosts)
    BY <1>2, <2>3 DEF Sound, Exists, Client, Promoted
  <2>5. Moves(w, v)
    BY <2>3 DEF Moves, StageOf, Exists, Promoted
  <2>6. Follows(w, v, hosts) /\ Unpromoted(w, v)
    BY <1>2, <2>3, <2>4, <2>5 DEF Follows, Unpromoted
  <2> QED
    BY <2>1, <2>6
<1> QED
  BY <1>1, <1>2

\* Promoting a pending lobby, or panicking for want of one.
LEMMA PromoteKeeps ==
  ASSUME NEW w \in Worlds, NEW hosts, Sound(w, hosts)
  PROVE  Follows(w, Promote(w), hosts) /\ Unpromoted(w, Promote(w))
<1> DEFINE v == Promote(w)
<1>1. CASE ~Exists(w)
  <2>1. v \in Worlds /\ v.lobby = w.lobby /\ v.host = w.host /\ v.removed = w.removed
    BY <1>1 DEF Promote, Worlds
  <2> HIDE DEF v
  <2>2. Sound(v, hosts) /\ Moves(w, v) /\ ~Exists(v)
    BY <1>1, <2>1 DEF Sound, Moves, StageOf, Exists, Client, Promoted
  <2> QED
    BY <2>1, <2>2 DEF Follows, Unpromoted, v
<1>2. CASE Exists(w)
  <2> DEFINE fresh == w.lobby.fresh \/ ~Promoted(w)
  <2>1. v = [w EXCEPT !.lobby.phase = "lobby", !.lobby.fresh = fresh]
    BY <1>2 DEF Promote
  <2>2. fresh \in BOOLEAN
    BY DEF Worlds, Lobbies
  <2> HIDE DEF v, fresh
  <2>3. /\ v \in Worlds /\ v.host = w.host /\ v.removed = w.removed
        /\ v.lobby.phase = "lobby" /\ v.lobby.hosting = w.lobby.hosting
        /\ v.lobby.wait = w.lobby.wait /\ v.lobby.verified = w.lobby.verified
        /\ v.lobby.matched = w.lobby.matched
    BY <2>1, <2>2 DEF Worlds, Lobbies
  <2>4. Sound(v, hosts)
    BY <1>2, <2>3 DEF Sound, Exists, Client, Promoted
  <2>5. Moves(w, v)
    BY <1>2, <2>3 DEF Moves, StageOf, Exists, Promoted, Sound, Client
  <2> QED
    BY <1>2, <2>3, <2>4, <2>5 DEF Follows, Unpromoted, v
<1> QED
  BY <1>1, <1>2

------------------------------------------------------------------------------
\* Every command

\* What a system can queue is a command.
LEMMA CommandsAreTyped ==
  ASSUME NEW c \in Commands
  PROVE  /\ c.do \in {"end", "endLobbies", "hostLost", "named", "verify", "ranOut",
                      "stopWaiting", "promote", "despawn", "forgetHost"}
         /\ c.do \in {"end", "endLobbies"} => c.reason \in Reasons
         /\ c.do = "hostLost" => c.cause \in Causes
         /\ c.do = "named" => c.previous \in Players \cup {None} /\ c.host \in Players
         /\ c.do = "verify" => c.host \in Players \cup {None}
BY DEF Commands

\* Carrying out a command that the world has not to fear.
LEMMA DoKeeps ==
  ASSUME NEW w \in Worlds, NEW hosts, Sound(w, hosts), NEW c \in Commands,
         c.do = "verify" => c.host \in hosts,
         c.do = "forgetHost" => ~Exists(w)
  PROVE  LET v == Do(w, c)
         IN /\ Follows(w, v, hosts)
            /\ c.do # "named" => Unpromoted(w, v)
            /\ c.do = "despawn" => ~Exists(v)
<1> USE CommandsAreTyped
<1>1. CASE c.do = "end"
  BY <1>1, EndClientSessionKeeps DEF Do
<1>2. CASE c.do = "endLobbies"
  BY <1>2, EndClientLobbiesKeeps DEF Do
<1>3. CASE c.do = "hostLost"
  BY <1>3, HostLostKeeps DEF Do
<1>4. CASE c.do = "named"
  BY <1>4, NewHostNamedKeeps DEF Do
<1>5. CASE c.do = "ranOut"
  BY <1>5, ReconnectRanOutKeeps DEF Do
<1>6. CASE c.do = "stopWaiting"
  BY <1>6, StopWaitingKeeps DEF Do
<1>7. CASE c.do = "verify"
  BY <1>7, VerifyKeeps DEF Do
<1>8. CASE c.do = "promote"
  BY <1>8, PromoteKeeps DEF Do
<1>9. CASE c.do = "despawn"
  <2>1. ~Exists(Despawn(w))
    BY DEF Despawn, Exists, NoLobby, Worlds
  <2> QED
    BY <1>9, <2>1, DespawnKeeps DEF Do
<1>10. CASE c.do = "forgetHost"
  BY <1>10, ForgetHostKeeps DEF Do
<1> QED
  BY <1>1, <1>2, <1>3, <1>4, <1>5, <1>6, <1>7, <1>8, <1>9, <1>10

------------------------------------------------------------------------------
\* Queues

\* An empty queue is safe.
LEMMA NoCommand ==
  ASSUME NEW s, NEW w, NEW hosts
  PROVE  <<>> \in Seq(Commands) /\ SafeQueue(<<>>, s, w, hosts)
<1>1. <<>> \in Seq(Commands) /\ Len(<<>>) = 0
  OBVIOUS
<1> QED
  BY <1>1 DEF SafeQueue

\* A queue of one command is safe when the command is.
LEMMA OneCommand ==
  ASSUME NEW c \in Commands, NEW p, NEW s, NEW w, NEW hosts,
         c.do # "named",
         p => /\ c.do = "verify" => c.host \in hosts
              /\ c.do = "forgetHost" => ~Exists(w)
  PROVE  LET queue == IF p THEN <<c>> ELSE <<>>
         IN queue \in Seq(Commands) /\ SafeQueue(queue, s, w, hosts)
<1>1. CASE p
  <2>1. <<c>> \in Seq(Commands) /\ Len(<<c>>) = 1 /\ <<c>>[1] = c
    OBVIOUS
  <2>2. SafeQueue(<<c>>, s, w, hosts)
    BY <1>1, <2>1 DEF SafeQueue
  <2> QED
    BY <1>1, <2>1, <2>2
<1>2. CASE ~p
  BY <1>2, NoCommand
<1> QED
  BY <1>1, <1>2

\* Safe queues one after the other are a safe queue.
LEMMA SafeConcat ==
  ASSUME NEW a \in Seq(Commands), NEW b \in Seq(Commands), NEW s, NEW w, NEW hosts,
         SafeQueue(a, s, w, hosts), SafeQueue(b, s, w, hosts)
  PROVE  a \o b \in Seq(Commands) /\ SafeQueue(a \o b, s, w, hosts)
<1> DEFINE q == a \o b
<1>1. /\ q \in Seq(Commands) /\ Len(q) = Len(a) + Len(b)
      /\ \A i \in 1..Len(a) : q[i] = a[i]
      /\ \A i \in 1..Len(b) : q[i + Len(a)] = b[i]
  OBVIOUS
<1>2. Len(a) \in Nat /\ Len(b) \in Nat
  OBVIOUS
<1> HIDE DEF q
<1>3. SafeQueue(q, s, w, hosts)
  <2> SUFFICES ASSUME NEW i \in 1..Len(q)
               PROVE  /\ q[i].do = "verify" => q[i].host \in hosts
                      /\ q[i].do = "named" => s = "events"
                      /\ q[i].do = "forgetHost" =>
                           ~Exists(w) \/ \E j \in 1..(i - 1) : q[j].do = "despawn"
    BY DEF SafeQueue
  <2>1. CASE i \in 1..Len(a)
    <3>1. q[i] = a[i] /\ \A j \in 1..(i - 1) : j \in 1..Len(a) /\ q[j] = a[j]
      BY <1>1, <1>2, <2>1
    <3> QED
      BY <2>1, <3>1 DEF SafeQueue
  <2>2. CASE i \notin 1..Len(a)
    <3> DEFINE k == i - Len(a)
    <3>1. k \in 1..Len(b) /\ i = k + Len(a)
      BY <1>1, <1>2, <2>2
    <3> HIDE DEF k
    <3>2. q[i] = b[k]
      BY <1>1, <3>1
    <3>3. \A j \in 1..(k - 1) : j + Len(a) \in 1..(i - 1) /\ q[j + Len(a)] = b[j]
      BY <1>1, <1>2, <3>1
    <3>4. /\ b[k].do = "verify" => b[k].host \in hosts
          /\ b[k].do = "named" => s = "events"
          /\ b[k].do = "forgetHost" =>
               ~Exists(w) \/ \E j \in 1..(k - 1) : b[j].do = "despawn"
      BY <3>1 DEF SafeQueue
    <3> QED
      BY <3>2, <3>3, <3>4
  <2> QED
    BY <2>1, <2>2
<1> QED
  BY <1>1, <1>3 DEF q

\* The lobby goes before its identity does.
LEMMA DespawnThenForget ==
  ASSUME NEW s, NEW w, NEW hosts
  PROVE  LET q == <<Bare("despawn"), Bare("forgetHost")>>
         IN q \in Seq(Commands) /\ SafeQueue(q, s, w, hosts)
<1> DEFINE q == <<Bare("despawn"), Bare("forgetHost")>>
<1>1. Bare("despawn") \in Commands /\ Bare("forgetHost") \in Commands
  BY DEF Bare, Commands
<1>2. /\ q \in Seq(Commands) /\ Len(q) = 2
      /\ q[1].do = "despawn" /\ q[2].do = "forgetHost"
  BY <1>1 DEF Bare
<1> HIDE DEF q
<1>3. SafeQueue(q, s, w, hosts)
  BY <1>2 DEF SafeQueue
<1> QED
  BY <1>2, <1>3 DEF q

------------------------------------------------------------------------------
\* The systems

\* The stage a game sees, and who hosts, do not change as a system runs.
Still(w, v) ==
  /\ v.host = w.host /\ v.removed \in {w.removed, FALSE}
  /\ v.lobby.phase = w.lobby.phase /\ v.lobby.hosting = w.lobby.hosting
  /\ v.lobby.wait.on = w.lobby.wait.on

\* What a system may do to the world, and queue, at any point of a frame.
Harmless(s, effect) ==
  /\ effect.world \in Worlds
  /\ Sound(effect.world, compared)
  /\ Still(world, effect.world)
  /\ effect.queues \in Seq(Commands)
  /\ SafeQueue(effect.queues, s, effect.world, compared)

\* A system that changes the world only by what it queues.
LEMMA QuietEffect ==
  ASSUME SessionInv, NEW s, NEW queue, queue \in Seq(Commands),
         SafeQueue(queue, s, world, compared)
  PROVE  Harmless(s, Queues(queue))
BY DEF Harmless, Queues, SessionInv, TypeOK, Still

\* So is a system that queues one command at most.
LEMMA QuietOne ==
  ASSUME SessionInv, NEW s, NEW c \in Commands, NEW p, c.do # "named",
         p => /\ c.do = "verify" => c.host \in compared
              /\ c.do = "forgetHost" => ~Exists(world)
  PROVE  Harmless(s, QueuesIf(p, c))
BY OneCommand, QuietEffect DEF QueuesIf

\* run_host_migration_clocks.
LEMMA ClocksAreHarmless == SessionInv => Harmless("clocks", Clocks)
<1> SUFFICES ASSUME SessionInv PROVE Harmless("clocks", Clocks)
  OBVIOUS
<1> DEFINE old == world.lobby.wait
           wait == [old EXCEPT !.waited = @ + 1]
           c == Expiry(wait)
           p == RanOut(wait)
           v == [world EXCEPT !.lobby.wait = wait]
<1>1. world \in Worlds /\ Sound(world, compared) /\ old \in Waits
  BY DEF SessionInv, TypeOK, Worlds, Lobbies
<1>2. CASE ~old.on
  <2>1. Clocks = Queues(<<>>)
    BY <1>2 DEF Clocks
  <2> QED
    BY <2>1, NoCommand, QuietEffect
<1>3. CASE old.on
  <2>1. wait \in Waits /\ wait.on /\ wait.successor = old.successor
    BY <1>1, <1>3 DEF Waits
  <2>2. c \in Commands /\ c.do \in {"ranOut", "end"}
    BY DEF Expiry, Bare, Commands, GoneReason, Reasons
  <2>3. Clocks = [queues |-> IF p THEN <<c>> ELSE <<>>, world |-> v]
    BY <1>3 DEF Clocks, QueuesIf, Queues
  <2> HIDE DEF c, p, wait
  <2>4. /\ v \in Worlds /\ v.host = world.host /\ v.removed = world.removed
        /\ v.lobby.phase = world.lobby.phase /\ v.lobby.hosting = world.lobby.hosting
        /\ v.lobby.verified = world.lobby.verified /\ v.lobby.matched = world.lobby.matched
        /\ v.lobby.wait = wait
    BY <1>1, <2>1 DEF Worlds, Lobbies
  <2> HIDE DEF v
  <2>5. Sound(v, compared) /\ Still(world, v)
    BY <1>1, <1>3, <2>1, <2>4 DEF Sound, Still, Exists, Client, Promoted
  <2> DEFINE q == IF p THEN <<c>> ELSE <<>>
  <2>6. q \in Seq(Commands) /\ SafeQueue(q, "clocks", v, compared)
    BY <2>2, OneCommand
  <2> HIDE DEF q
  <2> QED
    BY <2>3, <2>4, <2>5, <2>6 DEF Harmless, q
<1> QED
  BY <1>2, <1>3

\* take_back_a_silent_host.
LEMMA PongsAreHarmless == SessionInv => Harmless("pongs", Pongs)
<1>1. Bare("stopWaiting") \in Commands /\ Bare("stopWaiting").do = "stopWaiting"
  BY DEF Bare, Commands
<1> QED
  BY <1>1, QuietOne DEF Pongs

\* What hosts say of their protocol is what they were compared by.
LEMMA AnswerIsSafe ==
  ASSUME SessionInv, NEW n, NEW s, NEW w
  PROVE  Answer(n) \in Seq(Commands) /\ SafeQueue(Answer(n), s, w, compared)
<1> DEFINE stop == Bare("stopWaiting")
           verify == [do |-> "verify", host |-> inbox.from]
           gone == Bare("despawn")
           first == IF world.lobby.wait.on /\ world.lobby.wait.successor = inbox.from
                    THEN <<stop>> ELSE <<>>
<1>1. inbox.from \in Players \cup {None} /\ DOMAIN inbox.shakes = 1..Len(inbox.shakes)
  BY DEF SessionInv, TypeOK, Inboxes
<1>2. stop \in Commands /\ gone \in Commands /\ verify \in Commands
  BY <1>1 DEF Commands, Bare
<1>3. first \in Seq(Commands) /\ SafeQueue(first, s, w, compared)
  <2>1. stop.do = "stopWaiting"
    BY DEF Bare
  <2> HIDE DEF stop
  <2> QED
    BY <1>2, <2>1, OneCommand
<1>4. CASE n \notin DOMAIN inbox.shakes
  BY <1>4, NoCommand DEF Answer
<1>5. CASE n \in DOMAIN inbox.shakes /\ inbox.shakes[n]
  <2>1. Answer(n) = first \o <<verify>>
    BY <1>5 DEF Answer, Match
  <2>2. inbox.from \in compared
    BY <1>5 DEF SessionInv, SafeFrame
  <2>3. verify.do = "verify" /\ verify.host = inbox.from
    OBVIOUS
  <2> HIDE DEF verify, first
  <2>4. <<verify>> \in Seq(Commands) /\ SafeQueue(<<verify>>, s, w, compared)
    <3>1. <<verify>> \in Seq(Commands) /\ Len(<<verify>>) = 1 /\ <<verify>>[1] = verify
      BY <1>2
    <3> QED
      BY <2>2, <2>3, <3>1 DEF SafeQueue
  <2> DEFINE second == <<verify>>
  <2> HIDE DEF second
  <2>5. first \o second \in Seq(Commands) /\ SafeQueue(first \o second, s, w, compared)
    BY <1>3, <2>4, SafeConcat DEF second
  <2> QED
    BY <2>1, <2>5 DEF second
<1>6. CASE n \in DOMAIN inbox.shakes /\ ~inbox.shakes[n]
  <2>1. Answer(n) = <<gone>> /\ gone.do = "despawn"
    BY <1>6 DEF Answer, Bare
  <2> HIDE DEF gone
  <2>2. <<gone>> \in Seq(Commands) /\ Len(<<gone>>) = 1 /\ <<gone>>[1] = gone
    BY <1>2
  <2> QED
    BY <2>1, <2>2 DEF SafeQueue
<1> QED
  BY <1>4, <1>5, <1>6

\* Discarding what was held, telling of a mismatch, noting a match.
LEMMA VerdictsAreTyped ==
  ASSUME SessionInv
  PROVE  LET u == IF Mismatches = {} THEN world ELSE Discard(world)
         IN /\ u \in Worlds /\ Sound(u, compared) /\ Still(world, u)
            /\ Complain(u) \in Worlds /\ Sound(Complain(u), compared)
            /\ Still(world, Complain(u))
<1> DEFINE u == IF Mismatches = {} THEN world ELSE Discard(world)
           more == [n \in 1..Cardinality(Mismatches) |-> "ProtocolMismatch"]
           held == IF inbox.from = world.host THEN "none" ELSE world.lobby.held
           v == Complain(u)
<1>1. world \in Worlds /\ Sound(world, compared) /\ inbox.shakes \in Seq(BOOLEAN)
  BY DEF SessionInv, TypeOK, Inboxes
<1>2. /\ u \in Worlds /\ u.host = world.host /\ u.removed = world.removed
      /\ u.lobby.phase = world.lobby.phase /\ u.lobby.hosting = world.lobby.hosting
      /\ u.lobby.verified = world.lobby.verified /\ u.lobby.matched = world.lobby.matched
      /\ u.lobby.wait = world.lobby.wait
  <2>1. held \in LastWords
    BY <1>1 DEF Worlds, Lobbies, LastWords
  <2>2. u = world \/ u = [world EXCEPT !.lobby.held = held]
    BY DEF Discard
  <2> HIDE DEF held, u
  <2>3. CASE u = world
    BY <1>1, <2>3
  <2>4. CASE u = [world EXCEPT !.lobby.held = held]
    BY <1>1, <2>1, <2>4 DEF Worlds, Lobbies
  <2> QED
    BY <2>2, <2>3, <2>4
<1> HIDE DEF u
<1>3. Sound(u, compared) /\ Still(world, u)
  BY <1>1, <1>2 DEF Sound, Still, Exists, Client, Promoted
<1>4. Cardinality(Mismatches) \in Nat
  <2>1. IsFiniteSet(1..Len(inbox.shakes))
    BY <1>1, FS_Interval
  <2>2. Mismatches \subseteq 1..Len(inbox.shakes)
    BY <1>1 DEF Mismatches
  <2> QED
    BY <2>1, <2>2, FS_Subset, FS_CardinalityType
<1>5. more \in Seq(Reasons)
  <2>1. "ProtocolMismatch" \in Reasons
    BY DEF Reasons
  <2> QED
    BY <1>4, <2>1
<1> HIDE DEF more
<1>6. v = [u EXCEPT !.left = u.left \o more]
  BY DEF Complain, more
<1>7. u.left \o more \in Seq(Reasons)
  BY <1>2, <1>5 DEF Worlds
<1> HIDE DEF v
<1>8. /\ v \in Worlds /\ v.lobby = u.lobby /\ v.host = u.host /\ v.removed = u.removed
  BY <1>2, <1>6, <1>7 DEF Worlds
<1>9. Sound(v, compared) /\ Still(world, v)
  BY <1>2, <1>3, <1>8 DEF Sound, Still, Exists, Client, Promoted
<1> QED
  BY <1>2, <1>3, <1>8, <1>9 DEF u, v

\* verify_protocol.
LEMMA HandshakesAreHarmless == SessionInv => Harmless("handshakes", Handshakes)
<1> SUFFICES ASSUME SessionInv PROVE Harmless("handshakes", Handshakes)
  OBVIOUS
<1> DEFINE u == IF Mismatches = {} THEN world ELSE Discard(world)
           v == Complain(u)
           matched == u.lobby.matched \cup {inbox.from}
           noted == [u EXCEPT !.lobby.matched = matched]
<1>1. /\ u \in Worlds /\ Sound(u, compared) /\ Still(world, u)
      /\ v \in Worlds /\ Sound(v, compared) /\ Still(world, v)
  BY VerdictsAreTyped
<1>2. CASE Client(world) /\ Promoted(world)
  <2>1. Handshakes = [queues |-> Answer(1) \o Answer(2), world |-> v]
    BY <1>2 DEF Handshakes
  <2> HIDE DEF v
  <2>2. /\ Answer(1) \o Answer(2) \in Seq(Commands)
        /\ SafeQueue(Answer(1) \o Answer(2), "handshakes", v, compared)
    BY AnswerIsSafe, SafeConcat
  <2> QED
    BY <1>1, <2>1, <2>2 DEF Harmless
<1>3. CASE ~(Client(world) /\ Promoted(world)) /\ Exists(world) /\ Mismatches # DOMAIN inbox.shakes
  <2>1. Handshakes = [queues |-> <<>>, world |-> noted]
    BY <1>3 DEF Handshakes
  <2>2. inbox.from \in compared
    BY <1>3 DEF SessionInv, SafeFrame, Mismatches
  <2>3. inbox.from \in Players
    BY <2>2 DEF SessionInv, TypeOK
  <2> HIDE DEF u
  <2>4. matched \in SUBSET Players
    BY <1>1, <2>3 DEF Worlds, Lobbies
  <2> HIDE DEF matched
  <2>5. /\ noted \in Worlds /\ noted.host = u.host /\ noted.removed = u.removed
        /\ noted.lobby.phase = u.lobby.phase /\ noted.lobby.hosting = u.lobby.hosting
        /\ noted.lobby.verified = u.lobby.verified /\ noted.lobby.matched = matched
        /\ noted.lobby.wait = u.lobby.wait
    BY <1>1, <2>4 DEF Worlds, Lobbies
  <2> HIDE DEF noted
  <2>6. Sound(noted, compared) /\ Still(world, noted)
    BY <1>1, <1>3, <2>2, <2>5 DEF Sound, Still, Exists, Client, Promoted, matched
  <2> QED
    BY <2>1, <2>5, <2>6, NoCommand DEF Harmless
<1>4. CASE ~(Client(world) /\ Promoted(world)) /\ ~(Exists(world) /\ Mismatches # DOMAIN inbox.shakes)
  <2>1. Handshakes = [queues |-> <<>>, world |-> u]
    BY <1>4 DEF Handshakes
  <2> HIDE DEF u
  <2> QED
    BY <1>1, <2>1, NoCommand DEF Harmless
<1> QED
  BY <1>2, <1>3, <1>4

\* verify_promoted_peers.
LEMMA MatchesAreHarmless == SessionInv => Harmless("matches", Matches)
<1> SUFFICES ASSUME SessionInv PROVE Harmless("matches", Matches)
  OBVIOUS
<1> DEFINE known == Client(world) /\ world.host \in world.lobby.matched
           c == [do |-> "verify", host |-> world.host]
           matched == IF known THEN world.lobby.matched \ {world.host}
                      ELSE world.lobby.matched
           v == [world EXCEPT !.lobby.fresh = FALSE, !.lobby.matched = matched]
           q == IF known THEN <<c>> ELSE <<>>
<1>1. world \in Worlds /\ Sound(world, compared)
  BY DEF SessionInv, TypeOK
<1>2. CASE ~world.lobby.fresh
  <2>1. Matches = Queues(<<>>)
    BY <1>2 DEF Matches
  <2> QED
    BY <2>1, NoCommand, QuietEffect
<1>3. CASE world.lobby.fresh
  <2>1. Matches = [queues |-> q, world |-> v]
    BY <1>3 DEF Matches, QueuesIf, Queues
  <2>2. matched \in SUBSET Players /\ matched \subseteq world.lobby.matched
    BY <1>1 DEF Worlds, Lobbies
  <2>3. c \in Commands /\ c.do = "verify" /\ c.host = world.host
    BY <1>1 DEF Worlds, Commands
  <2>4. known => world.host \in compared
    BY <1>1 DEF Sound
  <2> HIDE DEF c, known, matched
  <2>5. q \in Seq(Commands) /\ SafeQueue(q, "matches", v, compared)
    BY <2>3, <2>4, OneCommand
  <2>6. /\ v \in Worlds /\ v.host = world.host /\ v.removed = world.removed
        /\ v.lobby.phase = world.lobby.phase /\ v.lobby.hosting = world.lobby.hosting
        /\ v.lobby.verified = world.lobby.verified /\ v.lobby.matched = matched
        /\ v.lobby.wait = world.lobby.wait
    BY <1>1, <2>2 DEF Worlds, Lobbies
  <2> HIDE DEF v, q
  <2>7. Sound(v, compared) /\ Still(world, v)
    BY <1>1, <2>2, <2>6 DEF Sound, Still, Exists, Client, Promoted
  <2> QED
    BY <2>1, <2>5, <2>6, <2>7 DEF Harmless
<1> QED
  BY <1>2, <1>3

\* apply_lobby_state.
LEMMA WordsAreHarmless == SessionInv => Harmless("words", Words)
<1> SUFFICES ASSUME SessionInv PROVE Harmless("words", Words)
  OBVIOUS
<1> DEFINE p == world.said # "none" /\ Client(world)
           c == [do |-> "end",
                 reason |-> IF world.said = "kicked" THEN "Kicked" ELSE "HostGone"]
           v == [world EXCEPT !.said = "none"]
           q == IF p THEN <<c>> ELSE <<>>
<1>1. world \in Worlds /\ Sound(world, compared)
  BY DEF SessionInv, TypeOK
<1>2. Words = [queues |-> q, world |-> v]
  BY DEF Words, QueuesIf, Queues
<1>3. c \in Commands /\ c.do = "end"
  BY DEF Commands, Reasons
<1> HIDE DEF c, p
<1>4. q \in Seq(Commands) /\ SafeQueue(q, "words", v, compared)
  BY <1>3, OneCommand
<1>5. /\ v \in Worlds /\ v.host = world.host /\ v.removed = world.removed
      /\ v.lobby = world.lobby
  BY <1>1 DEF Worlds, LastWords
<1> HIDE DEF v, q
<1>6. Sound(v, compared) /\ Still(world, v)
  BY <1>1, <1>5 DEF Sound, Still, Exists, Client, Promoted
<1> QED
  BY <1>2, <1>4, <1>5, <1>6 DEF Harmless

\* Telling at once that the session is over, before it is.
LEMMA ToldAhead ==
  ASSUME SessionInv, NEW reason \in Reasons
  PROVE  LET v == Tell(world, reason)
         IN v \in Worlds /\ Sound(v, compared) /\ Still(world, v)
<1> DEFINE v == Tell(world, reason)
<1>1. world \in Worlds /\ Sound(world, compared)
  BY DEF SessionInv, TypeOK
<1>2. v \in Worlds /\ v.lobby = world.lobby /\ v.host = world.host /\ v.removed = world.removed
  BY <1>1, TellKeeps
<1> HIDE DEF v
<1>3. Sound(v, compared) /\ Still(world, v)
  BY <1>1, <1>2 DEF Sound, Still, Exists, Client, Promoted
<1> QED
  BY <1>2, <1>3 DEF v

\* poll_socket_peers.
LEMMA SocketsAreHarmless == SessionInv => Harmless("sockets", Sockets)
<1> SUFFICES ASSUME SessionInv PROVE Harmless("sockets", Sockets)
  OBVIOUS
<1> DEFINE lost == [do |-> "hostLost", cause |-> "Transport"]
           gone == <<Bare("despawn"), Bare("forgetHost")>>
           v == Tell(world, "HostGone")
<1>1. lost \in Commands /\ lost.do = "hostLost" /\ "HostGone" \in Reasons
  BY DEF Commands, Causes, Reasons
<1>2. CASE Sockets = Queues(<<>>)
  BY <1>2, NoCommand, QuietEffect
<1>3. CASE Sockets = Queues(<<lost>>)
  <2>1. Sockets = QueuesIf(TRUE, lost)
    BY <1>3 DEF QueuesIf
  <2> HIDE DEF lost
  <2> QED
    BY <1>1, <2>1, QuietOne
<1>4. CASE Sockets = [queues |-> gone, world |-> v]
  <2>1. gone \in Seq(Commands) /\ SafeQueue(gone, "sockets", v, compared)
    BY DespawnThenForget
  <2> HIDE DEF gone
  <2>2. v \in Worlds /\ Sound(v, compared) /\ Still(world, v)
    BY <1>1, ToldAhead
  <2> HIDE DEF v
  <2> QED
    BY <1>4, <2>1, <2>2 DEF Harmless
<1> QED
  BY <1>2, <1>3, <1>4 DEF Sockets

\* The systems that queue one command and change nothing.
LEMMA SimpleOnesAreHarmless ==
  SessionInv => /\ Harmless("silence", Silence)
                /\ Harmless("leaving", Leaving)
                /\ Harmless("joining", Joining)
                /\ Harmless("promotion", Promotion)
                /\ Harmless("publish", Publish)
<1> SUFFICES ASSUME SessionInv
             PROVE  /\ Harmless("silence", Silence)
                    /\ Harmless("leaving", Leaving)
                    /\ Harmless("joining", Joining)
                    /\ Harmless("promotion", Promotion)
                    /\ Harmless("publish", Publish)
  OBVIOUS
<1> DEFINE lost == [do |-> "hostLost", cause |-> "Silence"]
<1>1. lost \in Commands /\ lost.do = "hostLost"
  BY DEF Commands, Causes
<1>2. /\ Bare("despawn") \in Commands /\ Bare("despawn").do = "despawn"
      /\ Bare("promote") \in Commands /\ Bare("promote").do = "promote"
      /\ Bare("forgetHost") \in Commands /\ Bare("forgetHost").do = "forgetHost"
  BY DEF Bare, Commands
<1>3. Harmless("silence", Silence)
  <2>1. Silence = QueuesIf(inbox.silent /\ Client(world) /\ ~world.lobby.wait.on, lost)
    BY DEF Silence
  <2> HIDE DEF lost
  <2> QED
    BY <1>1, <2>1, QuietOne
<1>4. Harmless("leaving", Leaving)
  BY <1>2, QuietOne DEF Leaving
<1>5. Harmless("joining", Joining)
  BY <1>2, QuietOne DEF Joining
<1>6. Harmless("promotion", Promotion)
  BY <1>2, QuietOne DEF Promotion
<1>7. Harmless("publish", Publish)
  BY <1>2, QuietOne DEF Publish
<1> QED
  BY <1>3, <1>4, <1>5, <1>6, <1>7

\* detect_lobby_leave.
LEMMA TeardownIsHarmless == SessionInv => Harmless("teardown", Teardown)
<1> SUFFICES ASSUME SessionInv PROVE Harmless("teardown", Teardown)
  OBVIOUS
<1> DEFINE c == Bare("forgetHost")
           q == IF TRUE THEN <<c>> ELSE <<>>
           v == [world EXCEPT !.removed = FALSE, !.links = {}]
<1>1. world \in Worlds /\ Sound(world, compared)
  BY DEF SessionInv, TypeOK
<1>2. CASE ~world.removed
  <2>1. Teardown = Queues(<<>>)
    BY <1>2 DEF Teardown
  <2> QED
    BY <2>1, NoCommand, QuietEffect
<1>3. CASE world.removed
  <2>1. Teardown = [queues |-> q, world |-> v]
    BY <1>3 DEF Teardown, Queues
  <2>2. c \in Commands /\ c.do = "forgetHost"
    BY DEF Bare, Commands
  <2>3. v \in Worlds /\ v.lobby = world.lobby /\ v.host = world.host /\ v.removed = FALSE
    BY <1>1 DEF Worlds
  <2> HIDE DEF c, v
  <2>4. Sound(v, compared) /\ Still(world, v)
    BY <1>1, <2>3 DEF Sound, Still, Exists, Client, Promoted
  <2>5. ~Exists(v)
    BY <1>1, <1>3, <2>3 DEF Sound, Exists
  <2>6. q \in Seq(Commands) /\ SafeQueue(q, "teardown", v, compared)
    BY <2>2, <2>5, OneCommand
  <2> HIDE DEF q
  <2> QED
    BY <2>1, <2>3, <2>4, <2>6 DEF Harmless
<1> QED
  BY <1>2, <1>3

\* apply_lobby_events, which alone names hosts.
LEMMA EventsAreHarmless ==
  SessionInv /\ "events" \in todo => Harmless("events", LobbyEvents)
<1> SUFFICES ASSUME SessionInv, "events" \in todo
             PROVE  Harmless("events", LobbyEvents)
  OBVIOUS
<1> DEFINE severed == IF ToldOfHost = <<>> THEN {} ELSE {inbox.from, inbox.named}
           links == IF inbox.over = "closed" THEN {} ELSE world.links \ severed
           left == IF inbox.over = "closed" /\ Exists(world)
                   THEN Append(world.left, "SignallingLost") ELSE world.left
           v == [world EXCEPT !.links = links, !.left = left]
<1>1. /\ world \in Worlds /\ Sound(world, compared)
      /\ inbox.from \in Players \cup {None} /\ inbox.named \in Players \cup {None}
      /\ inbox.over \in {"no", "disconnected", "closed"}
      /\ inbox.over = "disconnected" => ~world.lobby.hosting
  BY DEF SessionInv, TypeOK, Inboxes, SafeFrame
<1>2. LobbyEvents = [queues |-> ToldOfHost \o ToldItIsOver, world |-> v]
  BY DEF LobbyEvents
<1>3. links \in SUBSET Players /\ left \in Seq(Reasons)
  <2>1. world.left \in Seq(Reasons) /\ "SignallingLost" \in Reasons
    BY <1>1 DEF Worlds, Reasons
  <2>2. Append(world.left, "SignallingLost") \in Seq(Reasons)
    BY <2>1
  <2> QED
    BY <1>1, <2>1, <2>2 DEF Worlds
<1> HIDE DEF links, left
<1>4. /\ v \in Worlds /\ v.host = world.host /\ v.removed = world.removed
      /\ v.lobby = world.lobby
  BY <1>1, <1>3 DEF Worlds
<1> HIDE DEF v
<1>5. Sound(v, compared) /\ Still(world, v) /\ Exists(v) = Exists(world)
  BY <1>1, <1>4 DEF Sound, Still, Exists, Client, Promoted
<1>6. ToldOfHost \in Seq(Commands) /\ SafeQueue(ToldOfHost, "events", v, compared)
  <2> DEFINE c == [do |-> "named", previous |-> inbox.from, host |-> inbox.named]
  <2>1. CASE inbox.named = None \/ ~Exists(world)
    BY <2>1, NoCommand DEF ToldOfHost
  <2>2. CASE inbox.named # None /\ Exists(world)
    <3>1. c \in Commands /\ c.do = "named" /\ ToldOfHost = <<c>>
      BY <1>1, <2>2 DEF Commands, ToldOfHost
    <3> HIDE DEF c
    <3>2. <<c>> \in Seq(Commands) /\ Len(<<c>>) = 1 /\ <<c>>[1] = c
      BY <3>1
    <3> QED
      BY <3>1, <3>2 DEF SafeQueue
  <2> QED
    BY <2>1, <2>2
<1>7. ToldItIsOver \in Seq(Commands) /\ SafeQueue(ToldItIsOver, "events", v, compared)
  <2> DEFINE c == [do |-> "endLobbies", reason |-> "HostGone"]
             d == Bare("forgetHost")
             gone == <<Bare("despawn"), Bare("forgetHost")>>
  <2>1. c \in Commands /\ c.do = "endLobbies" /\ d \in Commands /\ d.do = "forgetHost"
    BY DEF Commands, Reasons, Bare
  <2>2. CASE inbox.over = "no"
    BY <2>2, NoCommand DEF ToldItIsOver
  <2>3. CASE inbox.over = "disconnected" /\ Client(world)
    <3>1. ToldItIsOver = IF TRUE THEN <<c>> ELSE <<>>
      BY <2>3 DEF ToldItIsOver
    <3> HIDE DEF c
    <3> QED
      BY <2>1, <3>1, OneCommand
  <2>4. CASE inbox.over = "disconnected" /\ ~Client(world)
    <3>1. ToldItIsOver = IF TRUE THEN <<d>> ELSE <<>>
      BY <2>4 DEF ToldItIsOver
    <3>2. ~Exists(v)
      BY <1>1, <1>5, <2>4 DEF Client
    <3> HIDE DEF d
    <3> QED
      BY <2>1, <3>1, <3>2, OneCommand
  <2>5. CASE inbox.over = "closed"
    <3>1. ToldItIsOver = gone
      BY <2>5 DEF ToldItIsOver
    <3>2. gone \in Seq(Commands) /\ SafeQueue(gone, "events", v, compared)
      BY DespawnThenForget
    <3> QED
      BY <3>1, <3>2
  <2> QED
    BY <1>1, <2>2, <2>3, <2>4, <2>5
<1>8. /\ ToldOfHost \o ToldItIsOver \in Seq(Commands)
      /\ SafeQueue(ToldOfHost \o ToldItIsOver, "events", v, compared)
  BY <1>6, <1>7, SafeConcat
<1> QED
  BY <1>2, <1>4, <1>5, <1>8 DEF Harmless

------------------------------------------------------------------------------
\* Steps of a frame

\* An empty inbox is an inbox.
LEMMA NothingReadIsTyped ==
  /\ NothingRead \in Inboxes
  /\ DOMAIN NothingRead.shakes = {} /\ NothingRead.over = "no"
<1>1. <<>> \in Seq(BOOLEAN) /\ DOMAIN <<>> = {}
  <2>1. <<>> \in Seq(BOOLEAN) /\ Len(<<>>) = 0
    OBVIOUS
  <2>2. DOMAIN <<>> = 1..Len(<<>>)
    BY <2>1
  <2> QED
    BY <2>1, <2>2
<1> DEFINE none == <<>>
<1> HIDE DEF none
<1>2. NothingRead = [ready |-> FALSE, pong |-> FALSE, shakes |-> none, word |-> "none",
                     silent |-> FALSE, broken |-> "no", named |-> None, over |-> "no",
                     leave |-> FALSE, overdue |-> FALSE, from |-> None]
  BY DEF NothingRead, none
<1> QED
  BY <1>1, <1>2 DEF Inboxes, LastWords, none

\* Queues stay safe while the lobby does not come back.
LEMMA SafeQueueStays ==
  ASSUME NEW q, NEW s, NEW w, NEW v, NEW hosts,
         SafeQueue(q, s, w, hosts), ~Exists(w) => ~Exists(v)
  PROVE  SafeQueue(q, s, v, hosts)
BY DEF SafeQueue

\* A safe queue stays safe when its first command is carried out.
LEMMA SafeTail ==
  ASSUME NEW q \in Seq(Commands), q # <<>>, NEW s, NEW w, NEW v, NEW hosts,
         SafeQueue(q, s, w, hosts), ~Exists(w) => ~Exists(v),
         Head(q).do = "despawn" => ~Exists(v)
  PROVE  Tail(q) \in Seq(Commands) /\ SafeQueue(Tail(q), s, v, hosts)
<1> DEFINE r == Tail(q)
<1>1. /\ r \in Seq(Commands) /\ Len(q) \in Nat /\ Len(r) = Len(q) - 1
      /\ \A i \in 1..Len(r) : r[i] = q[i + 1]
      /\ Head(q) = q[1]
  OBVIOUS
<1> HIDE DEF r
<1>2. SafeQueue(r, s, v, hosts)
  <2> SUFFICES ASSUME NEW i \in 1..Len(r)
               PROVE  /\ r[i].do = "verify" => r[i].host \in hosts
                      /\ r[i].do = "named" => s = "events"
                      /\ r[i].do = "forgetHost" =>
                           ~Exists(v) \/ \E j \in 1..(i - 1) : r[j].do = "despawn"
    BY DEF SafeQueue
  <2>1. i + 1 \in 1..Len(q) /\ r[i] = q[i + 1]
    BY <1>1
  <2>2. /\ q[i + 1].do = "verify" => q[i + 1].host \in hosts
        /\ q[i + 1].do = "named" => s = "events"
        /\ q[i + 1].do = "forgetHost" =>
             ~Exists(w) \/ \E j \in 1..((i + 1) - 1) : q[j].do = "despawn"
    BY <2>1 DEF SafeQueue
  <2>3. ASSUME NEW j \in 1..((i + 1) - 1), q[j].do = "despawn"
        PROVE  ~Exists(v) \/ \E k \in 1..(i - 1) : r[k].do = "despawn"
    <3>1. CASE j = 1
      BY <1>1, <2>3, <3>1
    <3>2. CASE j # 1
      <4> DEFINE k == j - 1
      <4>1. k \in 1..(i - 1) /\ k \in 1..Len(r) /\ k + 1 = j
        BY <1>1, <3>2
      <4> HIDE DEF k
      <4>2. r[k] = q[j]
        BY <1>1, <4>1
      <4> QED
        BY <2>3, <4>1, <4>2
    <3> QED
      BY <3>1, <3>2
  <2> QED
    BY <2>1, <2>2, <2>3
<1> QED
  BY <1>1, <1>2 DEF r

\* A world that stands still is a stutter of LobbyStage.
LEMMA StillMoves ==
  ASSUME NEW w, NEW v, Still(w, v)
  PROVE  Moves(w, v) /\ Exists(v) = Exists(w)
BY DEF Still, Moves, StageOf, Exists, Promoted

\* A harmless system that runs keeps the invariant.
LEMMA RunsKeeps ==
  ASSUME SessionInv, NEW s \in Systems, NEW effect, Harmless(s, effect), Runs(s, effect)
  PROVE  SessionInv' /\ Moves(world, world')
<1>1. /\ world' = effect.world /\ todo' = todo \ {s}
      /\ buffer' = [buffer EXCEPT ![s] = effect.queues]
      /\ compared' = compared /\ applying' = applying /\ opened' = opened
      /\ namings' = namings
      /\ inbox' \in {inbox, NothingRead} /\ (Resting' => inbox' = NothingRead)
  BY DEF Runs, Finish
<1>2. /\ effect.world \in Worlds /\ Sound(effect.world, compared)
      /\ Still(world, effect.world)
      /\ effect.queues \in Seq(Commands)
      /\ SafeQueue(effect.queues, s, effect.world, compared)
  BY DEF Harmless
<1>3. TypeOK
  BY DEF SessionInv
<1>4. TypeOK'
  <2>1. buffer' \in [Systems -> Seq(Commands)]
    BY <1>1, <1>2, <1>3 DEF TypeOK
  <2>2. unled' \in Nat
    BY <1>3 DEF Runs, TypeOK
  <2>3. overlink' \subseteq Players
    BY <1>3 DEF Runs, TypeOK
  <2>4. inbox' \in Inboxes
    BY <1>1, <1>3, NothingReadIsTyped DEF TypeOK
  <2> QED
    BY <1>1, <1>2, <1>3, <2>1, <2>2, <2>3, <2>4 DEF TypeOK
<1>5. Sound(world, compared)'
  BY <1>1, <1>2 DEF Sound, Exists, Client, Promoted
<1>6. ASSUME NEW t \in Systems PROVE SafeQueue(buffer[t], t, world, compared)'
  <2>1. SafeQueue(buffer'[t], t, world', compared)
    <3>1. CASE t = s
      BY <1>1, <1>2, <1>3, <3>1 DEF TypeOK
    <3>2. CASE t # s
      <4>1. buffer'[t] = buffer[t] /\ SafeQueue(buffer[t], t, world, compared)
        BY <1>1, <1>3, <3>2 DEF TypeOK, SessionInv
      <4>2. Exists(world') = Exists(world)
        BY <1>1, <1>2, StillMoves
      <4> QED
        BY <4>1, <4>2, SafeQueueStays
    <3> QED
      BY <3>1, <3>2
  <2> QED
    BY <1>1, <2>1 DEF SafeQueue, Exists
<1>7. SafeFrame'
  <2>1. (\E n \in DOMAIN inbox'.shakes : inbox'.shakes[n]) => inbox'.from \in compared'
    BY <1>1, NothingReadIsTyped DEF SessionInv, SafeFrame
  <2>2. "events" \in todo' => /\ buffer'["events"] = <<>>
                              /\ inbox'.over = "disconnected" => ~world'.lobby.hosting
    BY <1>1, <1>2, <1>3, NothingReadIsTyped DEF SessionInv, SafeFrame, Still, TypeOK
  <2> QED
    BY <1>1, <2>1, <2>2 DEF SafeFrame
<1>8. Moves(world, world')
  BY <1>1, <1>2, StillMoves
<1> QED
  BY <1>4, <1>5, <1>6, <1>7, <1>8 DEF SessionInv

\* A sync point that carries out one command keeps the invariant.
LEMMA ApplyKeeps ==
  ASSUME SessionInv, NEW s \in Systems, Apply(s)
  PROVE  SessionInv' /\ Moves(world, world')
<1> DEFINE c == Head(buffer[s])
<1>1. /\ world' = Do(world, c) /\ todo' \subseteq todo \cup {"teardown"}
      /\ buffer[s] # <<>> /\ buffer' = [buffer EXCEPT ![s] = Tail(@)]
      /\ compared' = compared /\ applying' \in {None, s} /\ opened' = opened
      /\ namings' = namings
      /\ inbox' \in {inbox, NothingRead} /\ (Resting' => inbox' = NothingRead)
  BY DEF Apply, Finish
<1>2. TypeOK /\ Sound(world, compared) /\ SafeFrame
  BY DEF SessionInv
<1>3. /\ buffer[s] \in Seq(Commands) /\ c \in Commands /\ c = buffer[s][1]
      /\ 1 \in 1..Len(buffer[s])
  BY <1>1, <1>2 DEF TypeOK
<1>4. /\ c.do = "verify" => c.host \in compared
      /\ c.do = "named" => s = "events"
      /\ c.do = "forgetHost" => ~Exists(world)
  <2>1. SafeQueue(buffer[s], s, world, compared)
    BY DEF SessionInv
  <2>2. \A j \in 1..(1 - 1) : FALSE
    OBVIOUS
  <2> QED
    BY <1>3, <2>1, <2>2 DEF SafeQueue
<1> HIDE DEF c
<1>5. /\ Follows(world, world', compared)
      /\ c.do # "named" => Unpromoted(world, world')
      /\ c.do = "despawn" => ~Exists(world')
  <2>1. world \in Worlds
    BY <1>2 DEF TypeOK
  <2> QED
    BY <1>1, <1>2, <1>3, <1>4, <2>1, DoKeeps
<1>6. /\ world' \in Worlds /\ Sound(world', compared) /\ Moves(world, world')
      /\ ~Exists(world) => ~Exists(world')
  BY <1>5 DEF Follows
<1>7. /\ Tail(buffer[s]) \in Seq(Commands)
      /\ SafeQueue(Tail(buffer[s]), s, world', compared)
  <2>1. SafeQueue(buffer[s], s, world, compared)
    BY DEF SessionInv
  <2> QED
    BY <1>1, <1>3, <1>5, <1>6, <2>1, SafeTail DEF c
<1>8. TypeOK'
  <2>1. buffer' \in [Systems -> Seq(Commands)]
    BY <1>1, <1>2, <1>7 DEF TypeOK
  <2>2. unled' \in Nat /\ overlink' \subseteq Players
    BY <1>2 DEF Apply, TypeOK
  <2>3. inbox' \in Inboxes
    BY <1>1, <1>2, NothingReadIsTyped DEF TypeOK
  <2>4. todo' \subseteq Systems
    BY <1>1, <1>2 DEF TypeOK, Systems
  <2> QED
    BY <1>1, <1>2, <1>6, <2>1, <2>2, <2>3, <2>4 DEF TypeOK
<1>9. Sound(world, compared)'
  BY <1>1, <1>6 DEF Sound, Exists, Client, Promoted
<1>10. ASSUME NEW t \in Systems PROVE SafeQueue(buffer[t], t, world, compared)'
  <2>1. SafeQueue(buffer'[t], t, world', compared)
    <3>1. CASE t = s
      BY <1>1, <1>2, <1>7, <3>1 DEF TypeOK
    <3>2. CASE t # s
      <4>1. buffer'[t] = buffer[t] /\ SafeQueue(buffer[t], t, world, compared)
        BY <1>1, <1>2, <3>2 DEF TypeOK, SessionInv
      <4> QED
        BY <1>6, <4>1, SafeQueueStays
    <3> QED
      BY <3>1, <3>2
  <2> QED
    BY <1>1, <2>1 DEF SafeQueue, Exists
<1>11. SafeFrame'
  <2>1. (\E n \in DOMAIN inbox'.shakes : inbox'.shakes[n]) => inbox'.from \in compared'
    BY <1>1, <1>2, NothingReadIsTyped DEF SafeFrame
  <2>2. ASSUME "events" \in todo'
        PROVE  /\ buffer'["events"] = <<>>
               /\ inbox'.over = "disconnected" => ~world'.lobby.hosting
    <3>1. "events" \in todo
      BY <1>1, <2>2
    <3>2. buffer["events"] = <<>> /\ (inbox.over = "disconnected" => ~world.lobby.hosting)
      BY <1>2, <3>1 DEF SafeFrame
    <3>3. s # "events" /\ buffer'["events"] = <<>>
      BY <1>1, <1>2, <3>2 DEF TypeOK, Systems
    <3>4. ~world.lobby.hosting => ~world'.lobby.hosting
      BY <1>4, <1>5, <3>3 DEF Unpromoted
    <3> QED
      BY <1>1, <3>2, <3>3, <3>4, NothingReadIsTyped
  <2> QED
    BY <1>1, <2>1, <2>2 DEF SafeFrame
<1> QED
  BY <1>6, <1>8, <1>9, <1>10, <1>11 DEF SessionInv

\* Every step of a frame does.
LEMMA UpdateKeeps ==
  ASSUME SessionInv, Update
  PROVE  SessionInv' /\ Moves(world, world')
<1>1. Systems = {"clocks", "pongs", "handshakes", "matches", "words", "silence",
                 "sockets", "events", "leaving", "joining", "promotion", "publish",
                 "teardown"}
  BY DEF Systems
<1>2. CASE Runs("clocks", Clocks)
  BY <1>1, <1>2, ClocksAreHarmless, RunsKeeps
<1>3. CASE Runs("pongs", Pongs)
  BY <1>1, <1>3, PongsAreHarmless, RunsKeeps
<1>4. CASE Runs("handshakes", Handshakes)
  BY <1>1, <1>4, HandshakesAreHarmless, RunsKeeps
<1>5. CASE Runs("matches", Matches)
  BY <1>1, <1>5, MatchesAreHarmless, RunsKeeps
<1>6. CASE Runs("words", Words)
  BY <1>1, <1>6, WordsAreHarmless, RunsKeeps
<1>7. CASE Runs("silence", Silence)
  BY <1>1, <1>7, SimpleOnesAreHarmless, RunsKeeps
<1>8. CASE Runs("sockets", Sockets)
  BY <1>1, <1>8, SocketsAreHarmless, RunsKeeps
<1>9. CASE Runs("events", LobbyEvents)
  <2>1. "events" \in todo
    BY <1>9 DEF Runs
  <2> QED
    BY <1>1, <1>9, <2>1, EventsAreHarmless, RunsKeeps
<1>10. CASE Runs("leaving", Leaving)
  BY <1>1, <1>10, SimpleOnesAreHarmless, RunsKeeps
<1>11. CASE Runs("joining", Joining)
  BY <1>1, <1>11, SimpleOnesAreHarmless, RunsKeeps
<1>12. CASE Runs("promotion", Promotion)
  BY <1>1, <1>12, SimpleOnesAreHarmless, RunsKeeps
<1>13. CASE Runs("publish", Publish)
  BY <1>1, <1>13, SimpleOnesAreHarmless, RunsKeeps
<1>14. CASE Runs("teardown", Teardown)
  BY <1>1, <1>14, TeardownIsHarmless, RunsKeeps
<1>15. CASE \E s \in Systems : Apply(s)
  BY <1>15, ApplyKeeps
<1> QED
  BY <1>2, <1>3, <1>4, <1>5, <1>6, <1>7, <1>8, <1>9, <1>10, <1>11, <1>12, <1>13,
     <1>14, <1>15 DEF Update

------------------------------------------------------------------------------
\* Steps between frames

\* What may arrive is typed, and comes over a connection.
LEMMA PossibleInputs ==
  ASSUME SessionInv, NEW i \in Possible
  PROVE  /\ i \in Inboxes /\ i.from = world.host
         /\ i.shakes # <<>> => world.host \in world.links
         /\ i.over = "disconnected" => ~world.lobby.hosting
<1> DEFINE reads == Client(world) /\ world.host \in world.links
           few == UNION {[1..n -> BOOLEAN] : n \in 1..2}
<1>1. /\ i.shakes \in (IF reads THEN few ELSE {}) \cup {<<>>}
      /\ i.from = world.host
      /\ i.over \in (IF Client(world) THEN {"disconnected"} ELSE {}) \cup {"no"} \cup
                   ((IF Exists(world) THEN {"closed"} ELSE {}) \cup {"no"})
  BY DEF Possible
<1>2. /\ DOMAIN i = {"ready", "pong", "shakes", "word", "silent", "broken", "named",
                     "over", "leave", "overdue", "from"}
      /\ i = [f \in DOMAIN i |-> i[f]]
      /\ i.ready \in BOOLEAN /\ i.pong \in BOOLEAN /\ i.silent \in BOOLEAN
      /\ i.leave \in BOOLEAN /\ i.overdue \in BOOLEAN
      /\ i.word \in LastWords \cup {"none"}
      /\ i.broken \in {"no", "over", "superseded"}
      /\ i.named \in Players \cup {None}
  BY DEF Possible
<1>3. few \subseteq Seq(BOOLEAN) /\ <<>> \in Seq(BOOLEAN)
  <2>1. few \subseteq UNION {[1..n -> BOOLEAN] : n \in Nat}
    <3>1. 1..2 \subseteq Nat
      OBVIOUS
    <3> DEFINE Shakes(n) == [1..n -> BOOLEAN]
    <3>2. UNION {Shakes(n) : n \in 1..2} \subseteq UNION {Shakes(n) : n \in Nat}
      <4> HIDE DEF Shakes
      <4> QED
        BY <3>1, Zenon
    <3> QED
      BY <3>2
  <2>2. <<>> \in Seq(BOOLEAN)
    OBVIOUS
  <2> QED
    BY <2>1, <2>2, SeqDef
<1>4. i.shakes \in Seq(BOOLEAN)
  BY <1>1, <1>3
<1>5. world.host \in Players \cup {None}
  BY DEF SessionInv, TypeOK, Worlds
<1> HIDE DEF few, reads
<1>6. i \in Inboxes
  BY <1>1, <1>2, <1>4, <1>5 DEF Inboxes, LastWords
<1> QED
  BY <1>1, <1>6 DEF Client, reads

\* Decoding a last word moves nothing else.
LEMMA HeardKeeps ==
  ASSUME SessionInv, NEW i \in Inboxes
  PROVE  LET v == Heard(world, i)
         IN v \in Worlds /\ Sound(v, compared) /\ Still(world, v) /\ v.links = world.links
<1> DEFINE v == Heard(world, i)
<1>1. world \in Worlds /\ Sound(world, compared) /\ i.word \in LastWords
  BY DEF SessionInv, TypeOK, Inboxes
<1>2. v = world \/ v = [world EXCEPT !.said = i.word] \/ v = [world EXCEPT !.lobby.held = i.word]
  BY DEF Heard
<1> HIDE DEF v
<1>3. /\ v \in Worlds /\ v.host = world.host /\ v.removed = world.removed
      /\ v.lobby.phase = world.lobby.phase /\ v.lobby.hosting = world.lobby.hosting
      /\ v.lobby.verified = world.lobby.verified /\ v.lobby.matched = world.lobby.matched
      /\ v.lobby.wait = world.lobby.wait /\ v.links = world.links
  <2>1. CASE v = world
    BY <1>1, <2>1
  <2>2. CASE v = [world EXCEPT !.said = i.word]
    BY <1>1, <2>2 DEF Worlds
  <2>3. CASE v = [world EXCEPT !.lobby.held = i.word]
    BY <1>1, <2>3 DEF Worlds, Lobbies
  <2> QED
    BY <1>2, <2>1, <2>2, <2>3
<1>4. Sound(v, compared) /\ Still(world, v)
  BY <1>1, <1>3 DEF Sound, Still, Exists, Client, Promoted
<1> QED
  BY <1>3, <1>4 DEF v

\* A frame that reads the network keeps the invariant.
LEMMA BeginFrameKeeps ==
  ASSUME SessionInv, BeginFrame
  PROVE  SessionInv' /\ Moves(world, world')
<1>1. PICK i \in Possible :
        LET met == IF \E n \in DOMAIN i.shakes : i.shakes[n] THEN {world.host} ELSE {}
            lost == IF i.broken = "no" THEN {} ELSE {world.host}
            cut == IF i.broken = "over" THEN lost ELSE {}
        IN /\ Busy(i) # {}
           /\ inbox' = i
           /\ todo' = Busy(i)
           /\ namings' = namings + (IF i.named = None THEN 0 ELSE 1)
           /\ world' = [Heard(world, i) EXCEPT !.links = @ \ cut]
           /\ compared' = compared \cup met
           /\ overlink' = (overlink \cup met) \ lost
  BY DEF BeginFrame
<1> DEFINE met == IF \E n \in DOMAIN i.shakes : i.shakes[n] THEN {world.host} ELSE {}
           v == Heard(world, i)
<1>2. Resting /\ buffer' = buffer /\ applying' = applying /\ opened' = opened /\ unled' = unled
  BY DEF BeginFrame
<1>3. TypeOK /\ Sound(world, compared)
  BY DEF SessionInv
<1>4. /\ i \in Inboxes /\ i.from = world.host
      /\ i.shakes # <<>> => world.host \in world.links
      /\ i.over = "disconnected" => ~world.lobby.hosting
  BY PossibleInputs
<1>5. v \in Worlds /\ Sound(v, compared) /\ Still(world, v) /\ v.links = world.links
  BY <1>4, HeardKeeps
<1>6. met \subseteq Players
  <2>1. (\E n \in DOMAIN i.shakes : i.shakes[n]) => i.shakes # <<>>
    <3>1. DOMAIN <<>> = {}
      BY NothingReadIsTyped DEF NothingRead
    <3> QED
      BY <3>1
  <2>2. world.links \subseteq Players
    BY <1>3 DEF TypeOK, Worlds
  <2> QED
    BY <1>4, <2>1, <2>2
<1>7. PICK links \in SUBSET v.links : world' = [v EXCEPT !.links = links]
  BY <1>1
<1>8. /\ compared' = compared \cup met /\ inbox' = i /\ todo' = Busy(i) /\ Busy(i) # {}
      /\ overlink' \subseteq overlink \cup met
      /\ namings' \in {namings, namings + 1}
      /\ (\E n \in DOMAIN i.shakes : i.shakes[n]) => world.host \in met
  <2> DEFINE lost == IF i.broken = "no" THEN {} ELSE {world.host}
  <2>1. /\ compared' = compared \cup met /\ inbox' = i /\ todo' = Busy(i)
        /\ Busy(i) # {}
        /\ overlink' = (overlink \cup met) \ lost
        /\ namings' = namings + (IF i.named = None THEN 0 ELSE 1)
    BY <1>1
  <2>2. namings' \in {namings, namings + 1}
    <3>1. namings \in Nat
      BY <1>3 DEF TypeOK
    <3> QED
      BY <2>1, <3>1
  <2>3. (\E n \in DOMAIN i.shakes : i.shakes[n]) => world.host \in met
    OBVIOUS
  <2> HIDE DEF met, lost
  <2> QED
    BY <2>1, <2>2, <2>3
<1> HIDE DEF met, v
<1>9. /\ world' \in Worlds /\ world'.lobby = v.lobby /\ world'.host = v.host
      /\ world'.removed = v.removed
  BY <1>5, <1>7 DEF Worlds
<1>10. Sound(world', compared')
  BY <1>5, <1>8, <1>9 DEF Sound, Exists, Client, Promoted
<1>11. TypeOK'
  <2>1. Busy(i) \subseteq Systems
    BY DEF Busy
  <2>2. namings' \in Nat /\ compared' \subseteq Players /\ overlink' \subseteq Players
    BY <1>3, <1>6, <1>8 DEF TypeOK
  <2> QED
    BY <1>2, <1>3, <1>4, <1>8, <1>9, <2>1, <2>2 DEF TypeOK
<1>12. \A t \in Systems : SafeQueue(buffer[t], t, world, compared)'
  <2>1. \A t \in Systems : buffer'[t] = <<>>
    BY <1>2 DEF Resting
  <2>2. 1..Len(<<>>) = {}
    OBVIOUS
  <2> QED
    BY <2>1, <2>2 DEF SafeQueue
<1>13. SafeFrame'
  <2>1. buffer'["events"] = <<>>
    BY <1>2 DEF Resting, Systems
  <2>2. world'.lobby.hosting = world.lobby.hosting
    BY <1>5, <1>9 DEF Still
  <2>3. ~Resting'
    BY <1>8 DEF Resting
  <2> QED
    BY <1>4, <1>8, <2>1, <2>2, <2>3 DEF SafeFrame
<1>14. Moves(world, world')
  <2>1. Still(world, world')
    BY <1>5, <1>9 DEF Still
  <2> QED
    BY <2>1, StillMoves
<1>15. Sound(world, compared)'
  BY <1>10 DEF Sound, Exists, Client, Promoted
<1> QED
  BY <1>11, <1>12, <1>13, <1>14, <1>15 DEF SessionInv

\* With nothing queued and nothing to read, any sound world will do.
LEMMA RestingKeeps ==
  ASSUME SessionInv, Resting, TypeOK', Sound(world, compared)',
         UNCHANGED <<inbox, todo, buffer>>
  PROVE  SessionInv'
<1>1. inbox = NothingRead /\ DOMAIN inbox.shakes = {} /\ todo = {}
  BY NothingReadIsTyped DEF SessionInv, SafeFrame, Resting
<1>2. \A t \in Systems : SafeQueue(buffer[t], t, world, compared)'
  <2>1. \A t \in Systems : buffer'[t] = <<>>
    BY DEF Resting
  <2>2. 1..Len(<<>>) = {}
    OBVIOUS
  <2> QED
    BY <2>1, <2>2 DEF SafeQueue
<1>3. SafeFrame'
  BY <1>1 DEF SafeFrame
<1> QED
  BY <1>2, <1>3 DEF SessionInv

\* A join keeps it, and is the only way out of "out".
LEMMA JoinKeeps ==
  ASSUME SessionInv, Join
  PROVE  /\ SessionInv'
         /\ StageOf(world) = "out" /\ StageOf(world') = "joining" /\ world'.host \in Others
<1>1. PICK h \in Others, m \in BOOLEAN, r \in BOOLEAN :
        world' = [world EXCEPT !.lobby = [@ EXCEPT !.phase = "pending",
                                            !.migratable = m, !.reconnectable = r],
                               !.host = h, !.left = <<>>]
  BY DEF Join
<1>2. /\ Resting /\ ~Exists(world) /\ ~world.removed
      /\ opened' = opened + 1 /\ compared' = {} /\ overlink' = {} /\ unled' = 0
      /\ UNCHANGED <<inbox, todo, buffer>> /\ applying' = applying /\ namings' = namings
  BY DEF Join
<1>3. TypeOK /\ Sound(world, compared)
  BY DEF SessionInv
<1> DEFINE l == [world.lobby EXCEPT !.phase = "pending", !.migratable = m, !.reconnectable = r]
           none == <<>>
<1>4. none \in Seq(Reasons)
  OBVIOUS
<1>5. /\ l \in Lobbies /\ l.phase = "pending" /\ l.hosting = world.lobby.hosting
      /\ l.wait = world.lobby.wait /\ l.verified = world.lobby.verified
      /\ l.matched = world.lobby.matched
  BY <1>3 DEF TypeOK, Worlds, Lobbies
<1>6. world' = [world EXCEPT !.lobby = l, !.host = h, !.left = none]
  BY <1>1
<1> HIDE DEF l, none
<1>7. world' \in Worlds /\ world'.lobby = l /\ world'.host = h /\ world'.removed = world.removed
  BY <1>3, <1>4, <1>5, <1>6 DEF TypeOK, Worlds, Players
<1>8. ~world.lobby.hosting /\ ~world.lobby.wait.on
  BY <1>2, <1>3 DEF Sound, Exists, Client, Promoted
<1>9. Sound(world, compared)'
  BY <1>2, <1>3, <1>5, <1>7, <1>8 DEF Sound, Exists, Client, Promoted
<1>10. TypeOK'
  BY <1>2, <1>3, <1>7 DEF TypeOK
<1>11. SessionInv'
  BY <1>2, <1>9, <1>10, RestingKeeps
<1>12. StageOf(world) = "out" /\ StageOf(world') = "joining"
  BY <1>2, <1>5, <1>7, <1>8 DEF StageOf, Exists, Promoted
<1> QED
  BY <1>7, <1>11, <1>12

\* A connection that opens keeps it.
LEMMA ConnectKeeps ==
  ASSUME SessionInv, Connect
  PROVE  SessionInv' /\ Moves(world, world')
<1> DEFINE links == world.links \cup {world.host}
<1>1. /\ Resting /\ Client(world) /\ world.host # None
      /\ world' = [world EXCEPT !.links = links]
      /\ UNCHANGED <<inbox, todo, buffer, applying, opened, namings, compared, overlink, unled>>
  BY DEF Connect
<1>2. TypeOK /\ Sound(world, compared)
  BY DEF SessionInv
<1>3. links \in SUBSET Players
  BY <1>1, <1>2 DEF TypeOK, Worlds
<1> HIDE DEF links
<1>4. /\ world' \in Worlds /\ world'.lobby = world.lobby /\ world'.host = world.host
      /\ world'.removed = world.removed
  BY <1>1, <1>2, <1>3 DEF TypeOK, Worlds
<1>5. Sound(world, compared)'
  BY <1>1, <1>2, <1>4 DEF Sound, Exists, Client, Promoted
<1>6. TypeOK'
  BY <1>1, <1>2, <1>4 DEF TypeOK
<1>7. Still(world, world')
  BY <1>4 DEF Still
<1> QED
  BY <1>1, <1>5, <1>6, <1>7, RestingKeeps, StillMoves
------------------------------------------------------------------------------
\* The specification keeps the invariant

\* The invariant holds at first.
LEMMA InitInv ==
  ASSUME Init
  PROVE  SessionInv /\ StageOf(world) = "out" /\ world.host = None
<1> DEFINE none == <<>>
<1>1. /\ world = [lobby |-> NoLobby, host |-> None, links |-> {}, said |-> "none",
                  left |-> none, removed |-> FALSE, panicked |-> FALSE]
      /\ inbox = NothingRead /\ todo = {} /\ applying = None
      /\ buffer = [s \in Systems |-> <<>>]
      /\ opened = 0 /\ namings = 0 /\ unled = 0
      /\ compared = {} /\ overlink = {}
  BY DEF Init
<1>2. none \in Seq(Reasons) /\ <<>> \in Seq(Commands) /\ 1..Len(<<>>) = {}
  OBVIOUS
<1> HIDE DEF none
<1>3. world \in Worlds
  BY <1>1, <1>2, NothingIsTyped DEF Worlds, LastWords
<1>4. TypeOK
  BY <1>1, <1>2, <1>3, NothingReadIsTyped DEF TypeOK
<1>5. Sound(world, compared)
  BY <1>1 DEF Sound, NoLobby, NotWaiting, Exists
<1>6. \A s \in Systems : SafeQueue(buffer[s], s, world, compared)
  BY <1>1, <1>2 DEF SafeQueue
<1>7. SafeFrame
  <2>1. ~(\E n \in DOMAIN inbox.shakes : inbox.shakes[n])
    BY <1>1, NothingReadIsTyped DEF NothingRead
  <2> QED
    BY <1>1, <2>1 DEF SafeFrame
<1> QED
  BY <1>1, <1>4, <1>5, <1>6, <1>7 DEF SessionInv, StageOf, NoLobby, Exists

\* Every step keeps it, and moves the world as LobbyStage has it.
LEMMA NextInv ==
  ASSUME SessionInv, [Next]_vars
  PROVE  /\ SessionInv'
         /\ \/ Moves(world, world')
            \/ /\ StageOf(world) = "out" /\ StageOf(world') = "joining"
               /\ world'.host \in Others
<1>1. CASE BeginFrame
  BY <1>1, BeginFrameKeeps
<1>2. CASE Update
  BY <1>2, UpdateKeeps
<1>3. CASE Join
  BY <1>3, JoinKeeps
<1>4. CASE Connect
  BY <1>4, ConnectKeeps
<1>5. CASE UNCHANGED vars
  BY <1>5 DEF vars, SessionInv, TypeOK, Sound, SafeQueue, SafeFrame, Resting, Exists,
              Client, Promoted, Moves
<1> QED
  BY <1>1, <1>2, <1>3, <1>4, <1>5 DEF Next

\* So it holds throughout.
LEMMA InvHolds == Spec => []SessionInv
<1>1. Init => SessionInv
  BY InitInv
<1>2. SessionInv /\ [Next]_vars => SessionInv'
  BY NextInv
<1> QED
  BY <1>1, <1>2, PTL DEF Spec

\* Every variable keeps its type, commands queued and applied included: no
\* interleaving leaves half a lobby, a host that is nobody's or a command that
\* DoKeeps does not account for.
THEOREM SessionTypeCorrect == Spec => []TypeOK
<1>1. SessionInv => TypeOK
  BY DEF SessionInv
<1> QED
  BY <1>1, InvHolds, PTL

\* Whatever was queued before a host changed or a session ended, a client reads
\* nothing from a host whose protocol was not compared in this very session
\* (HandshakeVerified with its VerifiedHost, ProtocolMatched).
THEOREM ReadsOnlyTheCompared == Spec => []VerifiedMeansCompared
<1>1. SessionInv => VerifiedMeansCompared
  BY PlayersAssumption DEF SessionInv, Sound, VerifiedMeansCompared, HostIsVerified
<1> QED
  BY <1>1, InvHolds, PTL

\* AwaitingHost is only on a client's promoted lobby, and for nobody but the
\* host HostUuid names (host_lost, new_host_named, reconnect_ran_out).
THEOREM WaitsOnlyForTheHost == Spec => []WaitsAreForTheHost
<1>1. SessionInv => WaitsAreForTheHost
  BY DEF SessionInv, Sound, WaitsAreForTheHost
<1> QED
  BY <1>1, InvHolds, PTL

\* Every step of the session is a step of LobbyStage or changes nothing a game
\* sees of its stage: in particular a hosting peer stays host until the session
\* is over, and a host is replaced only by one being named.
THEOREM SessionKeepsItsStages == Spec => KeepsItsStages
<1>1. Init => Stages!Init
  BY InitInv DEF Stages!Init
<1>2. SessionInv /\ [Next]_vars => [Stages!Next]_<<StageOf(world), world.host>>
  <2> SUFFICES ASSUME SessionInv, [Next]_vars
               PROVE  [Stages!Next]_<<StageOf(world), world.host>>
    OBVIOUS
  <2> DEFINE from == StageOf(world)
             to == StageOf(world')
  <2>1. \/ Moves(world, world')
        \/ from = "out" /\ to = "joining" /\ world'.host \in Others
    BY NextInv
  <2>2. StageOf(world)' = to /\ (world.host)' = world'.host
    BY DEF StageOf, Exists, Promoted
  <2>3. CASE Moves(world, world')
    BY <2>2, <2>3 DEF Moves, Stages!Next, Stages!Enter, Stages!Lose, Stages!Name,
                      Stages!Resume, Stages!End, Stages!Forget, Stages!Players, Players
  <2>4. CASE from = "out" /\ to = "joining" /\ world'.host \in Others
    BY <2>2, <2>4 DEF Stages!Next, Stages!Join
  <2> QED
    BY <2>1, <2>3, <2>4
<1> QED
  BY <1>1, <1>2, InvHolds, PTL DEF Spec, KeepsItsStages, Stages!Spec
------------------------------------------------------------------------------
\* How long a peer waits, and what it is told

\* A wait that has gone on for n frames since the host was lost or one named:
\* it is for as long as was promised, and not past that.
WaitSound(w, n) ==
  /\ Exists(w) => w.host # None
  /\ w.lobby.wait.on =>
       /\ w.lobby.wait.previous # None
       /\ w.lobby.wait.waited = n
       /\ w.lobby.wait.waited <= w.lobby.wait.limit
       /\ w.lobby.wait.limit = Due(w)

\* What run_host_migration_clocks has queued: a wait at its limit is one it has
\* ended, unless it is for a host to come back and another command does so.
ClockQueue(queue, wait) ==
  /\ Len(queue) <= 1
  /\ queue # <<>> => Head(queue).do \in {"end", "ranOut"}
  /\ wait.on /\ wait.waited = wait.limit =>
       /\ queue # <<>>
       /\ Head(queue).do = "ranOut" => IsReconnect(wait)

\* A frame that brought no other news of a host, and the end of a wait in it.
Quiet(i) == i.named = None /\ i.broken = "no" /\ ~i.silent
EndIsDue(queue, wait, i) ==
  Quiet(i) /\ wait.on /\ queue # <<>> /\ Head(queue).do = "end" =>
    wait.waited = wait.limit

\* A wait begins only on news of a host, and a name queued is news when it is
\* applied: this is not the host already followed.
NewsQueue(queue, s, w, i) ==
  \A k \in 1..Len(queue) :
    /\ queue[k].do = "ranOut" => s = "clocks"
    /\ queue[k].do = "hostLost" => i.broken # "no" \/ i.silent
    /\ queue[k].do = "named" =>
         /\ k = 1 /\ i.named # None
         /\ Exists(w) => /\ queue[k].previous \notin {None, queue[k].host}
                         /\ queue[k].host # w.host

\* Whether a despawn is queued.
Despawns(queue) == \E k \in 1..Len(queue) : queue[k].do = "despawn"

\* A system that is to run has nothing queued, and what gave it work is there.
\* Only detect_lobby_leave may get work again, and it despawns nothing.
FrameInv ==
  /\ \A s \in todo \ {"teardown"} : buffer[s] = <<>>
  /\ "sockets" \in todo => inbox.broken # "no"
  /\ "events" \in todo /\ Exists(world) /\ inbox.named # None =>
       inbox.from = world.host /\ inbox.from # inbox.named
  /\ Len(inbox.shakes) <= 2
  /\ ~Despawns(buffer["teardown"])

\* Nobody asked for a despawn that was not told of, and a session told of as
\* over is about to be.
ToldInv ==
  Exists(world) =>
    /\ \A s \in Systems \ {"leaving", "joining"} :
         Despawns(buffer[s]) => world.left # <<>>
    /\ world.left # <<>> => \E s \in Systems : Despawns(buffer[s])

WaitInv ==
  /\ WaitSound(world, unled)
  /\ ClockQueue(buffer["clocks"], world.lobby.wait)
  /\ EndIsDue(buffer["clocks"], world.lobby.wait, inbox)
  /\ \A s \in Systems : NewsQueue(buffer[s], s, world, inbox)

LossInv == SessionInv /\ FrameInv /\ WaitInv /\ ToldInv

------------------------------------------------------------------------------
\* What a command does to the wait there is

\* The wait goes on, if there is one.
GoesOn(w, v) ==
  /\ Exists(v) = Exists(w) /\ v.host = w.host
  /\ v.lobby.migratable = w.lobby.migratable
  /\ v.lobby.wait.on = w.lobby.wait.on
  /\ v.lobby.wait.previous = w.lobby.wait.previous
  /\ v.lobby.wait.successor = w.lobby.wait.successor
  /\ v.lobby.wait.waited = w.lobby.wait.waited
  /\ v.lobby.wait.limit = w.lobby.wait.limit

\* Whether the host is lost or one is named, as LosesOrNames has it.
News(w, v) ==
  \/ v.host # w.host
  \/ v.lobby.wait.on # w.lobby.wait.on
  \/ v.lobby.wait.previous # w.lobby.wait.previous

\* A wait begins.
Begins(w, v) ==
  /\ News(w, v)
  /\ v.lobby.wait.previous # None
  /\ v.lobby.wait.waited = 0
  /\ v.lobby.wait.limit = Due(v)

\* What is left of the time for a successor, after waiting for the same host.
Extends(w, v) ==
  /\ ~News(w, v)
  /\ w.lobby.wait.on
  /\ v.lobby.wait.successor = None
  /\ v.lobby.wait.waited = w.lobby.wait.waited
  /\ v.lobby.wait.waited < SuccessorWithin
  /\ v.lobby.wait.limit = SuccessorWithin

\* What a command of this kind may make of a world.
Passes(w, what, v) ==
  /\ Exists(v) => Exists(w) /\ v.left = w.left /\ v.host # None
  /\ what \in {"end", "despawn"} => ~Exists(v)
  /\ Exists(v) /\ what # "named" => v.host = w.host
  /\ Exists(w) /\ ~Exists(v) =>
       /\ IF what = "despawn" THEN v.left = w.left ELSE v.left # <<>>
       /\ what = "ranOut" => w.lobby.wait.waited >= w.lobby.wait.limit
  /\ v.lobby.wait.on =>
       /\ \/ GoesOn(w, v)
          \/ what \in {"hostLost", "named"} /\ Begins(w, v)
          \/ what = "ranOut" /\ Extends(w, v)
       /\ what = "ranOut" =>
            ~IsReconnect(v.lobby.wait) \/ v.lobby.wait.waited < v.lobby.wait.limit

\* A wait that goes on is due when it was.
LEMMA DueGoesOn ==
  ASSUME NEW w, NEW v, GoesOn(w, v)
  PROVE  Due(v) = Due(w) /\ IsReconnect(v.lobby.wait) = IsReconnect(w.lobby.wait)
BY DEF GoesOn, Due, IsReconnect

\* Where no lobby is, nothing comes of a command.
LEMMA NothingPasses ==
  ASSUME NEW w, NEW v, NEW what, NEW hosts, Sound(v, hosts), ~Exists(w), ~Exists(v)
  PROVE  Passes(w, what, v)
BY DEF Passes, Sound, Client

\* A command that leaves the wait alone.
LEMMA GoesOnPasses ==
  ASSUME NEW w, NEW v, NEW n, NEW what, WaitSound(w, n), GoesOn(w, v), v.left = w.left,
         what \notin {"ranOut", "end", "despawn"}
  PROVE  Passes(w, what, v)
BY DEF Passes, GoesOn, WaitSound

\* end_client_session tells of the end, whoever asked for it.
LEMMA EndPasses ==
  ASSUME NEW w \in Worlds, NEW hosts, Sound(w, hosts), NEW reason \in Reasons,
         NEW what, what # "despawn",
         what = "ranOut" => w.lobby.wait.waited >= w.lobby.wait.limit
  PROVE  Passes(w, what, EndClientSession(w, reason))
<1> DEFINE v == EndClientSession(w, reason)
<1>1. CASE ~Exists(w)
  <2>1. v = w
    BY <1>1 DEF EndClientSession
  <2> QED
    BY <1>1, <2>1, NothingPasses
<1>2. CASE Exists(w)
  <2> DEFINE gone == Despawn(w)
  <2>1. gone.lobby = NoLobby /\ gone \in Worlds
    BY <1>2, NothingIsTyped DEF Despawn, Worlds
  <2>2. v = Tell(gone, reason)
    BY <1>2 DEF EndClientSession
  <2> HIDE DEF gone
  <2>3. v.lobby = NoLobby /\ v.left = Append(gone.left, reason)
    BY <2>1, <2>2 DEF Tell, Worlds
  <2>4. Append(gone.left, reason) # <<>>
    BY <2>1 DEF Worlds
  <2> QED
    BY <2>3, <2>4 DEF Passes, NoLobby, NotWaiting, Exists
<1> QED
  BY <1>1, <1>2

\* So does end_client_lobbies.
LEMMA EndLobbiesPasses ==
  ASSUME NEW w \in Worlds, NEW hosts, Sound(w, hosts), NEW reason \in Reasons
  PROVE  Passes(w, "endLobbies", EndClientLobbies(w, reason))
<1> DEFINE v == EndClientLobbies(w, reason)
<1>1. CASE ~Exists(w)
  <2>1. v = w
    BY <1>1 DEF EndClientLobbies
  <2> QED
    BY <1>1, <2>1, NothingPasses
<1>2. CASE Exists(w)
  <2> DEFINE gone == Despawn(w)
             told == Tell(gone, reason)
  <2>1. gone.lobby = NoLobby /\ gone \in Worlds
    BY <1>2, NothingIsTyped DEF Despawn, Worlds
  <2>2. v = [told EXCEPT !.host = None]
    BY <1>2 DEF EndClientLobbies
  <2> HIDE DEF gone
  <2>3. /\ told.lobby = NoLobby /\ told.left = Append(gone.left, reason)
        /\ DOMAIN told = DOMAIN gone
    BY <2>1 DEF Tell, Worlds
  <2>4. Append(gone.left, reason) # <<>>
    BY <2>1 DEF Worlds
  <2>5. v.lobby = NoLobby /\ v.left = told.left
    BY <2>1, <2>2, <2>3 DEF Tell, Worlds
  <2> QED
    BY <2>3, <2>4, <2>5 DEF Passes, NoLobby, NotWaiting, Exists
<1> QED
  BY <1>1, <1>2

\* A despawn takes the wait with it, and tells nobody.
LEMMA DespawnPasses ==
  ASSUME NEW w \in Worlds, NEW hosts, Sound(w, hosts)
  PROVE  Passes(w, "despawn", Despawn(w))
<1>1. CASE ~Exists(w)
  <2>1. Despawn(w) = w
    BY <1>1 DEF Despawn
  <2> QED
    BY <1>1, <2>1, NothingPasses
<1>2. CASE Exists(w)
  <2>1. Despawn(w).lobby = NoLobby /\ Despawn(w).left = w.left
    BY <1>2 DEF Despawn, Worlds
  <2> QED
    BY <2>1 DEF Passes, NoLobby, NotWaiting, Exists
<1> QED
  BY <1>1, <1>2

\* The wait for the same host to come back begins when it is lost.
LEMMA ReconnectPasses ==
  ASSUME NEW w \in Worlds, NEW n, WaitSound(w, n), NEW cause \in Causes,
         Exists(w), ~w.lobby.wait.on
  PROVE  Passes(w, "hostLost", WaitForReconnect(w, cause))
<1> DEFINE u == ForgetHostLink(w, {w.host})
           wait == Wait(w.host, w.host, cause, ReconnectWithin)
           links == IF cause = "Silence" THEN u.links \ {w.host} ELSE u.links
           v == [u EXCEPT !.lobby.wait = wait, !.links = links]
<1>1. v = WaitForReconnect(w, cause)
  BY DEF WaitForReconnect
<1>2. u \in Worlds /\ u.host = w.host /\ u.lobby.phase = w.lobby.phase
  BY ForgetHostLinkKeeps
<1>3. u.left = w.left
  BY DEF ForgetHostLink, Worlds
<1>4. /\ wait.on /\ wait.previous = w.host /\ wait.successor = w.host
      /\ wait.waited = 0 /\ wait.limit = ReconnectWithin
  BY DEF Wait
<1> HIDE DEF u, wait, links
<1>5. /\ v.host = w.host /\ v.left = w.left /\ v.lobby.phase = w.lobby.phase
      /\ v.lobby.wait = wait
  BY <1>2, <1>3 DEF Worlds, Lobbies
<1> HIDE DEF v
<1>6. w.host # None
  BY DEF WaitSound
<1>7. Begins(w, v) /\ Exists(v)
  BY <1>4, <1>5, <1>6 DEF Begins, News, Due, IsReconnect, Exists
<1>8. Passes(w, "hostLost", v)
  BY <1>5, <1>6, <1>7 DEF Passes
<1> QED
  BY <1>1, <1>8

\* Any other loss: a first one begins a wait for a successor, so does that of a
\* host just named, and a second word about the same loss changes no clock.
LEMMA SuccessorPasses ==
  ASSUME NEW w \in Worlds, NEW n, WaitSound(w, n), NEW cause \in Causes,
         Exists(w), ~IsReconnect(w.lobby.wait)
  PROVE  Passes(w, "hostLost", [w EXCEPT !.lobby.wait = WaitForSuccessor(w, cause)])
<1> DEFINE old == w.lobby.wait
           wait == WaitForSuccessor(w, cause)
           v == [w EXCEPT !.lobby.wait = wait]
<1>1. old \in Waits /\ w.host # None
  BY DEF Worlds, Lobbies, WaitSound
<1>2. CASE ~old.on
  <2>1. /\ wait.on /\ wait.previous = w.host /\ wait.successor = None
        /\ wait.waited = 0 /\ wait.limit = SuccessorWithin
    BY <1>2 DEF WaitForSuccessor, Wait
  <2> HIDE DEF wait
  <2>2. /\ v.host = w.host /\ v.left = w.left /\ v.lobby.phase = w.lobby.phase
        /\ v.lobby.wait = wait
    BY DEF Worlds, Lobbies
  <2> HIDE DEF v
  <2>3. Begins(w, v) /\ Exists(v)
    BY <1>1, <1>2, <2>1, <2>2 DEF Begins, News, Due, Exists
  <2>4. Passes(w, "hostLost", v)
    BY <1>1, <2>2, <2>3 DEF Passes
  <2> QED
    BY <2>4 DEF v, wait
<1>3. CASE old.on /\ old.successor = None
  <2>1. /\ wait.on /\ wait.previous = old.previous /\ wait.successor = old.successor
        /\ wait.waited = old.waited /\ wait.limit = old.limit
    BY <1>1, <1>3 DEF WaitForSuccessor, Waits
  <2> HIDE DEF wait
  <2>2. /\ v.host = w.host /\ v.left = w.left /\ v.lobby.phase = w.lobby.phase
        /\ v.lobby.migratable = w.lobby.migratable /\ v.lobby.wait = wait
    BY DEF Worlds, Lobbies
  <2> HIDE DEF v
  <2>3. GoesOn(w, v)
    BY <1>3, <2>1, <2>2 DEF GoesOn, Exists
  <2>4. Passes(w, "hostLost", v)
    BY <2>2, <2>3, GoesOnPasses
  <2> QED
    BY <2>4 DEF v, wait
<1>4. CASE old.on /\ old.successor # None
  <2>1. /\ wait.on /\ wait.previous = old.successor /\ wait.successor = None
        /\ wait.waited = 0 /\ wait.limit = SuccessorWithin
    BY <1>4 DEF WaitForSuccessor, Wait
  <2>2. old.previous # old.successor
    BY <1>4 DEF IsReconnect
  <2> HIDE DEF wait
  <2>3. /\ v.host = w.host /\ v.left = w.left /\ v.lobby.phase = w.lobby.phase
        /\ v.lobby.wait = wait
    BY DEF Worlds, Lobbies
  <2> HIDE DEF v
  <2>4. Begins(w, v) /\ Exists(v)
    BY <1>4, <2>1, <2>2, <2>3 DEF Begins, News, Due, Exists
  <2>5. Passes(w, "hostLost", v)
    BY <1>1, <2>3, <2>4 DEF Passes
  <2> QED
    BY <2>5 DEF v, wait
<1> QED
  BY <1>2, <1>3, <1>4

\* host_lost.
LEMMA HostLostPasses ==
  ASSUME NEW w \in Worlds, NEW hosts, NEW n, NEW cause \in Causes,
         Sound(w, hosts), WaitSound(w, n)
  PROVE  Passes(w, "hostLost", HostLost(w, cause))
<1> DEFINE v == HostLost(w, cause)
           waiting == [w EXCEPT !.lobby.wait = WaitForSuccessor(w, cause)]
<1>1. GoneReason(cause) \in Reasons /\ "HostGone" \in Reasons
  BY DEF GoneReason, Reasons, Causes
<1>2. CASE v = w
  <2>1. GoesOn(w, w)
    BY DEF GoesOn
  <2> HIDE DEF v
  <2>2. Passes(w, "hostLost", v)
    BY <1>2, <2>1, GoesOnPasses
  <2> QED
    BY <2>2 DEF v
<1>3. CASE \E reason \in Reasons : v = EndClientSession(w, reason)
  BY <1>3, EndPasses
<1>4. CASE Exists(w) /\ ~w.lobby.wait.on /\ v = WaitForReconnect(w, cause)
  BY <1>4, ReconnectPasses
<1>5. CASE Exists(w) /\ ~IsReconnect(w.lobby.wait) /\ v = waiting
  BY <1>5, SuccessorPasses
<1>6. \/ v = w
      \/ \E reason \in Reasons : v = EndClientSession(w, reason)
      \/ Exists(w) /\ ~w.lobby.wait.on /\ v = WaitForReconnect(w, cause)
      \/ Exists(w) /\ ~IsReconnect(w.lobby.wait) /\ v = waiting
  BY <1>1, Zenon DEF HostLost, Client
<1> QED
  BY <1>2, <1>3, <1>4, <1>5, <1>6

\* This peer becomes host, and waits for nobody.
LEMMA TakeOverPasses ==
  ASSUME NEW w \in Worlds, NEW u \in Worlds, Exists(w), u.left = w.left
  PROVE  Passes(w, "named", TakeOver(u))
<1> DEFINE v == TakeOver(u)
<1>1. /\ v.host = Me /\ v.left = u.left /\ v.lobby.phase = "lobby"
      /\ v.lobby.wait = NotWaiting
  BY DEF TakeOver, Worlds, Lobbies
<1> HIDE DEF v
<1>2. Exists(v) /\ v.host # None
  BY <1>1, PlayersAssumption DEF Exists
<1>3. Passes(w, "named", v)
  BY <1>1, <1>2 DEF Passes, NotWaiting
<1> QED
  BY <1>3 DEF v

\* A host that is news is waited for from the moment it is named.
LEMMA FollowPasses ==
  ASSUME NEW w \in Worlds, NEW u \in Worlds, NEW hosts, Sound(w, hosts), Exists(w),
         u.host = w.host, u.left = w.left, u.lobby.phase = w.lobby.phase,
         u.lobby.wait = w.lobby.wait,
         NEW previous \in Players, NEW new_host \in Players,
         previous # new_host, new_host # w.host
  PROVE  Passes(w, "named", Follow(u, previous, new_host))
<1> DEFINE cause == IF u.lobby.wait.on THEN u.lobby.wait.cause ELSE "Transport"
           within == IF u.lobby.migratable THEN ReachWithin ELSE DefaultReach
           next == Wait(previous, new_host, cause, within)
           wait == IF ~Promoted(u) THEN u.lobby.wait ELSE next
           v == [u EXCEPT !.host = new_host, !.lobby.wait = wait]
<1>1. v = Follow(u, previous, new_host)
  BY DEF Follow
<1>2. /\ next.on /\ next.previous = previous /\ next.successor = new_host
      /\ next.waited = 0 /\ next.limit = within
  BY DEF Wait
<1> HIDE DEF next
<1>3. ~Promoted(w) => ~w.lobby.wait.on
  BY DEF Sound
<1>4. /\ Promoted(w) => wait = next
      /\ ~Promoted(w) => ~wait.on
  BY <1>3 DEF Promoted
<1> HIDE DEF wait
<1>5. /\ v.host = new_host /\ v.left = w.left /\ v.lobby.phase = w.lobby.phase
      /\ v.lobby.wait = wait /\ v.lobby.migratable = u.lobby.migratable
  BY DEF Worlds, Lobbies
<1> HIDE DEF v
<1>6. Exists(v) /\ new_host # None /\ previous # None
  BY <1>5, PlayersAssumption DEF Exists, Players
<1>7. wait.on => Begins(w, v)
  BY <1>2, <1>4, <1>5, <1>6 DEF Begins, News, Due, IsReconnect
<1>8. Passes(w, "named", v)
  BY <1>5, <1>6, <1>7 DEF Passes
<1> QED
  BY <1>1, <1>8

\* new_host_named, of a host that is news.
LEMMA NamedPasses ==
  ASSUME NEW w \in Worlds, NEW hosts, NEW n, Sound(w, hosts), WaitSound(w, n),
         NEW previous \in Players \cup {None}, NEW new_host \in Players,
         Exists(w) => previous \notin {None, new_host} /\ new_host # w.host
  PROVE  Passes(w, "named", NewHostNamed(w, previous, new_host))
<1> DEFINE u == ForgetHostLink(w, {previous, w.host} \ {new_host})
           v == NewHostNamed(w, previous, new_host)
<1>1. CASE ~Client(w)
  <2>1. v = w
    BY <1>1 DEF NewHostNamed
  <2>2. GoesOn(w, w)
    BY DEF GoesOn
  <2> HIDE DEF v
  <2>3. Passes(w, "named", v)
    BY <2>1, <2>2, GoesOnPasses
  <2> QED
    BY <2>3 DEF v
<1>2. CASE Client(w)
  <2>1. /\ u \in Worlds /\ u.host = w.host /\ u.lobby.phase = w.lobby.phase
        /\ u.lobby.wait = w.lobby.wait
    BY ForgetHostLinkKeeps
  <2>2. u.left = w.left
    BY DEF ForgetHostLink, Worlds
  <2>3. v = IF new_host = Me THEN TakeOver(u) ELSE Follow(u, previous, new_host)
    BY <1>2 DEF NewHostNamed
  <2> HIDE DEF u, v
  <2>4. Exists(w)
    BY <1>2 DEF Client
  <2>5. Passes(w, "named", v)
    BY <2>1, <2>2, <2>3, <2>4, TakeOverPasses, FollowPasses
  <2> QED
    BY <2>5 DEF v
<1> QED
  BY <1>1, <1>2

\* reconnect_ran_out: the time for a successor is what is left of it, not more.
LEMMA RanOutPasses ==
  ASSUME NEW w \in Worlds, NEW hosts, NEW n, Sound(w, hosts), WaitSound(w, n)
  PROVE  Passes(w, "ranOut", ReconnectRanOut(w))
<1> DEFINE wait == w.lobby.wait
           next == [wait EXCEPT !.successor = None, !.limit = SuccessorWithin]
           waiting == [w EXCEPT !.lobby.wait.successor = None,
                                !.lobby.wait.limit = SuccessorWithin]
           v == ReconnectRanOut(w)
<1>1. /\ wait \in Waits /\ wait.waited \in Nat /\ wait.limit \in Nat
      /\ SuccessorWithin \in Nat
  BY LimitsAreNaturals DEF Worlds, Lobbies, Waits
<1>2. GoneReason(wait.cause) \in Reasons
  BY DEF GoneReason, Reasons
<1>3. CASE v = w /\ (~IsReconnect(wait) \/ wait.waited < wait.limit)
  <2> HIDE DEF v
  <2>1. GoesOn(w, w)
    BY DEF GoesOn
  <2>2. Passes(w, "ranOut", v)
    BY <1>3, <2>1 DEF Passes, WaitSound
  <2> QED
    BY <2>2 DEF v
<1>4. CASE v = EndClientSession(w, GoneReason(wait.cause)) /\ wait.waited >= wait.limit
  BY <1>2, <1>4, EndPasses
<1>5. CASE v = waiting /\ wait.on /\ wait.waited < SuccessorWithin
  <2>1. waiting = [w EXCEPT !.lobby.wait = next]
    BY <1>1 DEF Worlds, Lobbies, Waits
  <2>2. /\ next.on = wait.on /\ next.previous = wait.previous /\ next.successor = None
        /\ next.waited = wait.waited /\ next.limit = SuccessorWithin
    BY <1>1 DEF Waits
  <2> HIDE DEF next, v, waiting
  <2>3. /\ waiting.host = w.host /\ waiting.left = w.left
        /\ waiting.lobby.phase = w.lobby.phase /\ waiting.lobby.wait = next
    BY <2>1 DEF Worlds, Lobbies
  <2>4. Exists(w) /\ w.host # None
    BY <1>5 DEF Sound, Client, WaitSound
  <2>5. Extends(w, waiting) /\ Exists(waiting)
    BY <1>5, <2>2, <2>3, <2>4 DEF Extends, News, Exists
  <2>6. Passes(w, "ranOut", waiting)
    BY <1>5, <2>2, <2>3, <2>4, <2>5 DEF Passes
  <2> QED
    BY <1>5, <2>6 DEF v
<1>6. \/ v = w /\ (~IsReconnect(wait) \/ wait.waited < wait.limit)
      \/ v = EndClientSession(w, GoneReason(wait.cause)) /\ wait.waited >= wait.limit
      \/ v = waiting /\ wait.on /\ wait.waited < SuccessorWithin
  <2> DEFINE over == EndClientSession(w, GoneReason(wait.cause))
  <2>1. v = IF ~IsReconnect(wait) \/ wait.waited < wait.limit THEN w
            ELSE IF w.lobby.migratable /\ SuccessorWithin > wait.waited THEN waiting
            ELSE over
    BY DEF ReconnectRanOut
  <2>2. IsReconnect(wait) => wait.on
    BY DEF IsReconnect
  <2> HIDE DEF v, waiting, over
  <2> QED
    BY <1>1, <2>1, <2>2 DEF over
<1> QED
  BY <1>3, <1>4, <1>5, <1>6

\* The wait is over: its host was reached or has spoken.
LEMMA StopPasses ==
  ASSUME NEW w \in Worlds, NEW n, WaitSound(w, n)
  PROVE  Passes(w, "stopWaiting", StopWaiting(w))
<1> DEFINE v == StopWaiting(w)
<1>1. /\ v.host = w.host /\ v.left = w.left /\ v.lobby.phase = w.lobby.phase
      /\ v.lobby.wait = NotWaiting
  BY DEF StopWaiting, Worlds, Lobbies
<1> HIDE DEF v
<1>2. Exists(v) = Exists(w)
  BY <1>1 DEF Exists
<1>3. Passes(w, "stopWaiting", v)
  BY <1>1, <1>2 DEF Passes, NotWaiting, WaitSound
<1> QED
  BY <1>3 DEF v

\* A verdict on a host.
LEMMA VerifyPasses ==
  ASSUME NEW w \in Worlds, NEW n, WaitSound(w, n), NEW host
  PROVE  Passes(w, "verify", Verify(w, host))
<1> DEFINE v == Verify(w, host)
           replayed == w.lobby.verified = None /\ w.lobby.held # "none"
           held == IF replayed THEN "none" ELSE w.lobby.held
           said == IF replayed THEN w.lobby.held ELSE w.said
           u == [w EXCEPT !.lobby.verified = host, !.lobby.held = held, !.said = said]
<1>1. v = w \/ v = u
  BY DEF Verify
<1> HIDE DEF held, said
<1>2. /\ u.host = w.host /\ u.left = w.left /\ u.lobby.phase = w.lobby.phase
      /\ u.lobby.wait = w.lobby.wait /\ u.lobby.migratable = w.lobby.migratable
  BY DEF Worlds, Lobbies
<1> HIDE DEF u, v
<1>3. GoesOn(w, v) /\ v.left = w.left
  BY <1>1, <1>2 DEF GoesOn, Exists
<1>4. Passes(w, "verify", v)
  BY <1>3, GoesOnPasses
<1> QED
  BY <1>4 DEF v

\* A lobby promoted.
LEMMA PromotePasses ==
  ASSUME NEW w \in Worlds, NEW hosts, NEW n, Sound(w, hosts), WaitSound(w, n)
  PROVE  Passes(w, "promote", Promote(w))
<1> DEFINE v == Promote(w)
<1>1. CASE ~Exists(w)
  <2>1. v.lobby = w.lobby
    BY <1>1 DEF Promote, Worlds
  <2>2. ~Exists(v) /\ ~v.lobby.wait.on
    BY <1>1, <2>1 DEF Exists, Sound, Client
  <2> HIDE DEF v
  <2>3. Passes(w, "promote", v)
    BY <1>1, <2>2 DEF Passes
  <2> QED
    BY <2>3 DEF v
<1>2. CASE Exists(w)
  <2> DEFINE fresh == w.lobby.fresh \/ ~Promoted(w)
  <2>1. v = [w EXCEPT !.lobby.phase = "lobby", !.lobby.fresh = fresh]
    BY <1>2 DEF Promote
  <2> HIDE DEF v, fresh
  <2>2. /\ v.host = w.host /\ v.left = w.left /\ v.lobby.phase = "lobby"
        /\ v.lobby.wait = w.lobby.wait /\ v.lobby.migratable = w.lobby.migratable
    BY <2>1 DEF Worlds, Lobbies
  <2>3. GoesOn(w, v)
    BY <1>2, <2>2 DEF GoesOn, Exists
  <2>4. Passes(w, "promote", v)
    BY <2>2, <2>3, GoesOnPasses
  <2> QED
    BY <2>4 DEF v
<1> QED
  BY <1>1, <1>2

\* Carrying out any command there is, whatever the world it is applied to.
LEMMA DoPasses ==
  ASSUME NEW w \in Worlds, NEW hosts, NEW n, NEW c \in Commands,
         Sound(w, hosts), WaitSound(w, n),
         c.do = "forgetHost" => ~Exists(w),
         c.do = "named" /\ Exists(w) =>
           c.previous \notin {None, c.host} /\ c.host # w.host
  PROVE  Passes(w, c.do, Do(w, c))
<1> USE CommandsAreTyped
<1>1. CASE c.do = "end"
  BY <1>1, EndPasses DEF Do
<1>2. CASE c.do = "endLobbies"
  BY <1>2, EndLobbiesPasses DEF Do
<1>3. CASE c.do = "hostLost"
  BY <1>3, HostLostPasses DEF Do
<1>4. CASE c.do = "named"
  BY <1>4, NamedPasses DEF Do
<1>5. CASE c.do = "ranOut"
  BY <1>5, RanOutPasses DEF Do
<1>6. CASE c.do = "stopWaiting"
  BY <1>6, StopPasses DEF Do
<1>7. CASE c.do = "verify"
  BY <1>7, VerifyPasses DEF Do
<1>8. CASE c.do = "promote"
  BY <1>8, PromotePasses DEF Do
<1>9. CASE c.do = "despawn"
  BY <1>9, DespawnPasses DEF Do
<1>10. CASE c.do = "forgetHost"
  <2> DEFINE v == [w EXCEPT !.host = None]
  <2>1. v.lobby = w.lobby
    BY DEF Worlds
  <2>2. ~Exists(v) /\ ~v.lobby.wait.on
    BY <1>10, <2>1 DEF Exists, Sound, Client
  <2> HIDE DEF v
  <2>3. Passes(w, "forgetHost", v)
    BY <1>10, <2>2 DEF Passes
  <2> QED
    BY <1>10, <2>3 DEF Do, v
<1> QED
  BY <1>1, <1>2, <1>3, <1>4, <1>5, <1>6, <1>7, <1>8, <1>9, <1>10

------------------------------------------------------------------------------
\* Queues

\* A queue that names nobody.
NamesNobody(queue) == \A k \in 1..Len(queue) : queue[k].do # "named"

\* Nothing queued is no news, and no despawn.
LEMMA EmptyQueue ==
  /\ \A s, w, i : NewsQueue(<<>>, s, w, i)
  /\ ~Despawns(<<>>) /\ NamesNobody(<<>>)
<1>1. 1..Len(<<>>) = {}
  OBVIOUS
<1> QED
  BY <1>1 DEF NewsQueue, Despawns, NamesNobody

\* One command, which names nobody.
LEMMA SingleQueue ==
  ASSUME NEW c \in Commands, c.do \notin {"named", "ranOut"},
         NEW s, NEW w, NEW i,
         c.do = "hostLost" => i.broken # "no" \/ i.silent
  PROVE  /\ NewsQueue(<<c>>, s, w, i) /\ NamesNobody(<<c>>)
         /\ (Despawns(<<c>>) <=> c.do = "despawn")
<1> DEFINE q == <<c>>
<1>1. Len(q) = 1 /\ q[1] = c /\ \A k : k \in 1..1 <=> k = 1
  OBVIOUS
<1> HIDE DEF q
<1>2. NewsQueue(q, s, w, i) /\ NamesNobody(q)
  BY <1>1 DEF NewsQueue, NamesNobody
<1>3. Despawns(q) <=> c.do = "despawn"
  BY <1>1 DEF Despawns
<1> QED
  BY <1>2, <1>3 DEF q

\* One queue after another, of which only the first may name a host.
LEMMA ConcatQueue ==
  ASSUME NEW a \in Seq(Commands), NEW b \in Seq(Commands), NEW s, NEW w, NEW i,
         NewsQueue(a, s, w, i), NewsQueue(b, s, w, i), NamesNobody(b)
  PROVE  /\ NewsQueue(a \o b, s, w, i)
         /\ (Despawns(a \o b) <=> Despawns(a) \/ Despawns(b))
         /\ NamesNobody(a) => NamesNobody(a \o b)
<1> DEFINE q == a \o b
<1>1. /\ q \in Seq(Commands) /\ Len(q) = Len(a) + Len(b)
      /\ \A k \in 1..Len(a) : q[k] = a[k] /\ k \in 1..Len(q)
      /\ \A k \in 1..Len(b) : q[k + Len(a)] = b[k] /\ k + Len(a) \in 1..Len(q)
      /\ Len(a) \in Nat /\ Len(b) \in Nat
  OBVIOUS
<1> HIDE DEF q
<1>2. ASSUME NEW k \in 1..Len(q)
      PROVE  (k \in 1..Len(a) /\ q[k] = a[k]) \/ \E j \in 1..Len(b) : q[k] = b[j]
  <2>1. CASE k \in 1..Len(a)
    BY <1>1, <2>1
  <2>2. CASE k \notin 1..Len(a)
    <3> DEFINE j == k - Len(a)
    <3>1. j \in 1..Len(b) /\ k = j + Len(a)
      BY <1>1, <2>2
    <3> HIDE DEF j
    <3> QED
      BY <1>1, <3>1
  <2> QED
    BY <2>1, <2>2
<1>3. NewsQueue(q, s, w, i) /\ (NamesNobody(a) => NamesNobody(q))
  BY <1>2, SMTT(30) DEF NewsQueue, NamesNobody
<1>4. Despawns(q) => Despawns(a) \/ Despawns(b)
  BY <1>2 DEF Despawns
<1>5. Despawns(a) \/ Despawns(b) => Despawns(q)
  BY <1>1 DEF Despawns
<1> QED
  BY <1>3, <1>4, <1>5 DEF q

\* Nothing is left of a queue of one.
LEMMA LastOne ==
  ASSUME NEW q \in Seq(Commands), q # <<>>, Len(q) <= 1
  PROVE  Tail(q) = <<>> /\ Len(Tail(q)) = 0
<1> DEFINE r == Tail(q)
<1>1. r \in Seq(Commands) /\ Len(r) = Len(q) - 1 /\ Len(r) \in Nat
  OBVIOUS
<1>2. Len(r) = 0
  BY <1>1
<1> HIDE DEF r
<1>3. r = <<>>
  BY <1>1, <1>2
<1> QED
  BY <1>2, <1>3 DEF r

\* A queue whose first command is carried out.
LEMMA TailQueue ==
  ASSUME NEW q \in Seq(Commands), q # <<>>, NEW s, NEW w, NEW v, NEW i,
         NewsQueue(q, s, w, i)
  PROVE  /\ NewsQueue(Tail(q), s, v, i) /\ NamesNobody(Tail(q))
         /\ (Despawns(q) <=> Head(q).do = "despawn" \/ Despawns(Tail(q)))
<1> DEFINE r == Tail(q)
<1>1. /\ Len(q) \in Nat /\ Len(r) = Len(q) - 1 /\ Len(q) >= 1
      /\ \A k \in 1..Len(r) : r[k] = q[k + 1]
      /\ Head(q) = q[1]
  OBVIOUS
<1> HIDE DEF r
<1>2. \A k \in 1..Len(r) : k + 1 \in 1..Len(q) /\ k + 1 # 1 /\ r[k] = q[k + 1]
  BY <1>1
<1>3. NewsQueue(r, s, v, i) /\ NamesNobody(r)
  BY <1>2 DEF NewsQueue, NamesNobody
<1>4. ASSUME NEW k \in 1..Len(q)
      PROVE  q[k] = Head(q) \/ \E j \in 1..Len(r) : q[k] = r[j]
  <2>1. CASE k = 1
    BY <1>1, <2>1
  <2>2. CASE k # 1
    <3> DEFINE j == k - 1
    <3>1. j \in 1..Len(r) /\ k = j + 1
      BY <1>1, <2>2
    <3> HIDE DEF j
    <3> QED
      BY <1>2, <3>1
  <2> QED
    BY <2>1, <2>2
<1>5. 1 \in 1..Len(q)
  BY <1>1
<1>6. Despawns(q) <=> Head(q).do = "despawn" \/ Despawns(r)
  BY <1>1, <1>2, <1>4, <1>5 DEF Despawns
<1> QED
  BY <1>3, <1>6 DEF r

------------------------------------------------------------------------------
\* The systems

\* Neither the wait nor what it hangs on changes.
Spares(w, v) ==
  /\ v.host = w.host /\ v.lobby.phase = w.lobby.phase
  /\ v.lobby.wait = w.lobby.wait /\ v.lobby.migratable = w.lobby.migratable

\* A session is told of as over where its despawn is queued, and not else.
Tells(s, w, queue, v) ==
  Exists(w) =>
    /\ w.left # <<>> => v.left # <<>>
    /\ s \notin {"leaving", "joining"} /\ Despawns(queue) => v.left # <<>>
    /\ v.left # w.left => Despawns(queue)

\* What any system but the clocks may do and queue.
Patient(s, effect) ==
  /\ Spares(world, effect.world)
  /\ NewsQueue(effect.queues, s, effect.world, inbox)
  /\ Tells(s, world, effect.queues, effect.world)
  /\ s = "teardown" => ~Despawns(effect.queues)

\* A system that queues at most one command, and tells nobody.
LEMMA OneIsPatient ==
  ASSUME NEW s, NEW p, NEW c \in Commands, c.do \notin {"named", "ranOut"},
         NEW v, Spares(world, v), v.left = world.left,
         p /\ c.do = "hostLost" => inbox.broken # "no" \/ inbox.silent,
         c.do = "despawn" => s \in {"leaving", "joining"}
  PROVE  Patient(s, [queues |-> IF p THEN <<c>> ELSE <<>>, world |-> v])
<1>1. CASE p
  <2>1. NewsQueue(<<c>>, s, v, inbox) /\ (Despawns(<<c>>) <=> c.do = "despawn")
    BY <1>1, SingleQueue
  <2> DEFINE q == <<c>>
  <2> HIDE DEF q
  <2>2. Patient(s, [queues |-> q, world |-> v])
    BY <2>1 DEF Patient, Tells, q
  <2> QED
    BY <1>1, <2>2 DEF q
<1>2. CASE ~p
  <2> DEFINE q == <<>>
  <2>1. NewsQueue(q, s, v, inbox) /\ ~Despawns(q)
    BY EmptyQueue
  <2> HIDE DEF q
  <2>2. Patient(s, [queues |-> q, world |-> v])
    BY <2>1 DEF Patient, Tells
  <2> QED
    BY <1>2, <2>2 DEF q
<1> QED
  BY <1>1, <1>2

\* Those that change nothing at once.
LEMMA OneAtMostIsPatient ==
  ASSUME NEW s, NEW p, NEW c \in Commands, c.do \notin {"named", "ranOut"},
         p /\ c.do = "hostLost" => inbox.broken # "no" \/ inbox.silent,
         c.do = "despawn" => s \in {"leaving", "joining"}
  PROVE  Patient(s, QueuesIf(p, c))
<1>1. Spares(world, world)
  BY DEF Spares
<1> QED
  BY <1>1, OneIsPatient DEF QueuesIf, Queues

\* Those that queue nothing.
LEMMA NoneIsPatient == \A s : Patient(s, Queues(<<>>))
<1> SUFFICES ASSUME NEW s PROVE Patient(s, Queues(<<>>))
  OBVIOUS
<1>1. Bare("promote") \in Commands /\ Bare("promote").do = "promote"
  BY DEF Bare, Commands
<1>2. Patient(s, QueuesIf(FALSE, Bare("promote")))
  BY <1>1, OneAtMostIsPatient
<1> QED
  BY <1>2 DEF QueuesIf

\* Any system that queues one bare command but a despawn, and the players' own.
LEMMA PlainOnesArePatient ==
  /\ Patient("pongs", Pongs) /\ Patient("silence", Silence)
  /\ Patient("leaving", Leaving) /\ Patient("joining", Joining)
  /\ Patient("promotion", Promotion) /\ Patient("publish", Publish)
<1> DEFINE lost == [do |-> "hostLost", cause |-> "Silence"]
<1>1. lost \in Commands /\ lost.do = "hostLost"
  BY DEF Commands, Causes
<1>2. \A what \in {"stopWaiting", "promote", "despawn", "forgetHost"} :
        Bare(what) \in Commands /\ Bare(what).do = what
  BY DEF Bare, Commands
<1>3. Patient("silence", Silence)
  <2> DEFINE p == inbox.silent /\ Client(world) /\ ~world.lobby.wait.on
  <2>1. Silence = QueuesIf(p, lost)
    BY DEF Silence
  <2>2. p => inbox.silent
    OBVIOUS
  <2> HIDE DEF lost, p
  <2> QED
    BY <1>1, <2>1, <2>2, OneAtMostIsPatient
<1>4. Patient("pongs", Pongs)
  BY <1>2, OneAtMostIsPatient DEF Pongs
<1>5. Patient("leaving", Leaving)
  BY <1>2, OneAtMostIsPatient DEF Leaving
<1>6. Patient("joining", Joining)
  BY <1>2, OneAtMostIsPatient DEF Joining
<1>7. Patient("promotion", Promotion)
  BY <1>2, OneAtMostIsPatient DEF Promotion
<1>8. Patient("publish", Publish)
  BY <1>2, OneAtMostIsPatient DEF Publish
<1> QED
  BY <1>3, <1>4, <1>5, <1>6, <1>7, <1>8

\* verify_promoted_peers changes what no wait hangs on.
LEMMA MatchesArePatient == SessionInv => Patient("matches", Matches)
<1> SUFFICES ASSUME SessionInv PROVE Patient("matches", Matches)
  OBVIOUS
<1> DEFINE known == Client(world) /\ world.host \in world.lobby.matched
           c == [do |-> "verify", host |-> world.host]
           matched == IF known THEN world.lobby.matched \ {world.host}
                      ELSE world.lobby.matched
           v == [world EXCEPT !.lobby.fresh = FALSE, !.lobby.matched = matched]
<1>1. world \in Worlds
  BY DEF SessionInv, TypeOK
<1>2. CASE ~world.lobby.fresh
  BY <1>2, NoneIsPatient DEF Matches
<1>3. CASE world.lobby.fresh
  <2>1. Matches = [queues |-> IF known THEN <<c>> ELSE <<>>, world |-> v]
    BY <1>3 DEF Matches, QueuesIf, Queues
  <2>2. c \in Commands /\ c.do = "verify"
    BY <1>1 DEF Worlds, Commands
  <2> HIDE DEF c, matched
  <2>3. Spares(world, v) /\ v.left = world.left
    BY <1>1 DEF Spares, Worlds, Lobbies
  <2> HIDE DEF v, known
  <2> QED
    BY <2>1, <2>2, <2>3, OneIsPatient
<1> QED
  BY <1>2, <1>3

\* apply_lobby_state ends a session by a command that tells of it.
LEMMA WordsArePatient == SessionInv => Patient("words", Words)
<1> SUFFICES ASSUME SessionInv PROVE Patient("words", Words)
  OBVIOUS
<1> DEFINE p == world.said # "none" /\ Client(world)
           c == [do |-> "end",
                 reason |-> IF world.said = "kicked" THEN "Kicked" ELSE "HostGone"]
           v == [world EXCEPT !.said = "none"]
<1>1. world \in Worlds
  BY DEF SessionInv, TypeOK
<1>2. Words = [queues |-> IF p THEN <<c>> ELSE <<>>, world |-> v]
  BY DEF Words, QueuesIf, Queues
<1>3. c \in Commands /\ c.do = "end"
  BY DEF Commands, Reasons
<1>4. Spares(world, v) /\ v.left = world.left
  BY <1>1 DEF Spares, Worlds
<1> HIDE DEF c, p, v
<1> QED
  BY <1>2, <1>3, <1>4, OneIsPatient

\* detect_lobby_leave only lets go of what a lobby that went had.
LEMMA TeardownIsPatient == SessionInv => Patient("teardown", Teardown)
<1> SUFFICES ASSUME SessionInv PROVE Patient("teardown", Teardown)
  OBVIOUS
<1> DEFINE c == Bare("forgetHost")
           v == [world EXCEPT !.removed = FALSE, !.links = {}]
<1>1. world \in Worlds
  BY DEF SessionInv, TypeOK
<1>2. CASE ~world.removed
  BY <1>2, NoneIsPatient DEF Teardown
<1>3. CASE world.removed
  <2>1. Teardown = [queues |-> IF TRUE THEN <<c>> ELSE <<>>, world |-> v]
    BY <1>3 DEF Teardown, Queues
  <2>2. c \in Commands /\ c.do = "forgetHost"
    BY DEF Bare, Commands
  <2>3. Spares(world, v) /\ v.left = world.left
    BY <1>1 DEF Spares, Worlds
  <2> HIDE DEF c, v
  <2> QED
    BY <2>1, <2>2, <2>3, OneIsPatient
<1> QED
  BY <1>2, <1>3

\* What one handshake is answered with: a despawn if, and only if, it does not
\* match.
LEMMA AnswerDespawns ==
  ASSUME SessionInv, NEW n
  PROVE  /\ Answer(n) \in Seq(Commands) /\ NamesNobody(Answer(n))
         /\ \A s, w, i : NewsQueue(Answer(n), s, w, i)
         /\ Despawns(Answer(n)) <=> n \in Mismatches
<1> DEFINE stop == Bare("stopWaiting")
           verify == [do |-> "verify", host |-> inbox.from]
           gone == Bare("despawn")
           first == IF world.lobby.wait.on /\ world.lobby.wait.successor = inbox.from
                    THEN <<stop>> ELSE <<>>
           Mild(q) == /\ NamesNobody(q)
                      /\ \A s, w, i : NewsQueue(q, s, w, i)
<1>1. inbox.from \in Players \cup {None}
  BY DEF SessionInv, TypeOK, Inboxes
<1>2. /\ stop \in Commands /\ stop.do = "stopWaiting"
      /\ gone \in Commands /\ gone.do = "despawn"
      /\ verify \in Commands /\ verify.do = "verify"
  BY <1>1 DEF Commands, Bare
<1>3. Answer(n) \in Seq(Commands)
  BY AnswerIsSafe
<1>4. CASE n \notin DOMAIN inbox.shakes
  BY <1>3, <1>4, EmptyQueue DEF Answer, Mismatches
<1>5. CASE n \in DOMAIN inbox.shakes /\ inbox.shakes[n]
  <2>1. Answer(n) = first \o <<verify>> /\ n \notin Mismatches
    BY <1>5 DEF Answer, Match, Mismatches
  <2> HIDE DEF stop, verify
  <2>2. first \in Seq(Commands) /\ Mild(first) /\ ~Despawns(first)
    <3>1. <<stop>> \in Seq(Commands) /\ <<>> \in Seq(Commands)
      BY <1>2
    <3>2. Mild(<<stop>>) /\ ~Despawns(<<stop>>)
      BY <1>2, SingleQueue
    <3>3. Mild(<<>>) /\ ~Despawns(<<>>)
      BY EmptyQueue
    <3> QED
      BY <3>1, <3>2, <3>3
  <2> DEFINE second == <<verify>>
  <2>3. second \in Seq(Commands) /\ Mild(second) /\ ~Despawns(second)
    BY <1>2, SingleQueue
  <2> HIDE DEF first, second
  <2>4. Mild(first \o second) /\ ~Despawns(first \o second)
    BY <2>2, <2>3, ConcatQueue
  <2> QED
    BY <1>3, <2>1, <2>4 DEF second
<1>6. CASE n \in DOMAIN inbox.shakes /\ ~inbox.shakes[n]
  <2>1. Answer(n) = <<gone>> /\ n \in Mismatches
    BY <1>6 DEF Answer, Mismatches
  <2> HIDE DEF gone
  <2>2. Mild(<<gone>>) /\ Despawns(<<gone>>)
    BY <1>2, SingleQueue
  <2> QED
    BY <1>3, <2>1, <2>2
<1> QED
  BY <1>4, <1>5, <1>6

\* LobbyLeft is written once for every handshake that does not match.
LEMMA ComplainTells ==
  ASSUME SessionInv, NEW u \in Worlds, u.left = world.left
  PROVE  /\ Mismatches = {} => Complain(u).left = world.left
         /\ Mismatches # {} => Complain(u).left # <<>>
         /\ world.left # <<>> => Complain(u).left # <<>>
         /\ \A field \in DOMAIN u \ {"left"} : Complain(u)[field] = u[field]
<1> DEFINE count == Cardinality(Mismatches)
           more == [k \in 1..count |-> "ProtocolMismatch"]
<1>1. IsFiniteSet(Mismatches)
  <2>1. inbox.shakes \in Seq(BOOLEAN)
    BY DEF SessionInv, TypeOK, Inboxes
  <2>2. IsFiniteSet(1..Len(inbox.shakes)) /\ Mismatches \subseteq 1..Len(inbox.shakes)
    BY <2>1, FS_Interval DEF Mismatches
  <2> QED
    BY <2>2, FS_Subset
<1>2. count \in Nat /\ (count = 0 <=> Mismatches = {})
  BY <1>1, FS_CardinalityType, FS_EmptySet
<1> HIDE DEF count
<1>3. more \in Seq(Reasons) /\ Len(more) = count
  <2>1. "ProtocolMismatch" \in Reasons
    BY DEF Reasons
  <2> QED
    BY <1>2, <2>1
<1> HIDE DEF more
<1>4. Complain(u) = [u EXCEPT !.left = u.left \o more]
  BY DEF Complain, more, count
<1>5. u.left \in Seq(Reasons) /\ "left" \in DOMAIN u
  BY DEF Worlds
<1>6. Complain(u).left = u.left \o more
  BY <1>4, <1>5
<1>7. /\ u.left \o more \in Seq(Reasons)
      /\ Len(u.left \o more) = Len(u.left) + Len(more)
      /\ Len(u.left) \in Nat /\ (u.left # <<>> => Len(u.left) # 0)
      /\ Len(<<>>) = 0
      /\ Len(more) = 0 => u.left \o more = u.left
  BY <1>3, <1>5
<1>8. count # 0 \/ u.left # <<>> => Len(u.left \o more) # 0
  BY <1>2, <1>3, <1>7
<1>9. /\ Mismatches = {} => Complain(u).left = world.left
      /\ Mismatches # {} \/ world.left # <<>> => Complain(u).left # <<>>
  BY <1>2, <1>3, <1>6, <1>7, <1>8
<1>10. \A field \in DOMAIN u \ {"left"} : Complain(u)[field] = u[field]
  BY <1>4
<1> QED
  BY <1>9, <1>10

\* verify_protocol.
LEMMA HandshakesArePatient ==
  SessionInv /\ Len(inbox.shakes) <= 2 => Patient("handshakes", Handshakes)
<1> SUFFICES ASSUME SessionInv, Len(inbox.shakes) <= 2
             PROVE  Patient("handshakes", Handshakes)
  OBVIOUS
<1> DEFINE held == IF inbox.from = world.host THEN "none" ELSE world.lobby.held
           kept == [world EXCEPT !.lobby.held = held]
           u == IF Mismatches = {} THEN world ELSE Discard(world)
           v == Complain(u)
           matched == u.lobby.matched \cup {inbox.from}
           noted == [u EXCEPT !.lobby.matched = matched]
           q == Answer(1) \o Answer(2)
           none == <<>>
<1>1. world \in Worlds /\ u \in Worlds /\ inbox.shakes \in Seq(BOOLEAN)
  BY VerdictsAreTyped DEF SessionInv, TypeOK, Inboxes
<1>2. Spares(world, u) /\ u.left = world.left
  <2>1. u = world \/ u = kept
    BY DEF Discard
  <2> HIDE DEF u, held
  <2>2. Spares(world, kept) /\ kept.left = world.left
    BY <1>1 DEF Spares, Worlds, Lobbies
  <2> HIDE DEF kept
  <2> QED
    BY <2>1, <2>2 DEF Spares
<1>3. NewsQueue(none, "handshakes", u, inbox) /\ ~Despawns(none)
  BY EmptyQueue
<1> HIDE DEF u, none
<1>4. CASE Client(world) /\ Promoted(world)
  <2>1. Handshakes = [queues |-> q, world |-> v]
    BY <1>4 DEF Handshakes, u
  <2>2. /\ NewsQueue(q, "handshakes", v, inbox)
        /\ Despawns(q) <=> 1 \in Mismatches \/ 2 \in Mismatches
    BY AnswerDespawns, ConcatQueue
  <2>3. Mismatches # {} => 1 \in Mismatches \/ 2 \in Mismatches
    <3>1. Mismatches \subseteq 1..Len(inbox.shakes) /\ Len(inbox.shakes) \in Nat
      BY <1>1 DEF Mismatches
    <3>2. \A k \in 1..Len(inbox.shakes) : k = 1 \/ k = 2
      BY <3>1
    <3> QED
      BY <3>1, <3>2
  <2>4. /\ Mismatches = {} => v.left = world.left
        /\ Mismatches # {} => v.left # <<>>
        /\ world.left # <<>> => v.left # <<>>
        /\ v.host = u.host /\ v.lobby = u.lobby
    <3>1. {"host", "lobby"} \subseteq DOMAIN u \ {"left"}
      BY <1>1 DEF Worlds
    <3> QED
      BY <1>1, <1>2, <3>1, ComplainTells
  <2> HIDE DEF q, v
  <2>5. Spares(world, v)
    BY <1>2, <2>4 DEF Spares
  <2>6. Despawns(q) <=> Mismatches # {}
    BY <2>2, <2>3
  <2>7. Tells("handshakes", world, q, v)
    BY <2>4, <2>6 DEF Tells
  <2> QED
    BY <2>1, <2>2, <2>5, <2>7 DEF Patient
<1>5. CASE ~(Client(world) /\ Promoted(world))
  <2>1. \/ Handshakes = [queues |-> none, world |-> u]
        \/ Handshakes = [queues |-> none, world |-> noted]
    BY <1>5 DEF Handshakes, u, none
  <2> HIDE DEF matched
  <2>2. Spares(u, noted) /\ noted.left = u.left
    BY <1>1 DEF Spares, Worlds, Lobbies
  <2> HIDE DEF noted
  <2>3. Spares(world, noted) /\ noted.left = world.left
    BY <1>2, <2>2 DEF Spares
  <2>4. NewsQueue(none, "handshakes", noted, inbox)
    BY EmptyQueue DEF none
  <2> QED
    BY <1>2, <1>3, <2>1, <2>3, <2>4 DEF Patient, Tells
<1> QED
  BY <1>4, <1>5

\* Despawning a lobby and letting go of its host.
LEMMA DespawnThenForgetTells ==
  LET q == <<Bare("despawn"), Bare("forgetHost")>>
  IN /\ q \in Seq(Commands) /\ NamesNobody(q) /\ Despawns(q)
     /\ \A s, w, i : NewsQueue(q, s, w, i)
<1> DEFINE q == <<Bare("despawn"), Bare("forgetHost")>>
<1>1. Bare("despawn") \in Commands /\ Bare("forgetHost") \in Commands
  BY DEF Bare, Commands
<1>2. /\ q \in Seq(Commands) /\ Len(q) = 2
      /\ q[1].do = "despawn" /\ q[2].do = "forgetHost"
      /\ \A k : k \in 1..2 <=> k = 1 \/ k = 2
  BY <1>1 DEF Bare
<1> HIDE DEF q
<1>3. NamesNobody(q) /\ Despawns(q)
  BY <1>2 DEF NamesNobody, Despawns
<1>4. \A s, w, i : NewsQueue(q, s, w, i)
  BY <1>2 DEF NewsQueue
<1> QED
  BY <1>2, <1>3, <1>4 DEF q

\* poll_socket_peers.
LEMMA SocketsArePatient ==
  SessionInv /\ inbox.broken # "no" => Patient("sockets", Sockets)
<1> SUFFICES ASSUME SessionInv, inbox.broken # "no"
             PROVE  Patient("sockets", Sockets)
  OBVIOUS
<1> DEFINE lost == [do |-> "hostLost", cause |-> "Transport"]
           gone == <<Bare("despawn"), Bare("forgetHost")>>
           v == Tell(world, "HostGone")
<1>1. lost \in Commands /\ lost.do = "hostLost"
  BY DEF Commands, Causes
<1>2. CASE Sockets = Queues(<<>>)
  BY <1>2, NoneIsPatient
<1>3. CASE Sockets = Queues(<<lost>>)
  <2>1. Sockets = QueuesIf(TRUE, lost)
    BY <1>3 DEF QueuesIf
  <2> HIDE DEF lost
  <2> QED
    BY <1>1, <2>1, OneAtMostIsPatient
<1>4. CASE Sockets = [queues |-> gone, world |-> v]
  <2>1. Despawns(gone) /\ NewsQueue(gone, "sockets", v, inbox)
    BY DespawnThenForgetTells
  <2> HIDE DEF gone
  <2>2. /\ v.host = world.host /\ v.lobby = world.lobby
        /\ v.left = Append(world.left, "HostGone") /\ world.left \in Seq(Reasons)
    BY DEF SessionInv, TypeOK, Worlds, Tell
  <2>3. v.left # <<>>
    BY <2>2
  <2> HIDE DEF v
  <2>4. Spares(world, v) /\ Tells("sockets", world, gone, v)
    BY <2>1, <2>2, <2>3 DEF Spares, Tells
  <2> QED
    BY <1>4, <2>1, <2>4 DEF Patient
<1> QED
  BY <1>2, <1>3, <1>4 DEF Sockets

\* apply_lobby_events: a host that is named is news, and the lobby that goes
\* with the signalling server is told of.
LEMMA EventsArePatient ==
  SessionInv /\ FrameInv /\ WaitSound(world, unled) /\ "events" \in todo =>
    Patient("events", LobbyEvents)
<1> SUFFICES ASSUME SessionInv, FrameInv, WaitSound(world, unled), "events" \in todo
             PROVE  Patient("events", LobbyEvents)
  OBVIOUS
<1> DEFINE severed == IF ToldOfHost = <<>> THEN {} ELSE {inbox.from, inbox.named}
           links == IF inbox.over = "closed" THEN {} ELSE world.links \ severed
           left == IF inbox.over = "closed" /\ Exists(world)
                   THEN Append(world.left, "SignallingLost") ELSE world.left
           v == [world EXCEPT !.links = links, !.left = left]
           q == ToldOfHost \o ToldItIsOver
<1>1. /\ world \in Worlds
      /\ inbox.from \in Players \cup {None} /\ inbox.named \in Players \cup {None}
      /\ inbox.over \in {"no", "disconnected", "closed"}
  BY DEF SessionInv, TypeOK, Inboxes
<1>2. LobbyEvents = [queues |-> q, world |-> v]
  BY DEF LobbyEvents
<1>3. /\ left = world.left \/ (inbox.over = "closed" /\ left # <<>>)
      /\ inbox.over = "closed" /\ Exists(world) => left # <<>>
      /\ world.left # <<>> => left # <<>>
  <2>1. world.left \in Seq(Reasons)
    BY <1>1 DEF Worlds
  <2>2. Append(world.left, "SignallingLost") # <<>>
    BY <2>1
  <2> QED
    BY <2>2
<1> HIDE DEF links, left
<1>4. Spares(world, v) /\ v.left = left
  BY <1>1 DEF Spares, Worlds
<1> HIDE DEF v
<1>5. /\ ToldOfHost \in Seq(Commands) /\ NewsQueue(ToldOfHost, "events", v, inbox)
      /\ ~Despawns(ToldOfHost)
  <2> DEFINE c == [do |-> "named", previous |-> inbox.from, host |-> inbox.named]
  <2>1. CASE inbox.named = None \/ ~Exists(world)
    <3>1. ToldOfHost = <<>> /\ <<>> \in Seq(Commands)
      BY <2>1 DEF ToldOfHost
    <3> QED
      BY <3>1, EmptyQueue
  <2>2. CASE inbox.named # None /\ Exists(world)
    <3>1. /\ c \in Commands /\ c.do = "named" /\ ToldOfHost = <<c>>
          /\ c.previous = inbox.from /\ c.host = inbox.named
      BY <1>1, <2>2 DEF Commands, ToldOfHost
    <3>2. inbox.from = world.host /\ inbox.from # inbox.named /\ world.host # None
      BY <2>2 DEF FrameInv, WaitSound
    <3>3. v.host = world.host
      BY <1>4 DEF Spares
    <3> HIDE DEF c
    <3> DEFINE one == <<c>>
    <3>4. one \in Seq(Commands) /\ Len(one) = 1 /\ one[1] = c /\ \A k : k \in 1..1 <=> k = 1
      BY <3>1
    <3> HIDE DEF one
    <3>5. NewsQueue(one, "events", v, inbox) /\ ~Despawns(one)
      BY <2>2, <3>1, <3>2, <3>3, <3>4 DEF NewsQueue, Despawns
    <3> QED
      BY <3>1, <3>4, <3>5 DEF one
  <2> QED
    BY <2>1, <2>2
<1>6. /\ ToldItIsOver \in Seq(Commands) /\ NamesNobody(ToldItIsOver)
      /\ NewsQueue(ToldItIsOver, "events", v, inbox)
      /\ Despawns(ToldItIsOver) <=> inbox.over = "closed"
  <2> DEFINE c == [do |-> "endLobbies", reason |-> "HostGone"]
             d == Bare("forgetHost")
             gone == <<Bare("despawn"), Bare("forgetHost")>>
             Mild(told) == /\ told \in Seq(Commands) /\ NamesNobody(told)
                           /\ NewsQueue(told, "events", v, inbox)
                           /\ ~Despawns(told)
  <2>1. c \in Commands /\ c.do = "endLobbies" /\ d \in Commands /\ d.do = "forgetHost"
    BY DEF Commands, Reasons, Bare
  <2>2. CASE inbox.over = "closed"
    <3>1. ToldItIsOver = gone
      BY <2>2 DEF ToldItIsOver
    <3>2. /\ gone \in Seq(Commands) /\ NamesNobody(gone) /\ Despawns(gone)
          /\ NewsQueue(gone, "events", v, inbox)
      BY DespawnThenForgetTells
    <3> QED
      BY <2>2, <3>1, <3>2
  <2>3. CASE inbox.over = "no"
    <3>1. ToldItIsOver = <<>> /\ <<>> \in Seq(Commands)
      BY <2>3 DEF ToldItIsOver
    <3> QED
      BY <2>3, <3>1, EmptyQueue
  <2>4. CASE inbox.over = "disconnected"
    <3>1. ToldItIsOver = <<c>> \/ ToldItIsOver = <<d>>
      BY <2>4 DEF ToldItIsOver
    <3> HIDE DEF c, d
    <3>2. <<c>> \in Seq(Commands) /\ <<d>> \in Seq(Commands)
      BY <2>1
    <3>3. Mild(<<c>>) /\ Mild(<<d>>)
      BY <2>1, <3>2, SingleQueue
    <3> QED
      BY <2>4, <3>1, <3>3
  <2> QED
    BY <1>1, <2>2, <2>3, <2>4
<1>7. NewsQueue(q, "events", v, inbox) /\ (Despawns(q) <=> inbox.over = "closed")
  BY <1>5, <1>6, ConcatQueue
<1> HIDE DEF q
<1>8. Tells("events", world, q, v)
  BY <1>3, <1>4, <1>7 DEF Tells
<1> QED
  BY <1>2, <1>4, <1>7, <1>8 DEF Patient

------------------------------------------------------------------------------
\* Steps of a frame

\* An empty inbox holds no handshake.
LEMMA NothingReadIsShort == Len(NothingRead.shakes) <= 2
<1>1. NothingRead.shakes = <<>>
  BY DEF NothingRead
<1>2. Len(<<>>) = 0
  OBVIOUS
<1> QED
  BY <1>1, <1>2

\* Once nothing is left to run, to apply or to read, only the world counts.
LEMMA RestKeeps ==
  ASSUME SessionInv', Resting', Len(inbox.shakes)' <= 2,
         WaitSound(world, unled)', ClockQueue(buffer["clocks"], world.lobby.wait)',
         Exists(world') => world'.left = <<>>
  PROVE  LossInv'
<1>1. /\ "teardown" \in Systems /\ "clocks" \in Systems
      /\ todo' = {} /\ \A s \in Systems : buffer'[s] = <<>>
  BY DEF Resting, Systems
<1>2. \A s \in Systems : ~Despawns(buffer'[s])
  BY <1>1, EmptyQueue
<1>3. \A s \in Systems : NewsQueue(buffer'[s], s, world', inbox')
  BY <1>1, EmptyQueue
<1>4. FrameInv'
  <2>1. ~Despawns(buffer'["teardown"])
    BY <1>1, <1>2
  <2> QED
    BY <1>1, <2>1 DEF FrameInv, Despawns
<1>5. ToldInv'
  BY <1>2 DEF ToldInv, Exists, Despawns
<1>6. EndIsDue(buffer["clocks"], world.lobby.wait, inbox)'
  BY <1>1 DEF EndIsDue, Quiet
<1>7. (\A s \in Systems : NewsQueue(buffer[s], s, world, inbox))'
  BY <1>3 DEF NewsQueue, Exists
<1> QED
  BY <1>4, <1>5, <1>6, <1>7 DEF LossInv, WaitInv

\* Sparing the wait leaves it as sound as it was.
LEMMA SparedStaysSound ==
  ASSUME NEW w, NEW v, NEW n, Spares(w, v), WaitSound(w, n)
  PROVE  WaitSound(v, n) /\ Exists(v) = Exists(w)
BY DEF Spares, WaitSound, Exists, Due, IsReconnect

\* News in a queue does not go stale as long as the host stays.
LEMMA NewsStays ==
  ASSUME NEW q, NEW s, NEW w, NEW v, NEW i, NewsQueue(q, s, w, i),
         Exists(v) => Exists(w) /\ v.host = w.host
  PROVE  NewsQueue(q, s, v, i)
BY DEF NewsQueue

\* A frame that goes on has its inbox still, and one that is over no inbox.
LEMMA FinishKeeps ==
  ASSUME SessionInv', inbox' = inbox \/ (inbox' = NothingRead /\ Resting'),
         WaitSound(world, unled)', ClockQueue(buffer["clocks"], world.lobby.wait)',
         ToldInv',
         inbox' = inbox =>
           /\ FrameInv'
           /\ EndIsDue(buffer["clocks"], world.lobby.wait, inbox)'
           /\ \A s \in Systems : NewsQueue(buffer'[s], s, world', inbox)
  PROVE  LossInv'
<1>1. CASE inbox' = inbox
  <2>1. (\A s \in Systems : NewsQueue(buffer[s], s, world, inbox))'
    BY <1>1 DEF NewsQueue, Exists
  <2> QED
    BY <1>1, <2>1 DEF LossInv, WaitInv
<1>2. CASE inbox' = NothingRead /\ Resting'
  <2>1. Len(inbox.shakes)' <= 2
    BY <1>2, NothingReadIsShort
  <2>2. Exists(world') => world'.left = <<>>
    <3>1. \A t \in Systems : ~Despawns(buffer'[t])
      BY <1>2, EmptyQueue DEF Resting
    <3> QED
      BY <3>1 DEF ToldInv, Exists, Despawns
  <2> QED
    BY <1>2, <2>1, <2>2, RestKeeps
<1> QED
  BY <1>1, <1>2

\* A patient system that runs keeps the invariant.
LEMMA PatientKeeps ==
  ASSUME LossInv, SessionInv', NEW s \in Systems \ {"clocks"}, NEW effect,
         Patient(s, effect), effect.queues \in Seq(Commands), Runs(s, effect)
  PROVE  LossInv'
<1>1. /\ world' = effect.world /\ todo' = todo \ {s} /\ s \in todo
      /\ buffer' = [buffer EXCEPT ![s] = effect.queues]
      /\ unled' = unled
      /\ inbox' = inbox \/ (inbox' = NothingRead /\ Resting')
  BY DEF Runs, Finish
<1>2. /\ Spares(world, world') /\ NewsQueue(effect.queues, s, world', inbox)
      /\ Tells(s, world, effect.queues, world')
      /\ s = "teardown" => ~Despawns(effect.queues)
  BY <1>1 DEF Patient
<1>3. /\ FrameInv /\ WaitSound(world, unled)
      /\ ClockQueue(buffer["clocks"], world.lobby.wait)
      /\ EndIsDue(buffer["clocks"], world.lobby.wait, inbox)
      /\ \A t \in Systems : NewsQueue(buffer[t], t, world, inbox)
      /\ ToldInv
  BY DEF LossInv, WaitInv
<1>4. /\ DOMAIN buffer = Systems /\ "clocks" \in Systems /\ "teardown" \in Systems
  BY DEF LossInv, SessionInv, TypeOK, Systems
<1>5. /\ buffer'[s] = effect.queues
      /\ \A t \in Systems \ {s} : buffer'[t] = buffer[t]
      /\ buffer'["clocks"] = buffer["clocks"]
  BY <1>1, <1>4
<1>6. WaitSound(world', unled) /\ Exists(world') = Exists(world)
  BY <1>2, <1>3, SparedStaysSound
<1>7. /\ world'.host = world.host /\ world'.lobby.wait = world.lobby.wait
  BY <1>2 DEF Spares
<1>8. WaitSound(world, unled)'
  BY <1>1, <1>6 DEF WaitSound, Exists, Due, IsReconnect
<1>9. ClockQueue(buffer["clocks"], world.lobby.wait)'
  BY <1>3, <1>5, <1>7 DEF ClockQueue, IsReconnect
<1>10. ToldInv'
  <2>1. SUFFICES ASSUME Exists(world)
                 PROVE  /\ \A t \in Systems \ {"leaving", "joining"} :
                             Despawns(buffer'[t]) => world'.left # <<>>
                        /\ world'.left # <<>> =>
                             \E t \in Systems : Despawns(buffer'[t])
    BY <1>6 DEF ToldInv, Exists, Despawns
  <2>2. /\ world.left # <<>> => world'.left # <<>>
        /\ s \notin {"leaving", "joining"} /\ Despawns(effect.queues) => world'.left # <<>>
        /\ world'.left # world.left => Despawns(effect.queues)
    BY <1>2, <2>1 DEF Tells
  <2>3. /\ \A t \in Systems \ {"leaving", "joining"} :
             Despawns(buffer[t]) => world.left # <<>>
        /\ world.left # <<>> => \E t \in Systems : Despawns(buffer[t])
    BY <1>3, <2>1 DEF ToldInv
  <2>4. ASSUME world'.left = world.left, world.left # <<>>
        PROVE  \E t \in Systems : Despawns(buffer'[t])
    <3>1. PICK t \in Systems : Despawns(buffer[t])
      BY <2>3, <2>4
    <3>2. ~Despawns(buffer[s])
      BY <1>1, <1>3, EmptyQueue DEF FrameInv
    <3> QED
      BY <1>5, <3>1, <3>2
  <2>5. \A t \in Systems \ {"leaving", "joining"} :
          Despawns(buffer'[t]) => world'.left # <<>>
    BY <1>5, <2>2, <2>3
  <2>6. world'.left # <<>> => \E t \in Systems : Despawns(buffer'[t])
    BY <1>5, <2>2, <2>4
  <2> QED
    BY <2>5, <2>6
<1>11. ASSUME inbox' = inbox
       PROVE  /\ FrameInv'
              /\ EndIsDue(buffer["clocks"], world.lobby.wait, inbox)'
  <2>1. \A t \in todo' \ {"teardown"} : buffer'[t] = <<>>
    <3>1. \A t \in todo' \ {"teardown"} : t \in Systems \ {s} /\ t \in todo
      BY <1>1 DEF LossInv, SessionInv, TypeOK
    <3> QED
      BY <1>3, <1>5, <3>1 DEF FrameInv
  <2>2. ~Despawns(buffer'["teardown"])
    BY <1>2, <1>3, <1>4, <1>5 DEF FrameInv
  <2>3. FrameInv'
    BY <1>1, <1>3, <1>6, <1>7, <1>11, <2>1, <2>2 DEF FrameInv, Exists, Despawns
  <2>4. EndIsDue(buffer["clocks"], world.lobby.wait, inbox)'
    BY <1>3, <1>5, <1>7, <1>11 DEF EndIsDue, Quiet
  <2> QED
    BY <2>3, <2>4
<1>12. \A t \in Systems : NewsQueue(buffer'[t], t, world', inbox)
  BY <1>2, <1>3, <1>5, <1>6, <1>7, NewsStays
<1> QED
  BY <1>1, <1>8, <1>9, <1>10, <1>11, <1>12, FinishKeeps

\* The time counted is never more than all the time there is.
LEMMA DueIsPromised ==
  ASSUME NEW w
  PROVE  Due(w) \in Nat /\ Due(w) > 0 /\ Due(w) <= Promised
<1>1. \A n \in {SuccessorWithin, ReachWithin, DefaultReach, ReconnectWithin} :
        n \in Nat /\ n > 0
  BY WaitsAssumption
<1>2. Due(w) \in {SuccessorWithin, ReachWithin, DefaultReach, ReconnectWithin}
  BY DEF Due
<1>3. /\ SuccessorWithin \in Nat /\ ReachWithin \in Nat
      /\ DefaultReach \in Nat /\ ReconnectWithin \in Nat
  BY <1>1
<1>4. \A n \in {SuccessorWithin, ReachWithin, DefaultReach, ReconnectWithin} :
        n <= Promised
  BY <1>3 DEF Promised
<1> QED
  BY <1>1, <1>2, <1>4

\* run_host_migration_clocks lets one more frame of the wait go by, and ends it
\* at its limit and not before.
LEMMA ClocksKeep ==
  ASSUME LossInv, SessionInv', Runs("clocks", Clocks)
  PROVE  LossInv'
<1> DEFINE old == world.lobby.wait
           wait == [old EXCEPT !.waited = @ + 1]
           c == Expiry(wait)
           none == <<>>
           one == <<c>>
           v == [world EXCEPT !.lobby.wait = wait]
           q == Clocks.queues
<1>1. /\ world' = Clocks.world /\ todo' = todo \ {"clocks"} /\ "clocks" \in todo
      /\ buffer' = [buffer EXCEPT !["clocks"] = q]
      /\ unled' = IF old.on /\ unled <= Promised THEN unled + 1 ELSE unled
      /\ inbox' = inbox \/ (inbox' = NothingRead /\ Resting')
  BY DEF Runs, Finish
<1>2. /\ FrameInv /\ WaitSound(world, unled)
      /\ ClockQueue(buffer["clocks"], old)
      /\ \A t \in Systems : NewsQueue(buffer[t], t, world, inbox)
      /\ ToldInv
  BY DEF LossInv, WaitInv
<1>3. /\ world \in Worlds /\ old \in Waits /\ old.waited \in Nat /\ old.limit \in Nat
      /\ unled \in Nat /\ todo \subseteq Systems
  BY DEF LossInv, SessionInv, TypeOK, Worlds, Lobbies, Waits
<1>4. /\ DOMAIN buffer = Systems /\ "clocks" \in Systems
  BY DEF LossInv, SessionInv, TypeOK, Systems
<1>5. /\ buffer'["clocks"] = q
      /\ \A t \in Systems \ {"clocks"} : buffer'[t] = buffer[t]
      /\ buffer["clocks"] = <<>>
  BY <1>1, <1>2, <1>4 DEF FrameInv
<1>6. /\ c \in Commands /\ c.do \in {"ranOut", "end"}
      /\ c.do = "ranOut" <=> IsReconnect(wait)
  BY DEF Expiry, Bare, Commands, GoneReason, Reasons
<1>7. CASE ~old.on
  <2>1. world' = world /\ q = none
    BY <1>1, <1>7 DEF Clocks, Queues
  <2> QED
    <3>1. unled' = unled
      BY <1>1, <1>7
    <3>2. WaitSound(world, unled)'
      BY <1>2, <2>1, <3>1 DEF WaitSound, Exists, Due, IsReconnect
    <3>3. ClockQueue(q, old)
      <4>1. Len(none) = 0
        OBVIOUS
      <4> QED
        BY <1>7, <2>1, <4>1 DEF ClockQueue
    <3>4. \A s \in Systems : Despawns(buffer'[s]) <=> Despawns(buffer[s])
      BY <1>5, <2>1, EmptyQueue
    <3>5. \A t \in Systems : NewsQueue(buffer'[t], t, world', inbox)
      BY <1>2, <1>5, <2>1
    <3> HIDE DEF q, none
    <3>6. ToldInv'
      BY <1>2, <2>1, <3>4 DEF ToldInv, Exists, Despawns
    <3>7. ClockQueue(buffer["clocks"], world.lobby.wait)'
      BY <1>5, <2>1, <3>3 DEF ClockQueue, IsReconnect
    <3>8. ASSUME inbox' = inbox PROVE FrameInv'
      <4>1. ~Despawns(buffer'["teardown"])
        BY <1>2, <3>4 DEF FrameInv, Systems
      <4>2. \A t \in todo' \ {"teardown"} : buffer'[t] = <<>>
        BY <1>1, <1>2, <1>3, <1>5 DEF FrameInv
      <4> QED
        BY <1>1, <1>2, <2>1, <3>8, <4>1, <4>2 DEF FrameInv, Despawns, Exists
    <3>9. EndIsDue(buffer["clocks"], world.lobby.wait, inbox)'
      BY <1>7, <2>1 DEF EndIsDue
    <3> QED
      BY <1>1, <3>2, <3>5, <3>6, <3>7, <3>8, <3>9, FinishKeeps
<1>8. CASE old.on
  <2>1. /\ q = IF RanOut(wait) THEN one ELSE none
        /\ world' = v
    BY <1>1, <1>8 DEF Clocks, QueuesIf, Queues
  <2>2. /\ wait.on /\ wait.previous = old.previous /\ wait.successor = old.successor
        /\ wait.waited = old.waited + 1 /\ wait.limit = old.limit
    BY <1>3, <1>8 DEF Waits
  <2>3. /\ v.lobby.wait = wait /\ v.host = world.host /\ v.left = world.left
        /\ v.lobby.phase = world.lobby.phase /\ v.lobby.migratable = world.lobby.migratable
    BY <1>3 DEF Worlds, Lobbies
  <2>4. /\ old.waited = unled /\ old.limit = Due(world) /\ old.waited < old.limit
    BY <1>2, <1>3, <1>5, <1>8 DEF WaitSound, ClockQueue
  <2>5. unled' = unled + 1
    <3>1. Due(world) \in Nat /\ Due(world) <= Promised
      BY DueIsPromised
    <3>2. Promised \in Nat
      BY LimitsAreNaturals DEF Promised
    <3> QED
      BY <1>1, <1>3, <1>8, <2>4, <3>1, <3>2
  <2> HIDE DEF v, wait
  <2>6. WaitSound(v, unled + 1) /\ Exists(v) = Exists(world)
    <3>1. Due(v) = Due(world)
      BY <1>8, <2>2, <2>3 DEF Due, IsReconnect
    <3> QED
      BY <1>2, <1>3, <1>8, <2>2, <2>3, <2>4, <3>1 DEF WaitSound, Exists
  <2>7. RanOut(wait) <=> wait.waited = wait.limit
    BY <1>3, <2>2, <2>4 DEF RanOut
  <2> HIDE DEF c
  <2>8. /\ Len(none) = 0 /\ Len(one) = 1 /\ one # <<>> /\ Head(one) = c /\ one[1] = c
        /\ \A k : k \in 1..1 <=> k = 1
    OBVIOUS
  <2>9. Len(q) <= 1 /\ ~Despawns(q) /\ NewsQueue(q, "clocks", v, inbox)
    <3>1. ~Despawns(none) /\ NewsQueue(none, "clocks", v, inbox)
      BY EmptyQueue
    <3> HIDE DEF one, none
    <3>2. ~Despawns(one) /\ NewsQueue(one, "clocks", v, inbox)
      BY <1>6, <2>8 DEF Despawns, NewsQueue
    <3>3. q = one \/ q = none
      BY <2>1
    <3>4. Len(one) <= 1 /\ Len(none) <= 1
      BY <2>8
    <3> HIDE DEF q
    <3> QED
      BY <3>1, <3>2, <3>3, <3>4
  <2>10. ClockQueue(q, wait)
    <3>1. q # <<>> => q = one
      BY <2>1
    <3>2. wait.waited = wait.limit => q = one
      BY <2>1, <2>7
    <3> HIDE DEF q, one
    <3> QED
      BY <1>6, <2>8, <2>9, <3>1, <3>2 DEF ClockQueue
  <2>11. EndIsDue(q, wait, inbox)
    <3>1. q # <<>> => wait.waited = wait.limit
      BY <2>1, <2>7
    <3> QED
      BY <3>1 DEF EndIsDue
  <2> HIDE DEF q, one, none
  <2>12. WaitSound(world, unled)'
    BY <2>1, <2>5, <2>6 DEF WaitSound, Exists, Due, IsReconnect
  <2>13. ClockQueue(buffer["clocks"], world.lobby.wait)'
    BY <1>5, <2>1, <2>3, <2>10 DEF ClockQueue, IsReconnect
  <2>14. \A s \in Systems : Despawns(buffer'[s]) <=> Despawns(buffer[s])
    BY <1>5, <2>9, EmptyQueue
  <2>15. ToldInv'
    BY <1>2, <2>1, <2>3, <2>6, <2>14 DEF ToldInv, Exists, Despawns
  <2>16. ASSUME inbox' = inbox
         PROVE  FrameInv' /\ EndIsDue(buffer["clocks"], world.lobby.wait, inbox)'
    <3>1. FrameInv'
      <4>1. ~Despawns(buffer'["teardown"])
        BY <1>2, <2>14 DEF FrameInv, Systems
      <4>2. \A t \in todo' \ {"teardown"} : buffer'[t] = <<>>
        BY <1>1, <1>2, <1>3, <1>5 DEF FrameInv
      <4> QED
        BY <1>1, <1>2, <2>1, <2>3, <2>16, <4>1, <4>2 DEF FrameInv, Despawns, Exists
    <3>2. EndIsDue(buffer["clocks"], world.lobby.wait, inbox)'
      BY <1>5, <2>1, <2>3, <2>11, <2>16 DEF EndIsDue, Quiet
    <3> QED
      BY <3>1, <3>2
  <2>17. \A t \in Systems : NewsQueue(buffer'[t], t, world', inbox)
    BY <1>2, <1>5, <2>1, <2>3, <2>6, <2>9, NewsStays
  <2> QED
    BY <1>1, <2>12, <2>13, <2>15, <2>16, <2>17, FinishKeeps
<1> QED
  BY <1>7, <1>8

\* What the next command of a queue makes of the world, wherever a sync point is.
LEMMA CommandPasses ==
  ASSUME LossInv, NEW s \in Systems, Apply(s), NEW c, c = Head(buffer[s])
  PROVE  /\ c \in Commands /\ Passes(world, c.do, world')
         /\ c.do = "named" => s = "events"
         /\ c.do = "ranOut" => s = "clocks"
         /\ c.do = "hostLost" => inbox.broken # "no" \/ inbox.silent
         /\ c.do = "named" => inbox.named # None
<1>1. world' = Do(world, c) /\ buffer[s] # <<>>
  BY DEF Apply
<1>2. /\ WaitSound(world, unled) /\ Sound(world, compared) /\ world \in Worlds
      /\ NewsQueue(buffer[s], s, world, inbox)
      /\ SafeQueue(buffer[s], s, world, compared)
      /\ buffer[s] \in Seq(Commands)
  BY DEF LossInv, WaitInv, SessionInv, TypeOK
<1>3. c \in Commands /\ c = buffer[s][1] /\ 1 \in 1..Len(buffer[s])
  BY <1>1, <1>2
<1>4. /\ c.do = "named" => s = "events"
      /\ c.do = "forgetHost" => ~Exists(world)
  <2>1. \A j \in 1..(1 - 1) : FALSE
    OBVIOUS
  <2> QED
    BY <1>2, <1>3, <2>1 DEF SafeQueue
<1>5. /\ c.do = "ranOut" => s = "clocks"
      /\ c.do = "hostLost" => inbox.broken # "no" \/ inbox.silent
      /\ c.do = "named" =>
           /\ inbox.named # None
           /\ Exists(world) => c.previous \notin {None, c.host} /\ c.host # world.host
  BY <1>2, <1>3 DEF NewsQueue
<1>6. Passes(world, c.do, world')
  BY <1>1, <1>2, <1>3, <1>4, <1>5, DoPasses
<1> QED
  BY <1>3, <1>4, <1>5, <1>6

\* A sync point that carries out one command: a wait that ran out ends with it,
\* a new one has all its time before it.
LEMMA ApplyPasses ==
  ASSUME LossInv, SessionInv', NEW s \in Systems, Apply(s)
  PROVE  LossInv'
<1> DEFINE c == Head(buffer[s])
           old == world.lobby.wait
           wait == world'.lobby.wait
<1>1. /\ world' = Do(world, c) /\ todo' \subseteq todo \cup {"teardown"}
      /\ buffer[s] # <<>> /\ buffer' = [buffer EXCEPT ![s] = Tail(@)]
      /\ unled' = IF News(world, world') THEN 0 ELSE unled
      /\ inbox' = inbox \/ (inbox' = NothingRead /\ Resting')
  BY DEF Apply, Finish, LosesOrNames, News
<1>2. /\ FrameInv /\ WaitSound(world, unled)
      /\ ClockQueue(buffer["clocks"], old)
      /\ EndIsDue(buffer["clocks"], old, inbox)
      /\ \A t \in Systems : NewsQueue(buffer[t], t, world, inbox)
      /\ \A t \in Systems : SafeQueue(buffer[t], t, world, compared)
      /\ ToldInv
  BY DEF LossInv, WaitInv, SessionInv
<1>3. /\ world \in Worlds /\ Sound(world, compared) /\ unled \in Nat
      /\ buffer \in [Systems -> Seq(Commands)] /\ todo \subseteq Systems
      /\ "clocks" \in Systems /\ "events" \in Systems /\ "teardown" \in Systems
  BY DEF LossInv, SessionInv, TypeOK, Systems
<1>4. /\ buffer[s] \in Seq(Commands) /\ c \in Commands /\ c = buffer[s][1]
      /\ 1 \in 1..Len(buffer[s])
  BY <1>1, <1>3
<1>5. /\ buffer'[s] = Tail(buffer[s])
      /\ \A t \in Systems \ {s} : buffer'[t] = buffer[t]
  BY <1>1, <1>3
<1>8. /\ Passes(world, c.do, world')
      /\ c.do = "named" => s = "events"
      /\ c.do = "ranOut" => s = "clocks"
      /\ c.do = "hostLost" => inbox.broken # "no" \/ inbox.silent
      /\ c.do = "named" => inbox.named # None
  BY CommandPasses
<1> HIDE DEF c
<1>9. wait.on => Exists(world')
  BY DEF SessionInv, Sound, Client, Exists
<1>10. WaitSound(world', unled')
  <2>1. Exists(world') => world'.host # None
    BY <1>8 DEF Passes
  <2>2. CASE wait.on /\ GoesOn(world, world')
    <3>1. ~News(world, world')
      BY <2>2 DEF GoesOn, News
    <3>2. Due(world') = Due(world)
      BY <2>2, DueGoesOn
    <3> QED
      BY <1>1, <1>2, <2>1, <2>2, <3>1, <3>2 DEF WaitSound, GoesOn
  <2>3. CASE wait.on /\ Begins(world, world')
    <3>1. Due(world') \in Nat /\ Due(world') > 0
      BY DueIsPromised
    <3> QED
      BY <1>1, <2>1, <2>3, <3>1 DEF WaitSound, Begins
  <2>4. CASE wait.on /\ Extends(world, world')
    <3>1. Due(world') = SuccessorWithin /\ SuccessorWithin \in Nat
      BY <2>4, LimitsAreNaturals DEF Extends, Due
    <3>2. old.waited \in Nat
      BY <1>3 DEF Worlds, Lobbies, Waits
    <3> QED
      BY <1>1, <1>2, <2>1, <2>4, <3>1, <3>2 DEF WaitSound, Extends, News
  <2>5. CASE ~wait.on
    BY <2>1, <2>5 DEF WaitSound
  <2> QED
    BY <1>8, <2>2, <2>3, <2>4, <2>5 DEF Passes
<1>11. s = "clocks" => Len(buffer'["clocks"]) = 0 /\ buffer'["clocks"] = <<>>
  <2>1. s = "clocks" => Len(buffer[s]) <= 1
    BY <1>2 DEF ClockQueue
  <2> QED
    BY <1>1, <1>4, <1>5, <2>1, LastOne
<1>12. ClockQueue(buffer'["clocks"], wait)
  <2>1. /\ Len(buffer'["clocks"]) <= 1
        /\ buffer'["clocks"] # <<>> => Head(buffer'["clocks"]).do \in {"end", "ranOut"}
    BY <1>2, <1>3, <1>5, <1>11 DEF ClockQueue
  <2>2. ASSUME wait.on, wait.waited = wait.limit
        PROVE  /\ buffer'["clocks"] # <<>>
               /\ Head(buffer'["clocks"]).do = "ranOut" => IsReconnect(wait)
    <3>1. ~Begins(world, world')
      <4>1. Due(world') \in Nat /\ Due(world') > 0
        BY DueIsPromised
      <4> QED
        BY <2>2, <4>1 DEF Begins
    <3>2. ~Extends(world, world')
      <4>1. SuccessorWithin \in Nat
        BY LimitsAreNaturals
      <4> QED
        BY <2>2, <4>1 DEF Extends
    <3>3. GoesOn(world, world')
      BY <1>8, <2>2, <3>1, <3>2 DEF Passes
    <3>4. old.on /\ old.waited = old.limit /\ IsReconnect(wait) = IsReconnect(old)
      BY <2>2, <3>3, DueGoesOn DEF GoesOn
    <3>5. /\ buffer["clocks"] # <<>>
          /\ Head(buffer["clocks"]).do = "ranOut" => IsReconnect(old)
          /\ Head(buffer["clocks"]).do \in {"end", "ranOut"}
      BY <1>2, <3>4 DEF ClockQueue
    <3>6. CASE s = "clocks"
      <4>1. c.do = "ranOut"
        BY <1>8, <1>9, <2>2, <3>5, <3>6 DEF Passes, c
      <4>2. ~IsReconnect(wait) \/ wait.waited < wait.limit
        BY <1>8, <2>2, <4>1 DEF Passes
      <4>3. IsReconnect(wait)
        BY <3>4, <3>5, <3>6, <4>1 DEF c
      <4>4. wait.limit \in Nat
        BY DEF SessionInv, TypeOK, Worlds, Lobbies, Waits
      <4> QED
        BY <2>2, <4>2, <4>3, <4>4
    <3>7. CASE s # "clocks"
      BY <1>3, <1>5, <3>4, <3>5, <3>7
    <3> QED
      BY <3>6, <3>7
  <2> QED
    BY <2>1, <2>2 DEF ClockQueue
<1>13. \A t \in Systems : NewsQueue(buffer'[t], t, world', inbox)
  <2> SUFFICES ASSUME NEW t \in Systems
               PROVE  NewsQueue(buffer'[t], t, world', inbox)
    OBVIOUS
  <2>1. CASE t = s
    BY <1>1, <1>2, <1>4, <1>5, <2>1, TailQueue
  <2>2. CASE t # s /\ c.do # "named"
    <3>1. Exists(world') => Exists(world) /\ world'.host = world.host
      BY <1>8, <2>2 DEF Passes
    <3> QED
      BY <1>2, <1>5, <2>2, <3>1, NewsStays
  <2>3. CASE t # s /\ c.do = "named"
    <3>1. \A k \in 1..Len(buffer[t]) : buffer[t][k].do # "named"
      BY <1>2, <1>8, <2>3 DEF SafeQueue
    <3> QED
      BY <1>2, <1>5, <2>3, <3>1 DEF NewsQueue
  <2> QED
    BY <2>1, <2>2, <2>3
<1>14. /\ Despawns(buffer[s]) <=> c.do = "despawn" \/ Despawns(buffer'[s])
       /\ \A t \in Systems : Despawns(buffer'[t]) => Despawns(buffer[t])
  <2>1. Despawns(buffer[s]) <=> Head(buffer[s]).do = "despawn" \/ Despawns(Tail(buffer[s]))
    BY <1>1, <1>2, <1>4, TailQueue
  <2>2. Despawns(buffer[s]) <=> c.do = "despawn" \/ Despawns(buffer'[s])
    BY <1>5, <2>1 DEF c
  <2> QED
    BY <1>5, <2>2
<1>15. ToldInv'
  <2>1. SUFFICES ASSUME Exists(world')
                 PROVE  /\ \A t \in Systems \ {"leaving", "joining"} :
                             Despawns(buffer'[t]) => world'.left # <<>>
                        /\ world'.left # <<>> =>
                             \E t \in Systems : Despawns(buffer'[t])
    BY DEF ToldInv, Exists, Despawns
  <2>2. Exists(world) /\ world'.left = world.left /\ c.do # "despawn"
    BY <1>8, <2>1 DEF Passes
  <2>3. \A t \in Systems \ {"leaving", "joining"} :
          Despawns(buffer'[t]) => world'.left # <<>>
    BY <1>2, <1>14, <2>2 DEF ToldInv
  <2>4. ASSUME world'.left # <<>>
        PROVE  \E t \in Systems : Despawns(buffer'[t])
    <3>1. PICK t \in Systems : Despawns(buffer[t])
      BY <1>2, <2>2, <2>4 DEF ToldInv
    <3>2. Despawns(buffer'[t])
      BY <1>5, <1>14, <2>2, <3>1
    <3> QED
      BY <3>2
  <2> QED
    BY <2>3, <2>4
<1>16. ASSUME inbox' = inbox
       PROVE  FrameInv' /\ EndIsDue(buffer["clocks"], world.lobby.wait, inbox)'
  <2>1. \A t \in todo' \ {"teardown"} : buffer'[t] = <<>>
    <3>1. \A t \in todo' \ {"teardown"} : t \in Systems /\ buffer[t] = <<>>
      BY <1>1, <1>2, <1>3 DEF FrameInv
    <3> QED
      BY <1>1, <1>5, <3>1
  <2>2. "events" \in todo' /\ Exists(world') => Exists(world) /\ world'.host = world.host
    <3>1. "events" \in todo' => c.do # "named"
      BY <1>1, <1>2, <1>8 DEF FrameInv
    <3> QED
      BY <1>8, <3>1 DEF Passes
  <2>3. ~Despawns(buffer'["teardown"])
    BY <1>2, <1>3, <1>14 DEF FrameInv
  <2>4. FrameInv'
    <3>1. "events" \in todo' => "events" \in todo
      BY <1>1
    <3>2. "sockets" \in todo' => "sockets" \in todo
      BY <1>1
    <3> QED
      BY <1>2, <1>16, <2>1, <2>2, <2>3, <3>1, <3>2 DEF FrameInv, Exists, Despawns
  <2>5. EndIsDue(buffer'["clocks"], wait, inbox)
    <3> SUFFICES ASSUME Quiet(inbox), wait.on, buffer'["clocks"] # <<>>,
                        Head(buffer'["clocks"]).do = "end"
                 PROVE  wait.waited = wait.limit
      BY DEF EndIsDue
    <3>1. s # "clocks"
      BY <1>11
    <3>2. c.do \notin {"hostLost", "named", "ranOut"}
      BY <1>8, <3>1 DEF Quiet
    <3>3. GoesOn(world, world')
      BY <1>8, <3>2 DEF Passes
    <3>4. buffer["clocks"] = buffer'["clocks"]
      BY <1>3, <1>5, <3>1
    <3> QED
      BY <1>2, <3>3, <3>4 DEF GoesOn, EndIsDue
  <2>6. EndIsDue(buffer["clocks"], world.lobby.wait, inbox)'
    BY <1>16, <2>5 DEF EndIsDue, Quiet
  <2> QED
    BY <2>4, <2>6
<1>17. WaitSound(world, unled)'
  BY <1>10 DEF WaitSound, Exists, Due, IsReconnect
<1>18. ClockQueue(buffer["clocks"], world.lobby.wait)'
  BY <1>12 DEF ClockQueue, IsReconnect
<1> QED
  BY <1>1, <1>13, <1>15, <1>16, <1>17, <1>18, FinishKeeps

\* Every step of a frame keeps the invariant.
LEMMA UpdateIsPatient ==
  ASSUME LossInv, Update
  PROVE  LossInv'
<1>1. SessionInv /\ FrameInv /\ WaitSound(world, unled)
  BY DEF LossInv, WaitInv
<1>2. SessionInv'
  BY <1>1, UpdateKeeps
<1>3. \A s \in {"pongs", "handshakes", "matches", "words", "silence", "sockets", "events",
                "leaving", "joining", "promotion", "publish", "teardown"} :
        s \in Systems \ {"clocks"}
  BY DEF Systems
<1>4. CASE Runs("clocks", Clocks)
  BY <1>2, <1>4, ClocksKeep
<1>5. CASE Runs("pongs", Pongs)
  BY <1>1, <1>2, <1>3, <1>5, PlainOnesArePatient, PongsAreHarmless, PatientKeeps DEF Harmless
<1>6. CASE Runs("handshakes", Handshakes)
  <2>1. Len(inbox.shakes) <= 2
    BY <1>1 DEF FrameInv
  <2> QED
    BY <1>1, <1>2, <1>3, <1>6, <2>1, HandshakesArePatient, HandshakesAreHarmless, PatientKeeps
       DEF Harmless
<1>7. CASE Runs("matches", Matches)
  BY <1>1, <1>2, <1>3, <1>7, MatchesArePatient, MatchesAreHarmless, PatientKeeps DEF Harmless
<1>8. CASE Runs("words", Words)
  BY <1>1, <1>2, <1>3, <1>8, WordsArePatient, WordsAreHarmless, PatientKeeps DEF Harmless
<1>9. CASE Runs("silence", Silence)
  BY <1>1, <1>2, <1>3, <1>9, PlainOnesArePatient, SimpleOnesAreHarmless, PatientKeeps
     DEF Harmless
<1>10. CASE Runs("sockets", Sockets)
  <2>1. inbox.broken # "no"
    BY <1>1, <1>10 DEF Runs, FrameInv
  <2> QED
    BY <1>1, <1>2, <1>3, <1>10, <2>1, SocketsArePatient, SocketsAreHarmless, PatientKeeps
       DEF Harmless
<1>11. CASE Runs("events", LobbyEvents)
  <2>1. "events" \in todo
    BY <1>11 DEF Runs
  <2> QED
    BY <1>1, <1>2, <1>3, <1>11, <2>1, EventsArePatient, EventsAreHarmless, PatientKeeps
       DEF Harmless
<1>12. CASE Runs("leaving", Leaving)
  BY <1>1, <1>2, <1>3, <1>12, PlainOnesArePatient, SimpleOnesAreHarmless, PatientKeeps
     DEF Harmless
<1>13. CASE Runs("joining", Joining)
  BY <1>1, <1>2, <1>3, <1>13, PlainOnesArePatient, SimpleOnesAreHarmless, PatientKeeps
     DEF Harmless
<1>14. CASE Runs("promotion", Promotion)
  BY <1>1, <1>2, <1>3, <1>14, PlainOnesArePatient, SimpleOnesAreHarmless, PatientKeeps
     DEF Harmless
<1>15. CASE Runs("publish", Publish)
  BY <1>1, <1>2, <1>3, <1>15, PlainOnesArePatient, SimpleOnesAreHarmless, PatientKeeps
     DEF Harmless
<1>16. CASE Runs("teardown", Teardown)
  BY <1>1, <1>2, <1>3, <1>16, TeardownIsPatient, TeardownIsHarmless, PatientKeeps DEF Harmless
<1>17. CASE \E s \in Systems : Apply(s)
  BY <1>2, <1>17, ApplyPasses
<1> QED
  BY <1>4, <1>5, <1>6, <1>7, <1>8, <1>9, <1>10, <1>11, <1>12, <1>13, <1>14, <1>15,
     <1>16, <1>17 DEF Update

------------------------------------------------------------------------------
\* Steps between frames

\* What a frame reads is news: the host named is another one, and what gives
\* the sockets work is a connection that broke.
LEMMA PossibleNews ==
  ASSUME SessionInv, NEW i \in Possible
  PROVE  /\ i.from = world.host /\ i.named # None => i.named # world.host
         /\ Len(i.shakes) <= 2
         /\ "sockets" \in Busy(i) => i.broken # "no"
<1> DEFINE reads == Client(world) /\ world.host \in world.links
           few == UNION {[1..n -> BOOLEAN] : n \in 1..2}
           names == Client(world) /\ namings < MaxNamings
<1>1. /\ i.shakes \in (IF reads THEN few ELSE {}) \cup {<<>>}
      /\ i.named \in (IF names THEN Players \ {world.host} ELSE {}) \cup {None}
      /\ i.from = world.host
  BY DEF Possible
<1>2. Len(i.shakes) <= 2
  <2>1. ASSUME NEW n \in 1..2, NEW f \in [1..n -> BOOLEAN]
        PROVE  Len(f) <= 2
    <3>1. n \in Nat /\ f \in Seq(BOOLEAN)
      BY <2>1, SeqDef
    <3>2. DOMAIN f = 1..n /\ DOMAIN f = 1..Len(f) /\ Len(f) \in Nat
      BY <2>1, <3>1
    <3>3. Len(f) = n
      BY <3>1, <3>2
    <3> QED
      BY <3>3
  <2>2. Len(<<>>) <= 2
    OBVIOUS
  <2>3. i.shakes \in few \/ i.shakes = <<>>
    BY <1>1
  <2> QED
    BY <2>1, <2>2, <2>3
<1>3. "sockets" \in Busy(i) => i.broken # "no"
  BY DEF Busy
<1> QED
  BY <1>1, <1>2, <1>3

\* Decoding a last word spares the wait.
LEMMA HeardSpares ==
  ASSUME world \in Worlds, NEW i
  PROVE  Spares(world, Heard(world, i)) /\ Heard(world, i).left = world.left
<1> DEFINE v == Heard(world, i)
<1>1. v = world \/ v = [world EXCEPT !.said = i.word] \/ v = [world EXCEPT !.lobby.held = i.word]
  BY DEF Heard
<1> HIDE DEF v
<1>2. Spares(world, v) /\ v.left = world.left
  <2>1. CASE v = world
    BY <2>1 DEF Spares
  <2>2. CASE v = [world EXCEPT !.said = i.word]
    BY <2>2 DEF Spares, Worlds
  <2>3. CASE v = [world EXCEPT !.lobby.held = i.word]
    BY <2>3 DEF Spares, Worlds, Lobbies
  <2> QED
    BY <1>1, <2>1, <2>2, <2>3
<1> QED
  BY <1>2 DEF v

\* What a frame at rest says of the world.
LEMMA AtRest ==
  ASSUME LossInv, Resting
  PROVE  /\ todo = {} /\ \A s \in Systems : buffer[s] = <<>> /\ ~Despawns(buffer[s])
         /\ Exists(world) => world.left = <<>>
<1>1. todo = {} /\ \A s \in Systems : buffer[s] = <<>>
  BY DEF Resting
<1>2. \A s \in Systems : ~Despawns(buffer[s])
  BY <1>1, EmptyQueue
<1> QED
  BY <1>1, <1>2 DEF LossInv, ToldInv

\* A frame begins with nothing queued, and its news is not of the host followed.
LEMMA BeginFrameIsPatient ==
  ASSUME LossInv, BeginFrame
  PROVE  LossInv'
<1>1. PICK i \in Possible :
        LET met == IF \E n \in DOMAIN i.shakes : i.shakes[n] THEN {world.host} ELSE {}
            lost == IF i.broken = "no" THEN {} ELSE {world.host}
            cut == IF i.broken = "over" THEN lost ELSE {}
        IN /\ Busy(i) # {}
           /\ inbox' = i
           /\ todo' = Busy(i)
           /\ namings' = namings + (IF i.named = None THEN 0 ELSE 1)
           /\ world' = [Heard(world, i) EXCEPT !.links = @ \ cut]
           /\ compared' = compared \cup met
           /\ overlink' = (overlink \cup met) \ lost
  BY DEF BeginFrame
<1>2. /\ SessionInv /\ Resting /\ buffer' = buffer /\ unled' = unled
      /\ world \in Worlds /\ WaitSound(world, unled)
      /\ ClockQueue(buffer["clocks"], world.lobby.wait)
  BY DEF BeginFrame, LossInv, SessionInv, TypeOK, WaitInv
<1>3. SessionInv'
  BY <1>2, BeginFrameKeeps
<1>4. /\ \A s \in Systems : buffer'[s] = <<>> /\ ~Despawns(buffer'[s])
      /\ Exists(world) => world.left = <<>>
      /\ "clocks" \in Systems /\ "teardown" \in Systems
  BY <1>2, AtRest DEF Systems
<1> DEFINE v == Heard(world, i)
<1>5. Spares(world, v) /\ v.left = world.left
  BY <1>2, HeardSpares
<1>6. /\ inbox' = i /\ todo' = Busy(i) /\ \E links : world' = [v EXCEPT !.links = links]
  BY <1>1
<1>7. v \in Worlds
  <2>1. i \in Inboxes
    BY <1>2, PossibleInputs
  <2> QED
    BY <1>2, <2>1, HeardKeeps
<1> HIDE DEF v
<1>8. Spares(world, world') /\ world'.left = world.left
  BY <1>5, <1>6, <1>7 DEF Spares, Worlds
<1>9. WaitSound(world', unled) /\ Exists(world') = Exists(world)
  BY <1>2, <1>8, SparedStaysSound
<1>10. WaitSound(world, unled)'
  BY <1>2, <1>9 DEF WaitSound, Exists, Due, IsReconnect
<1>11. ClockQueue(buffer["clocks"], world.lobby.wait)'
  BY <1>2, <1>8 DEF ClockQueue, IsReconnect, Spares
<1>12. EndIsDue(buffer["clocks"], world.lobby.wait, inbox)'
  BY <1>4 DEF EndIsDue
<1>13. (\A s \in Systems : NewsQueue(buffer[s], s, world, inbox))'
  <2>1. \A s \in Systems : NewsQueue(buffer'[s], s, world', inbox')
    BY <1>4, EmptyQueue
  <2> QED
    BY <2>1 DEF NewsQueue, Exists
<1>14. FrameInv'
  <2>1. /\ i.from = world.host /\ i.named # None => i.named # world.host
        /\ Len(i.shakes) <= 2
        /\ "sockets" \in Busy(i) => i.broken # "no"
    BY <1>2, PossibleNews
  <2>2. i.from = world.host
    BY <1>2, PossibleInputs
  <2>3. Busy(i) \subseteq Systems
    BY DEF Busy
  <2> QED
    BY <1>4, <1>6, <1>8, <2>1, <2>2, <2>3 DEF FrameInv, Spares, Despawns
<1>15. ToldInv'
  BY <1>4, <1>8, <1>9 DEF ToldInv, Exists, Despawns
<1> QED
  BY <1>3, <1>10, <1>11, <1>12, <1>13, <1>14, <1>15 DEF LossInv, WaitInv

\* A join starts with nobody waited for, and nothing told.
LEMMA JoinIsPatient ==
  ASSUME LossInv, Join
  PROVE  LossInv'
<1>1. PICK h \in Others, m \in BOOLEAN, r \in BOOLEAN :
        world' = [world EXCEPT !.lobby = [@ EXCEPT !.phase = "pending",
                                            !.migratable = m, !.reconnectable = r],
                               !.host = h, !.left = <<>>]
  BY DEF Join
<1>2. /\ Resting /\ ~Exists(world) /\ unled' = 0
      /\ inbox' = inbox /\ todo' = todo /\ buffer' = buffer
      /\ SessionInv /\ world \in Worlds /\ Sound(world, compared)
      /\ Len(inbox.shakes) <= 2
  BY DEF Join, LossInv, SessionInv, TypeOK, FrameInv
<1>3. SessionInv'
  BY <1>2, JoinKeeps
<1>4. ~world.lobby.wait.on
  BY <1>2 DEF Sound, Client
<1>5. /\ world'.host = h /\ world'.left = <<>> /\ world'.lobby.wait = world.lobby.wait
  BY <1>1, <1>2 DEF Worlds, Lobbies
<1>6. h # None
  BY PlayersAssumption
<1>7. WaitSound(world, unled)'
  BY <1>4, <1>5, <1>6 DEF WaitSound
<1>8. ClockQueue(buffer["clocks"], world.lobby.wait)'
  <2>1. ClockQueue(buffer["clocks"], world.lobby.wait)
    BY DEF LossInv, WaitInv
  <2> QED
    BY <1>2, <1>5, <2>1 DEF ClockQueue, IsReconnect
<1>9. Resting'
  BY <1>2 DEF Resting
<1> QED
  BY <1>2, <1>3, <1>5, <1>7, <1>8, <1>9, RestKeeps

\* A connection that opens moves no clock.
LEMMA ConnectIsPatient ==
  ASSUME LossInv, Connect
  PROVE  LossInv'
<1>1. /\ Resting /\ \E links : world' = [world EXCEPT !.links = links]
      /\ unled' = unled /\ inbox' = inbox /\ todo' = todo /\ buffer' = buffer
      /\ SessionInv /\ world \in Worlds /\ WaitSound(world, unled)
      /\ ClockQueue(buffer["clocks"], world.lobby.wait)
      /\ Len(inbox.shakes) <= 2
  BY DEF Connect, LossInv, SessionInv, TypeOK, FrameInv, WaitInv
<1>2. SessionInv'
  BY <1>1, ConnectKeeps
<1>3. Spares(world, world') /\ world'.left = world.left
  BY <1>1 DEF Spares, Worlds
<1>4. WaitSound(world', unled) /\ Exists(world') = Exists(world)
  BY <1>1, <1>3, SparedStaysSound
<1>5. WaitSound(world, unled)'
  BY <1>1, <1>4 DEF WaitSound, Exists, Due, IsReconnect
<1>6. ClockQueue(buffer["clocks"], world.lobby.wait)'
  BY <1>1, <1>3 DEF ClockQueue, IsReconnect, Spares
<1>7. Exists(world') => world'.left = <<>>
  BY <1>1, <1>3, <1>4, AtRest
<1>8. Resting'
  BY <1>1 DEF Resting
<1> QED
  BY <1>1, <1>2, <1>5, <1>6, <1>7, <1>8, RestKeeps

------------------------------------------------------------------------------
\* The specification keeps the invariant

\* Before the first frame nobody is waited for and nothing is queued.
LEMMA LossInvAtFirst ==
  ASSUME Init
  PROVE  LossInv
<1>1. /\ world.lobby = NoLobby /\ inbox = NothingRead /\ todo = {}
      /\ buffer = [s \in Systems |-> <<>>]
      /\ "clocks" \in Systems /\ "teardown" \in Systems
  BY DEF Init, Systems
<1>2. SessionInv
  BY InitInv
<1>3. ~Exists(world) /\ ~world.lobby.wait.on
  BY <1>1 DEF Exists, NoLobby, NotWaiting
<1>4. \A s \in Systems : buffer[s] = <<>>
  BY <1>1
<1>5. FrameInv
  <2>1. ~Despawns(buffer["teardown"])
    BY <1>1, <1>4, EmptyQueue
  <2> QED
    BY <1>1, <2>1, NothingReadIsShort DEF FrameInv
<1>6. WaitInv
  <2>1. Len(<<>>) = 0
    OBVIOUS
  <2>2. \A s \in Systems : NewsQueue(buffer[s], s, world, inbox)
    BY <1>4, EmptyQueue
  <2>3. buffer["clocks"] = <<>>
    BY <1>1, <1>4
  <2> QED
    BY <1>3, <2>1, <2>2, <2>3 DEF WaitInv, WaitSound, ClockQueue, EndIsDue
<1>7. ToldInv
  BY <1>3 DEF ToldInv
<1> QED
  BY <1>2, <1>5, <1>6, <1>7 DEF LossInv

\* No step of a frame, nor one between frames, breaks it.
LEMMA LossInvKept ==
  ASSUME LossInv, [Next]_vars
  PROVE  LossInv'
<1>1. CASE UNCHANGED vars
  <2>1. SessionInv'
    BY NextInv DEF LossInv
  <2> QED
    BY <1>1, <2>1 DEF vars, LossInv, FrameInv, WaitInv, ToldInv, WaitSound, ClockQueue,
      EndIsDue, NewsQueue, Despawns, Exists, Due, IsReconnect
<1> QED
  BY <1>1, BeginFrameIsPatient, UpdateIsPatient, JoinIsPatient, ConnectIsPatient DEF Next

\* So it holds for every run of frames.
LEMMA LossInvHolds == Spec => []LossInv
<1>1. Init => LossInv
  BY LossInvAtFirst
<1>2. LossInv /\ [Next]_vars => LossInv'
  BY LossInvKept
<1> QED
  BY <1>1, <1>2, PTL DEF Spec

------------------------------------------------------------------------------
\* The theorems

\* However often a loss is reported, by whoever, and whatever is given up on in
\* between, a lobby waits no longer for one host than was promised
\* (host_lost, new_host_named, reconnect_ran_out).
THEOREM WaitsAreBounded == Spec => []WaitIsBounded
<1>1. LossInv => WaitIsBounded
  <2> SUFFICES ASSUME LossInv, world.lobby.wait.on PROVE unled <= Due(world)
    BY DEF WaitIsBounded
  <2> QED
    BY DEF LossInv, WaitInv, WaitSound
<1> QED
  BY <1>1, LossInvHolds, PTL

\* A system that runs takes no lobby away: only its commands do.
LEMMA RunsSpareTheLobby ==
  ASSUME NEW s, NEW effect, Harmless(s, effect), Runs(s, effect)
  PROVE  Exists(world') <=> Exists(world)
BY DEF Harmless, Runs, Still, Exists

\* A session ends only as a command of somebody's is carried out.
LEMMA EndsAreCommands ==
  ASSUME LossInv, [Next]_vars, NEW s \in Systems, EndedBy(s)
  PROVE  Apply(s)
<1>1. SessionInv
  BY DEF LossInv
<1>2. Exists(world) /\ ~Exists(world') /\ buffer'[s] # buffer[s]
  BY DEF EndedBy
<1>3. CASE UNCHANGED vars
  BY <1>2, <1>3 DEF vars
<1>4. CASE BeginFrame \/ Join \/ Connect
  BY <1>2, <1>4 DEF BeginFrame, Join, Connect
<1>5. CASE Update
  <2>1. ASSUME NEW t, NEW effect, Harmless(t, effect), Runs(t, effect)
        PROVE  FALSE
    BY <1>2, <2>1, RunsSpareTheLobby
  <2>2. ASSUME NEW t \in Systems, Apply(t)
        PROVE  t = s
    BY <1>1, <1>2, <2>2 DEF Apply, SessionInv, TypeOK
  <2>3. /\ ~Runs("clocks", Clocks) /\ ~Runs("pongs", Pongs)
        /\ ~Runs("handshakes", Handshakes) /\ ~Runs("matches", Matches)
    BY <1>1, <2>1, ClocksAreHarmless, PongsAreHarmless, HandshakesAreHarmless,
       MatchesAreHarmless
  <2>4. /\ ~Runs("words", Words) /\ ~Runs("silence", Silence)
        /\ ~Runs("leaving", Leaving) /\ ~Runs("joining", Joining)
        /\ ~Runs("promotion", Promotion) /\ ~Runs("publish", Publish)
    BY <1>1, <2>1, WordsAreHarmless, SimpleOnesAreHarmless
  <2>5. ~Runs("sockets", Sockets) /\ ~Runs("teardown", Teardown)
    BY <1>1, <2>1, SocketsAreHarmless, TeardownIsHarmless
  <2>6. CASE Runs("events", LobbyEvents)
    <3>1. "events" \in todo
      BY <2>6 DEF Runs
    <3> QED
      BY <1>1, <2>1, <2>6, <3>1, EventsAreHarmless
  <2> QED
    BY <1>5, <2>2, <2>3, <2>4, <2>5, <2>6 DEF Update
<1> QED
  BY <1>3, <1>4, <1>5 DEF Next

\* A wait that its clock ends, in a frame with no other news of a host, has had
\* all the time that was promised.
LEMMA EndsAreDue ==
  ASSUME LossInv, [Next]_vars, EndedBy("clocks"), world.lobby.wait.on, Quiet(inbox)
  PROVE  unled >= Due(world)
<1> DEFINE wait == world.lobby.wait
           c == Head(buffer["clocks"])
<1>1. "clocks" \in Systems
  BY DEF Systems
<1>2. Apply("clocks")
  BY <1>1, EndsAreCommands
<1>3. Passes(world, c.do, world') /\ Exists(world) /\ ~Exists(world')
  BY <1>1, <1>2, CommandPasses DEF EndedBy
<1>4. /\ buffer["clocks"] # <<>> /\ c.do \in {"end", "ranOut"}
      /\ wait.waited = unled /\ wait.limit = Due(world)
      /\ c.do = "end" => wait.waited = wait.limit
  BY <1>2 DEF Apply, LossInv, WaitInv, ClockQueue, EndIsDue, WaitSound
<1>5. c.do = "ranOut" => wait.waited >= wait.limit
  BY <1>3 DEF Passes
<1>6. Due(world) \in Nat
  BY DueIsPromised
<1> QED
  BY <1>4, <1>5, <1>6

\* A wait is not cut short: one its clock ends, in a frame that brought no other
\* news of a host, lasted as long as was promised since the host was lost or the
\* last one named (run_host_migration_clocks, reconnect_ran_out).
THEOREM NoWaitIsCutShort == Spec => NotGivenUpEarly
<1> DEFINE Fair ==
      /\ EndedBy("clocks") /\ world.lobby.wait.on
      /\ inbox.named = None /\ inbox.broken = "no" /\ ~inbox.silent
      => unled >= Due(world)
<1>1. LossInv /\ [Next]_vars => [Fair]_vars
  BY EndsAreDue DEF Quiet
<1>2. [][Fair]_vars => NotGivenUpEarly
  BY DEF NotGivenUpEarly
<1> QED
  BY <1>1, <1>2, LossInvHolds, PTL DEF Spec

\* Who ends a session has told of it, or had it told before.
LEMMA EndsAreTold ==
  ASSUME LossInv, [Next]_vars, NEW s \in Systems \ {"leaving", "joining"}, EndedBy(s)
  PROVE  world'.left # <<>>
<1> DEFINE c == Head(buffer[s])
<1>1. Apply(s) /\ Exists(world) /\ ~Exists(world')
  BY EndsAreCommands DEF EndedBy
<1>2. Passes(world, c.do, world')
  BY <1>1, CommandPasses
<1>3. CASE c.do = "despawn"
  <2>1. buffer[s] \in Seq(Commands) /\ buffer[s] # <<>>
    BY <1>1 DEF Apply, LossInv, SessionInv, TypeOK
  <2>2. Despawns(buffer[s])
    <3>1. 1 \in 1..Len(buffer[s]) /\ buffer[s][1] = Head(buffer[s])
      BY <2>1
    <3> QED
      BY <1>3, <3>1 DEF Despawns
  <2>3. world.left # <<>>
    BY <1>1, <2>2 DEF LossInv, ToldInv
  <2> QED
    BY <1>1, <1>2, <1>3, <2>3 DEF Passes
<1>4. CASE c.do # "despawn"
  BY <1>1, <1>2, <1>4 DEF Passes
<1> QED
  BY <1>3, <1>4

\* And at the end of a frame nobody is in a session told of as over.
LEMMA ToldIsOver ==
  ASSUME LossInv', Resting', world'.left # <<>>
  PROVE  ~Exists(world')
<1>1. \A s \in Systems : ~Despawns(buffer'[s])
  BY EmptyQueue DEF Resting
<1> QED
  BY <1>1 DEF LossInv, ToldInv, Exists, Despawns

\* A session nobody here asked to leave, and no join that took too long, never
\* goes without a LobbyLeft, however its end was reached; and one it was written
\* for is over by the end of the frame (verify_protocol, poll_socket_peers,
\* SignallingClosed, end_client_session).
THEOREM NobodyIsDroppedUntold == Spec => NobodyIsDroppedInSilence
<1> DEFINE Told ==
      /\ \A s \in Systems \ {"leaving", "joining"} : EndedBy(s) => world'.left # <<>>
      /\ Resting' /\ world'.left # <<>> => ~Exists(world')
<1>1. LossInv /\ [Next]_vars => [Told]_vars
  BY EndsAreTold, LossInvKept, ToldIsOver
<1>2. [][Told]_vars => NobodyIsDroppedInSilence
  BY DEF NobodyIsDroppedInSilence
<1> QED
  BY <1>1, <1>2, LossInvHolds, PTL DEF Spec
==============================================================================
