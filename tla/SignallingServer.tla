--------------------------- MODULE SignallingServer ---------------------------
(***************************************************************************)
(* The signalling server's lobby registry: state.rs, lobby.rs and the      *)
(* handlers of ws_handler.rs that reach them.                              *)
(*                                                                         *)
(* Every connection has a task of its own that handles one frame at a      *)
(* time; the tasks share three concurrent maps and nothing else.  A step   *)
(* of this module is what a task does between taking one map entry and     *)
(* giving it back, so two tasks interleave exactly where the code releases *)
(* an entry.  job[c] is the frame connection c is in the middle of.        *)
(*                                                                         *)
(* Messages to a connection go through an unbounded FIFO channel.  told[c] *)
(* is what the owner of c will believe once it has read everything queued  *)
(* for it so far: sending a message is applying it to told[c].             *)
(*                                                                         *)
(* struck and clashed are history variables: they record that one of two   *)
(* races has happened, and constrain nothing.                              *)
(***************************************************************************)
EXTENDS Naturals, Sequences, FiniteSets, Functions, JoinOrder

CONSTANTS Conns,           \* connections; a reconnecting player is a new one
          LobbyIds,        \* the random u64 ids, each drawn at most once
          Codes,           \* the four-letter codes
          Requests,        \* ids clients give their typed requests
          Games,           \* games declared by clients
          Names,           \* display names
          RequestedSizes,  \* max_players as clients ask for it
          MaxPlayers,      \* MAX_PLAYERS, what 0 and anything above it becomes
          None             \* Option::None

ASSUME NoneAssumption == None \notin LobbyIds \cup Codes \cup Requests \cup Conns
ASSUME SizeAssumption == /\ MaxPlayers \in Nat \ {0}
                         /\ RequestedSizes \subseteq Nat
ASSUME ConnsAssumption == IsFiniteSet(Conns)

VARIABLES lobbies,      \* ServerState.lobbies
          lobby_codes,  \* ServerState.lobby_codes
          lobby_id,     \* ConnectionHandle.lobby_id
          entered_by,   \* ConnectionHandle.entered_by
          migrates,     \* the connection declared CAPABILITY_HOST_MIGRATION
          game,         \* ConnectionHandle.game
          name,         \* ConnectionHandle.display_name
          job,          \* the frame each connection's task is handling
          told,         \* what each client believes once its queue is read
          drawn,        \* lobby ids drawn so far
          struck,       \* history: hit by the end of a lobby they had left
          clashed       \* history: codes drawn by two creations at once

handles == <<lobby_id, entered_by, migrates, game, name>>
vars == <<lobbies, lobby_codes, handles, job, told, drawn, struck, clashed>>

Stages == {"offline", "greeting", "idle", "renaming", "creating", "joining",
           "departing", "unlisting", "uncoding", "telling", "clearing", "closed"}

Lobby == [code : Codes, host : Conns, host_name : Names, members : Seq(Conns),
          max_players : Nat, game : Games, host_migration : BOOLEAN]

Job == {j \in [at : Stages, lobby : LobbyIds \cup {None},
                code : Codes \cup {None}, how : {"Leave", "Close", "End"},
                left : Seq(Conns)] :
          /\ j.at = "creating" => j.code # None
          /\ j.at = "clearing" => j.left # <<>>}

View == [lobby : LobbyIds \cup {None}, host : Conns \cup {None},
         peers : SUBSET Conns, migratable : BOOLEAN,
         request : Requests \cup {None}]

\* A task at a point of a frame about lobby l; between frames there is none.
Busy(at, l) == [at |-> at, lobby |-> l, code |-> None, how |-> "Leave",
                left |-> <<>>]
Resting(at) == Busy(at, None)
Idle == Resting("idle")
Nowhere == [lobby |-> None, host |-> None, peers |-> {}, migratable |-> FALSE,
            request |-> None]

TypeOK ==
  /\ DOMAIN lobbies \subseteq drawn
  /\ lobbies \in [DOMAIN lobbies -> Lobby]
  /\ DOMAIN lobby_codes \subseteq Codes
  /\ lobby_codes \in [DOMAIN lobby_codes -> LobbyIds]
  /\ lobby_id \in [Conns -> LobbyIds \cup {None}]
  /\ entered_by \in [Conns -> Requests \cup {None}]
  /\ migrates \in [Conns -> BOOLEAN]
  /\ game \in [Conns -> Games]
  /\ name \in [Conns -> Names]
  /\ job \in [Conns -> Job]
  /\ told \in [Conns -> View]
  /\ drawn \subseteq LobbyIds
  /\ struck \subseteq Conns
  /\ clashed \subseteq Codes

------------------------------------------------------------------------------
\* Concurrent maps

Put(map, key, value) ==
  [k \in DOMAIN map \cup {key} |-> IF k = key THEN value ELSE map[k]]
Del(map, key) == [k \in DOMAIN map \ {key} |-> map[k]]

\* Connections that have a handle in the connections map.
Open == {c \in Conns : job[c].at \notin {"offline", "closed"}}
Declaring == {c \in Open : migrates[c]}

\* 0 stands for "as many as the server allows".
ClampMaxPlayers(requested) ==
  IF requested = 0 \/ requested > MaxPlayers THEN MaxPlayers ELSE requested

------------------------------------------------------------------------------
\* What a client makes of each message

HearsPlayerJoined(view, who) ==
  IF view.lobby = None THEN view ELSE [view EXCEPT !.peers = @ \cup {who}]
HearsPlayerLeftMutant(view, who) == view  \* the departed stay on the roster
HearsPlayerLeft(view, who) == [view EXCEPT !.peers = @ \ {who}]
HearsHostChanged(view, l, new_host, others) ==
  IF view.lobby # l THEN view
  ELSE [view EXCEPT !.host = new_host, !.peers = others]

------------------------------------------------------------------------------
\* Connecting

Authenticate(c) ==
  /\ job[c].at = "offline"
  /\ \E n \in Names : name' = [name EXCEPT ![c] = n]
  /\ job' = [job EXCEPT ![c] = Resting("greeting")]
  /\ UNCHANGED <<lobbies, lobby_codes, lobby_id, entered_by, migrates, game,
                 told, drawn, struck, clashed>>

\* The client declares both right after Authenticate, before anything else.
Declare(c) ==
  /\ job[c].at = "greeting"
  /\ \E m \in BOOLEAN, g \in Games :
       /\ migrates' = [migrates EXCEPT ![c] = m]
       /\ game' = [game EXCEPT ![c] = g]
  /\ job' = [job EXCEPT ![c] = Idle]
  /\ UNCHANGED <<lobbies, lobby_codes, lobby_id, entered_by, name, told, drawn,
                 struck, clashed>>

\* The handle is renamed under its own entry, the listing under the lobby's,
\* also when the new name is the old one.
SetDisplayName(c) ==
  /\ job[c].at = "idle"
  /\ \E n \in Names : name' = [name EXCEPT ![c] = n]
  /\ job' = IF lobby_id[c] = None THEN job
            ELSE [job EXCEPT ![c] = Busy("renaming", lobby_id[c])]
  /\ UNCHANGED <<lobbies, lobby_codes, lobby_id, entered_by, migrates, game,
                 told, drawn, struck, clashed>>

RenameLobby(c) ==
  LET l == job[c].lobby
  IN /\ job[c].at = "renaming"
     /\ lobbies' = IF l \in DOMAIN lobbies /\ lobbies[l].host = c
                   THEN [lobbies EXCEPT ![l].host_name = name[c]]
                   ELSE lobbies
     /\ job' = [job EXCEPT ![c] = Idle]
     /\ UNCHANGED <<lobby_codes, handles, told, drawn, struck, clashed>>

------------------------------------------------------------------------------
\* Creating

\* Bound: a creation starts only while LobbyIds has an id for it.
IdsToSpare ==
  Cardinality({c \in Conns : job[c].at = "creating"})
    < Cardinality(LobbyIds \ drawn)

\* A creation that goes on without a code of its own.
CreateLobbyMutant(c) ==
  /\ job[c].at = "idle"
  /\ lobby_id[c] = None
  /\ IdsToSpare
  /\ job' = [job EXCEPT ![c] = Busy("creating", None)]
  /\ UNCHANGED <<lobbies, lobby_codes, handles, told, drawn, struck, clashed>>

\* Up to the code: the handle is read and released, and a code is drawn that
\* no lobby has at this moment.  Nothing holds the code for this creation.
CreateLobby(c) ==
  /\ job[c].at = "idle"
  /\ lobby_id[c] = None
  /\ IdsToSpare
  /\ \E code \in Codes \ DOMAIN lobby_codes :
       job' = [job EXCEPT ![c] = [Busy("creating", None) EXCEPT !.code = code]]
  /\ UNCHANGED <<lobbies, lobby_codes, handles, told, drawn, struck, clashed>>

NewLobby(c, asked) ==
  [code |-> job[c].code, host |-> c, host_name |-> name[c], members |-> <<c>>,
   max_players |-> ClampMaxPlayers(asked), game |-> game[c],
   host_migration |-> migrates[c]]

\* The rest of create_lobby, all of it with the new lobby's entry held.
InsertLobby(c) ==
  /\ job[c].at = "creating"
  /\ \E l \in LobbyIds \ drawn, asked \in RequestedSizes,
        r \in Requests \cup {None} :
       /\ lobbies' = Put(lobbies, l, NewLobby(c, asked))
       /\ lobby_codes' = Put(lobby_codes, job[c].code, l)
       /\ lobby_id' = [lobby_id EXCEPT ![c] = l]
       /\ entered_by' = [entered_by EXCEPT ![c] = r]
       /\ told' = [told EXCEPT ![c] =
            [lobby |-> l, host |-> c, peers |-> {},
             migratable |-> migrates[c], request |-> r]]
       /\ drawn' = drawn \cup {l}
  /\ clashed' = IF job[c].code \in DOMAIN lobby_codes
                THEN clashed \cup {job[c].code} ELSE clashed
  /\ job' = [job EXCEPT ![c] = Idle]
  /\ UNCHANGED <<migrates, game, name, struck>>

------------------------------------------------------------------------------
\* Joining

JoinLobby(c) ==
  /\ job[c].at = "idle"
  /\ \E l \in drawn :
       job' = [job EXCEPT ![c] = Busy("joining", l)]
  /\ UNCHANGED <<lobbies, lobby_codes, handles, told, drawn, struck, clashed>>

\* The code is looked up first, and its entry released before the lobby's is
\* taken.
JoinLobbyByCode(c) ==
  /\ job[c].at = "idle"
  /\ \E code \in DOMAIN lobby_codes :
       job' = [job EXCEPT ![c] = Busy("joining", lobby_codes[code])]
  /\ UNCHANGED <<lobbies, lobby_codes, handles, told, drawn, struck, clashed>>

\* One member too many.
MayEnterMutant(c, l) ==
  /\ lobby_id[c] = None
  /\ l \in DOMAIN lobbies
  /\ lobbies[l].game = game[c]
  /\ Len(lobbies[l].members) <= lobbies[l].max_players

\* Whether join_lobby takes c in: AlreadyInLobby, LobbyNotFound and LobbyFull
\* are the refusals.
MayEnter(c, l) ==
  /\ lobby_id[c] = None
  /\ l \in DOMAIN lobbies
  /\ lobbies[l].game = game[c]
  /\ Len(lobbies[l].members) < lobbies[l].max_players

RefuseJoin(c) ==
  /\ job[c].at = "joining"
  /\ ~MayEnter(c, job[c].lobby)
  /\ job' = [job EXCEPT ![c] = Idle]
  /\ UNCHANGED <<lobbies, lobby_codes, handles, told, drawn, struck, clashed>>

\* Entering, with the lobby's entry held throughout.
EnterLobby(c) ==
  LET l == job[c].lobby
      inside == Range(lobbies[l].members)
  IN /\ job[c].at = "joining"
     /\ MayEnter(c, l)
     /\ lobbies' = [lobbies EXCEPT ![l].members = Append(@, c)]
     /\ lobby_id' = [lobby_id EXCEPT ![c] = l]
     /\ \E r \in Requests \cup {None} :
          /\ entered_by' = [entered_by EXCEPT ![c] = r]
          /\ told' = [x \in Conns |->
               IF x = c
               THEN [lobby |-> l, host |-> lobbies[l].host, peers |-> inside,
                     migratable |-> lobbies[l].host_migration /\ migrates[c],
                     request |-> r]
               ELSE IF x \in inside \cap Open
               THEN HearsPlayerJoined(told[x], c) ELSE told[x]]
     /\ job' = [job EXCEPT ![c] = Idle]
     /\ UNCHANGED <<lobby_codes, migrates, game, name, drawn, struck, clashed>>

------------------------------------------------------------------------------
\* Departing

StartToDepart(c, how) ==
  /\ job' = [job EXCEPT ![c] =
                [Busy("departing", lobby_id[c]) EXCEPT !.how = how]]
  /\ UNCHANGED <<lobbies, lobby_codes, handles, told, drawn, struck, clashed>>

LeaveLobby(c) ==
  /\ job[c].at = "idle"
  /\ lobby_id[c] # None
  /\ StartToDepart(c, "Leave")

CloseLobby(c) ==
  /\ job[c].at = "idle"
  /\ lobby_id[c] # None
  /\ StartToDepart(c, "Close")

\* A cancel only departs from the lobby its own request entered.
CancelRequest(c) ==
  /\ job[c].at = "idle"
  /\ lobby_id[c] # None
  /\ \E r \in Requests : entered_by[c] = r
  /\ StartToDepart(c, "Leave")

\* The socket ended, went idle too long or was closed for flooding.
EndConnection(c) ==
  /\ job[c].at \in {"greeting", "idle"}
  /\ StartToDepart(c, "End")

\* What follows a departure: the next frame, or the end of the connection.
Rest(c) == Resting(IF job[c].how = "End" THEN "closed" ELSE "idle")

Forget(c) ==
  /\ lobby_id' = [lobby_id EXCEPT ![c] = None]
  /\ entered_by' = [entered_by EXCEPT ![c] = None]

\* The lobby is gone already (or there never was one).
DepartFromNothing(c) ==
  /\ job[c].at = "departing"
  /\ job[c].lobby \notin DOMAIN lobbies
  /\ Forget(c)
  /\ told' = [told EXCEPT ![c] = Nowhere]
  /\ job' = [job EXCEPT ![c] = Rest(c)]
  /\ UNCHANGED <<lobbies, lobby_codes, migrates, game, name, drawn, struck,
                 clashed>>

IgnoreClose(c) ==
  /\ job[c].at = "departing"
  /\ job[c].lobby \in DOMAIN lobbies
  /\ job[c].how = "Close"
  /\ lobbies[job[c].lobby].host # c
  /\ job' = [job EXCEPT ![c] = Idle]
  /\ UNCHANGED <<lobbies, lobby_codes, handles, told, drawn, struck, clashed>>

DepartAsMember(c) ==
  LET l == job[c].lobby
      rest == Retain(lobbies[l].members, Conns \ {c})
  IN /\ job[c].at = "departing"
     /\ l \in DOMAIN lobbies
     /\ job[c].how # "Close"
     /\ lobbies[l].host # c
     /\ lobbies' = [lobbies EXCEPT ![l].members = rest]
     /\ Forget(c)
     /\ told' = [x \in Conns |->
          IF x = c THEN Nowhere
          ELSE IF x \in Range(rest) \cap Open
          THEN HearsPlayerLeft(told[x], c) ELSE told[x]]
     /\ job' = [job EXCEPT ![c] = Rest(c)]
     /\ UNCHANGED <<lobby_codes, migrates, game, name, drawn, struck, clashed>>

\* The members left behind by host c, and those of them that can be told who
\* takes over.
LeftBehind(c) == Retain(lobbies[job[c].lobby].members, Conns \ {c})
\* Everyone left behind stays in the list, told or not.
FollowersMutant(c) == LeftBehind(c)
\* The last to join takes over.
FollowersNewestFirst(c) ==
  LET f == Retain(LeftBehind(c), Declaring)
  IN [i \in DOMAIN f |-> f[Len(f) + 1 - i]]
Followers(c) == Retain(LeftBehind(c), Declaring)

\* One member that cannot follow ends the lobby for those that can.
HandsOverMutant(c) == /\ job[c].how # "Close"
                      /\ lobbies[job[c].lobby].host_migration
                      /\ Followers(c) # <<>>
                      /\ Followers(c) = LeftBehind(c)
HandsOver(c) == /\ job[c].how # "Close"
                /\ lobbies[job[c].lobby].host_migration
                /\ Followers(c) # <<>>

\* The lobby is handed to the follower who joined first; members that cannot
\* follow are removed.  All with the lobby's entry held.  The code asks twice
\* who can follow; between the two only a struck connection can go, since any
\* other gives up its place first, and that is left out.
HandOver(c) ==
  LET l == job[c].lobby
      followers == Followers(c)
      new_host == Head(followers)
      stranded == Range(LeftBehind(c)) \ Declaring
  IN /\ job[c].at = "departing"
     /\ l \in DOMAIN lobbies
     /\ lobbies[l].host = c
     /\ HandsOver(c)
     /\ lobbies' = [lobbies EXCEPT ![l] =
          [@ EXCEPT !.members = followers, !.host = new_host,
                    !.host_name = name[new_host]]]
     /\ lobby_id' = [x \in Conns |->
          IF x \in stranded \cup {c} THEN None ELSE lobby_id[x]]
     /\ entered_by' = [x \in Conns |->
          IF x \in stranded \cup {c} THEN None ELSE entered_by[x]]
     /\ told' = [x \in Conns |->
          IF x = c \/ x \in stranded \cap Open THEN Nowhere
          ELSE IF x \in Range(followers)
          THEN HearsHostChanged(told[x], l, new_host, Range(followers) \ {x})
          ELSE told[x]]
     /\ job' = [job EXCEPT ![c] = Rest(c)]
     /\ UNCHANGED <<lobby_codes, migrates, game, name, drawn, struck, clashed>>

\* Nobody to hand it to: the members are taken and the entry released, with
\* the emptied lobby still in the map.
EmptyLobby(c) ==
  LET l == job[c].lobby
  IN /\ job[c].at = "departing"
     /\ l \in DOMAIN lobbies
     /\ lobbies[l].host = c
     /\ ~HandsOver(c)
     /\ lobbies' = [lobbies EXCEPT ![l].members = <<>>]
     /\ Forget(c)
     /\ told' = [told EXCEPT ![c] = Nowhere]
     /\ job' = [job EXCEPT ![c] =
                   [at |-> "unlisting", lobby |-> l, code |-> lobbies[l].code,
                    how |-> job[c].how, left |-> LeftBehind(c)]]
     /\ UNCHANGED <<lobby_codes, migrates, game, name, drawn, struck, clashed>>

RemoveLobby(c) ==
  /\ job[c].at = "unlisting"
  /\ lobbies' = Del(lobbies, job[c].lobby)
  /\ job' = [job EXCEPT ![c].at = "uncoding"]
  /\ UNCHANGED <<lobby_codes, handles, told, drawn, struck, clashed>>

\* The code outlives its lobby.
RemoveCodeMutant(c) ==
  /\ job[c].at = "uncoding"
  /\ job' = [job EXCEPT ![c].at = "telling"]
  /\ UNCHANGED <<lobbies, lobby_codes, handles, told, drawn, struck, clashed>>

RemoveCode(c) ==
  /\ job[c].at = "uncoding"
  /\ lobby_codes' = Del(lobby_codes, job[c].code)
  /\ job' = [job EXCEPT ![c].at = "telling"]
  /\ UNCHANGED <<lobbies, handles, told, drawn, struck, clashed>>

\* disconnect, one member at a time: the message first, the handle after it,
\* and no entry held in between.
TellDisconnected(c) ==
  LET x == Head(job[c].left)
  IN /\ job[c].at = "telling"
     /\ job[c].left # <<>>
     /\ told' = IF x \in Open THEN [told EXCEPT ![x] = Nowhere] ELSE told
     /\ struck' = IF x \in Open /\ told[x].lobby \notin {None, job[c].lobby}
                  THEN struck \cup {x} ELSE struck
     /\ job' = [job EXCEPT ![c].at = "clearing"]
     /\ UNCHANGED <<lobbies, lobby_codes, handles, drawn, clashed>>

ClearDisconnected(c) ==
  LET x == Head(job[c].left)
  IN /\ job[c].at = "clearing"
     /\ Forget(x)
     /\ struck' = IF lobby_id[x] \notin {None, job[c].lobby}
                  THEN struck \cup {x} ELSE struck
     /\ job' = [job EXCEPT ![c] = [job[c] EXCEPT !.at = "telling",
                                                  !.left = Tail(job[c].left)]]
     /\ UNCHANGED <<lobbies, lobby_codes, migrates, game, name, told, drawn,
                    clashed>>

\* The task stops before everyone has been told.
FinishDisconnectingMutant(c) ==
  /\ job[c].at = "telling"
  /\ job' = [job EXCEPT ![c] = Rest(c)]
  /\ UNCHANGED <<lobbies, lobby_codes, handles, told, drawn, struck, clashed>>

FinishDisconnecting(c) ==
  /\ job[c].at = "telling"
  /\ job[c].left = <<>>
  /\ job' = [job EXCEPT ![c] = Rest(c)]
  /\ UNCHANGED <<lobbies, lobby_codes, handles, told, drawn, struck, clashed>>

------------------------------------------------------------------------------
Init ==
  /\ lobbies = [l \in {} |-> None]
  /\ lobby_codes = [k \in {} |-> None]
  /\ lobby_id = [c \in Conns |-> None]
  /\ entered_by = [c \in Conns |-> None]
  /\ migrates = [c \in Conns |-> FALSE]
  /\ \E g \in Games : game = [c \in Conns |-> g]
  /\ \E n \in Names : name = [c \in Conns |-> n]
  /\ job = [c \in Conns |-> Resting("offline")]
  /\ told = [c \in Conns |-> Nowhere]
  /\ drawn = {}
  /\ struck = {}
  /\ clashed = {}

\* A task going on with the frame it is handling: never waits for a peer.
Continue(c) ==
  \/ RenameLobby(c) \/ InsertLobby(c)
  \/ EnterLobby(c) \/ RefuseJoin(c)
  \/ DepartFromNothing(c) \/ IgnoreClose(c) \/ DepartAsMember(c)
  \/ HandOver(c) \/ EmptyLobby(c) \/ RemoveLobby(c) \/ RemoveCode(c)
  \/ TellDisconnected(c) \/ ClearDisconnected(c) \/ FinishDisconnecting(c)

\* A frame arriving, or the socket ending.
Arrive(c) ==
  \/ Authenticate(c) \/ Declare(c) \/ SetDisplayName(c)
  \/ CreateLobby(c) \/ JoinLobby(c) \/ JoinLobbyByCode(c)
  \/ LeaveLobby(c) \/ CloseLobby(c) \/ CancelRequest(c) \/ EndConnection(c)

Next == \E c \in Conns : Continue(c) \/ Arrive(c)

Spec == Init /\ [][Next]_vars

\* The runtime schedules every task that is ready; clients owe it nothing.
FairSpec == Spec /\ \A c \in Conns : WF_vars(Continue(c))

------------------------------------------------------------------------------
\* Safety

\* Lobbies whose end has not begun.
Standing == {l \in DOMAIN lobbies :
               ~\E c \in Conns : job[c].at = "unlisting" /\ job[c].lobby = l}

\* The lobby's member list and the member's own handle are two copies of one
\* fact, kept under two maps' locks and written by several tasks: join_lobby,
\* depart, hand_over and disconnect keep them agreeing at every release of an
\* entry, for every connection the late disconnect has not hit.
MembershipAgrees ==
  \A c \in Conns, l \in Standing :
    /\ lobby_id[c] = l => c \in Range(lobbies[l].members)
    /\ c \in Range(lobbies[l].members) => lobby_id[c] = l \/ c \in struck

\* Whatever order joins, departures and host changes reach the maps in, the
\* messages queued for a member add up to exactly the lobby as it stands: its
\* host, everyone else in it, and the request that put the member there.
RosterAgrees ==
  \A c \in Open \ struck, l \in Standing :
    /\ told[c].lobby = l => c \in Range(lobbies[l].members)
    /\ c \in Range(lobbies[l].members) =>
         told[c] = [lobby |-> l, host |-> lobbies[l].host,
                    peers |-> Range(lobbies[l].members) \ {c},
                    migratable |-> lobbies[l].host_migration /\ migrates[c],
                    request |-> entered_by[c]]

\* A lobby that stands has its host inside it, one that can be told of a host
\* change if the lobby promised to survive; and it is never over its size.
LobbyIsSound ==
  \A l \in Standing :
    LET lobby == lobbies[l] IN
    /\ lobby.host \in Range(lobby.members)
    /\ lobby.host_migration => migrates[lobby.host]
    /\ Len(lobby.members) <= lobby.max_players

\* Join order is what decides succession, so no step may permute it: a lobby's
\* next member list is the old one with some members gone and at most one new
\* member at the end, and a new host is the first of the old list, after the
\* old host is gone, that can be told so.
StepKeepsSeniority ==
  \A l \in Standing \cap DOMAIN lobbies' :
    LET old == lobbies[l].members
        new == lobbies'[l].members
        kept == Retain(old, Range(new))
        heirs == Retain(old, Declaring \ {lobbies[l].host})
    IN /\ kept = SubSeq(new, 1, Len(kept))
       /\ Len(new) <= Len(kept) + 1
       /\ lobbies'[l].host # lobbies[l].host =>
            heirs # <<>> /\ lobbies'[l].host = heirs[1]
SeniorityDecides == [][StepKeepsSeniority]_vars

\* LobbyMigratable is a promise: a member that was sent it is never removed
\* because the host left, only because it departed itself or the host closed
\* the lobby on purpose.
StepKeepsPromise ==
  \A c \in Conns \ struck' :
    told[c].migratable /\ told'[c].lobby = None =>
      \/ job[c].at = "departing"
      \/ \E d \in Conns : /\ job[d].at = "telling" /\ job[d].how = "Close"
                           /\ job[d].left # <<>>
                           /\ Head(job[d].left) = c
PromiseKept == [][StepKeepsPromise]_vars

\* generate_lobby_code looks a code up and create_lobby inserts it with nothing
\* held in between.  Unless two creations drew one code at once, a standing lobby is found under
\* its code, and a code leads to a lobby that exists or is just being removed.
CodesLeadHome ==
  /\ \A l \in Standing : lobbies[l].code \notin clashed =>
       /\ lobbies[l].code \in DOMAIN lobby_codes
       /\ lobby_codes[lobbies[l].code] = l
  /\ \A k \in DOMAIN lobby_codes \ clashed :
       \/ lobby_codes[k] \in DOMAIN lobbies
       \/ \E c \in Conns : job[c].at = "uncoding" /\ job[c].code = k

------------------------------------------------------------------------------
\* Liveness

\* Every member that was in a lobby when its end began hears of it, or has
\* left by itself, however many of them leave or hang up meanwhile.
EveryMemberHearsTheEnd ==
  \A c \in Conns, l \in LobbyIds :
    (\E d \in Conns : /\ job[d].at \in {"unlisting", "uncoding", "telling"}
                       /\ job[d].lobby = l
                       /\ c \in Range(job[d].left)
                       /\ told[c].lobby = l)
      ~> told[c].lobby # l

------------------------------------------------------------------------------
\* What the code's comments say and its interleavings do not keep

\* lobby.rs:317: "nobody can join a lobby with no host from here on anyway,
\* since its code goes with it".
NobodyJoinsALobbyWithNoHost ==
  [][\A c \in Conns, l \in DOMAIN lobbies :
       lobby_id'[c] = l /\ lobby_id[c] # l => l \in Standing]_vars

\* state.rs:79: members is "Everyone in the lobby, the host included".
MembersAreInTheLobby ==
  \A l \in Standing : \A c \in Range(lobbies[l].members) : lobby_id[c] = l
==============================================================================
