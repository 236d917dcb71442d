------------------------- MODULE SignallingServerProofs -------------------------
(***************************************************************************)
(* Theorems about the signalling server's lobby registry, for every number *)
(* of connections, lobbies, codes, requests and names.                     *)
(*                                                                         *)
(* The first is type correctness.  The second is that a lobby's member     *)
(* list and its members' handles agree, by an inductive invariant that     *)
(* says where the two may disagree: only for a connection struck by the    *)
(* end of a lobby it had left already.                                     *)
(*                                                                         *)
(* The others are what the registry promises beyond that: lobbies are      *)
(* sound, codes lead home, the messages queued for a member add up to its  *)
(* lobby, join order decides succession, and a member that was told its    *)
(* lobby survives its host is not removed because the host left.           *)
(***************************************************************************)
EXTENDS SignallingServer, SequenceProofs


------------------------------------------------------------------------------
\* Type correctness

LEMMA RetainedMembers ==
  ASSUME NEW s \in Seq(Conns), NEW keep
  PROVE  /\ Retain(s, keep) \in Seq(Conns)
         /\ Range(Retain(s, keep)) = Range(s) \cap keep
         /\ Retain(s, keep) # <<>> => Head(Retain(s, keep)) \in Range(s) \cap keep
<1>1. /\ Retain(s, keep) \in Seq(Conns)
      /\ Range(Retain(s, keep)) = Range(s) \cap keep
  BY RetainKeepsExactly
<1>2. ASSUME NEW t \in Seq(Conns), t # <<>>
      PROVE  Head(t) \in Range(t)
  BY <1>2 DEF Range
<1> QED
  BY <1>1, <1>2

LEMMA AppendedMembers ==
  ASSUME NEW s \in Seq(Conns), NEW c \in Conns
  PROVE  Range(Append(s, c)) = Range(s) \cup {c}
<1> DEFINE t == Append(s, c)
<1>1. /\ DOMAIN s = 1..Len(s) /\ DOMAIN t = 1..(Len(s) + 1) /\ Len(s) \in Nat
      /\ t[Len(s) + 1] = c
      /\ \A i \in 1..Len(s) : t[i] = s[i]
  OBVIOUS
<1> HIDE DEF t
<1>2. Range(t) = Range(s) \cup {c}
  <2>1. Range(t) \subseteq Range(s) \cup {c}
    BY <1>1 DEF Range
  <2>2. c \in Range(t)
    BY <1>1 DEF Range
  <2>3. Range(s) \subseteq Range(t)
    BY <1>1 DEF Range
  <2> QED
    BY <2>1, <2>2, <2>3
<1> QED
  BY <1>2 DEF t

LEMMA RestingIsAJob ==
  ASSUME NEW at \in Stages \ {"creating", "clearing"}
  PROVE  Resting(at) \in Job
BY DEF Resting, Busy, Job

LEMMA BusyIsAJob ==
  ASSUME NEW at \in Stages \ {"creating", "clearing"},
         NEW l \in LobbyIds \cup {None}
  PROVE  Busy(at, l) \in Job
BY DEF Busy, Job

\* Replacing one task's job by a job keeps the type of all of them.
LEMMA JobStep ==
  ASSUME TypeOK, NEW c \in Conns, NEW j \in Job, job' = [job EXCEPT ![c] = j]
  PROVE  job' \in [Conns -> Job]
BY DEF TypeOK

\* Replacing one lobby by a lobby keeps the map's domain and its type.
LEMMA LobbyStep ==
  ASSUME TypeOK, NEW l \in DOMAIN lobbies, NEW v \in Lobby,
         lobbies' = [lobbies EXCEPT ![l] = v]
  PROVE  /\ DOMAIN lobbies' = DOMAIN lobbies
         /\ lobbies' \in [DOMAIN lobbies' -> Lobby]
BY DEF TypeOK

LEMMA InitType == Init => TypeOK
<1> SUFFICES ASSUME Init PROVE TypeOK
  OBVIOUS
<1>1. Resting("offline") \in Job
  BY RestingIsAJob DEF Stages
<1>2. Nowhere \in View
  BY DEF Nowhere, View
<1> QED
  BY <1>1, <1>2 DEF Init, TypeOK

\* Every step of a task or of a client keeps every variable in its type.
LEMMA StepType ==
  ASSUME TypeOK, NEW c \in Conns, Continue(c) \/ Arrive(c)
  PROVE  TypeOK'
<1> USE DEF TypeOK, handles
<1> DEFINE here == lobbies[job[c].lobby]
<1>a. /\ Idle \in Job
      /\ Rest(c) \in Job
      /\ Nowhere \in View
      /\ Resting("greeting") \in Job
  BY RestingIsAJob DEF Idle, Rest, Stages, Nowhere, View
<1>b. /\ job[c] \in Job
      /\ job[c].lobby \in LobbyIds \cup {None}
      /\ job[c].code \in Codes \cup {None}
      /\ job[c].how \in {"Leave", "Close", "End"}
      /\ job[c].left \in Seq(Conns)
  BY DEF Job
<1>c. \A at \in Stages \ {"creating", "clearing"} :
        [job[c] EXCEPT !.at = at] \in Job
  BY ZenonT(40) DEF Job
<1>d. \A at \in Stages \ {"creating", "clearing"}, l \in LobbyIds \cup {None} : Busy(at, l) \in Job
  BY BusyIsAJob
<1>1. CASE Authenticate(c)
  BY <1>a, <1>1 DEF Authenticate
<1>2. CASE Declare(c)
  BY <1>a, <1>2 DEF Declare
<1>3. CASE SetDisplayName(c)
  <2>1. Busy("renaming", lobby_id[c]) \in Job
    BY <1>d DEF Stages
  <2> QED
    BY <1>3, <2>1 DEF SetDisplayName
<1>4. CASE RenameLobby(c)
  <2>1. CASE job[c].lobby \in DOMAIN lobbies /\ lobbies[job[c].lobby].host = c
    <3>1. [here EXCEPT !.host_name = name[c]] \in Lobby
      BY <2>1, SMTT(30) DEF Lobby
    <3>2. lobbies' = [lobbies EXCEPT ![job[c].lobby] =
                        [here EXCEPT !.host_name = name[c]]]
      BY <1>4, <2>1 DEF RenameLobby
    <3>3. DOMAIN lobbies' = DOMAIN lobbies /\ lobbies' \in [DOMAIN lobbies' -> Lobby]
      BY <2>1, <3>1, <3>2, LobbyStep
    <3>4. job' \in [Conns -> Job]
      BY <1>a, <1>4, JobStep DEF RenameLobby
    <3>5. UNCHANGED <<lobby_codes, handles, told, drawn, struck, clashed>>
      BY <1>4 DEF RenameLobby
    <3> QED
      BY <3>3, <3>4, <3>5
  <2>2. CASE ~(job[c].lobby \in DOMAIN lobbies /\ lobbies[job[c].lobby].host = c)
    BY <1>a, <1>4, <2>2 DEF RenameLobby
  <2> QED
    BY <2>1, <2>2
<1>5. CASE CreateLobby(c)
  <2>1. \A code \in Codes : [Busy("creating", None) EXCEPT !.code = code] \in Job
    <3> TAKE code \in Codes
    <3>1. [Busy("creating", None) EXCEPT !.code = code]
            = [at |-> "creating", lobby |-> None, code |-> code, how |-> "Leave",
               left |-> <<>>]
      BY DEF Busy
    <3>2. <<>> \in Seq(Conns)
      OBVIOUS
    <3> QED
      BY <3>1, <3>2, NoneAssumption DEF Job, Stages
  <2> QED
    BY <1>5, <2>1 DEF CreateLobby
<1>6. CASE InsertLobby(c)
  <2>1. job[c].code \in Codes
    BY <1>b, <1>6 DEF InsertLobby, Job
  <2>2. \A asked \in RequestedSizes : ClampMaxPlayers(asked) \in Nat
    BY SizeAssumption DEF ClampMaxPlayers
  <2>3. PICK l \in LobbyIds \ drawn, asked \in RequestedSizes,
             r \in Requests \cup {None} :
          /\ lobbies' = Put(lobbies, l, NewLobby(c, asked))
          /\ lobby_codes' = Put(lobby_codes, job[c].code, l)
          /\ lobby_id' = [lobby_id EXCEPT ![c] = l]
          /\ entered_by' = [entered_by EXCEPT ![c] = r]
          /\ told' = [told EXCEPT ![c] =
               [lobby |-> l, host |-> c, peers |-> {},
                migratable |-> migrates[c], request |-> r]]
          /\ drawn' = drawn \cup {l}
    BY <1>6 DEF InsertLobby
  <2>4. NewLobby(c, asked) \in Lobby
    BY <2>1, <2>2 DEF NewLobby, Lobby
  <2>5. /\ DOMAIN lobbies' \subseteq drawn'
        /\ lobbies' \in [DOMAIN lobbies' -> Lobby]
    BY <2>3, <2>4 DEF Put
  <2>6. /\ DOMAIN lobby_codes' \subseteq Codes
        /\ lobby_codes' \in [DOMAIN lobby_codes' -> LobbyIds]
    BY <2>1, <2>3 DEF Put
  <2>7. told' \in [Conns -> View]
    BY <2>3 DEF View
  <2> QED
    BY <1>a, <1>6, <2>1, <2>3, <2>5, <2>6, <2>7 DEF InsertLobby
<1>7. CASE JoinLobby(c)
  <2>1. \A l \in drawn : Busy("joining", l) \in Job
    BY <1>d DEF Stages
  <2> QED
    BY <1>7, <2>1 DEF JoinLobby
<1>8. CASE JoinLobbyByCode(c)
  <2>1. \A k \in DOMAIN lobby_codes : Busy("joining", lobby_codes[k]) \in Job
    BY <1>d DEF Stages
  <2> QED
    BY <1>8, <2>1 DEF JoinLobbyByCode
<1>9. CASE RefuseJoin(c)
  BY <1>a, <1>9 DEF RefuseJoin
<1>10. CASE EnterLobby(c)
  <2>1. here \in Lobby /\ job[c].lobby \in DOMAIN lobbies
    BY <1>10 DEF EnterLobby, MayEnter
  <2>2. [here EXCEPT !.members = Append(here.members, c)] \in Lobby
    <3>1. Append(here.members, c) \in Seq(Conns)
      BY <2>1 DEF Lobby
    <3> QED
      BY <2>1, <3>1 DEF Lobby
  <2>3. lobbies' = [lobbies EXCEPT ![job[c].lobby] =
                      [here EXCEPT !.members = Append(here.members, c)]]
    BY <1>10, <2>1 DEF EnterLobby
  <2>4. DOMAIN lobbies' = DOMAIN lobbies /\ lobbies' \in [DOMAIN lobbies' -> Lobby]
    BY <2>1, <2>2, <2>3, LobbyStep
  <2>5. Range(here.members) \subseteq Conns
    BY <2>1 DEF Lobby, Range
  <2>6. PICK r \in Requests \cup {None} :
          /\ entered_by' = [entered_by EXCEPT ![c] = r]
          /\ told' = [x \in Conns |->
               IF x = c
               THEN [lobby |-> job[c].lobby, host |-> here.host,
                     peers |-> Range(here.members),
                     migratable |-> here.host_migration /\ migrates[c],
                     request |-> r]
               ELSE IF x \in Range(here.members) \cap Open
               THEN HearsPlayerJoined(told[x], c) ELSE told[x]]
    BY <1>10 DEF EnterLobby
  <2>7. \A x \in Conns : HearsPlayerJoined(told[x], c) \in View
    BY DEF HearsPlayerJoined, View
  <2>8. [lobby |-> job[c].lobby, host |-> here.host,
         peers |-> Range(here.members),
         migratable |-> here.host_migration /\ migrates[c],
         request |-> r] \in View
    BY <1>b, <2>1, <2>5 DEF Lobby, View
  <2>9. told' \in [Conns -> View]
    <3>1. \A x \in Conns : told[x] \in View
      OBVIOUS
    <3> HIDE DEF TypeOK, here
    <3> QED
      BY <2>6, <2>7, <2>8, <3>1
  <2> QED
    BY <1>a, <1>b, <1>10, <2>1, <2>4, <2>6, <2>9 DEF EnterLobby
<1>11. CASE \E how \in {"Leave", "Close", "End"} : StartToDepart(c, how)
  <2>1. \A how \in {"Leave", "Close", "End"} :
          [Busy("departing", lobby_id[c]) EXCEPT !.how = how] \in Job
    <3> TAKE how \in {"Leave", "Close", "End"}
    <3>1. [Busy("departing", lobby_id[c]) EXCEPT !.how = how]
            = [at |-> "departing", lobby |-> lobby_id[c], code |-> None,
               how |-> how, left |-> <<>>]
      BY DEF Busy
    <3>2. <<>> \in Seq(Conns) /\ lobby_id[c] \in LobbyIds \cup {None}
      OBVIOUS
    <3> QED
      BY <3>1, <3>2 DEF Job, Stages
  <2> QED
    BY <1>11, <2>1 DEF StartToDepart
<1>12. CASE DepartFromNothing(c)
  BY <1>a, <1>12 DEF DepartFromNothing, Forget
<1>13. CASE IgnoreClose(c)
  BY <1>a, <1>13 DEF IgnoreClose
<1>14. CASE DepartAsMember(c)
  <2> DEFINE rest == Retain(here.members, Conns \ {c})
  <2>1. here \in Lobby /\ job[c].lobby \in DOMAIN lobbies
    BY <1>14 DEF DepartAsMember
  <2>2. rest \in Seq(Conns)
    BY <2>1, RetainedMembers DEF Lobby
  <2>3. [here EXCEPT !.members = rest] \in Lobby
    BY <2>1, <2>2 DEF Lobby
  <2>4. lobbies' = [lobbies EXCEPT ![job[c].lobby] = [here EXCEPT !.members = rest]]
    BY <1>14 DEF DepartAsMember
  <2>5. DOMAIN lobbies' = DOMAIN lobbies /\ lobbies' \in [DOMAIN lobbies' -> Lobby]
    BY <2>1, <2>3, <2>4, LobbyStep
  <2>6. \A x \in Conns : HearsPlayerLeft(told[x], c) \in View
    BY DEF HearsPlayerLeft, View
  <2> QED
    BY <1>a, <1>14, <2>5, <2>6 DEF DepartAsMember, Forget
<1>15. CASE HandOver(c)
  <2> DEFINE heir == Head(Followers(c))
             handed == [here EXCEPT !.members = Followers(c), !.host = heir,
                                    !.host_name = name[heir]]
  <2>1. here \in Lobby /\ job[c].lobby \in DOMAIN lobbies
    BY <1>15 DEF HandOver
  <2>2. LeftBehind(c) \in Seq(Conns)
    BY <2>1, RetainedMembers DEF Lobby, LeftBehind
  <2>3. Followers(c) \in Seq(Conns) /\ heir \in Conns
    BY <1>15, <2>2, RetainedMembers DEF HandOver, HandsOver, Followers
  <2>4. Range(Followers(c)) \subseteq Conns
    BY <2>3 DEF Range
  <2>5. handed \in Lobby
    BY <2>1, <2>3 DEF Lobby
  <2>6. lobbies' = [lobbies EXCEPT ![job[c].lobby] = handed]
    BY <1>15 DEF HandOver
  <2>7. DOMAIN lobbies' = DOMAIN lobbies /\ lobbies' \in [DOMAIN lobbies' -> Lobby]
    BY <2>1, <2>5, <2>6, LobbyStep
  <2>8. \A x \in Conns :
          HearsHostChanged(told[x], job[c].lobby, heir, Range(Followers(c)) \ {x})
            \in View
    <3> TAKE x \in Conns
    <3>1. told[x] \in View /\ Range(Followers(c)) \ {x} \in SUBSET Conns
      BY <2>4
    <3> QED
      BY <2>3, <3>1 DEF HearsHostChanged, View
  <2>9. told' \in [Conns -> View]
    BY <1>a, <1>15, <2>8 DEF HandOver
  <2> QED
    BY <1>a, <1>15, <2>7, <2>9 DEF HandOver
<1>16. CASE EmptyLobby(c)
  <2>1. here \in Lobby /\ job[c].lobby \in DOMAIN lobbies
    BY <1>16 DEF EmptyLobby
  <2>2. LeftBehind(c) \in Seq(Conns)
    BY <2>1, RetainedMembers DEF Lobby, LeftBehind
  <2>3. [here EXCEPT !.members = <<>>] \in Lobby
    <3>1. <<>> \in Seq(Conns)
      OBVIOUS
    <3> QED
      BY <2>1, <3>1 DEF Lobby
  <2>4. lobbies' = [lobbies EXCEPT ![job[c].lobby] = [here EXCEPT !.members = <<>>]]
    BY <1>16 DEF EmptyLobby
  <2>5. DOMAIN lobbies' = DOMAIN lobbies /\ lobbies' \in [DOMAIN lobbies' -> Lobby]
    BY <2>1, <2>3, <2>4, LobbyStep
  <2>6. [at |-> "unlisting", lobby |-> job[c].lobby, code |-> here.code,
         how |-> job[c].how, left |-> LeftBehind(c)] \in Job
    BY <1>b, <2>1, <2>2 DEF Lobby, Job, Stages
  <2> QED
    BY <1>a, <1>16, <2>5, <2>6 DEF EmptyLobby, Forget
<1>17. CASE RemoveLobby(c)
  <2>1. [job[c] EXCEPT !.at = "uncoding"] \in Job
    BY <1>c DEF Stages
  <2>2. job' = [job EXCEPT ![c] = [job[c] EXCEPT !.at = "uncoding"]]
    BY <1>17 DEF RemoveLobby
  <2> QED
    BY <1>17, <2>1, <2>2 DEF RemoveLobby, Del
<1>18. CASE RemoveCode(c)
  <2>1. [job[c] EXCEPT !.at = "telling"] \in Job
    BY <1>c DEF Stages
  <2>2. job' = [job EXCEPT ![c] = [job[c] EXCEPT !.at = "telling"]]
    BY <1>18 DEF RemoveCode
  <2> QED
    BY <1>18, <2>1, <2>2 DEF RemoveCode, Del
<1>19. CASE TellDisconnected(c)
  <2>1. [job[c] EXCEPT !.at = "clearing"] \in Job
    BY <1>19, ZenonT(40) DEF TellDisconnected, Job, Stages
  <2>2. Head(job[c].left) \in Conns
    BY <1>b, <1>19 DEF TellDisconnected
  <2>3. job' = [job EXCEPT ![c] = [job[c] EXCEPT !.at = "clearing"]]
    BY <1>19 DEF TellDisconnected
  <2> QED
    BY <1>a, <1>19, <2>1, <2>2, <2>3 DEF TellDisconnected
<1>20. CASE ClearDisconnected(c)
  <2>1. Head(job[c].left) \in Conns /\ Tail(job[c].left) \in Seq(Conns)
    BY <1>b, <1>20 DEF ClearDisconnected, Job
  <2>2. [job[c] EXCEPT !.at = "telling", !.left = Tail(job[c].left)] \in Job
    BY <1>b, <2>1 DEF Job, Stages
  <2>3. job' = [job EXCEPT ![c] = [job[c] EXCEPT !.at = "telling",
                                                 !.left = Tail(job[c].left)]]
    BY <1>20 DEF ClearDisconnected
  <2> QED
    BY <1>20, <2>1, <2>2, <2>3 DEF ClearDisconnected, Forget
<1>21. CASE FinishDisconnecting(c)
  BY <1>a, <1>21 DEF FinishDisconnecting
<1> QED
  BY <1>1, <1>2, <1>3, <1>4, <1>5, <1>6, <1>7, <1>8, <1>9, <1>10, <1>11, <1>12,
     <1>13, <1>14, <1>15, <1>16, <1>17, <1>18, <1>19, <1>20, <1>21
     DEF Continue, Arrive, LeaveLobby, CloseLobby, CancelRequest, EndConnection

\* Every variable of the registry keeps its type, in every behaviour.
THEOREM TypeCorrect == Spec => []TypeOK
<1>1. TypeOK /\ [Next]_vars => TypeOK'
  <2> SUFFICES ASSUME TypeOK, [Next]_vars PROVE TypeOK'
    OBVIOUS
  <2>1. CASE Next
    BY <2>1, StepType DEF Next
  <2>2. CASE UNCHANGED vars
    BY <2>2 DEF TypeOK, vars, handles
  <2> QED
    BY <2>1, <2>2
<1> QED
  BY <1>1, InitType, PTL DEF Spec

------------------------------------------------------------------------------
\* The invariant behind MembershipAgrees

Enders == {c \in Conns : job[c].at \in {"uncoding", "telling", "clearing"}}

\* A member's handle names its lobby, also while the lobby is being emptied.
MembersPointBack ==
  \A l \in DOMAIN lobbies : \A c \in Range(lobbies[l].members) :
    lobby_id[c] = l \/ c \in struck

HandlesPointIn ==
  \A c \in Conns, l \in Standing :
    lobby_id[c] = l => c \in Range(lobbies[l].members)

\* What a task in the middle of a frame has read still holds: it departs from
\* the lobby it is in or from none, creates while it is in none, and removes
\* and disconnects on behalf of a lobby that is in the map no longer.
FramesAimRight ==
  \A c \in Conns :
    /\ lobby_id[c] \in drawn \cup {None}
    /\ job[c].at = "departing" => lobby_id[c] \in {job[c].lobby, None}
    /\ job[c].at = "creating" => lobby_id[c] = None
    /\ job[c].at = "unlisting" => job[c].lobby \in drawn
    /\ c \in Enders => job[c].lobby \in drawn \ DOMAIN lobbies

MembershipInv ==
  TypeOK /\ MembersPointBack /\ HandlesPointIn /\ FramesAimRight

LEMMA InitMembership == Init => MembershipInv
<1> SUFFICES ASSUME Init PROVE MembershipInv
  OBVIOUS
<1>1. TypeOK
  BY InitType
<1>2. \A c \in Conns : job[c].at = "offline" /\ lobby_id[c] = None
  BY DEF Init, Resting, Busy
<1>3. DOMAIN lobbies = {}
  BY DEF Init
<1> QED
  BY <1>1, <1>2, <1>3
     DEF MembershipInv, MembersPointBack, HandlesPointIn, FramesAimRight, Standing,
         Enders

\* A step of one task that neither begins nor completes the end of a lobby
\* leaves the same lobbies standing.
LEMMA StandingStep ==
  ASSUME TypeOK, NEW c \in Conns, NEW j \in Job,
         job' = [job EXCEPT ![c] = j],
         job[c].at # "unlisting", j.at # "unlisting"
  PROVE  \A l \in DOMAIN lobbies \cap DOMAIN lobbies' :
           l \in Standing <=> l \in Standing'
<1>1. \A d \in Conns : \A l : (job[d].at = "unlisting" /\ job[d].lobby = l)
                        <=> (job'[d].at = "unlisting" /\ job'[d].lobby = l)
  BY DEF TypeOK
<1> QED
  BY <1>1 DEF Standing

\* A step whose task goes to a job that aims right, and that puts nobody but
\* that task in a lobby, leaves every task aiming right.
LEMMA FramesStep ==
  ASSUME TypeOK, TypeOK', FramesAimRight, NEW c \in Conns, NEW j \in Job,
         job' = [job EXCEPT ![c] = j],
         \A x \in Conns \ {c} : lobby_id'[x] \in {lobby_id[x], None},
         lobby_id'[c] \in drawn' \cup {None},
         drawn \subseteq drawn',
         DOMAIN lobbies' \cap drawn \subseteq DOMAIN lobbies,
         j.at = "departing" => lobby_id'[c] \in {j.lobby, None},
         j.at = "creating" => lobby_id'[c] = None,
         j.at = "unlisting" => j.lobby \in drawn,
         j.at \in {"uncoding", "telling", "clearing"} =>
           j.lobby \in drawn \ DOMAIN lobbies'
  PROVE  FramesAimRight'
<1> SUFFICES ASSUME NEW x \in Conns
             PROVE  /\ lobby_id'[x] \in drawn' \cup {None}
                    /\ job'[x].at = "departing" => lobby_id'[x] \in {job'[x].lobby, None}
                    /\ job'[x].at = "creating" => lobby_id'[x] = None
                    /\ job'[x].at = "unlisting" => job'[x].lobby \in drawn'
                    /\ job'[x].at \in {"uncoding", "telling", "clearing"} =>
                         job'[x].lobby \in drawn' \ DOMAIN lobbies'
  BY DEF FramesAimRight, Enders
<1>1. CASE x = c
  <2>1. job'[x] = j
    BY <1>1 DEF TypeOK
  <2> QED
    BY <1>1, <2>1
<1>2. CASE x # c
  <2>1. job'[x] = job[x]
    BY <1>2 DEF TypeOK
  <2> QED
    BY <1>2, <2>1 DEF FramesAimRight, Enders
<1> QED
  BY <1>1, <1>2

\* A step that touches neither a member list nor a handle.
LEMMA QuietStep ==
  ASSUME MembershipInv, TypeOK', NEW c \in Conns, NEW j \in Job,
         job' = [job EXCEPT ![c] = j],
         DOMAIN lobbies' = DOMAIN lobbies,
         \A l \in DOMAIN lobbies : lobbies'[l].members = lobbies[l].members,
         UNCHANGED <<lobby_id, drawn>>, struck \subseteq struck',
         job[c].at # "unlisting", j.at # "unlisting",
         j.at = "departing" => lobby_id[c] \in {j.lobby, None},
         j.at = "creating" => lobby_id[c] = None,
         j.at \in {"uncoding", "telling", "clearing"} =>
           j.lobby \in drawn \ DOMAIN lobbies
  PROVE  MembershipInv'
<1>1. TypeOK /\ MembersPointBack /\ HandlesPointIn /\ FramesAimRight
  BY DEF MembershipInv
<1>2. \A l \in DOMAIN lobbies : l \in Standing <=> l \in Standing'
  BY <1>1, StandingStep
<1>3. MembersPointBack'
  BY <1>1 DEF MembersPointBack
<1>4. HandlesPointIn'
  BY <1>1, <1>2 DEF HandlesPointIn, Standing
<1>5. lobby_id[c] \in drawn \cup {None}
  BY <1>1 DEF FramesAimRight
<1>6. FramesAimRight'
  BY <1>1, <1>5, FramesStep
<1> QED
  BY <1>3, <1>4, <1>6 DEF MembershipInv


\* Every step that moves somebody into or out of a lobby moves both copies, or
\* leaves behind only a connection that has been struck.
LEMMA StepMembership ==
  ASSUME MembershipInv, NEW c \in Conns, Continue(c) \/ Arrive(c)
  PROVE  MembershipInv'
<1> DEFINE l == job[c].lobby
<1>a. /\ TypeOK /\ TypeOK'
      /\ MembersPointBack /\ HandlesPointIn /\ FramesAimRight
  BY StepType DEF MembershipInv
<1>b. /\ job[c] \in Job
      /\ lobby_id[c] \in drawn \cup {None}
      /\ None \notin drawn
      /\ DOMAIN lobbies \subseteq drawn
  BY <1>a, NoneAssumption DEF TypeOK, FramesAimRight
<1>c. \A at \in Stages \ {"creating", "clearing"} :
        Resting(at) \in Job /\ Resting(at).at = at
  BY RestingIsAJob DEF Resting, Busy
<1>d. /\ Idle \in Job /\ Idle.at = "idle"
      /\ Rest(c) \in Job /\ Rest(c).at \in {"idle", "closed"}
  BY <1>c DEF Idle, Rest, Stages
<1>e. \A m \in DOMAIN lobbies : lobbies[m] \in Lobby /\ lobbies[m].members \in Seq(Conns)
  BY <1>a DEF TypeOK, Lobby
<1>1. CASE Authenticate(c)
  <2>1. Resting("greeting") \in Job /\ Resting("greeting").at = "greeting"
    BY <1>c DEF Stages
  <2> QED
    BY <1>1, <1>a, <2>1, QuietStep DEF Authenticate
<1>2. CASE Declare(c)
  BY <1>2, <1>a, <1>d, QuietStep DEF Declare
<1>3. CASE SetDisplayName(c)
  <2>1. Busy("renaming", lobby_id[c]) \in Job
        /\ Busy("renaming", lobby_id[c]).at = "renaming"
    BY <1>a, BusyIsAJob DEF TypeOK, Stages, Busy
  <2>2. job = [job EXCEPT ![c] = job[c]] /\ job[c].at = "idle"
    BY <1>3, <1>a DEF TypeOK, SetDisplayName
  <2>3. UNCHANGED <<lobbies, lobby_id, drawn, struck>>
    BY <1>3 DEF SetDisplayName
  <2>4. CASE job' = job
    BY <1>a, <1>b, <2>2, <2>3, <2>4, QuietStep
  <2>5. CASE job' = [job EXCEPT ![c] = Busy("renaming", lobby_id[c])]
    BY <1>a, <2>1, <2>2, <2>3, <2>5, QuietStep
  <2> QED
    BY <1>3, <2>4, <2>5 DEF SetDisplayName
<1>4. CASE RenameLobby(c)
  <2>1. DOMAIN lobbies' = DOMAIN lobbies
        /\ \A n \in DOMAIN lobbies : lobbies'[n].members = lobbies[n].members
    <3>1. CASE l \in DOMAIN lobbies /\ lobbies[l].host = c
      <4>1. lobbies' = [lobbies EXCEPT ![l].host_name = name[c]]
        BY <1>4, <3>1 DEF RenameLobby
      <4> QED
        BY <1>a, <1>e, <4>1 DEF Lobby, TypeOK
    <3>2. CASE ~(l \in DOMAIN lobbies /\ lobbies[l].host = c)
      BY <1>4, <3>2 DEF RenameLobby
    <3> QED
      BY <3>1, <3>2
  <2>2. /\ job' = [job EXCEPT ![c] = Idle] /\ job[c].at = "renaming"
        /\ UNCHANGED <<lobby_id, drawn, struck>>
    BY <1>4 DEF RenameLobby, handles
  <2> QED
    BY <1>a, <1>d, <2>1, <2>2, QuietStep
<1>5. CASE CreateLobby(c)
  <2>1. PICK code \in Codes :
          job' = [job EXCEPT ![c] = [Busy("creating", None) EXCEPT !.code = code]]
    BY <1>5 DEF CreateLobby
  <2> DEFINE j == [Busy("creating", None) EXCEPT !.code = code]
  <2>2. j = job'[c] /\ j \in Job
    BY <1>a, <2>1 DEF TypeOK
  <2>3. j.at = "creating"
    BY DEF Busy
  <2>4. /\ lobby_id[c] = None /\ job[c].at = "idle"
        /\ UNCHANGED <<lobbies, lobby_id, drawn, struck>>
    BY <1>5 DEF CreateLobby, handles
  <2> HIDE DEF j
  <2> QED
    BY <1>a, <2>1, <2>2, <2>3, <2>4, QuietStep DEF j
<1>6. CASE InsertLobby(c)
  <2>1. PICK m \in LobbyIds \ drawn, asked \in RequestedSizes :
          /\ lobbies' = Put(lobbies, m, NewLobby(c, asked))
          /\ lobby_id' = [lobby_id EXCEPT ![c] = m]
          /\ drawn' = drawn \cup {m}
    BY <1>6 DEF InsertLobby
  <2>2. /\ job' = [job EXCEPT ![c] = Idle] /\ job[c].at = "creating"
        /\ struck' = struck
    BY <1>6 DEF InsertLobby
  <2>3. lobby_id[c] = None
    BY <1>a, <2>2 DEF FramesAimRight
  <2>4. /\ DOMAIN lobbies' = DOMAIN lobbies \cup {m}
        /\ Range(lobbies'[m].members) = {c}
        /\ \A n \in DOMAIN lobbies : lobbies'[n] = lobbies[n]
    BY <1>b, <2>1 DEF Put, NewLobby, Range
  <2>5. /\ lobby_id'[c] = m
        /\ \A x \in Conns \ {c} : lobby_id'[x] = lobby_id[x] /\ lobby_id[x] # m
    BY <1>a, <2>1, NoneAssumption DEF TypeOK, FramesAimRight
  <2>6. \A n \in DOMAIN lobbies : n \in Standing <=> n \in Standing'
    BY <1>a, <1>d, <2>2, <2>4, StandingStep
  <2>7. MembersPointBack'
    <3> SUFFICES ASSUME NEW n \in DOMAIN lobbies',
                        NEW x \in Range(lobbies'[n].members)
                 PROVE  lobby_id'[x] = n \/ x \in struck'
      BY DEF MembersPointBack
    <3>1. CASE n = m
      BY <2>4, <2>5, <3>1
    <3>2. CASE n \in DOMAIN lobbies
      <4>1. x \in Range(lobbies[n].members) /\ x \in Conns
        BY <1>e, <2>4, <3>2 DEF Range
      <4>2. lobby_id[x] = n \/ x \in struck
        BY <1>a, <3>2, <4>1 DEF MembersPointBack
      <4> QED
        BY <1>b, <2>2, <2>3, <2>5, <3>2, <4>1, <4>2
    <3> QED
      BY <2>4, <3>1, <3>2
  <2>8. HandlesPointIn'
    BY <1>a, <1>b, <2>1, <2>4, <2>5, <2>6 DEF HandlesPointIn, Standing
  <2>9. FramesAimRight'
    <3>1. /\ drawn \subseteq drawn' /\ m \in drawn'
          /\ DOMAIN lobbies' \cap drawn \subseteq DOMAIN lobbies
      BY <2>1, <2>4
    <3>2. Idle.at \notin {"departing", "creating", "unlisting", "uncoding",
                          "telling", "clearing"}
      BY <1>d
    <3> QED
      BY <1>a, <1>d, <2>2, <2>5, <3>1, <3>2, FramesStep
  <2> QED
    BY <1>a, <2>7, <2>8, <2>9 DEF MembershipInv
<1>7. CASE JoinLobby(c) \/ JoinLobbyByCode(c)
  <2>1. PICK m \in LobbyIds : job' = [job EXCEPT ![c] = Busy("joining", m)]
    BY <1>7, <1>a DEF JoinLobby, JoinLobbyByCode, TypeOK
  <2>2. /\ job[c].at = "idle"
        /\ UNCHANGED <<lobbies, lobby_id, drawn, struck>>
    BY <1>7 DEF JoinLobby, JoinLobbyByCode, handles
  <2>3. Busy("joining", m) \in Job /\ Busy("joining", m).at = "joining"
    BY BusyIsAJob DEF Stages, Busy
  <2> QED
    BY <1>a, <2>1, <2>2, <2>3, QuietStep
<1>8. CASE RefuseJoin(c)
  BY <1>8, <1>a, <1>d, QuietStep DEF RefuseJoin, handles
<1>9. CASE EnterLobby(c)
  <2>1. /\ job[c].at = "joining" /\ lobby_id[c] = None /\ l \in DOMAIN lobbies
        /\ lobbies' = [lobbies EXCEPT ![l].members = Append(@, c)]
        /\ lobby_id' = [lobby_id EXCEPT ![c] = l]
        /\ job' = [job EXCEPT ![c] = Idle]
        /\ UNCHANGED <<drawn, struck>>
    BY <1>9 DEF EnterLobby, MayEnter
  <2>2. /\ DOMAIN lobbies' = DOMAIN lobbies
        /\ lobbies'[l].members = Append(lobbies[l].members, c)
        /\ \A n \in DOMAIN lobbies \ {l} : lobbies'[n] = lobbies[n]
    <3> DEFINE r == lobbies[l]
               s == Append(r.members, c)
    <3>1. r \in Lobby
      BY <1>e, <2>1
    <3>2. /\ DOMAIN lobbies' = DOMAIN lobbies
          /\ lobbies'[l] = [r EXCEPT !.members = s]
          /\ \A n \in DOMAIN lobbies \ {l} : lobbies'[n] = lobbies[n]
      BY <2>1
    <3>3. [r EXCEPT !.members = s].members = s
      <4> HIDE DEF r, s
      <4> QED
        BY <3>1 DEF Lobby
    <3> QED
      BY <3>2, <3>3
  <2>3. Range(lobbies'[l].members) = Range(lobbies[l].members) \cup {c}
    BY <1>e, <2>1, <2>2, AppendedMembers
  <2>4. lobby_id'[c] = l /\ \A x \in Conns \ {c} : lobby_id'[x] = lobby_id[x]
    BY <1>a, <2>1 DEF TypeOK
  <2>5. \A n \in DOMAIN lobbies : n \in Standing <=> n \in Standing'
    BY <1>a, <1>d, <2>1, <2>2, StandingStep
  <2>6. MembersPointBack'
    <3> SUFFICES ASSUME NEW n \in DOMAIN lobbies,
                        NEW x \in Range(lobbies'[n].members)
                 PROVE  lobby_id'[x] = n \/ x \in struck'
      BY <2>2 DEF MembersPointBack
    <3>1. x \in Range(lobbies[n].members) \/ (x = c /\ n = l)
      BY <2>2, <2>3
    <3>2. CASE x = c /\ n = l
      BY <2>4, <3>2
    <3>3. CASE x \in Range(lobbies[n].members)
      <4>1. x \in Conns
        BY <1>e, <3>3 DEF Range
      <4>2. lobby_id[x] = n \/ x \in struck
        BY <1>a, <3>3 DEF MembersPointBack
      <4>3. lobby_id[x] = n => x # c
        BY <1>b, <2>1
      <4> QED
        BY <2>1, <2>4, <4>1, <4>2, <4>3
    <3> QED
      BY <3>1, <3>2, <3>3
  <2>7. HandlesPointIn'
    BY <1>a, <2>2, <2>3, <2>4, <2>5 DEF HandlesPointIn, Standing
  <2>8. FramesAimRight'
    <3>1. /\ drawn' = drawn /\ l \in drawn' /\ lobby_id'[c] = l
          /\ job' = [job EXCEPT ![c] = Idle]
          /\ DOMAIN lobbies' \cap drawn \subseteq DOMAIN lobbies
      BY <1>b, <2>1, <2>2, <2>4
    <3>2. Idle.at \notin {"departing", "creating", "unlisting", "uncoding",
                          "telling", "clearing"}
      BY <1>d
    <3> HIDE DEF l
    <3> QED
      BY <1>a, <1>d, <2>4, <3>1, <3>2, FramesStep
  <2> QED
    BY <1>a, <2>6, <2>7, <2>8 DEF MembershipInv
<1>10. CASE /\ \E how \in {"Leave", "Close", "End"} : StartToDepart(c, how)
            /\ job[c].at \in {"greeting", "idle"}
  <2>1. PICK how \in {"Leave", "Close", "End"} :
          job' = [job EXCEPT ![c] = [Busy("departing", lobby_id[c]) EXCEPT !.how = how]]
    BY <1>10 DEF StartToDepart
  <2> DEFINE j == [Busy("departing", lobby_id[c]) EXCEPT !.how = how]
  <2>2. j = job'[c] /\ j \in Job
    BY <1>a, <2>1 DEF TypeOK
  <2>3. j.at = "departing" /\ j.lobby = lobby_id[c]
    BY DEF Busy
  <2>4. UNCHANGED <<lobbies, lobby_id, drawn, struck>>
    BY <1>10 DEF StartToDepart, handles
  <2> HIDE DEF j
  <2> QED
    BY <1>10, <1>a, <2>1, <2>2, <2>3, <2>4, QuietStep DEF j
<1>11. CASE IgnoreClose(c)
  BY <1>11, <1>a, <1>d, QuietStep DEF IgnoreClose, handles
<1>12. CASE DepartFromNothing(c)
  <2>1. /\ job[c].at = "departing" /\ l \notin DOMAIN lobbies
        /\ lobby_id' = [lobby_id EXCEPT ![c] = None]
        /\ job' = [job EXCEPT ![c] = Rest(c)]
        /\ UNCHANGED <<lobbies, drawn, struck>>
    BY <1>12 DEF DepartFromNothing, Forget
  <2>2. lobby_id[c] \in {l, None}
    BY <1>a, <2>1 DEF FramesAimRight
  <2>3. \A x \in Conns : lobby_id'[x] = IF x = c THEN None ELSE lobby_id[x]
    BY <1>a, <2>1 DEF TypeOK
  <2>4. \A n \in DOMAIN lobbies : n \in Standing <=> n \in Standing'
    BY <1>a, <1>d, <2>1, StandingStep
  <2>5. MembersPointBack'
    BY <1>a, <1>b, <1>e, <2>1, <2>2, <2>3 DEF MembersPointBack, Range
  <2>6. HandlesPointIn'
    BY <1>a, <1>b, <2>1, <2>3, <2>4 DEF HandlesPointIn, Standing
  <2>7. FramesAimRight'
    BY <1>a, <1>d, <2>1, <2>3, FramesStep
  <2> QED
    BY <1>a, <2>5, <2>6, <2>7 DEF MembershipInv
<1>13. CASE DepartAsMember(c)
  <2>1. /\ job[c].at = "departing" /\ l \in DOMAIN lobbies
        /\ lobbies' = [lobbies EXCEPT ![l].members =
                         Retain(lobbies[l].members, Conns \ {c})]
        /\ lobby_id' = [lobby_id EXCEPT ![c] = None]
        /\ job' = [job EXCEPT ![c] = Rest(c)]
        /\ UNCHANGED <<drawn, struck>>
    BY <1>13 DEF DepartAsMember, Forget
  <2>2. /\ DOMAIN lobbies' = DOMAIN lobbies
        /\ lobbies'[l].members = Retain(lobbies[l].members, Conns \ {c})
        /\ \A n \in DOMAIN lobbies \ {l} : lobbies'[n] = lobbies[n]
    BY <1>a, <1>e, <2>1 DEF TypeOK, Lobby
  <2>3. Range(lobbies'[l].members) = Range(lobbies[l].members) \cap (Conns \ {c})
    BY <1>e, <2>1, <2>2, RetainedMembers
  <2>4. /\ lobby_id[c] \in {l, None}
        /\ \A x \in Conns : lobby_id'[x] = IF x = c THEN None ELSE lobby_id[x]
    BY <1>a, <2>1 DEF FramesAimRight, TypeOK
  <2>5. \A n \in DOMAIN lobbies : n \in Standing <=> n \in Standing'
    BY <1>a, <1>d, <2>1, <2>2, StandingStep
  <2>6. MembersPointBack'
    <3> SUFFICES ASSUME NEW n \in DOMAIN lobbies,
                        NEW x \in Range(lobbies'[n].members)
                 PROVE  lobby_id'[x] = n \/ x \in struck'
      BY <2>2 DEF MembersPointBack
    <3>a. x \in Range(lobbies[n].members) /\ (n = l => x # c)
      BY <2>2, <2>3
    <3>1. x \in Conns /\ x \in Range(lobbies[n].members) /\ (n = l => x # c)
      BY <1>e, <3>a DEF Range
    <3>2. lobby_id[x] = n \/ x \in struck
      BY <1>a, <3>1 DEF MembersPointBack
    <3> QED
      BY <1>b, <2>1, <2>4, <3>1, <3>2
  <2>7. HandlesPointIn'
    <3> SUFFICES ASSUME NEW x \in Conns, NEW n \in Standing', lobby_id'[x] = n
                 PROVE  x \in Range(lobbies'[n].members)
      BY DEF HandlesPointIn
    <3>1. n \in DOMAIN lobbies
      BY <2>2 DEF Standing
    <3>2. n \in Standing
      BY <2>5, <3>1
    <3>3. x # c /\ lobby_id[x] = n
      BY <1>b, <2>4, <3>1
    <3>4. x \in Range(lobbies[n].members)
      BY <1>a, <3>2, <3>3 DEF HandlesPointIn
    <3> QED
      BY <2>2, <2>3, <3>1, <3>3, <3>4
  <2>8. FramesAimRight'
    BY <1>a, <1>d, <2>1, <2>2, <2>4, FramesStep, ZenonT(40)
  <2> QED
    BY <1>a, <2>6, <2>7, <2>8 DEF MembershipInv
<1>14. CASE HandOver(c)
  <2> DEFINE gone == (Range(LeftBehind(c)) \ Declaring) \cup {c}
  <2>1. /\ job[c].at = "departing" /\ l \in DOMAIN lobbies
        /\ lobbies' = [lobbies EXCEPT ![l] =
             [@ EXCEPT !.members = Followers(c), !.host = Head(Followers(c)),
                       !.host_name = name[Head(Followers(c))]]]
        /\ lobby_id' = [x \in Conns |-> IF x \in gone THEN None ELSE lobby_id[x]]
        /\ job' = [job EXCEPT ![c] = Rest(c)]
        /\ UNCHANGED <<drawn, struck>>
    BY <1>14 DEF HandOver
  <2>2. /\ DOMAIN lobbies' = DOMAIN lobbies
        /\ lobbies'[l].members = Followers(c)
        /\ \A n \in DOMAIN lobbies \ {l} : lobbies'[n] = lobbies[n]
    BY <1>a, <1>e, <2>1, ZenonT(40) DEF TypeOK, Lobby
  <2>3. /\ LeftBehind(c) \in Seq(Conns)
        /\ Range(LeftBehind(c)) = Range(lobbies[l].members) \cap (Conns \ {c})
    BY <1>e, <2>1, RetainedMembers DEF LeftBehind
  <2>4. Range(lobbies'[l].members) = Range(LeftBehind(c)) \cap Declaring
    BY <2>2, <2>3, RetainedMembers DEF Followers
  <2>5. Range(lobbies'[l].members) = Range(lobbies[l].members) \ gone
    <3>1. Range(lobbies[l].members) \subseteq Conns
      BY <1>e, <2>1 DEF Range
    <3> HIDE DEF l
    <3> QED
      BY <2>3, <2>4, <3>1
  <2>6. /\ lobby_id[c] \in {l, None} /\ gone \subseteq Range(lobbies[l].members) \cup {c}
        /\ \A x \in Conns : lobby_id'[x] = IF x \in gone THEN None ELSE lobby_id[x]
    BY <1>a, <2>1, <2>3 DEF FramesAimRight
  <2> HIDE DEF gone
  <2>7. \A n \in DOMAIN lobbies : n \in Standing <=> n \in Standing'
    BY <1>a, <1>d, <2>1, <2>2, StandingStep
  <2>8. MembersPointBack'
    <3> SUFFICES ASSUME NEW n \in DOMAIN lobbies,
                        NEW x \in Range(lobbies'[n].members)
                 PROVE  lobby_id'[x] = n \/ x \in struck'
      BY <2>2 DEF MembersPointBack
    <3>1. /\ x \in Range(lobbies[n].members) /\ x \in Conns
          /\ n = l => x \notin gone
      BY <1>e, <2>2, <2>5 DEF Range
    <3>2. lobby_id[x] = n \/ x \in struck
      BY <1>a, <3>1 DEF MembersPointBack
    <3>3. CASE x \in gone
      <4>1. n # l
        BY <3>1, <3>3
      <4>2. x = c \/ lobby_id[x] = l \/ x \in struck
        BY <1>a, <2>1, <2>6, <3>3 DEF MembersPointBack
      <4> QED
        BY <1>b, <2>1, <2>6, <3>2, <4>1, <4>2
    <3>4. CASE x \notin gone
      BY <2>1, <2>6, <3>1, <3>2, <3>4
    <3> QED
      BY <3>3, <3>4
  <2>9. HandlesPointIn'
    BY <1>a, <1>b, <2>2, <2>5, <2>6, <2>7 DEF HandlesPointIn, Standing
  <2>10. FramesAimRight'
    <3>1. c \in gone
      BY DEF gone
    <3> QED
      BY <1>a, <1>d, <2>1, <2>2, <2>6, <3>1, FramesStep
  <2> QED
    BY <1>a, <2>8, <2>9, <2>10 DEF MembershipInv
<1>15. CASE EmptyLobby(c)
  <2> DEFINE j == [at |-> "unlisting", lobby |-> l, code |-> lobbies[l].code,
                   how |-> job[c].how, left |-> LeftBehind(c)]
  <2>1. /\ job[c].at = "departing" /\ l \in DOMAIN lobbies
        /\ lobbies' = [lobbies EXCEPT ![l].members = <<>>]
        /\ lobby_id' = [lobby_id EXCEPT ![c] = None]
        /\ job' = [job EXCEPT ![c] = j]
        /\ UNCHANGED <<drawn, struck>>
    BY <1>15 DEF EmptyLobby, Forget
  <2>2. /\ DOMAIN lobbies' = DOMAIN lobbies
        /\ lobbies'[l].members = <<>>
        /\ \A n \in DOMAIN lobbies \ {l} : lobbies'[n] = lobbies[n]
    BY <1>a, <1>e, <2>1 DEF TypeOK, Lobby
  <2>3. Range(lobbies'[l].members) = {}
    BY <2>2 DEF Range
  <2>4. /\ lobby_id[c] \in {l, None}
        /\ \A x \in Conns : lobby_id'[x] = IF x = c THEN None ELSE lobby_id[x]
    BY <1>a, <2>1 DEF FramesAimRight, TypeOK
  <2>5. job'[c] = j /\ j \in Job /\ j.at = "unlisting" /\ j.lobby = l
    BY <1>a, <2>1 DEF TypeOK
  <2> HIDE DEF j
  <2>6. \A n \in Standing' : n \in Standing /\ n # l
    <3>1. \A d \in Conns : job[d].at = "unlisting" =>
            job'[d].at = "unlisting" /\ job'[d].lobby = job[d].lobby
      BY <1>a, <2>1 DEF TypeOK
    <3> QED
      BY <2>2, <2>5, <3>1 DEF Standing
  <2>7. MembersPointBack'
    <3> SUFFICES ASSUME NEW n \in DOMAIN lobbies,
                        NEW x \in Range(lobbies'[n].members)
                 PROVE  lobby_id'[x] = n \/ x \in struck'
      BY <2>2 DEF MembersPointBack
    <3>1. n # l /\ x \in Range(lobbies[n].members) /\ x \in Conns
      BY <1>e, <2>2, <2>3 DEF Range
    <3>2. lobby_id[x] = n \/ x \in struck
      BY <1>a, <3>1 DEF MembersPointBack
    <3> QED
      BY <1>b, <2>1, <2>4, <3>1, <3>2
  <2>8. HandlesPointIn'
    BY <1>a, <1>b, <2>2, <2>4, <2>6 DEF HandlesPointIn, Standing
  <2>9. FramesAimRight'
    <3>1. /\ lobby_id'[c] = None /\ l \in drawn /\ drawn' = drawn
          /\ job' = [job EXCEPT ![c] = j]
      BY <1>b, <2>1, <2>4
    <3> HIDE DEF l
    <3> QED
      BY <1>a, <2>2, <2>4, <2>5, <3>1, FramesStep, ZenonT(40)
  <2> QED
    BY <1>a, <2>7, <2>8, <2>9 DEF MembershipInv
<1>16. CASE RemoveLobby(c)
  <2> DEFINE j == [job[c] EXCEPT !.at = "uncoding"]
  <2>1. /\ job[c].at = "unlisting"
        /\ lobbies' = Del(lobbies, l)
        /\ job' = [job EXCEPT ![c] = j]
        /\ UNCHANGED <<lobby_id, drawn, struck>>
    BY <1>16 DEF RemoveLobby, handles
  <2>2. /\ DOMAIN lobbies' = DOMAIN lobbies \ {l}
        /\ \A n \in DOMAIN lobbies' : lobbies'[n] = lobbies[n]
    BY <2>1 DEF Del
  <2>3. job'[c] = j /\ j \in Job /\ j.at = "uncoding" /\ j.lobby = l
    BY <1>a, <1>b, <2>1 DEF TypeOK, Job
  <2> HIDE DEF j
  <2>4. \A n \in Standing' : n \in Standing
    <3>1. \A d \in Conns \ {c} : job'[d] = job[d]
      BY <1>a, <2>1 DEF TypeOK
    <3> QED
      BY <2>1, <2>2, <3>1 DEF Standing
  <2>5. MembersPointBack'
    BY <1>a, <2>1, <2>2 DEF MembersPointBack
  <2>6. HandlesPointIn'
    BY <1>a, <2>1, <2>2, <2>4 DEF HandlesPointIn, Standing
  <2>7. FramesAimRight'
    <3>1. l \in drawn
      BY <1>a, <2>1 DEF FramesAimRight
    <3> QED
      BY <1>a, <1>b, <2>1, <2>2, <2>3, <3>1, FramesStep
  <2> QED
    BY <1>a, <2>5, <2>6, <2>7 DEF MembershipInv
<1>17. CASE RemoveCode(c) \/ TellDisconnected(c)
  <2> DEFINE j == job'[c]
  <2>1. /\ job[c].at \in {"uncoding", "telling"}
        /\ \E at \in {"telling", "clearing"} : job' = [job EXCEPT ![c].at = at]
        /\ UNCHANGED <<lobbies, lobby_id, drawn>> /\ struck \subseteq struck'
    BY <1>17 DEF RemoveCode, TellDisconnected, handles
  <2>2. /\ job' = [job EXCEPT ![c] = j] /\ j \in Job
        /\ j.at \in {"telling", "clearing"} /\ j.lobby = l
    BY <1>a, <1>b, <2>1 DEF TypeOK, Job
  <2>3. l \in drawn \ DOMAIN lobbies
    BY <1>a, <2>1 DEF FramesAimRight, Enders
  <2> HIDE DEF j
  <2> QED
    BY <1>a, <2>1, <2>2, <2>3, QuietStep
<1>18. CASE ClearDisconnected(c)
  <2> DEFINE y == Head(job[c].left)
             j == [job[c] EXCEPT !.at = "telling", !.left = Tail(job[c].left)]
  <2>1. /\ job[c].at = "clearing"
        /\ lobby_id' = [lobby_id EXCEPT ![y] = None]
        /\ job' = [job EXCEPT ![c] = j]
        /\ struck \subseteq struck'
        /\ lobby_id[y] \notin {None, l} => y \in struck'
        /\ UNCHANGED <<lobbies, drawn>>
    BY <1>18 DEF ClearDisconnected, Forget
  <2>2. job'[c] = j /\ j \in Job /\ j.at = "telling" /\ j.lobby = l
    BY <1>a, <1>b, <2>1 DEF TypeOK, Job
  <2>3. l \in drawn \ DOMAIN lobbies
    BY <1>a, <2>1 DEF FramesAimRight, Enders
  <2>4. \A x \in Conns : lobby_id'[x] = IF x = y THEN None ELSE lobby_id[x]
    BY <1>a, <2>1 DEF TypeOK
  <2> HIDE DEF j, y
  <2>5. \A n \in DOMAIN lobbies : n \in Standing <=> n \in Standing'
    BY <1>a, <2>1, <2>2, StandingStep
  <2>6. MembersPointBack'
    <3> SUFFICES ASSUME NEW n \in DOMAIN lobbies,
                        NEW x \in Range(lobbies[n].members)
                 PROVE  lobby_id'[x] = n \/ x \in struck'
      BY <2>1 DEF MembersPointBack
    <3>1. x \in Conns /\ (lobby_id[x] = n \/ x \in struck)
      BY <1>a, <1>e DEF MembersPointBack, Range
    <3> QED
      BY <1>b, <2>1, <2>3, <2>4, <3>1
  <2>7. HandlesPointIn'
    BY <1>a, <1>b, <2>1, <2>4, <2>5 DEF HandlesPointIn, Standing
  <2>8. FramesAimRight'
    <3>1. lobby_id'[c] \in drawn' \cup {None}
      BY <1>b, <2>1, <2>4
    <3> QED
      BY <1>a, <2>1, <2>2, <2>3, <2>4, <3>1, FramesStep
  <2> QED
    BY <1>a, <2>6, <2>7, <2>8 DEF MembershipInv
<1>19. CASE FinishDisconnecting(c)
  <2>1. /\ job[c].at = "telling" /\ job' = [job EXCEPT ![c] = Rest(c)]
        /\ UNCHANGED <<lobbies, lobby_id, drawn, struck>>
    BY <1>19 DEF FinishDisconnecting, handles
  <2> QED
    BY <1>a, <1>d, <2>1, QuietStep
<1> QED
  BY <1>1, <1>2, <1>3, <1>4, <1>5, <1>6, <1>7, <1>8, <1>9, <1>10, <1>11, <1>12,
     <1>13, <1>14, <1>15, <1>16, <1>17, <1>18, <1>19
     DEF Continue, Arrive, LeaveLobby, CloseLobby, CancelRequest, EndConnection

LEMMA MembershipInvariant == Spec => []MembershipInv
<1>1. MembershipInv /\ [Next]_vars => MembershipInv'
  <2> SUFFICES ASSUME MembershipInv, [Next]_vars PROVE MembershipInv'
    OBVIOUS
  <2>1. CASE Next
    BY <2>1, StepMembership DEF Next
  <2>2. CASE UNCHANGED vars
    BY <2>2 DEF MembershipInv, TypeOK, MembersPointBack, HandlesPointIn,
                FramesAimRight, Standing, Enders, vars, handles
  <2> QED
    BY <2>1, <2>2
<1> QED
  BY <1>1, InitMembership, PTL DEF Spec

\* The members of a lobby and the connections whose handle names it are the
\* same connections, whatever the tasks of state.rs and lobby.rs interleave,
\* but for one that a late disconnect has struck.
THEOREM MembersAndHandlesAgree == Spec => []MembershipAgrees
<1>1. MembershipInv => MembershipAgrees
  <2> SUFFICES ASSUME MembershipInv, NEW c \in Conns, NEW m \in Standing
               PROVE  /\ lobby_id[c] = m => c \in Range(lobbies[m].members)
                      /\ c \in Range(lobbies[m].members) =>
                           lobby_id[c] = m \/ c \in struck
    BY DEF MembershipAgrees
  <2>1. m \in DOMAIN lobbies
    BY DEF Standing
  <2> QED
    BY <2>1 DEF MembershipInv, MembersPointBack, HandlesPointIn
<1> QED
  BY <1>1, MembershipInvariant, PTL

------------------------------------------------------------------------------
\* What a step of one task can do to the tasks and to the lobbies

Goes(c, from, to) == job[c].at \in from /\ job'[c].at \in to

StageOf(c) ==
  \/ Authenticate(c) /\ Goes(c, {"offline"}, {"greeting"})
  \/ Declare(c) /\ Goes(c, {"greeting"}, {"idle"})
  \/ SetDisplayName(c) /\ Goes(c, {"idle"}, {"idle", "renaming"})
  \/ RenameLobby(c) /\ Goes(c, {"renaming"}, {"idle"})
  \/ CreateLobby(c) /\ Goes(c, {"idle"}, {"creating"})
  \/ InsertLobby(c) /\ Goes(c, {"creating"}, {"idle"})
  \/ (JoinLobby(c) \/ JoinLobbyByCode(c)) /\ Goes(c, {"idle"}, {"joining"})
  \/ RefuseJoin(c) /\ Goes(c, {"joining"}, {"idle"})
  \/ EnterLobby(c) /\ Goes(c, {"joining"}, {"idle"})
  \/ /\ \E how \in {"Leave", "Close", "End"} : StartToDepart(c, how)
     /\ Goes(c, {"greeting", "idle"}, {"departing"})
  \/ DepartFromNothing(c) /\ Goes(c, {"departing"}, {"idle", "closed"})
  \/ IgnoreClose(c) /\ Goes(c, {"departing"}, {"idle"})
  \/ DepartAsMember(c) /\ Goes(c, {"departing"}, {"idle", "closed"})
  \/ HandOver(c) /\ Goes(c, {"departing"}, {"idle", "closed"})
  \/ EmptyLobby(c) /\ Goes(c, {"departing"}, {"unlisting"})
  \/ RemoveLobby(c) /\ Goes(c, {"unlisting"}, {"uncoding"})
  \/ RemoveCode(c) /\ Goes(c, {"uncoding"}, {"telling"})
  \/ TellDisconnected(c) /\ Goes(c, {"telling"}, {"clearing"})
  \/ ClearDisconnected(c) /\ Goes(c, {"clearing"}, {"telling"})
  \/ FinishDisconnecting(c) /\ Goes(c, {"telling"}, {"idle", "closed"})

\* A step moves one task from one stage of its frame to the next.
LEMMA StageStep ==
  ASSUME TypeOK, NEW c \in Conns, Continue(c) \/ Arrive(c)
  PROVE  StageOf(c) /\ \A d \in Conns \ {c} : job'[d] = job[d]
<1> DEFINE others == \A d \in Conns \ {c} : job'[d] = job[d]
<1> USE DEF Goes, StageOf
<1>a. /\ \A at : Resting(at).at = at /\ \A l : Busy(at, l).at = at
      /\ Idle.at = "idle" /\ Rest(c).at \in {"idle", "closed"}
  BY DEF Resting, Busy, Idle, Rest
<1>b. job[c] \in Job /\ job \in [Conns -> Job]
  BY DEF TypeOK
<1>c. \A j : job' = [job EXCEPT ![c] = j] => job'[c] = j /\ others
  BY <1>b
<1>1. CASE Authenticate(c)
  BY <1>1, <1>a, <1>c DEF Authenticate
<1>2. CASE Declare(c)
  BY <1>2, <1>a, <1>c DEF Declare
<1>3. CASE SetDisplayName(c)
  <2>1. /\ job[c].at = "idle"
        /\ job' = job \/ job' = [job EXCEPT ![c] = Busy("renaming", lobby_id[c])]
    BY <1>3 DEF SetDisplayName
  <2>2. Goes(c, {"idle"}, {"idle", "renaming"}) /\ others
    BY <2>1, <1>a, <1>c
  <2> QED
    BY <1>3, <2>2
<1>4. CASE RenameLobby(c)
  BY <1>4, <1>a, <1>c DEF RenameLobby
<1>5. CASE CreateLobby(c)
  <2>1. \A code : [Busy("creating", None) EXCEPT !.code = code].at = "creating"
    BY DEF Busy
  <2>2. PICK j : job[c].at = "idle" /\ j.at = "creating" /\ job' = [job EXCEPT ![c] = j]
    BY <1>5, <2>1 DEF CreateLobby
  <2>3. Goes(c, {"idle"}, {"creating"}) /\ others
    BY <2>2, <1>c
  <2> QED
    BY <1>5, <2>3
<1>6. CASE InsertLobby(c)
  BY <1>6, <1>a, <1>c DEF InsertLobby
<1>7. CASE JoinLobby(c)
  <2>1. PICK j : job[c].at = "idle" /\ j.at = "joining" /\ job' = [job EXCEPT ![c] = j]
    BY <1>7, <1>a DEF JoinLobby
  <2>2. Goes(c, {"idle"}, {"joining"}) /\ others
    BY <2>1, <1>a, <1>c
  <2> QED
    BY <1>7, <2>2
<1>8. CASE JoinLobbyByCode(c)
  <2>1. PICK j : job[c].at = "idle" /\ j.at = "joining" /\ job' = [job EXCEPT ![c] = j]
    BY <1>8, <1>a DEF JoinLobbyByCode
  <2>2. Goes(c, {"idle"}, {"joining"}) /\ others
    BY <2>1, <1>a, <1>c
  <2> QED
    BY <1>8, <2>2
<1>9. CASE RefuseJoin(c)
  BY <1>9, <1>a, <1>c DEF RefuseJoin
<1>10. CASE EnterLobby(c)
  BY <1>10, <1>a, <1>c DEF EnterLobby
<1>11. CASE /\ \E how \in {"Leave", "Close", "End"} : StartToDepart(c, how)
            /\ job[c].at \in {"greeting", "idle"}
  <2>1. \A how : [Busy("departing", lobby_id[c]) EXCEPT !.how = how].at = "departing"
    BY DEF Busy
  <2>2. PICK j : j.at = "departing" /\ job' = [job EXCEPT ![c] = j]
    BY <1>11, <2>1 DEF StartToDepart
  <2>3. Goes(c, {"greeting", "idle"}, {"departing"}) /\ others
    BY <1>11, <2>1, <2>2, <1>c
  <2> QED
    BY <1>11, <2>3
<1>12. CASE DepartFromNothing(c)
  BY <1>12, <1>a, <1>c DEF DepartFromNothing
<1>13. CASE IgnoreClose(c)
  BY <1>13, <1>a, <1>c DEF IgnoreClose
<1>14. CASE DepartAsMember(c)
  BY <1>14, <1>a, <1>c DEF DepartAsMember
<1>15. CASE HandOver(c)
  BY <1>15, <1>a, <1>c DEF HandOver
<1>16. CASE EmptyLobby(c)
  <2>1. PICK j : job[c].at = "departing" /\ j.at = "unlisting" /\ job' = [job EXCEPT ![c] = j]
    BY <1>16 DEF EmptyLobby
  <2>2. Goes(c, {"departing"}, {"unlisting"}) /\ others
    BY <2>1, <1>c
  <2> QED
    BY <1>16, <2>2
<1>17. CASE RemoveLobby(c)
  BY <1>17, <1>b DEF RemoveLobby, Job
<1>18. CASE RemoveCode(c)
  BY <1>18, <1>b DEF RemoveCode, Job
<1>19. CASE TellDisconnected(c)
  BY <1>19, <1>b DEF TellDisconnected, Job
<1>20. CASE ClearDisconnected(c)
  <2>1. [job[c] EXCEPT !.at = "telling", !.left = Tail(job[c].left)].at = "telling"
    BY <1>b DEF Job
  <2> QED
    BY <1>20, <2>1, <1>c DEF ClearDisconnected
<1>21. CASE FinishDisconnecting(c)
  BY <1>21, <1>a, <1>c DEF FinishDisconnecting
<1> QED
  BY <1>1, <1>2, <1>3, <1>4, <1>5, <1>6, <1>7, <1>8, <1>9, <1>10, <1>11, <1>12,
     <1>13, <1>14, <1>15, <1>16, <1>17, <1>18, <1>19, <1>20, <1>21
     DEF Continue, Arrive, LeaveLobby, CloseLobby, CancelRequest, EndConnection

\* What a step makes of the lobbies: it inserts, removes, or changes the one
\* that its frame is about, and never a lobby's code, size or promise.
LEMMA LobbiesStep ==
  ASSUME MembershipInv, NEW c \in Conns, Continue(c) \/ Arrive(c)
  PROVE  /\ \A n \in DOMAIN lobbies' \cap DOMAIN lobbies :
              /\ lobbies'[n].code = lobbies[n].code
              /\ lobbies'[n].max_players = lobbies[n].max_players
              /\ lobbies'[n].host_migration = lobbies[n].host_migration
              /\ lobbies'[n].host # lobbies[n].host => n = job[c].lobby /\ HandOver(c)
              /\ lobbies'[n].members # lobbies[n].members =>
                   /\ n = job[c].lobby
                   /\ EnterLobby(c) \/ DepartAsMember(c) \/ HandOver(c) \/ EmptyLobby(c)
         /\ DOMAIN lobbies' # DOMAIN lobbies =>
              \/ InsertLobby(c)
              \/ RemoveLobby(c) /\ DOMAIN lobbies' = DOMAIN lobbies \ {job[c].lobby}
<1> DEFINE l == job[c].lobby
           same(n, m) == /\ lobbies'[n].code = lobbies[n].code
                         /\ lobbies'[n].max_players = lobbies[n].max_players
                         /\ lobbies'[n].host_migration = lobbies[n].host_migration
                         /\ lobbies'[n].host # lobbies[n].host => m /\ n = l /\ HandOver(c)
                         /\ lobbies'[n].members # lobbies[n].members =>
                              /\ n = l
                              /\ EnterLobby(c) \/ DepartAsMember(c) \/ HandOver(c)
                                   \/ EmptyLobby(c)
<1>a. /\ TypeOK
      /\ \A n \in DOMAIN lobbies : lobbies[n] \in Lobby
  BY DEF MembershipInv, TypeOK
<1>b. CASE UNCHANGED lobbies
  BY <1>b
<1>1. CASE RenameLobby(c)
  <2>1. CASE UNCHANGED lobbies
    BY <2>1
  <2>2. CASE /\ l \in DOMAIN lobbies
             /\ lobbies' = [lobbies EXCEPT ![l] = [lobbies[l] EXCEPT !.host_name = name[c]]]
    BY <1>a, <2>2 DEF Lobby
  <2> QED
    BY <1>1, <2>1, <2>2 DEF RenameLobby
<1>2. CASE InsertLobby(c)
  <2>1. PICK n \in LobbyIds \ drawn : \E v : lobbies' = Put(lobbies, n, v)
    BY <1>2 DEF InsertLobby
  <2>2. \A m \in DOMAIN lobbies : lobbies'[m] = lobbies[m]
    BY <1>a, <2>1 DEF Put, TypeOK
  <2> QED
    BY <1>2, <2>2
<1>3. CASE EnterLobby(c)
  <2>1. /\ l \in DOMAIN lobbies
        /\ \E s : lobbies' = [lobbies EXCEPT ![l] = [lobbies[l] EXCEPT !.members = s]]
    BY <1>3 DEF EnterLobby, MayEnter
  <2> QED
    BY <1>3, <1>a, <2>1 DEF Lobby
<1>4. CASE DepartAsMember(c)
  <2>1. /\ l \in DOMAIN lobbies
        /\ \E s : lobbies' = [lobbies EXCEPT ![l] = [lobbies[l] EXCEPT !.members = s]]
    BY <1>4 DEF DepartAsMember
  <2> QED
    BY <1>4, <1>a, <2>1 DEF Lobby
<1>5. CASE HandOver(c)
  <2>1. PICK s, h, n :
          /\ l \in DOMAIN lobbies
          /\ lobbies' = [lobbies EXCEPT ![l] =
               [lobbies[l] EXCEPT !.members = s, !.host = h, !.host_name = n]]
    BY <1>5 DEF HandOver
  <2> QED
    BY <1>5, <1>a, <2>1 DEF Lobby
<1>6. CASE EmptyLobby(c)
  <2>1. /\ l \in DOMAIN lobbies
        /\ \E s : lobbies' = [lobbies EXCEPT ![l] = [lobbies[l] EXCEPT !.members = s]]
    BY <1>6 DEF EmptyLobby
  <2> QED
    BY <1>6, <1>a, <2>1 DEF Lobby
<1>7. CASE RemoveLobby(c)
  <2>1. lobbies' = Del(lobbies, l)
    BY <1>7 DEF RemoveLobby
  <2> QED
    BY <1>7, <2>1 DEF Del
<1>8. ASSUME ~RenameLobby(c), ~InsertLobby(c), ~EnterLobby(c), ~DepartAsMember(c),
             ~HandOver(c), ~EmptyLobby(c), ~RemoveLobby(c)
      PROVE  UNCHANGED lobbies
  BY <1>8 DEF Continue, Arrive, Authenticate, Declare, SetDisplayName, CreateLobby,
              JoinLobby, JoinLobbyByCode, RefuseJoin, StartToDepart, LeaveLobby,
              CloseLobby, CancelRequest, EndConnection, DepartFromNothing, IgnoreClose,
              RemoveCode, TellDisconnected, ClearDisconnected, FinishDisconnecting
<1> QED
  BY <1>b, <1>1, <1>2, <1>3, <1>4, <1>5, <1>6, <1>7, <1>8

------------------------------------------------------------------------------
\* Lobbies are sound

\* Connections past their first two messages: what they declared stays.
Declared == {c \in Conns : job[c].at \notin {"offline", "greeting"}}

\* Only a connection that has declared what it can do gets into a lobby.
MembersDeclared ==
  \A l \in DOMAIN lobbies : Range(lobbies[l].members) \cup {lobbies[l].host} \subseteq Declared

\* A lobby is taken out of the map by the task of its host, and by that alone.
HostsEndLobbies ==
  \A c \in Conns : job[c].at = "unlisting" =>
    /\ job[c].lobby \in DOMAIN lobbies
    /\ lobbies[job[c].lobby].host = c
    /\ lobbies[job[c].lobby].code = job[c].code

SoundInv == MembershipInv /\ MembersDeclared /\ HostsEndLobbies /\ LobbyIsSound

\* What a connection declared stays, and it comes online only once.
LEMMA DeclaredStep ==
  ASSUME TypeOK, NEW c \in Conns, Continue(c) \/ Arrive(c)
  PROVE  /\ Declared \subseteq Declared'
         /\ \A x \in Declared : migrates'[x] = migrates[x]
         /\ \A x \in Declared \cap Open' : x \in Open
<1>1. StageOf(c) /\ \A d \in Conns \ {c} : job'[d] = job[d]
  BY StageStep
<1>2. c \in Declared => c \in Declared'
  BY <1>1 DEF StageOf, Goes, Declared
<1>3. c \in Declared => job[c].at \notin {"offline", "closed"}
  BY <1>1 DEF StageOf, Goes, Declared
<1>4. ASSUME NEW x \in Declared PROVE migrates'[x] = migrates[x]
  <2>1. CASE Declare(c)
    BY <2>1 DEF Declare, Declared, TypeOK
  <2>2. CASE ~Declare(c)
    BY <2>2 DEF Continue, Arrive, Authenticate, SetDisplayName, CreateLobby,
              JoinLobby, JoinLobbyByCode, RefuseJoin, StartToDepart, LeaveLobby,
              CloseLobby, CancelRequest, EndConnection, DepartFromNothing, IgnoreClose,
              RemoveCode, TellDisconnected, ClearDisconnected, FinishDisconnecting,
              RenameLobby, InsertLobby, EnterLobby, DepartAsMember, HandOver, EmptyLobby,
              RemoveLobby, handles
  <2> QED
    BY <2>1, <2>2
<1> QED
  BY <1>1, <1>2, <1>3, <1>4 DEF Declared, Open

\* A lobby whose end has begun does not stand again.
LEMMA StandingOnlyEnds ==
  ASSUME MembershipInv, NEW c \in Conns, Continue(c) \/ Arrive(c)
  PROVE  \A l \in DOMAIN lobbies \cap Standing' : l \in Standing
<1>1. StageOf(c) /\ \A d \in Conns \ {c} : job'[d] = job[d]
  BY StageStep DEF MembershipInv
<1> SUFFICES ASSUME NEW l \in DOMAIN lobbies, l \in DOMAIN lobbies',
                    NEW d \in Conns, job[d].at = "unlisting", job[d].lobby = l,
                    \A e \in Conns : ~(job'[e].at = "unlisting" /\ job'[e].lobby = l)
             PROVE  FALSE
  BY DEF Standing
<1>2. d = c
  BY <1>1
<1>3. RemoveLobby(c)
  BY <1>1, <1>2 DEF StageOf, Goes
<1> QED
  BY <1>2, <1>3 DEF RemoveLobby, Del

\* The actions that write a lobby, as facts about the lobby they write.
LEMMA Inserting ==
  ASSUME TypeOK, NEW c \in Conns, InsertLobby(c)
  PROVE  \E l \in LobbyIds \ drawn, asked \in RequestedSizes, r \in Requests \cup {None} :
           /\ DOMAIN lobbies' = DOMAIN lobbies \cup {l} /\ l \notin DOMAIN lobbies
           /\ \A n \in DOMAIN lobbies : lobbies'[n] = lobbies[n]
           /\ lobbies'[l] = NewLobby(c, asked)
           /\ DOMAIN lobby_codes' = DOMAIN lobby_codes \cup {job[c].code}
           /\ lobby_codes'[job[c].code] = l
           /\ \A k \in DOMAIN lobby_codes \ {job[c].code} : lobby_codes'[k] = lobby_codes[k]
           /\ entered_by' = [entered_by EXCEPT ![c] = r]
           /\ told' = [told EXCEPT ![c] =
                [lobby |-> l, host |-> c, peers |-> {},
                 migratable |-> migrates[c], request |-> r]]
           /\ drawn' = drawn \cup {l}
<1>1. DOMAIN lobbies \subseteq drawn
  BY DEF TypeOK
<1>2. PICK l \in LobbyIds \ drawn, asked \in RequestedSizes, r \in Requests \cup {None} :
        /\ lobbies' = Put(lobbies, l, NewLobby(c, asked))
        /\ lobby_codes' = Put(lobby_codes, job[c].code, l)
        /\ entered_by' = [entered_by EXCEPT ![c] = r]
        /\ told' = [told EXCEPT ![c] =
             [lobby |-> l, host |-> c, peers |-> {},
              migratable |-> migrates[c], request |-> r]]
        /\ drawn' = drawn \cup {l}
  BY DEF InsertLobby
<1>3. /\ DOMAIN lobbies' = DOMAIN lobbies \cup {l} /\ l \notin DOMAIN lobbies
      /\ \A n \in DOMAIN lobbies : lobbies'[n] = lobbies[n]
      /\ lobbies'[l] = NewLobby(c, asked)
  BY <1>1, <1>2 DEF Put
<1>4. /\ DOMAIN lobby_codes' = DOMAIN lobby_codes \cup {job[c].code}
      /\ lobby_codes'[job[c].code] = l
      /\ \A k \in DOMAIN lobby_codes \ {job[c].code} : lobby_codes'[k] = lobby_codes[k]
  BY <1>2 DEF Put
<1> QED
  BY <1>2, <1>3, <1>4

LEMMA Entering ==
  ASSUME TypeOK, NEW c \in Conns, EnterLobby(c)
  PROVE  LET l == job[c].lobby
             s == lobbies[l].members
         IN /\ l \in DOMAIN lobbies /\ DOMAIN lobbies' = DOMAIN lobbies
            /\ s \in Seq(Conns) /\ lobbies'[l].members = Append(s, c)
            /\ Range(lobbies'[l].members) = Range(s) \cup {c}
            /\ lobby_id[c] = None /\ Len(s) < lobbies[l].max_players
<1> DEFINE l == job[c].lobby
           s == lobbies[l].members
<1>1. /\ l \in DOMAIN lobbies /\ lobby_id[c] = None /\ Len(s) < lobbies[l].max_players
      /\ lobbies' = [lobbies EXCEPT ![l] = [lobbies[l] EXCEPT !.members = Append(s, c)]]
  BY DEF EnterLobby, MayEnter
<1>2. lobbies[l] \in Lobby /\ s \in Seq(Conns)
  BY <1>1 DEF TypeOK, Lobby
<1>3. DOMAIN lobbies' = DOMAIN lobbies /\ lobbies'[l].members = Append(s, c)
  BY <1>1, <1>2 DEF Lobby
<1>4. Range(Append(s, c)) = Range(s) \cup {c}
  BY <1>2, AppendedMembers
<1> QED
  BY <1>1, <1>2, <1>3, <1>4

LEMMA DepartingMember ==
  ASSUME TypeOK, NEW c \in Conns, DepartAsMember(c)
  PROVE  LET l == job[c].lobby
             s == lobbies[l].members
         IN /\ l \in DOMAIN lobbies /\ DOMAIN lobbies' = DOMAIN lobbies
            /\ s \in Seq(Conns) /\ lobbies'[l].members = Retain(s, Conns \ {c})
            /\ Range(lobbies'[l].members) = Range(s) \ {c}
            /\ lobbies[l].host # c
<1> DEFINE l == job[c].lobby
           s == lobbies[l].members
<1>1. /\ l \in DOMAIN lobbies /\ lobbies[l].host # c
      /\ lobbies' = [lobbies EXCEPT ![l] =
                       [lobbies[l] EXCEPT !.members = Retain(s, Conns \ {c})]]
  BY DEF DepartAsMember
<1>2. lobbies[l] \in Lobby /\ s \in Seq(Conns) /\ Range(s) \subseteq Conns
  BY <1>1 DEF TypeOK, Lobby, Range
<1>3. DOMAIN lobbies' = DOMAIN lobbies /\ lobbies'[l].members = Retain(s, Conns \ {c})
  BY <1>1, <1>2 DEF Lobby
<1>4. Range(Retain(s, Conns \ {c})) = Range(s) \cap (Conns \ {c})
  BY <1>2, RetainedMembers
<1>5. Range(s) \cap (Conns \ {c}) = Range(s) \ {c}
  BY <1>2
<1> QED
  BY <1>1, <1>2, <1>3, <1>4, <1>5

LEMMA HandingOver ==
  ASSUME TypeOK, NEW c \in Conns, HandOver(c)
  PROVE  LET l == job[c].lobby
             s == lobbies[l].members
             f == Followers(c)
         IN /\ l \in DOMAIN lobbies /\ DOMAIN lobbies' = DOMAIN lobbies
            /\ s \in Seq(Conns) /\ lobbies[l].host = c /\ lobbies[l].host_migration
            /\ LeftBehind(c) = Retain(s, Conns \ {c}) /\ LeftBehind(c) \in Seq(Conns)
            /\ Range(LeftBehind(c)) = Range(s) \ {c}
            /\ f = Retain(LeftBehind(c), Declaring) /\ f \in Seq(Conns) /\ f # <<>>
            /\ Range(f) = (Range(s) \ {c}) \cap Declaring
            /\ Head(f) \in Range(f)
            /\ lobbies'[l].members = f /\ lobbies'[l].host = Head(f)
<1> DEFINE l == job[c].lobby
           s == lobbies[l].members
           f == Followers(c)
<1>1. /\ l \in DOMAIN lobbies /\ lobbies[l].host = c /\ lobbies[l].host_migration
      /\ f # <<>>
      /\ \E n : lobbies' = [lobbies EXCEPT ![l] =
           [lobbies[l] EXCEPT !.members = f, !.host = Head(f), !.host_name = n]]
  BY DEF HandOver, HandsOver
<1>2. lobbies[l] \in Lobby /\ s \in Seq(Conns) /\ Range(s) \subseteq Conns
  BY <1>1 DEF TypeOK, Lobby, Range
<1>3. /\ DOMAIN lobbies' = DOMAIN lobbies
      /\ lobbies'[l].members = f /\ lobbies'[l].host = Head(f)
  <2>1. PICK n : lobbies' = [lobbies EXCEPT ![l] =
           [lobbies[l] EXCEPT !.members = f, !.host = Head(f), !.host_name = n]]
    BY <1>1
  <2> HIDE DEF f
  <2> QED
    BY <1>1, <1>2, <2>1 DEF Lobby
<1>4. LeftBehind(c) = Retain(s, Conns \ {c}) /\ f = Retain(LeftBehind(c), Declaring)
  BY DEF LeftBehind, Followers
<1>5. LeftBehind(c) \in Seq(Conns) /\ Range(LeftBehind(c)) = Range(s) \cap (Conns \ {c})
  BY <1>2, <1>4, RetainedMembers
<1>6. Range(LeftBehind(c)) = Range(s) \ {c}
  BY <1>2, <1>5
<1>7. /\ f \in Seq(Conns) /\ Range(f) = Range(LeftBehind(c)) \cap Declaring
      /\ Head(f) \in Range(LeftBehind(c)) \cap Declaring
  <2>1. /\ Retain(LeftBehind(c), Declaring) \in Seq(Conns)
        /\ Range(Retain(LeftBehind(c), Declaring)) = Range(LeftBehind(c)) \cap Declaring
        /\ Retain(LeftBehind(c), Declaring) # <<>> =>
             Head(Retain(LeftBehind(c), Declaring)) \in Range(LeftBehind(c)) \cap Declaring
    BY <1>5, RetainedMembers
  <2> HIDE DEF f
  <2> QED
    BY <1>1, <1>4, <2>1
<1> HIDE DEF f, l, s
<1>8. Head(f) \in Range(f) /\ Range(f) = (Range(s) \ {c}) \cap Declaring
  BY <1>6, <1>7
<1> QED
  BY <1>1, <1>2, <1>3, <1>4, <1>5, <1>6, <1>7, <1>8 DEF f, l, s

LEMMA Emptying ==
  ASSUME TypeOK, NEW c \in Conns, EmptyLobby(c)
  PROVE  LET l == job[c].lobby
         IN /\ l \in DOMAIN lobbies /\ DOMAIN lobbies' = DOMAIN lobbies
            /\ lobbies'[l].members = <<>> /\ lobbies[l].host = c /\ ~HandsOver(c)
            /\ job'[c].at = "unlisting" /\ job'[c].lobby = l
            /\ job'[c].code = lobbies[l].code /\ job'[c].how = job[c].how
            /\ job'[c].left = LeftBehind(c)
            /\ lobbies[l].members \in Seq(Conns) /\ LeftBehind(c) \in Seq(Conns)
            /\ Range(LeftBehind(c)) = Range(lobbies[l].members) \ {c}
<1> DEFINE l == job[c].lobby
           s == lobbies[l].members
<1>1. /\ l \in DOMAIN lobbies /\ lobbies[l].host = c /\ ~HandsOver(c)
      /\ lobbies' = [lobbies EXCEPT ![l] = [lobbies[l] EXCEPT !.members = <<>>]]
      /\ job' = [job EXCEPT ![c] =
           [at |-> "unlisting", lobby |-> l, code |-> lobbies[l].code,
            how |-> job[c].how, left |-> LeftBehind(c)]]
  BY DEF EmptyLobby
<1>2. lobbies[l] \in Lobby /\ s \in Seq(Conns) /\ Range(s) \subseteq Conns
  BY <1>1 DEF TypeOK, Lobby, Range
<1>3. DOMAIN lobbies' = DOMAIN lobbies /\ lobbies'[l].members = <<>>
  BY <1>1, <1>2 DEF Lobby
<1>4. LeftBehind(c) \in Seq(Conns) /\ Range(LeftBehind(c)) = Range(s) \cap (Conns \ {c})
  BY <1>2, RetainedMembers DEF LeftBehind
<1>5. Range(LeftBehind(c)) = Range(s) \ {c}
  BY <1>2, <1>4
<1>6. /\ job'[c].at = "unlisting" /\ job'[c].lobby = l
      /\ job'[c].code = lobbies[l].code /\ job'[c].how = job[c].how
      /\ job'[c].left = LeftBehind(c)
  BY <1>1 DEF TypeOK
<1> HIDE DEF l
<1> QED
  BY <1>1, <1>2, <1>3, <1>4, <1>5, <1>6 DEF l

LEMMA InitSound == Init => SoundInv
<1> SUFFICES ASSUME Init PROVE SoundInv
  OBVIOUS
<1>1. MembershipInv
  BY InitMembership
<1>2. DOMAIN lobbies = {} /\ \A c \in Conns : job[c].at = "offline"
  BY DEF Init, Resting, Busy
<1> QED
  BY <1>1, <1>2 DEF SoundInv, MembersDeclared, HostsEndLobbies, LobbyIsSound, Standing

\* A host that departs finds its lobby standing: only it could have ended it.
LEMMA HostsLobbyStands ==
  ASSUME SoundInv, NEW c \in Conns, job[c].at # "unlisting",
         NEW l \in DOMAIN lobbies, lobbies[l].host = c
  PROVE  l \in Standing
BY DEF SoundInv, HostsEndLobbies, Standing

\* A task that hands its lobby over does nothing else.
LEMMA HandOverAlone ==
  ASSUME NEW c \in Conns, HandOver(c)
  PROVE  ~InsertLobby(c) /\ ~EnterLobby(c) /\ ~DepartAsMember(c) /\ ~EmptyLobby(c)
<1>1. job[c].at = "departing" /\ lobbies[job[c].lobby].host = c /\ HandsOver(c)
  BY DEF HandOver
<1>2. ~InsertLobby(c) /\ ~EnterLobby(c)
  BY <1>1 DEF InsertLobby, EnterLobby
<1>3. ~DepartAsMember(c)
  BY <1>1 DEF DepartAsMember
<1>4. ~EmptyLobby(c)
  BY <1>1 DEF EmptyLobby
<1> QED
  BY <1>2, <1>3, <1>4

LEMMA StepSound ==
  ASSUME SoundInv, NEW c \in Conns, Continue(c) \/ Arrive(c)
  PROVE  SoundInv'
<1> DEFINE l == job[c].lobby
<1>a. /\ MembershipInv /\ MembershipInv' /\ TypeOK /\ TypeOK'
      /\ MembersDeclared /\ HostsEndLobbies /\ LobbyIsSound
  BY StepMembership DEF SoundInv, MembershipInv
<1>b. /\ StageOf(c) /\ \A d \in Conns \ {c} : job'[d] = job[d]
      /\ Declared \subseteq Declared'
      /\ \A x \in Declared : migrates'[x] = migrates[x]
      /\ \A n \in DOMAIN lobbies \cap Standing' : n \in Standing
  BY <1>a, StageStep, DeclaredStep, StandingOnlyEnds
<1>c. \A n \in DOMAIN lobbies : lobbies[n] \in Lobby /\ lobbies[n].members \in Seq(Conns)
  BY <1>a DEF TypeOK, Lobby
<1>d. \A n \in DOMAIN lobbies' \cap DOMAIN lobbies :
        /\ lobbies'[n].code = lobbies[n].code
        /\ lobbies'[n].max_players = lobbies[n].max_players
        /\ lobbies'[n].host_migration = lobbies[n].host_migration
        /\ lobbies'[n].host # lobbies[n].host => n = l /\ HandOver(c)
  BY <1>a, LobbiesStep
<1>e. HandOver(c) => ~EnterLobby(c) /\ ~DepartAsMember(c) /\ ~EmptyLobby(c)
  BY HandOverAlone
<1>1. MembersDeclared'
  <2> SUFFICES ASSUME NEW n \in DOMAIN lobbies'
               PROVE  Range(lobbies'[n].members) \cup {lobbies'[n].host} \subseteq Declared'
    BY DEF MembersDeclared
  <2>1. CASE n \notin DOMAIN lobbies
    <3>1. InsertLobby(c)
      BY <1>a, <2>1, LobbiesStep
    <3>2. PICK asked \in RequestedSizes : lobbies'[n] = NewLobby(c, asked)
      <4>1. PICK m \in LobbyIds, asked \in RequestedSizes :
              DOMAIN lobbies' = DOMAIN lobbies \cup {m} /\ lobbies'[m] = NewLobby(c, asked)
        BY <1>a, <3>1, Inserting, ZenonT(40)
      <4>2. n = m
        BY <2>1, <4>1
      <4> QED
        BY <4>1, <4>2
    <3>3. lobbies'[n].host = c /\ Range(lobbies'[n].members) = {c}
      BY <3>2 DEF NewLobby, Range
    <3>4. c \in Declared
      BY <1>b, <3>1 DEF InsertLobby, Declared
    <3> QED
      BY <1>b, <3>3, <3>4
  <2>2. CASE n \in DOMAIN lobbies
    <3>1. Range(lobbies[n].members) \cup {lobbies[n].host} \subseteq Declared
      BY <1>a, <2>2 DEF MembersDeclared
    <3>2. CASE lobbies'[n].members = lobbies[n].members /\ lobbies'[n].host = lobbies[n].host
      BY <1>b, <3>1, <3>2
    <3>3. CASE EnterLobby(c) /\ n = l
      <4>1. c \in Declared
        BY <3>3 DEF EnterLobby, Declared
      <4>3. lobbies'[n].host = lobbies[n].host
        BY <1>d, <1>e, <2>2, <3>3
      <4> QED
        <5>1. Range(lobbies'[n].members) = Range(lobbies[n].members) \cup {c}
          BY <1>a, <3>3, Entering
        <5> QED
          BY <1>b, <3>1, <4>1, <4>3, <5>1
    <3>4. CASE DepartAsMember(c) /\ n = l
      <4>1. lobbies'[n].host = lobbies[n].host
        BY <1>d, <1>e, <2>2, <3>4
      <4> QED
        BY <1>a, <1>b, <3>1, <3>4, <4>1, DepartingMember, ZenonT(40)
    <3>5. CASE HandOver(c) /\ n = l
      <4>1. LET g == Followers(c)
            IN /\ lobbies'[l].host = Head(g) /\ Head(g) \in Range(g)
               /\ lobbies'[l].members = g
               /\ Range(g) = (Range(lobbies[l].members) \ {c}) \cap Declaring
        BY <1>a, <3>5, HandingOver
      <4> HIDE DEF l
      <4> QED
        BY <1>b, <3>1, <3>5, <4>1
    <3>6. CASE EmptyLobby(c) /\ n = l
      <4>1. lobbies'[n].host = lobbies[n].host
        BY <1>d, <1>e, <2>2, <3>6
      <4>2. Range(lobbies'[n].members) = {}
        BY <1>a, <3>6, Emptying DEF Range
      <4> QED
        BY <1>b, <3>1, <4>1, <4>2
    <3> QED
      BY <1>a, <2>2, <3>2, <3>3, <3>4, <3>5, <3>6, LobbiesStep
  <2> QED
    BY <2>1, <2>2
<1>2. HostsEndLobbies'
  <2> SUFFICES ASSUME NEW d \in Conns, job'[d].at = "unlisting"
               PROVE  /\ job'[d].lobby \in DOMAIN lobbies'
                      /\ lobbies'[job'[d].lobby].host = d
                      /\ lobbies'[job'[d].lobby].code = job'[d].code
    BY DEF HostsEndLobbies
  <2>1. CASE d = c
    <3>1. EmptyLobby(c)
      BY <1>b, <2>1 DEF StageOf, Goes
    <3>2. /\ l \in DOMAIN lobbies /\ l \in DOMAIN lobbies' /\ lobbies[l].host = c
          /\ job'[c].lobby = l /\ job'[c].code = lobbies[l].code
      BY <1>a, <3>1, Emptying
    <3> HIDE DEF l
    <3> QED
      BY <1>d, <1>e, <2>1, <3>1, <3>2
  <2>2. CASE d # c
    <3> DEFINE n == job[d].lobby
    <3>1. /\ job'[d] = job[d] /\ n \in DOMAIN lobbies
          /\ lobbies[n].host = d /\ lobbies[n].code = job[d].code
      BY <1>a, <1>b, <2>2 DEF HostsEndLobbies
    <3>2. n \in DOMAIN lobbies'
      <4> SUFFICES ASSUME n \notin DOMAIN lobbies' PROVE FALSE
        OBVIOUS
      <4>1. InsertLobby(c) \/ (RemoveLobby(c) /\ n = l)
        BY <1>a, <3>1, LobbiesStep
      <4>2. CASE InsertLobby(c)
        BY <1>a, <3>1, <4>2, Inserting
      <4>3. CASE RemoveLobby(c) /\ n = l
        BY <1>a, <2>2, <3>1, <4>3 DEF RemoveLobby, HostsEndLobbies
      <4> QED
        BY <4>1, <4>2, <4>3
    <3>3. lobbies'[n].host = lobbies[n].host
      <4>1. CASE HandOver(c) /\ n = l
        BY <1>a, <2>2, <3>1, <4>1, HandingOver
      <4> QED
        BY <1>d, <3>1, <3>2, <4>1
    <3> QED
      BY <1>d, <3>1, <3>2, <3>3
  <2> QED
    BY <2>1, <2>2
<1>3. LobbyIsSound'
  <2> SUFFICES ASSUME NEW n \in Standing'
               PROVE  /\ lobbies'[n].host \in Range(lobbies'[n].members)
                      /\ lobbies'[n].host_migration => migrates'[lobbies'[n].host]
                      /\ Len(lobbies'[n].members) <= lobbies'[n].max_players
    BY DEF LobbyIsSound
  <2>a. n \in DOMAIN lobbies'
    BY DEF Standing
  <2>1. CASE n \notin DOMAIN lobbies
    <3>1. InsertLobby(c)
      BY <1>a, <2>a, <2>1, LobbiesStep
    <3>2. PICK asked \in RequestedSizes : lobbies'[n] = NewLobby(c, asked)
      <4>1. PICK m \in LobbyIds, asked \in RequestedSizes :
              DOMAIN lobbies' = DOMAIN lobbies \cup {m} /\ lobbies'[m] = NewLobby(c, asked)
        BY <1>a, <3>1, Inserting, ZenonT(40)
      <4>2. n = m
        BY <2>a, <2>1, <4>1
      <4> QED
        BY <4>1, <4>2
    <3>3. /\ lobbies'[n].host = c /\ lobbies'[n].members = <<c>>
          /\ lobbies'[n].host_migration = migrates[c]
          /\ lobbies'[n].max_players = ClampMaxPlayers(asked)
      BY <3>2 DEF NewLobby
    <3>4. c \in Range(<<c>>) /\ Len(<<c>>) = 1
      BY DEF Range
    <3>5. ClampMaxPlayers(asked) \in Nat \ {0}
      BY SizeAssumption DEF ClampMaxPlayers
    <3>6. c \in Declared
      BY <3>1 DEF InsertLobby, Declared
    <3> QED
      BY <1>b, <3>3, <3>4, <3>5, <3>6
  <2>2. CASE n \in DOMAIN lobbies
    <3>1. /\ lobbies[n].host \in Range(lobbies[n].members)
          /\ lobbies[n].host_migration => migrates[lobbies[n].host]
          /\ Len(lobbies[n].members) <= lobbies[n].max_players
          /\ lobbies[n].host \in Declared
      BY <1>a, <1>b, <2>2 DEF LobbyIsSound, MembersDeclared
    <3>2. /\ lobbies'[n].max_players = lobbies[n].max_players
          /\ lobbies'[n].host_migration = lobbies[n].host_migration
          /\ lobbies[n].max_players \in Nat
      BY <1>a, <1>c, <2>a, <2>2, LobbiesStep DEF Lobby
    <3>3. CASE lobbies'[n].members = lobbies[n].members /\ lobbies'[n].host = lobbies[n].host
      BY <1>b, <3>1, <3>2, <3>3
    <3>4. CASE EnterLobby(c) /\ n = l
      <4>1. lobbies'[n].host = lobbies[n].host
        BY <1>d, <1>e, <2>a, <2>2, <3>4
      <4>2. /\ Range(lobbies'[n].members) = Range(lobbies[n].members) \cup {c}
            /\ lobbies[n].members \in Seq(Conns)
            /\ lobbies'[n].members = Append(lobbies[n].members, c)
            /\ Len(lobbies[n].members) < lobbies[n].max_players
        BY <1>a, <3>4, Entering
      <4>3. Len(lobbies'[n].members) = Len(lobbies[n].members) + 1
            /\ Len(lobbies[n].members) \in Nat
        BY <4>2
      <4>4. Len(lobbies'[n].members) <= lobbies'[n].max_players
        BY <3>2, <4>2, <4>3
      <4> QED
        BY <1>b, <3>1, <3>2, <4>1, <4>2, <4>4
    <3>5. CASE DepartAsMember(c) /\ n = l
      <4>1. lobbies'[n].host = lobbies[n].host
        BY <1>d, <1>e, <2>a, <2>2, <3>5
      <4>2. /\ Range(lobbies'[n].members) = Range(lobbies[n].members) \ {c}
            /\ lobbies[n].members \in Seq(Conns) /\ lobbies[n].host # c
            /\ lobbies'[n].members = Retain(lobbies[n].members, Conns \ {c})
        BY <1>a, <3>5, DepartingMember
      <4>3. Len(lobbies'[n].members) \in Nat /\ Len(lobbies[n].members) \in Nat
            /\ Len(lobbies'[n].members) <= Len(lobbies[n].members)
        BY <4>2, RetainShortens
      <4>4. Len(lobbies'[n].members) <= lobbies'[n].max_players
        BY <3>1, <3>2, <4>3
      <4> QED
        BY <1>b, <3>1, <3>2, <4>1, <4>2, <4>4
    <3>6. CASE HandOver(c) /\ n = l
      <4> DEFINE s == lobbies[n].members
                 f == lobbies'[n].members
      <4>1. /\ s \in Seq(Conns) /\ f = Retain(LeftBehind(c), Declaring)
            /\ LeftBehind(c) = Retain(s, Conns \ {c}) /\ LeftBehind(c) \in Seq(Conns)
            /\ lobbies'[n].host \in Range(f)
            /\ Range(f) = (Range(s) \ {c}) \cap Declaring
        <5>1. LET q == lobbies[l].members
                  g == Followers(c)
              IN /\ q \in Seq(Conns) /\ g = Retain(LeftBehind(c), Declaring)
                 /\ LeftBehind(c) = Retain(q, Conns \ {c}) /\ LeftBehind(c) \in Seq(Conns)
                 /\ lobbies'[l].host = Head(g) /\ Head(g) \in Range(g)
                 /\ lobbies'[l].members = g
                 /\ Range(g) = (Range(q) \ {c}) \cap Declaring
          BY <1>a, <3>6, HandingOver
        <5> HIDE DEF l
        <5> QED
          BY <3>6, <5>1
      <4>2. migrates'[lobbies'[n].host]
        BY <1>a, <1>b, <2>2, <4>1 DEF Declaring, MembersDeclared
      <4>3. /\ Len(LeftBehind(c)) \in Nat /\ Len(LeftBehind(c)) <= Len(s)
            /\ Len(f) \in Nat /\ Len(f) <= Len(LeftBehind(c)) /\ Len(s) \in Nat
        BY <4>1, RetainShortens
      <4>4. Len(f) <= lobbies'[n].max_players
        BY <3>1, <3>2, <4>3
      <4> QED
        BY <4>1, <4>2, <4>4
    <3>7. CASE EmptyLobby(c) /\ n = l
      <4>1. job'[c].at = "unlisting" /\ job'[c].lobby = n
        BY <1>a, <3>7, Emptying
      <4> QED
        BY <4>1 DEF Standing
    <3> QED
      BY <1>a, <2>a, <2>2, <3>3, <3>4, <3>5, <3>6, <3>7, LobbiesStep
  <2> QED
    BY <2>1, <2>2
<1> QED
  BY <1>a, <1>1, <1>2, <1>3 DEF SoundInv

LEMMA SoundStutters ==
  ASSUME SoundInv, UNCHANGED vars
  PROVE  SoundInv'
BY DEF SoundInv, MembershipInv, TypeOK, MembersPointBack, HandlesPointIn, FramesAimRight,
       Standing, Enders, MembersDeclared, Declared, HostsEndLobbies, LobbyIsSound, vars,
       handles

LEMMA SoundInvariant == Spec => []SoundInv
<1>1. SoundInv /\ [Next]_vars => SoundInv'
  <2> SUFFICES ASSUME SoundInv, [Next]_vars PROVE SoundInv'
    OBVIOUS
  <2>1. CASE Next
    BY <2>1, StepSound DEF Next
  <2>2. CASE UNCHANGED vars
    BY <2>2, SoundStutters
  <2> QED
    BY <2>1, <2>2
<1> QED
  BY <1>1, InitSound, PTL DEF Spec

\* A lobby that stands has its host inside, a host that can be told of a host
\* change if the lobby promised to survive, and no more members than its size,
\* through every join, departure and host change of lobby.rs.
THEOREM LobbiesAreSound == Spec => []LobbyIsSound
<1>1. SoundInv => LobbyIsSound
  BY DEF SoundInv
<1> QED
  BY <1>1, SoundInvariant, PTL

------------------------------------------------------------------------------
\* Join order decides succession

LEMMA MembersKept ==
  ASSUME NEW S, NEW s \in Seq(S)
  PROVE  Retain(s, Range(s)) = s /\ SubSeq(s, 1, Len(s)) = s
BY RetainEverybody, SubSeqFull

LEMMA MembersAndOneMore ==
  ASSUME NEW S, NEW s \in Seq(S), NEW x \in S
  PROVE  SubSeq(Append(s, x), 1, Len(s)) = s
<1> DEFINE t == Append(s, x)
<1>1. t \in Seq(S) /\ Len(s) \in Nat /\ Len(s) \in 0..Len(t)
      /\ \A i \in 1..Len(s) : t[i] \in S /\ t[i] = s[i]
  OBVIOUS
<1>2. /\ SubSeq(t, 1, Len(s)) \in Seq(S)
      /\ Len(SubSeq(t, 1, Len(s))) = IF 1 <= Len(s) THEN Len(s) - 1 + 1 ELSE 0
      /\ \A i \in 1..Len(s) - 1 + 1 : SubSeq(t, 1, Len(s))[i] = t[1 + i - 1]
  <2>1. 1 \in Int /\ Len(s) \in Int /\ \A i \in 1..Len(s) : t[i] \in S
    BY <1>1
  <2> HIDE DEF t
  <2> QED
    BY <2>1, SubSeqProperties
<1> DEFINE u == SubSeq(t, 1, Len(s))
<1>3. u \in Seq(S) /\ Len(u) = Len(s) /\ \A i \in 1..Len(s) : u[i] = s[i]
  <2> HIDE DEF t
  <2>1. Len(s) \in Nat
    OBVIOUS
  <2> QED
    BY <1>1, <1>2, <2>1
<1> HIDE DEF u
<1>4. u = s
  BY <1>3
<1> QED
  BY <1>4 DEF u

LEMMA SeniorityStep ==
  ASSUME SoundInv, NEW c \in Conns, Continue(c) \/ Arrive(c)
  PROVE  StepKeepsSeniority
<1> SUFFICES ASSUME NEW l \in Standing, l \in DOMAIN lobbies'
             PROVE  LET old == lobbies[l].members
                        new == lobbies'[l].members
                        kept == Retain(old, Range(new))
                        heirs == Retain(old, Declaring \ {lobbies[l].host})
                    IN /\ kept = SubSeq(new, 1, Len(kept))
                       /\ Len(new) <= Len(kept) + 1
                       /\ lobbies'[l].host # lobbies[l].host =>
                            heirs # <<>> /\ lobbies'[l].host = heirs[1]
  BY DEF StepKeepsSeniority
<1> DEFINE old == lobbies[l].members
           new == lobbies'[l].members
           kept == Retain(old, Range(new))
           heirs == Retain(old, Declaring \ {lobbies[l].host})
           good == /\ kept = SubSeq(new, 1, Len(kept))
                   /\ Len(new) <= Len(kept) + 1
                   /\ lobbies'[l].host # lobbies[l].host =>
                        heirs # <<>> /\ lobbies'[l].host = heirs[1]
<1> SUFFICES good
  OBVIOUS
<1>a. TypeOK /\ l \in DOMAIN lobbies /\ old \in Seq(Conns) /\ Range(old) \subseteq Conns
  BY DEF SoundInv, MembershipInv, Standing, TypeOK, Lobby, Range
<1>b. /\ lobbies'[l].host # lobbies[l].host => l = job[c].lobby /\ HandOver(c)
      /\ new # old => /\ l = job[c].lobby
                      /\ EnterLobby(c) \/ DepartAsMember(c) \/ HandOver(c) \/ EmptyLobby(c)
  BY <1>a, LobbiesStep DEF SoundInv
<1>c. HandOver(c) => ~EnterLobby(c) /\ ~DepartAsMember(c) /\ ~EmptyLobby(c)
  BY HandOverAlone
<1>1. CASE new = old /\ lobbies'[l].host = lobbies[l].host
  <2>1. kept = old /\ SubSeq(old, 1, Len(old)) = old /\ Len(old) \in Nat
    BY <1>1, <1>a, MembersKept
  <2> HIDE DEF old, new, kept, heirs
  <2> QED
    BY <1>1, <2>1
<1>2. CASE EnterLobby(c) /\ l = job[c].lobby
  <2>1. new = Append(old, c) /\ Range(new) = Range(old) \cup {c}
    BY <1>2, <1>a, Entering
  <2>2. kept = old
    BY <1>a, <2>1, RetainEverybody
  <2>3. SubSeq(new, 1, Len(old)) = old
    BY <1>a, <2>1, MembersAndOneMore
  <2>4. Len(new) <= Len(old) + 1
    BY <1>a, <2>1
  <2> HIDE DEF old, new, kept, heirs
  <2> QED
    BY <1>2, <1>b, <1>c, <2>2, <2>3, <2>4
<1>3. CASE DepartAsMember(c) /\ l = job[c].lobby
  <2>1. /\ new = Retain(old, Conns \ {c}) /\ Range(new) = Range(old) \ {c}
        /\ lobbies[l].host # c
    BY <1>3, <1>a, DepartingMember
  <2>2. new \in Seq(Conns)
    BY <1>a, <2>1, RetainedMembers
  <2>3. kept = new
    <3>1. Range(old) \cap Range(new) = Range(old) \cap (Conns \ {c})
      BY <1>a, <2>1
    <3> QED
      BY <2>1, <3>1, RetainOfTheListed
  <2>4. SubSeq(new, 1, Len(new)) = new /\ Len(new) \in Nat
    BY <2>2, SubSeqFull
  <2> HIDE DEF old, new, kept, heirs
  <2> QED
    BY <1>3, <1>b, <1>c, <2>3, <2>4
<1>4. CASE HandOver(c) /\ l = job[c].lobby
  <2>1. /\ lobbies[l].host = c /\ new \in Seq(Conns) /\ new # <<>>
        /\ Range(new) = (Range(old) \ {c}) \cap Declaring
        /\ new = Retain(Retain(old, Conns \ {c}), Declaring)
        /\ lobbies'[l].host = Head(new)
    <3>1. LET s == lobbies[l].members
              f == Followers(c)
          IN /\ lobbies[l].host = c /\ f \in Seq(Conns) /\ f # <<>>
             /\ LeftBehind(c) = Retain(s, Conns \ {c})
             /\ f = Retain(LeftBehind(c), Declaring)
             /\ Range(f) = (Range(s) \ {c}) \cap Declaring
             /\ lobbies'[l].members = f /\ lobbies'[l].host = Head(f)
      BY <1>4, <1>a, HandingOver
    <3> QED
      BY <3>1
  <2>2. new = Retain(old, (Conns \ {c}) \cap Declaring)
    BY <1>a, <2>1, RetainTwice
  <2>3. kept = new
    <3>1. Range(old) \cap Range(new) = Range(old) \cap ((Conns \ {c}) \cap Declaring)
      BY <1>a, <2>1
    <3> QED
      BY <2>2, <3>1, RetainOfTheListed
  <2>4. heirs = new
    <3>1. Range(old) \cap (Declaring \ {lobbies[l].host})
            = Range(old) \cap ((Conns \ {c}) \cap Declaring)
      BY <1>a, <2>1
    <3> QED
      BY <2>2, <3>1, RetainOfTheListed
  <2>5. SubSeq(new, 1, Len(new)) = new /\ Len(new) \in Nat /\ Head(new) = new[1]
    BY <2>1, SubSeqFull
  <2> HIDE DEF old, new, kept, heirs
  <2> QED
    BY <2>1, <2>3, <2>4, <2>5
<1>5. CASE EmptyLobby(c) /\ l = job[c].lobby
  <2>1. new = <<>> /\ Range(new) = {}
    BY <1>5, <1>a, Emptying DEF Range
  <2>2. kept = <<>>
    <3>1. kept \in Seq(Conns) /\ Range(kept) = Range(old) \cap {}
      BY <1>a, <2>1, RetainedMembers
    <3> HIDE DEF kept
    <3>2. kept # <<>> => kept[1] \in Range(kept)
      BY <3>1 DEF Range
    <3> QED
      BY <3>1, <3>2
  <2>3. SubSeq(<<>>, 1, 0) = <<>>
    BY SubSeqEmpty
  <2> HIDE DEF old, new, kept, heirs
  <2> QED
    BY <1>5, <1>b, <1>c, <2>1, <2>2, <2>3
<1> HIDE DEF old, new, kept, heirs, good
<1>6. \/ new = old /\ lobbies'[l].host = lobbies[l].host
      \/ /\ l = job[c].lobby
         /\ EnterLobby(c) \/ DepartAsMember(c) \/ HandOver(c) \/ EmptyLobby(c)
  BY <1>b
<1> QED
  BY <1>1, <1>2, <1>3, <1>4, <1>5, <1>6

\* No step permutes the members of a lobby that stands: join_lobby adds at the
\* end, every departure keeps the order of those who stay, and the member that
\* takes over is the first to have joined among those that can.
THEOREM SeniorityHolds == Spec => SeniorityDecides
<1>1. SoundInv /\ [Next]_vars => [StepKeepsSeniority]_vars
  BY SeniorityStep DEF Next
<1> QED
  BY <1>1, SoundInvariant, PTL DEF Spec, SeniorityDecides

------------------------------------------------------------------------------
\* Codes lead home

\* Tasks ending a lobby whose code they have still to remove.
Removers == {c \in Conns : job[c].at \in {"unlisting", "uncoding"}}

\* An entry of lobby_codes names a lobby drawn, and one that has that code.
CodesAreTheirs ==
  \A k \in DOMAIN lobby_codes :
    /\ lobby_codes[k] \in drawn
    /\ lobby_codes[k] \in DOMAIN lobbies => lobbies[lobby_codes[k]].code = k

\* The code a task is about to remove still leads to the lobby it ended.
RemoversOwnTheirCode ==
  \A c \in Removers : job[c].code \notin clashed =>
    job[c].code \in DOMAIN lobby_codes /\ lobby_codes[job[c].code] = job[c].lobby

OneRemoverEach == \A c, d \in Removers : job[c].lobby = job[d].lobby => c = d

CodesInv ==
  SoundInv /\ CodesLeadHome /\ CodesAreTheirs /\ RemoversOwnTheirCode /\ OneRemoverEach

LEMMA InitCodes == Init => CodesInv
<1> SUFFICES ASSUME Init PROVE CodesInv
  OBVIOUS
<1>1. SoundInv
  BY InitSound
<1>2. /\ DOMAIN lobbies = {} /\ DOMAIN lobby_codes = {}
      /\ \A c \in Conns : job[c].at = "offline"
  BY DEF Init, Resting, Busy
<1> QED
  BY <1>1, <1>2 DEF CodesInv, CodesLeadHome, CodesAreTheirs, RemoversOwnTheirCode,
                    OneRemoverEach, Removers, Standing

\* Only a new lobby and the end of one write the codes.
LEMMA CodesStep ==
  ASSUME TypeOK, NEW c \in Conns, Continue(c) \/ Arrive(c)
  PROVE  /\ drawn \subseteq drawn' /\ clashed \subseteq clashed'
         /\ UNCHANGED lobby_codes \/ InsertLobby(c) \/ RemoveCode(c)
         /\ UNCHANGED clashed \/ InsertLobby(c)
<1>1. CASE InsertLobby(c)
  <2>1. drawn \subseteq drawn'
    BY <1>1 DEF InsertLobby
  <2>2. clashed \subseteq clashed'
    BY <1>1 DEF InsertLobby
  <2> QED
    BY <1>1, <2>1, <2>2
<1>2. CASE ~InsertLobby(c)
  BY <1>2 DEF Continue, Arrive, Authenticate, Declare, SetDisplayName, CreateLobby,
              JoinLobby, JoinLobbyByCode, RefuseJoin, StartToDepart, LeaveLobby,
              CloseLobby, CancelRequest, EndConnection, DepartFromNothing, IgnoreClose,
              RemoveCode, TellDisconnected, ClearDisconnected, FinishDisconnecting,
              RenameLobby, EnterLobby, DepartAsMember, HandOver, EmptyLobby, RemoveLobby
<1> QED
  BY <1>1, <1>2

LEMMA StepCodes ==
  ASSUME CodesInv, NEW c \in Conns, Continue(c) \/ Arrive(c)
  PROVE  CodesInv'
<1> DEFINE l == job[c].lobby
           k0 == job[c].code
<1>a. /\ SoundInv /\ SoundInv' /\ MembershipInv /\ TypeOK /\ FramesAimRight
      /\ HostsEndLobbies /\ CodesLeadHome /\ CodesAreTheirs /\ RemoversOwnTheirCode
      /\ OneRemoverEach
  BY StepSound DEF CodesInv, SoundInv, MembershipInv
<1>b. /\ StageOf(c) /\ \A d \in Conns \ {c} : job'[d] = job[d]
      /\ \A n \in DOMAIN lobbies \cap Standing' : n \in Standing
      /\ drawn \subseteq drawn' /\ clashed \subseteq clashed'
      /\ Standing' \subseteq DOMAIN lobbies'
  BY <1>a, StageStep, StandingOnlyEnds, CodesStep DEF Standing
<1>c. /\ \A n \in DOMAIN lobbies' \cap DOMAIN lobbies : lobbies'[n].code = lobbies[n].code
      /\ DOMAIN lobbies' # DOMAIN lobbies => InsertLobby(c) \/ RemoveLobby(c)
  BY <1>a, LobbiesStep
<1>d. /\ DOMAIN lobbies \subseteq drawn
      /\ \A n \in Standing : lobbies[n].code \notin clashed =>
           lobbies[n].code \in DOMAIN lobby_codes /\ lobby_codes[lobbies[n].code] = n
      /\ \A k \in DOMAIN lobby_codes \ clashed :
           \/ lobby_codes[k] \in DOMAIN lobbies
           \/ \E d \in Conns : job[d].at = "uncoding" /\ job[d].code = k
      /\ \A d \in Removers : job[d].lobby \in drawn
      /\ \A d \in Removers : job[d].at = "uncoding" => job[d].lobby \notin DOMAIN lobbies
  BY <1>a DEF CodesLeadHome, TypeOK, FramesAimRight, Removers, Enders
<1>1. CASE InsertLobby(c)
  <2>1. PICK m \in LobbyIds \ drawn :
          /\ DOMAIN lobbies' = DOMAIN lobbies \cup {m} /\ m \notin DOMAIN lobbies
          /\ \A n \in DOMAIN lobbies : lobbies'[n] = lobbies[n]
          /\ lobbies'[m].code = k0
          /\ DOMAIN lobby_codes' = DOMAIN lobby_codes \cup {k0}
          /\ lobby_codes'[k0] = m
          /\ \A k \in DOMAIN lobby_codes \ {k0} : lobby_codes'[k] = lobby_codes[k]
          /\ drawn' = drawn \cup {m}
    <3>1. PICK m \in LobbyIds \ drawn, asked \in RequestedSizes,
               r \in Requests \cup {None} :
          /\ DOMAIN lobbies' = DOMAIN lobbies \cup {m} /\ m \notin DOMAIN lobbies
          /\ \A n \in DOMAIN lobbies : lobbies'[n] = lobbies[n]
          /\ lobbies'[m] = NewLobby(c, asked)
          /\ DOMAIN lobby_codes' = DOMAIN lobby_codes \cup {job[c].code}
          /\ lobby_codes'[job[c].code] = m
          /\ \A k \in DOMAIN lobby_codes \ {job[c].code} :
               lobby_codes'[k] = lobby_codes[k]
          /\ entered_by' = [entered_by EXCEPT ![c] = r]
          /\ told' = [told EXCEPT ![c] =
               [lobby |-> m, host |-> c, peers |-> {},
                migratable |-> migrates[c], request |-> r]]
          /\ drawn' = drawn \cup {m}
      BY <1>1, <1>a, Inserting, Zenon
    <3>2. lobbies'[m].code = k0
      BY <3>1 DEF NewLobby
    <3> QED
      BY <3>1, <3>2
  <2>2. k0 \in DOMAIN lobby_codes => k0 \in clashed'
    BY <1>1 DEF InsertLobby
  <2>3. /\ Removers' = Removers /\ \A d \in Removers : job'[d] = job[d]
        /\ \A d \in Conns : job[d].at = "uncoding" => d # c
    BY <1>1, <1>b DEF StageOf, Goes, Removers, InsertLobby
  <2> HIDE DEF l, k0
  <2>4. \A n \in Standing' : lobbies'[n].code \notin clashed' =>
           lobbies'[n].code \in DOMAIN lobby_codes' /\ lobby_codes'[lobbies'[n].code] = n
    <3> SUFFICES ASSUME NEW n \in Standing', lobbies'[n].code \notin clashed'
                 PROVE  lobbies'[n].code \in DOMAIN lobby_codes'
                        /\ lobby_codes'[lobbies'[n].code] = n
      OBVIOUS
    <3>1. CASE n = m
      BY <2>1, <3>1
    <3>2. CASE n # m
      <4>1. n \in DOMAIN lobbies /\ lobbies'[n] = lobbies[n] /\ n \in Standing
        BY <1>b, <2>1, <3>2
      <4>2. lobbies[n].code \in DOMAIN lobby_codes /\ lobby_codes[lobbies[n].code] = n
        BY <1>b, <1>d, <4>1
      <4> QED
        BY <2>1, <2>2, <4>1, <4>2
    <3> QED
      BY <3>1, <3>2
  <2>5. \A k \in DOMAIN lobby_codes' \ clashed' :
          \/ lobby_codes'[k] \in DOMAIN lobbies'
          \/ \E d \in Conns : job'[d].at = "uncoding" /\ job'[d].code = k
    <3> SUFFICES ASSUME NEW k \in DOMAIN lobby_codes', k \notin clashed'
                 PROVE  \/ lobby_codes'[k] \in DOMAIN lobbies'
                        \/ \E d \in Conns : job'[d].at = "uncoding" /\ job'[d].code = k
      OBVIOUS
    <3>1. CASE k = k0
      BY <2>1, <3>1
    <3>2. CASE k # k0
      <4>1. k \in DOMAIN lobby_codes \ clashed /\ lobby_codes'[k] = lobby_codes[k]
        BY <1>b, <2>1, <3>2
      <4> QED
        BY <1>b, <1>d, <2>1, <2>3, <4>1
    <3> QED
      BY <3>1, <3>2
  <2>6. CodesAreTheirs'
    <3> SUFFICES ASSUME NEW k \in DOMAIN lobby_codes'
                 PROVE  /\ lobby_codes'[k] \in drawn'
                        /\ lobby_codes'[k] \in DOMAIN lobbies' =>
                             lobbies'[lobby_codes'[k]].code = k
      BY DEF CodesAreTheirs
    <3>1. CASE k = k0
      BY <2>1, <3>1
    <3>2. CASE k # k0
      <4>1. k \in DOMAIN lobby_codes /\ lobby_codes'[k] = lobby_codes[k]
        BY <2>1, <3>2
      <4>2. lobby_codes[k] \in drawn /\ lobby_codes[k] # m
            /\ (lobby_codes[k] \in DOMAIN lobbies => lobbies[lobby_codes[k]].code = k)
        BY <1>a, <2>1, <4>1 DEF CodesAreTheirs
      <4> QED
        BY <2>1, <4>1, <4>2
    <3> QED
      BY <3>1, <3>2
  <2>7. RemoversOwnTheirCode'
    BY <1>a, <1>b, <2>1, <2>2, <2>3 DEF RemoversOwnTheirCode
  <2>8. OneRemoverEach'
    BY <1>a, <2>3 DEF OneRemoverEach
  <2> QED
    BY <1>a, <2>4, <2>5, <2>6, <2>7, <2>8 DEF CodesInv, CodesLeadHome
<1>2. CASE RemoveCode(c)
  <2>1. /\ DOMAIN lobby_codes' = DOMAIN lobby_codes \ {k0}
        /\ \A k \in DOMAIN lobby_codes' : lobby_codes'[k] = lobby_codes[k]
        /\ UNCHANGED <<lobbies, drawn, clashed>>
    BY <1>2 DEF RemoveCode, Del
  <2>2. /\ c \in Removers /\ job[c].at = "uncoding" /\ Removers' = Removers \ {c}
        /\ \A d \in Removers' : job'[d] = job[d]
    BY <1>2, <1>b DEF StageOf, Goes, Removers, RemoveCode
  <2>3. k0 \notin clashed => lobby_codes[k0] = l
    BY <1>a, <2>2 DEF RemoversOwnTheirCode
  <2>4. l \notin DOMAIN lobbies
    BY <1>d, <2>2
  <2> HIDE DEF l
  <2>5. \A n \in Standing' : lobbies'[n].code \notin clashed' =>
           lobbies'[n].code \in DOMAIN lobby_codes' /\ lobby_codes'[lobbies'[n].code] = n
    <3> SUFFICES ASSUME NEW n \in Standing', lobbies[n].code \notin clashed
                 PROVE  lobbies[n].code \in DOMAIN lobby_codes'
                        /\ lobby_codes'[lobbies[n].code] = n
      BY <2>1
    <3>1. n \in DOMAIN lobbies /\ n \in Standing
      BY <1>b, <2>1
    <3>2. lobbies[n].code \in DOMAIN lobby_codes /\ lobby_codes[lobbies[n].code] = n
      BY <1>d, <3>1
    <3>3. lobbies[n].code # k0
      BY <2>3, <2>4, <3>1, <3>2
    <3> QED
      BY <2>1, <3>2, <3>3
  <2>6. \A k \in DOMAIN lobby_codes' \ clashed' :
          \/ lobby_codes'[k] \in DOMAIN lobbies'
          \/ \E d \in Conns : job'[d].at = "uncoding" /\ job'[d].code = k
    <3> SUFFICES ASSUME NEW k \in DOMAIN lobby_codes \ clashed, k # k0
                 PROVE  \/ lobby_codes[k] \in DOMAIN lobbies
                        \/ \E d \in Conns : job'[d].at = "uncoding" /\ job'[d].code = k
      BY <2>1
    <3> QED
      BY <1>b, <1>d
  <2>7. CodesAreTheirs'
    BY <1>a, <2>1 DEF CodesAreTheirs
  <2>8. RemoversOwnTheirCode'
    <3> SUFFICES ASSUME NEW d \in Removers', job'[d].code \notin clashed'
                 PROVE  job'[d].code \in DOMAIN lobby_codes'
                        /\ lobby_codes'[job'[d].code] = job'[d].lobby
      BY DEF RemoversOwnTheirCode
    <3>1. d \in Removers /\ d # c /\ job'[d] = job[d] /\ job[d].code \notin clashed
      BY <2>1, <2>2
    <3>2. job[d].code \in DOMAIN lobby_codes /\ lobby_codes[job[d].code] = job[d].lobby
      BY <1>a, <3>1 DEF RemoversOwnTheirCode
    <3>3. job[d].code # k0
      BY <1>a, <2>2, <2>3, <3>1, <3>2 DEF OneRemoverEach, l
    <3> QED
      BY <2>1, <3>1, <3>2, <3>3
  <2>9. OneRemoverEach'
    BY <1>a, <2>2 DEF OneRemoverEach
  <2> QED
    BY <1>a, <2>5, <2>6, <2>7, <2>8, <2>9 DEF CodesInv, CodesLeadHome
<1>3. CASE RemoveLobby(c)
  <2>1. /\ DOMAIN lobbies' = DOMAIN lobbies \ {l}
        /\ UNCHANGED <<lobby_codes, drawn, clashed>>
    BY <1>3 DEF RemoveLobby, Del
  <2>2. /\ Removers' = Removers /\ c \in Removers /\ job[c].at = "unlisting"
        /\ \A d \in Conns \ {c} : job'[d] = job[d]
        /\ job'[c].lobby = l /\ job'[c].code = k0 /\ job'[c].at = "uncoding"
    <3>1. job[c] \in Job /\ job' = [job EXCEPT ![c] = [job[c] EXCEPT !.at = "uncoding"]]
      BY <1>3, <1>a DEF RemoveLobby, TypeOK
    <3>2. job'[c].lobby = l /\ job'[c].code = k0 /\ job'[c].at = "uncoding"
      BY <1>a, <3>1 DEF TypeOK, Job
    <3> QED
      BY <1>3, <1>b, <3>2 DEF Removers, RemoveLobby
  <2>3. lobbies[l].code = k0 /\ l \in DOMAIN lobbies
    BY <1>a, <2>2 DEF HostsEndLobbies
  <2> HIDE DEF l, k0
  <2>4. \A n \in Standing' : lobbies'[n].code \notin clashed' =>
           lobbies'[n].code \in DOMAIN lobby_codes' /\ lobby_codes'[lobbies'[n].code] = n
    BY <1>b, <1>c, <1>d, <2>1
  <2>5. \A k \in DOMAIN lobby_codes' \ clashed' :
          \/ lobby_codes'[k] \in DOMAIN lobbies'
          \/ \E d \in Conns : job'[d].at = "uncoding" /\ job'[d].code = k
    <3> SUFFICES ASSUME NEW k \in DOMAIN lobby_codes \ clashed
                 PROVE  \/ lobby_codes[k] \in DOMAIN lobbies'
                        \/ \E d \in Conns : job'[d].at = "uncoding" /\ job'[d].code = k
      BY <2>1
    <3>1. CASE lobby_codes[k] = l
      <4>1. k = k0
        BY <1>a, <2>3, <3>1 DEF CodesAreTheirs
      <4> QED
        BY <2>2, <4>1
    <3>2. CASE lobby_codes[k] # l /\ lobby_codes[k] \in DOMAIN lobbies
      BY <2>1, <3>2
    <3>3. CASE lobby_codes[k] \notin DOMAIN lobbies
      <4>1. PICK d \in Conns : job[d].at = "uncoding" /\ job[d].code = k
        BY <1>d, <3>3
      <4>2. job'[d] = job[d]
        BY <2>2, <4>1
      <4> QED
        BY <4>1, <4>2
    <3> QED
      BY <3>1, <3>2, <3>3
  <2>6. CodesAreTheirs'
    BY <1>a, <1>c, <2>1 DEF CodesAreTheirs
  <2>7. \A d \in Removers : job'[d].lobby = job[d].lobby /\ job'[d].code = job[d].code
    BY <2>2 DEF Removers, l, k0
  <2>8. RemoversOwnTheirCode'
    BY <1>a, <2>1, <2>2, <2>7 DEF RemoversOwnTheirCode
  <2>9. OneRemoverEach'
    BY <1>a, <2>2, <2>7 DEF OneRemoverEach
  <2> QED
    BY <1>a, <2>4, <2>5, <2>6, <2>8, <2>9 DEF CodesInv, CodesLeadHome
<1>4. CASE ~InsertLobby(c) /\ ~RemoveCode(c) /\ ~RemoveLobby(c)
  <2>1. /\ UNCHANGED <<lobby_codes, clashed>> /\ DOMAIN lobbies' = DOMAIN lobbies
        /\ Standing' \subseteq Standing
    BY <1>4, <1>a, <1>b, <1>c, CodesStep
  <2>2. /\ c \notin Removers /\ \A d \in Removers : job'[d] = job[d]
        /\ Removers' = IF EmptyLobby(c) THEN Removers \cup {c} ELSE Removers
    <3>1. CASE EmptyLobby(c)
      <4>1. job[c].at = "departing" /\ job'[c].at = "unlisting"
        BY <1>b, <3>1 DEF StageOf, Goes, EmptyLobby
      <4> QED
        BY <1>b, <3>1, <4>1 DEF Removers
    <3>2. CASE ~EmptyLobby(c)
      <4>1. /\ job[c].at \notin {"unlisting", "uncoding"}
            /\ job'[c].at \notin {"unlisting", "uncoding"}
        BY <1>4, <1>b, <3>2 DEF StageOf, Goes
      <4> QED
        BY <1>b, <3>2, <4>1 DEF Removers
    <3> QED
      BY <3>1, <3>2
  <2>3. EmptyLobby(c) =>
          /\ l \in DOMAIN lobbies /\ lobbies[l].host = c /\ l \in Standing
          /\ job'[c].lobby = l /\ job'[c].code = lobbies[l].code /\ job'[c].at = "unlisting"
    <3> SUFFICES ASSUME EmptyLobby(c)
                 PROVE  /\ l \in DOMAIN lobbies /\ lobbies[l].host = c /\ l \in Standing
                        /\ job'[c].lobby = l /\ job'[c].code = lobbies[l].code
                        /\ job'[c].at = "unlisting"
      OBVIOUS
    <3>1. /\ l \in DOMAIN lobbies /\ lobbies[l].host = c
          /\ job'[c].lobby = l /\ job'[c].code = lobbies[l].code /\ job'[c].at = "unlisting"
      BY <1>a, Emptying
    <3>2. job[c].at # "unlisting"
      BY DEF EmptyLobby
    <3> HIDE DEF l
    <3> QED
      BY <1>a, <3>1, <3>2, HostsLobbyStands
  <2> HIDE DEF l
  <2>4. \A n \in Standing' : lobbies'[n].code \notin clashed' =>
           lobbies'[n].code \in DOMAIN lobby_codes' /\ lobby_codes'[lobbies'[n].code] = n
    BY <1>b, <1>c, <1>d, <2>1
  <2>5. \A k \in DOMAIN lobby_codes' \ clashed' :
          \/ lobby_codes'[k] \in DOMAIN lobbies'
          \/ \E d \in Conns : job'[d].at = "uncoding" /\ job'[d].code = k
    <3> SUFFICES ASSUME NEW k \in DOMAIN lobby_codes \ clashed,
                        lobby_codes[k] \notin DOMAIN lobbies
                 PROVE  \E d \in Conns : job'[d].at = "uncoding" /\ job'[d].code = k
      BY <2>1
    <3>1. PICK d \in Conns : job[d].at = "uncoding" /\ job[d].code = k
      BY <1>d
    <3>2. job'[d] = job[d]
      BY <2>2, <3>1 DEF Removers
    <3> QED
      BY <3>1, <3>2
  <2>6. CodesAreTheirs'
    BY <1>a, <1>b, <1>c, <2>1 DEF CodesAreTheirs
  <2>7. RemoversOwnTheirCode'
    <3> SUFFICES ASSUME NEW d \in Removers', job'[d].code \notin clashed
                 PROVE  job'[d].code \in DOMAIN lobby_codes
                        /\ lobby_codes[job'[d].code] = job'[d].lobby
      BY <2>1 DEF RemoversOwnTheirCode
    <3>1. CASE d \in Removers
      BY <1>a, <2>2, <3>1 DEF RemoversOwnTheirCode
    <3>2. CASE d = c /\ EmptyLobby(c)
      BY <1>d, <2>3, <3>2
    <3> QED
      BY <2>2, <3>1, <3>2
  <2>8. OneRemoverEach'
    <3>1. ASSUME NEW d \in Removers, EmptyLobby(c) PROVE job[d].lobby # l
      <4>1. CASE job[d].at = "unlisting"
        BY <1>a, <2>2, <2>3, <3>1, <4>1 DEF HostsEndLobbies, Removers
      <4>2. CASE job[d].at = "uncoding"
        BY <1>d, <2>3, <3>1, <4>2
      <4> QED
        BY <4>1, <4>2 DEF Removers
    <3> QED
      BY <1>a, <2>2, <2>3, <3>1 DEF OneRemoverEach
  <2> QED
    BY <1>a, <2>4, <2>5, <2>6, <2>7, <2>8 DEF CodesInv, CodesLeadHome
<1> QED
  BY <1>1, <1>2, <1>3, <1>4

LEMMA CodesInvariant == Spec => []CodesInv
<1>1. CodesInv /\ [Next]_vars => CodesInv'
  <2> SUFFICES ASSUME CodesInv, [Next]_vars PROVE CodesInv'
    OBVIOUS
  <2>1. CASE Next
    BY <2>1, StepCodes DEF Next
  <2>2. CASE UNCHANGED vars
    BY <2>2 DEF CodesInv, SoundInv, MembershipInv, TypeOK, MembersPointBack,
                HandlesPointIn, FramesAimRight, Standing, Enders, MembersDeclared,
                Declared, HostsEndLobbies, LobbyIsSound, CodesLeadHome, CodesAreTheirs,
                RemoversOwnTheirCode, OneRemoverEach, Removers, vars, handles
  <2> QED
    BY <2>1, <2>2
<1> QED
  BY <1>1, InitCodes, PTL DEF Spec

\* A code nobody else drew at the same time leads to its lobby for as long as
\* the lobby stands, and to no other: create_lobby and the end of a lobby write
\* the two maps one after the other.
THEOREM CodesStayRight == Spec => []CodesLeadHome
<1>1. CodesInv => CodesLeadHome
  BY DEF CodesInv
<1> QED
  BY <1>1, CodesInvariant, PTL
------------------------------------------------------------------------------
\* The messages queued for a member add up to its lobby

\* A connection was told of a lobby that exists or did, once it has declared.
ToldOfDrawn ==
  \A c \in Conns : /\ told[c].lobby \in drawn \cup {None}
                   /\ c \notin Declared => told[c].lobby = None

RosterInv == SoundInv /\ ToldOfDrawn /\ RosterAgrees

\* What RosterAgrees asks of one connection and one lobby.
Seen(x, n) ==
  [lobby |-> n, host |-> lobbies[n].host, peers |-> Range(lobbies[n].members) \ {x},
   migratable |-> lobbies[n].host_migration /\ migrates[x],
   request |-> entered_by[x]]
IsTold(x, n) ==
  /\ told[x].lobby = n => x \in Range(lobbies[n].members)
  /\ x \in Range(lobbies[n].members) => told[x] = Seen(x, n)

LEMMA RosterByPairs ==
  RosterAgrees <=> \A x \in Open \ struck, n \in Standing : IsTold(x, n)
BY DEF RosterAgrees, IsTold, Seen

\* A connection that no late disconnect has hit is listed where its handle
\* says, and nowhere else.
LEMMA ListedOnce ==
  ASSUME MembershipInv, NEW x \in Conns \ struck, NEW n \in DOMAIN lobbies,
         x \in Range(lobbies[n].members)
  PROVE  lobby_id[x] = n
BY DEF MembershipInv, MembersPointBack

\* What a step makes of what a connection was told: it enters, is told that it
\* is nowhere, or stays with the lobby and the promise it had.
LEMMA ToldStep ==
  ASSUME TypeOK, NEW c \in Conns, Continue(c) \/ Arrive(c), NEW x \in Conns
  PROVE  \/ told'[x] = Nowhere
         \/ /\ told'[x].lobby = told[x].lobby
            /\ told'[x].migratable = told[x].migratable
         \/ /\ x = c /\ InsertLobby(c)
            /\ told'[c].lobby \in drawn'
            /\ told'[c].migratable = migrates[c]
         \/ /\ x = c /\ EnterLobby(c)
            /\ told'[c].lobby = job[c].lobby
            /\ told'[c].migratable = (lobbies[job[c].lobby].host_migration /\ migrates[c])
<1>a. /\ told \in [Conns -> View] /\ told[x] \in View
      /\ \A v \in View : \A y, l, h, s :
           /\ HearsPlayerJoined(v, y).lobby = v.lobby
           /\ HearsPlayerJoined(v, y).migratable = v.migratable
           /\ HearsPlayerLeft(v, y).lobby = v.lobby
           /\ HearsPlayerLeft(v, y).migratable = v.migratable
           /\ HearsHostChanged(v, l, h, s).lobby = v.lobby
           /\ HearsHostChanged(v, l, h, s).migratable = v.migratable
  BY DEF TypeOK, View, HearsPlayerJoined, HearsPlayerLeft, HearsHostChanged
<1>1. CASE InsertLobby(c)
  <2>1. PICK l \in LobbyIds \ drawn, r \in Requests \cup {None} :
          /\ told' = [told EXCEPT ![c] =
               [lobby |-> l, host |-> c, peers |-> {},
                migratable |-> migrates[c], request |-> r]]
          /\ drawn' = drawn \cup {l}
    BY <1>1 DEF InsertLobby
  <2> QED
    BY <1>1, <1>a, <2>1
<1>2. CASE EnterLobby(c)
  <2> DEFINE inside == Range(lobbies[job[c].lobby].members)
  <2>1. PICK r \in Requests \cup {None} : told' = [y \in Conns |->
          IF y = c
          THEN [lobby |-> job[c].lobby, host |-> lobbies[job[c].lobby].host,
                peers |-> inside,
                migratable |-> lobbies[job[c].lobby].host_migration /\ migrates[c],
                request |-> r]
          ELSE IF y \in inside \cap Open
          THEN HearsPlayerJoined(told[y], c) ELSE told[y]]
    BY <1>2, Zenon DEF EnterLobby
  <2> HIDE DEF inside
  <2>2. CASE x = c
    BY <1>2, <2>1, <2>2
  <2>3. CASE x # c
    BY <1>a, <2>1, <2>3
  <2> QED
    BY <2>2, <2>3
<1>3. CASE DepartFromNothing(c) \/ EmptyLobby(c)
  <2>1. told' = [told EXCEPT ![c] = Nowhere]
    BY <1>3 DEF DepartFromNothing, EmptyLobby
  <2> QED
    BY <1>a, <2>1
<1>4. CASE DepartAsMember(c)
  <2>1. told'[x] \in {Nowhere, HearsPlayerLeft(told[x], c), told[x]}
    BY <1>4 DEF DepartAsMember
  <2> QED
    BY <1>a, <2>1
<1>5. CASE HandOver(c)
  <2>1. PICK h, s : told'[x] \in {Nowhere, HearsHostChanged(told[x], job[c].lobby, h, s), told[x]}
    BY <1>5 DEF HandOver
  <2> QED
    BY <1>a, <2>1
<1>6. CASE TellDisconnected(c)
  <2>1. \/ UNCHANGED told
        \/ \E y : told' = [told EXCEPT ![y] = Nowhere]
    BY <1>6 DEF TellDisconnected
  <2> QED
    BY <1>a, <2>1
<1>7. ASSUME ~InsertLobby(c), ~EnterLobby(c), ~DepartFromNothing(c), ~EmptyLobby(c),
             ~DepartAsMember(c), ~HandOver(c), ~TellDisconnected(c)
      PROVE  UNCHANGED told
  BY <1>7 DEF Continue, Arrive, Authenticate, Declare, SetDisplayName, CreateLobby,
              JoinLobby, JoinLobbyByCode, RefuseJoin, StartToDepart, LeaveLobby,
              CloseLobby, CancelRequest, EndConnection, IgnoreClose, RenameLobby,
              RemoveLobby, RemoveCode, ClearDisconnected, FinishDisconnecting
<1> QED
  BY <1>1, <1>2, <1>3, <1>4, <1>5, <1>6, <1>7

LEMMA StepToldOfDrawn ==
  ASSUME SoundInv, ToldOfDrawn, NEW c \in Conns, Continue(c) \/ Arrive(c)
  PROVE  ToldOfDrawn'
<1>a. TypeOK /\ MembershipInv
  BY DEF SoundInv, MembershipInv
<1>b. Declared \subseteq Declared' /\ drawn \subseteq drawn'
  BY <1>a, DeclaredStep, CodesStep
<1>c. Nowhere.lobby = None
  BY DEF Nowhere
<1> SUFFICES ASSUME NEW x \in Conns
             PROVE  /\ told'[x].lobby \in drawn' \cup {None}
                    /\ x \notin Declared' => told'[x].lobby = None
  BY DEF ToldOfDrawn
<1>1. CASE told'[x] = Nowhere
  BY <1>1, <1>c
<1>2. CASE told'[x].lobby = told[x].lobby
  BY <1>2, <1>b DEF ToldOfDrawn
<1>3. CASE x = c /\ InsertLobby(c) /\ told'[c].lobby \in drawn'
  <2>1. c \in Declared
    BY <1>3 DEF InsertLobby, Declared
  <2> QED
    BY <1>3, <1>b, <2>1
<1>4. CASE x = c /\ EnterLobby(c) /\ told'[c].lobby = job[c].lobby
  <2>1. c \in Declared /\ job[c].lobby \in DOMAIN lobbies
    BY <1>4 DEF EnterLobby, MayEnter, Declared
  <2> QED
    BY <1>4, <1>a, <1>b, <2>1 DEF TypeOK
<1> QED
  BY <1>a, <1>1, <1>2, <1>3, <1>4, ToldStep

LEMMA StepRoster ==
  ASSUME RosterInv, NEW c \in Conns, Continue(c) \/ Arrive(c)
  PROVE  RosterAgrees'
<1> DEFINE l == job[c].lobby
<1>a. /\ SoundInv /\ SoundInv' /\ MembershipInv /\ MembershipInv' /\ TypeOK /\ TypeOK'
      /\ FramesAimRight /\ MembersDeclared /\ HostsEndLobbies /\ ToldOfDrawn
      /\ \A x \in Open \ struck, n \in Standing : IsTold(x, n)
  BY StepSound, RosterByPairs DEF RosterInv, SoundInv, MembershipInv
<1>b. /\ StageOf(c) /\ \A d \in Conns \ {c} : job'[d] = job[d]
      /\ \A n \in DOMAIN lobbies \cap Standing' : n \in Standing
      /\ Declared \subseteq Declared'
      /\ \A x \in Declared : migrates'[x] = migrates[x]
      /\ \A x \in Declared \cap Open' : x \in Open
      /\ struck \subseteq struck' /\ drawn \subseteq drawn'
  <2>1. struck \subseteq struck'
    BY DEF Continue, Arrive, Authenticate, Declare, SetDisplayName, CreateLobby,
         JoinLobby, JoinLobbyByCode, RefuseJoin, StartToDepart, LeaveLobby,
         CloseLobby, CancelRequest, EndConnection, DepartFromNothing, IgnoreClose,
         RemoveCode, TellDisconnected, ClearDisconnected, FinishDisconnecting,
         RenameLobby, InsertLobby, EnterLobby, DepartAsMember, HandOver, EmptyLobby,
         RemoveLobby
  <2> QED
    BY <1>a, <2>1, StageStep, StandingOnlyEnds, DeclaredStep, CodesStep
<1>c. /\ \A n \in DOMAIN lobbies' \cap DOMAIN lobbies :
           /\ lobbies'[n].host_migration = lobbies[n].host_migration
           /\ lobbies'[n].host # lobbies[n].host => n = l /\ HandOver(c)
           /\ lobbies'[n].members # lobbies[n].members =>
                /\ n = l
                /\ EnterLobby(c) \/ DepartAsMember(c) \/ HandOver(c) \/ EmptyLobby(c)
      /\ DOMAIN lobbies' # DOMAIN lobbies => InsertLobby(c) \/ RemoveLobby(c)
  BY <1>a, LobbiesStep
<1>d. /\ None \notin LobbyIds /\ None \notin DOMAIN lobbies
      /\ told \in [Conns -> View] /\ entered_by \in [Conns -> Requests \cup {None}]
      /\ Standing \subseteq DOMAIN lobbies /\ Standing' \subseteq DOMAIN lobbies'
      /\ Open \subseteq Conns /\ Open' \subseteq Conns
      /\ DOMAIN lobbies \subseteq drawn /\ drawn \subseteq LobbyIds
      /\ Nowhere.lobby = None
  BY <1>a, NoneAssumption DEF TypeOK, Standing, Open, Nowhere
<1> HIDE DEF l
<1> SUFFICES ASSUME NEW x \in Open' \ struck', NEW n \in Standing'
             PROVE  IsTold(x, n)'
  BY RosterByPairs DEF RosterAgrees, IsTold, Seen
\* Whoever was told of a lobby, or is in one, was there before this step.
<1>e. ASSUME n \in DOMAIN lobbies
      PROVE  /\ n \in Standing
             /\ told[x].lobby = n \/ x \in Range(lobbies[n].members) =>
                  /\ x \in Declared /\ x \in Open \ struck
                  /\ migrates'[x] = migrates[x]
                  /\ x \in Range(lobbies[n].members) /\ told[x] = Seen(x, n)
                  /\ lobby_id[x] = n
  <2>1. n \in Standing
    BY <1>b, <1>e
  <2> SUFFICES ASSUME told[x].lobby = n \/ x \in Range(lobbies[n].members)
               PROVE  /\ x \in Declared /\ x \in Open \ struck
                      /\ migrates'[x] = migrates[x]
                      /\ x \in Range(lobbies[n].members) /\ told[x] = Seen(x, n)
                      /\ lobby_id[x] = n
    BY <2>1
  <2>2. x \in Declared
    BY <1>a, <1>d, <1>e DEF ToldOfDrawn, MembersDeclared
  <2>3. x \in Open \ struck /\ migrates'[x] = migrates[x]
    BY <1>b, <2>2
  <2>4. x \in Range(lobbies[n].members) /\ told[x] = Seen(x, n)
    BY <1>a, <2>1, <2>3 DEF IsTold
  <2> QED
    BY <1>a, <1>d, <1>e, <2>2, <2>3, <2>4, ListedOnce
\* A connection told nothing by this step, about a lobby that stays as it is.
<1>f. ASSUME n \in DOMAIN lobbies, told'[x] = told[x],
             lobbies'[n].members = lobbies[n].members,
             lobbies'[n].host = lobbies[n].host,
             entered_by'[x] = entered_by[x]
      PROVE  IsTold(x, n)'
  <2>1. lobbies'[n].host_migration = lobbies[n].host_migration
    BY <1>c, <1>d, <1>f
  <2>2. told'[x].lobby = n => x \in Range(lobbies'[n].members)
    BY <1>e, <1>f
  <2>3. ASSUME x \in Range(lobbies'[n].members) PROVE told'[x] = Seen(x, n)'
    <3>1. told[x] = Seen(x, n) /\ migrates'[x] = migrates[x]
      BY <1>e, <1>f, <2>3
    <3> QED
      BY <1>f, <2>1, <3>1 DEF Seen
  <2> QED
    BY <2>2, <2>3 DEF IsTold
\* A connection that is in no lobby of the map after this step.
<1>g. ASSUME x \notin Range(lobbies'[n].members), told'[x].lobby # n
      PROVE  IsTold(x, n)'
  BY <1>g DEF IsTold
<1>1. CASE InsertLobby(c)
  <2>1. PICK m \in LobbyIds \ drawn, asked \in RequestedSizes,
             r \in Requests \cup {None} :
          /\ DOMAIN lobbies' = DOMAIN lobbies \cup {m} /\ m \notin DOMAIN lobbies
          /\ \A k \in DOMAIN lobbies : lobbies'[k] = lobbies[k]
          /\ lobbies'[m] = NewLobby(c, asked)
          /\ DOMAIN lobby_codes' = DOMAIN lobby_codes \cup {job[c].code}
          /\ lobby_codes'[job[c].code] = m
          /\ \A k \in DOMAIN lobby_codes \ {job[c].code} :
               lobby_codes'[k] = lobby_codes[k]
          /\ entered_by' = [entered_by EXCEPT ![c] = r]
          /\ told' = [told EXCEPT ![c] =
               [lobby |-> m, host |-> c, peers |-> {},
                migratable |-> migrates[c], request |-> r]]
          /\ drawn' = drawn \cup {m}
    BY <1>1, <1>a, Inserting, Zenon
  <2>2. lobby_id[c] = None /\ job[c].at = "creating" /\ UNCHANGED migrates
    BY <1>1, <1>a DEF InsertLobby, FramesAimRight
  <2>3. /\ lobbies'[m].host = c /\ lobbies'[m].host_migration = migrates[c]
        /\ lobbies'[m].members = <<c>> /\ Range(<<c>>) = {c}
    <3>1. lobbies'[m].members = <<c>> /\ lobbies'[m].host = c
          /\ lobbies'[m].host_migration = migrates[c]
      BY <2>1 DEF NewLobby
    <3> QED
      BY <3>1 DEF Range
  <2>4. CASE x = c /\ n = m
    <3>1. told'[c] = [lobby |-> m, host |-> c, peers |-> {},
                      migratable |-> migrates[c], request |-> r]
      BY <2>1, <1>d
    <3>2. entered_by'[c] = r
      BY <2>1, <1>d
    <3>3. migrates[c] \in BOOLEAN /\ Range(lobbies'[m].members) \ {c} = {}
      BY <2>3, <1>a DEF TypeOK
    <3>4. (lobbies'[m].host_migration /\ migrates'[c]) = migrates[c]
      BY <2>2, <2>3, <3>3
    <3>5. Seen(x, n)' = [lobby |-> m, host |-> c, peers |-> {},
                         migratable |-> migrates[c], request |-> r]
      BY <2>3, <2>4, <3>2, <3>3, <3>4, SMT DEF Seen
    <3> QED
      BY <2>3, <2>4, <3>1, <3>5 DEF IsTold
  <2>5. CASE x = c /\ n # m
    <3>1. n \in DOMAIN lobbies
      BY <2>1, <2>5, <1>d
    <3>2. x \notin Range(lobbies[n].members)
      BY <1>d, <1>e, <2>2, <2>5, <3>1
    <3>3. told'[x].lobby = m
      BY <2>1, <2>5, <1>d
    <3> QED
      BY <1>g, <2>1, <2>5, <3>1, <3>2, <3>3
  <2>6. CASE x # c /\ n = m
    <3>1. told'[x] = told[x] /\ told[x].lobby # m
      BY <1>a, <1>d, <2>1, <2>6 DEF ToldOfDrawn
    <3> QED
      BY <1>g, <2>3, <2>6, <3>1
  <2>7. CASE x # c /\ n # m
    BY <1>d, <1>f, <2>1, <2>7
  <2> QED
    BY <2>4, <2>5, <2>6, <2>7
<1>2. CASE EnterLobby(c)
  <2> DEFINE inside == Range(lobbies[l].members)
             lobby == lobbies[l]
  <2>1. PICK r \in Requests \cup {None} :
          /\ entered_by' = [entered_by EXCEPT ![c] = r]
          /\ told' = [y \in Conns |->
               IF y = c
               THEN [lobby |-> l, host |-> lobby.host, peers |-> inside,
                     migratable |-> lobby.host_migration /\ migrates[c],
                     request |-> r]
               ELSE IF y \in inside \cap Open
               THEN HearsPlayerJoined(told[y], c) ELSE told[y]]
    BY <1>2, Zenon DEF EnterLobby, l
  <2>2. /\ l \in DOMAIN lobbies /\ DOMAIN lobbies' = DOMAIN lobbies
        /\ Range(lobbies'[l].members) = inside \cup {c}
        /\ lobby_id[c] = None
    BY <1>2, <1>a, Entering DEF l
  <2>3. /\ n \in DOMAIN lobbies /\ lobbies'[n].host = lobbies[n].host
        /\ lobbies'[n].host_migration = lobbies[n].host_migration
        /\ n # l => lobbies'[n].members = lobbies[n].members
        /\ UNCHANGED migrates
    <3>1. ~HandOver(c) /\ UNCHANGED migrates
      BY <1>2, HandOverAlone DEF EnterLobby
    <3> QED
      BY <1>c, <1>d, <2>2, <3>1
  <2>4. c \notin struck' => c \notin Range(lobbies[n].members)
    BY <1>a, <1>b, <1>d, <2>2, <2>3, ListedOnce
  <2> HIDE DEF inside, lobby
  <2>5. CASE x = c /\ n = l
    <3>1. told'[c] = [lobby |-> l, host |-> lobby.host, peers |-> inside,
                      migratable |-> lobby.host_migration /\ migrates[c],
                      request |-> r]
      BY <2>1
    <3>2. entered_by'[c] = r
      BY <2>1, <1>d
    <3>3. Range(lobbies'[l].members) \ {c} = inside
      BY <2>2, <2>4, <2>5 DEF inside
    <3>4. Seen(x, n)' = told'[c]
      BY <2>3, <2>5, <3>1, <3>2, <3>3, SMT DEF Seen, lobby
    <3> QED
      BY <2>2, <2>5, <3>4 DEF IsTold
  <2>6. CASE x = c /\ n # l
    <3>1. told'[x].lobby = l
      BY <2>1, <2>6
    <3> QED
      BY <1>g, <2>3, <2>4, <2>6, <3>1
  <2>7. CASE x # c /\ n = l /\ x \in inside
    <3>1. /\ told[x] = Seen(x, l) /\ told[x].lobby = l /\ x \in Open
          /\ told[x].peers = inside \ {x} /\ told[x] \in View
      BY <1>d, <1>e, <2>3, <2>7 DEF inside, Seen
    <3>2. told'[x] = [told[x] EXCEPT !.peers = told[x].peers \cup {c}]
      BY <1>d, <2>1, <2>2, <2>7, <3>1 DEF HearsPlayerJoined
    <3>3. Range(lobbies'[l].members) \ {x} = told[x].peers \cup {c}
      BY <2>2, <2>7, <3>1
    <3>4. entered_by'[x] = entered_by[x]
      BY <1>d, <2>1, <2>7
    <3>5. told'[x] = [lobby |-> l, host |-> lobbies[l].host,
                      peers |-> told[x].peers \cup {c},
                      migratable |-> lobbies[l].host_migration /\ migrates[x],
                      request |-> entered_by[x]]
      BY <3>1, <3>2 DEF Seen
    <3>6. told'[x] = Seen(x, n)'
      BY <2>3, <2>7, <3>3, <3>4, <3>5, SMT DEF Seen
    <3> QED
      BY <2>2, <2>7, <3>6 DEF IsTold
  <2>8. CASE x # c /\ n = l /\ x \notin inside
    <3>1. told'[x] = told[x] /\ told[x].lobby # l
      BY <1>d, <1>e, <2>1, <2>3, <2>8 DEF inside
    <3>2. x \notin Range(lobbies'[n].members)
      BY <2>2, <2>8
    <3> QED
      BY <1>g, <2>8, <3>1, <3>2
  <2>9. CASE x # c /\ n # l /\ x \notin inside
    <3>1. told'[x] = told[x] /\ entered_by'[x] = entered_by[x]
      BY <1>d, <2>1, <2>9
    <3> QED
      BY <1>f, <2>3, <2>9, <3>1
  <2>10. CASE x # c /\ n # l /\ x \in inside
    <3>1. x \notin Range(lobbies[n].members) /\ told[x].lobby # n
      <4>1. lobby_id[x] = l
        BY <1>a, <1>b, <1>d, <2>2, <2>10, ListedOnce DEF inside
      <4> QED
        BY <1>e, <2>3, <2>10, <4>1
    <3>2. told'[x].lobby = told[x].lobby
      <4>1. told[x] \in View
        BY <1>d
      <4>2. told'[x] \in {told[x], HearsPlayerJoined(told[x], c)}
        BY <1>d, <2>1, <2>10
      <4> QED
        BY <4>1, <4>2 DEF HearsPlayerJoined, View
    <3> QED
      BY <1>g, <2>3, <2>10, <3>1, <3>2
  <2> QED
    BY <2>5, <2>6, <2>7, <2>8, <2>9, <2>10
<1>3. CASE DepartFromNothing(c)
  <2>1. /\ told' = [told EXCEPT ![c] = Nowhere] /\ UNCHANGED lobbies
        /\ l \notin DOMAIN lobbies /\ lobby_id[c] \in {l, None}
        /\ entered_by' = [entered_by EXCEPT ![c] = None]
    BY <1>3, <1>a DEF DepartFromNothing, FramesAimRight, Forget, l
  <2>2. n \in DOMAIN lobbies
    BY <1>d, <2>1
  <2>3. CASE x = c
    <3>1. x \notin Range(lobbies[n].members)
      BY <1>d, <1>e, <2>1, <2>2, <2>3
    <3>2. told'[x].lobby = None
      BY <1>d, <2>1, <2>3
    <3> QED
      BY <1>d, <1>g, <2>1, <2>2, <3>1, <3>2
  <2>4. CASE x # c
    BY <1>d, <1>f, <2>1, <2>2, <2>4
  <2> QED
    BY <2>3, <2>4
<1>4. CASE DepartAsMember(c)
  <2> DEFINE rest == Range(lobbies[l].members) \ {c}
  <2>1. /\ l \in DOMAIN lobbies /\ DOMAIN lobbies' = DOMAIN lobbies
        /\ Range(lobbies'[l].members) = rest
        /\ Range(Retain(lobbies[l].members, Conns \ {c})) = rest
    BY <1>4, <1>a, DepartingMember DEF l
  <2>2. /\ told' = [y \in Conns |->
             IF y = c THEN Nowhere
             ELSE IF y \in rest \cap Open
             THEN HearsPlayerLeft(told[y], c) ELSE told[y]]
        /\ entered_by' = [entered_by EXCEPT ![c] = None]
        /\ lobby_id[c] \in {l, None} /\ UNCHANGED migrates
    <3> HIDE DEF rest
    <3> QED
      BY <1>4, <1>a, <2>1 DEF DepartAsMember, Forget, FramesAimRight, l
  <2>3. /\ n \in DOMAIN lobbies /\ lobbies'[n].host = lobbies[n].host
        /\ lobbies'[n].host_migration = lobbies[n].host_migration
        /\ n # l => lobbies'[n].members = lobbies[n].members
    <3>1. ~HandOver(c)
      BY <1>4, HandOverAlone
    <3> QED
      BY <1>c, <1>d, <2>1, <3>1
  <2> HIDE DEF rest
  <2>4. CASE x = c
    <3>1. told'[x].lobby = None
      BY <1>d, <2>2, <2>4
    <3>2. x \notin Range(lobbies'[n].members)
      <4>1. CASE n = l
        BY <2>1, <2>4, <4>1 DEF rest
      <4>2. CASE n # l
        BY <1>d, <1>e, <2>2, <2>3, <2>4, <4>2
      <4> QED
        BY <4>1, <4>2
    <3> QED
      BY <1>d, <1>g, <2>3, <3>1, <3>2
  <2>5. CASE x # c /\ n = l /\ x \in rest
    <3>1. /\ told[x] = Seen(x, l) /\ x \in Open /\ told[x] \in View
          /\ told[x].peers = Range(lobbies[l].members) \ {x}
      BY <1>d, <1>e, <2>3, <2>5 DEF rest, Seen
    <3>2. told'[x] = [told[x] EXCEPT !.peers = told[x].peers \ {c}]
      BY <1>d, <2>2, <2>5, <3>1 DEF HearsPlayerLeft
    <3>3. Range(lobbies'[l].members) \ {x} = told[x].peers \ {c}
      BY <2>1, <3>1 DEF rest
    <3>4. entered_by'[x] = entered_by[x]
      BY <1>d, <2>2, <2>5
    <3>5. told'[x] = [lobby |-> l, host |-> lobbies[l].host,
                      peers |-> told[x].peers \ {c},
                      migratable |-> lobbies[l].host_migration /\ migrates[x],
                      request |-> entered_by[x]]
      BY <3>1, <3>2 DEF Seen
    <3>6. told'[x] = Seen(x, n)'
      <4>1. n = l /\ migrates'[x] = migrates[x]
        BY <2>2, <2>5
      <4>2. /\ lobbies'[n].host = lobbies[l].host
            /\ lobbies'[n].host_migration = lobbies[l].host_migration
            /\ Range(lobbies'[n].members) \ {x} = told[x].peers \ {c}
        BY <2>3, <3>3, <4>1
      <4> QED
        BY <3>4, <3>5, <4>1, <4>2, SMTT(30) DEF Seen
    <3> QED
      <4>1. x \in Range(lobbies'[n].members)
        BY <2>1, <2>5
      <4> QED
        BY <3>6, <4>1 DEF IsTold
  <2>6. CASE x # c /\ n = l /\ x \notin rest
    <3>1. told'[x] = told[x] /\ told[x].lobby # l
      BY <1>d, <1>e, <2>2, <2>3, <2>6 DEF rest
    <3>2. x \notin Range(lobbies'[n].members)
      BY <2>1, <2>6
    <3> QED
      BY <1>g, <2>6, <3>1, <3>2
  <2>7. CASE x # c /\ n # l /\ x \notin rest
    <3>1. told'[x] = told[x] /\ entered_by'[x] = entered_by[x]
      BY <1>d, <2>2, <2>7
    <3> QED
      BY <1>f, <2>3, <2>7, <3>1
  <2>8. CASE x # c /\ n # l /\ x \in rest
    <3>1. x \notin Range(lobbies[n].members) /\ told[x].lobby # n
      <4>1. lobby_id[x] = l
        BY <1>a, <1>b, <1>d, <2>1, <2>8, ListedOnce DEF rest
      <4> QED
        BY <1>e, <2>3, <2>8, <4>1
    <3>2. told'[x].lobby = told[x].lobby
      <4>1. told[x] \in View
        BY <1>d
      <4>2. told'[x] \in {told[x], HearsPlayerLeft(told[x], c)}
        BY <1>d, <2>2, <2>8
      <4> QED
        BY <4>1, <4>2 DEF HearsPlayerLeft, View
    <3> QED
      BY <1>g, <2>3, <2>8, <3>1, <3>2
  <2> QED
    BY <2>4, <2>5, <2>6, <2>7, <2>8
<1>5. CASE HandOver(c)
  <2> DEFINE behind == Range(lobbies[l].members) \ {c}
             followers == behind \cap Declaring
             stranded == behind \ Declaring
             heir == Head(Followers(c))
  <2>1. /\ l \in DOMAIN lobbies /\ DOMAIN lobbies' = DOMAIN lobbies
        /\ Range(lobbies'[l].members) = followers /\ lobbies'[l].host = heir
        /\ Range(LeftBehind(c)) = behind /\ Range(Followers(c)) = followers
    BY <1>5, <1>a, HandingOver DEF l
  <2>2. /\ told' = [y \in Conns |->
             IF y = c \/ y \in stranded \cap Open THEN Nowhere
             ELSE IF y \in followers
             THEN HearsHostChanged(told[y], l, heir, followers \ {y}) ELSE told[y]]
        /\ entered_by' = [y \in Conns |->
             IF y \in stranded \cup {c} THEN None ELSE entered_by[y]]
        /\ lobby_id[c] \in {l, None} /\ UNCHANGED migrates
    <3>1. Range(LeftBehind(c)) \ Declaring = stranded
      BY <2>1
    <3> HIDE DEF followers, stranded
    <3> QED
      BY <1>5, <1>a, <2>1, <3>1 DEF HandOver, FramesAimRight, l
  <2>3. /\ n \in DOMAIN lobbies
        /\ lobbies'[n].host_migration = lobbies[n].host_migration
        /\ n # l => /\ lobbies'[n].members = lobbies[n].members
                    /\ lobbies'[n].host = lobbies[n].host
    BY <1>c, <1>d, <2>1
  <2> HIDE DEF heir, behind, followers, stranded
  <2>4. CASE x = c
    <3>1. told'[x].lobby = None
      BY <1>d, <2>2, <2>4
    <3>2. x \notin Range(lobbies'[n].members)
      <4>1. CASE n = l
        BY <2>1, <2>4, <4>1 DEF followers, behind
      <4>2. CASE n # l
        BY <1>d, <1>e, <2>2, <2>3, <2>4, <4>2
      <4> QED
        BY <4>1, <4>2
    <3> QED
      BY <1>d, <1>g, <2>3, <3>1, <3>2
  <2>5. CASE x # c /\ n = l /\ x \in followers
    <3>1. /\ told[x] = Seen(x, l) /\ x \in Conns /\ told[x] \in View
          /\ told[x].lobby = l
      BY <1>d, <1>e, <2>3, <2>5 DEF Seen, followers, behind
    <3>2. told'[x] = [told[x] EXCEPT !.host = heir, !.peers = followers \ {x}]
      <4>1. x \notin stranded
        BY <2>5 DEF stranded, followers
      <4> QED
        BY <2>2, <2>5, <3>1, <4>1 DEF HearsHostChanged
    <3>3. entered_by'[x] = entered_by[x]
      BY <1>d, <2>2, <2>5, <3>1 DEF stranded, followers
    <3>4. told'[x] = [lobby |-> l, host |-> heir, peers |-> followers \ {x},
                      migratable |-> lobbies[l].host_migration /\ migrates[x],
                      request |-> entered_by[x]]
      <4>1. told[x] = [lobby |-> l, host |-> lobbies[l].host,
                       peers |-> Range(lobbies[l].members) \ {x},
                       migratable |-> lobbies[l].host_migration /\ migrates[x],
                       request |-> entered_by[x]]
        BY <3>1, Zenon DEF Seen
      <4>2. /\ told'[x].lobby = told[x].lobby /\ told'[x].migratable = told[x].migratable
            /\ told'[x].request = told[x].request
            /\ told'[x].host = heir /\ told'[x].peers = followers \ {x}
        BY <3>1, <3>2 DEF View
      <4>3. told'[x] \in View
        BY <1>a, <3>1 DEF TypeOK
      <4>4. told'[x] = [lobby |-> told'[x].lobby, host |-> told'[x].host,
                        peers |-> told'[x].peers, migratable |-> told'[x].migratable,
                        request |-> told'[x].request]
        BY <4>3 DEF View
      <4>5. /\ told[x].lobby = l /\ told[x].request = entered_by[x]
            /\ told[x].migratable = (lobbies[l].host_migration /\ migrates[x])
        BY <4>1
      <4> QED
        BY <4>2, <4>4, <4>5, Zenon
    <3>5. told'[x] = Seen(x, n)'
      BY <2>1, <2>2, <2>3, <2>5, <3>3, <3>4, SMT DEF Seen
    <3> QED
      BY <2>1, <2>5, <3>5 DEF IsTold
  <2>6. CASE x # c /\ n = l /\ x \notin followers
    <3>1. x \notin Range(lobbies'[n].members)
      BY <2>1, <2>6
    <3>2. CASE x \in Range(lobbies[l].members)
      <4>1. x \in stranded \cap Open
        BY <1>d, <1>e, <2>3, <2>6, <3>2 DEF stranded, followers, behind
      <4>2. told'[x] = Nowhere
        BY <1>d, <2>2, <4>1
      <4> QED
        BY <1>d, <1>g, <2>3, <3>1, <4>2
    <3>3. CASE x \notin Range(lobbies[l].members)
      <4>1. told'[x] = told[x] /\ told[x].lobby # l
        BY <1>d, <1>e, <2>2, <2>3, <2>6, <3>3 DEF stranded, behind
      <4> QED
        BY <1>g, <2>6, <3>1, <4>1
    <3> QED
      BY <3>2, <3>3
  <2>7. CASE x # c /\ n # l /\ x \in Range(lobbies[l].members)
    <3>1. x \notin Range(lobbies[n].members) /\ told[x].lobby # n
      <4>1. lobby_id[x] = l
        BY <1>a, <1>b, <1>d, <2>1, <2>7, ListedOnce
      <4> QED
        BY <1>e, <2>3, <2>7, <4>1
    <3>2. told'[x].lobby \in {told[x].lobby, None}
      <4>1. told[x] \in View
        BY <1>d
      <4>2. \/ told'[x] \in {told[x], Nowhere}
            \/ \E v : told'[x] = HearsHostChanged(told[x], l, heir, v)
        BY <1>d, <2>2, <2>7
      <4> QED
        BY <1>d, <4>1, <4>2 DEF HearsHostChanged, View
    <3> QED
      BY <1>d, <1>g, <2>3, <2>7, <3>1, <3>2
  <2>8. CASE x # c /\ n # l /\ x \notin Range(lobbies[l].members)
    <3>1. told'[x] = told[x] /\ entered_by'[x] = entered_by[x]
      BY <1>d, <2>2, <2>8 DEF stranded, followers, behind
    <3> QED
      BY <1>f, <2>3, <2>8, <3>1
  <2> QED
    BY <2>4, <2>5, <2>6, <2>7, <2>8
<1>6. CASE EmptyLobby(c)
  <2>1. /\ DOMAIN lobbies' = DOMAIN lobbies
        /\ job'[c].at = "unlisting" /\ job'[c].lobby = l
    BY <1>6, <1>a, Emptying DEF l
  <2>2. /\ told' = [told EXCEPT ![c] = Nowhere] /\ lobby_id[c] \in {l, None}
        /\ entered_by' = [entered_by EXCEPT ![c] = None]
    BY <1>6, <1>a DEF EmptyLobby, FramesAimRight, Forget, l
  <2>3. n \in DOMAIN lobbies /\ n # l
    BY <2>1, <1>d DEF Standing
  <2>4. lobbies'[n].members = lobbies[n].members /\ lobbies'[n].host = lobbies[n].host
    BY <1>c, <1>d, <2>3
  <2>5. CASE x = c
    <3>1. x \notin Range(lobbies[n].members)
      BY <1>d, <1>e, <2>2, <2>3, <2>5
    <3>2. told'[x].lobby = None
      BY <1>d, <2>2, <2>5
    <3> QED
      BY <1>d, <1>g, <2>3, <2>4, <3>1, <3>2
  <2>6. CASE x # c
    BY <1>d, <1>f, <2>2, <2>3, <2>4, <2>6
  <2> QED
    BY <2>5, <2>6
<1>7. CASE TellDisconnected(c)
  <2> DEFINE y == Head(job[c].left)
  <2>1. /\ UNCHANGED <<lobbies, entered_by>>
        /\ l \notin DOMAIN lobbies
        /\ told' = IF y \in Open THEN [told EXCEPT ![y] = Nowhere] ELSE told
        /\ y \in Open /\ told[y].lobby \notin {None, l} => y \in struck'
    BY <1>7, <1>a DEF TellDisconnected, handles, FramesAimRight, Enders, l
  <2> HIDE DEF y
  <2>2. n \in DOMAIN lobbies
    BY <1>d, <2>1
  <2>3. CASE x = y /\ y \in Open
    <3>1. told[x].lobby \in {None, l}
      BY <2>1, <2>3
    <3>2. x \notin Range(lobbies[n].members)
      <4>1. SUFFICES ASSUME x \in Range(lobbies[n].members) PROVE FALSE
        OBVIOUS
      <4>2. told[x].lobby = n
        BY <1>e, <2>2, <4>1 DEF Seen
      <4> QED
        BY <1>d, <2>1, <2>2, <3>1, <4>2
    <3>3. told'[x].lobby = None
      BY <1>d, <2>1, <2>3
    <3> QED
      BY <1>d, <1>g, <2>1, <2>2, <3>2, <3>3
  <2>4. CASE ~(x = y /\ y \in Open)
    BY <1>d, <1>f, <2>1, <2>2, <2>4
  <2> QED
    BY <2>3, <2>4
<1>8. CASE ClearDisconnected(c)
  <2> DEFINE y == Head(job[c].left)
  <2>1. /\ UNCHANGED <<lobbies, told>>
        /\ l \notin DOMAIN lobbies
        /\ entered_by' = [entered_by EXCEPT ![y] = None]
        /\ lobby_id[y] \notin {None, l} => y \in struck'
    BY <1>8, <1>a DEF ClearDisconnected, Forget, FramesAimRight, Enders, l
  <2> HIDE DEF y
  <2>2. n \in DOMAIN lobbies
    BY <1>d, <2>1
  <2>3. CASE x = y
    <3>1. lobby_id[x] \in {None, l}
      BY <2>1, <2>3
    <3>2. x \notin Range(lobbies[n].members) /\ told[x].lobby # n
      BY <1>d, <1>e, <2>1, <2>2, <3>1
    <3> QED
      BY <1>g, <2>1, <3>2
  <2>4. CASE x # y
    BY <1>d, <1>f, <2>1, <2>2, <2>4
  <2> QED
    BY <2>3, <2>4
<1>9. CASE /\ ~InsertLobby(c) /\ ~EnterLobby(c) /\ ~DepartFromNothing(c)
           /\ ~DepartAsMember(c) /\ ~HandOver(c) /\ ~EmptyLobby(c)
           /\ ~TellDisconnected(c) /\ ~ClearDisconnected(c)
  <2>1. UNCHANGED <<told, entered_by>>
    BY <1>9 DEF Continue, Arrive, Authenticate, Declare, SetDisplayName, CreateLobby,
              JoinLobby, JoinLobbyByCode, RefuseJoin, StartToDepart, LeaveLobby,
              CloseLobby, CancelRequest, EndConnection, IgnoreClose, RenameLobby,
              RemoveLobby, RemoveCode, FinishDisconnecting, handles
  <2>2. n \in DOMAIN lobbies
    <3>1. CASE RemoveLobby(c)
      BY <1>d, <3>1 DEF RemoveLobby, Del
    <3>2. CASE ~RemoveLobby(c)
      BY <1>9, <1>c, <1>d, <3>2
    <3> QED
      BY <3>1, <3>2
  <2>3. lobbies'[n].members = lobbies[n].members /\ lobbies'[n].host = lobbies[n].host
    BY <1>9, <1>c, <1>d, <2>2
  <2> QED
    BY <1>f, <2>1, <2>2, <2>3
<1> QED
  BY <1>1, <1>2, <1>3, <1>4, <1>5, <1>6, <1>7, <1>8, <1>9

LEMMA RosterInvariant == Spec => []RosterInv
<1>1. Init => RosterInv
  <2> SUFFICES ASSUME Init PROVE RosterInv
    OBVIOUS
  <2>1. SoundInv
    BY InitSound
  <2>2. ToldOfDrawn /\ DOMAIN lobbies = {}
    BY DEF Init, ToldOfDrawn, Nowhere
  <2> QED
    BY <2>1, <2>2 DEF RosterInv, RosterAgrees, Standing
<1>2. RosterInv /\ [Next]_vars => RosterInv'
  <2> SUFFICES ASSUME RosterInv, [Next]_vars PROVE RosterInv'
    OBVIOUS
  <2>1. ASSUME NEW c \in Conns, Continue(c) \/ Arrive(c) PROVE RosterInv'
    BY <2>1, StepSound, StepToldOfDrawn, StepRoster DEF RosterInv
  <2>2. CASE UNCHANGED vars
    <3>1. SoundInv'
      BY <2>2, SoundStutters DEF RosterInv
    <3>2. ToldOfDrawn' /\ RosterAgrees'
      BY <2>2 DEF RosterInv, ToldOfDrawn, RosterAgrees, Declared, Open, Standing,
                  vars, handles
    <3> QED
      BY <3>1, <3>2 DEF RosterInv
  <2> QED
    BY <2>1, <2>2 DEF Next
<1> QED
  BY <1>1, <1>2, PTL DEF Spec

\* The messages queued for a connection add up to the lobby that stands:
\* whatever joins, departures and host changes the tasks interleave, for any
\* number of connections and lobbies.
THEOREM RostersAgree == Spec => []RosterAgrees
BY RosterInvariant, PTL DEF RosterInv

------------------------------------------------------------------------------
\* LobbyMigratable is kept

Ending == {c \in Conns : job[c].at \in {"unlisting", "uncoding", "telling", "clearing"}}

\* Who was promised a lobby that survives its host can follow a new one, and
\* the lobby, as long as it is in the map, was created to survive.
PromisesAreMeant ==
  \A c \in Conns : told[c].migratable =>
    /\ told[c].lobby # None /\ migrates[c]
    /\ told[c].lobby \in DOMAIN lobbies => lobbies[told[c].lobby].host_migration

\* A lobby whose host left ends for its members in one of two cases: nobody left
\* behind can follow a new host, or it was never one that survives.
EndsBreakNoPromise ==
  \A d \in Ending : job[d].how # "Close" =>
    \/ Range(job[d].left) \subseteq Declared \ Declaring
    \/ /\ \A x \in Conns : told[x].lobby = job[d].lobby => ~told[x].migratable
       /\ job[d].at = "unlisting" => ~lobbies[job[d].lobby].host_migration

PromiseInv == SoundInv /\ ToldOfDrawn /\ PromisesAreMeant /\ EndsBreakNoPromise

\* The end of a lobby goes on as it began, with fewer members to tell.
LEMMA EndingStep ==
  ASSUME TypeOK, NEW c \in Conns, Continue(c) \/ Arrive(c), NEW d \in Ending'
  PROVE  \/ d = c /\ EmptyLobby(c)
         \/ /\ d \in Ending
            /\ job'[d].lobby = job[d].lobby /\ job'[d].how = job[d].how
            /\ Range(job'[d].left) \subseteq Range(job[d].left)
            /\ job'[d].at = "unlisting" => job[d].at = "unlisting"
<1>1. /\ StageOf(c) /\ \A e \in Conns \ {c} : job'[e] = job[e]
      /\ job \in [Conns -> Job] /\ job[c] \in Job
  BY StageStep DEF TypeOK
<1>2. CASE d # c
  BY <1>1, <1>2 DEF Ending
<1>3. CASE d = c
  <2>1. \/ EmptyLobby(c) \/ RemoveLobby(c) \/ RemoveCode(c) \/ TellDisconnected(c)
        \/ ClearDisconnected(c)
    BY <1>1, <1>3 DEF StageOf, Goes, Ending
  <2>2. CASE RemoveLobby(c)
    <3>1. job[c].at = "unlisting" /\ job' = [job EXCEPT ![c] = [job[c] EXCEPT !.at = "uncoding"]]
      BY <2>2, <1>1 DEF RemoveLobby
    <3> QED
      BY <1>1, <1>3, <3>1 DEF Ending, Job
  <2>3. CASE RemoveCode(c)
    <3>1. job[c].at = "uncoding" /\ job' = [job EXCEPT ![c] = [job[c] EXCEPT !.at = "telling"]]
      BY <2>3, <1>1 DEF RemoveCode
    <3> QED
      BY <1>1, <1>3, <3>1 DEF Ending, Job
  <2>4. CASE TellDisconnected(c)
    <3>1. job[c].at = "telling" /\ job' = [job EXCEPT ![c] = [job[c] EXCEPT !.at = "clearing"]]
      BY <2>4, <1>1 DEF TellDisconnected
    <3> QED
      BY <1>1, <1>3, <3>1 DEF Ending, Job
  <2>5. CASE ClearDisconnected(c)
    <3>1. /\ job[c].at = "clearing" /\ job[c].left \in Seq(Conns) /\ job[c].left # <<>>
          /\ job' = [job EXCEPT ![c] = [job[c] EXCEPT !.at = "telling",
                                                       !.left = Tail(job[c].left)]]
      BY <2>5, <1>1 DEF ClearDisconnected, Job
    <3>2. Range(Tail(job[c].left)) \subseteq Range(job[c].left)
      <4> DEFINE s == job[c].left
      <4>1. /\ s \in Seq(Conns) /\ s # <<>>
        BY <3>1
      <4> HIDE DEF s
      <4>2. DOMAIN Tail(s) = 1..(Len(s) - 1) /\ DOMAIN s = 1..Len(s) /\ Len(s) \in Nat
        BY <4>1
      <4>3. \A i \in 1..(Len(s) - 1) : Tail(s)[i] = s[i + 1] /\ i + 1 \in 1..Len(s)
        BY <4>1, <4>2
      <4>4. Range(Tail(s)) \subseteq Range(s)
        BY <4>2, <4>3 DEF Range
      <4> QED
        BY <4>4 DEF s
    <3>3. /\ job'[c].lobby = job[c].lobby /\ job'[c].how = job[c].how
          /\ job'[c].left = Tail(job[c].left) /\ job'[c].at = "telling"
      BY <1>1, <3>1 DEF Job
    <3> QED
      BY <1>3, <3>1, <3>2, <3>3 DEF Ending
  <2> QED
    BY <1>3, <2>1, <2>2, <2>3, <2>4, <2>5
<1> QED
  BY <1>2, <1>3

LEMMA StepPromises ==
  ASSUME PromiseInv, NEW c \in Conns, Continue(c) \/ Arrive(c)
  PROVE  PromisesAreMeant' /\ EndsBreakNoPromise'
<1>a. /\ SoundInv /\ SoundInv' /\ MembershipInv /\ TypeOK /\ TypeOK' /\ FramesAimRight
      /\ MembersDeclared /\ HostsEndLobbies
      /\ ToldOfDrawn /\ PromisesAreMeant /\ EndsBreakNoPromise
  BY StepSound DEF PromiseInv, SoundInv, MembershipInv
<1>b. /\ StageOf(c)
      /\ Declared \subseteq Declared'
      /\ \A x \in Declared : migrates'[x] = migrates[x]
      /\ \A x \in Declared \cap Open' : x \in Open
      /\ drawn \subseteq drawn'
  BY <1>a, StageStep, DeclaredStep, CodesStep
<1>c. \A n \in DOMAIN lobbies' \cap DOMAIN lobbies :
        lobbies'[n].host_migration = lobbies[n].host_migration
  BY <1>a, LobbiesStep
<1>d. /\ None \notin LobbyIds /\ None \notin drawn /\ DOMAIN lobbies \subseteq drawn
      /\ drawn \subseteq LobbyIds /\ drawn' \subseteq LobbyIds
      /\ Nowhere.lobby = None /\ Nowhere.migratable = FALSE
      /\ \A x \in Conns : told[x].migratable \in BOOLEAN /\ migrates[x] \in BOOLEAN
  BY <1>a, NoneAssumption DEF TypeOK, View, Nowhere
\* A lobby that is not in the map yet, the fresh one of a creation, nobody knows.
<1>e. \A n \in DOMAIN lobbies' \cap drawn : n \in DOMAIN lobbies
  <2>1. CASE InsertLobby(c)
    <3>1. PICK m \in LobbyIds \ drawn : \E v : lobbies' = Put(lobbies, m, v)
      BY <2>1 DEF InsertLobby
    <3> QED
      BY <3>1 DEF Put
  <2>2. CASE ~InsertLobby(c)
    BY <1>a, <2>2, LobbiesStep
  <2> QED
    BY <2>1, <2>2
<1>f. InsertLobby(c) =>
        /\ told'[c].lobby \in LobbyIds \ drawn
        /\ lobbies'[told'[c].lobby].host_migration = migrates[c]
        /\ UNCHANGED migrates
  <2> SUFFICES ASSUME InsertLobby(c)
               PROVE  /\ told'[c].lobby \in LobbyIds \ drawn
                      /\ lobbies'[told'[c].lobby].host_migration = migrates[c]
                      /\ UNCHANGED migrates
    OBVIOUS
  <2>1. PICK m \in LobbyIds \ drawn, asked \in RequestedSizes, r \in Requests \cup {None} :
          /\ lobbies' = Put(lobbies, m, NewLobby(c, asked))
          /\ told' = [told EXCEPT ![c] =
               [lobby |-> m, host |-> c, peers |-> {},
                migratable |-> migrates[c], request |-> r]]
    BY DEF InsertLobby
  <2>2. told'[c].lobby = m
    BY <1>a, <2>1 DEF TypeOK
  <2>3. lobbies'[m].host_migration = migrates[c]
    BY <2>1 DEF Put, NewLobby
  <2>4. UNCHANGED migrates
    BY DEF InsertLobby
  <2> QED
    BY <2>2, <2>3, <2>4
<1>g. EnterLobby(c) => job[c].lobby \in DOMAIN lobbies /\ DOMAIN lobbies' = DOMAIN lobbies
                       /\ c \in Declared
  <2> SUFFICES ASSUME EnterLobby(c)
               PROVE job[c].lobby \in DOMAIN lobbies /\ DOMAIN lobbies' = DOMAIN lobbies
                     /\ c \in Declared
    OBVIOUS
  <2>1. c \in Declared
    BY DEF EnterLobby, Declared
  <2> QED
    BY <1>a, <2>1, Entering
<1>1. PromisesAreMeant'
  <2> SUFFICES ASSUME NEW x \in Conns, told'[x].migratable
               PROVE  /\ told'[x].lobby # None /\ migrates'[x]
                      /\ told'[x].lobby \in DOMAIN lobbies' =>
                           lobbies'[told'[x].lobby].host_migration
    BY DEF PromisesAreMeant
  <2>1. CASE told'[x].lobby = told[x].lobby /\ told'[x].migratable = told[x].migratable
    <3>1. /\ told[x].lobby # None /\ migrates[x] /\ told[x].lobby \in drawn
          /\ told[x].lobby \in DOMAIN lobbies => lobbies[told[x].lobby].host_migration
          /\ x \in Declared
      BY <1>a, <2>1 DEF PromisesAreMeant, ToldOfDrawn
    <3> QED
      BY <1>b, <1>c, <1>e, <2>1, <3>1
  <2>2. CASE x = c /\ InsertLobby(c) /\ told'[c].migratable = migrates[c]
    BY <1>d, <1>f, <2>2
  <2>3. CASE /\ x = c /\ EnterLobby(c) /\ told'[c].lobby = job[c].lobby
             /\ told'[c].migratable = (lobbies[job[c].lobby].host_migration /\ migrates[c])
    <3>1. lobbies[job[c].lobby].host_migration /\ migrates[c]
      BY <2>3
    <3> QED
      BY <1>b, <1>c, <1>d, <1>g, <2>3, <3>1
  <2> QED
    BY <1>a, <1>d, <2>1, <2>2, <2>3, ToldStep, ZenonT(40)
<1>2. EndsBreakNoPromise'
  <2> SUFFICES ASSUME NEW d \in Ending', job'[d].how # "Close"
               PROVE
                 \/ Range(job'[d].left) \subseteq Declared' \ Declaring'
                 \/ /\ \A x \in Conns : told'[x].lobby = job'[d].lobby => ~told'[x].migratable
                    /\ job'[d].at = "unlisting" => ~lobbies'[job'[d].lobby].host_migration
    BY DEF EndsBreakNoPromise
  <2>a. \A S : S \subseteq Declared \ Declaring => S \subseteq Declared' \ Declaring'
    BY <1>b DEF Declaring
  <2>b. ASSUME NEW n \in drawn, \A x \in Conns : told[x].lobby = n => ~told[x].migratable,
               n \in DOMAIN lobbies => ~lobbies[n].host_migration,
               NEW x \in Conns, told'[x].lobby = n
        PROVE  ~told'[x].migratable
    <3>1. CASE told'[x] = Nowhere
      BY <1>d, <3>1
    <3>2. CASE told'[x].lobby = told[x].lobby /\ told'[x].migratable = told[x].migratable
      BY <2>b, <3>2
    <3>3. CASE x = c /\ InsertLobby(c)
      BY <1>f, <2>b, <3>3
    <3>4. CASE /\ x = c /\ EnterLobby(c) /\ told'[c].lobby = job[c].lobby
               /\ told'[c].migratable = (lobbies[job[c].lobby].host_migration /\ migrates[c])
      BY <1>g, <2>b, <3>4
    <3> QED
      BY <1>a, <3>1, <3>2, <3>3, <3>4, ToldStep
  <2>1. CASE d = c /\ EmptyLobby(c)
    <3> DEFINE l == job[c].lobby
               left == LeftBehind(c)
    <3>1. /\ l \in DOMAIN lobbies /\ DOMAIN lobbies' = DOMAIN lobbies
          /\ ~HandsOver(c) /\ left \in Seq(Conns)
          /\ Range(left) \subseteq Range(lobbies[l].members)
          /\ job'[c].lobby = l /\ job'[c].how = job[c].how /\ job'[c].left = left
      BY <1>a, <2>1, Emptying
    <3>2. Range(left) \subseteq Declared
      BY <1>a, <3>1 DEF MembersDeclared
    <3>3. CASE ~lobbies[l].host_migration
      <4> HIDE DEF left
      <4>1. \A x \in Conns : told[x].lobby = l => ~told[x].migratable
        BY <1>a, <3>1, <3>3 DEF PromisesAreMeant
      <4>2. \A x \in Conns : told'[x].lobby = l => ~told'[x].migratable
        BY <1>d, <2>b, <3>1, <3>3, <4>1
      <4>3. ~lobbies'[l].host_migration
        BY <1>c, <3>1, <3>3
      <4> HIDE DEF l
      <4> QED
        BY <2>1, <3>1, <4>2, <4>3
    <3>4. CASE Followers(c) = <<>>
      <4>1. Range(Followers(c)) = Range(left) \cap Declaring
        BY <3>1, RetainedMembers DEF Followers
      <4>2. Range(Followers(c)) = {}
        BY <3>4 DEF Range
      <4> HIDE DEF left
      <4>3. Range(left) \subseteq Declared \ Declaring
        BY <3>2, <4>1, <4>2
      <4> QED
        BY <2>1, <2>a, <3>1, <4>3
    <3> QED
      BY <2>1, <3>1, <3>3, <3>4 DEF HandsOver
  <2>2. CASE /\ d \in Ending
             /\ job'[d].lobby = job[d].lobby /\ job'[d].how = job[d].how
             /\ Range(job'[d].left) \subseteq Range(job[d].left)
             /\ job'[d].at = "unlisting" => job[d].at = "unlisting"
    <3>1. CASE Range(job[d].left) \subseteq Declared \ Declaring
      BY <2>2, <2>a, <3>1
    <3>2. CASE /\ \A x \in Conns : told[x].lobby = job[d].lobby => ~told[x].migratable
               /\ job[d].at = "unlisting" => ~lobbies[job[d].lobby].host_migration
      <4> DEFINE n == job[d].lobby
      <4>1. /\ n \in drawn
            /\ n \in DOMAIN lobbies => job[d].at = "unlisting"
            /\ job[d].at = "unlisting" => n \in DOMAIN lobbies
        BY <1>a, <2>2 DEF FramesAimRight, Enders, Ending, HostsEndLobbies
      <4>2. \A x \in Conns : told'[x].lobby = n => ~told'[x].migratable
        BY <2>b, <3>2, <4>1
      <4>3. job'[d].at = "unlisting" => ~lobbies'[n].host_migration
        <5> SUFFICES ASSUME job'[d].at = "unlisting" PROVE ~lobbies'[n].host_migration
          OBVIOUS
        <5>1. n \in DOMAIN lobbies /\ ~lobbies[n].host_migration
          BY <2>2, <3>2, <4>1
        <5>2. job'[d].lobby \in DOMAIN lobbies'
          BY <1>a DEF SoundInv, HostsEndLobbies, Ending
        <5> QED
          BY <1>c, <2>2, <5>1, <5>2
      <4> HIDE DEF n
      <4> QED
        BY <2>2, <4>2, <4>3 DEF n
    <3> QED
      BY <1>a, <2>2, <3>1, <3>2 DEF EndsBreakNoPromise
  <2> QED
    BY <1>a, <2>1, <2>2, EndingStep
<1> QED
  BY <1>1, <1>2

LEMMA PromiseStep ==
  ASSUME PromiseInv, NEW c \in Conns, Continue(c) \/ Arrive(c)
  PROVE  StepKeepsPromise
<1>a. /\ SoundInv /\ TypeOK /\ PromisesAreMeant /\ EndsBreakNoPromise
      /\ told \in [Conns -> View] /\ None \notin LobbyIds
      /\ ToldOfDrawn /\ drawn \subseteq LobbyIds
  BY NoneAssumption DEF PromiseInv, SoundInv, MembershipInv, TypeOK
<1> SUFFICES ASSUME NEW x \in Conns \ struck', told[x].migratable, told'[x].lobby = None
             PROVE  \/ job[x].at = "departing"
                    \/ \E d \in Conns : /\ job[d].at = "telling" /\ job[d].how = "Close"
                                         /\ job[d].left # <<>> /\ Head(job[d].left) = x
  BY DEF StepKeepsPromise
<1>b. told[x].lobby # None /\ migrates[x] /\ told'[x] # told[x]
  BY <1>a DEF PromisesAreMeant
<1>c. x \notin Open \/ x \in Declaring
  BY <1>b DEF Declaring
<1>1. CASE DepartFromNothing(c) \/ EmptyLobby(c)
  <2>1. told' = [told EXCEPT ![c] = Nowhere] /\ job[c].at = "departing"
    BY <1>1 DEF DepartFromNothing, EmptyLobby
  <2> QED
    BY <1>a, <1>b, <2>1
<1>2. CASE DepartAsMember(c)
  <2>1. x # c => told'[x] \in {HearsPlayerLeft(told[x], c), told[x]}
    BY <1>2 DEF DepartAsMember
  <2>2. HearsPlayerLeft(told[x], c).lobby = told[x].lobby
    BY <1>a DEF HearsPlayerLeft, View
  <2>3. job[c].at = "departing"
    BY <1>2 DEF DepartAsMember
  <2> QED
    BY <1>b, <2>1, <2>2, <2>3
<1>3. CASE HandOver(c)
  <2> DEFINE stranded == Range(LeftBehind(c)) \ Declaring
  <2>1. job[c].at = "departing"
    BY <1>3 DEF HandOver
  <2>2. PICK h, s :
          \/ x = c \/ x \in stranded \cap Open
          \/ told'[x] \in {HearsHostChanged(told[x], job[c].lobby, h, s), told[x]}
    BY <1>3 DEF HandOver
  <2>3. HearsHostChanged(told[x], job[c].lobby, h, s).lobby = told[x].lobby
    BY <1>a DEF HearsHostChanged, View
  <2> QED
    BY <1>b, <1>c, <2>1, <2>2, <2>3
<1>4. CASE TellDisconnected(c)
  <2>1. /\ job[c].at = "telling" /\ job[c].left # <<>> /\ x = Head(job[c].left)
        /\ x \in Open /\ told[x].lobby = job[c].lobby
    BY <1>4, <1>a, <1>b DEF TellDisconnected
  <2>2. x \in Range(job[c].left)
    <3>1. job[c].left \in Seq(Conns)
      BY <1>a DEF TypeOK, Job
    <3> QED
      BY <2>1, <3>1 DEF Range
  <2>3. job[c].how = "Close"
    BY <1>a, <1>c, <2>1, <2>2 DEF EndsBreakNoPromise, Ending
  <2> QED
    BY <2>1, <2>3
<1>5. CASE InsertLobby(c)
  <2>1. PICK m \in LobbyIds \ drawn, r \in Requests \cup {None} :
          told' = [told EXCEPT ![c] =
               [lobby |-> m, host |-> c, peers |-> {},
                migratable |-> migrates[c], request |-> r]]
    BY <1>5 DEF InsertLobby
  <2> QED
    BY <1>a, <1>b, <2>1
<1>6. CASE EnterLobby(c)
  <2>1. job[c].lobby \in DOMAIN lobbies
    BY <1>6 DEF EnterLobby, MayEnter
  <2>2. x = c => told'[x].lobby = job[c].lobby
    BY <1>6 DEF EnterLobby
  <2>3. x # c => told'[x] \in {HearsPlayerJoined(told[x], c), told[x]}
    BY <1>6 DEF EnterLobby
  <2>4. HearsPlayerJoined(told[x], c).lobby = told[x].lobby
    BY <1>a DEF HearsPlayerJoined, View
  <2> QED
    BY <1>a, <1>b, <2>1, <2>2, <2>3, <2>4 DEF TypeOK
<1>7. CASE /\ ~InsertLobby(c) /\ ~EnterLobby(c) /\ ~DepartFromNothing(c) /\ ~EmptyLobby(c)
           /\ ~DepartAsMember(c) /\ ~HandOver(c) /\ ~TellDisconnected(c)
  <2>1. UNCHANGED told
    BY <1>7 DEF Continue, Arrive, Authenticate, Declare, SetDisplayName, CreateLobby,
              JoinLobby, JoinLobbyByCode, RefuseJoin, StartToDepart, LeaveLobby,
              CloseLobby, CancelRequest, EndConnection, IgnoreClose, RenameLobby,
              RemoveLobby, RemoveCode, ClearDisconnected, FinishDisconnecting
  <2> QED
    BY <1>b, <2>1
<1> QED
  BY <1>1, <1>2, <1>3, <1>4, <1>5, <1>6, <1>7

LEMMA PromiseInvariant == Spec => []PromiseInv
<1>1. Init => PromiseInv
  <2> SUFFICES ASSUME Init PROVE PromiseInv
    OBVIOUS
  <2>1. SoundInv
    BY InitSound
  <2>2. ToldOfDrawn /\ PromisesAreMeant
    BY DEF Init, ToldOfDrawn, PromisesAreMeant, Nowhere
  <2>3. EndsBreakNoPromise
    BY DEF Init, EndsBreakNoPromise, Ending, Resting, Busy
  <2> QED
    BY <2>1, <2>2, <2>3 DEF PromiseInv
<1>2. PromiseInv /\ [Next]_vars => PromiseInv'
  <2> SUFFICES ASSUME PromiseInv, [Next]_vars PROVE PromiseInv'
    OBVIOUS
  <2>1. ASSUME NEW c \in Conns, Continue(c) \/ Arrive(c) PROVE PromiseInv'
    BY <2>1, StepSound, StepToldOfDrawn, StepPromises DEF PromiseInv
  <2>2. CASE UNCHANGED vars
    <3>1. SoundInv'
      BY <2>2, SoundStutters DEF PromiseInv
    <3>2. ToldOfDrawn' /\ PromisesAreMeant' /\ EndsBreakNoPromise'
      BY <2>2 DEF PromiseInv, ToldOfDrawn, PromisesAreMeant, EndsBreakNoPromise, Ending,
                  Declared, Declaring, Open, vars, handles
    <3> QED
      BY <3>1, <3>2 DEF PromiseInv
  <2> QED
    BY <2>1, <2>2 DEF Next
<1> QED
  BY <1>1, <1>2, PTL DEF Spec

\* LobbyMigratable is a promise kept: for any number of connections and lobbies,
\* a member that was sent it leaves its lobby by its own departure, or because
\* the host closed the lobby on purpose.
THEOREM PromisesAreKept == Spec => PromiseKept
<1>1. PromiseInv /\ [Next]_vars => [StepKeepsPromise]_vars
  BY PromiseStep DEF Next
<1> QED
  BY <1>1, PromiseInvariant, PTL DEF Spec, PromiseKept

==============================================================================
