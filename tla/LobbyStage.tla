------------------------------ MODULE LobbyStage ------------------------------
(***************************************************************************)
(* What a game is promised about its lobby: the stages of a session as     *)
(* Lobby, PendingLobby, Host, AwaitingHost and HostUuid show them.  A host *)
(* is only replaced by another one being named; whoever was named is       *)
(* waited for before it is played with; a peer that hosts goes on hosting  *)
(* until the session is over, and the next one starts from nothing.        *)
(***************************************************************************)
CONSTANTS Me, Others, None

VARIABLES stage,  \* "out", "joining", "playing", "waiting" or "hosting"
          host    \* who hosts, or last did

Players == Others \cup {Me}

Init == stage = "out" /\ host = None

Join == stage = "out" /\ stage' = "joining" /\ host' \in Others

Enter == stage = "joining" /\ stage' = "playing" /\ host' = host

Lose == stage = "playing" /\ stage' = "waiting" /\ host' = host

\* A join follows the new host as a join; a session waits for it.
Name ==
  /\ stage \in {"joining", "playing", "waiting"}
  /\ host' \in Players
  /\ stage' = IF host' = Me THEN "hosting"
              ELSE IF stage = "joining" THEN stage ELSE "waiting"

Resume == stage = "waiting" /\ stage' = "playing" /\ host' = host

End == stage # "out" /\ stage' = "out" /\ host' \in {host, None}

Forget == stage = "out" /\ stage' = stage /\ host' = None

Next == Join \/ Enter \/ Lose \/ Name \/ Resume \/ End \/ Forget

Spec == Init /\ [][Next]_<<stage, host>>
==============================================================================
