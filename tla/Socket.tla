-------------------------------- MODULE Socket --------------------------------
(***************************************************************************)
(* The socket at each of two ends of a WebRTC connection, the signals they *)
(* exchange through the signalling server, and what each tells its app of  *)
(* the other (the sockets crate, on native).                               *)
(*                                                                         *)
(* An action is a call of EnsembleSocket, a callback of the transport, or  *)
(* one step, from await to await, of the two tasks a connection has: the   *)
(* one that makes an offer and the one that applies the peer's signals.    *)
(* Of a description the model keeps which connection made it (its          *)
(* certificate) and which gathering of that connection it announces (its   *)
(* round); a candidate is gathered in each of the first rounds.            *)
(* A connection that is dropped is gone at once.  In the code it closes     *)
(* later, and its candidates may still go out until it has: they are the   *)
(* stray ones of a connection whose description is never sent.             *)
(***************************************************************************)
EXTENDS Integers, Sequences, SequencesExt

CONSTANT Instances
\* In a run these ends dial; so many connections are made, dropped on purpose,
\* restarted by hand, lose their path or fail at a step, and have candidates in
\* so many rounds. timeout and restarts are ICE_RESTART_TIMEOUT and
\* MAX_ICE_RESTARTS.
ASSUME BoundAssumption ==
  \A i \in Instances :
    /\ i.dialers \subseteq {"a", "b"}
    /\ {i.connections, i.drops, i.presses, i.losses, i.failures} \subseteq Nat
    /\ {i.rounds, i.timeout, i.restarts} \subseteq Nat

VARIABLES conn,          \* peers: the connection to the other end, or NoConnection
          events,        \* what this connection has reported and update_peers has not read
          states,        \* the state last told of the other end, or "none"
          since,         \* reconnecting_since, as an age; or Off
          fingerprint,   \* remote_fingerprints: the certificate of the offer answered, or 0
          superseded,
          discarded,     \* discarded_candidates
          wire,          \* signals on their way from this end, in order
          made,          \* connections made so far: the next certificate
          used,          \* how often each bounded thing has happened
          bounds,
          past           \* history: see Pasts
told == <<states, since>>
vars == <<conn, events, told, fingerprint, superseded, discarded, wire, made, used, bounds, past>>

End == {"a", "b"}
Other(e) == IF e = "a" THEN "b" ELSE "a"
Off == -1

Description == [cert : 0..bounds.connections, round : Nat]
Nobody == [cert |-> 0, round |-> 0]
Signal == [kind : {"Offer", "Answer", "Candidate"}, of : Description, to : 0..bounds.connections]

PeerState == {"Connecting", "Connected", "Reconnecting", "Disconnected", "Failed"}

\* recovering, reached and restarts are Recovery's in_progress, connected_once
\* and restarts. round is the ICE agent's, remote the description it has of
\* the peer; pending: an offer has been set that no answer has met. offer is
\* the task making one, aborted counts those replaced that still hold the
\* gate, answering: the worker has applied an offer and has not answered.
Connection ==
  [cert : 1..bounds.connections, role : {"Offerer", "Answerer"},
   restarts : 0..bounds.restarts, recovering : BOOLEAN, reached : BOOLEAN,
   round : Nat, gathered : Nat, remote : Description, pending : BOOLEAN,
   offer : {"none", "spawned", "making"}, aborted : Nat, answering : BOOLEAN, queue : Seq(Signal),
   holds : Nat, held : Seq(Signal),
   ice : {"new", "connected", "lost", "failed"}, channel : {"new", "open", "closed"},
   failed : BOOLEAN, broken : BOOLEAN]
NoConnection == [cert |-> 0]
NewConnection(role, offer, queue) ==
  [cert |-> made + 1, role |-> role, restarts |-> 0, recovering |-> FALSE, reached |-> FALSE,
   round |-> 0, gathered |-> 0, remote |-> Nobody, pending |-> FALSE,
   offer |-> offer, aborted |-> 0, answering |-> FALSE, queue |-> queue, holds |-> 0, held |-> <<>>,
   ice |-> "new", channel |-> "new", failed |-> FALSE, broken |-> FALSE]
Has(e) == conn[e] # NoConnection

\* sent: the descriptions an end has sent. early: those of which it sent a
\* candidate before. about: the connection whose word states is. lostFor: how
\* long ago the app was told Reconnecting, or Off.
Pasts == [sent : SUBSET Description, early : SUBSET Description,
          about : 0..bounds.connections, lostFor : {Off} \cup 0..bounds.timeout]

------------------------------------------------------------------------------
\* Candidates wait for their description

Own(c) == [cert |-> c.cert, round |-> c.round]
Candidate(c) == [kind |-> "Candidate", of |-> Own(c), to |-> c.remote.cert]
Describing(kind, c) == [kind |-> kind, of |-> Own(c), to |-> c.remote.cert]

\* A Held is dropped: the last one sends what it held back.
Dropped(c) == [c EXCEPT !.holds = @ - 1, !.held = IF c.holds = 1 THEN <<>> ELSE @]
Released(c) == IF c.holds = 1 THEN c.held ELSE <<>>

\* These signals go out from e, which has the connection c now.
Emit(e, c, signals) ==
  LET described == past[e].sent \cup {s.of : s \in {t \in Range(signals) : t.kind # "Candidate"}}
      early == {i \in DOMAIN signals :
                  /\ signals[i].kind = "Candidate" /\ signals[i].of \notin past[e].sent
                  /\ \A j \in 1..(i - 1) : signals[j].kind # "Candidate" => signals[j].of # signals[i].of}
  IN /\ conn' = [conn EXCEPT ![e] = c]
     /\ wire' = [wire EXCEPT ![e] = @ \o signals]
     /\ past' = [past EXCEPT ![e].sent = described,
                             ![e].early = @ \cup {signals[i].of : i \in early}]

GatherUnheld(e) ==
  /\ Has(e) /\ conn[e].gathered < conn[e].round /\ conn[e].round <= bounds.rounds
  /\ LET c == [conn[e] EXCEPT !.gathered = conn[e].round] IN Emit(e, c, <<Candidate(c)>>)
  /\ UNCHANGED <<events, told, fingerprint, superseded, discarded, made, used, bounds>>

\* on_ice_candidate: sent, or held while a description is being made.
Gather(e) ==
  /\ Has(e) /\ conn[e].gathered < conn[e].round /\ conn[e].round <= bounds.rounds
  /\ LET c == [conn[e] EXCEPT !.gathered = conn[e].round]
     IN IF c.holds > 0 THEN Emit(e, [c EXCEPT !.held = Append(@, Candidate(c))], <<>>)
        ELSE Emit(e, c, <<Candidate(c)>>)
  /\ UNCHANGED <<events, told, fingerprint, superseded, discarded, made, used, bounds>>

------------------------------------------------------------------------------
\* Losing the path and restarting

Spend(what) == used[what] < bounds[what] /\ used' = [used EXCEPT ![what] = @ + 1]
Event(c, state) == [state |-> state, of |-> c.cert]
Report(e, c, state) == events' = [events EXCEPT ![e] = Append(@, Event(c, state))]

\* spawn_offer: an offer task that is replaced is aborted at its next await.
Spawned(c) == [c EXCEPT !.offer = "spawned", !.aborted = IF c.offer = "making" THEN @ + 1 ELSE @]

Exhausted(c) == c.restarts >= bounds.restarts
\* request_restart, and recover with what it says.
RequestRestart(e, c) ==
  IF Exhausted(c) THEN conn' = [conn EXCEPT ![e] = c] /\ Report(e, c, "Failed")
  ELSE /\ conn' = [conn EXCEPT ![e] = Spawned([c EXCEPT !.restarts = @ + 1, !.recovering = TRUE])]
       /\ Report(e, c, "Reconnecting")

\* ice_lost, and recover with what it says.
Lost(e, c) ==
  CASE ~c.reached \/ (c.role = "Answerer" /\ c.ice = "failed") ->
         conn' = [conn EXCEPT ![e] = c] /\ Report(e, c, "Failed")
    [] c.reached /\ c.role = "Answerer" /\ c.ice # "failed" ->
         conn' = [conn EXCEPT ![e] = [c EXCEPT !.recovering = TRUE]] /\ Report(e, c, "Reconnecting")
    [] OTHER -> RequestRestart(e, c)

Quiet == UNCHANGED <<told, fingerprint, superseded, discarded, wire, made, bounds, past>>

RestartIce(e) ==
  /\ Has(e) /\ conn[e].role = "Offerer"
  /\ Spend("presses")
  /\ RequestRestart(e, conn[e])
  /\ Quiet

\* What the ICE agent notices: the path is gone, or no pair works.
IceLost(e) ==
  /\ Has(e) /\ conn[e].ice = "connected"
  /\ Spend("losses")
  /\ Lost(e, [conn[e] EXCEPT !.ice = "lost"])
  /\ Quiet
IceFailed(e) ==
  /\ Has(e) /\ conn[e].ice \in {"new", "lost"} /\ conn[e].remote # Nobody
  /\ Spend("losses")
  /\ Lost(e, [conn[e] EXCEPT !.ice = "failed"])
  /\ Quiet

\* Each end has the description the other has of itself.
Met(e) == LET c == conn[e]  d == conn[Other(e)]
          IN Has(e) /\ Has(Other(e)) /\ c.remote = Own(d) /\ d.remote = Own(c)
IceConnected(e) ==
  /\ Met(e) /\ conn[e].ice # "connected"
  /\ conn' = [conn EXCEPT ![e].ice = "connected", ![e].reached = TRUE, ![e].recovering = FALSE]
  /\ IF conn[e].recovering THEN Report(e, conn[e], "Connected") ELSE UNCHANGED events
  /\ UNCHANGED used /\ Quiet

\* on_peer_connection_state_change: ICE failed before it, or DTLS or SCTP has.
ConnectionFailed(e) ==
  /\ Has(e) /\ ~conn[e].failed
  /\ conn[e].ice = "failed" \/ (conn[e].reached /\ conn[e].channel = "new")
  /\ conn' = [conn EXCEPT ![e].failed = TRUE]
  /\ Spend("losses")
  /\ IF conn[e].recovering THEN UNCHANGED events ELSE Report(e, conn[e], "Failed")
  /\ Quiet

Acquainted(e) == /\ Has(e) /\ Has(Other(e))
                 /\ conn[e].remote.cert = conn[Other(e)].cert
                 /\ conn[Other(e)].remote.cert = conn[e].cert
OnOpen(e) ==
  /\ Acquainted(e) /\ conn[e].reached /\ conn[Other(e)].reached
  /\ conn[e].channel = "new" /\ ~conn[e].failed
  /\ conn' = [conn EXCEPT ![e].channel = "open"]
  /\ Report(e, conn[e], "Connected")
  /\ UNCHANGED used /\ Quiet
\* The other end has let go of the connection, or its transport failed.
OnClose(e) ==
  /\ Has(e) /\ conn[e].reached /\ conn[e].channel # "closed"
  /\ conn[e].failed \/ ~Acquainted(e)
  /\ conn' = [conn EXCEPT ![e].channel = "closed"]
  /\ Report(e, conn[e], "Disconnected")
  /\ UNCHANGED used /\ Quiet

------------------------------------------------------------------------------
\* The task that makes an offer: make_offer

Outside == UNCHANGED <<events, told, fingerprint, superseded, discarded, made, bounds>>

\* The gate is held from here on; with ice_restart the agent starts afresh.
MakeOffer(e) ==
  /\ Has(e) /\ conn[e].offer = "spawned"
  /\ Emit(e, [conn[e] EXCEPT !.offer = "making", !.holds = @ + 1, !.round = @ + 1, !.ice = "new"],
          <<>>)
  /\ UNCHANGED used /\ Outside

SendOffer(e) ==
  /\ Has(e) /\ conn[e].offer = "making"
  /\ LET c == conn[e]
     IN Emit(e, Dropped([c EXCEPT !.offer = "none", !.pending = TRUE]),
             <<[Describing("Offer", c) EXCEPT !.to = 0]>> \o Released(c))
  /\ UNCHANGED used /\ Outside

OfferFails(e) ==
  /\ Has(e) /\ conn[e].offer = "making"
  /\ Emit(e, Dropped([conn[e] EXCEPT !.offer = "none"]), Released(conn[e]))
  /\ Spend("failures") /\ Outside

\* A replaced offer task ends, and with it its hold on the gate.
AbortedEnds(e) ==
  /\ Has(e) /\ conn[e].aborted > 0
  /\ Emit(e, Dropped([conn[e] EXCEPT !.aborted = @ - 1]), Released(conn[e]))
  /\ UNCHANGED used /\ Outside

------------------------------------------------------------------------------
\* The task that applies the peer's signals: run_signal_queue

Foremost(e) == Head(conn[e].queue)
Takes(e, kind) == /\ Has(e) /\ ~conn[e].answering /\ conn[e].queue # <<>>
                  /\ Foremost(e).kind = kind
Taken(e) == [conn[e] EXCEPT !.queue = Tail(@)]

\* The gate is held first; an offer of another round restarts the agent here.
ApplyOffer(e) ==
  /\ Takes(e, "Offer")
  /\ Emit(e, [Taken(e) EXCEPT !.holds = @ + 1, !.answering = TRUE, !.remote = Foremost(e).of,
                              !.round = @ + 1, !.ice = "new"], <<>>)
  /\ UNCHANGED used /\ Outside
SendAnswerBehind(e) ==
  /\ Has(e) /\ conn[e].answering
  /\ LET c == conn[e]
     IN Emit(e, Dropped([c EXCEPT !.answering = FALSE]), Released(c) \o <<Describing("Answer", c)>>)
  /\ UNCHANGED used /\ Outside
SendAnswer(e) ==
  /\ Has(e) /\ conn[e].answering
  /\ LET c == conn[e]
     IN Emit(e, Dropped([c EXCEPT !.answering = FALSE]), <<Describing("Answer", c)>> \o Released(c))
  /\ UNCHANGED used /\ Outside
AnswerFails(e) ==
  /\ Has(e) /\ conn[e].answering
  /\ Emit(e, Dropped([conn[e] EXCEPT !.answering = FALSE]), Released(conn[e]))
  /\ Spend("failures") /\ Outside

\* An answer is taken for one to the last offer: nothing in it names the offer.
ApplyAnswer(e) ==
  /\ Takes(e, "Answer")
  /\ conn' = [conn EXCEPT ![e] = IF conn[e].pending
                                 THEN [Taken(e) EXCEPT !.pending = FALSE, !.remote = Foremost(e).of]
                                 ELSE Taken(e)]
  /\ UNCHANGED <<used, wire, past>> /\ Outside

\* A description that is not valid, or that the transport will not have.
ApplyFails(e) ==
  /\ Takes(e, "Offer") \/ Takes(e, "Answer")
  /\ conn' = [conn EXCEPT ![e] = [Taken(e) EXCEPT !.broken = TRUE]]
  /\ Spend("failures")
  /\ UNCHANGED <<wire, past>> /\ Outside

ApplyCandidate(e) ==
  /\ Takes(e, "Candidate")
  /\ conn' = [conn EXCEPT ![e] = Taken(e)]
  /\ discarded' = [discarded EXCEPT ![e] = @ + IF conn[e].remote = Nobody THEN 1 ELSE 0]
  /\ UNCHANGED <<used, wire, past, events, told, fingerprint, superseded, made, bounds>>

------------------------------------------------------------------------------
\* Calls of the app

\* events_for: channels of this connection alone.
EventsFor(e) == events' = [events EXCEPT ![e] = <<[state |-> "Connecting", of |-> made + 1]>>]
ToldStill(e) == UNCHANGED <<told, past>>
Untold(e) == /\ states' = [states EXCEPT ![e] = "none"]
             /\ since' = [since EXCEPT ![e] = Off]
             /\ past' = [past EXCEPT ![e].about = 0, ![e].lostFor = Off]

ConnectPeer(e) ==
  /\ e \in bounds.dialers /\ made < bounds.connections
  /\ ~Has(e)
  /\ conn' = [conn EXCEPT ![e] = NewConnection("Offerer", "spawned", <<>>)]
  /\ made' = made + 1
  /\ EventsFor(e)
  /\ UNCHANGED <<told, fingerprint, superseded, discarded, wire, used, bounds, past>>

DisconnectPeer(e) ==
  /\ Has(e)
  /\ Spend("drops")
  /\ conn' = [conn EXCEPT ![e] = NoConnection]
  /\ events' = [events EXCEPT ![e] = <<>>]
  /\ fingerprint' = [fingerprint EXCEPT ![e] = 0]
  /\ superseded' = [superseded EXCEPT ![e] = FALSE]
  /\ Untold(e)
  /\ UNCHANGED <<discarded, wire, made, bounds>>

\* receive_signal: what has arrived is queued, unless the offer is of another
\* connection than the one this end answers.
Arrives(e, kind) == wire[Other(e)] # <<>> /\ Head(wire[Other(e)]).kind = kind
Arrived(e) == Head(wire[Other(e)])
Unwired(e) == wire' = [wire EXCEPT ![Other(e)] = Tail(@)]
Queued(e) == conn' = [conn EXCEPT ![e].queue = Append(@, Arrived(e))]
IsNewConnection(e) == fingerprint[e] # 0 /\ fingerprint[e] # Arrived(e).of.cert

ReceiveAgain(e) ==
  /\ Arrives(e, "Offer") /\ Has(e)
  /\ \/ /\ conn[e].role = "Offerer"  \* glare
        /\ UNCHANGED conn
     \/ /\ conn[e].role = "Answerer" /\ ~IsNewConnection(e)
        /\ Queued(e)
  /\ Unwired(e)
  /\ UNCHANGED <<events, told, fingerprint, superseded, discarded, made, used, bounds, past>>

ReceiveOffer(e) ==
  /\ Arrives(e, "Offer")
  /\ Has(e) => conn[e].role = "Answerer" /\ IsNewConnection(e)
  /\ made < bounds.connections
  /\ conn' = [conn EXCEPT ![e] = NewConnection("Answerer", "none", <<Arrived(e)>>)]
  /\ made' = made + 1
  /\ EventsFor(e)
  /\ superseded' = [superseded EXCEPT ![e] = Has(e) \/ @]
  /\ fingerprint' = [fingerprint EXCEPT ![e] = Arrived(e).of.cert]
  /\ IF Has(e) THEN Untold(e) ELSE UNCHANGED <<told, past>>
  /\ Unwired(e)
  /\ UNCHANGED <<discarded, used, bounds>>

ReceiveOther(e) ==
  /\ Arrives(e, "Answer") \/ Arrives(e, "Candidate")
  /\ IF Has(e) THEN Queued(e) ELSE UNCHANGED conn
  /\ Unwired(e)
  /\ UNCHANGED <<events, told, fingerprint, superseded, discarded, made, used, bounds, past>>

\* What update_peers passes on of what a connection reports.
Passes(previous, current) ==
  /\ previous \notin {current, "Failed"}
  /\ \/ current \in {"Connected", "Failed"}
     \/ current = "Connecting" /\ previous = "none"
     \/ current = "Reconnecting" /\ previous = "Connected"
     \/ current = "Disconnected" /\ previous \in {"Connected", "Reconnecting"}
ArmedAgain(age, state) ==
  CASE state = "Reconnecting" -> 0
    [] state = "Connecting" -> age
    [] OTHER -> Off
Armed(age, state) ==
  CASE state = "Reconnecting" -> IF age = Off THEN 0 ELSE age
    [] state = "Connecting" -> age
    [] OTHER -> Off
Read(so, event) ==
  LET heard == [so EXCEPT !.since = Armed(@, event.state)]
  IN IF ~Passes(so.state, event.state) THEN heard
     ELSE [heard EXCEPT !.state = event.state, !.about = event.of,
                        !.over = @ \/ event.state \in {"Disconnected", "Failed"},
                        !.lostFor = IF event.state = "Reconnecting" THEN 0 ELSE Off]
\* All that a connection has reported, in order.
ReadAll(before, reports) ==
  LET so[n \in 0..Len(reports)] == IF n = 0 THEN before ELSE Read(so[n - 1], reports[n])
  IN so[Len(reports)]
\* Reconnecting for too long is Failed.
Late(so) ==
  IF so.since < bounds.timeout THEN so
  ELSE IF so.state = "Failed" THEN [so EXCEPT !.since = Off]
  ELSE [so EXCEPT !.since = Off, !.state = "Failed", !.over = TRUE, !.lostFor = Off]

UpdatePeers(e) ==
  LET before == [state |-> states[e], since |-> since[e], about |-> past[e].about, over |-> FALSE,
                 lostFor |-> past[e].lostFor]
      so == Late(ReadAll(before, events[e]))
  IN /\ events[e] # <<>> \/ superseded[e] \/ since[e] = bounds.timeout
     /\ events' = [events EXCEPT ![e] = <<>>]
     /\ superseded' = [superseded EXCEPT ![e] = FALSE]
     /\ IF so.over
        THEN /\ conn' = [conn EXCEPT ![e] = NoConnection]
             /\ fingerprint' = [fingerprint EXCEPT ![e] = 0]
             /\ Untold(e)
        ELSE /\ states' = [states EXCEPT ![e] = so.state]
             /\ since' = [since EXCEPT ![e] = so.since]
             /\ past' = [past EXCEPT ![e].about = so.about, ![e].lostFor = so.lostFor]
             /\ UNCHANGED <<conn, fingerprint>>
     /\ UNCHANGED <<discarded, wire, made, used, bounds>>

Tick ==
  LET Older(age) == IF age = Off \/ age = bounds.timeout THEN age ELSE age + 1
  IN /\ since' = [e \in End |-> Older(since[e])]
     /\ past' = [e \in End |-> [past[e] EXCEPT !.lostFor = Older(@)]]
     /\ UNCHANGED <<conn, events, states, fingerprint, superseded, discarded, wire, made, used, bounds>>

------------------------------------------------------------------------------
Init ==
  /\ bounds \in Instances
  /\ conn = [e \in End |-> NoConnection]
  /\ events = [e \in End |-> <<>>]
  /\ states = [e \in End |-> "none"]
  /\ since = [e \in End |-> Off]
  /\ fingerprint = [e \in End |-> 0]
  /\ superseded = [e \in End |-> FALSE]
  /\ discarded = [e \in End |-> 0]
  /\ wire = [e \in End |-> <<>>]
  /\ made = 0
  /\ used = [drops |-> 0, presses |-> 0, losses |-> 0, failures |-> 0]
  /\ past = [e \in End |-> [sent |-> {}, early |-> {}, about |-> 0, lostFor |-> Off]]

Calls(e) == \/ ConnectPeer(e) \/ DisconnectPeer(e) \/ RestartIce(e) \/ UpdatePeers(e)
            \/ ReceiveAgain(e) \/ ReceiveOffer(e) \/ ReceiveOther(e)
Tasks(e) == \/ MakeOffer(e) \/ SendOffer(e) \/ OfferFails(e) \/ AbortedEnds(e)
            \/ ApplyOffer(e) \/ SendAnswer(e) \/ AnswerFails(e) \/ ApplyAnswer(e) \/ ApplyFails(e)
            \/ ApplyCandidate(e)
Transport(e) == \/ Gather(e) \/ IceLost(e) \/ IceFailed(e) \/ IceConnected(e)
                \/ ConnectionFailed(e) \/ OnOpen(e) \/ OnClose(e)
Next == Tick \/ \E e \in End : Calls(e) \/ Tasks(e) \/ Transport(e)
Spec == Init /\ [][Next]_vars

------------------------------------------------------------------------------
\* Properties

\* Every value is one the code could hold: a connection restarts at most
\* MAX_ICE_RESTARTS times, however its restarts come about, and the gate is
\* held once by each task that is making a description.
TypeOK ==
  /\ bounds \in Instances
  /\ \A e \in End :
       /\ conn[e] = NoConnection \/
            /\ conn[e] \in Connection
            /\ conn[e].holds = conn[e].aborted + (IF conn[e].offer = "making" THEN 1 ELSE 0)
                                               + (IF conn[e].answering THEN 1 ELSE 0)
            /\ conn[e].holds = 0 => conn[e].held = <<>>
       /\ events[e] \in Seq([state : PeerState, of : 1..bounds.connections])
       /\ states[e] \in {"none"} \cup PeerState
       /\ since[e] \in {Off} \cup 0..bounds.timeout
       /\ fingerprint[e] \in 0..bounds.connections /\ superseded[e] \in BOOLEAN
       /\ discarded[e] \in Nat /\ wire[e] \in Seq(Signal)
       /\ past[e] \in Pasts
  /\ made \in 0..bounds.connections

\* Connections to one peer, one after the other, are kept apart: what an end is
\* told comes from the connection there is, not from one that was dropped; and a
\* connection answers offers made under one certificate only.
ConnectionsAreKeptApart ==
  \A e \in End :
    /\ states[e] # "none" => Has(e) /\ past[e].about = conn[e].cert
    /\ events[e] # <<>> => Has(e) /\ \A i \in DOMAIN events[e] : events[e][i].of = conn[e].cert
    /\ Has(e) /\ conn[e].role = "Answerer" =>
         /\ conn[e].remote.cert \in {0, fingerprint[e]}
         /\ \A s \in Range(conn[e].queue) : s.kind = "Offer" => s.of.cert = fingerprint[e]

\* However offers replace, fail and overtake each other in one connection, a
\* candidate never leaves before the description it belongs to, unless that
\* description never leaves at all.
CandidatesFollowTheirDescription == \A e \in End : past[e].early \cap past[e].sent = {}

\* While an app believes a peer is reconnecting, the deadline is running, and
\* from when it was told, whatever is lost and restarted meanwhile.
DeadlineRunsFromTheLoss ==
  \A e \in End : states[e] = "Reconnecting" => since[e] # Off /\ since[e] = past[e].lostFor

\* A candidate whose description was sent and could be applied is refused only
\* by an offerer, and only if it was not gathered for its connection: the peer
\* offers too, or answered an offer of a connection this end has dropped.
OnlyStrangersAreRefused ==
  [][\A e \in End : discarded'[e] # discarded[e] =>
       \/ conn[e].broken \/ Foremost(e).of \notin past[Other(e)].sent
       \/ conn[e].role = "Offerer" /\ Foremost(e).to # conn[e].cert]_vars

\* The doc of PeerState::Connected: "The reliable data channel is open."
ConnectedMeansOpen ==
  \A e \in End : states[e] = "Connected" => conn[e].channel # "new"
==============================================================================
