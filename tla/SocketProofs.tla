------------------------------ MODULE SocketProofs ------------------------------
(***************************************************************************)
(* What a pair of sockets keeps, whatever the timeouts and the tests:      *)
(* first what one connection may hold, say and take in whatever the other  *)
(* end does, then the two ends and the wire between them.                  *)
(***************************************************************************)
EXTENDS Socket, SequenceProofs

------------------------------------------------------------------------------
\* The inductive invariant

Reported == [state : PeerState, of : 1..bounds.connections]
Ages == {Off} \cup 0..bounds.timeout
Shape ==
  /\ bounds \in Instances /\ made \in 0..bounds.connections
  /\ conn \in [End -> Connection \cup {NoConnection}]
  /\ events \in [End -> Seq(Reported)]
  /\ states \in [End -> {"none"} \cup PeerState]
  /\ since \in [End -> Ages]
  /\ fingerprint \in [End -> 0..bounds.connections]
  /\ superseded \in [End -> BOOLEAN]
  /\ discarded \in [End -> Nat]
  /\ wire \in [End -> Seq(Signal)]
  /\ past \in [End -> Pasts]

GateSound(c) ==
  /\ c.holds = c.aborted + (IF c.offer = "making" THEN 1 ELSE 0)
                         + (IF c.answering THEN 1 ELSE 0)
  /\ c.holds = 0 => c.held = <<>>

\* What is held back is of this connection; nothing was sent of a round to
\* come, nor of one that is being described.
HeldSound(c, n) ==
  \A i \in DOMAIN c.held :
    /\ c.held[i].kind = "Candidate" /\ c.held[i].to <= n
    /\ c.held[i].of.cert = c.cert /\ c.held[i].of.round <= c.round
RoundsSound(c, p) ==
  /\ \A d \in p.sent \cup p.early : d.cert = c.cert => d.round <= c.round
  /\ c.offer = "making" \/ c.answering => Own(c) \notin p.sent \cup p.early

AnswererSound(c, fp) ==
  /\ c.offer = "none" /\ ~c.pending /\ c.aborted = 0
  /\ fp # 0 /\ c.remote.cert \in {0, fp}
  /\ \A i \in DOMAIN c.queue : c.queue[i].kind = "Offer" => c.queue[i].of.cert = fp
  /\ \A i \in DOMAIN c.held : c.held[i].of = Own(c) /\ c.held[i].to = c.remote.cert
  /\ c.answering => c.remote.cert # 0
  /\ c.remote = Nobody /\ ~c.broken => c.queue # <<>> /\ Head(c.queue).kind = "Offer"
OffererSound(c) ==
  /\ ~c.answering
  /\ \A i \in DOMAIN c.queue : c.queue[i].kind # "Offer"

ConnectionSound(c, fp, p, n) ==
  /\ c.cert <= n /\ c.remote.cert <= n
  /\ GateSound(c) /\ HeldSound(c, n) /\ RoundsSound(c, p)
  /\ c.role = "Answerer" => AnswererSound(c, fp)
  /\ c.role = "Offerer" => OffererSound(c)

PastSound(p, n) ==
  /\ p.early \cap p.sent = {}
  /\ \A d \in p.sent \cup p.early : d.cert \in 1..n

\* Signals of an end with this past.
SignalsSound(q, p, n) ==
  \A i \in DOMAIN q : /\ q[i].of.cert \in 1..n /\ q[i].to <= n
                      /\ q[i].kind = "Candidate" => q[i].of \in p.sent \cup p.early

ToldSound(e) ==
  /\ states[e] # "none" => Has(e) /\ past[e].about = conn[e].cert
  /\ events[e] # <<>> => Has(e) /\ \A i \in DOMAIN events[e] : events[e][i].of = conn[e].cert
  /\ states[e] = "Reconnecting" => since[e] # Off /\ since[e] = past[e].lostFor
  /\ states[e] = "Connected" => since[e] = Off

\* One end: its connection, the certificate it answers, its past, the other's,
\* what is on its way from it, and the connections made.
EndSound(c, fp, p, po, out, n) ==
  /\ c # NoConnection => ConnectionSound(c, fp, p, n) /\ SignalsSound(c.queue, po, n)
  /\ PastSound(p, n)
  /\ SignalsSound(out, p, n)

Unnamed(q, n) == \A i \in DOMAIN q : q[i].to # n
Without(q, kind, n) == \A i \in DOMAIN q : q[i].kind = kind => q[i].of.cert # n
AnswerWithin(q, k, n) == \E j \in 1..k : q[j].kind = "Answer" /\ q[j].to = n
AnswerIn(q, n) == AnswerWithin(q, Len(q), n)
NamedAndSent(s, n, sent) == s.kind = "Candidate" /\ s.to = n /\ s.of \in sent

\* An offerer that has not been answered, with connection c: so long as it has
\* offered nothing, nothing on the way to it is addressed to it; and a candidate
\* addressed to it, of a description that was sent, has an answer before it.
\* in: signals on their way to it.
UnofferedSound(c, out, in) ==
  Without(out, "Offer", c.cert) /\ Unnamed(c.queue, c.cert) /\ Unnamed(in, c.cert)
AnswersComeFirst(c, in, sent) ==
  /\ \A k \in DOMAIN c.queue : NamedAndSent(c.queue[k], c.cert, sent) => AnswerWithin(c.queue, k, c.cert)
  /\ \A k \in DOMAIN in : NamedAndSent(in[k], c.cert, sent) =>
       AnswerIn(c.queue, c.cert) \/ AnswerWithin(in, k, c.cert)
Waits(c) == c.remote = Nobody /\ ~c.broken

\* What the other end's connection d has to do with c.
UnknownTo(c, d) == d.remote.cert # c.cert
PeerSound(c, d, in, sent) ==
  /\ Without(d.queue, "Answer", c.cert)
  /\ d.role = "Offerer" => UnknownTo(c, d) /\ Unnamed(d.held, c.cert)
  /\ Waits(c) /\ ~c.pending => Without(d.queue, "Offer", c.cert) /\ UnknownTo(c, d)
  /\ Waits(c) /\ ~UnknownTo(c, d) /\ Own(d) \in sent => AnswerIn(c.queue, c.cert) \/ AnswerIn(in, c.cert)

OffererLinked(c, out, in, sent) ==
  /\ Without(out, "Answer", c.cert)
  /\ Waits(c) /\ ~c.pending => UnofferedSound(c, out, in)
  /\ Waits(c) => AnswersComeFirst(c, in, sent)

LinkSound(c, d, out, in, sent) ==
  c # NoConnection /\ c.role = "Offerer" =>
    /\ OffererLinked(c, out, in, sent)
    /\ d # NoConnection => PeerSound(c, d, in, sent)

Pair(c, d, fp, fo, p, po, w, wo, n) ==
  /\ EndSound(c, fp, p, po, w, n) /\ EndSound(d, fo, po, p, wo, n)
  /\ LinkSound(c, d, w, wo, po.sent) /\ LinkSound(d, c, wo, w, p.sent)
Linked(e) == Pair(conn[e], conn[Other(e)], fingerprint[e], fingerprint[Other(e)],
                  past[e], past[Other(e)], wire[e], wire[Other(e)], made)
LinkInv == Shape /\ \A e \in End : Linked(e)
ToldInv == \A e \in End : ToldSound(e)

------------------------------------------------------------------------------
\* Facts about the parts
LEMMA BoundsAre ==
  ASSUME bounds \in Instances
  PROVE  /\ bounds.connections \in Nat /\ bounds.timeout \in Nat /\ bounds.restarts \in Nat
         /\ bounds.rounds \in Nat
<1>1. {bounds.connections, bounds.drops, bounds.presses, bounds.losses, bounds.failures} \subseteq Nat
  BY BoundAssumption
<1>2. {bounds.rounds, bounds.timeout, bounds.restarts} \subseteq Nat
  BY BoundAssumption
<1> QED
  BY <1>1, <1>2

\* The fields of a signal, and their bounds.
LEMMA SignalFields ==
  ASSUME NEW s \in Signal, bounds \in Instances
  PROVE  /\ s.kind \in {"Offer", "Answer", "Candidate"} /\ s.of \in Description
         /\ s.to \in Nat /\ s.to <= bounds.connections
         /\ s.of.cert \in Nat /\ s.of.cert <= bounds.connections /\ s.of.round \in Nat
BY BoundsAre DEF Signal, Description

\* The same of every signal of a queue.
LEMMA SignalsAre ==
  ASSUME NEW q \in Seq(Signal), bounds \in Instances
  PROVE  \A i \in DOMAIN q :
           /\ q[i] \in Signal /\ q[i].kind \in {"Offer", "Answer", "Candidate"}
           /\ q[i].of \in Description /\ q[i].to \in Nat /\ q[i].to <= bounds.connections
           /\ q[i].of.cert \in Nat /\ q[i].of.cert <= bounds.connections /\ q[i].of.round \in Nat
<1>1. \A i \in DOMAIN q : q[i] \in Signal
  OBVIOUS
<1> QED
  BY <1>1, SignalFields

\* There are two ends, each the other of the other.
LEMMA OtherEnd == \A e \in End : Other(e) \in End /\ Other(e) # e /\ Other(Other(e)) = e /\ End = {e, Other(e)}
BY DEF End, Other

\* The fields of a connection, and its own description.
LEMMA Fields ==
  ASSUME NEW c \in Connection, bounds \in Instances
  PROVE  /\ c.cert \in Nat /\ c.cert > 0 /\ c.cert <= bounds.connections /\ c.role \in {"Offerer", "Answerer"}
         /\ c.restarts \in 0..bounds.restarts /\ c.recovering \in BOOLEAN /\ c.reached \in BOOLEAN
         /\ c.round \in Nat /\ c.gathered \in Nat /\ c.remote \in Description /\ c.pending \in BOOLEAN
         /\ c.offer \in {"none", "spawned", "making"} /\ c.aborted \in Nat /\ c.answering \in BOOLEAN
         /\ c.queue \in Seq(Signal) /\ c.holds \in Nat /\ c.held \in Seq(Signal)
         /\ c.ice \in {"new", "connected", "lost", "failed"} /\ c.channel \in {"new", "open", "closed"}
         /\ c.failed \in BOOLEAN /\ c.broken \in BOOLEAN
         /\ c.remote.cert \in Nat /\ c.remote.cert <= bounds.connections /\ c.remote.round \in Nat
         /\ c # NoConnection
         /\ Own(c) \in Description /\ Own(c).cert = c.cert /\ Own(c).round = c.round
<1>0. bounds.connections \in Nat
  BY BoundsAre
<1>1. /\ c.cert \in 1..bounds.connections /\ c.role \in {"Offerer", "Answerer"}
      /\ c.restarts \in 0..bounds.restarts /\ c.recovering \in BOOLEAN /\ c.reached \in BOOLEAN
      /\ c.round \in Nat /\ c.gathered \in Nat /\ c.remote \in Description /\ c.pending \in BOOLEAN
      /\ c.offer \in {"none", "spawned", "making"} /\ c.aborted \in Nat /\ c.answering \in BOOLEAN
      /\ c.queue \in Seq(Signal) /\ c.holds \in Nat /\ c.held \in Seq(Signal)
      /\ c.ice \in {"new", "connected", "lost", "failed"} /\ c.channel \in {"new", "open", "closed"}
      /\ c.failed \in BOOLEAN /\ c.broken \in BOOLEAN
  BY DEF Connection
<1>2. c.cert \in Nat /\ c.cert > 0 /\ c.cert <= bounds.connections
  BY <1>0, <1>1
<1>3. c.remote.cert \in Nat /\ c.remote.cert <= bounds.connections /\ c.remote.round \in Nat
  BY <1>0, <1>1 DEF Description
<1>4. c # NoConnection
  <2> SUFFICES ASSUME c = NoConnection PROVE FALSE
    OBVIOUS
  <2>1. DOMAIN c = {"cert"}
    BY DEF NoConnection
  <2>2. "role" \in DOMAIN c
    BY DEF Connection
  <2> QED
    BY <2>1, <2>2
<1>5. Own(c) \in Description /\ Own(c).cert = c.cert /\ Own(c).round = c.round
  BY <1>1, <1>2 DEF Own, Description
<1> QED
  BY <1>1, <1>2, <1>3, <1>4, <1>5

------------------------------------------------------------------------------
\* What goes out

\* The signals q, and what there is of them in the past after them.
PastWith(q, p) == [p EXCEPT !.sent = @ \cup {s.of : s \in {t \in Range(q) : t.kind # "Candidate"}},
   !.early = @ \cup {q[i].of : i \in {i \in DOMAIN q :
                  /\ q[i].kind = "Candidate" /\ q[i].of \notin p.sent
                  /\ \A j \in 1..(i - 1) : q[j].kind # "Candidate" => q[j].of # q[i].of}}]
\* One description at most, and that first; the candidates of this connection.
Batch(q, c, p, n) ==
  \A i \in DOMAIN q :
    /\ q[i].of.cert = c.cert /\ q[i].of.round <= c.round /\ q[i].to <= n
    /\ q[i].kind # "Candidate" => i = 1 /\ q[i].of = Own(c) /\ Own(c) \notin p.early

After(q, p, p2) ==
  /\ p.sent \subseteq p2.sent /\ p.early \subseteq p2.early
  /\ p2.about = p.about /\ p2.lostFor = p.lostFor
  /\ \A d \in p2.sent : d \in p.sent \/ \E i \in DOMAIN q : q[i].kind # "Candidate" /\ q[i].of = d
  /\ \A d \in p2.early :
       d \in p.early \/ \E i \in DOMAIN q :
         /\ q[i].kind = "Candidate" /\ q[i].of = d /\ d \notin p.sent
         /\ \A j \in 1..(i - 1) : q[j].kind # "Candidate" => q[j].of # d
  /\ \A i \in DOMAIN q : q[i].of \in p2.sent \cup p2.early
  /\ p2 \in Pasts

\* The fields of an end's past.
LEMMA PastFields ==
  ASSUME NEW p \in Pasts
  PROVE  /\ p.sent \subseteq Description /\ p.early \subseteq Description
         /\ p.about \in 0..bounds.connections /\ p.lostFor \in Ages
BY DEF Pasts, Ages

\* Emit brings a past to what the signals make of it.
LEMMA AfterEmit ==
  ASSUME NEW q \in Seq(Signal), NEW p \in Pasts, bounds \in Instances
  PROVE  After(q, p, PastWith(q, p))
<1> DEFINE S == p.sent \cup {s.of : s \in {t \in Range(q) : t.kind # "Candidate"}}
           I == {i \in DOMAIN q :
                  /\ q[i].kind = "Candidate" /\ q[i].of \notin p.sent
                  /\ \A j \in 1..(i - 1) : q[j].kind # "Candidate" => q[j].of # q[i].of}
           E == p.early \cup {q[i].of : i \in I}
           p2 == PastWith(q, p)
<1>1. /\ p.sent \subseteq Description /\ p.early \subseteq Description
      /\ p.about \in 0..bounds.connections /\ p.lostFor \in {Off} \cup 0..bounds.timeout
  BY DEF Pasts
<1>2. \A i \in DOMAIN q : q[i].of \in Description
  BY SignalsAre
<1>3. p2 = [p EXCEPT !.sent = S, !.early = E]
  BY DEF PastWith
<1>4. Range(q) = {q[i] : i \in DOMAIN q}
  BY DEF Range
<1>5. S \subseteq Description
  BY <1>1, <1>2, <1>4
<1>6. E \subseteq Description
  BY <1>1, <1>2
<1>7. \A d \in S : d \in p.sent \/ \E i \in DOMAIN q : q[i].kind # "Candidate" /\ q[i].of = d
  BY <1>4
<1>8. \A d \in E :
       d \in p.early \/ \E i \in DOMAIN q :
         /\ q[i].kind = "Candidate" /\ q[i].of = d /\ d \notin p.sent
         /\ \A j \in 1..(i - 1) : q[j].kind # "Candidate" => q[j].of # d
  OBVIOUS
<1>9. \A i \in DOMAIN q : q[i].of \in S \cup E
  <2> SUFFICES ASSUME NEW i \in DOMAIN q PROVE q[i].of \in S \cup E
    OBVIOUS
  <2>1. CASE q[i].kind # "Candidate"
    BY <2>1, <1>4
  <2>2. CASE q[i].kind = "Candidate" /\ q[i].of \in p.sent
    BY <2>2
  <2>3. CASE \E j \in 1..(i - 1) : q[j].kind # "Candidate" /\ q[j].of = q[i].of
    <3>1. PICK j \in 1..(i - 1) : q[j].kind # "Candidate" /\ q[j].of = q[i].of
      BY <2>3
    <3>2. j \in DOMAIN q
      BY <3>1
    <3> QED
      BY <3>1, <3>2, <1>4
  <2>4. CASE i \in I
    BY <2>4
  <2> QED
    BY <2>1, <2>2, <2>3, <2>4
<1> HIDE DEF S, E, I, p2
<1>10. p2.sent = S /\ p2.early = E /\ p2.about = p.about /\ p2.lostFor = p.lostFor
  <2>1. DOMAIN p = {"sent", "early", "about", "lostFor"}
    BY DEF Pasts
  <2> QED
    BY <1>3, <2>1
<1>11. p2 \in Pasts
  BY <1>1, <1>3, <1>5, <1>6 DEF Pasts
<1>12. p.sent \subseteq S /\ p.early \subseteq E
  BY DEF S, E
<1> QED
  BY <1>7, <1>8, <1>9, <1>10, <1>11, <1>12 DEF After, p2

\* However it goes on, no candidate has gone before a description that has.
LEMMA BatchKeeps ==
  ASSUME NEW q \in Seq(Signal), NEW c, NEW n, NEW p, NEW p2, After(q, p, p2), Batch(q, c, p, n),
         PastSound(p, n), c.cert \in 1..n
  PROVE  PastSound(p2, n)
<1>1. \A d \in p2.sent \cup p2.early : d.cert \in 1..n
  BY DEF After, Batch, PastSound
<1>2. ASSUME NEW d \in p2.early, d \in p2.sent PROVE FALSE
  <2>1. CASE d \in p.early
    <3>1. d \notin p.sent
      BY <2>1 DEF PastSound
    <3>2. PICK i \in DOMAIN q : q[i].kind # "Candidate" /\ q[i].of = d
      BY <1>2, <3>1 DEF After
    <3> QED
      BY <2>1, <3>2 DEF Batch
  <2>2. CASE d \notin p.early
    <3>1. PICK i \in DOMAIN q :
            /\ q[i].kind = "Candidate" /\ q[i].of = d /\ d \notin p.sent
            /\ \A j \in 1..(i - 1) : q[j].kind # "Candidate" => q[j].of # d
      BY <2>2 DEF After
    <3>2. PICK k \in DOMAIN q : q[k].kind # "Candidate" /\ q[k].of = d
      BY <1>2, <3>1 DEF After
    <3>3. k = 1 /\ i # k
      BY <3>1, <3>2 DEF Batch
    <3>4. 1 \in 1..(i - 1)
      BY <3>3
    <3> QED
      BY <3>1, <3>2, <3>3, <3>4
  <2> QED
    BY <2>1, <2>2
<1> QED
  BY <1>1, <1>2 DEF PastSound

\* And nothing of a later round of the connection has gone.
LEMMA BatchRounds ==
  ASSUME NEW q \in Seq(Signal), NEW c, NEW n, NEW p, NEW p2, After(q, p, p2), Batch(q, c, p, n),
         \A d \in p.sent \cup p.early : d.cert = c.cert => d.round <= c.round
  PROVE  \A d \in p2.sent \cup p2.early : d.cert = c.cert => d.round <= c.round
BY DEF After, Batch

\* A past that only grows accounts for what it accounted for.
LEMMA SignalsStay ==
  ASSUME NEW q, NEW p, NEW p2, NEW n \in Nat, NEW n2 \in Nat, n <= n2,
         p.sent \cup p.early \subseteq p2.sent \cup p2.early, q \in Seq(Signal),
         SignalsSound(q, p, n), bounds \in Instances
  PROVE  SignalsSound(q, p2, n2)
<1>1. \A i \in DOMAIN q : q[i].to \in Nat /\ q[i].of.cert \in Nat
  BY SignalsAre
<1> QED
  BY <1>1 DEF SignalsSound

\* What is added to the wire is accounted for by the past after it.
LEMMA BatchSignals ==
  ASSUME NEW q \in Seq(Signal), NEW w \in Seq(Signal), NEW c, NEW n \in Nat, NEW p, NEW p2,
         After(q, p, p2), Batch(q, c, p, n), SignalsSound(w, p, n), c.cert \in 1..n, bounds \in Instances
  PROVE  SignalsSound(w \o q, p2, n)
<1>1. SignalsSound(w, p2, n)
  BY SignalsStay DEF After
<1>2. SignalsSound(q, p2, n)
  BY DEF After, Batch, SignalsSound
<1>3. ASSUME NEW i \in DOMAIN (w \o q)
      PROVE  (i \in DOMAIN w /\ (w \o q)[i] = w[i]) \/ \E j \in DOMAIN q : (w \o q)[i] = q[j]
  <2>1. i \in 1..(Len(w) + Len(q)) 
    OBVIOUS
  <2>2. CASE i <= Len(w)
    BY <2>1, <2>2
  <2>3. CASE i > Len(w)
    <3>1. i - Len(w) \in DOMAIN q /\ (w \o q)[i] = q[i - Len(w)]
      BY <2>1, <2>3
    <3> QED
      BY <3>1
  <2> QED
    BY <2>1, <2>2, <2>3
<1> QED
  BY <1>1, <1>2, <1>3 DEF SignalsSound

\* r is q without its first, s.
Popped(q, s, r) ==
  /\ r \in Seq(Signal) /\ s \in Signal /\ 1 \in DOMAIN q /\ q[1] = s
  /\ \A i \in DOMAIN r : i + 1 \in DOMAIN q /\ r[i] = q[i + 1]
  /\ \A i \in DOMAIN q : i # 1 => i - 1 \in DOMAIN r /\ r[i - 1] = q[i]
  /\ Len(q) = Len(r) + 1

\* Tail takes the first of a queue.
LEMMA TailPops ==
  ASSUME NEW q \in Seq(Signal), q # <<>>
  PROVE  Popped(q, Head(q), Tail(q))
BY DEF Popped

\* r is q and then s.
Pushed(q, s, r) ==
  /\ r \in Seq(Signal) /\ r # <<>>
  /\ \A i \in DOMAIN r : (i \in DOMAIN q /\ r[i] = q[i]) \/ (i = Len(q) + 1 /\ r[i] = s)
  /\ \A i \in DOMAIN q : i \in DOMAIN r /\ r[i] = q[i]
  /\ r[Len(q) + 1] = s /\ Len(r) = Len(q) + 1
  /\ q # <<>> => Head(r) = Head(q)
  /\ q = <<>> => Head(r) = s

\* Append adds to the end of a queue.
LEMMA AppendPushes ==
  ASSUME NEW q \in Seq(Signal), NEW s \in Signal
  PROVE  Pushed(q, s, Append(q, s))
BY DEF Pushed

\* r is q behind w.
Joined(w, q, r) ==
  /\ r \in Seq(Signal) /\ Len(r) = Len(w) + Len(q)
  /\ \A i \in DOMAIN r : \/ i \in DOMAIN w /\ r[i] = w[i]
                         \/ i - Len(w) \in DOMAIN q /\ r[i] = q[i - Len(w)]
  /\ \A i \in DOMAIN w : i \in DOMAIN r /\ r[i] = w[i]
  /\ \A i \in DOMAIN q : i + Len(w) \in DOMAIN r /\ r[i + Len(w)] = q[i]

\* \o puts one queue behind another.
LEMMA ConcatJoins ==
  ASSUME NEW w \in Seq(Signal), NEW q \in Seq(Signal)
  PROVE  Joined(w, q, w \o q)
<1>1. w \o q \in Seq(Signal) /\ Len(w \o q) = Len(w) + Len(q)
  OBVIOUS
<1>2. \A i \in DOMAIN w : i \in DOMAIN (w \o q) /\ (w \o q)[i] = w[i]
  OBVIOUS
<1>3. \A i \in DOMAIN q : i + Len(w) \in DOMAIN (w \o q) /\ (w \o q)[i + Len(w)] = q[i]
  OBVIOUS
<1>4. ASSUME NEW i \in DOMAIN (w \o q)
      PROVE  \/ i \in DOMAIN w /\ (w \o q)[i] = w[i]
             \/ i - Len(w) \in DOMAIN q /\ (w \o q)[i] = q[i - Len(w)]
  <2>1. i \in 1..(Len(w) + Len(q))
    OBVIOUS
  <2>2. CASE i <= Len(w)
    BY <2>1, <2>2
  <2>3. CASE i > Len(w)
    BY <2>1, <2>3
  <2> QED
    BY <2>1, <2>2, <2>3
<1> QED
  BY <1>1, <1>2, <1>3, <1>4 DEF Joined

------------------------------------------------------------------------------
\* What an end says

\* From the connection c of an end to c2, which has sent q.
Speaks(c, c2, q) ==
  /\ c2.cert = c.cert /\ c2.role = c.role /\ c2.round = c.round /\ c2.remote = c.remote
  /\ c2.queue = c.queue /\ c2.broken = c.broken /\ (c.pending => c2.pending)
  /\ \A i \in DOMAIN q : q[i].to \in {0, c.remote.cert} \/ \E j \in DOMAIN c.held : q[i].to = c.held[j].to
  /\ \A i \in DOMAIN c2.held : c2.held[i].to = c.remote.cert \/ \E j \in DOMAIN c.held : c2.held[i].to = c.held[j].to
  /\ c.role = "Offerer" => \A i \in DOMAIN q : q[i].kind # "Answer" /\ (q[i].kind = "Offer" => c2.pending)
  /\ c.role = "Answerer" => \A i \in DOMAIN q :
       /\ q[i].of = Own(c) /\ q[i].to = c.remote.cert
       /\ q[i].kind # "Candidate" => q[i].kind = "Answer"

\* No description of a certificate is in two queues joined if it is in neither.
LEMMA WithoutConcat ==
  ASSUME NEW w, NEW q, NEW r, Joined(w, q, r), NEW kind, NEW n
  PROVE  Without(r, kind, n) <=> Without(w, kind, n) /\ Without(q, kind, n)
BY DEF Joined, Without

\* Nothing is addressed to a certificate in two queues joined if it is not in
\* either.
LEMMA UnnamedConcat ==
  ASSUME NEW w, NEW q, NEW r, Joined(w, q, r), NEW n
  PROVE  Unnamed(r, n) <=> Unnamed(w, n) /\ Unnamed(q, n)
BY DEF Joined, Unnamed

\* An answer that was before a signal still is when two queues are joined.
LEMMA AnswerConcat ==
  ASSUME NEW w \in Seq(Signal), NEW q \in Seq(Signal), NEW r, Joined(w, q, r), NEW n
  PROVE  /\ \A k \in 1..Len(w) : AnswerWithin(w, k, n) => AnswerWithin(r, k, n)
         /\ \A k \in 1..Len(q) : AnswerWithin(q, k, n) => AnswerWithin(r, k + Len(w), n)
         /\ \A k \in 1..Len(q) : AnswerIn(w, n) => AnswerWithin(r, k + Len(w), n)
         /\ AnswerIn(w, n) \/ AnswerIn(q, n) => AnswerIn(r, n)
<1>0. /\ \A i \in DOMAIN w : i \in DOMAIN r /\ r[i] = w[i]
      /\ \A i \in DOMAIN q : i + Len(w) \in DOMAIN r /\ r[i + Len(w)] = q[i]
      /\ Len(r) = Len(w) + Len(q)
  BY DEF Joined
<1>1. ASSUME NEW k \in 1..Len(w), AnswerWithin(w, k, n) PROVE AnswerWithin(r, k, n)
  <2>1. PICK j \in 1..k : w[j].kind = "Answer" /\ w[j].to = n
    BY <1>1 DEF AnswerWithin
  <2>2. j \in DOMAIN w
    BY <1>1
  <2> QED
    BY <2>1, <2>2, <1>0 DEF AnswerWithin
<1>2. ASSUME NEW k \in 1..Len(q), AnswerWithin(q, k, n) PROVE AnswerWithin(r, k + Len(w), n)
  <2>1. PICK j \in 1..k : q[j].kind = "Answer" /\ q[j].to = n
    BY <1>2 DEF AnswerWithin
  <2>2. j \in DOMAIN q /\ j + Len(w) \in 1..(k + Len(w))
    BY <1>2
  <2>3. r[j + Len(w)] = q[j]
    BY <2>2, <1>0
  <2> QED
    BY <2>1, <2>2, <2>3 DEF AnswerWithin
<1>3. ASSUME NEW k \in Nat, AnswerIn(w, n) PROVE AnswerWithin(r, k + Len(w), n)
  <2>1. PICK j \in 1..Len(w) : w[j].kind = "Answer" /\ w[j].to = n
    BY <1>3 DEF AnswerIn, AnswerWithin
  <2>2. j \in DOMAIN w /\ j \in 1..(k + Len(w))
    BY <1>3
  <2>3. r[j] = w[j]
    BY <2>2, <1>0
  <2> QED
    BY <2>1, <2>2, <2>3 DEF AnswerWithin
<1>4. Len(r) = Len(q) + Len(w) /\ Len(q) \in Nat /\ Len(w) \in Nat
  BY <1>0
<1>5. AnswerIn(w, n) => AnswerIn(r, n)
  BY <1>3, <1>4 DEF AnswerIn
<1>6. ASSUME AnswerIn(q, n) PROVE AnswerIn(r, n)
  <2>1. PICK j \in 1..Len(q) : q[j].kind = "Answer" /\ q[j].to = n
    BY <1>6 DEF AnswerIn, AnswerWithin
  <2>2. Len(q) \in 1..Len(q)
    BY <2>1, <1>4
  <2> QED
    BY <1>2, <1>4, <1>6, <2>2 DEF AnswerIn
<1> QED
  BY <1>1, <1>2, <1>3, <1>5, <1>6, SMTT(30)

\* What an offerer says.
LEMMA OffererSpeaks ==
  ASSUME NEW c, NEW c2, NEW q \in Seq(Signal), NEW out \in Seq(Signal), NEW outs, NEW in, NEW sent,
         Joined(out, q, outs),
         Speaks(c, c2, q), c.role = "Offerer", OffererLinked(c, out, in, sent)
  PROVE  OffererLinked(c2, outs, in, sent)
<1>1. Without(outs, "Answer", c2.cert)
  <2>1. Without(q, "Answer", c2.cert)
    BY DEF Speaks, Without
  <2> QED
    BY <2>1, WithoutConcat DEF Speaks, OffererLinked
<1>2. Waits(c2) => Waits(c)
  BY DEF Speaks, Waits
<1>3. ASSUME Waits(c2), ~c2.pending PROVE UnofferedSound(c2, outs, in)
  <2>1. Without(q, "Offer", c2.cert)
    BY <1>3 DEF Speaks, Without
  <2>2. UnofferedSound(c, out, in)
    BY <1>2, <1>3 DEF Speaks, OffererLinked
  <2> QED
    BY <2>1, <2>2, WithoutConcat DEF Speaks, UnofferedSound
<1>4. Waits(c2) => AnswersComeFirst(c2, in, sent)
  BY <1>2 DEF Speaks, OffererLinked, AnswersComeFirst
<1> QED
  BY <1>1, <1>3, <1>4 DEF OffererLinked

\* What it says changes nothing of what its peer is to an offerer.
LEMMA OffererSpeaksToPeer ==
  ASSUME NEW c, NEW c2, NEW q, NEW d, NEW in, NEW sent, Speaks(c, c2, q), PeerSound(c, d, in, sent)
  PROVE  PeerSound(c2, d, in, sent)
BY DEF Speaks, PeerSound, UnknownTo, Waits

\* What the other end says to an offerer with connection c.
LEMMA PeerSpeaks ==
  ASSUME NEW c \in Connection, NEW d \in Connection, NEW d2 \in Connection, NEW q \in Seq(Signal), NEW out, NEW in \in Seq(Signal),
         NEW ins, Joined(in, q, ins),
         NEW p, NEW p2, NEW n \in Nat, bounds \in Instances,
         Speaks(d, d2, q), After(q, p, p2), Batch(q, d, p, n),
         \A i \in DOMAIN q : q[i].kind # "Candidate" => Own(d) \notin p.sent \cup p.early,
         SignalsSound(c.queue, p, n), SignalsSound(in, p, n),
         OffererLinked(c, out, in, p.sent), PeerSound(c, d, in, p.sent)
  PROVE  /\ OffererLinked(c, out, ins, p2.sent)
         /\ PeerSound(c, d2, ins, p2.sent)
<1>00. \A i \in DOMAIN ins : \/ i \in DOMAIN in /\ ins[i] = in[i]
                             \/ i - Len(in) \in DOMAIN q /\ ins[i] = q[i - Len(in)]
  BY DEF Joined
<1>0. /\ c.cert \in Nat /\ c.cert # 0 /\ c.queue \in Seq(Signal) /\ d.role \in {"Offerer", "Answerer"}
      /\ Own(d2) = Own(d)
  <2>1. c.cert \in Nat /\ c.cert # 0 /\ c.queue \in Seq(Signal) /\ d.role \in {"Offerer", "Answerer"}
    BY Fields
  <2>2. Own(d2) = Own(d)
    BY DEF Speaks, Own
  <2> QED
    BY <2>1, <2>2
\* It is addressed to c by an answerer that knows c, or not at all.
<1>1. \A i \in DOMAIN q : q[i].to = c.cert => d.role = "Answerer" /\ ~UnknownTo(c, d)
  BY <1>0 DEF Speaks, PeerSound, UnknownTo, Unnamed
\* What is on its way was sent before.
<1>2. ASSUME NEW s, s.of \in p.sent \cup p.early, s.of \in p2.sent PROVE s.of \in p.sent
  <2> SUFFICES ASSUME s.of \notin p.sent PROVE FALSE
    OBVIOUS
  <2>1. PICK i \in DOMAIN q : q[i].kind # "Candidate" /\ q[i].of = s.of
    BY <1>2 DEF After
  <2>2. q[i].of = Own(d)
    BY <2>1 DEF Batch
  <2> QED
    BY <1>2, <2>1, <2>2
\* A candidate addressed to c, of a description that was sent, comes behind an answer.
<1>3. ASSUME NEW k \in DOMAIN q, NamedAndSent(q[k], c.cert, p2.sent), Waits(c)
      PROVE  AnswerWithin(q, k, c.cert) \/ AnswerIn(c.queue, c.cert) \/ AnswerIn(in, c.cert)
  <2>1. d.role = "Answerer" /\ ~UnknownTo(c, d) /\ d.remote.cert = c.cert /\ q[k].of = Own(d)
    BY <1>1, <1>3 DEF NamedAndSent, UnknownTo, Speaks
  <2>2. CASE Own(d) \in p.sent
    BY <1>3, <2>1, <2>2 DEF PeerSound
  <2>3. CASE Own(d) \notin p.sent
    <3>1. PICK i \in DOMAIN q : q[i].kind # "Candidate" /\ q[i].of = Own(d)
      BY <1>3, <2>1, <2>3 DEF After, NamedAndSent
    <3>2. i = 1 /\ q[i].kind = "Answer" /\ q[i].to = c.cert
      BY <3>1, <2>1 DEF Batch, Speaks
    <3>3. 1 \in 1..k
      OBVIOUS
    <3> QED
      BY <3>2, <3>3 DEF AnswerWithin
  <2> QED
    BY <2>2, <2>3
<1>4. OffererLinked(c, out, ins, p2.sent)
  <2>1. Waits(c) /\ ~c.pending => UnofferedSound(c, out, ins)
    <3> SUFFICES ASSUME Waits(c), ~c.pending PROVE UnofferedSound(c, out, ins)
      OBVIOUS
    <3>1. UnknownTo(c, d) /\ UnofferedSound(c, out, in)
      BY DEF OffererLinked, PeerSound
    <3>2. Unnamed(q, c.cert)
      BY <1>1, <3>1 DEF Unnamed
    <3> QED
      BY <3>1, <3>2, UnnamedConcat DEF UnofferedSound
  <2>2. ASSUME Waits(c), NEW k \in DOMAIN c.queue, NamedAndSent(c.queue[k], c.cert, p2.sent)
        PROVE  AnswerWithin(c.queue, k, c.cert)
    <3>1. c.queue[k].of \in p.sent
      BY <1>2, <2>2 DEF NamedAndSent, SignalsSound
    <3> QED
      BY <2>2, <3>1 DEF NamedAndSent, OffererLinked, AnswersComeFirst
  <2>3. ASSUME Waits(c), NEW k \in DOMAIN ins, NamedAndSent(ins[k], c.cert, p2.sent)
        PROVE  AnswerIn(c.queue, c.cert) \/ AnswerWithin(ins, k, c.cert)
    <3>1. CASE k \in DOMAIN in /\ ins[k] = in[k]
      <4>1. in[k].of \in p.sent
        BY <1>2, <2>3, <3>1 DEF NamedAndSent, SignalsSound
      <4>2. AnswerIn(c.queue, c.cert) \/ AnswerWithin(in, k, c.cert)
        BY <2>3, <3>1, <4>1 DEF NamedAndSent, OffererLinked, AnswersComeFirst
      <4>3. k \in 1..Len(in)
        BY <3>1
      <4> QED
        BY <3>1, <4>2, <4>3, AnswerConcat
    <3>2. CASE k - Len(in) \in DOMAIN q /\ ins[k] = q[k - Len(in)]
      <4> DEFINE j == k - Len(in)
      <4>1. AnswerWithin(q, j, c.cert) \/ AnswerIn(c.queue, c.cert) \/ AnswerIn(in, c.cert)
        BY <1>3, <2>3, <3>2
      <4>2. j \in 1..Len(q) /\ j + Len(in) = k
        <5>1. ins \in Seq(Signal) /\ Len(in) \in Nat
          BY DEF Joined
        <5>2. k \in Nat
          BY <5>1, <2>3
        <5> QED
          BY <3>2, <5>1, <5>2
      <4> HIDE DEF j
      <4> QED
        BY <4>1, <4>2, AnswerConcat
    <3> QED
      BY <3>1, <3>2, <1>00
  <2> QED
    BY <2>1, <2>2, <2>3 DEF OffererLinked, AnswersComeFirst
<1>5. PeerSound(c, d2, ins, p2.sent)
  <2>1. d2.role = "Offerer" => UnknownTo(c, d2) /\ Unnamed(d2.held, c.cert)
    <3> SUFFICES ASSUME d2.role = "Offerer" PROVE UnknownTo(c, d2) /\ Unnamed(d2.held, c.cert)
      OBVIOUS
    <3>1. UnknownTo(c, d) /\ Unnamed(d.held, c.cert)
      BY DEF Speaks, PeerSound
    <3> QED
      BY <3>1 DEF Speaks, UnknownTo, Unnamed
  <2>2. ASSUME Waits(c), ~UnknownTo(c, d2), Own(d2) \in p2.sent
        PROVE  AnswerIn(c.queue, c.cert) \/ AnswerIn(ins, c.cert)
    <3>1. ~UnknownTo(c, d) /\ d.role = "Answerer" /\ d.remote.cert = c.cert
      BY <1>0, <2>2 DEF Speaks, UnknownTo, PeerSound
    <3>2. CASE Own(d) \in p.sent
      BY <2>2, <3>1, <3>2, AnswerConcat DEF PeerSound
    <3>3. CASE Own(d) \notin p.sent
      <4>1. PICK i \in DOMAIN q : q[i].kind # "Candidate" /\ q[i].of = Own(d)
        BY <1>0, <2>2, <3>3 DEF After
      <4>2. q[i].kind = "Answer" /\ q[i].to = c.cert /\ i \in 1..Len(q)
        BY <3>1, <4>1 DEF Speaks
      <4>3. AnswerIn(q, c.cert)
        BY <4>2 DEF AnswerIn, AnswerWithin
      <4> QED
        BY <4>3, AnswerConcat
    <3> QED
      BY <3>2, <3>3
  <2> QED
    BY <2>1, <2>2 DEF PeerSound, Speaks, UnknownTo
<1> QED
  BY <1>4, <1>5

------------------------------------------------------------------------------
\* What the tasks of a connection do to it

\* A connection with one field set to a value of its type is a connection.
LEMMA Setting ==
  ASSUME NEW c \in Connection
  PROVE  /\ \A x \in 0..bounds.restarts : [c EXCEPT !.restarts = x] \in Connection
         /\ \A x \in BOOLEAN : /\ [c EXCEPT !.recovering = x] \in Connection
                               /\ [c EXCEPT !.reached = x] \in Connection
                               /\ [c EXCEPT !.pending = x] \in Connection
                               /\ [c EXCEPT !.answering = x] \in Connection
                               /\ [c EXCEPT !.failed = x] \in Connection
                               /\ [c EXCEPT !.broken = x] \in Connection
         /\ \A x \in Nat : /\ [c EXCEPT !.round = x] \in Connection
                           /\ [c EXCEPT !.gathered = x] \in Connection
                           /\ [c EXCEPT !.aborted = x] \in Connection
                           /\ [c EXCEPT !.holds = x] \in Connection
         /\ \A x \in Seq(Signal) : /\ [c EXCEPT !.queue = x] \in Connection
                                   /\ [c EXCEPT !.held = x] \in Connection
         /\ \A x \in Description : [c EXCEPT !.remote = x] \in Connection
         /\ \A x \in {"none", "spawned", "making"} : [c EXCEPT !.offer = x] \in Connection
         /\ \A x \in {"new", "connected", "lost", "failed"} : [c EXCEPT !.ice = x] \in Connection
         /\ \A x \in {"new", "open", "closed"} : [c EXCEPT !.channel = x] \in Connection
<1>1. \A x \in 0..bounds.restarts : [c EXCEPT !.restarts = x] \in Connection
  BY DEF Connection
<1>2. \A x \in BOOLEAN : [c EXCEPT !.recovering = x] \in Connection
  BY DEF Connection
<1>3. \A x \in BOOLEAN : [c EXCEPT !.reached = x] \in Connection
  BY DEF Connection
<1>4. \A x \in BOOLEAN : [c EXCEPT !.pending = x] \in Connection
  BY DEF Connection
<1>5. \A x \in BOOLEAN : [c EXCEPT !.answering = x] \in Connection
  BY DEF Connection
<1>6. \A x \in BOOLEAN : [c EXCEPT !.failed = x] \in Connection
  BY DEF Connection
<1>7. \A x \in BOOLEAN : [c EXCEPT !.broken = x] \in Connection
  BY DEF Connection
<1>8. \A x \in Nat : [c EXCEPT !.round = x] \in Connection
  BY DEF Connection
<1>9. \A x \in Nat : [c EXCEPT !.gathered = x] \in Connection
  BY DEF Connection
<1>10. \A x \in Nat : [c EXCEPT !.aborted = x] \in Connection
  BY DEF Connection
<1>11. \A x \in Nat : [c EXCEPT !.holds = x] \in Connection
  BY DEF Connection
<1>12. \A x \in Seq(Signal) : [c EXCEPT !.queue = x] \in Connection
  BY DEF Connection
<1>13. \A x \in Seq(Signal) : [c EXCEPT !.held = x] \in Connection
  BY DEF Connection
<1>14. \A x \in Description : [c EXCEPT !.remote = x] \in Connection
  BY DEF Connection
<1>15. \A x \in {"none", "spawned", "making"} : [c EXCEPT !.offer = x] \in Connection
  BY DEF Connection
<1>16. \A x \in {"new", "connected", "lost", "failed"} : [c EXCEPT !.ice = x] \in Connection
  BY DEF Connection
<1>17. \A x \in {"new", "open", "closed"} : [c EXCEPT !.channel = x] \in Connection
  BY DEF Connection
<1> QED
  BY <1>1, <1>2, <1>3, <1>4, <1>5, <1>6, <1>7, <1>8, <1>9, <1>10, <1>11, <1>12, <1>13,
     <1>14, <1>15, <1>16, <1>17

\* d is c but for what its tasks have in hand.
Alike(c, d) ==
  /\ d \in Connection
  /\ d.cert = c.cert /\ d.role = c.role /\ d.round = c.round /\ d.remote = c.remote
  /\ d.queue = c.queue /\ d.broken = c.broken
Hands(c) == <<c.offer, c.pending, c.aborted, c.answering, c.holds, c.held>>

\* Held::drop takes one hold away, and nothing else but what it held back.
LEMMA DroppedIs ==
  ASSUME NEW c \in Connection, bounds \in Instances, c.holds > 0
  PROVE  /\ Alike(c, Dropped(c))
         /\ Dropped(c).offer = c.offer /\ Dropped(c).pending = c.pending
         /\ Dropped(c).aborted = c.aborted /\ Dropped(c).answering = c.answering
         /\ Dropped(c).holds = c.holds - 1
         /\ Dropped(c).held = IF c.holds = 1 THEN <<>> ELSE c.held
<1> DEFINE h == IF c.holds = 1 THEN <<>> ELSE c.held
           d == [c EXCEPT !.holds = c.holds - 1, !.held = h]
<1>1. c.holds - 1 \in Nat /\ h \in Seq(Signal)
  BY Fields
<1>2. Dropped(c) = d
  BY DEF Dropped
<1> HIDE DEF h
<1>3. [c EXCEPT !.holds = c.holds - 1] \in Connection
  BY <1>1, Setting
<1>4. d \in Connection
  BY <1>1, <1>3, Setting
<1>5. /\ d.cert = c.cert /\ d.role = c.role /\ d.round = c.round /\ d.remote = c.remote
      /\ d.queue = c.queue /\ d.broken = c.broken
      /\ d.offer = c.offer /\ d.pending = c.pending /\ d.aborted = c.aborted
      /\ d.answering = c.answering /\ d.holds = c.holds - 1 /\ d.held = h
  BY DEF Connection
<1> QED
  BY <1>2, <1>4, <1>5 DEF Alike, h

\* What Held::drop lets go is what was held back, in its order.
LEMMA ReleasedAre ==
  ASSUME NEW c \in Connection, bounds \in Instances
  PROVE  /\ Released(c) \in Seq(Signal)
         /\ \A i \in DOMAIN Released(c) : c.holds = 1 /\ i \in DOMAIN c.held /\ Released(c)[i] = c.held[i]
BY Fields DEF Released

\* What is let go is fit to be sent.
LEMMA ReleasedBatch ==
  ASSUME NEW c \in Connection, NEW p, NEW n, bounds \in Instances, HeldSound(c, n)
  PROVE  Batch(Released(c), c, p, n)
BY ReleasedAre DEF Batch, HeldSound

\* q is s, and behind it what c has held back.
Leads(s, c, q) ==
  /\ q \in Seq(Signal) /\ 1 \in DOMAIN q /\ q[1] = s
  /\ \A i \in DOMAIN q : (i = 1 /\ q[i] = s) \/ \E j \in DOMAIN c.held : q[i] = c.held[j]

\* A description goes ahead of what it lets go.
LEMMA LeadingIs ==
  ASSUME NEW c \in Connection, bounds \in Instances, NEW s \in Signal
  PROVE  Leads(s, c, <<s>> \o Released(c))
<1> DEFINE q == <<s>> \o Released(c)
<1>1. <<s>> \in Seq(Signal) /\ Released(c) \in Seq(Signal)
  BY ReleasedAre
<1>2. Joined(<<s>>, Released(c), q)
  BY <1>1, ConcatJoins
<1> HIDE DEF q
<1>3. \A i \in DOMAIN q : (i = 1 /\ q[i] = s) \/ \E j \in DOMAIN c.held : q[i] = c.held[j]
  <2> DEFINE w == <<s>>
             r == Released(c)
  <2>1. \A i \in DOMAIN w : i = 1 /\ w[i] = s
    OBVIOUS
  <2>2. \A i \in DOMAIN r : \E j \in DOMAIN c.held : r[i] = c.held[j]
    BY ReleasedAre
  <2>3. Joined(w, r, q)
    BY <1>2
  <2> HIDE DEF w, r
  <2>4. ASSUME NEW i \in DOMAIN q PROVE (i = 1 /\ q[i] = s) \/ \E j \in DOMAIN c.held : q[i] = c.held[j]
    <3>1. \/ i \in DOMAIN w /\ q[i] = w[i]
          \/ i - Len(w) \in DOMAIN r /\ q[i] = r[i - Len(w)]
      BY <2>3 DEF Joined
    <3> QED
      BY <2>1, <2>2, <3>1
  <2> QED
    BY <2>4
<1>4. 1 \in DOMAIN q /\ q[1] = s
  <2>1. 1 \in DOMAIN <<s>> /\ <<s>>[1] = s
    OBVIOUS
  <2> QED
    BY <1>2, <2>1 DEF Joined
<1> QED
  BY <1>2, <1>3, <1>4 DEF Leads, Joined, q

\* A description of this round and what it lets go are fit to be sent.
LEMMA DescribedBatch ==
  ASSUME NEW c \in Connection, NEW p, NEW n \in Nat, bounds \in Instances, HeldSound(c, n),
         NEW s \in Signal, s.of = Own(c), s.to <= n, Own(c) \notin p.early, NEW q, Leads(s, c, q)
  PROVE  Batch(q, c, p, n)
<1>1. s.of.cert = c.cert /\ s.of.round = c.round /\ c.round \in Nat
  BY Fields
<1> QED
  BY <1>1 DEF Batch, HeldSound, Leads

\* An end goes on from c to c2, sending q.
Says(c, c2, q, fp, p, n) ==
  /\ c2 \in Connection /\ q \in Seq(Signal)
  /\ Speaks(c, c2, q) /\ Batch(q, c, p, n)
  /\ \A i \in DOMAIN q : q[i].kind # "Candidate" => Own(c) \notin p.sent \cup p.early
  /\ GateSound(c2) /\ HeldSound(c2, n)
  /\ c2.offer = "making" \/ c2.answering => Own(c) \notin p.sent \cup p.early /\ q = <<>>
  /\ c2.role = "Answerer" => AnswererSound(c2, fp)
  /\ c2.role = "Offerer" => OffererSound(c2)

\* A connection that says what it may is sound after it.
LEMMA SaysKeeps ==
  ASSUME NEW c, NEW c2, NEW q, NEW fp, NEW p, NEW p2, NEW n,
         ConnectionSound(c, fp, p, n), Says(c, c2, q, fp, p, n), After(q, p, p2)
  PROVE  ConnectionSound(c2, fp, p2, n)
<1>1. \A d \in p2.sent \cup p2.early : d.cert = c2.cert => d.round <= c2.round
  BY BatchRounds DEF ConnectionSound, RoundsSound, Says, Speaks
<1>2. Own(c2) = Own(c)
  BY DEF Says, Speaks, Own
<1>3. ASSUME c2.offer = "making" \/ c2.answering PROVE Own(c2) \notin p2.sent \cup p2.early
  <2>1. q = <<>> /\ Own(c2) \notin p.sent \cup p.early
    BY <1>2, <1>3 DEF Says
  <2>2. DOMAIN q = {}
    BY <2>1
  <2> QED
    BY <2>1, <2>2 DEF After
<1> QED
  BY <1>1, <1>3 DEF ConnectionSound, RoundsSound, Says, Speaks

\* What does not touch the gate.
Rests(c, c2) ==
  /\ Alike(c, c2) /\ c2.pending = c.pending
  /\ c2.answering = c.answering /\ c2.holds = c.holds /\ c2.held = c.held
  /\ \/ c2.offer = c.offer /\ c2.aborted = c.aborted
     \/ /\ c.role = "Offerer" /\ c2.offer = "spawned"
        /\ c2.aborted = c.aborted + IF c.offer = "making" THEN 1 ELSE 0

\* A step that says nothing and leaves what is said alone says what it may.
LEMMA QuietSays ==
  ASSUME NEW c \in Connection, NEW c2, NEW fp, NEW p, NEW n, bounds \in Instances,
         ConnectionSound(c, fp, p, n), Rests(c, c2)
  PROVE  Says(c, c2, <<>>, fp, p, n)
<1>1. /\ c.aborted \in Nat /\ c.offer \in {"none", "spawned", "making"} /\ c.answering \in BOOLEAN
      /\ c.role \in {"Offerer", "Answerer"} /\ c2 \in Connection
  BY Fields DEF Alike, Rests
<1>2. GateSound(c2)
  BY <1>1 DEF ConnectionSound, GateSound, Rests, Alike
<1>3. HeldSound(c2, n) /\ Own(c2) = Own(c)
  BY DEF ConnectionSound, HeldSound, Alike, Own, Rests
<1>4. Speaks(c, c2, <<>>) /\ Batch(<<>>, c, p, n)
  BY DEF Speaks, Alike, Batch, Rests
<1>5. c2.offer = "making" \/ c2.answering => c.offer = "making" \/ c.answering
  BY DEF Rests
<1>6. c2.role = "Answerer" => AnswererSound(c2, fp)
  BY <1>1, <1>3 DEF ConnectionSound, AnswererSound, Alike, Rests
<1>7. c2.role = "Offerer" => OffererSound(c2)
  BY <1>1 DEF ConnectionSound, OffererSound, Alike, Rests
<1> QED
  BY <1>1, <1>2, <1>3, <1>4, <1>5, <1>6, <1>7 DEF Says, ConnectionSound, RoundsSound

\* The end of a task that held the gate, whatever became of its description:
\* from c, by way of c1, which has the gate still, to its end.
LEMMA EndingSays ==
  ASSUME NEW c \in Connection, NEW c1, NEW fp, NEW p, NEW n, NEW q \in Seq(Signal), bounds \in Instances,
         ConnectionSound(c, fp, p, n), Alike(c, c1),
         c1.holds = c.holds, c1.held = c.held, c.holds > 0, c.pending => c1.pending,
         c.holds - 1 = c1.aborted + (IF c1.offer = "making" THEN 1 ELSE 0)
                                  + (IF c1.answering THEN 1 ELSE 0),
         c1.role = "Answerer" => c1.offer = "none" /\ ~c1.pending /\ c1.aborted = 0 /\ ~c1.answering,
         c1.role = "Offerer" => ~c1.answering,
         c1.offer = "making" => c.offer = "making",
         Batch(q, c, p, n),
         \A i \in DOMAIN q : q[i].kind # "Candidate" => Own(c) \notin p.sent \cup p.early,
         c1.offer = "making" \/ c1.answering => q = <<>>,
         \A i \in DOMAIN q : \/ \E j \in DOMAIN c.held : q[i] = c.held[j]
                             \/ /\ q[i].of = Own(c)
                                /\ c.role = "Offerer" => /\ q[i].kind = "Offer" /\ q[i].to = 0
                                                         /\ c1.pending
                                /\ c.role = "Answerer" => q[i].kind = "Answer" /\ q[i].to = c.remote.cert
  PROVE  Says(c, Dropped(c1), q, fp, p, n)
<1> DEFINE c2 == Dropped(c1)
<1>1. /\ Alike(c1, c2) /\ c2.offer = c1.offer /\ c2.pending = c1.pending
      /\ c2.aborted = c1.aborted /\ c2.answering = c1.answering
      /\ c2.holds = c.holds - 1 /\ c2.held = IF c.holds = 1 THEN <<>> ELSE c.held
  BY DroppedIs DEF Alike
<1>2. /\ c2 \in Connection /\ Alike(c, c2) /\ Own(c2) = Own(c)
  BY <1>1 DEF Alike, Own
<1> HIDE DEF c2
<1>3. c.holds \in Nat /\ c.role \in {"Offerer", "Answerer"} /\ c.held \in Seq(Signal)
  BY Fields
<1>4. \A i \in DOMAIN c2.held : i \in DOMAIN c.held /\ c2.held[i] = c.held[i]
  BY <1>1, <1>3
<1>5. GateSound(c2)
  BY <1>1, <1>3 DEF GateSound
<1>6. HeldSound(c2, n)
  BY <1>2, <1>4 DEF ConnectionSound, HeldSound, Alike
<1>7. \A i \in DOMAIN c.held : c.held[i].kind = "Candidate"
  BY DEF ConnectionSound, HeldSound
<1>8. Speaks(c, c2, q)
  <2>1. \A i \in DOMAIN q : q[i].to \in {0, c.remote.cert} \/ \E j \in DOMAIN c.held : q[i].to = c.held[j].to
    BY <1>3
  <2>2. \A i \in DOMAIN c2.held : \E j \in DOMAIN c.held : c2.held[i].to = c.held[j].to
    BY <1>4
  <2>3. c.role = "Offerer" => \A i \in DOMAIN q : q[i].kind # "Answer" /\ (q[i].kind = "Offer" => c2.pending)
    BY <1>1, <1>7
  <2>4. c.role = "Answerer" => \A i \in DOMAIN q :
          /\ q[i].of = Own(c) /\ q[i].to = c.remote.cert
          /\ q[i].kind # "Candidate" => q[i].kind = "Answer"
    BY <1>7 DEF ConnectionSound, AnswererSound
  <2> QED
    BY <1>1, <1>2, <2>1, <2>2, <2>3, <2>4 DEF Speaks, Alike
<1>9. c2.offer = "making" \/ c2.answering => Own(c) \notin p.sent \cup p.early /\ q = <<>>
  <2>1. c2.answering => FALSE
    BY <1>1, <1>2, <1>3 DEF Alike
  <2> QED
    BY <1>1, <2>1 DEF ConnectionSound, RoundsSound
<1>10. c2.role = "Answerer" => AnswererSound(c2, fp)
  <2> SUFFICES ASSUME c2.role = "Answerer" PROVE AnswererSound(c2, fp)
    OBVIOUS
  <2>1. AnswererSound(c, fp)
    BY <1>2 DEF Alike, ConnectionSound
  <2> QED
    BY <1>1, <1>2, <1>4, <2>1 DEF AnswererSound, Alike
<1>11. c2.role = "Offerer" => OffererSound(c2)
  BY <1>1, <1>2 DEF ConnectionSound, OffererSound, Alike
<1> QED
  BY <1>2, <1>5, <1>6, <1>8, <1>9, <1>10, <1>11 DEF Says, c2

\* Whatever is being described holds the gate, and its round has not gone out.
LEMMA Gated ==
  ASSUME NEW c \in Connection, NEW fp, NEW p, NEW n, bounds \in Instances, ConnectionSound(c, fp, p, n)
  PROVE  /\ c.offer = "making" \/ c.answering \/ c.aborted > 0 => c.holds > 0
         /\ c.offer = "making" \/ c.aborted > 0 => c.role = "Offerer" /\ ~c.answering
         /\ c.answering => c.role = "Answerer" /\ c.offer = "none" /\ c.aborted = 0 /\ ~c.pending
         /\ c.offer = "making" \/ c.answering => Own(c) \notin p.sent \cup p.early
         /\ c.holds = c.aborted + (IF c.offer = "making" THEN 1 ELSE 0) + (IF c.answering THEN 1 ELSE 0)
         /\ HeldSound(c, n) /\ c.remote.cert <= n
<1>1. c.role \in {"Offerer", "Answerer"} /\ c.aborted \in Nat
  BY Fields
<1> QED
  BY <1>1 DEF ConnectionSound, GateSound, AnswererSound, OffererSound, RoundsSound

\* make_offer sends its offer first, then what it held back.
LEMMA SendOfferSays ==
  ASSUME NEW c \in Connection, NEW fp, NEW p, NEW n \in Nat, bounds \in Instances,
         ConnectionSound(c, fp, p, n), c.offer = "making"
  PROVE  Says(c, Dropped([c EXCEPT !.offer = "none", !.pending = TRUE]),
              <<[Describing("Offer", c) EXCEPT !.to = 0]>> \o Released(c), fp, p, n)
<1> DEFINE c1 == [c EXCEPT !.offer = "none", !.pending = TRUE]
           s == [Describing("Offer", c) EXCEPT !.to = 0]
           q == <<s>> \o Released(c)
<1>1. [c EXCEPT !.offer = "none"] \in Connection
  BY Setting
<1>2. c1 \in Connection
  BY <1>1, Setting
<1>3. /\ Alike(c, c1) /\ c1.offer = "none" /\ c1.pending /\ c1.aborted = c.aborted
      /\ c1.answering = c.answering /\ c1.holds = c.holds /\ c1.held = c.held
  BY <1>2 DEF Connection, Alike
<1>4. s.kind = "Offer" /\ s.of = Own(c) /\ s.to = 0 /\ s \in Signal
  <2>1. s = [kind |-> "Offer", of |-> Own(c), to |-> 0]
    BY DEF Describing
  <2>2. Own(c) \in Description /\ bounds.connections \in Nat
    BY Fields, BoundsAre
  <2> QED
    BY <2>1, <2>2 DEF Signal
<1> HIDE DEF c1, s
<1>5. /\ c.holds > 0 /\ c.role = "Offerer" /\ ~c.answering /\ Own(c) \notin p.sent \cup p.early
      /\ c.holds = c.aborted + 1 /\ HeldSound(c, n)
      /\ c.aborted \in Nat
  BY Gated, Fields
<1>6. Leads(s, c, q)
  BY <1>4, LeadingIs
<1> HIDE DEF q
<1>11. s.to <= n /\ Own(c) \notin p.early
  BY <1>4, <1>5
<1>12. q \in Seq(Signal) /\ Batch(q, c, p, n)
  BY <1>4, <1>5, <1>6, <1>11, DescribedBatch DEF Leads
<1>7. c1.role = "Offerer"
  BY <1>3, <1>5 DEF Alike
<1>8. c.holds - 1 = c1.aborted + (IF c1.offer = "making" THEN 1 ELSE 0) + (IF c1.answering THEN 1 ELSE 0)
  BY <1>3, <1>5
<1>9. \A i \in DOMAIN q : \/ \E j \in DOMAIN c.held : q[i] = c.held[j]
                          \/ q[i].of = Own(c) /\ q[i].kind = "Offer" /\ q[i].to = 0 /\ c1.pending
  BY <1>3, <1>4, <1>6 DEF Leads
<1>10. Says(c, Dropped(c1), q, fp, p, n)
  BY <1>3, <1>5, <1>7, <1>8, <1>9, <1>12, EndingSays
<1> QED
  BY <1>10 DEF c1, s, q

\* What is released without a description.
LEMMA ReleaseSays ==
  ASSUME NEW c \in Connection, NEW c1, NEW fp, NEW p, NEW n \in Nat, bounds \in Instances,
         ConnectionSound(c, fp, p, n), Alike(c, c1),
         c1.holds = c.holds, c1.held = c.held, c.holds > 0, c1.pending = c.pending,
         c1.aborted \in Nat,
         c.holds - 1 = c1.aborted + (IF c1.offer = "making" THEN 1 ELSE 0)
                                  + (IF c1.answering THEN 1 ELSE 0),
         c1.role = "Answerer" => c1.offer = "none" /\ ~c1.pending /\ c1.aborted = 0 /\ ~c1.answering,
         c1.role = "Offerer" => ~c1.answering,
         c1.offer = "making" => c.offer = "making"
  PROVE  Says(c, Dropped(c1), Released(c), fp, p, n)
<1> DEFINE q == Released(c)
<1>1. /\ q \in Seq(Signal)
      /\ \A i \in DOMAIN q : c.holds = 1 /\ i \in DOMAIN c.held /\ q[i] = c.held[i]
  BY ReleasedAre
<1>2. Batch(q, c, p, n)
  BY Gated, ReleasedBatch
<1>3. c1.offer = "making" \/ c1.answering => q = <<>>
  <2>1. c1.offer = "making" \/ c1.answering => c.holds # 1
    OBVIOUS
  <2> QED
    BY <2>1 DEF Released
<1> HIDE DEF q
<1>4. \A i \in DOMAIN q : q[i].kind = "Candidate" /\ \E j \in DOMAIN c.held : q[i] = c.held[j]
  BY <1>1, Gated DEF HeldSound
<1>5. Says(c, Dropped(c1), q, fp, p, n)
  BY <1>1, <1>2, <1>3, <1>4, EndingSays
<1> QED
  BY <1>5 DEF q

\* make_offer that fails lets go of what it held back, and offers nothing.
LEMMA OfferFailsSays ==
  ASSUME NEW c \in Connection, NEW fp, NEW p, NEW n \in Nat, bounds \in Instances,
         ConnectionSound(c, fp, p, n), c.offer = "making"
  PROVE  Says(c, Dropped([c EXCEPT !.offer = "none"]), Released(c), fp, p, n)
<1> DEFINE c1 == [c EXCEPT !.offer = "none"]
<1>1. c1 \in Connection
  BY Setting
<1>2. /\ Alike(c, c1) /\ c1.offer = "none" /\ c1.pending = c.pending /\ c1.aborted = c.aborted
      /\ c1.answering = c.answering /\ c1.holds = c.holds /\ c1.held = c.held
  BY <1>1 DEF Connection, Alike
<1> HIDE DEF c1
<1>3. /\ c.holds > 0 /\ c.role = "Offerer" /\ ~c.answering /\ c.holds = c.aborted + 1
      /\ c.aborted \in Nat /\ c.answering \in BOOLEAN
  BY Gated, Fields
<1>4. c1.role = "Offerer"
  BY <1>2, <1>3 DEF Alike
<1>5. c.holds - 1 = c1.aborted + (IF c1.offer = "making" THEN 1 ELSE 0) + (IF c1.answering THEN 1 ELSE 0)
  BY <1>2, <1>3
<1>6. Says(c, Dropped(c1), Released(c), fp, p, n)
  BY <1>2, <1>3, <1>4, <1>5, ReleaseSays
<1> QED
  BY <1>6 DEF c1

\* An aborted offer lets go of its hold when its task ends.
LEMMA AbortedSays ==
  ASSUME NEW c \in Connection, NEW fp, NEW p, NEW n \in Nat, bounds \in Instances,
         ConnectionSound(c, fp, p, n), c.aborted > 0
  PROVE  Says(c, Dropped([c EXCEPT !.aborted = @ - 1]), Released(c), fp, p, n)
<1> DEFINE c1 == [c EXCEPT !.aborted = c.aborted - 1]
<1>0. c.aborted - 1 \in Nat
  BY Fields
<1>1. c1 \in Connection
  BY <1>0, Setting
<1>2. /\ Alike(c, c1) /\ c1.offer = c.offer /\ c1.pending = c.pending /\ c1.aborted = c.aborted - 1
      /\ c1.answering = c.answering /\ c1.holds = c.holds /\ c1.held = c.held
  BY <1>1 DEF Connection, Alike
<1> HIDE DEF c1
<1>3. /\ c.holds > 0 /\ c.role = "Offerer" /\ ~c.answering
      /\ c.holds = c.aborted + IF c.offer = "making" THEN 1 ELSE 0
      /\ c.aborted \in Nat /\ c.answering \in BOOLEAN
  BY Gated, Fields
<1>4. c1.role = "Offerer"
  BY <1>2, <1>3 DEF Alike
<1>5. c.holds - 1 = c1.aborted + (IF c1.offer = "making" THEN 1 ELSE 0) + (IF c1.answering THEN 1 ELSE 0)
  BY <1>2, <1>3
<1>6. Says(c, Dropped(c1), Released(c), fp, p, n)
  BY <1>0, <1>2, <1>3, <1>4, <1>5, ReleaseSays
<1> QED
  BY <1>6 DEF c1

\* A connection that has answered: the hold of its answer was its last.
LEMMA AnsweredIs ==
  ASSUME NEW c \in Connection, NEW fp, NEW p, NEW n \in Nat, bounds \in Instances,
         ConnectionSound(c, fp, p, n), c.answering,
         NEW c1, c1 = [c EXCEPT !.answering = FALSE]
  PROVE  /\ Alike(c, c1) /\ c1.offer = "none" /\ c1.pending = c.pending /\ ~c1.pending
         /\ c1.aborted = 0 /\ ~c1.answering /\ c1.holds = c.holds /\ c1.held = c.held
         /\ c.holds > 0 /\ c.holds = 1 /\ c1.role = "Answerer" /\ c.role = "Answerer"
         /\ c.holds - 1 = c1.aborted + (IF c1.offer = "making" THEN 1 ELSE 0)
                                     + (IF c1.answering THEN 1 ELSE 0)
<1>1. c1 \in Connection
  BY Setting
<1>2. /\ Alike(c, c1) /\ c1.offer = c.offer /\ c1.pending = c.pending /\ c1.aborted = c.aborted
      /\ ~c1.answering /\ c1.holds = c.holds /\ c1.held = c.held
  BY <1>1 DEF Connection, Alike
<1>3. /\ c.holds > 0 /\ c.role = "Answerer" /\ c.offer = "none" /\ c.aborted = 0 /\ ~c.pending
      /\ c.holds = 1
  <2>1. c.role = "Answerer" /\ c.offer = "none" /\ c.aborted = 0 /\ ~c.pending
    BY Gated
  <2>2. c.holds = c.aborted + (IF c.offer = "making" THEN 1 ELSE 0) + (IF c.answering THEN 1 ELSE 0)
    BY Gated
  <2> QED
    BY <2>1, <2>2
<1> QED
  BY <1>2, <1>3 DEF Alike

\* An answer that fails lets go of what it held back.
LEMMA AnswerFailsSays ==
  ASSUME NEW c \in Connection, NEW fp, NEW p, NEW n \in Nat, bounds \in Instances,
         ConnectionSound(c, fp, p, n), c.answering
  PROVE  Says(c, Dropped([c EXCEPT !.answering = FALSE]), Released(c), fp, p, n)
<1> DEFINE c1 == [c EXCEPT !.answering = FALSE]
<1>1. c1 = [c EXCEPT !.answering = FALSE]
  OBVIOUS
<1> HIDE DEF c1
<1>2. /\ Alike(c, c1) /\ c1.offer = "none" /\ c1.pending = c.pending /\ ~c1.pending
      /\ c1.aborted = 0 /\ ~c1.answering /\ c1.holds = c.holds /\ c1.held = c.held
      /\ c.holds > 0 /\ c1.role = "Answerer"
      /\ c.holds - 1 = c1.aborted + (IF c1.offer = "making" THEN 1 ELSE 0)
                                  + (IF c1.answering THEN 1 ELSE 0)
  BY <1>1, AnsweredIs
<1>3. Says(c, Dropped(c1), Released(c), fp, p, n)
  <2>1. c1.aborted \in Nat
    BY <1>2
  <2> QED
    BY <1>2, <2>1, ReleaseSays
<1> QED
  BY <1>3 DEF c1

\* run_signal_queue sends its answer first, then what it held back.
LEMMA SendAnswerSays ==
  ASSUME NEW c \in Connection, NEW fp, NEW p, NEW n \in Nat, bounds \in Instances,
         ConnectionSound(c, fp, p, n), c.answering
  PROVE  Says(c, Dropped([c EXCEPT !.answering = FALSE]), <<Describing("Answer", c)>> \o Released(c),
              fp, p, n)
<1> DEFINE c1 == [c EXCEPT !.answering = FALSE]
           s == Describing("Answer", c)
           q == <<s>> \o Released(c)
<1>1. c1 = [c EXCEPT !.answering = FALSE]
  OBVIOUS
<1>2. s.kind = "Answer" /\ s.of = Own(c) /\ s.to = c.remote.cert /\ s \in Signal
  <2>1. s = [kind |-> "Answer", of |-> Own(c), to |-> c.remote.cert]
    BY DEF Describing
  <2>2. /\ Own(c) \in Description /\ bounds.connections \in Nat
        /\ c.remote.cert \in 0..bounds.connections
    BY Fields, BoundsAre
  <2> QED
    BY <2>1, <2>2 DEF Signal
<1> HIDE DEF c1, s
<1>3. /\ Alike(c, c1) /\ c1.offer = "none" /\ c1.pending = c.pending /\ ~c1.pending
      /\ c1.aborted = 0 /\ ~c1.answering /\ c1.holds = c.holds /\ c1.held = c.held
      /\ c.holds > 0 /\ c1.role = "Answerer" /\ c.role = "Answerer"
      /\ c.holds - 1 = c1.aborted + (IF c1.offer = "making" THEN 1 ELSE 0)
                                  + (IF c1.answering THEN 1 ELSE 0)
  BY <1>1, AnsweredIs
<1>4. Own(c) \notin p.sent \cup p.early /\ HeldSound(c, n) /\ s.to <= n
  BY <1>2, Gated
<1>5. Leads(s, c, q)
  BY <1>2, LeadingIs
<1> HIDE DEF q
<1>6. q \in Seq(Signal) /\ Batch(q, c, p, n)
  BY <1>2, <1>4, <1>5, DescribedBatch DEF Leads
<1>7. \A i \in DOMAIN q : \/ \E j \in DOMAIN c.held : q[i] = c.held[j]
                          \/ q[i].of = Own(c) /\ q[i].kind = "Answer" /\ q[i].to = c.remote.cert
  BY <1>2, <1>5 DEF Leads
<1>8. Says(c, Dropped(c1), q, fp, p, n)
  BY <1>3, <1>4, <1>6, <1>7, EndingSays
<1> QED
  BY <1>8 DEF c1, s, q

\* A candidate goes out at once where nothing is being described.
LEMMA CandidateIs ==
  ASSUME NEW c \in Connection, bounds \in Instances
  PROVE  /\ Candidate(c) \in Signal /\ Candidate(c).kind = "Candidate" /\ Candidate(c).of = Own(c)
         /\ Candidate(c).to = c.remote.cert
<1>1. Candidate(c) = [kind |-> "Candidate", of |-> Own(c), to |-> c.remote.cert]
  BY DEF Candidate
<1>2. /\ Own(c) \in Description /\ bounds.connections \in Nat
      /\ c.remote.cert \in 0..bounds.connections
  BY Fields, BoundsAre
<1> QED
  BY <1>1, <1>2 DEF Signal

\* Noting that a round has been gathered changes nothing else.
LEMMA GatheredIs ==
  ASSUME NEW c \in Connection, bounds \in Instances, NEW d, d = [c EXCEPT !.gathered = c.round]
  PROVE  /\ Alike(c, d) /\ d.offer = c.offer /\ d.pending = c.pending /\ d.aborted = c.aborted
         /\ d.answering = c.answering /\ d.holds = c.holds /\ d.held = c.held
         /\ Candidate(d) = Candidate(c)
<1>0. c.round \in Nat
  BY Fields
<1>1. d \in Connection
  BY <1>0, Setting
<1>2. /\ Alike(c, d) /\ d.offer = c.offer /\ d.pending = c.pending /\ d.aborted = c.aborted
      /\ d.answering = c.answering /\ d.holds = c.holds /\ d.held = c.held
  BY <1>1 DEF Connection, Alike
<1>3. Candidate(d) = Candidate(c)
  BY <1>2 DEF Candidate, Alike, Own
<1> QED
  BY <1>2, <1>3

\* With the gate open, a candidate goes out at once.
LEMMA GatherSays ==
  ASSUME NEW c \in Connection, NEW fp, NEW p, NEW n \in Nat, bounds \in Instances,
         ConnectionSound(c, fp, p, n), c.holds = 0, NEW d, d = [c EXCEPT !.gathered = c.round]
  PROVE  Says(c, d, <<Candidate(d)>>, fp, p, n)
<1> DEFINE s == Candidate(c)
           q == <<s>>
<1>1. /\ Alike(c, d) /\ d.offer = c.offer /\ d.pending = c.pending /\ d.aborted = c.aborted
      /\ d.answering = c.answering /\ d.holds = c.holds /\ d.held = c.held
      /\ Candidate(d) = s
  BY GatheredIs
<1>2. Says(c, d, <<>>, fp, p, n)
  BY <1>1, QuietSays DEF Rests
<1>3. s \in Signal /\ s.kind = "Candidate" /\ s.of = Own(c) /\ s.to = c.remote.cert
  BY CandidateIs
<1>4. /\ c.offer # "making" /\ ~c.answering /\ c.remote.cert <= n
      /\ Own(c).cert = c.cert /\ Own(c).round = c.round /\ c.round \in Nat
  BY Gated, Fields
<1> HIDE DEF s
<1>5. q \in Seq(Signal) /\ \A i \in DOMAIN q : q[i] = s
  BY <1>3
<1> HIDE DEF q
<1>6. Batch(q, c, p, n) /\ Speaks(c, d, q)
  BY <1>2, <1>3, <1>4, <1>5 DEF Batch, Says, Speaks
<1>7. Says(c, d, q, fp, p, n)
  BY <1>1, <1>2, <1>3, <1>4, <1>5, <1>6 DEF Says
<1> QED
  BY <1>1, <1>7 DEF q

\* With the gate closed, a candidate is held back.
LEMMA HoldSays ==
  ASSUME NEW c \in Connection, NEW fp, NEW p, NEW n \in Nat, bounds \in Instances,
         ConnectionSound(c, fp, p, n), c.holds > 0, NEW d, d = [c EXCEPT !.gathered = c.round],
         NEW c2, c2 = [d EXCEPT !.held = Append(@, Candidate(d))]
  PROVE  Says(c, c2, <<>>, fp, p, n)
<1> DEFINE s == Candidate(c)
<1>1. /\ Alike(c, d) /\ d.offer = c.offer /\ d.pending = c.pending /\ d.aborted = c.aborted
      /\ d.answering = c.answering /\ d.holds = c.holds /\ d.held = c.held
      /\ Candidate(d) = s
  BY GatheredIs
<1>2. s \in Signal /\ s.kind = "Candidate" /\ s.of = Own(c) /\ s.to = c.remote.cert
  BY CandidateIs
<1> HIDE DEF s
<1>3. c.held \in Seq(Signal) /\ c.role \in {"Offerer", "Answerer"} /\ c.answering \in BOOLEAN
  BY Fields
<1> DEFINE h == Append(d.held, Candidate(d))
<1>4. c2 = [d EXCEPT !.held = h]
  OBVIOUS
<1>16. h = Append(c.held, s) /\ h \in Seq(Signal)
  BY <1>1, <1>2, <1>3
<1> HIDE DEF h
<1>5. c2 \in Connection /\ d \in Connection
  <2>1. d \in Connection
    BY <1>1 DEF Alike
  <2>2. \A x \in Seq(Signal) : [d EXCEPT !.held = x] \in Connection
    BY <2>1, Setting
  <2>3. [d EXCEPT !.held = h] \in Connection
    BY <1>16, <2>2
  <2> QED
    BY <1>4, <2>1, <2>3
<1>6. /\ Alike(d, c2) /\ c2.offer = c.offer /\ c2.pending = c.pending /\ c2.aborted = c.aborted
      /\ c2.answering = c.answering /\ c2.holds = c.holds /\ c2.held = Append(c.held, s)
  <2>1. /\ Alike(d, c2) /\ c2.offer = d.offer /\ c2.pending = d.pending /\ c2.aborted = d.aborted
        /\ c2.answering = d.answering /\ c2.holds = d.holds /\ c2.held = Append(c.held, s)
    <3>1. /\ Alike(d, c2) /\ c2.offer = d.offer /\ c2.pending = d.pending
          /\ c2.aborted = d.aborted /\ c2.answering = d.answering /\ c2.holds = d.holds
          /\ c2.held = h
      BY <1>4, <1>5, ZenonT(40) DEF Connection, Alike
    <3> QED
      BY <1>16, <3>1
  <2> QED
    BY <1>1, <2>1
<1>7. \A i \in DOMAIN c2.held : (i \in DOMAIN c.held /\ c2.held[i] = c.held[i]) \/ c2.held[i] = s
  BY <1>2, <1>3, <1>6, AppendPushes DEF Pushed
<1>8. /\ Own(c).cert = c.cert /\ Own(c).round = c.round /\ c.round \in Nat /\ c.remote.cert <= n
      /\ HeldSound(c, n) /\ c.holds \in Nat
  BY Gated, Fields
<1>9. Alike(c, c2) /\ Own(c2) = Own(c)
  BY <1>1, <1>6 DEF Alike, Own
<1>10. GateSound(c2)
  BY <1>6, <1>8 DEF ConnectionSound, GateSound
<1>11. HeldSound(c2, n)
  BY <1>2, <1>7, <1>8, <1>9 DEF HeldSound, Alike
<1>12. Speaks(c, c2, <<>>) /\ Batch(<<>>, c, p, n)
  BY <1>2, <1>6, <1>7, <1>9 DEF Speaks, Alike, Batch
<1>13. c2.role = "Answerer" => AnswererSound(c2, fp)
  BY <1>2, <1>6, <1>7, <1>9 DEF ConnectionSound, AnswererSound, Alike
<1>14. c2.role = "Offerer" => OffererSound(c2)
  BY <1>6, <1>9 DEF ConnectionSound, OffererSound, Alike
<1>15. c2.offer = "making" \/ c2.answering => Own(c) \notin p.sent \cup p.early
  BY <1>6 DEF ConnectionSound, RoundsSound
<1> QED
  BY <1>5, <1>10, <1>11, <1>12, <1>13, <1>14, <1>15 DEF Says

------------------------------------------------------------------------------
\* What an end hears

\* What a queue is without, it is without when its first is taken.
LEMMA PoppedWithout ==
  ASSUME NEW q, NEW s, NEW r, Popped(q, s, r), NEW n, NEW k, Without(q, k, n)
  PROVE  Without(r, k, n) /\ (s.kind = k => s.of.cert # n)
BY DEF Popped, Without

\* What no signal of a queue is addressed to, the rest of it is not addressed to.
LEMMA PoppedUnnamed ==
  ASSUME NEW q, NEW s, NEW r, Popped(q, s, r), NEW n, Unnamed(q, n)
  PROVE  Unnamed(r, n) /\ s.to # n
BY DEF Popped, Unnamed

\* The rest of a queue is accounted for, and so is its first.
LEMMA PoppedSound ==
  ASSUME NEW q, NEW s, NEW r, Popped(q, s, r), NEW n, NEW p, SignalsSound(q, p, n)
  PROVE  /\ SignalsSound(r, p, n)
         /\ s.of.cert \in 1..n /\ s.to <= n
         /\ s.kind = "Candidate" => s.of \in p.sent \cup p.early
BY DEF Popped, SignalsSound

\* The answer before a signal is before it in the rest, or was the first.
LEMMA PoppedAnswers ==
  ASSUME NEW q \in Seq(Signal), NEW s, NEW r, Popped(q, s, r), NEW n
  PROVE  /\ \A k \in DOMAIN r : AnswerWithin(q, k + 1, n) =>
              AnswerWithin(r, k, n) \/ (s.kind = "Answer" /\ s.to = n)
         /\ AnswerIn(q, n) => AnswerIn(r, n) \/ (s.kind = "Answer" /\ s.to = n)
<1>0. q[1] = s /\ r \in Seq(Signal) /\ Len(q) = Len(r) + 1 /\ Len(r) \in Nat
  BY DEF Popped
<1>1. ASSUME NEW k \in 0..Len(r), AnswerWithin(q, k + 1, n), ~(s.kind = "Answer" /\ s.to = n)
      PROVE  AnswerWithin(r, k, n)
  <2>1. PICK j \in 1..(k + 1) : q[j].kind = "Answer" /\ q[j].to = n
    BY <1>1 DEF AnswerWithin
  <2>2. j # 1 /\ j \in DOMAIN q
    BY <1>0, <1>1, <2>1
  <2>3. r[j - 1] = q[j] /\ j - 1 \in 1..k
    BY <1>0, <1>1, <2>2 DEF Popped
  <2> QED
    BY <2>1, <2>3 DEF AnswerWithin
<1>2. \A k \in DOMAIN r : k \in 0..Len(r)
  BY <1>0
<1>3. Len(r) \in 0..Len(r)
  BY <1>0
<1> QED
  BY <1>0, <1>1, <1>2, <1>3 DEF AnswerIn

\* A queue is still without a description when something else is added.
LEMMA PushedWithout ==
  ASSUME NEW q, NEW s, NEW r, Pushed(q, s, r), NEW n, NEW k, Without(q, k, n),
         s.kind = k => s.of.cert # n
  PROVE  Without(r, k, n)
BY DEF Pushed, Without

\* Nothing in a queue is addressed to a certificate when what is added is not.
LEMMA PushedUnnamed ==
  ASSUME NEW q, NEW s, NEW r, Pushed(q, s, r), NEW n, Unnamed(q, n), s.to # n
  PROVE  Unnamed(r, n)
BY DEF Pushed, Unnamed

\* A queue is accounted for when what is added is.
LEMMA PushedSound ==
  ASSUME NEW q, NEW s, NEW r, Pushed(q, s, r), NEW n, NEW p, SignalsSound(q, p, n),
         s.of.cert \in 1..n, s.to <= n, s.kind = "Candidate" => s.of \in p.sent \cup p.early
  PROVE  SignalsSound(r, p, n)
BY DEF Pushed, SignalsSound

\* An answer in a queue is before whatever is added to it.
LEMMA PushedAnswers ==
  ASSUME NEW q \in Seq(Signal), NEW s, NEW r, Pushed(q, s, r), NEW n
  PROVE  /\ \A k \in DOMAIN q : AnswerWithin(q, k, n) => AnswerWithin(r, k, n)
         /\ AnswerIn(q, n) => AnswerWithin(r, Len(q) + 1, n) /\ AnswerIn(r, n)
         /\ s.kind = "Answer" /\ s.to = n => AnswerIn(r, n)
<1>0. r[Len(q) + 1] = s /\ Len(r) = Len(q) + 1 /\ Len(q) \in Nat /\ \A i \in DOMAIN q : r[i] = q[i]
  BY DEF Pushed
<1>1. ASSUME NEW k \in 0..Len(q), AnswerWithin(q, k, n)
      PROVE  AnswerWithin(r, k, n) /\ AnswerWithin(r, k + 1, n)
  <2>1. PICK j \in 1..k : q[j].kind = "Answer" /\ q[j].to = n
    BY <1>1 DEF AnswerWithin
  <2>2. j \in DOMAIN q /\ j \in 1..(k + 1)
    BY <1>0, <1>1, <2>1
  <2> QED
    BY <1>0, <2>1, <2>2 DEF AnswerWithin
<1>2. s.kind = "Answer" /\ s.to = n => AnswerWithin(r, Len(q) + 1, n)
  <2>1. Len(q) + 1 \in 1..(Len(q) + 1)
    BY <1>0
  <2> QED
    BY <1>0, <2>1 DEF AnswerWithin
<1>3. \A k \in DOMAIN q : k \in 0..Len(q)
  OBVIOUS
<1>4. Len(q) \in 0..Len(q)
  BY <1>0
<1>5. AnswerIn(q, n) => AnswerWithin(r, Len(q) + 1, n)
  BY <1>1, <1>4 DEF AnswerIn
<1> QED
  BY <1>0, <1>1, <1>2, <1>3, <1>5 DEF AnswerIn

\* A signal is lost, or dropped by an end that has no use for it.
LEMMA LosesOut ==
  ASSUME NEW c, NEW out, NEW s, NEW outs, Popped(out, s, outs), NEW in, NEW sent,
         OffererLinked(c, out, in, sent)
  PROVE  OffererLinked(c, outs, in, sent)
BY PoppedWithout DEF OffererLinked, UnofferedSound

\* An offer that is dropped on its way to an offerer was no answer to it.
LEMMA DropsOffer ==
  ASSUME NEW c, NEW out, NEW in \in Seq(Signal), NEW s, NEW ins, Popped(in, s, ins), NEW sent,
         OffererLinked(c, out, in, sent), s.kind = "Offer"
  PROVE  OffererLinked(c, out, ins, sent)
<1>1. ASSUME Waits(c), NEW k \in DOMAIN ins, NamedAndSent(ins[k], c.cert, sent)
      PROVE  AnswerIn(c.queue, c.cert) \/ AnswerWithin(ins, k, c.cert)
  <2>1. k + 1 \in DOMAIN in /\ NamedAndSent(in[k + 1], c.cert, sent)
    BY <1>1 DEF Popped
  <2>2. AnswerIn(c.queue, c.cert) \/ AnswerWithin(in, k + 1, c.cert)
    BY <1>1, <2>1 DEF OffererLinked, AnswersComeFirst
  <2> QED
    BY <2>2, PoppedAnswers
<1> QED
  BY <1>1, PoppedUnnamed DEF OffererLinked, AnswersComeFirst, UnofferedSound

\* Nor does that change what its peer is to an offerer.
LEMMA DropsOfferToPeer ==
  ASSUME NEW c, NEW d, NEW in \in Seq(Signal), NEW s, NEW ins, Popped(in, s, ins), NEW sent,
         PeerSound(c, d, in, sent), s.kind = "Offer"
  PROVE  PeerSound(c, d, ins, sent)
BY PoppedAnswers DEF PeerSound

\* What arrives goes to the end of the queue.
Queues(c, s, c2) ==
  /\ c2 \in Connection /\ Pushed(c.queue, s, c2.queue)
  /\ c2.cert = c.cert /\ c2.role = c.role /\ c2.round = c.round /\ c2.remote = c.remote
  /\ c2.broken = c.broken /\ Hands(c2) = Hands(c)

\* EnsembleSocket hands a connection a signal by adding it to its queue.
LEMMA QueuedIs ==
  ASSUME NEW c \in Connection, NEW s \in Signal, bounds \in Instances, NEW c2,
         c2 = [c EXCEPT !.queue = Append(@, s)]
  PROVE  Queues(c, s, c2)
<1> DEFINE r == Append(c.queue, s)
<1>1. r \in Seq(Signal) /\ Pushed(c.queue, s, r)
  BY Fields, AppendPushes DEF Pushed
<1>2. c2 = [c EXCEPT !.queue = r]
  OBVIOUS
<1> HIDE DEF r
<1>3. \A x \in Seq(Signal) : [c EXCEPT !.queue = x] \in Connection
  BY Setting
<1>4. c2 \in Connection
  BY <1>1, <1>2, <1>3
<1>5. /\ c2.queue = r /\ c2.cert = c.cert /\ c2.role = c.role /\ c2.round = c.round
      /\ c2.remote = c.remote /\ c2.broken = c.broken /\ Hands(c2) = Hands(c)
  BY <1>2 DEF Connection, Hands
<1> QED
  BY <1>1, <1>2, <1>4, <1>5 DEF Queues

\* A signal that moves from the wire into the queue keeps its place behind
\* answers.
LEMMA OffererQueues ==
  ASSUME NEW c \in Connection, NEW s, NEW c2, Queues(c, s, c2), bounds \in Instances,
         NEW out, NEW in \in Seq(Signal), NEW ins, Popped(in, s, ins), NEW sent,
         OffererLinked(c, out, in, sent)
  PROVE  OffererLinked(c2, out, ins, sent)
<1>0. /\ Pushed(c.queue, s, c2.queue) /\ c.queue \in Seq(Signal) /\ c2.cert = c.cert
      /\ c2.pending = c.pending /\ (Waits(c2) <=> Waits(c))
  BY Fields DEF Queues, Hands, Waits
<1>1. Without(out, "Answer", c2.cert)
  BY <1>0 DEF OffererLinked
<1>2. ASSUME Waits(c), ~c.pending PROVE UnofferedSound(c2, out, ins)
  <2>1. UnofferedSound(c, out, in)
    BY <1>2 DEF OffererLinked
  <2> QED
    BY <1>0, <2>1, PoppedUnnamed, PushedUnnamed DEF UnofferedSound
<1>3. ASSUME Waits(c), NEW k \in DOMAIN c2.queue, NamedAndSent(c2.queue[k], c.cert, sent)
      PROVE  AnswerWithin(c2.queue, k, c.cert)
  <2>1. CASE k \in DOMAIN c.queue /\ c2.queue[k] = c.queue[k]
    <3>1. AnswerWithin(c.queue, k, c.cert)
      BY <1>3, <2>1 DEF OffererLinked, AnswersComeFirst
    <3> QED
      BY <1>0, <2>1, <3>1, PushedAnswers
  <2>2. CASE k = Len(c.queue) + 1 /\ c2.queue[k] = s
    <3>1. 1 \in DOMAIN in /\ in[1] = s
      BY DEF Popped
    <3>2. AnswerIn(c.queue, c.cert) \/ AnswerWithin(in, 1, c.cert)
      BY <1>3, <2>2, <3>1 DEF OffererLinked, AnswersComeFirst
    <3>3. s.kind # "Answer"
      BY <1>3, <2>2 DEF NamedAndSent
    <3>4. ~AnswerWithin(in, 1, c.cert)
      BY <3>1, <3>3 DEF AnswerWithin
    <3> QED
      BY <1>0, <2>2, <3>2, <3>4, PushedAnswers
  <2> QED
    BY <1>0, <1>3, <2>1, <2>2 DEF Pushed
<1>4. ASSUME Waits(c), NEW k \in DOMAIN ins, NamedAndSent(ins[k], c.cert, sent)
      PROVE  AnswerIn(c2.queue, c.cert) \/ AnswerWithin(ins, k, c.cert)
  <2>1. k + 1 \in DOMAIN in /\ NamedAndSent(in[k + 1], c.cert, sent)
    BY <1>4 DEF Popped
  <2>2. AnswerIn(c.queue, c.cert) \/ AnswerWithin(in, k + 1, c.cert)
    BY <1>4, <2>1 DEF OffererLinked, AnswersComeFirst
  <2>3. AnswerIn(c.queue, c.cert) \/ AnswerWithin(ins, k, c.cert) \/ (s.kind = "Answer" /\ s.to = c.cert)
    BY <2>2, PoppedAnswers
  <2> QED
    BY <1>0, <2>3, PushedAnswers
<1> QED
  BY <1>0, <1>1, <1>2, <1>3, <1>4 DEF OffererLinked, AnswersComeFirst

\* The answer to an offerer is in its queue once it has left the wire.
LEMMA OffererQueuesOfPeer ==
  ASSUME NEW c \in Connection, NEW s, NEW c2, Queues(c, s, c2), bounds \in Instances,
         NEW d, NEW in \in Seq(Signal), NEW ins, Popped(in, s, ins), NEW sent,
         PeerSound(c, d, in, sent)
  PROVE  PeerSound(c2, d, ins, sent)
<1>0. /\ Pushed(c.queue, s, c2.queue) /\ c.queue \in Seq(Signal) /\ c2.cert = c.cert
      /\ c2.pending = c.pending /\ (Waits(c2) <=> Waits(c)) /\ (UnknownTo(c2, d) <=> UnknownTo(c, d))
  BY Fields DEF Queues, Hands, Waits, UnknownTo
<1>1. ASSUME AnswerIn(c.queue, c.cert) \/ AnswerIn(in, c.cert)
      PROVE  AnswerIn(c2.queue, c.cert) \/ AnswerIn(ins, c.cert)
  BY <1>0, <1>1, PoppedAnswers, PushedAnswers
<1> QED
  BY <1>0, <1>1 DEF PeerSound

\* The other end of an offerer hears: s was on its way from the offerer.
LEMMA PeerQueues ==
  ASSUME NEW c, NEW d \in Connection, NEW s, NEW d2, Queues(d, s, d2), bounds \in Instances,
         NEW out, NEW outs, Popped(out, s, outs), NEW in, NEW sent,
         OffererLinked(c, out, in, sent), PeerSound(c, d, in, sent)
  PROVE  PeerSound(c, d2, in, sent)
<1>0. /\ Pushed(d.queue, s, d2.queue) /\ d2.role = d.role /\ d2.held = d.held
      /\ (UnknownTo(c, d2) <=> UnknownTo(c, d)) /\ Own(d2) = Own(d)
  BY DEF Queues, Hands, UnknownTo, Own
<1>1. Without(d2.queue, "Answer", c.cert)
  BY <1>0, PoppedWithout, PushedWithout DEF OffererLinked, PeerSound
<1>2. Waits(c) /\ ~c.pending => Without(d2.queue, "Offer", c.cert)
  BY <1>0, PoppedWithout, PushedWithout DEF OffererLinked, PeerSound, UnofferedSound
<1> QED
  BY <1>0, <1>1, <1>2 DEF PeerSound

\* A connection is sound with another signal queued, an offer only of the
\* certificate it answers.
LEMMA QueuesKeeps ==
  ASSUME NEW c \in Connection, NEW s, NEW c2, Queues(c, s, c2), bounds \in Instances,
         NEW fp, NEW p, NEW n, ConnectionSound(c, fp, p, n),
         s.kind = "Offer" => c.role = "Answerer" /\ s.of.cert = fp
  PROVE  ConnectionSound(c2, fp, p, n)
<1>0. /\ c2.offer = c.offer /\ c2.pending = c.pending /\ c2.aborted = c.aborted
      /\ (c2.answering <=> c.answering) /\ c2.holds = c.holds /\ c2.held = c.held
      /\ c2.cert = c.cert /\ c2.role = c.role /\ c2.round = c.round /\ c2.remote = c.remote
      /\ (c2.broken <=> c.broken) /\ Own(c2) = Own(c) /\ Pushed(c.queue, s, c2.queue)
      /\ c.role \in {"Offerer", "Answerer"}
  BY Fields DEF Queues, Hands, Own
<1>1. GateSound(c2) /\ HeldSound(c2, n) /\ RoundsSound(c2, p)
  BY <1>0 DEF ConnectionSound, GateSound, HeldSound, RoundsSound
<1>2. ASSUME c.role = "Answerer" PROVE AnswererSound(c2, fp)
  <2>1. AnswererSound(c, fp)
    BY <1>2 DEF ConnectionSound
  <2>2. \A i \in DOMAIN c2.queue : c2.queue[i].kind = "Offer" => c2.queue[i].of.cert = fp
    BY <1>0, <2>1 DEF Pushed, AnswererSound
  <2>3. c2.remote = Nobody /\ ~c2.broken => c2.queue # <<>> /\ Head(c2.queue).kind = "Offer"
    BY <1>0, <2>1 DEF Pushed, AnswererSound
  <2> QED
    BY <1>0, <2>1, <2>2, <2>3 DEF AnswererSound
<1>3. ASSUME c.role = "Offerer" PROVE OffererSound(c2)
  BY <1>0, <1>3 DEF ConnectionSound, OffererSound, Pushed
<1> QED
  BY <1>0, <1>1, <1>2, <1>3 DEF ConnectionSound

------------------------------------------------------------------------------
\* What the task that applies the signals makes of them

\* s is taken from the queue.
Consumes(c, s, c2) ==
  /\ c2 \in Connection /\ Popped(c.queue, s, c2.queue)
  /\ c2.cert = c.cert /\ c2.role = c.role /\ c2.round = c.round
  /\ c2.offer = c.offer /\ c2.aborted = c.aborted /\ c2.answering = c.answering
  /\ c2.holds = c.holds /\ c2.held = c.held
\* Nothing comes of it.
Ignores(c, s, c2) ==
  /\ Consumes(c, s, c2) /\ s.kind # "Offer"
  /\ c2.remote = c.remote /\ c2.broken = c.broken /\ c2.pending = c.pending
  /\ s.kind = "Answer" => ~c.pending
\* It cannot be applied.
Breaks(c, s, c2) ==
  Consumes(c, s, c2) /\ c2.broken /\ c2.remote = c.remote /\ c2.pending = c.pending
\* It is the answer.
Accepts(c, s, c2) ==
  /\ Consumes(c, s, c2) /\ s.kind = "Answer" /\ c.pending /\ ~c2.pending
  /\ c2.remote = s.of /\ c2.broken = c.broken
Applies(c, s, c2) == Ignores(c, s, c2) \/ Breaks(c, s, c2) \/ Accepts(c, s, c2)

\* run_signal_queue keeps a connection sound, whether a signal is applied or not.
LEMMA AppliesKeeps ==
  ASSUME NEW c \in Connection, NEW s \in Signal, NEW c2, Applies(c, s, c2), bounds \in Instances,
         NEW fp, NEW p, NEW n, NEW po, ConnectionSound(c, fp, p, n), SignalsSound(c.queue, po, n)
  PROVE  ConnectionSound(c2, fp, p, n) /\ SignalsSound(c2.queue, po, n)
<1>0. /\ Consumes(c, s, c2) /\ Own(c2) = Own(c) /\ Popped(c.queue, s, c2.queue)
      /\ c.role \in {"Offerer", "Answerer"}
  BY Fields DEF Applies, Ignores, Breaks, Accepts, Consumes, Own
<1>1. SignalsSound(c2.queue, po, n) /\ s.of.cert \in 1..n
  BY <1>0, PoppedSound
<1>2. GateSound(c2) /\ HeldSound(c2, n) /\ RoundsSound(c2, p)
  BY <1>0 DEF ConnectionSound, GateSound, HeldSound, RoundsSound, Consumes
<1>3. c2.cert <= n /\ c2.remote.cert <= n
  BY <1>0, <1>1 DEF Applies, Ignores, Breaks, Accepts, Consumes, ConnectionSound
<1>4. ASSUME c.role = "Answerer" PROVE AnswererSound(c2, fp)
  <2>1. AnswererSound(c, fp)
    BY <1>4 DEF ConnectionSound
  <2>2. \A i \in DOMAIN c2.queue : c2.queue[i].kind = "Offer" => c2.queue[i].of.cert = fp
    BY <1>0, <2>1 DEF Popped, AnswererSound
  <2>3. c2.remote = c.remote /\ ~c2.pending
    BY <2>1 DEF Applies, Ignores, Breaks, Accepts, AnswererSound
  <2>4. c2.remote = Nobody /\ ~c2.broken => FALSE
    <3> SUFFICES ASSUME c2.remote = Nobody, ~c2.broken PROVE FALSE
      OBVIOUS
    <3>1. s.kind # "Offer" /\ c.remote = Nobody /\ ~c.broken
      BY <2>1 DEF Applies, Ignores, Breaks, Accepts, AnswererSound
    <3>2. Head(c.queue).kind = "Offer" /\ c.queue # <<>>
      BY <2>1, <3>1 DEF AnswererSound
    <3>3. c.queue \in Seq(Signal)
      BY Fields
    <3>4. Head(c.queue) = s
      BY <1>0, <3>2, <3>3 DEF Popped
    <3> QED
      BY <3>1, <3>2, <3>4
  <2> QED
    BY <1>0, <2>1, <2>2, <2>3, <2>4 DEF AnswererSound, Consumes
<1>5. ASSUME c.role = "Offerer" PROVE OffererSound(c2)
  <2>1. OffererSound(c)
    BY <1>5 DEF ConnectionSound
  <2> QED
    BY <1>0, <2>1 DEF OffererSound, Consumes, Popped
<1> QED
  BY <1>0, <1>1, <1>2, <1>3, <1>4, <1>5 DEF ConnectionSound, Consumes

\* An answer that an offerer applies was before the candidates it brings.
LEMMA OffererApplies ==
  ASSUME NEW c \in Connection, NEW s \in Signal, NEW c2, Applies(c, s, c2), bounds \in Instances,
         NEW out, NEW in, NEW sent, NEW n, NEW p, SignalsSound(c.queue, p, n),
         OffererLinked(c, out, in, sent)
  PROVE  OffererLinked(c2, out, in, sent)
<1>0. /\ c2.cert = c.cert /\ Popped(c.queue, s, c2.queue) /\ c.queue \in Seq(Signal)
  BY Fields DEF Applies, Ignores, Breaks, Accepts, Consumes
<1>1. Without(out, "Answer", c2.cert)
  BY <1>0 DEF OffererLinked
<1>2. ASSUME Waits(c2) PROVE Ignores(c, s, c2) /\ Waits(c)
  <2>1. ~Breaks(c, s, c2)
    BY <1>2 DEF Waits, Breaks
  <2>2. s.of.cert # 0
    BY <1>0, PoppedSound
  <2>3. ~Accepts(c, s, c2)
    BY <1>2, <2>2 DEF Waits, Accepts, Nobody
  <2> QED
    BY <1>2, <2>1, <2>3 DEF Applies, Waits, Ignores
<1>3. ASSUME Waits(c2), ~c2.pending PROVE UnofferedSound(c2, out, in)
  <2>1. UnofferedSound(c, out, in)
    BY <1>2, <1>3 DEF OffererLinked, Ignores
  <2> QED
    BY <1>0, <2>1, PoppedUnnamed DEF UnofferedSound
<1>4. ASSUME Waits(c2) PROVE AnswersComeFirst(c2, in, sent)
  <2>1. Waits(c) /\ Ignores(c, s, c2) /\ AnswersComeFirst(c, in, sent)
    BY <1>2, <1>4 DEF OffererLinked
  <2>2. CASE ~c.pending
    <3>1. Unnamed(c2.queue, c.cert) /\ Unnamed(in, c.cert)
      BY <1>0, <1>3, <1>4, <2>1, <2>2 DEF Ignores, UnofferedSound
    <3> QED
      BY <1>0, <3>1 DEF Unnamed, AnswersComeFirst, NamedAndSent
  <2>3. CASE s.kind # "Answer"
    <3>1. ASSUME NEW k \in DOMAIN c2.queue, NamedAndSent(c2.queue[k], c.cert, sent)
          PROVE  AnswerWithin(c2.queue, k, c.cert)
      <4>1. k + 1 \in DOMAIN c.queue /\ NamedAndSent(c.queue[k + 1], c.cert, sent)
        BY <1>0, <3>1 DEF Popped
      <4>2. AnswerWithin(c.queue, k + 1, c.cert)
        BY <2>1, <4>1 DEF AnswersComeFirst
      <4> QED
        BY <1>0, <2>3, <4>2, PoppedAnswers
    <3>2. AnswerIn(c.queue, c.cert) => AnswerIn(c2.queue, c.cert)
      BY <1>0, <2>3, PoppedAnswers
    <3> QED
      BY <1>0, <2>1, <3>1, <3>2 DEF AnswersComeFirst
  <2> QED
    BY <2>1, <2>2, <2>3 DEF Ignores
<1> QED
  BY <1>1, <1>3, <1>4 DEF OffererLinked

\* An offerer that has taken the answer of its peer waits no more.
LEMMA OffererAppliesOfPeer ==
  ASSUME NEW c \in Connection, NEW s \in Signal, NEW c2, Applies(c, s, c2), bounds \in Instances,
         NEW d, NEW in, NEW sent, NEW n, NEW p, SignalsSound(c.queue, p, n), PeerSound(c, d, in, sent)
  PROVE  PeerSound(c2, d, in, sent)
<1>0. /\ c2.cert = c.cert /\ Popped(c.queue, s, c2.queue) /\ c.queue \in Seq(Signal)
      /\ (UnknownTo(c2, d) <=> UnknownTo(c, d))
  BY Fields DEF Applies, Ignores, Breaks, Accepts, Consumes, UnknownTo
<1>1. ASSUME Waits(c2) PROVE Ignores(c, s, c2) /\ Waits(c)
  <2>1. ~Breaks(c, s, c2)
    BY <1>1 DEF Waits, Breaks
  <2>2. s.of.cert # 0
    BY <1>0, PoppedSound
  <2>3. ~Accepts(c, s, c2)
    BY <1>1, <2>2 DEF Waits, Accepts, Nobody
  <2> QED
    BY <1>1, <2>1, <2>3 DEF Applies, Waits, Ignores
<1>2. ASSUME Waits(c2), ~c2.pending
      PROVE  Without(d.queue, "Offer", c.cert) /\ UnknownTo(c, d)
  BY <1>1, <1>2 DEF PeerSound, Ignores
<1>3. ASSUME Waits(c2), ~UnknownTo(c, d), Own(d) \in sent
      PROVE  AnswerIn(c2.queue, c.cert) \/ AnswerIn(in, c.cert)
  <2>1. Waits(c) /\ Ignores(c, s, c2) /\ s.kind # "Answer"
    BY <1>1, <1>3 DEF PeerSound, Ignores
  <2>2. AnswerIn(c.queue, c.cert) \/ AnswerIn(in, c.cert)
    BY <1>3, <2>1 DEF PeerSound
  <2> QED
    BY <1>0, <2>1, <2>2, PoppedAnswers
<1> QED
  BY <1>0, <1>2, <1>3 DEF PeerSound

\* A peer that applies an answer or a candidate learns of no offerer by it.
LEMMA PeerApplies ==
  ASSUME NEW c, NEW d \in Connection, NEW s \in Signal, NEW d2, Applies(d, s, d2),
         NEW in, NEW sent, PeerSound(c, d, in, sent)
  PROVE  PeerSound(c, d2, in, sent)
<1>0. /\ d2.role = d.role /\ d2.held = d.held /\ Own(d2) = Own(d) /\ Popped(d.queue, s, d2.queue)
  BY DEF Applies, Ignores, Breaks, Accepts, Consumes, Own
<1>1. \A k : Without(d.queue, k, c.cert) => Without(d2.queue, k, c.cert)
  BY <1>0 DEF Without, Popped
<1>2. d2.remote = d.remote \/ d2.remote.cert # c.cert
  <2>1. CASE Accepts(d, s, d2)
    <3>1. s.of.cert # c.cert
      BY <1>0, <2>1 DEF PeerSound, Without, Popped, Accepts
    <3> QED
      BY <2>1, <3>1 DEF Accepts
  <2>2. CASE ~Accepts(d, s, d2)
    BY <2>2 DEF Applies, Ignores, Breaks
  <2> QED
    BY <2>1, <2>2
<1> QED
  BY <1>0, <1>1, <1>2 DEF PeerSound, UnknownTo

\* An offer is made: the round is new.
Makes(c, c2) ==
  c2 = [c EXCEPT !.offer = "making", !.holds = @ + 1, !.round = @ + 1, !.ice = "new"]

\* Making an offer keeps a connection sound: nothing was sent of the new round.
LEMMA MakingKeeps ==
  ASSUME NEW c \in Connection, NEW fp, NEW p \in Pasts, NEW n, bounds \in Instances,
         ConnectionSound(c, fp, p, n), c.offer = "spawned", NEW c2, Makes(c, c2)
  PROVE  /\ c2 \in Connection /\ ConnectionSound(c2, fp, p, n)
         /\ c.role = "Offerer" /\ c2.role = "Offerer" /\ c2.cert = c.cert /\ c2.remote = c.remote
         /\ c2.queue = c.queue /\ c2.pending = c.pending /\ c2.broken = c.broken /\ c2.held = c.held
<1>0. /\ c.holds \in Nat /\ c.round \in Nat /\ c.aborted \in Nat /\ c.role \in {"Offerer", "Answerer"}
      /\ c.held \in Seq(Signal)
  BY Fields
<1> DEFINE m == c.holds + 1
           r == c.round + 1
           c3 == [c EXCEPT !.offer = "making"]
           c4 == [c3 EXCEPT !.holds = m]
           c5 == [c4 EXCEPT !.round = r]
<1>1. m \in Nat /\ r \in Nat
  BY <1>0
<1>2. c2 = [c5 EXCEPT !.ice = "new"]
  BY DEF Makes
<1>3. c3 \in Connection
  BY Setting
<1> HIDE DEF m, r, c3
<1>11. c4 \in Connection
  BY <1>1, <1>3, Setting
<1> HIDE DEF c4
<1>12. c5 \in Connection
  BY <1>1, <1>11, Setting
<1> HIDE DEF c5
<1>4. c2 \in Connection
  BY <1>2, <1>12, Setting
<1>5. /\ c2.role = c.role /\ c2.cert = c.cert /\ c2.remote = c.remote /\ c2.round = c.round + 1
      /\ c2.queue = c.queue /\ c2.pending = c.pending /\ c2.broken = c.broken /\ c2.held = c.held
      /\ c2.offer = "making" /\ c2.holds = c.holds + 1 /\ c2.aborted = c.aborted
      /\ c2.answering = c.answering
  BY DEF Makes, Connection
<1>6. c.role = "Offerer"
  BY <1>0 DEF ConnectionSound, AnswererSound
<1>7. Own(c2).cert = c.cert /\ Own(c2).round = c.round + 1
  BY <1>5 DEF Own
<1>8. GateSound(c2)
  BY <1>0, <1>5, <1>6 DEF ConnectionSound, GateSound, OffererSound
<1>9. HeldSound(c2, n)
  <2>1. \A i \in DOMAIN c.held : c.held[i].of.round \in Nat
    BY <1>0, SignalsAre
  <2> QED
    BY <1>0, <1>5, <2>1 DEF ConnectionSound, HeldSound
<1>10. \A d \in p.sent \cup p.early : d.cert = c.cert => d.round <= c.round
  BY DEF ConnectionSound, RoundsSound
<1>13. RoundsSound(c2, p)
  <2>1. \A d \in p.sent \cup p.early : d.cert = c2.cert => d.round <= c.round /\ d.round \in Nat
    BY <1>5, <1>10, PastFields DEF Description
  <2> QED
    BY <1>0, <1>5, <1>7, <2>1 DEF RoundsSound
<1>14. OffererSound(c2)
  BY <1>5, <1>6 DEF ConnectionSound, OffererSound
<1> QED
  BY <1>4, <1>5, <1>6, <1>8, <1>9, <1>13, <1>14 DEF ConnectionSound

\* An offerer that makes an offer has sent nothing yet.
LEMMA OffererMakes ==
  ASSUME NEW c, NEW c2, c2.cert = c.cert, c2.remote = c.remote, c2.queue = c.queue,
         c2.pending = c.pending, c2.broken = c.broken, NEW out, NEW in, NEW sent
  PROVE  /\ OffererLinked(c, out, in, sent) => OffererLinked(c2, out, in, sent)
         /\ \A d : PeerSound(c, d, in, sent) => PeerSound(c2, d, in, sent)
<1>1. Waits(c2) <=> Waits(c)
  BY DEF Waits
<1>2. OffererLinked(c, out, in, sent) => OffererLinked(c2, out, in, sent)
  BY <1>1 DEF OffererLinked, UnofferedSound, AnswersComeFirst
<1>3. \A d : PeerSound(c, d, in, sent) => PeerSound(c2, d, in, sent)
  BY <1>1 DEF PeerSound, UnknownTo
<1> QED
  BY <1>2, <1>3

\* A peer that makes an offer has learned of no one.
LEMMA PeerMakes ==
  ASSUME NEW c, NEW d, NEW d2, d.role = "Offerer", d2.role = "Offerer", d2.remote = d.remote,
         d2.queue = d.queue, d2.held = d.held, NEW in, NEW sent, PeerSound(c, d, in, sent)
  PROVE  PeerSound(c, d2, in, sent)
BY DEF PeerSound, UnknownTo

\* An offer is being applied: what held the gate has let go of it, the round is new.
Meets(c, c2) ==
  c2 = [[c EXCEPT !.queue = Tail(@)] EXCEPT !.holds = @ + 1, !.answering = TRUE,
           !.remote = Head(c.queue).of, !.round = @ + 1, !.ice = "new"]

\* Applying an offer keeps a connection sound: nothing was answered in the new
\* round.
LEMMA ApplyingKeeps ==
  ASSUME NEW c \in Connection, NEW fp, NEW p \in Pasts, NEW n, NEW po, bounds \in Instances,
         ConnectionSound(c, fp, p, n), SignalsSound(c.queue, po, n),
         ~c.answering, c.queue # <<>>, Head(c.queue).kind = "Offer", NEW c2, Meets(c, c2)
  PROVE  /\ c2 \in Connection /\ ConnectionSound(c2, fp, p, n) /\ SignalsSound(c2.queue, po, n)
         /\ c2.cert = c.cert /\ c.role = "Answerer" /\ c2.role = "Answerer"
         /\ Popped(c.queue, Head(c.queue), c2.queue) /\ c2.remote = Head(c.queue).of
         /\ Own(c2) \notin p.sent
<1>0. /\ c.holds \in Nat /\ c.round \in Nat /\ c.aborted \in Nat /\ c.role \in {"Offerer", "Answerer"}
      /\ c.held \in Seq(Signal) /\ c.queue \in Seq(Signal)
  BY Fields
<1> DEFINE t == [c EXCEPT !.queue = Tail(@)]
           m == t.holds + 1
           r == t.round + 1
           s == Head(c.queue)
           o == Head(c.queue).of
           q == Tail(c.queue)
           c3 == [t EXCEPT !.holds = m]
           c4 == [c3 EXCEPT !.answering = TRUE]
           c5 == [c4 EXCEPT !.remote = o]
           c6 == [c5 EXCEPT !.round = r]
<1>1. Popped(c.queue, s, q) /\ s \in Signal /\ s.kind = "Offer"
  BY <1>0, TailPops
<1>2. o = s.of /\ o \in Description /\ o.cert \in 1..n
  BY <1>1, SignalFields, PoppedSound
<1>3. c2 = [c6 EXCEPT !.ice = "new"] /\ t = [c EXCEPT !.queue = q]
  BY DEF Meets
<1> HIDE DEF s, o, q, t
<1>4. t \in Connection
  <2>1. \A x \in Seq(Signal) : [c EXCEPT !.queue = x] \in Connection
    BY Setting
  <2>2. q \in Seq(Signal)
    BY <1>1 DEF Popped
  <2>3. [c EXCEPT !.queue = q] \in Connection
    BY <2>1, <2>2
  <2> QED
    BY <1>3, <2>3
<1>5. /\ t.queue = q /\ t.holds = c.holds /\ t.round = c.round /\ t.cert = c.cert /\ t.role = c.role
      /\ t.offer = c.offer /\ t.aborted = c.aborted /\ t.pending = c.pending /\ t.held = c.held
      /\ t.broken = c.broken
  BY <1>3 DEF Connection
<1>6. m \in Nat /\ r \in Nat /\ m = c.holds + 1 /\ r = c.round + 1
  BY <1>0, <1>5
<1> HIDE DEF m, r
<1>7. c3 \in Connection
  BY <1>4, <1>6, Setting
<1> HIDE DEF c3
<1>8. c4 \in Connection
  BY <1>7, Setting
<1> HIDE DEF c4
<1>9. c5 \in Connection
  BY <1>2, <1>8, Setting
<1> HIDE DEF c5
<1>10. c6 \in Connection
  BY <1>6, <1>9, Setting
<1> HIDE DEF c6
<1>11. c2 \in Connection
  BY <1>3, <1>10, Setting
<1>12. /\ c2.queue = q /\ c2.holds = c.holds + 1 /\ c2.round = c.round + 1 /\ c2.cert = c.cert
       /\ c2.role = c.role /\ c2.offer = c.offer /\ c2.aborted = c.aborted /\ c2.pending = c.pending
       /\ c2.held = c.held /\ c2.broken = c.broken /\ c2.answering /\ c2.remote = o
  <2>1. c2 = [t EXCEPT !.holds = m, !.answering = TRUE, !.remote = o, !.round = r, !.ice = "new"]
    BY DEF Meets, m, o, r, t
  <2>2. /\ c2.queue = t.queue /\ c2.holds = m /\ c2.round = r /\ c2.cert = t.cert
        /\ c2.role = t.role /\ c2.offer = t.offer /\ c2.aborted = t.aborted /\ c2.pending = t.pending
        /\ c2.held = t.held /\ c2.broken = t.broken /\ c2.answering /\ c2.remote = o
    BY <1>4, <2>1 DEF Connection
  <2> QED
    BY <1>5, <1>6, <2>2
<1>13. c.role = "Answerer"
  <2>1. \E i \in DOMAIN c.queue : c.queue[i].kind = "Offer"
    BY <1>1 DEF Popped
  <2> QED
    BY <1>0, <2>1 DEF ConnectionSound, OffererSound
<1>14. AnswererSound(c, fp)
  BY <1>13 DEF ConnectionSound
<1>15. c.offer = "none" /\ c.aborted = 0 /\ c.holds = 0 /\ c.held = <<>>
  BY <1>14 DEF AnswererSound, ConnectionSound, GateSound
<1>16. o.cert = fp /\ fp # 0
  BY <1>1, <1>2, <1>14 DEF AnswererSound, Popped
<1>17. GateSound(c2) /\ HeldSound(c2, n)
  BY <1>12, <1>15 DEF GateSound, HeldSound
<1>18. Own(c2).cert = c.cert /\ Own(c2).round = c.round + 1
  BY <1>12 DEF Own
<1>19. \A d \in p.sent \cup p.early : d.cert = c2.cert => d.round <= c.round /\ d.round \in Nat
  BY <1>12, PastFields DEF Description, ConnectionSound, RoundsSound
<1>20. RoundsSound(c2, p)
  BY <1>0, <1>12, <1>18, <1>19 DEF RoundsSound
<1>21. AnswererSound(c2, fp)
  <2>1. \A i \in DOMAIN c2.queue : c2.queue[i].kind = "Offer" => c2.queue[i].of.cert = fp
    BY <1>1, <1>12, <1>14 DEF Popped, AnswererSound
  <2>2. c2.remote # Nobody
    BY <1>12, <1>16 DEF Nobody
  <2>3. DOMAIN c2.held = {}
    BY <1>12, <1>15
  <2> QED
    BY <1>12, <1>14, <1>15, <1>16, <2>1, <2>2, <2>3 DEF AnswererSound
<1>22. SignalsSound(c2.queue, po, n)
  BY <1>1, <1>12, PoppedSound
<1>23. Own(c2) \notin p.sent
  BY <1>0, <1>12, <1>18, <1>19
<1>24. c2.cert <= n /\ c2.remote.cert <= n
  BY <1>2, <1>12 DEF ConnectionSound
<1> QED
  BY <1>1, <1>11, <1>12, <1>13, <1>17, <1>20, <1>21, <1>22, <1>23, <1>24 DEF ConnectionSound, s, o

\* A peer that applies an offer knows the offerer it came from, and has not
\* answered yet.
LEMMA PeerApplying ==
  ASSUME NEW c, NEW d, NEW d2, NEW s, d2.role = "Answerer", Popped(d.queue, s, d2.queue),
         s.kind = "Offer", d2.remote = s.of, NEW in, NEW sent, Own(d2) \notin sent,
         PeerSound(c, d, in, sent)
  PROVE  PeerSound(c, d2, in, sent)
<1>1. /\ Without(d2.queue, "Answer", c.cert)
      /\ Without(d.queue, "Offer", c.cert) => Without(d2.queue, "Offer", c.cert) /\ UnknownTo(c, d2)
  BY PoppedWithout DEF PeerSound, UnknownTo
<1> QED
  BY <1>1 DEF PeerSound

------------------------------------------------------------------------------
\* A new connection

Fresh(c, role, q, n) ==
  /\ c \in Connection /\ c.cert = n /\ c.role = role /\ c.remote = Nobody /\ c.queue = q
  /\ c.offer = (IF role = "Offerer" THEN "spawned" ELSE "none")
  /\ c.held = <<>> /\ c.holds = 0 /\ c.aborted = 0 /\ ~c.answering /\ ~c.pending /\ ~c.broken

\* create_peer_connection makes a connection of its own certificate with nothing
\* done.
LEMMA NewIs ==
  ASSUME Shape, made < bounds.connections, NEW role \in {"Offerer", "Answerer"}, NEW q \in Seq(Signal),
         NEW offer, offer = (IF role = "Offerer" THEN "spawned" ELSE "none")
  PROVE  Fresh(NewConnection(role, offer, q), role, q, made + 1)
<1> DEFINE c == NewConnection(role, offer, q)
<1>1. /\ made + 1 \in 1..bounds.connections /\ 0 \in 0..bounds.restarts /\ Nobody \in Description
      /\ <<>> \in Seq(Signal) /\ offer \in {"none", "spawned"}
  BY BoundsAre DEF Shape, Nobody, Description
<1>2. c = [cert |-> made + 1, role |-> role, restarts |-> 0, recovering |-> FALSE, reached |-> FALSE,
           round |-> 0, gathered |-> 0, remote |-> Nobody, pending |-> FALSE,
           offer |-> offer, aborted |-> 0, answering |-> FALSE, queue |-> q, holds |-> 0, held |-> <<>>,
           ice |-> "new", channel |-> "new", failed |-> FALSE, broken |-> FALSE]
  BY DEF NewConnection
<1> HIDE DEF c
<1>3. c \in Connection
  BY <1>1, <1>2 DEF Connection
<1>4. Fresh(c, role, q, made + 1)
  BY <1>2, <1>3 DEF Fresh
<1> QED
  BY <1>4 DEF c
------------------------------------------------------------------------------
\* The two ends

\* The past counts by what was sent in it.
LEMMA PastKeeps ==
  ASSUME NEW c, NEW d, NEW fp, NEW fo, NEW p, NEW po, NEW w, NEW wo, NEW n,
         Pair(c, d, fp, fo, p, po, w, wo, n), NEW p2, p2.sent = p.sent, p2.early = p.early
  PROVE  Pair(c, d, fp, fo, p2, po, w, wo, n)
<1>1. \A q : SignalsSound(q, p2, n) <=> SignalsSound(q, p, n)
  BY DEF SignalsSound
<1>2. PastSound(p2, n) <=> PastSound(p, n)
  BY DEF PastSound
<1>3. ConnectionSound(c, fp, p2, n) <=> ConnectionSound(c, fp, p, n)
  BY DEF ConnectionSound, RoundsSound
<1> QED
  BY <1>1, <1>2, <1>3 DEF Pair, EndSound

\* Whatever an end says, if it may, the two ends are still linked.
LEMMA SaysLinks ==
  ASSUME bounds \in Instances, NEW c \in Connection, NEW d \in Connection \cup {NoConnection},
         NEW fp, NEW fo, NEW p \in Pasts, NEW po \in Pasts, NEW w \in Seq(Signal),
         NEW wo \in Seq(Signal), NEW n \in Nat, Pair(c, d, fp, fo, p, po, w, wo, n),
         NEW c2, NEW q, Says(c, c2, q, fp, p, n), NEW p2, After(q, p, p2), NEW w2, w2 = w \o q
  PROVE  Pair(c2, d, fp, fo, p2, po, w2, wo, n)
<1>0. /\ c # NoConnection /\ c2 \in Connection /\ c2 # NoConnection /\ q \in Seq(Signal)
      /\ c.cert \in 1..n /\ c.role = c2.role /\ c.role \in {"Offerer", "Answerer"}
      /\ c2.queue = c.queue
  <2>1. c2 \in Connection /\ q \in Seq(Signal) /\ c.role = c2.role /\ c2.queue = c.queue
    BY DEF Says, Speaks
  <2>2. c # NoConnection /\ c2 # NoConnection /\ c.role \in {"Offerer", "Answerer"}
        /\ c.cert \in Nat /\ c.cert > 0
    BY <2>1, Fields
  <2>3. c.cert <= n
    BY <2>2 DEF Pair, EndSound, ConnectionSound
  <2> QED
    BY <2>1, <2>2, <2>3
<1>1. Joined(w, q, w2)
  BY <1>0, ConcatJoins
<1>2. p.sent \cup p.early \subseteq p2.sent \cup p2.early
  BY DEF After
<1>3. /\ ConnectionSound(c, fp, p, n) /\ SignalsSound(c.queue, po, n) /\ PastSound(p, n)
      /\ SignalsSound(w, p, n)
  BY <1>0 DEF Pair, EndSound
<1>4. EndSound(c2, fp, p2, po, w2, n)
  <2>1. ConnectionSound(c2, fp, p2, n)
    BY <1>3, SaysKeeps
  <2>2. Batch(q, c, p, n)
    BY DEF Says
  <2>3. PastSound(p2, n)
    BY <1>0, <1>3, <2>2, BatchKeeps
  <2>4. SignalsSound(w2, p2, n)
    BY <1>0, <1>3, <2>2, BatchSignals
  <2> QED
    BY <1>0, <1>3, <2>1, <2>3, <2>4 DEF EndSound
<1>5. EndSound(d, fo, po, p2, wo, n)
  <2>1. EndSound(d, fo, po, p, wo, n)
    BY DEF Pair
  <2>2. ASSUME d # NoConnection PROVE SignalsSound(d.queue, p2, n)
    <3>1. d.queue \in Seq(Signal)
      BY <2>2, Fields
    <3>2. SignalsSound(d.queue, p, n) /\ n <= n
      BY <2>1, <2>2 DEF EndSound
    <3> QED
      BY <1>2, <3>1, <3>2, SignalsStay
  <2> QED
    BY <2>1, <2>2 DEF EndSound
<1>6. Speaks(c, c2, q)
  BY DEF Says
<1>7. LinkSound(c2, d, w2, wo, po.sent)
  <2> SUFFICES ASSUME c2.role = "Offerer"
               PROVE  /\ OffererLinked(c2, w2, wo, po.sent)
                      /\ d # NoConnection => PeerSound(c2, d, wo, po.sent)
    BY DEF LinkSound
  <2>1. OffererLinked(c, w, wo, po.sent) /\ (d # NoConnection => PeerSound(c, d, wo, po.sent))
    BY <1>0 DEF Pair, LinkSound
  <2>2. OffererLinked(c2, w2, wo, po.sent)
    BY <1>0, <1>1, <1>6, <2>1, OffererSpeaks
  <2>3. d # NoConnection => PeerSound(c2, d, wo, po.sent)
    BY <1>6, <2>1, OffererSpeaksToPeer
  <2> QED
    BY <2>2, <2>3
<1>8. LinkSound(d, c2, wo, w2, p2.sent)
  <2> SUFFICES ASSUME d # NoConnection, d.role = "Offerer"
               PROVE  OffererLinked(d, wo, w2, p2.sent) /\ PeerSound(d, c2, w2, p2.sent)
    BY <1>0 DEF LinkSound
  <2>1. OffererLinked(d, wo, w, p.sent) /\ PeerSound(d, c, w, p.sent)
    BY <1>0 DEF Pair, LinkSound
  <2>2. \A i \in DOMAIN q : q[i].kind # "Candidate" => Own(c) \notin p.sent \cup p.early
    BY DEF Says
  <2>3. Batch(q, c, p, n) /\ d \in Connection
    BY DEF Says
  <2>4. SignalsSound(d.queue, p, n)
    BY DEF Pair, EndSound
  <2> QED
    BY <1>0, <1>1, <1>3, <1>6, <2>1, <2>2, <2>3, <2>4, PeerSpeaks
<1> QED
  BY <1>4, <1>5, <1>7, <1>8 DEF Pair

\* What arrives is queued, or dropped.
LEMMA QueuesLinks ==
  ASSUME bounds \in Instances, NEW c \in Connection, NEW d \in Connection \cup {NoConnection},
         NEW fp, NEW fo, NEW p, NEW po, NEW w \in Seq(Signal),
         NEW wo \in Seq(Signal), NEW n, Pair(c, d, fp, fo, p, po, w, wo, n),
         NEW s \in Signal, NEW wo2, Popped(wo, s, wo2), NEW c2, Queues(c, s, c2),
         s.kind = "Offer" => c.role = "Answerer" /\ s.of.cert = fp
  PROVE  Pair(c2, d, fp, fo, p, po, w, wo2, n)
<1>0. /\ c # NoConnection /\ c2 # NoConnection /\ c2.role = c.role /\ Pushed(c.queue, s, c2.queue)
  BY Fields DEF Queues
<1>1. /\ ConnectionSound(c, fp, p, n) /\ SignalsSound(c.queue, po, n) /\ PastSound(p, n)
      /\ SignalsSound(w, p, n) /\ SignalsSound(wo, po, n)
  BY <1>0 DEF Pair, EndSound
<1>2. EndSound(c2, fp, p, po, w, n)
  <2>1. ConnectionSound(c2, fp, p, n)
    BY <1>1, QueuesKeeps
  <2>2. SignalsSound(c2.queue, po, n)
    BY <1>0, <1>1, PoppedSound, PushedSound
  <2> QED
    BY <1>1, <2>1, <2>2 DEF EndSound
<1>3. EndSound(d, fo, po, p, wo2, n)
  BY <1>1, PoppedSound DEF Pair, EndSound
<1>4. LinkSound(c2, d, w, wo2, po.sent)
  <2> SUFFICES ASSUME c2.role = "Offerer"
               PROVE  /\ OffererLinked(c2, w, wo2, po.sent)
                      /\ d # NoConnection => PeerSound(c2, d, wo2, po.sent)
    BY DEF LinkSound
  <2>1. OffererLinked(c, w, wo, po.sent) /\ (d # NoConnection => PeerSound(c, d, wo, po.sent))
    BY <1>0 DEF Pair, LinkSound
  <2>2. OffererLinked(c2, w, wo2, po.sent)
    BY <2>1, OffererQueues
  <2>3. d # NoConnection => PeerSound(c2, d, wo2, po.sent)
    BY <2>1, OffererQueuesOfPeer
  <2> QED
    BY <2>2, <2>3
<1>5. LinkSound(d, c2, wo2, w, p.sent)
  <2> SUFFICES ASSUME d # NoConnection, d.role = "Offerer"
               PROVE  OffererLinked(d, wo2, w, p.sent) /\ PeerSound(d, c2, w, p.sent)
    BY <1>0 DEF LinkSound
  <2>1. OffererLinked(d, wo, w, p.sent) /\ PeerSound(d, c, w, p.sent)
    BY <1>0 DEF Pair, LinkSound
  <2> QED
    BY <2>1, LosesOut, PeerQueues
<1> QED
  BY <1>2, <1>3, <1>4, <1>5 DEF Pair

\* A signal that is dropped on arrival leaves the two ends linked.
LEMMA DropsLinks ==
  ASSUME bounds \in Instances, NEW c, NEW d, NEW fp, NEW fo, NEW p, NEW po, NEW w,
         NEW wo \in Seq(Signal), NEW n, Pair(c, d, fp, fo, p, po, w, wo, n),
         NEW s \in Signal, NEW wo2, Popped(wo, s, wo2),
         c = NoConnection \/ s.kind = "Offer"
  PROVE  Pair(c, d, fp, fo, p, po, w, wo2, n)
<1>1. EndSound(c, fp, p, po, w, n)
  BY DEF Pair
<1>2. EndSound(d, fo, po, p, wo2, n)
  BY PoppedSound DEF Pair, EndSound
<1>3. LinkSound(c, d, w, wo2, po.sent)
  <2> SUFFICES ASSUME c # NoConnection, c.role = "Offerer"
               PROVE  /\ OffererLinked(c, w, wo2, po.sent)
                      /\ d # NoConnection => PeerSound(c, d, wo2, po.sent)
    BY DEF LinkSound
  <2>1. OffererLinked(c, w, wo, po.sent) /\ (d # NoConnection => PeerSound(c, d, wo, po.sent))
    BY DEF Pair, LinkSound
  <2> QED
    BY <2>1, DropsOffer, DropsOfferToPeer
<1>4. LinkSound(d, c, wo2, w, p.sent)
  BY LosesOut DEF Pair, LinkSound
<1> QED
  BY <1>1, <1>2, <1>3, <1>4 DEF Pair

\* A signal is applied.
LEMMA AppliesLinks ==
  ASSUME bounds \in Instances, NEW c \in Connection, NEW d \in Connection \cup {NoConnection},
         NEW fp, NEW fo, NEW p, NEW po, NEW w, NEW wo, NEW n, Pair(c, d, fp, fo, p, po, w, wo, n),
         NEW s \in Signal, NEW c2, Applies(c, s, c2)
  PROVE  Pair(c2, d, fp, fo, p, po, w, wo, n)
<1>0. c # NoConnection /\ c2 # NoConnection /\ c2.role = c.role
  BY Fields DEF Applies, Ignores, Breaks, Accepts, Consumes
<1>1. ConnectionSound(c, fp, p, n) /\ SignalsSound(c.queue, po, n)
  BY <1>0 DEF Pair, EndSound
<1>2. EndSound(c2, fp, p, po, w, n)
  BY <1>0, <1>1, AppliesKeeps DEF Pair, EndSound
<1>3. LinkSound(c2, d, w, wo, po.sent)
  <2> SUFFICES ASSUME c2.role = "Offerer"
               PROVE  /\ OffererLinked(c2, w, wo, po.sent)
                      /\ d # NoConnection => PeerSound(c2, d, wo, po.sent)
    BY DEF LinkSound
  <2>1. OffererLinked(c, w, wo, po.sent) /\ (d # NoConnection => PeerSound(c, d, wo, po.sent))
    BY <1>0 DEF Pair, LinkSound
  <2>2. OffererLinked(c2, w, wo, po.sent)
    BY <1>1, <2>1, OffererApplies
  <2>3. d # NoConnection => PeerSound(c2, d, wo, po.sent)
    BY <1>1, <2>1, OffererAppliesOfPeer
  <2> QED
    BY <2>2, <2>3
<1>4. LinkSound(d, c2, wo, w, p.sent)
  <2> SUFFICES ASSUME d # NoConnection, d.role = "Offerer"
               PROVE  OffererLinked(d, wo, w, p.sent) /\ PeerSound(d, c2, w, p.sent)
    BY <1>0 DEF LinkSound
  <2>1. OffererLinked(d, wo, w, p.sent) /\ PeerSound(d, c, w, p.sent)
    BY <1>0 DEF Pair, LinkSound
  <2> QED
    BY <2>1, PeerApplies
<1> QED
  BY <1>2, <1>3, <1>4 DEF Pair, EndSound

\* An offer is being made.
LEMMA MakesLinks ==
  ASSUME bounds \in Instances, NEW c \in Connection, NEW d \in Connection \cup {NoConnection},
         NEW fp, NEW fo, NEW p \in Pasts, NEW po, NEW w, NEW wo, NEW n,
         Pair(c, d, fp, fo, p, po, w, wo, n), c.offer = "spawned", NEW c2, Makes(c, c2)
  PROVE  c2 \in Connection /\ c2.cert = c.cert /\ Pair(c2, d, fp, fo, p, po, w, wo, n)
<1>0. ConnectionSound(c, fp, p, n) /\ c # NoConnection
  BY Fields DEF Pair, EndSound
<1>1. /\ c2 \in Connection /\ ConnectionSound(c2, fp, p, n)
      /\ c.role = "Offerer" /\ c2.role = "Offerer" /\ c2.cert = c.cert /\ c2.remote = c.remote
      /\ c2.queue = c.queue /\ c2.pending = c.pending /\ c2.broken = c.broken /\ c2.held = c.held
  BY <1>0, MakingKeeps
<1>2. c2 # NoConnection
  BY <1>1, Fields
<1>3. EndSound(c2, fp, p, po, w, n)
  BY <1>0, <1>1 DEF Pair, EndSound
<1>4. LinkSound(c2, d, w, wo, po.sent)
  BY <1>0, <1>1, OffererMakes DEF Pair, LinkSound
<1>5. LinkSound(d, c2, wo, w, p.sent)
  BY <1>0, <1>1, PeerMakes DEF Pair, LinkSound
<1> QED
  BY <1>1, <1>3, <1>4, <1>5 DEF Pair, EndSound

\* An offer is being applied.
LEMMA ApplyingLinks ==
  ASSUME bounds \in Instances, NEW c \in Connection, NEW d \in Connection \cup {NoConnection},
         NEW fp, NEW fo, NEW p \in Pasts, NEW po, NEW w, NEW wo, NEW n,
         Pair(c, d, fp, fo, p, po, w, wo, n),
         ~c.answering, c.queue # <<>>, Head(c.queue).kind = "Offer", NEW c2, Meets(c, c2)
  PROVE  c2 \in Connection /\ c2.cert = c.cert /\ Pair(c2, d, fp, fo, p, po, w, wo, n)
<1>0. ConnectionSound(c, fp, p, n) /\ SignalsSound(c.queue, po, n) /\ c # NoConnection
  BY Fields DEF Pair, EndSound
<1> DEFINE s == Head(c.queue)
<1>1. /\ c2 \in Connection /\ ConnectionSound(c2, fp, p, n) /\ SignalsSound(c2.queue, po, n)
      /\ c2.cert = c.cert /\ c.role = "Answerer" /\ c2.role = "Answerer"
      /\ Popped(c.queue, s, c2.queue) /\ c2.remote = s.of
      /\ Own(c2) \notin p.sent
  BY <1>0, ApplyingKeeps
<1>2. s.kind = "Offer"
  OBVIOUS
<1> HIDE DEF s
<1>3. EndSound(c2, fp, p, po, w, n)
  BY <1>0, <1>1 DEF Pair, EndSound
<1>4. LinkSound(c2, d, w, wo, po.sent)
  BY <1>1 DEF LinkSound
<1>5. LinkSound(d, c2, wo, w, p.sent)
  BY <1>0, <1>1, <1>2, PeerApplying DEF Pair, LinkSound
<1> QED
  BY <1>1, <1>3, <1>4, <1>5 DEF Pair, EndSound

\* A new connection is known to nobody yet.
LEMMA Older ==
  ASSUME NEW n \in Nat, bounds \in Instances, NEW d \in Connection, NEW fo, NEW po,
         ConnectionSound(d, fo, po, n)
  PROVE  ConnectionSound(d, fo, po, n + 1)
<1>1. d.cert <= n + 1 /\ d.remote.cert <= n + 1
  BY Fields DEF ConnectionSound
<1>2. d.held \in Seq(Signal)
  BY Fields
<1>3. HeldSound(d, n + 1)
  BY <1>2, SignalsAre DEF ConnectionSound, HeldSound
<1> QED
  BY <1>1, <1>3 DEF ConnectionSound

\* A connection, and what is on its way, was made before the next is.
LEMMA OlderEnd ==
  ASSUME bounds \in Instances, NEW d \in Connection \cup {NoConnection}, NEW fo, NEW p, NEW po,
         NEW wo \in Seq(Signal), NEW n \in Nat, EndSound(d, fo, po, p, wo, n)
  PROVE  EndSound(d, fo, po, p, wo, n + 1)
<1>1. PastSound(po, n + 1)
  BY DEF EndSound, PastSound
<1>2. SignalsSound(wo, po, n + 1)
  BY SignalsStay DEF EndSound
<1>3. ASSUME d # NoConnection
      PROVE  ConnectionSound(d, fo, po, n + 1) /\ SignalsSound(d.queue, p, n + 1)
  <2>1. d \in Connection /\ d.queue \in Seq(Signal)
    BY <1>3, Fields
  <2>2. SignalsSound(d.queue, p, n) /\ ConnectionSound(d, fo, po, n)
    BY <1>3 DEF EndSound
  <2>3. SignalsSound(d.queue, p, n + 1)
    BY <2>1, <2>2, SignalsStay
  <2> QED
    BY <2>1, <2>2, <2>3, Older
<1> QED
  BY <1>1, <1>2, <1>3 DEF EndSound

\* A new connection is sound.
LEMMA FreshSound ==
  ASSUME bounds \in Instances, NEW p, NEW n \in Nat, PastSound(p, n), NEW role \in {"Offerer", "Answerer"},
         NEW q \in Seq(Signal), NEW c, Fresh(c, role, q, n + 1), NEW fp,
         role = "Offerer" => q = <<>>,
         role = "Answerer" => /\ fp # 0 /\ q # <<>> /\ Head(q).kind = "Offer"
                              /\ \A i \in DOMAIN q : q[i].kind = "Offer" => q[i].of.cert = fp
  PROVE  ConnectionSound(c, fp, p, n + 1)
<1>1. c.remote.cert = 0 /\ 0 <= n + 1 /\ c.cert <= n + 1
  BY DEF Fresh, Nobody
<1>2. GateSound(c) /\ HeldSound(c, n + 1)
  BY DEF Fresh, GateSound, HeldSound
<1>3. RoundsSound(c, p)
  BY DEF Fresh, RoundsSound, PastSound
<1>4. c.role = "Answerer" => AnswererSound(c, fp)
  BY <1>1 DEF Fresh, AnswererSound
<1>5. c.role = "Offerer" => OffererSound(c)
  BY DEF Fresh, OffererSound
<1> QED
  BY <1>1, <1>2, <1>3, <1>4, <1>5 DEF ConnectionSound

\* connect_peer: nobody knows the new connection, and nothing is addressed to it.
LEMMA DialsLinks ==
  ASSUME bounds \in Instances, NEW d \in Connection \cup {NoConnection},
         NEW fp, NEW fo, NEW p, NEW po, NEW w \in Seq(Signal),
         NEW wo \in Seq(Signal), NEW n \in Nat, Pair(NoConnection, d, fp, fo, p, po, w, wo, n),
         NEW c2, Fresh(c2, "Offerer", <<>>, n + 1)
  PROVE  Pair(c2, d, fp, fo, p, po, w, wo, n + 1)
<1>0. /\ c2.cert = n + 1 /\ c2.queue = <<>> /\ c2.held = <<>> /\ c2.remote.cert = 0 /\ c2.role = "Offerer"
      /\ c2 # NoConnection
  BY Fields DEF Fresh, Nobody
<1>1. PastSound(p, n) /\ SignalsSound(w, p, n) /\ SignalsSound(wo, po, n)
  BY DEF Pair, EndSound
<1>2. EndSound(c2, fp, p, po, w, n + 1)
  <2>1. ConnectionSound(c2, fp, p, n + 1)
    <3> DEFINE q == <<>>
    <3>1. q \in Seq(Signal) /\ Fresh(c2, "Offerer", q, n + 1) /\ q = <<>>
      OBVIOUS
    <3> HIDE DEF q
    <3> QED
      BY <1>1, <3>1, FreshSound
  <2>2. SignalsSound(c2.queue, po, n + 1)
    BY <1>0 DEF SignalsSound
  <2>3. PastSound(p, n + 1)
    BY <1>1 DEF PastSound
  <2>4. SignalsSound(w, p, n + 1)
    BY <1>1, SignalsStay
  <2> QED
    BY <2>1, <2>2, <2>3, <2>4 DEF EndSound
<1>3. EndSound(d, fo, po, p, wo, n + 1)
  BY OlderEnd DEF Pair
<1>4. /\ \A k : Without(w, k, n + 1) /\ Unnamed(w, n + 1) /\ Unnamed(wo, n + 1)
  <2>1. \A q \in Seq(Signal) : \A r : SignalsSound(q, r, n) =>
          Unnamed(q, n + 1) /\ \A k : Without(q, k, n + 1)
    BY SignalsAre DEF SignalsSound, Without, Unnamed
  <2> QED
    BY <1>1, <2>1
<1>5. LinkSound(c2, d, w, wo, po.sent)
  <2>1. OffererLinked(c2, w, wo, po.sent)
    <3>1. Unnamed(c2.queue, n + 1)
      BY <1>0 DEF Unnamed
    <3>2. AnswersComeFirst(c2, wo, po.sent)
      BY <1>0, <1>4 DEF AnswersComeFirst, NamedAndSent, Unnamed
    <3> QED
      BY <1>0, <1>4, <3>1, <3>2 DEF OffererLinked, UnofferedSound
  <2>2. ASSUME d # NoConnection PROVE PeerSound(c2, d, wo, po.sent)
    <3>1. /\ d.queue \in Seq(Signal) /\ d.held \in Seq(Signal) /\ d.remote.cert \in Nat
      BY <2>2, Fields
    <3>2. SignalsSound(d.queue, p, n) /\ HeldSound(d, n) /\ d.remote.cert <= n
      BY <2>2 DEF Pair, EndSound, ConnectionSound
    <3>3. \A k : Without(d.queue, k, n + 1)
      BY <3>1, <3>2, SignalsAre DEF SignalsSound, Without
    <3>4. Unnamed(d.held, n + 1)
      BY <3>1, <3>2, SignalsAre DEF HeldSound, Unnamed
    <3>5. UnknownTo(c2, d)
      BY <1>0, <3>1, <3>2 DEF UnknownTo
    <3> QED
      BY <1>0, <3>3, <3>4, <3>5 DEF PeerSound
  <2> QED
    BY <2>1, <2>2 DEF LinkSound
<1>6. LinkSound(d, c2, wo, w, p.sent)
  <2> SUFFICES ASSUME d # NoConnection, d.role = "Offerer"
               PROVE  OffererLinked(d, wo, w, p.sent) /\ PeerSound(d, c2, w, p.sent)
    BY DEF LinkSound
  <2>1. OffererLinked(d, wo, w, p.sent)
    BY DEF Pair, LinkSound
  <2>2. d.cert # 0
    BY Fields
  <2>3. PeerSound(d, c2, w, p.sent)
    BY <1>0, <2>2 DEF PeerSound, UnknownTo, Without, Unnamed
  <2> QED
    BY <2>1, <2>3
<1> QED
  BY <1>2, <1>3, <1>5, <1>6 DEF Pair

\* accept_offer: a new answerer knows its peer by the offer in its queue only.
LEMMA AnswersLinks ==
  ASSUME bounds \in Instances, NEW c, NEW d \in Connection \cup {NoConnection},
         NEW fp, NEW fo, NEW p, NEW po, NEW w \in Seq(Signal),
         NEW wo \in Seq(Signal), NEW n \in Nat, Pair(c, d, fp, fo, p, po, w, wo, n),
         NEW s \in Signal, NEW wo2, Popped(wo, s, wo2), s.kind = "Offer",
         NEW c2, Fresh(c2, "Answerer", <<s>>, n + 1)
  PROVE  Pair(c2, d, s.of.cert, fo, p, po, w, wo2, n + 1)
<1>0. /\ c2.cert = n + 1 /\ c2.queue = <<s>> /\ c2.held = <<>> /\ c2.remote.cert = 0 /\ c2.role = "Answerer"
      /\ c2 # NoConnection /\ wo2 \in Seq(Signal) /\ <<s>> \in Seq(Signal)
  BY Fields DEF Fresh, Nobody, Popped
<1>1. PastSound(p, n) /\ SignalsSound(w, p, n) /\ SignalsSound(wo, po, n)
  BY DEF Pair, EndSound
<1>2. SignalsSound(wo2, po, n) /\ s.of.cert \in 1..n /\ s.to <= n /\ s.to \in Nat
  BY <1>1, PoppedSound, SignalFields
<1>3. EndSound(c2, s.of.cert, p, po, w, n + 1)
  <2>1. ConnectionSound(c2, s.of.cert, p, n + 1)
    <3>1. s.of.cert # 0 /\ <<s>> # <<>> /\ Head(<<s>>).kind = "Offer"
      BY <1>2
    <3>2. \A i \in DOMAIN <<s>> : <<s>>[i].kind = "Offer" => <<s>>[i].of.cert = s.of.cert
      OBVIOUS
    <3> QED
      BY <1>0, <1>1, <3>1, <3>2, FreshSound
  <2>2. SignalsSound(c2.queue, po, n + 1)
    BY <1>0, <1>2 DEF SignalsSound
  <2>3. PastSound(p, n + 1)
    BY <1>1 DEF PastSound
  <2>4. SignalsSound(w, p, n + 1)
    BY <1>1, SignalsStay
  <2> QED
    BY <2>1, <2>2, <2>3, <2>4 DEF EndSound
<1>4. EndSound(d, fo, po, p, wo2, n + 1)
  <2>1. EndSound(d, fo, po, p, wo2, n)
    BY <1>2 DEF Pair, EndSound
  <2> QED
    BY <1>0, <2>1, OlderEnd
<1>5. LinkSound(c2, d, w, wo2, po.sent)
  BY <1>0 DEF LinkSound
<1>6. LinkSound(d, c2, wo2, w, p.sent)
  <2> SUFFICES ASSUME d # NoConnection, d.role = "Offerer"
               PROVE  OffererLinked(d, wo2, w, p.sent) /\ PeerSound(d, c2, w, p.sent)
    BY DEF LinkSound
  <2>1. OffererLinked(d, wo, w, p.sent)
    BY DEF Pair, LinkSound
  <2>2. d.cert # 0 /\ UnknownTo(d, c2)
    BY <1>0, Fields DEF UnknownTo
  <2>3. Waits(d) /\ ~d.pending => s.of.cert # d.cert
    BY <2>1, PoppedWithout DEF OffererLinked, UnofferedSound
  <2>4. \A i \in DOMAIN c2.queue : c2.queue[i] = s
    BY <1>0
  <2>5. PeerSound(d, c2, w, p.sent)
    BY <1>0, <2>2, <2>3, <2>4 DEF PeerSound, Without
  <2> QED
    BY <2>1, <2>5, LosesOut
<1> QED
  BY <1>3, <1>4, <1>5, <1>6 DEF Pair

\* A connection is dropped.
LEMMA ForgetsLinks ==
  ASSUME NEW c, NEW d, NEW fp, NEW fo, NEW p, NEW po, NEW w,
         NEW wo, NEW n, Pair(c, d, fp, fo, p, po, w, wo, n), NEW fp2
  PROVE  Pair(NoConnection, d, fp2, fo, p, po, w, wo, n)
BY DEF Pair, EndSound, LinkSound

------------------------------------------------------------------------------
\* A step of one end

\* The link of two ends is one between equals.
LEMMA Symmetric ==
  ASSUME NEW c, NEW d, NEW fp, NEW fo, NEW p, NEW po, NEW w, NEW wo, NEW n
  PROVE  Pair(c, d, fp, fo, p, po, w, wo, n) <=> Pair(d, c, fo, fp, po, p, wo, w, n)
BY DEF Pair

\* The two ends are linked from both sides when they are from one.
LEMMA Moved ==
  ASSUME NEW x \in End, Shape',
         Pair(conn'[x], conn'[Other(x)], fingerprint'[x], fingerprint'[Other(x)],
              past'[x], past'[Other(x)], wire'[x], wire'[Other(x)], made')
  PROVE  LinkInv'
<1>1. Pair(conn'[Other(x)], conn'[x], fingerprint'[Other(x)], fingerprint'[x],
           past'[Other(x)], past'[x], wire'[Other(x)], wire'[x], made')
  BY Symmetric
<1>2. Linked(x)' /\ Linked(Other(x))'
  BY <1>1, OtherEnd DEF Linked
<1> QED
  BY <1>2, OtherEnd DEF LinkInv

\* The types depend on the bounds, which never change.
LEMMA Primed ==
  ASSUME bounds' = bounds
  PROVE  /\ Connection' = Connection /\ Signal' = Signal /\ Pasts' = Pasts /\ Reported' = Reported
         /\ Ages' = Ages
<1>1. Description' = Description
  BY DEF Description
<1>2. Signal' = Signal
  BY <1>1 DEF Signal
<1>3. Connection' = Connection
  BY <1>1, <1>2 DEF Connection
<1>4. Pasts' = Pasts
  BY <1>1 DEF Pasts
<1> QED
  BY <1>2, <1>3, <1>4 DEF Reported, Ages

\* The shape of the state, variable by variable.
LEMMA ShapeFrom ==
  ASSUME bounds \in Instances, bounds' = bounds, made' \in 0..bounds.connections,
         conn' \in [End -> Connection \cup {NoConnection}],
         events' \in [End -> Seq(Reported)],
         states' \in [End -> {"none"} \cup PeerState],
         since' \in [End -> Ages],
         fingerprint' \in [End -> 0..bounds.connections],
         superseded' \in [End -> BOOLEAN],
         discarded' \in [End -> Nat],
         wire' \in [End -> Seq(Signal)],
         past' \in [End -> Pasts]
  PROVE  Shape'
BY Primed DEF Shape

\* The types at an end.
LEMMA Typed ==
  ASSUME Shape, NEW x \in End
  PROVE  /\ bounds \in Instances /\ made \in Nat /\ made <= bounds.connections
         /\ conn[x] \in Connection \cup {NoConnection} /\ (Has(x) => conn[x] \in Connection)
         /\ events[x] \in Seq(Reported) /\ fingerprint[x] \in 0..bounds.connections
         /\ superseded[x] \in BOOLEAN /\ discarded[x] \in Nat
         /\ states[x] \in {"none"} \cup PeerState /\ since[x] \in Ages
         /\ wire[x] \in Seq(Signal) /\ past[x] \in Pasts
BY BoundsAre DEF Shape, Has

\* The link, from either end.
LEMMA Ends ==
  ASSUME LinkInv, NEW x \in End
  PROVE  /\ Shape
         /\ Pair(conn[x], conn[Other(x)], fingerprint[x], fingerprint[Other(x)],
                 past[x], past[Other(x)], wire[x], wire[Other(x)], made)
BY DEF LinkInv, Linked

\* Emit changes its own end, and adds to what is on the way from it.
LEMMA EmitIs ==
  ASSUME Shape, NEW e \in End, NEW c2 \in Connection, NEW q \in Seq(Signal), Emit(e, c2, q)
  PROVE  /\ conn'[e] = c2 /\ conn'[Other(e)] = conn[Other(e)]
         /\ wire'[e] = wire[e] \o q /\ wire'[Other(e)] = wire[Other(e)]
         /\ After(q, past[e], past'[e]) /\ past'[Other(e)] = past[Other(e)]
         /\ conn' \in [End -> Connection \cup {NoConnection}]
         /\ wire' \in [End -> Seq(Signal)] /\ past' \in [End -> Pasts]
<1>1. past[e] \in Pasts /\ bounds \in Instances /\ wire[e] \in Seq(Signal)
  BY Typed
<1>2. /\ conn' = [conn EXCEPT ![e] = c2] /\ wire' = [wire EXCEPT ![e] = wire[e] \o q]
  BY DEF Emit
<1>3. past' = [past EXCEPT ![e] = PastWith(q, past[e])]
  BY DEF Emit, PastWith, Shape
<1>4. After(q, past[e], PastWith(q, past[e]))
  BY <1>1, AfterEmit
<1>5. PastWith(q, past[e]) \in Pasts
  BY <1>4 DEF After
<1>6. wire[e] \o q \in Seq(Signal)
  BY <1>1
<1>7. past'[e] = PastWith(q, past[e])
  BY <1>3 DEF Shape
<1> QED
  BY <1>2, <1>3, <1>4, <1>5, <1>6, <1>7, OtherEnd DEF Shape

\* An end that says what it may leaves the two ends linked.
LEMMA Speaking ==
  ASSUME LinkInv, NEW e \in End, Has(e), NEW c2, NEW q, Emit(e, c2, q), Outside,
         Says(conn[e], c2, q, fingerprint[e], past[e], made)
  PROVE  LinkInv'
<1>1. /\ Shape
      /\ Pair(conn[e], conn[Other(e)], fingerprint[e], fingerprint[Other(e)],
              past[e], past[Other(e)], wire[e], wire[Other(e)], made)
  BY Ends
<1>2. c2 \in Connection /\ q \in Seq(Signal)
  BY DEF Says
<1>3. /\ conn'[e] = c2 /\ conn'[Other(e)] = conn[Other(e)]
      /\ wire'[e] = wire[e] \o q /\ wire'[Other(e)] = wire[Other(e)]
      /\ After(q, past[e], past'[e]) /\ past'[Other(e)] = past[Other(e)]
      /\ conn' \in [End -> Connection \cup {NoConnection}]
      /\ wire' \in [End -> Seq(Signal)] /\ past' \in [End -> Pasts]
  BY <1>1, <1>2, EmitIs
<1>4. Shape'
  BY <1>1, <1>3, ShapeFrom DEF Shape, Outside, told
<1>5. /\ bounds \in Instances /\ conn[e] \in Connection /\ conn[Other(e)] \in Connection \cup {NoConnection}
      /\ past[e] \in Pasts /\ past[Other(e)] \in Pasts /\ wire[e] \in Seq(Signal)
      /\ wire[Other(e)] \in Seq(Signal) /\ made \in Nat /\ Other(e) \in End
  BY <1>1, Typed, OtherEnd
<1>6. Pair(c2, conn[Other(e)], fingerprint[e], fingerprint[Other(e)],
              past'[e], past[Other(e)], wire'[e], wire[Other(e)], made)
  BY <1>1, <1>3, <1>5, SaysLinks
<1> QED
  BY <1>3, <1>4, <1>6, Moved DEF Outside

------------------------------------------------------------------------------
\* What the transport notices

\* What the transport reports, and a Recovery counts, says nothing.
LEMMA SettingRests ==
  ASSUME NEW c \in Connection
  PROVE  /\ Rests(c, c)
         /\ \A x \in {"new", "connected", "lost", "failed"} : Rests(c, [c EXCEPT !.ice = x])
         /\ \A x \in {"new", "open", "closed"} : Rests(c, [c EXCEPT !.channel = x])
         /\ \A x \in BOOLEAN : /\ Rests(c, [c EXCEPT !.recovering = x])
                               /\ Rests(c, [c EXCEPT !.reached = x])
                               /\ Rests(c, [c EXCEPT !.failed = x])
         /\ \A x \in 0..bounds.restarts : Rests(c, [c EXCEPT !.restarts = x])
<1>0. Rests(c, c)
  BY DEF Rests, Alike
<1>1. ASSUME NEW x \in {"new", "connected", "lost", "failed"} PROVE Rests(c, [c EXCEPT !.ice = x])
  <2>1. [c EXCEPT !.ice = x] \in Connection
    BY Setting
  <2> QED
    BY <2>1 DEF Rests, Alike, Connection
<1>2. ASSUME NEW x \in {"new", "open", "closed"} PROVE Rests(c, [c EXCEPT !.channel = x])
  <2>1. [c EXCEPT !.channel = x] \in Connection
    BY Setting
  <2> QED
    BY <2>1 DEF Rests, Alike, Connection
<1>3. ASSUME NEW x \in BOOLEAN PROVE Rests(c, [c EXCEPT !.recovering = x])
  <2>1. [c EXCEPT !.recovering = x] \in Connection
    BY Setting
  <2> QED
    BY <2>1 DEF Rests, Alike, Connection
<1>4. ASSUME NEW x \in BOOLEAN PROVE Rests(c, [c EXCEPT !.reached = x])
  <2>1. [c EXCEPT !.reached = x] \in Connection
    BY Setting
  <2> QED
    BY <2>1 DEF Rests, Alike, Connection
<1>5. ASSUME NEW x \in BOOLEAN PROVE Rests(c, [c EXCEPT !.failed = x])
  <2>1. [c EXCEPT !.failed = x] \in Connection
    BY Setting
  <2> QED
    BY <2>1 DEF Rests, Alike, Connection
<1>6. ASSUME NEW x \in 0..bounds.restarts PROVE Rests(c, [c EXCEPT !.restarts = x])
  <2>1. [c EXCEPT !.restarts = x] \in Connection
    BY Setting
  <2> QED
    BY <2>1 DEF Rests, Alike, Connection
<1> QED
  BY <1>0, <1>1, <1>2, <1>3, <1>4, <1>5, <1>6

\* Nothing is in hand that was not, and nothing is put down.
Keeps(c, c2) == Rests(c, c2) /\ c2.offer = c.offer /\ c2.aborted = c.aborted

\* Resting after keeping still is resting.
LEMMA RestsAfter ==
  ASSUME NEW c, NEW c1, NEW c2, Keeps(c, c1), Rests(c1, c2)
  PROVE  Rests(c, c2) /\ c2.cert = c.cert /\ c1.cert = c.cert /\ c1.role = c.role /\ c1 \in Connection
BY DEF Keeps, Rests, Alike

\* spawn_offer says nothing yet.
LEMMA SpawnedRests ==
  ASSUME NEW c \in Connection, c.role = "Offerer", bounds \in Instances
  PROVE  Rests(c, Spawned(c))
<1> DEFINE k == IF c.offer = "making" THEN c.aborted + 1 ELSE c.aborted
           c1 == [c EXCEPT !.offer = "spawned"]
           c2 == [c1 EXCEPT !.aborted = k]
<1>1. k \in Nat /\ k = c.aborted + IF c.offer = "making" THEN 1 ELSE 0
  BY Fields
<1>2. Spawned(c) = c2
  BY DEF Spawned
<1> HIDE DEF k
<1>3. c1 \in Connection
  BY Setting
<1>4. c2 \in Connection
  <2> HIDE DEF c1
  <2> QED
    BY <1>1, <1>3, Setting
<1>5. /\ c2.cert = c.cert /\ c2.role = c.role /\ c2.round = c.round /\ c2.remote = c.remote
      /\ c2.queue = c.queue /\ c2.broken = c.broken /\ c2.pending = c.pending
      /\ c2.answering = c.answering /\ c2.holds = c.holds /\ c2.held = c.held
      /\ c2.offer = "spawned" /\ c2.aborted = k
  BY DEF Connection
<1> HIDE DEF c2
<1> QED
  BY <1>1, <1>2, <1>4, <1>5 DEF Rests, Alike

\* The connection of e goes on as c2, reporting at most one thing.
Carries(e, c2) ==
  /\ conn' = [conn EXCEPT ![e] = c2] /\ Rests(conn[e], c2) /\ Quiet
  /\ UNCHANGED events \/ \E s \in PeerState : Report(e, conn[e], s)

\* request_restart spawns an offer or gives up: nothing is said.
LEMMA RestartCarries ==
  ASSUME Shape, NEW e \in End, Has(e), NEW c, Keeps(conn[e], c), c.role = "Offerer",
         RequestRestart(e, c), Quiet
  PROVE  \E c2 : Carries(e, c2)
<1>1. conn[e] \in Connection /\ bounds \in Instances /\ c \in Connection
  BY Typed DEF Keeps, Rests, Alike
<1>2. \A s : Report(e, c, s) <=> Report(e, conn[e], s)
  BY DEF Report, Event, Keeps, Rests, Alike
<1>3. CASE Exhausted(c)
  <2>1. Carries(e, c)
    BY <1>2, <1>3 DEF RequestRestart, Carries, Keeps, PeerState
  <2> QED
    BY <2>1
<1>4. CASE ~Exhausted(c)
  <2> DEFINE x == c.restarts + 1
             c1 == [c EXCEPT !.restarts = x]
             c2 == [c1 EXCEPT !.recovering = TRUE]
  <2>1. x \in 0..bounds.restarts
    BY <1>1, <1>4, Fields, BoundsAre DEF Exhausted
  <2>2. Spawned([c EXCEPT !.restarts = @ + 1, !.recovering = TRUE]) = Spawned(c2)
    OBVIOUS
  <2> HIDE DEF x
  <2>3. Rests(c, c1) /\ c1.offer = c.offer /\ c1.aborted = c.aborted
    BY <1>1, <2>1, SettingRests DEF Connection
  <2>4. c1 \in Connection /\ Keeps(c, c1)
    BY <2>3 DEF Rests, Alike, Keeps
  <2> HIDE DEF c1
  <2>5. Rests(c1, c2) /\ c2.offer = c1.offer /\ c2.aborted = c1.aborted
    BY <2>4, SettingRests DEF Connection
  <2>6. c2 \in Connection /\ Keeps(c1, c2)
    BY <2>5 DEF Rests, Alike, Keeps
  <2> HIDE DEF c2
  <2>7. c2.role = "Offerer" /\ Keeps(conn[e], c2)
    BY <2>4, <2>6 DEF Keeps, Rests, Alike
  <2>8. Rests(conn[e], Spawned(c2))
    BY <1>1, <2>6, <2>7, SpawnedRests, RestsAfter
  <2>9. Carries(e, Spawned(c2))
    BY <1>2, <1>4, <2>2, <2>8 DEF RequestRestart, Carries, PeerState
  <2> QED
    BY <2>9
<1> QED
  BY <1>3, <1>4

\* ice_lost: nothing is said.
LEMMA LostCarries ==
  ASSUME Shape, NEW e \in End, Has(e), NEW c, Keeps(conn[e], c), Lost(e, c), Quiet
  PROVE  \E c2 : Carries(e, c2)
<1>1. /\ conn[e] \in Connection /\ bounds \in Instances /\ c \in Connection
      /\ c.role \in {"Offerer", "Answerer"} /\ c.reached \in BOOLEAN
  BY Typed, Fields DEF Keeps, Rests, Alike
<1>2. \A s : Report(e, c, s) <=> Report(e, conn[e], s)
  BY DEF Report, Event, Keeps, Rests, Alike
<1>3. CASE ~c.reached \/ (c.role = "Answerer" /\ c.ice = "failed")
  <2>1. conn' = [conn EXCEPT ![e] = c] /\ Report(e, c, "Failed")
    BY <1>3 DEF Lost
  <2>2. Carries(e, c)
    BY <1>2, <2>1 DEF Carries, Keeps, PeerState
  <2> QED
    BY <2>2
<1>4. CASE c.reached /\ c.role = "Answerer" /\ c.ice # "failed"
  <2> DEFINE c2 == [c EXCEPT !.recovering = TRUE]
  <2>1. conn' = [conn EXCEPT ![e] = c2] /\ Report(e, c, "Reconnecting")
    BY <1>4 DEF Lost
  <2>2. Rests(c, c2)
    BY <1>1, SettingRests
  <2> HIDE DEF c2
  <2>3. Carries(e, c2)
    BY <1>2, <2>1, <2>2, RestsAfter DEF Carries, PeerState
  <2> QED
    BY <2>3
<1>5. CASE c.reached /\ c.role = "Offerer"
  <2>1. RequestRestart(e, c)
    BY <1>5 DEF Lost
  <2> QED
    BY <1>5, <2>1, RestartCarries
<1> QED
  BY <1>1, <1>3, <1>4, <1>5

\* The state of the ICE transport is nothing that is said.
LEMMA KeepsIce ==
  ASSUME NEW c \in Connection, NEW x \in {"new", "connected", "lost", "failed"}
  PROVE  Keeps(c, [c EXCEPT !.ice = x])
<1> DEFINE c2 == [c EXCEPT !.ice = x]
<1>1. Rests(c, c2)
  BY SettingRests
<1>2. c2.offer = c.offer /\ c2.aborted = c.aborted
  BY DEF Connection
<1> QED
  BY <1>1, <1>2 DEF Keeps

\* A restart asked for, and each of the transport's callbacks, says nothing.
LEMMA TransportCarries ==
  ASSUME Shape, NEW e \in End,
         \/ RestartIce(e) \/ IceLost(e) \/ IceFailed(e) \/ IceConnected(e)
         \/ ConnectionFailed(e) \/ OnOpen(e) \/ OnClose(e)
  PROVE  Has(e) /\ \E c2 : Carries(e, c2)
<1>1. /\ Has(e) /\ conn[e] \in Connection
  BY Typed DEF RestartIce, IceLost, IceFailed, IceConnected, Met, ConnectionFailed, OnOpen, Acquainted,
     OnClose
<1>2. CASE RestartIce(e)
  <2>1. Keeps(conn[e], conn[e])
    BY <1>1, SettingRests DEF Keeps
  <2> QED
    BY <1>1, <1>2, <2>1, RestartCarries DEF RestartIce
<1>3. CASE IceLost(e)
  <2> DEFINE c == [conn[e] EXCEPT !.ice = "lost"]
  <2>1. Keeps(conn[e], c)
    BY <1>1, KeepsIce
  <2>2. Lost(e, c) /\ Quiet
    BY <1>3 DEF IceLost
  <2> HIDE DEF c
  <2> QED
    BY <1>1, <2>1, <2>2, LostCarries
<1>4. CASE IceFailed(e)
  <2> DEFINE c == [conn[e] EXCEPT !.ice = "failed"]
  <2>1. Keeps(conn[e], c)
    BY <1>1, KeepsIce
  <2>2. Lost(e, c) /\ Quiet
    BY <1>4 DEF IceFailed
  <2> HIDE DEF c
  <2> QED
    BY <1>1, <2>1, <2>2, LostCarries
<1>5. CASE IceConnected(e)
  <2> DEFINE c == conn[e]
             c1 == [c EXCEPT !.ice = "connected"]
             c2 == [c1 EXCEPT !.reached = TRUE]
             c3 == [c2 EXCEPT !.recovering = FALSE]
  <2>1. conn' = [conn EXCEPT ![e] = c3] /\ Quiet
    BY <1>5 DEF IceConnected, Shape
  <2>2. Keeps(c, c1)
    BY <1>1, KeepsIce
  <2>3. c1 \in Connection
    BY <2>2 DEF Keeps, Rests, Alike
  <2> HIDE DEF c1
  <2>4. Rests(c1, c2) /\ c2.offer = c1.offer /\ c2.aborted = c1.aborted
    BY <2>3, SettingRests DEF Connection
  <2>5. Keeps(c1, c2) /\ c2 \in Connection
    BY <2>4 DEF Keeps, Rests, Alike
  <2> HIDE DEF c2
  <2>6. Rests(c2, c3)
    BY <2>5, SettingRests
  <2> HIDE DEF c3
  <2>7. Rests(c, c3)
    BY <2>2, <2>5, <2>6, RestsAfter
  <2>8. UNCHANGED events \/ \E s \in PeerState : Report(e, conn[e], s)
    BY <1>5 DEF IceConnected, PeerState
  <2>9. Carries(e, c3)
    BY <2>1, <2>7, <2>8 DEF Carries
  <2> QED
    BY <1>1, <2>9
<1>6. CASE ConnectionFailed(e)
  <2> DEFINE c2 == [conn[e] EXCEPT !.failed = TRUE]
  <2>1. conn' = [conn EXCEPT ![e] = c2] /\ Quiet
    BY <1>6 DEF ConnectionFailed, Shape
  <2>2. Rests(conn[e], c2)
    BY <1>1, SettingRests
  <2> HIDE DEF c2
  <2>3. UNCHANGED events \/ \E s \in PeerState : Report(e, conn[e], s)
    BY <1>6 DEF ConnectionFailed, PeerState
  <2>4. Carries(e, c2)
    BY <2>1, <2>2, <2>3 DEF Carries
  <2> QED
    BY <1>1, <2>4
<1>7. CASE OnOpen(e)
  <2> DEFINE c2 == [conn[e] EXCEPT !.channel = "open"]
  <2>1. conn' = [conn EXCEPT ![e] = c2] /\ Quiet
    BY <1>7 DEF OnOpen, Shape
  <2>2. Rests(conn[e], c2)
    BY <1>1, SettingRests
  <2> HIDE DEF c2
  <2>3. UNCHANGED events \/ \E s \in PeerState : Report(e, conn[e], s)
    BY <1>7 DEF OnOpen, PeerState
  <2>4. Carries(e, c2)
    BY <2>1, <2>2, <2>3 DEF Carries
  <2> QED
    BY <1>1, <2>4
<1>8. CASE OnClose(e)
  <2> DEFINE c2 == [conn[e] EXCEPT !.channel = "closed"]
  <2>1. conn' = [conn EXCEPT ![e] = c2] /\ Quiet
    BY <1>8 DEF OnClose, Shape
  <2>2. Rests(conn[e], c2)
    BY <1>1, SettingRests
  <2> HIDE DEF c2
  <2>3. UNCHANGED events \/ \E s \in PeerState : Report(e, conn[e], s)
    BY <1>8 DEF OnClose, PeerState
  <2>4. Carries(e, c2)
    BY <2>1, <2>2, <2>3 DEF Carries
  <2> QED
    BY <1>1, <2>4
<1> QED
  BY <1>2, <1>3, <1>4, <1>5, <1>6, <1>7, <1>8

\* report adds an event, under the certificate of the connection.
LEMMA ReportIs ==
  ASSUME Shape, NEW e \in End, Has(e), NEW s \in PeerState, Report(e, conn[e], s)
  PROVE  /\ events'[Other(e)] = events[Other(e)] /\ events' \in [End -> Seq(Reported)]
         /\ events'[e] # <<>>
         /\ \A i \in DOMAIN events'[e] : (i \in DOMAIN events[e] /\ events'[e][i] = events[e][i])
                                         \/ events'[e][i].of = conn[e].cert
<1>0. /\ bounds \in Instances /\ conn[e] \in Connection /\ events[e] \in Seq(Reported)
  BY Typed
<1> DEFINE ev == [state |-> s, of |-> conn[e].cert]
           r == Append(events[e], ev)
<1>1. ev \in Reported /\ ev.of = conn[e].cert
  BY <1>0, Fields DEF Reported
<1>2. events' = [events EXCEPT ![e] = r]
  BY DEF Report, Event
<1> HIDE DEF ev
<1>3. /\ r \in Seq(Reported) /\ r # <<>>
      /\ \A i \in DOMAIN r : (i \in DOMAIN events[e] /\ r[i] = events[e][i]) \/ r[i] = ev
  BY <1>0, <1>1
<1> HIDE DEF r
<1> QED
  BY <1>1, <1>2, <1>3, OtherEnd DEF Shape

\* Nothing is sent, and the past is as it was.
LEMMA NothingSent ==
  ASSUME NEW p \in Pasts
  PROVE  After(<<>>, p, p)
BY DEF After

\* A connection that says nothing leaves the two ends linked.
LEMMA Carrying ==
  ASSUME LinkInv, NEW e \in End, Has(e), NEW c2, Carries(e, c2)
  PROVE  LinkInv'
<1>1. /\ Shape
      /\ Pair(conn[e], conn[Other(e)], fingerprint[e], fingerprint[Other(e)],
              past[e], past[Other(e)], wire[e], wire[Other(e)], made)
  BY Ends
<1>2. /\ bounds \in Instances /\ conn[e] \in Connection /\ conn[Other(e)] \in Connection \cup {NoConnection}
      /\ past[e] \in Pasts /\ past[Other(e)] \in Pasts /\ wire[e] \in Seq(Signal)
      /\ wire[Other(e)] \in Seq(Signal) /\ made \in Nat /\ Other(e) \in End
  BY <1>1, Typed, OtherEnd
<1>3. Rests(conn[e], c2) /\ c2 \in Connection
  BY DEF Carries, Rests, Alike
<1>4. Says(conn[e], c2, <<>>, fingerprint[e], past[e], made)
  <2>1. ConnectionSound(conn[e], fingerprint[e], past[e], made)
    BY <1>1 DEF Pair, EndSound, Has
  <2> QED
    BY <1>2, <1>3, <2>1, QuietSays
<1>5. events' \in [End -> Seq(Reported)]
  BY <1>1, ReportIs DEF Carries, Shape
<1>6. conn' \in [End -> Connection \cup {NoConnection}] /\ conn'[e] = c2 /\ conn'[Other(e)] = conn[Other(e)]
  BY <1>1, <1>3, OtherEnd DEF Carries, Shape
<1>7. /\ bounds' = bounds /\ made' = made /\ states' = states /\ since' = since
      /\ fingerprint' = fingerprint /\ superseded' = superseded /\ discarded' = discarded
      /\ wire' = wire /\ past' = past
  BY DEF Carries, Quiet, told
<1>8. Shape'
  BY <1>1, <1>5, <1>6, <1>7, ShapeFrom DEF Shape
<1>9. wire[e] = wire[e] \o <<>> /\ After(<<>>, past[e], past[e])
  BY <1>2, NothingSent
<1>10. Pair(c2, conn[Other(e)], fingerprint[e], fingerprint[Other(e)],
              past[e], past[Other(e)], wire[e], wire[Other(e)], made)
  BY <1>1, <1>2, <1>4, <1>9, SaysLinks
<1> QED
  BY <1>6, <1>7, <1>8, <1>10, Moved

------------------------------------------------------------------------------
\* The tasks

\* The connection of an end is sound.
LEMMA HereSound ==
  ASSUME LinkInv, NEW e \in End, Has(e)
  PROVE  /\ bounds \in Instances /\ conn[e] \in Connection /\ made \in Nat
         /\ ConnectionSound(conn[e], fingerprint[e], past[e], made)
BY Ends, Typed DEF Pair, EndSound, Has

\* What the tasks of a connection send when a description ends is what it may
\* say.
LEMMA SpeakersSay ==
  ASSUME LinkInv, NEW e \in End,
         \/ Gather(e) \/ SendOffer(e) \/ OfferFails(e) \/ AbortedEnds(e)
         \/ SendAnswer(e) \/ AnswerFails(e)
  PROVE  /\ Has(e) /\ Outside
         /\ \E c2, q : Emit(e, c2, q) /\ Says(conn[e], c2, q, fingerprint[e], past[e], made)
<1>0. Has(e)
  BY DEF Gather, SendOffer, OfferFails, AbortedEnds, SendAnswer, AnswerFails
<1>1. /\ bounds \in Instances /\ conn[e] \in Connection /\ made \in Nat
      /\ ConnectionSound(conn[e], fingerprint[e], past[e], made)
  BY <1>0, HereSound
<1>2. CASE Gather(e)
  <2> DEFINE d == [conn[e] EXCEPT !.gathered = conn[e].round]
             d2 == [d EXCEPT !.held = Append(@, Candidate(d))]
  <2>0. Outside
    BY <1>2 DEF Gather, Outside
  <2>1. IF d.holds > 0 THEN Emit(e, d2, <<>>) ELSE Emit(e, d, <<Candidate(d)>>)
    BY <1>2 DEF Gather
  <2>2. d.holds = conn[e].holds /\ conn[e].holds \in Nat
    BY <1>1, GatheredIs, Fields
  <2>3. d = [conn[e] EXCEPT !.gathered = conn[e].round] /\ d2 = [d EXCEPT !.held = Append(@, Candidate(d))]
    OBVIOUS
  <2> HIDE DEF d, d2
  <2>4. CASE conn[e].holds > 0
    <3>1. Says(conn[e], d2, <<>>, fingerprint[e], past[e], made)
      BY <1>1, <2>3, <2>4, HoldSays
    <3> QED
      BY <1>0, <2>0, <2>1, <2>2, <2>4, <3>1
  <2>5. CASE conn[e].holds = 0
    <3>1. Says(conn[e], d, <<Candidate(d)>>, fingerprint[e], past[e], made)
      BY <1>1, <2>3, <2>5, GatherSays
    <3> QED
      BY <1>0, <2>0, <2>1, <2>2, <2>5, <3>1
  <2> QED
    BY <2>2, <2>4, <2>5
<1>3. CASE SendOffer(e)
  <2> DEFINE c2 == Dropped([conn[e] EXCEPT !.offer = "none", !.pending = TRUE])
             q == <<[Describing("Offer", conn[e]) EXCEPT !.to = 0]>> \o Released(conn[e])
  <2>1. conn[e].offer = "making" /\ Emit(e, c2, q) /\ Outside
    BY <1>3 DEF SendOffer
  <2>2. Says(conn[e], c2, q, fingerprint[e], past[e], made)
    BY <1>1, <2>1, SendOfferSays
  <2> HIDE DEF c2, q
  <2> QED
    BY <1>0, <2>1, <2>2
<1>4. CASE OfferFails(e)
  <2> DEFINE c2 == Dropped([conn[e] EXCEPT !.offer = "none"])
             q == Released(conn[e])
  <2>1. conn[e].offer = "making" /\ Emit(e, c2, q) /\ Outside
    BY <1>4 DEF OfferFails
  <2>2. Says(conn[e], c2, q, fingerprint[e], past[e], made)
    BY <1>1, <2>1, OfferFailsSays
  <2> HIDE DEF c2, q
  <2> QED
    BY <1>0, <2>1, <2>2
<1>5. CASE AbortedEnds(e)
  <2> DEFINE c2 == Dropped([conn[e] EXCEPT !.aborted = @ - 1])
             q == Released(conn[e])
  <2>1. conn[e].aborted > 0 /\ Emit(e, c2, q) /\ Outside
    BY <1>5 DEF AbortedEnds
  <2>2. Says(conn[e], c2, q, fingerprint[e], past[e], made)
    BY <1>1, <2>1, AbortedSays
  <2> HIDE DEF c2, q
  <2> QED
    BY <1>0, <2>1, <2>2
<1>6. CASE SendAnswer(e)
  <2> DEFINE c2 == Dropped([conn[e] EXCEPT !.answering = FALSE])
             q == <<Describing("Answer", conn[e])>> \o Released(conn[e])
  <2>1. conn[e].answering /\ Emit(e, c2, q) /\ Outside
    BY <1>6 DEF SendAnswer
  <2>2. Says(conn[e], c2, q, fingerprint[e], past[e], made)
    BY <1>1, <2>1, SendAnswerSays
  <2> HIDE DEF c2, q
  <2> QED
    BY <1>0, <2>1, <2>2
<1>7. CASE AnswerFails(e)
  <2> DEFINE c2 == Dropped([conn[e] EXCEPT !.answering = FALSE])
             q == Released(conn[e])
  <2>1. conn[e].answering /\ Emit(e, c2, q) /\ Outside
    BY <1>7 DEF AnswerFails
  <2>2. Says(conn[e], c2, q, fingerprint[e], past[e], made)
    BY <1>1, <2>1, AnswerFailsSays
  <2> HIDE DEF c2, q
  <2> QED
    BY <1>0, <2>1, <2>2
<1> QED
  BY <1>2, <1>3, <1>4, <1>5, <1>6, <1>7

\* So the ends stay linked when they do.
LEMMA SpeakersLink ==
  ASSUME LinkInv, NEW e \in End,
         \/ Gather(e) \/ SendOffer(e) \/ OfferFails(e) \/ AbortedEnds(e)
         \/ SendAnswer(e) \/ AnswerFails(e)
  PROVE  LinkInv'
BY SpeakersSay, Speaking

\* The connection of e goes on, by itself.
LEMMA Goes ==
  ASSUME LinkInv, NEW e \in End, NEW c2 \in Connection, conn' = [conn EXCEPT ![e] = c2],
         NEW r \in [End -> Nat], discarded' = r, 
         Pair(c2, conn[Other(e)], fingerprint[e], fingerprint[Other(e)],
              past[e], past[Other(e)], wire[e], wire[Other(e)], made),
         UNCHANGED <<events, told, fingerprint, superseded, made, bounds, wire, past>>
  PROVE  LinkInv'
<1>1. Shape
  BY Ends
<1>2. conn' \in [End -> Connection \cup {NoConnection}] /\ conn'[e] = c2 /\ conn'[Other(e)] = conn[Other(e)]
  BY <1>1, OtherEnd DEF Shape
<1>3. /\ bounds' = bounds /\ made' = made /\ states' = states /\ since' = since /\ events' = events
      /\ fingerprint' = fingerprint /\ superseded' = superseded
      /\ wire' = wire /\ past' = past
  BY DEF told
<1>4. Shape'
  BY <1>1, <1>2, <1>3, ShapeFrom DEF Shape
<1> QED
  BY <1>2, <1>3, <1>4, Moved

\* run_signal_queue takes the first of its queue.
LEMMA TakenIs ==
  ASSUME Shape, NEW e \in End, Has(e), conn[e].queue # <<>>
  PROVE  /\ Taken(e) \in Connection /\ Foremost(e) \in Signal
         /\ Popped(conn[e].queue, Foremost(e), Taken(e).queue)
         /\ Consumes(conn[e], Foremost(e), Taken(e))
         /\ Taken(e).remote = conn[e].remote /\ Taken(e).broken = conn[e].broken
         /\ Taken(e).pending = conn[e].pending
<1> DEFINE c == conn[e]
           q == Tail(c.queue)
           c2 == [c EXCEPT !.queue = q]
<1>1. c \in Connection /\ bounds \in Instances /\ c.queue \in Seq(Signal)
  BY Typed, Fields
<1>2. Popped(c.queue, Foremost(e), q)
  BY <1>1, TailPops DEF Foremost
<1>3. q \in Seq(Signal) /\ Foremost(e) \in Signal
  BY <1>2 DEF Popped
<1>4. Taken(e) = c2
  BY DEF Taken
<1> HIDE DEF q
<1>5. c2 \in Connection
  <2>1. \A x \in Seq(Signal) : [c EXCEPT !.queue = x] \in Connection
    BY <1>1, Setting
  <2> QED
    BY <1>3, <2>1
<1>6. /\ c2.queue = q /\ c2.cert = c.cert /\ c2.role = c.role /\ c2.round = c.round
      /\ c2.offer = c.offer /\ c2.aborted = c.aborted /\ c2.answering = c.answering
      /\ c2.holds = c.holds /\ c2.held = c.held
      /\ c2.remote = c.remote /\ c2.broken = c.broken /\ c2.pending = c.pending
  BY <1>1 DEF Connection
<1> HIDE DEF c2
<1> QED
  BY <1>2, <1>3, <1>4, <1>5, <1>6 DEF Consumes

\* An answer, a candidate, or either that fails, is applied as Applies has it.
LEMMA AppliersApply ==
  ASSUME LinkInv, NEW e \in End, ApplyAnswer(e) \/ ApplyFails(e) \/ ApplyCandidate(e)
  PROVE  \E c2 : /\ conn' = [conn EXCEPT ![e] = c2] /\ Has(e) /\ Foremost(e) \in Signal
                 /\ Applies(conn[e], Foremost(e), c2)
<1>0. Has(e) /\ conn[e].queue # <<>> /\ Shape
  BY Ends DEF ApplyAnswer, ApplyFails, ApplyCandidate, Takes
<1>1. /\ Taken(e) \in Connection /\ Foremost(e) \in Signal
      /\ Popped(conn[e].queue, Foremost(e), Taken(e).queue)
      /\ Consumes(conn[e], Foremost(e), Taken(e))
      /\ Taken(e).remote = conn[e].remote /\ Taken(e).broken = conn[e].broken
      /\ Taken(e).pending = conn[e].pending
  BY <1>0, TakenIs
<1> DEFINE t == Taken(e)
           s == Foremost(e)
<1> HIDE DEF t, s
<1>2. /\ t \in Connection /\ s \in Signal /\ Consumes(conn[e], s, t) /\ t.remote = conn[e].remote
      /\ t.broken = conn[e].broken /\ t.pending = conn[e].pending
  BY <1>1 DEF t, s
<1>3. CASE ApplyAnswer(e) /\ conn[e].pending
  <2> DEFINE c1 == [t EXCEPT !.pending = FALSE]
             c2 == [c1 EXCEPT !.remote = s.of]
  <2>1. conn' = [conn EXCEPT ![e] = c2] /\ s.kind = "Answer"
    BY <1>3 DEF ApplyAnswer, Takes, t, s
  <2>2. s.of \in Description
    BY <1>0, <1>2, SignalFields, Typed
  <2>3. c1 \in Connection
    BY <1>2, Setting
  <2>4. c2 \in Connection
    <3> HIDE DEF c1
    <3> QED
      BY <2>2, <2>3, Setting
  <2>5. /\ c2.cert = t.cert /\ c2.role = t.role /\ c2.round = t.round /\ c2.queue = t.queue
        /\ c2.offer = t.offer /\ c2.aborted = t.aborted /\ c2.answering = t.answering
        /\ c2.holds = t.holds /\ c2.held = t.held /\ c2.broken = t.broken
        /\ ~c2.pending /\ c2.remote = s.of
    BY <1>2 DEF Connection
  <2> HIDE DEF c2
  <2>6. Applies(conn[e], s, c2)
    BY <1>2, <1>3, <2>1, <2>4, <2>5 DEF Applies, Accepts, Consumes
  <2> QED
    BY <1>0, <1>1, <2>1, <2>6 DEF s
<1>4. CASE ApplyAnswer(e) /\ ~conn[e].pending
  <2>1. conn' = [conn EXCEPT ![e] = t] /\ s.kind = "Answer"
    BY <1>4 DEF ApplyAnswer, Takes, t, s
  <2>2. Applies(conn[e], s, t)
    BY <1>2, <1>4, <2>1 DEF Applies, Ignores
  <2> QED
    BY <1>0, <1>1, <2>1, <2>2 DEF s
<1>5. CASE ApplyFails(e)
  <2> DEFINE c2 == [t EXCEPT !.broken = TRUE]
  <2>1. conn' = [conn EXCEPT ![e] = c2]
    BY <1>5 DEF ApplyFails, t
  <2>2. c2 \in Connection
    BY <1>2, Setting
  <2>3. /\ c2.cert = t.cert /\ c2.role = t.role /\ c2.round = t.round /\ c2.queue = t.queue
        /\ c2.offer = t.offer /\ c2.aborted = t.aborted /\ c2.answering = t.answering
        /\ c2.holds = t.holds /\ c2.held = t.held /\ c2.broken
        /\ c2.pending = t.pending /\ c2.remote = t.remote
    BY <1>2 DEF Connection
  <2> HIDE DEF c2
  <2>4. Applies(conn[e], s, c2)
    BY <1>2, <2>2, <2>3 DEF Applies, Breaks, Consumes
  <2> QED
    BY <1>0, <1>1, <2>1, <2>4 DEF s
<1>6. CASE ApplyCandidate(e)
  <2>1. conn' = [conn EXCEPT ![e] = t] /\ s.kind = "Candidate"
    BY <1>6 DEF ApplyCandidate, Takes, t, s
  <2>2. Applies(conn[e], s, t)
    BY <1>2, <2>1 DEF Applies, Ignores
  <2> QED
    BY <1>0, <1>1, <2>1, <2>2 DEF s
<1> QED
  BY <1>3, <1>4, <1>5, <1>6

\* So the ends stay linked when they are.
LEMMA AppliersLink ==
  ASSUME LinkInv, NEW e \in End, ApplyAnswer(e) \/ ApplyFails(e) \/ ApplyCandidate(e)
  PROVE  LinkInv'
<1>1. PICK c2 : /\ conn' = [conn EXCEPT ![e] = c2] /\ Has(e) /\ Foremost(e) \in Signal
                /\ Applies(conn[e], Foremost(e), c2)
  BY AppliersApply
<1>2. /\ Shape
      /\ Pair(conn[e], conn[Other(e)], fingerprint[e], fingerprint[Other(e)],
              past[e], past[Other(e)], wire[e], wire[Other(e)], made)
  BY Ends
<1>3. /\ bounds \in Instances /\ conn[e] \in Connection /\ conn[Other(e)] \in Connection \cup {NoConnection}
  BY <1>1, <1>2, Typed, OtherEnd
<1>4. Pair(c2, conn[Other(e)], fingerprint[e], fingerprint[Other(e)],
           past[e], past[Other(e)], wire[e], wire[Other(e)], made)
  BY <1>1, <1>2, <1>3, AppliesLinks
<1>5. c2 \in Connection
  BY <1>1 DEF Applies, Ignores, Breaks, Accepts, Consumes
<1>6. discarded' \in [End -> Nat]
  <2>1. discarded \in [End -> Nat]
    BY <1>2 DEF Shape
  <2>2. CASE ApplyAnswer(e) \/ ApplyFails(e)
    BY <2>1, <2>2 DEF ApplyAnswer, ApplyFails, Outside
  <2>3. CASE ApplyCandidate(e)
    <3> DEFINE k == IF conn[e].remote = Nobody THEN 1 ELSE 0
    <3>1. discarded' = [discarded EXCEPT ![e] = @ + k] /\ k \in Nat
      BY <2>3 DEF ApplyCandidate
    <3> HIDE DEF k
    <3> QED
      BY <2>1, <3>1
  <2> QED
    BY <2>2, <2>3
<1>7. UNCHANGED <<events, told, fingerprint, superseded, made, bounds, wire, past>>
  BY DEF ApplyAnswer, ApplyFails, ApplyCandidate, Outside
<1> QED
  BY <1>1, <1>4, <1>5, <1>6, <1>7, Goes

\* A description is being made: nothing goes out.
LEMMA MakersMake ==
  ASSUME LinkInv, NEW e \in End, MakeOffer(e) \/ ApplyOffer(e)
  PROVE  /\ Has(e) /\ Outside
         /\ \E c2 \in Connection :
           /\ Emit(e, c2, <<>>) /\ c2.cert = conn[e].cert
           /\ Pair(c2, conn[Other(e)], fingerprint[e], fingerprint[Other(e)],
                   past[e], past[Other(e)], wire[e], wire[Other(e)], made)
<1>0. Has(e)
  BY DEF MakeOffer, ApplyOffer, Takes
<1>1. /\ Shape
      /\ Pair(conn[e], conn[Other(e)], fingerprint[e], fingerprint[Other(e)],
              past[e], past[Other(e)], wire[e], wire[Other(e)], made)
  BY Ends
<1>2. /\ bounds \in Instances /\ conn[e] \in Connection /\ conn[Other(e)] \in Connection \cup {NoConnection}
      /\ past[e] \in Pasts /\ past[Other(e)] \in Pasts /\ wire[e] \in Seq(Signal)
      /\ wire[Other(e)] \in Seq(Signal)
  BY <1>0, <1>1, Typed, OtherEnd
<1>3. \E c2 \in Connection :
           /\ Emit(e, c2, <<>>) /\ c2.cert = conn[e].cert
           /\ Pair(c2, conn[Other(e)], fingerprint[e], fingerprint[Other(e)],
                   past[e], past[Other(e)], wire[e], wire[Other(e)], made)
  <2>1. CASE MakeOffer(e)
    <3> DEFINE c2 == [conn[e] EXCEPT !.offer = "making", !.holds = @ + 1, !.round = @ + 1, !.ice = "new"]
    <3>1. Emit(e, c2, <<>>) /\ conn[e].offer = "spawned"
      BY <2>1 DEF MakeOffer
    <3>2. Makes(conn[e], c2)
      BY DEF Makes
    <3> HIDE DEF c2
    <3>3. c2 \in Connection /\ c2.cert = conn[e].cert /\ Pair(c2, conn[Other(e)], fingerprint[e], fingerprint[Other(e)],
                                     past[e], past[Other(e)], wire[e], wire[Other(e)], made)
      BY <1>1, <1>2, <3>1, <3>2, MakesLinks
    <3> QED
      BY <3>1, <3>3
  <2>2. CASE ApplyOffer(e)
    <3> DEFINE c2 == [Taken(e) EXCEPT !.holds = @ + 1, !.answering = TRUE, !.remote = Foremost(e).of,
                              !.round = @ + 1, !.ice = "new"]
    <3>1. /\ Emit(e, c2, <<>>) /\ ~conn[e].answering /\ conn[e].queue # <<>>
          /\ Head(conn[e].queue).kind = "Offer"
      BY <2>2 DEF ApplyOffer, Takes, Foremost
    <3>2. Meets(conn[e], c2)
      BY DEF Meets, Taken, Foremost
    <3> HIDE DEF c2
    <3>3. c2 \in Connection /\ c2.cert = conn[e].cert /\ Pair(c2, conn[Other(e)], fingerprint[e], fingerprint[Other(e)],
                                     past[e], past[Other(e)], wire[e], wire[Other(e)], made)
      BY <1>1, <1>2, <3>1, <3>2, ApplyingLinks
    <3> QED
      BY <3>1, <3>3
  <2> QED
    BY <2>1, <2>2
<1>4. Outside
  BY DEF MakeOffer, ApplyOffer
<1> QED
  BY <1>0, <1>3, <1>4

\* And when a task begins to make an offer or an answer.
LEMMA MakersLink ==
  ASSUME LinkInv, NEW e \in End, MakeOffer(e) \/ ApplyOffer(e)
  PROVE  LinkInv'
<1>0. Has(e)
  BY MakersMake
<1>1. /\ Shape
      /\ Pair(conn[e], conn[Other(e)], fingerprint[e], fingerprint[Other(e)],
              past[e], past[Other(e)], wire[e], wire[Other(e)], made)
  BY Ends
<1>2. /\ bounds \in Instances /\ conn[e] \in Connection /\ conn[Other(e)] \in Connection \cup {NoConnection}
      /\ past[e] \in Pasts /\ past[Other(e)] \in Pasts /\ wire[e] \in Seq(Signal)
      /\ wire[Other(e)] \in Seq(Signal)
  BY <1>0, <1>1, Typed, OtherEnd
<1>4. PICK c2 \in Connection :
           /\ Emit(e, c2, <<>>) /\ c2.cert = conn[e].cert
           /\ Pair(c2, conn[Other(e)], fingerprint[e], fingerprint[Other(e)],
                   past[e], past[Other(e)], wire[e], wire[Other(e)], made)
  BY MakersMake
<1>5. /\ conn'[e] = c2 /\ conn'[Other(e)] = conn[Other(e)]
      /\ wire'[e] = wire[e] \o <<>> /\ wire'[Other(e)] = wire[Other(e)]
      /\ After(<<>>, past[e], past'[e]) /\ past'[Other(e)] = past[Other(e)]
      /\ conn' \in [End -> Connection \cup {NoConnection}]
      /\ wire' \in [End -> Seq(Signal)] /\ past' \in [End -> Pasts]
  <2>1. <<>> \in Seq(Signal)
    OBVIOUS
  <2> QED
    BY <1>1, <1>4, <2>1, EmitIs
<1>6. Outside
  BY MakersMake
<1>7. Shape'
  BY <1>1, <1>5, <1>6, ShapeFrom DEF Shape, Outside, told
<1>8. past'[e].sent = past[e].sent /\ past'[e].early = past[e].early
  <2>1. past[e].sent \subseteq past'[e].sent /\ past[e].early \subseteq past'[e].early
    BY <1>5 DEF After
  <2>2. past'[e].sent \subseteq past[e].sent /\ past'[e].early \subseteq past[e].early
    BY <1>5 DEF After
  <2> QED
    BY <2>1, <2>2
<1>9. Pair(c2, conn[Other(e)], fingerprint[e], fingerprint[Other(e)],
           past'[e], past[Other(e)], wire[e], wire[Other(e)], made)
  BY <1>4, <1>8, PastKeeps
<1>10. wire'[e] = wire[e]
  BY <1>2, <1>5
<1> QED
  BY <1>5, <1>6, <1>7, <1>9, <1>10, Moved DEF Outside

------------------------------------------------------------------------------
\* What arrives

\* drain_signals takes the first that is on its way.
LEMMA ArrivedIs ==
  ASSUME Shape, NEW e \in End, wire[Other(e)] # <<>>, Unwired(e)
  PROVE  /\ Arrived(e) \in Signal /\ Popped(wire[Other(e)], Arrived(e), wire'[Other(e)])
         /\ wire'[e] = wire[e] /\ wire' \in [End -> Seq(Signal)]
<1>1. Other(e) \in End /\ Other(e) # e /\ wire[Other(e)] \in Seq(Signal)
  BY OtherEnd, Typed
<1>2. Popped(wire[Other(e)], Arrived(e), Tail(wire[Other(e)]))
  BY <1>1, TailPops DEF Arrived
<1>3. Tail(wire[Other(e)]) \in Seq(Signal) /\ Arrived(e) \in Signal
  BY <1>2 DEF Popped
<1> QED
  BY <1>1, <1>2, <1>3 DEF Unwired, Shape

\* receive_signal without a new connection leaves the ends linked.
LEMMA ReceiversLink ==
  ASSUME LinkInv, NEW e \in End, ReceiveAgain(e) \/ ReceiveOther(e)
  PROVE  LinkInv'
<1> DEFINE s == Arrived(e)
           o == Other(e)
<1>0. /\ wire[o] # <<>> /\ s.kind \in {"Offer", "Answer", "Candidate"} /\ Unwired(e)
      /\ UNCHANGED <<events, told, fingerprint, superseded, discarded, made, used, bounds, past>>
      /\ \/ s.kind = "Offer" /\ Has(e) /\ conn[e].role = "Offerer" /\ conn' = conn
         \/ s.kind = "Offer" /\ Has(e) /\ conn[e].role = "Answerer" /\ ~IsNewConnection(e) /\ Queued(e)
         \/ s.kind # "Offer" /\ Has(e) /\ Queued(e)
         \/ ~Has(e) /\ conn' = conn
  BY DEF ReceiveAgain, ReceiveOther, Arrives, Arrived
<1>1. /\ Shape
      /\ Pair(conn[e], conn[o], fingerprint[e], fingerprint[o], past[e], past[o], wire[e], wire[o], made)
  BY Ends
<1>2. /\ bounds \in Instances /\ conn[o] \in Connection \cup {NoConnection}
      /\ wire[e] \in Seq(Signal) /\ wire[o] \in Seq(Signal) /\ o # e /\ o \in End
      /\ Has(e) => conn[e] \in Connection
  BY <1>1, Typed, OtherEnd
<1>3. s \in Signal /\ Popped(wire[o], s, wire'[o]) /\ wire'[e] = wire[e] /\ wire' \in [End -> Seq(Signal)]
  BY <1>0, <1>1, ArrivedIs
<1> HIDE DEF s
<1>4. /\ Pair(conn'[e], conn[o], fingerprint[e], fingerprint[o], past[e], past[o], wire[e], wire'[o], made)
      /\ conn' \in [End -> Connection \cup {NoConnection}] /\ conn'[o] = conn[o]
  <2>1. CASE conn' = conn /\ (~Has(e) \/ s.kind = "Offer")
    <3>1. Pair(conn[e], conn[o], fingerprint[e], fingerprint[o], past[e], past[o], wire[e], wire'[o], made)
      BY <1>1, <1>2, <1>3, <2>1, DropsLinks DEF Has
    <3> QED
      BY <1>1, <2>1, <3>1 DEF Shape
  <2>2. CASE Has(e) /\ Queued(e) /\ (s.kind = "Offer" => conn[e].role = "Answerer" /\ ~IsNewConnection(e))
    <3> DEFINE c2 == [conn[e] EXCEPT !.queue = Append(@, s)]
    <3>1. conn' = [conn EXCEPT ![e] = c2]
      BY <1>1, <2>2 DEF Queued, s, Shape
    <3>2. Queues(conn[e], s, c2)
      BY <1>2, <1>3, <2>2, QueuedIs
    <3> HIDE DEF c2
    <3>3. c2 \in Connection
      BY <3>2 DEF Queues
    <3>4. ASSUME s.kind = "Offer" PROVE conn[e].role = "Answerer" /\ s.of.cert = fingerprint[e]
      <4>1. conn[e].role = "Answerer" /\ (fingerprint[e] = 0 \/ fingerprint[e] = s.of.cert)
        BY <2>2, <3>4 DEF IsNewConnection, s
      <4>2. AnswererSound(conn[e], fingerprint[e])
        BY <1>1, <2>2, <4>1 DEF Pair, EndSound, ConnectionSound, Has
      <4> QED
        BY <4>1, <4>2 DEF AnswererSound
    <3>5. Pair(c2, conn[o], fingerprint[e], fingerprint[o], past[e], past[o], wire[e], wire'[o], made)
      <4>1. conn[e] \in Connection
        BY <1>2, <2>2
      <4> QED
        BY <1>1, <1>2, <1>3, <3>2, <3>4, <4>1, QueuesLinks
    <3> QED
      BY <1>1, <1>2, <3>1, <3>3, <3>5 DEF Shape
  <2> QED
    BY <1>0, <2>1, <2>2 DEF s
<1>5. /\ bounds' = bounds /\ made' = made /\ states' = states /\ since' = since /\ events' = events
      /\ fingerprint' = fingerprint /\ superseded' = superseded
      /\ discarded' = discarded /\ past' = past
  BY <1>0 DEF told
<1>6. Shape'
  BY <1>1, <1>3, <1>4, <1>5, ShapeFrom DEF Shape
<1> QED
  BY <1>3, <1>4, <1>5, <1>6, Moved

\* events_for leaves an end with reports of the new connection only.
LEMMA StartedEvents ==
  ASSUME Shape, NEW e \in End, made < bounds.connections, EventsFor(e), made' = made + 1
  PROVE  /\ events' \in [End -> Seq(Reported)] /\ made' \in 0..bounds.connections
         /\ events'[Other(e)] = events[Other(e)]
         /\ \A i \in DOMAIN events'[e] : events'[e][i].of = made + 1
<1>1. made + 1 \in 1..bounds.connections /\ made' \in 0..bounds.connections
  BY BoundsAre DEF Shape
<1> DEFINE ev == [state |-> "Connecting", of |-> made + 1]
<1>2. ev \in Reported /\ ev.of = made + 1
  BY <1>1 DEF Reported, PeerState
<1>3. events' = [events EXCEPT ![e] = <<ev>>]
  BY DEF EventsFor
<1> HIDE DEF ev
<1> QED
  BY <1>1, <1>2, <1>3, OtherEnd DEF Shape

\* connect_peer leaves the ends linked.
LEMMA ConnectLinks ==
  ASSUME LinkInv, NEW e \in End, ConnectPeer(e)
  PROVE  LinkInv'
<1> DEFINE o == Other(e)
           c2 == NewConnection("Offerer", "spawned", <<>>)
<1>1. /\ Shape
      /\ Pair(conn[e], conn[o], fingerprint[e], fingerprint[o], past[e], past[o], wire[e], wire[o], made)
  BY Ends
<1>2. /\ bounds \in Instances /\ conn[o] \in Connection \cup {NoConnection}
      /\ wire[e] \in Seq(Signal) /\ wire[o] \in Seq(Signal) /\ o # e /\ o \in End /\ made \in Nat
  BY <1>1, Typed, OtherEnd
<1>3. /\ conn' = [conn EXCEPT ![e] = c2] /\ conn[e] = NoConnection /\ made < bounds.connections
      /\ made' = made + 1 /\ EventsFor(e)
  BY DEF ConnectPeer, Has
<1>4. Fresh(c2, "Offerer", <<>>, made + 1)
  <2> DEFINE q == <<>>
             role == "Offerer"
             offer == "spawned"
  <2>1. q \in Seq(Signal) /\ role \in {"Offerer", "Answerer"}
        /\ offer = (IF role = "Offerer" THEN "spawned" ELSE "none")
    OBVIOUS
  <2> HIDE DEF q, role, offer
  <2>2. Fresh(NewConnection(role, offer, q), role, q, made + 1)
    BY <1>1, <1>3, <2>1, NewIs
  <2> QED
    BY <2>2 DEF q, role, offer
<1> HIDE DEF c2
<1>5. c2 \in Connection
  BY <1>4 DEF Fresh
<1>6. conn'[e] = c2 /\ conn'[o] = conn[o] /\ conn' \in [End -> Connection \cup {NoConnection}]
  BY <1>1, <1>2, <1>3, <1>5 DEF Shape
<1>7. Pair(c2, conn[o], fingerprint[e], fingerprint[o], past[e], past[o], wire[e], wire[o], made + 1)
  BY <1>1, <1>2, <1>3, <1>4, DialsLinks
<1>8. events' \in [End -> Seq(Reported)] /\ made' \in 0..bounds.connections
  BY <1>1, <1>3, StartedEvents
<1>9. /\ bounds' = bounds /\ states' = states /\ since' = since
      /\ fingerprint' = fingerprint /\ superseded' = superseded
      /\ discarded' = discarded /\ past' = past /\ wire' = wire
  BY DEF ConnectPeer, told
<1>10. Shape'
  BY <1>1, <1>6, <1>8, <1>9, ShapeFrom DEF Shape
<1> QED
  BY <1>3, <1>6, <1>7, <1>9, <1>10, Moved

\* What is forgotten is what the app was told.
LEMMA UntoldIs ==
  ASSUME Shape, NEW e \in End, Untold(e)
  PROVE  /\ states' \in [End -> {"none"} \cup PeerState] /\ since' \in [End -> Ages]
         /\ past' \in [End -> Pasts]
         /\ states'[e] = "none" /\ since'[e] = Off /\ past'[e].lostFor = Off /\ past'[e].about = 0
         /\ past'[e].sent = past[e].sent /\ past'[e].early = past[e].early
         /\ states'[Other(e)] = states[Other(e)] /\ since'[Other(e)] = since[Other(e)]
         /\ past'[Other(e)] = past[Other(e)]
<1>1. past[e] \in Pasts /\ Other(e) # e /\ Other(e) \in End /\ 0 \in 0..bounds.connections
  BY OtherEnd, Typed, BoundsAre
<1> DEFINE p2 == [past[e] EXCEPT !.about = 0, !.lostFor = Off]
<1>2. past' = [past EXCEPT ![e] = p2]
  BY DEF Untold, Shape
<1>3. p2 \in Pasts
  BY <1>1 DEF Pasts
<1>4. p2.sent = past[e].sent /\ p2.early = past[e].early /\ p2.about = 0 /\ p2.lostFor = Off
  BY <1>1 DEF Pasts
<1> HIDE DEF p2
<1>5. /\ states' = [states EXCEPT ![e] = "none"] /\ since' = [since EXCEPT ![e] = Off]
  BY DEF Untold
<1> QED
  BY <1>1, <1>2, <1>3, <1>4, <1>5 DEF Shape, Ages

\* receive_signal that makes a new connection leaves the ends linked.
LEMMA OfferLinks ==
  ASSUME LinkInv, NEW e \in End, ReceiveOffer(e)
  PROVE  LinkInv'
<1> DEFINE s == Arrived(e)
           o == Other(e)
           c2 == NewConnection("Answerer", "none", <<s>>)
<1>1. /\ Shape
      /\ Pair(conn[e], conn[o], fingerprint[e], fingerprint[o], past[e], past[o], wire[e], wire[o], made)
  BY Ends
<1>2. /\ bounds \in Instances /\ conn[o] \in Connection \cup {NoConnection}
      /\ wire[e] \in Seq(Signal) /\ wire[o] \in Seq(Signal) /\ o # e /\ o \in End /\ made \in Nat
  BY <1>1, Typed, OtherEnd
<1>3. /\ conn' = [conn EXCEPT ![e] = c2] /\ made < bounds.connections
      /\ made' = made + 1 /\ EventsFor(e) /\ wire[o] # <<>> /\ Unwired(e) /\ s.kind = "Offer"
      /\ superseded' = [superseded EXCEPT ![e] = Has(e) \/ @]
      /\ fingerprint' = [fingerprint EXCEPT ![e] = s.of.cert]
      /\ bounds' = bounds /\ discarded' = discarded
  BY DEF ReceiveOffer, Arrives, Arrived
<1>4. s \in Signal /\ Popped(wire[o], s, wire'[o]) /\ wire'[e] = wire[e] /\ wire' \in [End -> Seq(Signal)]
  BY <1>1, <1>3, ArrivedIs
<1> HIDE DEF s
<1>5. Fresh(c2, "Answerer", <<s>>, made + 1)
  <2> DEFINE q == <<s>>
             role == "Answerer"
             offer == "none"
  <2>1. q \in Seq(Signal) /\ role \in {"Offerer", "Answerer"}
        /\ offer = (IF role = "Offerer" THEN "spawned" ELSE "none")
    BY <1>4
  <2> HIDE DEF q, role, offer
  <2>2. Fresh(NewConnection(role, offer, q), role, q, made + 1)
    BY <1>1, <1>3, <2>1, NewIs
  <2> QED
    BY <2>2 DEF q, role, offer
<1> HIDE DEF c2
<1>6. c2 \in Connection
  BY <1>5 DEF Fresh
<1>7. conn'[e] = c2 /\ conn'[o] = conn[o] /\ conn' \in [End -> Connection \cup {NoConnection}]
  BY <1>1, <1>2, <1>3, <1>6 DEF Shape
<1>8. Pair(c2, conn[o], s.of.cert, fingerprint[o], past[e], past[o], wire[e], wire'[o], made + 1)
  BY <1>1, <1>2, <1>3, <1>4, <1>5, AnswersLinks
<1>9. events' \in [End -> Seq(Reported)] /\ made' \in 0..bounds.connections
  BY <1>1, <1>3, StartedEvents
<1>10. /\ fingerprint' \in [End -> 0..bounds.connections] /\ fingerprint'[e] = s.of.cert
       /\ fingerprint'[o] = fingerprint[o]
  <2>1. s.of.cert \in 0..bounds.connections
    BY <1>2, <1>4, SignalFields
  <2> QED
    BY <1>1, <1>2, <1>3, <2>1 DEF Shape
<1>11. superseded' \in [End -> BOOLEAN]
  BY <1>1, <1>3 DEF Shape, Has
<1>12. /\ states' \in [End -> {"none"} \cup PeerState] /\ since' \in [End -> Ages]
       /\ past' \in [End -> Pasts] /\ past'[o] = past[o]
       /\ past'[e].sent = past[e].sent /\ past'[e].early = past[e].early
  <2>1. CASE Has(e)
    <3>1. Untold(e)
      BY <2>1 DEF ReceiveOffer
    <3> QED
      BY <1>1, <3>1, UntoldIs
  <2>2. CASE ~Has(e)
    BY <1>1, <2>2 DEF ReceiveOffer, told, Shape
  <2> QED
    BY <2>1, <2>2
<1>13. Shape'
  BY <1>1, <1>2, <1>3, <1>4, <1>7, <1>9, <1>10, <1>11, <1>12, ShapeFrom DEF Shape
<1>14. Pair(c2, conn[o], s.of.cert, fingerprint[o], past'[e], past[o], wire[e], wire'[o], made + 1)
  BY <1>8, <1>12, PastKeeps
<1> QED
  BY <1>3, <1>4, <1>7, <1>10, <1>12, <1>13, <1>14, Moved

\* disconnect_peer leaves the ends linked.
LEMMA DisconnectLinks ==
  ASSUME LinkInv, NEW e \in End, DisconnectPeer(e)
  PROVE  LinkInv'
<1> DEFINE o == Other(e)
<1>1. /\ Shape
      /\ Pair(conn[e], conn[o], fingerprint[e], fingerprint[o], past[e], past[o], wire[e], wire[o], made)
  BY Ends
<1>2. o # e /\ o \in End /\ 0 \in 0..bounds.connections
  BY <1>1, OtherEnd, BoundsAre DEF Shape
<1>3. /\ conn' = [conn EXCEPT ![e] = NoConnection] /\ events' = [events EXCEPT ![e] = <<>>]
      /\ fingerprint' = [fingerprint EXCEPT ![e] = 0] /\ superseded' = [superseded EXCEPT ![e] = FALSE]
      /\ Untold(e) /\ discarded' = discarded /\ wire' = wire /\ made' = made /\ bounds' = bounds
  BY DEF DisconnectPeer
<1>4. /\ states' \in [End -> {"none"} \cup PeerState] /\ since' \in [End -> Ages]
      /\ past' \in [End -> Pasts] /\ past'[o] = past[o]
      /\ past'[e].sent = past[e].sent /\ past'[e].early = past[e].early
  BY <1>1, <1>3, UntoldIs
<1>5. Shape'
  <2>1. /\ conn' \in [End -> Connection \cup {NoConnection}]
        /\ fingerprint' \in [End -> 0..bounds.connections] /\ superseded' \in [End -> BOOLEAN]
    BY <1>1, <1>2, <1>3 DEF Shape
  <2>2. events' \in [End -> Seq(Reported)]
    BY <1>1, <1>3 DEF Shape
  <2> QED
    BY <1>1, <1>3, <1>4, <2>1, <2>2, ShapeFrom DEF Shape
<1>6. Pair(NoConnection, conn[o], 0, fingerprint[o], past'[e], past[o], wire[e], wire[o], made)
  BY <1>1, <1>4, PastKeeps, ForgetsLinks
<1>7. conn'[e] = NoConnection /\ conn'[o] = conn[o] /\ fingerprint'[e] = 0 /\ fingerprint'[o] = fingerprint[o]
  BY <1>1, <1>2, <1>3 DEF Shape
<1> QED
  BY <1>3, <1>4, <1>5, <1>6, <1>7, Moved

------------------------------------------------------------------------------
\* What the app is told

\* What update_peers makes of what connection n reports; 0 is of no connection.
Heard(n) ==
  {so \in [state : {"none"} \cup PeerState, since : Ages, about : 0..bounds.connections,
           over : BOOLEAN, lostFor : Ages] :
     /\ so.state # "none" => so.about = n
     /\ n = 0 => so.state = "none"
     /\ so.state = "Reconnecting" => so.since # Off /\ so.since = so.lostFor
     /\ so.state = "Connected" => so.since = Off}
ReportedOf(n) == {r \in Reported : r.of = n}

\* The deadline after a state is read.
LEMMA ArmedIs ==
  ASSUME bounds \in Instances, NEW age \in Ages, NEW s \in PeerState
  PROVE  /\ Armed(age, s) \in Ages
         /\ s = "Reconnecting" => Armed(age, s) = (IF age = Off THEN 0 ELSE age)
         /\ s = "Connecting" => Armed(age, s) = age
         /\ s \in {"Connected", "Disconnected", "Failed"} => Armed(age, s) = Off
<1>1. 0 \in Ages /\ Off \in Ages
  BY BoundsAre DEF Ages
<1> QED
  BY <1>1 DEF Armed, PeerState

\* Reading one report of a connection leaves an end told of that connection.
LEMMA ReadHears ==
  ASSUME bounds \in Instances, NEW n, NEW so \in Heard(n), NEW r \in ReportedOf(n)
  PROVE  Read(so, r) \in Heard(n)
<1>1. /\ r.state \in PeerState /\ r.of = n /\ n \in 0..bounds.connections /\ n # 0
  BY BoundsAre DEF ReportedOf, Reported
<1>2. /\ so.state \in {"none"} \cup PeerState /\ so.since \in Ages /\ so.about \in 0..bounds.connections
      /\ so.over \in BOOLEAN /\ so.lostFor \in Ages
      /\ so.state # "none" => so.about = n
      /\ so.state = "Reconnecting" => so.since # Off /\ so.since = so.lostFor
      /\ so.state = "Connected" => so.since = Off
  BY DEF Heard
<1> DEFINE a == Armed(so.since, r.state)
           h == [so EXCEPT !.since = a]
           lost == IF r.state = "Reconnecting" THEN 0 ELSE Off
           v == so.over \/ r.state \in {"Disconnected", "Failed"}
           h2 == [h EXCEPT !.state = r.state, !.about = r.of, !.over = v, !.lostFor = lost]
           T == [state : {"none"} \cup PeerState, since : Ages, about : 0..bounds.connections,
                 over : BOOLEAN, lostFor : Ages]
<1>3. /\ a \in Ages /\ lost \in Ages /\ v \in BOOLEAN
      /\ r.state = "Reconnecting" => a = (IF so.since = Off THEN 0 ELSE so.since)
      /\ r.state = "Connecting" => a = so.since
      /\ r.state \in {"Connected", "Disconnected", "Failed"} => a = Off
  BY <1>1, <1>2, ArmedIs, BoundsAre DEF Ages
<1>4. so \in T
  BY DEF Heard
<1>5. Read(so, r) = IF ~Passes(so.state, r.state) THEN h ELSE h2
  <2>1. h.over = so.over
    BY <1>4
  <2> QED
    BY <2>1 DEF Read
<1>6. lost = IF r.state = "Reconnecting" THEN 0 ELSE Off
  OBVIOUS
<1> HIDE DEF a, lost, v
<1>7. h \in T /\ h.state = so.state /\ h.since = a /\ h.about = so.about /\ h.lostFor = so.lostFor
  BY <1>3, <1>4
<1> HIDE DEF h
<1>8. h2 \in T /\ h2.state = r.state /\ h2.since = a /\ h2.about = n /\ h2.lostFor = lost
  BY <1>1, <1>3, <1>7
<1> HIDE DEF h2
<1>9. CASE ~Passes(so.state, r.state)
  <2>1. h.state = "Reconnecting" => h.since # Off /\ h.since = h.lostFor
    BY <1>1, <1>2, <1>3, <1>7, <1>9 DEF Passes, PeerState
  <2>2. h.state = "Connected" => h.since = Off
    BY <1>1, <1>2, <1>3, <1>7, <1>9 DEF Passes, PeerState
  <2>3. h \in Heard(n)
    BY <1>1, <1>2, <1>7, <2>1, <2>2 DEF Heard
  <2> QED
    BY <1>5, <1>9, <2>3
<1>10. CASE Passes(so.state, r.state)
  <2>1. h2.state = "Reconnecting" => h2.since # Off /\ h2.since = h2.lostFor
    BY <1>1, <1>2, <1>3, <1>6, <1>8, <1>10 DEF Passes, PeerState, Off
  <2>2. h2.state = "Connected" => h2.since = Off
    BY <1>1, <1>3, <1>8
  <2>3. h2 \in Heard(n)
    BY <1>1, <1>8, <2>1, <2>2 DEF Heard
  <2> QED
    BY <1>5, <1>10, <2>3
<1> QED
  BY <1>9, <1>10

------------------------------------------------------------------------------
\* Reading all

\* What each report leaves of a kind, all of them leave of that kind.
LEMMA AllRead ==
  ASSUME NEW S, NEW R, NEW b \in S, NEW q \in Seq(R), \A a \in S, x \in R : Read(a, x) \in S
  PROVE  ReadAll(b, q) \in S
<1> DEFINE k == Len(q)
           step == [i \in 1..k |-> [a \in S |-> Read(a, q[i])]]
           so[n \in 0..Len(q)] == IF n = 0 THEN b ELSE Read(so[n - 1], q[n])
<1>1. k \in Nat /\ \A i \in 1..k : q[i] \in R
  OBVIOUS
<1>2. step \in [1..k -> [S -> S]]
  BY <1>1
<1>3. PICK f \in [0..k -> S] : f[0] = b /\ \A i \in 1..k : f[i] = step[i][f[i - 1]]
  <2> HIDE DEF step, k, so
  <2>1. k \in Nat /\ step \in [1..k -> [S -> S]] /\ b \in S
    BY <1>1, <1>2
  <2>2. \E f \in [0..k -> S] : Follows(f, b, k, step)
    BY <2>1, Folds
  <2> QED BY <2>2 DEF Follows
<1>4. \A i \in 1..k : f[i] = Read(f[i - 1], q[i])
  <2> SUFFICES ASSUME NEW i \in 1..k PROVE f[i] = Read(f[i - 1], q[i])
    OBVIOUS
  <2>1. f[i - 1] \in S
    <3> HIDE DEF k, so, step
    <3> QED BY <1>1
  <2> QED
   BY <1>3, <2>1
<1> HIDE DEF step
<1>5. f = [n \in 0..k |-> IF n = 0 THEN b ELSE Read(f[n - 1], q[n])]
  <2> HIDE DEF k
  <2>1. \A n \in 0..k : n # 0 => n \in 1..k
    BY <1>1
  <2> QED
  BY <1>3, <1>4, <2>1
<1>6. so = [n \in 0..k |-> IF n = 0 THEN b ELSE Read(so[n - 1], q[n])]
  BY <1>5
<1>7. ReadAll(b, q) = so[k]
  BY DEF ReadAll
<1> HIDE DEF so, k
<1>8. \A n \in 0..k : so[n] \in S
  <2> DEFINE T == {n \in 0..k : so[n] \in S}
  <2>1. 0 \in T
    BY <1>1, <1>6
  <2>2. ASSUME NEW n \in 0..(k - 1), n \in T PROVE n + 1 \in T
    <3>1. n + 1 \in 1..k /\ n + 1 \in 0..k /\ n + 1 # 0 /\ (n + 1) - 1 = n
      BY <1>1
    <3>2. so[n + 1] = Read(so[n], q[n + 1])
      BY <1>6, <3>1
    <3> QED
      BY <1>1, <2>2, <3>1, <3>2
  <2> HIDE DEF T
  <2>3. T \in SUBSET Nat
    BY <1>1 DEF T
  <2>4. 0..k \subseteq T
    BY <1>1, <2>1, <2>2, <2>3, UpTo
  <2> QED
    BY <2>4 DEF T
<1> QED
  BY <1>1, <1>7, <1>8

\* What is too late is over.
LEMMA LateHears ==
  ASSUME bounds \in Instances, NEW n, NEW so \in Heard(n)
  PROVE  /\ Late(so).over \in BOOLEAN
         /\ ~Late(so).over => Late(so) \in Heard(n)
<1>1. so.over \in BOOLEAN /\ Off \in Ages
  BY DEF Heard, Ages
<1>2. CASE so.since < bounds.timeout
  BY <1>1, <1>2 DEF Late
<1>3. CASE ~(so.since < bounds.timeout) /\ so.state = "Failed"
  <2> DEFINE l == [so EXCEPT !.since = Off]
  <2>1. Late(so) = l
    BY <1>3 DEF Late
  <2>2. l.over = so.over /\ l \in Heard(n)
    BY <1>1, <1>3 DEF Heard
  <2> QED
    BY <1>1, <2>1, <2>2
<1>4. CASE ~(so.since < bounds.timeout) /\ so.state # "Failed"
  <2> DEFINE l == [so EXCEPT !.since = Off, !.state = "Failed", !.over = TRUE, !.lostFor = Off]
  <2>1. Late(so) = l
    BY <1>4 DEF Late
  <2>2. l.over
    BY DEF Heard
  <2> QED
    BY <2>1, <2>2
<1> QED
  BY <1>2, <1>3, <1>4

Cert(e) == IF Has(e) THEN conn[e].cert ELSE 0
\* The app of e has been told so.
Tells(e, so) ==
  /\ states' = [states EXCEPT ![e] = so.state]
  /\ since' = [since EXCEPT ![e] = so.since]
  /\ past' = [past EXCEPT ![e].about = so.about, ![e].lostFor = so.lostFor]
  /\ UNCHANGED <<conn, fingerprint>>
Forgets(e) ==
  /\ conn' = [conn EXCEPT ![e] = NoConnection] /\ fingerprint' = [fingerprint EXCEPT ![e] = 0]
  /\ Untold(e)

\* update_peers forgets a peer, or tells of what its connection reported.
LEMMA UpdateIs ==
  ASSUME Shape, NEW e \in End, ToldSound(e), UpdatePeers(e)
  PROVE  /\ events' = [events EXCEPT ![e] = <<>>] /\ superseded' = [superseded EXCEPT ![e] = FALSE]
         /\ UNCHANGED <<discarded, wire, made, used, bounds>>
         /\ Forgets(e) \/ \E so \in Heard(Cert(e)) : Tells(e, so)
<1> DEFINE n == Cert(e)
           before == [state |-> states[e], since |-> since[e], about |-> past[e].about, over |-> FALSE,
                      lostFor |-> past[e].lostFor]
           all == ReadAll(before, events[e])
           so == Late(all)
<1>1. /\ bounds \in Instances /\ states[e] \in {"none"} \cup PeerState /\ since[e] \in Ages
      /\ past[e].about \in 0..bounds.connections /\ past[e].lostFor \in Ages
      /\ events[e] \in Seq(Reported) /\ (Has(e) => conn[e].cert # 0)
  BY Typed, PastFields, Fields
<1>2. before \in Heard(n)
  <2>1. before \in [state : {"none"} \cup PeerState, since : Ages, about : 0..bounds.connections,
                    over : BOOLEAN, lostFor : Ages]
    BY <1>1
  <2>2. /\ before.state = states[e] /\ before.since = since[e] /\ before.about = past[e].about
        /\ before.lostFor = past[e].lostFor
    OBVIOUS
  <2> HIDE DEF before
  <2> QED
    BY <1>1, <2>1, <2>2 DEF Heard, ToldSound, Cert
<1>3. events[e] \in Seq(ReportedOf(n))
  <2>1. \A i \in DOMAIN events[e] : events[e][i] \in ReportedOf(n)
    BY <1>1 DEF ToldSound, ReportedOf, Cert
  <2> QED
    BY <1>1, <2>1
<1>4. all \in Heard(n)
  <2> HIDE DEF before, n
  <2>1. \A a \in Heard(n), x \in ReportedOf(n) : Read(a, x) \in Heard(n)
    BY <1>1, ReadHears
  <2> QED
    BY <1>2, <1>3, <2>1, AllRead
<1>5. so.over \in BOOLEAN /\ (~so.over => so \in Heard(n))
  <2> HIDE DEF all, n
  <2> QED
    BY <1>1, <1>4, LateHears
<1>6. /\ events' = [events EXCEPT ![e] = <<>>] /\ superseded' = [superseded EXCEPT ![e] = FALSE]
      /\ UNCHANGED <<discarded, wire, made, used, bounds>>
  BY DEF UpdatePeers
<1>7. IF so.over THEN Forgets(e) ELSE Tells(e, so)
  BY DEF UpdatePeers, Forgets, Tells
<1> HIDE DEF so, n
<1>8. Forgets(e) \/ \E x \in Heard(n) : Tells(e, x)
  BY <1>5, <1>7
<1> QED
  BY <1>6, <1>8 DEF n

\* What an end has been told after update_peers.
LEMMA TellsIs ==
  ASSUME Shape, NEW e \in End, NEW n, NEW so \in Heard(n), Tells(e, so)
  PROVE  /\ states' \in [End -> {"none"} \cup PeerState] /\ since' \in [End -> Ages]
         /\ past' \in [End -> Pasts]
         /\ states'[e] = so.state /\ since'[e] = so.since /\ past'[e].lostFor = so.lostFor
         /\ past'[e].about = so.about
         /\ past'[e].sent = past[e].sent /\ past'[e].early = past[e].early
         /\ states'[Other(e)] = states[Other(e)] /\ since'[Other(e)] = since[Other(e)]
         /\ past'[Other(e)] = past[Other(e)]
<1>1. past[e] \in Pasts /\ Other(e) # e /\ Other(e) \in End
  BY OtherEnd, Typed
<1>2. /\ so.state \in {"none"} \cup PeerState /\ so.since \in Ages /\ so.about \in 0..bounds.connections
      /\ so.lostFor \in Ages
  BY DEF Heard
<1> DEFINE p2 == [past[e] EXCEPT !.about = so.about, !.lostFor = so.lostFor]
<1>3. past' = [past EXCEPT ![e] = p2]
  BY DEF Tells, Shape
<1>4. p2 \in Pasts
  BY <1>1, <1>2 DEF Pasts, Ages
<1>5. p2.sent = past[e].sent /\ p2.early = past[e].early /\ p2.about = so.about /\ p2.lostFor = so.lostFor
  BY <1>1 DEF Pasts
<1> HIDE DEF p2
<1>6. states' = [states EXCEPT ![e] = so.state] /\ since' = [since EXCEPT ![e] = so.since]
  BY DEF Tells
<1> QED
  BY <1>1, <1>2, <1>3, <1>4, <1>5, <1>6 DEF Shape

\* update_peers leaves the ends linked.
LEMMA UpdateLinks ==
  ASSUME LinkInv, NEW e \in End, ToldSound(e), UpdatePeers(e)
  PROVE  LinkInv'
<1> DEFINE o == Other(e)
<1>1. /\ Shape
      /\ Pair(conn[e], conn[o], fingerprint[e], fingerprint[o], past[e], past[o], wire[e], wire[o], made)
  BY Ends
<1>2. o # e /\ o \in End /\ 0 \in 0..bounds.connections
  BY <1>1, OtherEnd, BoundsAre DEF Shape
<1>3. /\ events' = [events EXCEPT ![e] = <<>>] /\ superseded' = [superseded EXCEPT ![e] = FALSE]
      /\ UNCHANGED <<discarded, wire, made, used, bounds>>
      /\ Forgets(e) \/ \E so \in Heard(Cert(e)) : Tells(e, so)
  BY <1>1, UpdateIs
<1>4. events' \in [End -> Seq(Reported)] /\ superseded' \in [End -> BOOLEAN]
  BY <1>1, <1>3 DEF Shape
<1>5. CASE Forgets(e)
  <2>1. /\ states' \in [End -> {"none"} \cup PeerState] /\ since' \in [End -> Ages]
        /\ past' \in [End -> Pasts] /\ past'[o] = past[o]
        /\ past'[e].sent = past[e].sent /\ past'[e].early = past[e].early
    BY <1>1, <1>5, UntoldIs DEF Forgets
  <2>2. /\ conn' \in [End -> Connection \cup {NoConnection}]
        /\ fingerprint' \in [End -> 0..bounds.connections]
        /\ conn'[e] = NoConnection /\ conn'[o] = conn[o] /\ fingerprint'[e] = 0
        /\ fingerprint'[o] = fingerprint[o]
    BY <1>1, <1>2, <1>5 DEF Shape, Forgets
  <2>3. Shape'
    BY <1>1, <1>3, <1>4, <2>1, <2>2, ShapeFrom DEF Shape
  <2>4. Pair(NoConnection, conn[o], 0, fingerprint[o], past'[e], past[o], wire[e], wire[o], made)
    BY <1>1, <2>1, PastKeeps, ForgetsLinks
  <2> QED
    BY <1>3, <2>1, <2>2, <2>3, <2>4, Moved
<1>6. ASSUME NEW so \in Heard(Cert(e)), Tells(e, so) PROVE LinkInv'
  <2>1. /\ states' \in [End -> {"none"} \cup PeerState] /\ since' \in [End -> Ages]
        /\ past' \in [End -> Pasts] /\ past'[o] = past[o]
        /\ past'[e].sent = past[e].sent /\ past'[e].early = past[e].early
    BY <1>1, <1>6, TellsIs
  <2>2. conn' = conn /\ fingerprint' = fingerprint
    BY <1>6 DEF Tells
  <2>3. Shape'
    BY <1>1, <1>3, <1>4, <2>1, <2>2, ShapeFrom DEF Shape
  <2>4. Pair(conn[e], conn[o], fingerprint[e], fingerprint[o], past'[e], past[o], wire[e], wire[o], made)
    BY <1>1, <2>1, PastKeeps
  <2> QED
    BY <1>3, <2>1, <2>2, <2>3, <2>4, Moved
<1> QED
  BY <1>3, <1>5, <1>6

\* Time passes for both counts of the deadline alike.
LEMMA TickIs ==
  ASSUME Shape, Tick
  PROVE  /\ since' \in [End -> Ages] /\ past' \in [End -> Pasts]
         /\ \A e \in End :
              /\ past'[e].sent = past[e].sent /\ past'[e].early = past[e].early
              /\ past'[e].about = past[e].about
              /\ since[e] = Off <=> since'[e] = Off
              /\ since[e] = past[e].lostFor => since'[e] = past'[e].lostFor
<1> DEFINE Aged(age) == IF age = Off \/ age = bounds.timeout THEN age ELSE age + 1
<1>1. \A age \in Ages : Aged(age) \in Ages /\ (age = Off <=> Aged(age) = Off)
  BY BoundsAre DEF Ages, Off, Shape
<1>2. /\ since' = [e \in End |-> Aged(since[e])]
      /\ past' = [e \in End |-> [past[e] EXCEPT !.lostFor = Aged(past[e].lostFor)]]
  BY DEF Tick
<1> HIDE DEF Aged
<1>3. ASSUME NEW e \in End
      PROVE  /\ since'[e] = Aged(since[e]) /\ past'[e].lostFor = Aged(past[e].lostFor)
             /\ past'[e] \in Pasts /\ since'[e] \in Ages
             /\ past'[e].sent = past[e].sent /\ past'[e].early = past[e].early
             /\ past'[e].about = past[e].about
             /\ since[e] = Off <=> since'[e] = Off
  <2>1. past[e] \in Pasts /\ since[e] \in Ages
    BY Typed
  <2> DEFINE k == Aged(past[e].lostFor)
  <2>2. k \in Ages
    BY <1>1, <2>1, PastFields
  <2>3. past'[e] = [past[e] EXCEPT !.lostFor = k]
    BY <1>2
  <2> HIDE DEF k
  <2>4. /\ past'[e] \in Pasts /\ past'[e].lostFor = k /\ past'[e].sent = past[e].sent
        /\ past'[e].early = past[e].early /\ past'[e].about = past[e].about
    BY <2>1, <2>2, <2>3 DEF Pasts, Ages
  <2> QED
    BY <1>1, <1>2, <2>1, <2>4 DEF k
<1>4. since' \in [End -> Ages] /\ past' \in [End -> Pasts]
  BY <1>2, <1>3
<1> QED
  BY <1>3, <1>4

\* Time passing leaves the ends linked.
LEMMA TickLinks ==
  ASSUME LinkInv, Tick
  PROVE  LinkInv'
<1> DEFINE e == "a"
           o == "b"
<1>0. e \in End /\ o \in End /\ Other(e) = o
  BY DEF End, Other
<1> HIDE DEF e, o
<1>1. /\ Shape
      /\ Pair(conn[e], conn[o], fingerprint[e], fingerprint[o], past[e], past[o], wire[e], wire[o], made)
  BY <1>0, Ends
<1>2. /\ since' \in [End -> Ages] /\ past' \in [End -> Pasts]
      /\ \A x \in End : past'[x].sent = past[x].sent /\ past'[x].early = past[x].early
  BY <1>1, TickIs
<1>3. UNCHANGED <<conn, events, states, fingerprint, superseded, discarded, wire, made, used, bounds>>
  BY DEF Tick
<1>4. Shape'
  BY <1>1, <1>2, <1>3, ShapeFrom DEF Shape
<1>5. Pair(conn[e], conn[o], fingerprint[e], fingerprint[o], past'[e], past[o], wire[e], wire[o], made)
  BY <1>0, <1>1, <1>2, PastKeeps
<1>6. Pair(conn[e], conn[o], fingerprint[e], fingerprint[o], past'[e], past'[o], wire[e], wire[o], made)
  BY <1>0, <1>2, <1>5, PastKeeps, Symmetric
<1> QED
  BY <1>0, <1>3, <1>4, <1>6, Moved

------------------------------------------------------------------------------
\* What the app was told stays true

\* What an end was told stays true while its connection is the same.
LEMMA ToldStays ==
  ASSUME NEW x \in End, ToldSound(x), states'[x] = states[x], since'[x] = since[x],
         past'[x].about = past[x].about, past'[x].lostFor = past[x].lostFor,
         events'[x] # <<>> => Has(x),
         \A i \in DOMAIN events'[x] : events'[x][i].of = conn[x].cert,
         Has(x) => conn'[x] # NoConnection /\ conn'[x].cert = conn[x].cert
  PROVE  ToldSound(x)'
BY DEF ToldSound, Has

\* So it does if nothing was reported either.
LEMMA ToldStaysAll ==
  ASSUME NEW x \in End, ToldSound(x), states'[x] = states[x], since'[x] = since[x],
         past'[x].about = past[x].about, past'[x].lostFor = past[x].lostFor,
         events'[x] = events[x],
         Has(x) => conn'[x] # NoConnection /\ conn'[x].cert = conn[x].cert
  PROVE  ToldSound(x)'
BY DEF ToldSound, Has

\* What concerns one end concerns not the other.
LEMMA ToldMoved ==
  ASSUME NEW e \in End, ToldInv, ToldSound(e)', conn'[Other(e)] = conn[Other(e)],
         events'[Other(e)] = events[Other(e)], states'[Other(e)] = states[Other(e)],
         since'[Other(e)] = since[Other(e)], past'[Other(e)] = past[Other(e)]
  PROVE  ToldInv'
<1>1. Other(e) \in End /\ ToldSound(Other(e))
  BY OtherEnd DEF ToldInv
<1>2. ToldSound(Other(e))'
  BY <1>1, ToldStaysAll DEF Has
<1> QED
  BY <1>2, OtherEnd DEF ToldInv

\* Sending a signal tells nothing.
LEMMA EmittersTell ==
  ASSUME LinkInv, ToldInv, NEW e \in End, Has(e), Outside,
         NEW c2 \in Connection, NEW q \in Seq(Signal), Emit(e, c2, q), c2.cert = conn[e].cert
  PROVE  ToldInv'
<1>1. /\ Shape /\ ToldSound(e) /\ bounds \in Instances
  BY Ends, Typed DEF ToldInv
<1>2. /\ conn'[e] = c2 /\ conn'[Other(e)] = conn[Other(e)]
      /\ After(q, past[e], past'[e]) /\ past'[Other(e)] = past[Other(e)]
  BY <1>1, EmitIs
<1>3. events' = events /\ states' = states /\ since' = since
  BY DEF Outside, told
<1>4. past'[e].about = past[e].about /\ past'[e].lostFor = past[e].lostFor
  BY <1>2 DEF After
<1>5. ToldSound(e)'
  BY <1>1, <1>2, <1>3, <1>4, Fields, ToldStaysAll
<1> QED
  BY <1>2, <1>3, <1>5, ToldMoved

\* The tasks of a connection tell nothing.
LEMMA TasksTell ==
  ASSUME LinkInv, ToldInv, NEW e \in End,
         \/ Gather(e) \/ SendOffer(e) \/ OfferFails(e) \/ AbortedEnds(e)
         \/ SendAnswer(e) \/ AnswerFails(e) \/ MakeOffer(e) \/ ApplyOffer(e)
         \/ ApplyAnswer(e) \/ ApplyFails(e) \/ ApplyCandidate(e)
  PROVE  ToldInv'
<1>1. CASE Gather(e) \/ SendOffer(e) \/ OfferFails(e) \/ AbortedEnds(e) \/ SendAnswer(e) \/ AnswerFails(e)
  <2>1. Has(e) /\ Outside
    BY <1>1, SpeakersSay
  <2>2. PICK c2, q : Emit(e, c2, q) /\ Says(conn[e], c2, q, fingerprint[e], past[e], made)
    BY <1>1, SpeakersSay
  <2>3. c2 \in Connection /\ q \in Seq(Signal) /\ c2.cert = conn[e].cert
    BY <2>2 DEF Says, Speaks
  <2> QED
    BY <2>1, <2>2, <2>3, EmittersTell
<1>2. CASE MakeOffer(e) \/ ApplyOffer(e)
  <2>1. Has(e) /\ Outside
    BY <1>2, MakersMake
  <2>2. PICK c2 \in Connection : Emit(e, c2, <<>>) /\ c2.cert = conn[e].cert
    BY <1>2, MakersMake
  <2>3. <<>> \in Seq(Signal)
    OBVIOUS
  <2> QED
    BY <2>1, <2>2, <2>3, EmittersTell
<1>3. CASE ApplyAnswer(e) \/ ApplyFails(e) \/ ApplyCandidate(e)
  <2>1. PICK c2 : /\ conn' = [conn EXCEPT ![e] = c2] /\ Has(e)
                  /\ Applies(conn[e], Foremost(e), c2)
    BY <1>3, AppliersApply
  <2>2. Shape /\ ToldSound(e) /\ bounds \in Instances
    BY Ends, Typed DEF ToldInv
  <2>3. c2 \in Connection /\ c2.cert = conn[e].cert
    BY <2>1 DEF Applies, Ignores, Breaks, Accepts, Consumes
  <2>4. conn'[e] = c2 /\ conn'[Other(e)] = conn[Other(e)] /\ c2 # NoConnection
    BY <2>1, <2>2, <2>3, OtherEnd, Fields DEF Shape
  <2>5. events' = events /\ states' = states /\ since' = since /\ past' = past
    BY <1>3 DEF ApplyAnswer, ApplyFails, ApplyCandidate, Outside, told
  <2>6. ToldSound(e)'
    BY <2>2, <2>3, <2>4, <2>5, ToldStaysAll
  <2> QED
    BY <2>4, <2>5, <2>6, ToldMoved
<1> QED
  BY <1>1, <1>2, <1>3

\* The transport's callbacks report under the certificate of their connection.
LEMMA TransportTells ==
  ASSUME LinkInv, ToldInv, NEW e \in End, Has(e), NEW c2, Carries(e, c2)
  PROVE  ToldInv'
<1>1. Shape /\ ToldSound(e) /\ bounds \in Instances /\ Other(e) \in End
  BY Ends, Typed, OtherEnd DEF ToldInv
<1>2. c2 \in Connection /\ c2.cert = conn[e].cert
  BY DEF Carries, Rests, Alike
<1>3. conn'[e] = c2 /\ conn'[Other(e)] = conn[Other(e)] /\ c2 # NoConnection
  BY <1>1, <1>2, OtherEnd, Fields DEF Shape, Carries
<1>4. states' = states /\ since' = since /\ past' = past
  BY DEF Carries, Quiet, told
<1>5. CASE UNCHANGED events
  <2>1. ToldSound(e)'
    BY <1>1, <1>2, <1>3, <1>4, <1>5, ToldStaysAll
  <2> QED
    BY <1>3, <1>4, <1>5, <2>1, ToldMoved
<1>6. ASSUME NEW s \in PeerState, Report(e, conn[e], s) PROVE ToldInv'
  <2>1. /\ events'[Other(e)] = events[Other(e)]
        /\ \A i \in DOMAIN events'[e] : (i \in DOMAIN events[e] /\ events'[e][i] = events[e][i])
                                         \/ events'[e][i].of = conn[e].cert
    BY <1>1, <1>6, ReportIs
  <2>2. \A i \in DOMAIN events[e] : events[e][i].of = conn[e].cert
    BY <1>1 DEF ToldSound
  <2>3. ToldSound(e)'
    BY <1>1, <1>2, <1>3, <1>4, <2>1, <2>2, ToldStays
  <2> QED
    BY <1>3, <1>4, <2>1, <2>3, ToldMoved
<1> QED
  BY <1>5, <1>6 DEF Carries

\* A signal that arrives tells nothing.
LEMMA ReceiversTell ==
  ASSUME LinkInv, ToldInv, NEW e \in End, ReceiveAgain(e) \/ ReceiveOther(e)
  PROVE  ToldInv'
<1>1. Shape /\ ToldSound(e) /\ bounds \in Instances /\ Other(e) \in End /\ Other(e) # e
      /\ (Has(e) => conn[e] \in Connection)
  BY Ends, Typed, OtherEnd DEF ToldInv
<1>2. events' = events /\ states' = states /\ since' = since /\ past' = past
  BY DEF ReceiveAgain, ReceiveOther, told
<1>3. conn' = conn \/ (Has(e) /\ Queued(e) /\ wire[Other(e)] # <<>> /\ Unwired(e))
  BY DEF ReceiveAgain, ReceiveOther, Arrives
<1>4. CASE conn' = conn
  <2>1. ToldSound(e)'
    BY <1>1, <1>2, <1>4, ToldStaysAll DEF Has
  <2> QED
    BY <1>2, <1>4, <2>1, ToldMoved
<1>5. CASE Has(e) /\ Queued(e) /\ wire[Other(e)] # <<>> /\ Unwired(e)
  <2> DEFINE c2 == [conn[e] EXCEPT !.queue = Append(@, Arrived(e))]
  <2>1. Arrived(e) \in Signal
    BY <1>1, <1>5, ArrivedIs
  <2>2. conn' = [conn EXCEPT ![e] = c2]
    BY <1>1, <1>5 DEF Queued, Shape
  <2>3. Queues(conn[e], Arrived(e), c2)
    BY <1>1, <1>5, <2>1, QueuedIs
  <2> HIDE DEF c2
  <2>4. c2 \in Connection /\ c2.cert = conn[e].cert /\ c2 # NoConnection
    BY <1>1, <2>3, Fields DEF Queues
  <2>5. conn'[e] = c2 /\ conn'[Other(e)] = conn[Other(e)]
    BY <1>1, <2>2 DEF Shape
  <2>6. ToldSound(e)'
    BY <1>1, <1>2, <2>4, <2>5, ToldStaysAll
  <2> QED
    BY <1>2, <2>5, <2>6, ToldMoved
<1> QED
  BY <1>3, <1>4, <1>5

\* A new connection starts with nothing told of the one before.
LEMMA StartersTell ==
  ASSUME LinkInv, ToldInv, NEW e \in End, ConnectPeer(e) \/ ReceiveOffer(e)
  PROVE  ToldInv'
<1>1. Shape /\ ToldSound(e) /\ bounds \in Instances /\ Other(e) \in End /\ Other(e) # e
  BY Ends, Typed, OtherEnd DEF ToldInv
<1>2. EventsFor(e) /\ made' = made + 1 /\ made < bounds.connections
  BY DEF ConnectPeer, ReceiveOffer
<1>3. /\ events'[Other(e)] = events[Other(e)] /\ made' \in 0..bounds.connections
      /\ \A i \in DOMAIN events'[e] : events'[e][i].of = made + 1
  BY <1>1, <1>2, StartedEvents
<1>4. conn'[e].cert = made + 1 /\ conn'[e] # NoConnection /\ conn'[Other(e)] = conn[Other(e)]
  <2>1. PICK role, offer, q : conn' = [conn EXCEPT ![e] = NewConnection(role, offer, q)]
    BY DEF ConnectPeer, ReceiveOffer
  <2>2. conn'[e] = NewConnection(role, offer, q) /\ conn'[Other(e)] = conn[Other(e)]
    BY <1>1, <2>1 DEF Shape
  <2>3. conn'[e].cert = made + 1
    BY <2>2 DEF NewConnection
  <2>4. made + 1 # 0
    BY <1>1, Typed
  <2> QED
    BY <2>2, <2>3, <2>4 DEF NoConnection
<1>5. CASE Has(e) /\ Untold(e)
  <2>1. /\ states'[e] = "none"
        /\ states'[Other(e)] = states[Other(e)] /\ since'[Other(e)] = since[Other(e)]
        /\ past'[Other(e)] = past[Other(e)]
    BY <1>1, <1>5, UntoldIs
  <2>2. ToldSound(e)'
    BY <1>3, <1>4, <2>1 DEF ToldSound, Has
  <2> QED
    BY <1>3, <1>4, <2>1, <2>2, ToldMoved
<1>6. CASE ~Has(e) /\ UNCHANGED <<told, past>>
  <2>1. states' = states /\ since' = since /\ past' = past
    BY <1>6 DEF told
  <2>2. states'[e] = "none"
    BY <1>1, <1>6, <2>1 DEF ToldSound
  <2>3. ToldSound(e)'
    BY <1>3, <1>4, <2>2 DEF ToldSound, Has
  <2> QED
    BY <1>3, <1>4, <2>1, <2>3, ToldMoved
<1> QED
  BY <1>5, <1>6 DEF ConnectPeer, ReceiveOffer

\* What is forgotten leaves nothing told, and what is read is of the connection
\* there is.
LEMMA ForgettersTell ==
  ASSUME LinkInv, ToldInv, NEW e \in End, DisconnectPeer(e) \/ UpdatePeers(e)
  PROVE  ToldInv'
<1>1. Shape /\ ToldSound(e) /\ bounds \in Instances /\ Other(e) \in End /\ Other(e) # e
      /\ (Has(e) => conn[e].cert # 0)
  BY Ends, Typed, OtherEnd, Fields DEF ToldInv
<1>2. /\ events' = [events EXCEPT ![e] = <<>>]
      /\ Forgets(e) \/ \E so \in Heard(Cert(e)) : Tells(e, so)
  BY <1>1, UpdateIs DEF DisconnectPeer, Forgets
<1>3. events'[e] = <<>> /\ events'[Other(e)] = events[Other(e)]
  BY <1>1, <1>2 DEF Shape
<1>4. CASE Forgets(e)
  <2>1. /\ states'[e] = "none"
        /\ states'[Other(e)] = states[Other(e)] /\ since'[Other(e)] = since[Other(e)]
        /\ past'[Other(e)] = past[Other(e)]
    BY <1>1, <1>4, UntoldIs DEF Forgets
  <2>2. conn'[Other(e)] = conn[Other(e)]
    BY <1>1, <1>4 DEF Forgets, Shape
  <2>3. ToldSound(e)'
    BY <1>3, <2>1 DEF ToldSound
  <2> QED
    BY <1>3, <2>1, <2>2, <2>3, ToldMoved
<1>5. ASSUME NEW so \in Heard(Cert(e)), Tells(e, so) PROVE ToldInv'
  <2>1. /\ states'[e] = so.state /\ since'[e] = so.since /\ past'[e].lostFor = so.lostFor
        /\ past'[e].about = so.about
        /\ states'[Other(e)] = states[Other(e)] /\ since'[Other(e)] = since[Other(e)]
        /\ past'[Other(e)] = past[Other(e)]
    BY <1>1, <1>5, TellsIs
  <2>2. conn' = conn
    BY <1>5 DEF Tells
  <2>3. ToldSound(e)'
    BY <1>1, <1>3, <2>1, <2>2 DEF ToldSound, Heard, Cert, Has
  <2> QED
    BY <1>3, <2>1, <2>2, <2>3, ToldMoved
<1> QED
  BY <1>2, <1>4, <1>5

\* The deadline and the time since the loss run together.
LEMMA TickTells ==
  ASSUME LinkInv, ToldInv, Tick
  PROVE  ToldInv'
<1>1. \A e \in End :
        /\ past'[e].about = past[e].about
        /\ since[e] = Off <=> since'[e] = Off
        /\ since[e] = past[e].lostFor => since'[e] = past'[e].lostFor
  BY TickIs DEF LinkInv
<1>2. conn' = conn /\ events' = events /\ states' = states
  BY DEF Tick
<1>3. ASSUME NEW e \in End PROVE ToldSound(e)'
  <2>1. ToldSound(e)
    BY DEF ToldInv
  <2> QED
    BY <1>1, <1>2, <2>1 DEF ToldSound, Has
<1> QED
  BY <1>3 DEF ToldInv

------------------------------------------------------------------------------
\* The theorems

Inv == LinkInv /\ ToldInv

\* Before anyone connects there is nothing to go wrong.
LEMMA Starts ==
  Init => Inv
<1> SUFFICES ASSUME Init PROVE Inv
  OBVIOUS
<1>1. bounds \in Instances /\ 0 \in 0..bounds.connections /\ 0 \in Nat
  BY BoundsAre DEF Init
<1> DEFINE p == [sent |-> {}, early |-> {}, about |-> 0, lostFor |-> Off]
<1>2. p \in Pasts /\ p.sent = {} /\ p.early = {}
  BY <1>1 DEF Pasts
<1>3. \A e \in End : /\ conn[e] = NoConnection /\ events[e] = <<>> /\ states[e] = "none" /\ since[e] = Off
                     /\ fingerprint[e] = 0 /\ superseded[e] = FALSE /\ discarded[e] = 0 /\ wire[e] = <<>>
                     /\ past[e] = p
  BY DEF Init
<1>4. made = 0
  BY DEF Init
<1>5. Shape
  <2>1. /\ conn \in [End -> Connection \cup {NoConnection}] /\ events \in [End -> Seq(Reported)]
        /\ states \in [End -> {"none"} \cup PeerState] /\ since \in [End -> Ages]
    BY DEF Init, Ages
  <2>2. /\ fingerprint \in [End -> 0..bounds.connections] /\ superseded \in [End -> BOOLEAN]
        /\ discarded \in [End -> Nat] /\ wire \in [End -> Seq(Signal)]
    BY <1>1 DEF Init
  <2>3. past \in [End -> Pasts]
    BY <1>2 DEF Init
  <2> QED
    BY <1>1, <1>4, <2>1, <2>2, <2>3 DEF Shape
<1> HIDE DEF p
<1>6. PastSound(p, 0) /\ SignalsSound(<<>>, p, 0)
  BY <1>2 DEF PastSound, SignalsSound
<1>7. Pair(NoConnection, NoConnection, 0, 0, p, p, <<>>, <<>>, 0)
  BY <1>6 DEF Pair, EndSound, LinkSound
<1>8. ASSUME NEW e \in End PROVE Linked(e) /\ ToldSound(e)
  <2>1. Other(e) \in End
    BY OtherEnd
  <2>2. Linked(e)
    BY <1>3, <1>4, <1>7, <2>1 DEF Linked
  <2>3. ToldSound(e)
    BY <1>3 DEF ToldSound
  <2> QED
    BY <2>2, <2>3
<1> QED
  BY <1>5, <1>8 DEF Inv, LinkInv, ToldInv

\* A stutter keeps the invariant.
LEMMA Idles ==
  ASSUME Inv, UNCHANGED vars
  PROVE  Inv'
<1>1. /\ conn' = conn /\ events' = events /\ states' = states /\ since' = since /\ fingerprint' = fingerprint
      /\ superseded' = superseded /\ discarded' = discarded /\ wire' = wire /\ made' = made
      /\ bounds' = bounds /\ past' = past
  BY DEF vars, told
<1>2. Shape'
  BY <1>1, ShapeFrom DEF Inv, LinkInv, Shape
<1>3. \A e \in End : Linked(e)'
  BY <1>1 DEF Inv, LinkInv, Linked
<1>4. \A e \in End : ToldSound(e)'
  BY <1>1 DEF Inv, ToldInv, ToldSound, Has
<1> QED
  BY <1>2, <1>3, <1>4 DEF Inv, LinkInv, ToldInv

\* Each step of the socket keeps the invariant.
LEMMA StepKeeps ==
  ASSUME Inv, Next
  PROVE  Inv'
<1>0. LinkInv /\ ToldInv /\ Shape /\ \A e \in End : ToldSound(e)
  BY DEF Inv, LinkInv, ToldInv
<1>1. CASE Tick
  BY <1>0, <1>1, TickLinks, TickTells DEF Inv
<1>2. ASSUME NEW e \in End, Calls(e) PROVE Inv'
  <2>1. CASE ConnectPeer(e)
    BY <1>0, <2>1, ConnectLinks, StartersTell DEF Inv
  <2>2. CASE DisconnectPeer(e)
    BY <1>0, <2>2, DisconnectLinks, ForgettersTell DEF Inv
  <2>3. CASE RestartIce(e)
    <3>1. Has(e) /\ \E c2 : Carries(e, c2)
      BY <1>0, <2>3, TransportCarries
    <3> QED
      BY <1>0, <3>1, Carrying, TransportTells DEF Inv
  <2>4. CASE UpdatePeers(e)
    BY <1>0, <2>4, UpdateLinks, ForgettersTell DEF Inv
  <2>5. CASE ReceiveAgain(e) \/ ReceiveOther(e)
    BY <1>0, <2>5, ReceiversLink, ReceiversTell DEF Inv
  <2>6. CASE ReceiveOffer(e)
    BY <1>0, <2>6, OfferLinks, StartersTell DEF Inv
  <2> QED
    BY <1>2, <2>1, <2>2, <2>3, <2>4, <2>5, <2>6 DEF Calls
<1>3. ASSUME NEW e \in End, Tasks(e) \/ Gather(e) PROVE Inv'
  <2>1. CASE Gather(e) \/ SendOffer(e) \/ OfferFails(e) \/ AbortedEnds(e) \/ SendAnswer(e) \/ AnswerFails(e)
    BY <1>0, <2>1, SpeakersLink, TasksTell DEF Inv
  <2>2. CASE MakeOffer(e) \/ ApplyOffer(e)
    BY <1>0, <2>2, MakersLink, TasksTell DEF Inv
  <2>3. CASE ApplyAnswer(e) \/ ApplyFails(e) \/ ApplyCandidate(e)
    BY <1>0, <2>3, AppliersLink, TasksTell DEF Inv
  <2> QED
    BY <1>3, <2>1, <2>2, <2>3 DEF Tasks
<1>4. ASSUME NEW e \in End, Transport(e), ~Gather(e) PROVE Inv'
  <2>1. Has(e) /\ \E c2 : Carries(e, c2)
    BY <1>0, <1>4, TransportCarries DEF Transport
  <2> QED
    BY <1>0, <2>1, Carrying, TransportTells DEF Inv
<1> QED
  BY <1>1, <1>2, <1>3, <1>4 DEF Next

\* The invariant of EnsembleSocket's two ends: each connection is sound, what
\* it says and is told agrees with the other end and with what is on its way, and
\* what an app is told comes from the connection there is.
THEOREM InvHolds ==
  Spec => []Inv
<1>1. Inv /\ [Next]_vars => Inv'
  BY Idles, StepKeeps
<1> QED
  BY Starts, <1>1, PTL DEF Spec

\* Every variable has its type, and the gate of a connection counts its holders:
\* the offer or answer being made and the aborted tasks that have not ended.
THEOREM TypesHold ==
  Spec => []TypeOK
<1>1. Inv => TypeOK
  <2> SUFFICES ASSUME Inv PROVE TypeOK
    OBVIOUS
  <2>1. bounds \in Instances /\ made \in 0..bounds.connections
    BY DEF Inv, LinkInv, Shape
  <2>2. ASSUME NEW e \in End
        PROVE  /\ conn[e] = NoConnection \/
                    /\ conn[e] \in Connection
                    /\ conn[e].holds = conn[e].aborted + (IF conn[e].offer = "making" THEN 1 ELSE 0)
                                               + (IF conn[e].answering THEN 1 ELSE 0)
                    /\ conn[e].holds = 0 => conn[e].held = <<>>
               /\ events[e] \in Seq([state : PeerState, of : 1..bounds.connections])
               /\ states[e] \in {"none"} \cup PeerState
               /\ since[e] \in {Off} \cup 0..bounds.timeout
               /\ fingerprint[e] \in 0..bounds.connections /\ superseded[e] \in BOOLEAN
               /\ discarded[e] \in Nat /\ wire[e] \in Seq(Signal)
               /\ past[e] \in Pasts
    <3>1. Shape
      BY DEF Inv, LinkInv
    <3>2. CASE conn[e] = NoConnection
      BY <3>1, <3>2, Typed DEF Reported, Ages
    <3>3. CASE conn[e] # NoConnection
      <4>1. ConnectionSound(conn[e], fingerprint[e], past[e], made)
        BY <3>3, HereSound DEF Has, Inv
      <4> QED
        BY <3>1, <3>3, <4>1, Typed DEF Reported, Ages, Has, ConnectionSound, GateSound
    <3> QED
      BY <3>2, <3>3
  <2> QED
    BY <2>1, <2>2 DEF TypeOK
<1> QED
  BY InvHolds, <1>1, PTL

\* Connections to one peer are kept apart, however often disconnect_peer,
\* connect_peer and receive_signal replace them: what update_peers tells an app
\* comes from the connection there is, and an answerer takes no offer made under
\* another certificate than the one it answers.
THEOREM LinksStayApart ==
  Spec => []ConnectionsAreKeptApart
<1>1. Inv => ConnectionsAreKeptApart
  <2> SUFFICES ASSUME Inv, NEW e \in End
               PROVE  /\ states[e] # "none" => Has(e) /\ past[e].about = conn[e].cert
                      /\ events[e] # <<>> => Has(e) /\ \A i \in DOMAIN events[e] : events[e][i].of = conn[e].cert
                      /\ Has(e) /\ conn[e].role = "Answerer" =>
                           /\ conn[e].remote.cert \in {0, fingerprint[e]}
                           /\ \A s \in Range(conn[e].queue) : s.kind = "Offer" => s.of.cert = fingerprint[e]
    BY DEF ConnectionsAreKeptApart
  <2>1. ToldSound(e)
    BY DEF Inv, ToldInv
  <2>2. ASSUME Has(e), conn[e].role = "Answerer"
        PROVE  /\ conn[e].remote.cert \in {0, fingerprint[e]}
               /\ \A s \in Range(conn[e].queue) : s.kind = "Offer" => s.of.cert = fingerprint[e]
    <3>1. AnswererSound(conn[e], fingerprint[e])
      BY <2>2, HereSound DEF Inv, ConnectionSound
    <3>2. \A s \in Range(conn[e].queue) : \E i \in DOMAIN conn[e].queue : s = conn[e].queue[i]
      BY DEF Range
    <3> QED
      BY <3>1, <3>2 DEF AnswererSound
  <2> QED
    BY <2>1, <2>2 DEF ToldSound
<1> QED
  BY InvHolds, <1>1, PTL

\* CandidateGate keeps each candidate behind its description: however offers and
\* answers are made, replaced, aborted and fail, no candidate is sent before a
\* description it belongs to that is sent as well.
THEOREM DescriptionsGoFirst ==
  Spec => []CandidatesFollowTheirDescription
<1>1. Inv => CandidatesFollowTheirDescription
  BY Ends DEF Inv, Pair, EndSound, PastSound, CandidatesFollowTheirDescription
<1> QED
  BY InvHolds, <1>1, PTL

\* update_peers runs one deadline from the moment an app was told Reconnecting,
\* whatever losses, restarts and reports follow until it is told otherwise.
THEOREM DeadlinesRun ==
  Spec => []DeadlineRunsFromTheLoss
<1>1. Inv => DeadlineRunsFromTheLoss
  BY DEF Inv, ToldInv, ToldSound, DeadlineRunsFromTheLoss
<1> QED
  BY InvHolds, <1>1, PTL

\* Only run_signal_queue refuses, and only candidates it has no description for.
LEMMA RefusedIs ==
  ASSUME Inv, Next, NEW e \in End, discarded'[e] # discarded[e]
  PROVE  Takes(e, "Candidate") /\ conn[e].remote = Nobody
<1>1. discarded \in [End -> Nat]
  BY DEF Inv, LinkInv, Shape
<1>2. discarded' # discarded
  OBVIOUS
<1>3. \E x \in End : ApplyCandidate(x)
  BY <1>2, ZenonT(40) DEF Next, Tick, Calls, Tasks, Transport, ConnectPeer, DisconnectPeer, RestartIce, UpdatePeers,
     ReceiveAgain, ReceiveOffer, ReceiveOther, MakeOffer, SendOffer, OfferFails, AbortedEnds, ApplyOffer,
     SendAnswer, AnswerFails, ApplyAnswer, ApplyFails, Gather, IceLost, IceFailed, IceConnected,
     ConnectionFailed, OnOpen, OnClose, Outside, Quiet
<1>4. PICK x \in End : ApplyCandidate(x)
  BY <1>3
<1> DEFINE k == IF conn[x].remote = Nobody THEN 1 ELSE 0
<1>5. discarded' = [discarded EXCEPT ![x] = discarded[x] + k] /\ Takes(x, "Candidate")
  BY <1>4 DEF ApplyCandidate
<1>6. k \in Nat /\ (k # 0 => conn[x].remote = Nobody)
  OBVIOUS
<1> HIDE DEF k
<1>7. x = e
  BY <1>1, <1>5
<1>8. k # 0
  BY <1>1, <1>5, <1>6, <1>7
<1> QED
  BY <1>5, <1>6, <1>7, <1>8

\* An offerer that waits finds its answer ahead of the candidates gathered for
\* it.
LEMMA RefusedRightly ==
  ASSUME Inv, NEW e \in End, Takes(e, "Candidate"), conn[e].remote = Nobody
  PROVE  \/ conn[e].broken \/ Foremost(e).of \notin past[Other(e)].sent
         \/ conn[e].role = "Offerer" /\ Foremost(e).to # conn[e].cert
<1> SUFFICES ASSUME ~conn[e].broken PROVE
         \/ Foremost(e).of \notin past[Other(e)].sent
         \/ conn[e].role = "Offerer" /\ Foremost(e).to # conn[e].cert
  OBVIOUS
<1> DEFINE c == conn[e]
<1>1. /\ Has(e) /\ c \in Connection /\ c.role \in {"Offerer", "Answerer"} /\ c.queue \in Seq(Signal)
      /\ c.queue # <<>> /\ Head(c.queue).kind = "Candidate" /\ Foremost(e) = c.queue[1]
      /\ ConnectionSound(c, fingerprint[e], past[e], made)
  BY HereSound, Fields DEF Inv, Takes, Foremost
<1>2. c.role = "Offerer"
  BY <1>1 DEF ConnectionSound, AnswererSound
<1>3. AnswersComeFirst(c, wire[Other(e)], past[Other(e)].sent)
  <2>1. OffererLinked(c, wire[e], wire[Other(e)], past[Other(e)].sent)
    BY <1>1, <1>2, Ends DEF Inv, Pair, LinkSound, Has
  <2> QED
    BY <2>1 DEF OffererLinked, Waits
<1>4. ~AnswerWithin(c.queue, 1, c.cert)
  BY <1>1 DEF AnswerWithin
<1>5. 1 \in DOMAIN c.queue /\ c.queue[1].kind = "Candidate"
  BY <1>1
<1>6. ~NamedAndSent(c.queue[1], c.cert, past[Other(e)].sent)
  BY <1>3, <1>4, <1>5 DEF AnswersComeFirst
<1> QED
  BY <1>1, <1>2, <1>5, <1>6 DEF NamedAndSent

\* run_signal_queue refuses a candidate for want of a description only if that
\* description was never sent, the connection is broken, or the candidate was
\* gathered for another connection than this offerer's.
THEOREM StrangersAlone ==
  Spec => OnlyStrangersAreRefused
<1> DEFINE Refuses == \A e \in End : discarded'[e] # discarded[e] =>
       \/ conn[e].broken \/ Foremost(e).of \notin past[Other(e)].sent
       \/ conn[e].role = "Offerer" /\ Foremost(e).to # conn[e].cert
<1>1. Inv /\ [Next]_vars => [Refuses]_vars
  BY RefusedIs, RefusedRightly
<1> QED
  BY InvHolds, <1>1, PTL DEF Spec, OnlyStrangersAreRefused
==============================================================================
