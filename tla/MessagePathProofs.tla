--------------------------- MODULE MessagePathProofs ---------------------------
(***************************************************************************)
(* Nothing is read from a peer whose protocol was not compared, and nobody *)
(* waits for a handshake that will not come, for every number of clients   *)
(* and of messages, and for every limit.                                   *)
(*                                                                         *)
(* The invariant follows what is said: a client's messages name it as      *)
(* their author wherever they are (in a batch, on the wire, in a backlog,  *)
(* held, or among the envelopes), only the host passes on what others      *)
(* said, and it knows who the transport says they are.  A peer counts as   *)
(* verified only once no difference was found, and stays so; so whatever   *)
(* was delivered came from a peer that was verified then and is still.     *)
(*                                                                         *)
(* And it follows the one handshake a peer says to each that appears: not  *)
(* said yet, on its way, or heard and made the most of (GreetInv).         *)
(***************************************************************************)
EXTENDS MessagePath, SequenceProofs

------------------------------------------------------------------------------
\* Batches: what push keeps of every one, for any messages, peers and limit.

\* Messages are records with a mode and a size, and whatever else.
AreMessages(ms) == \A m \in ms : m.mode \in SendModes /\ m.size \in Nat
Batch(ms, ps) == [to : ps, mode : SendModes, packets : Seq(ms), bytes : Nat]

\* The three rules of outbound.rs:14-24, the limit counted without the framing:
\* one guarantee in a frame, no company for a message that must not be delayed,
\* and a batch cut before it is too long.
Packed(b, limit) ==
  /\ \A k \in DOMAIN b.packets : b.packets[k].mode = b.mode
  /\ b.mode = "ReliableNoDelay" => Len(b.packets) = 1
  /\ Len(b.packets) # 1 => b.bytes + FramingAllowance <= limit
WellPacked(batches, limit) == \A i \in DOMAIN batches : Packed(batches[i], limit)

\* Of some places of a sequence one is the last: the one with the highest rank.
LEMMA LastOfSome ==
  ASSUME NEW n \in Nat, NEW places \in SUBSET (1..n), places # {}
  PROVE  \E k \in places : \A j \in places : j <= k
<1> DEFINE count == Cardinality(places)
           below(i) == {j \in places : j <= i}
<1>1. IsFiniteSet(places)
  <2>1. IsFiniteSet(1..n)
    BY FS_Interval
  <2> QED BY <2>1, FS_Subset
<1>2. count \in Nat /\ count # 0
  BY <1>1, FS_CardinalityType, FS_EmptySet
<1>3. PICK k \in places : RankIn(places, k) = count
  <2>1. count \in 1..count
    BY <1>2
  <2>2. \A c \in 1..count : \E i \in places : RankIn(places, i) = c
    BY RanksNumberThePlaces
  <2> HIDE DEF count
  <2> QED BY <2>1, <2>2
<1>4. ASSUME NEW j \in places, ~(j <= k) PROVE FALSE
  <2>0. k \in Nat /\ j \in Nat /\ k < j
    BY <1>4
  <2>1. below(k) \subseteq below(j) /\ below(j) \subseteq places
    <3> SUFFICES ASSUME NEW i \in places, i <= k PROVE i <= j
      OBVIOUS
    <3> QED BY <2>0
  <2>2. IsFiniteSet(below(j)) /\ Cardinality(below(k)) <= Cardinality(below(j))
    BY <1>1, <2>1, FS_Subset
  <2>3. RankIn(places, j) = Cardinality(below(j)) /\ count = Cardinality(below(k))
    BY <1>3 DEF RankIn
  <2>4. RankIn(places, j) \in 1..count
    BY RanksNumberThePlaces
  <2>5. RankIn(places, j) = RankIn(places, k)
    BY <1>2, <1>3, <2>2, <2>3, <2>4
  <2>6. j = k
    BY <2>5, RanksNumberThePlaces
  <2> QED BY <2>6, <1>4
<1> QED BY <1>4

\* A message in a batch of its own keeps to the rules.
LEMMA AloneIsPacked ==
  ASSUME NEW Msgs, NEW Dests, AreMessages(Msgs), NEW limit \in Nat,
         NEW to \in Dests, NEW m \in Msgs
  PROVE  NewBatch(to, m) \in Batch(Msgs, Dests) /\ Packed(NewBatch(to, m), limit)
<1>1. m.mode \in SendModes /\ m.size \in Nat
  BY DEF AreMessages
<1>2. <<m>> \in Seq(Msgs) /\ Len(<<m>>) = 1 /\ DOMAIN <<m>> = {1} /\ <<m>>[1] = m
  OBVIOUS
<1>3. NewBatch(to, m) \in Batch(Msgs, Dests)
  BY <1>1, <1>2 DEF NewBatch, Batch
<1>4. Packed(NewBatch(to, m), limit)
  BY <1>1, <1>2 DEF NewBatch, Packed
<1> QED BY <1>3, <1>4

\* A batch a message fits in keeps to the rules with it.
LEMMA JoinedIsPacked ==
  ASSUME NEW Msgs, NEW Dests, AreMessages(Msgs), NEW limit \in Nat,
         NEW b \in Batch(Msgs, Dests), NEW to \in Dests, NEW m \in Msgs,
         Packed(b, limit), fits(b, to, m, limit)
  PROVE  Joined(b, m) \in Batch(Msgs, Dests) /\ Packed(Joined(b, m), limit)
<1>1. m.mode \in SendModes /\ m.size \in Nat
  BY DEF AreMessages
<1>2. /\ b.packets \in Seq(Msgs) /\ b.bytes \in Nat
      /\ b.mode = m.mode /\ m.mode # "ReliableNoDelay"
      /\ b.bytes + m.size + FramingAllowance <= limit
  BY DEF Batch, fits
<1>3. /\ Joined(b, m).packets = Append(b.packets, m) /\ Joined(b, m).bytes = b.bytes + m.size
      /\ Joined(b, m).mode = b.mode /\ Joined(b, m).to = b.to
  BY DEF Joined, Batch
<1>4. Joined(b, m) \in Batch(Msgs, Dests)
  <2>1. Append(b.packets, m) \in Seq(Msgs)
    BY <1>2
  <2> QED BY <1>1, <1>2, <2>1 DEF Joined, Batch
<1>5. \A k \in DOMAIN Append(b.packets, m) : Append(b.packets, m)[k].mode = b.mode
  <2> SUFFICES ASSUME NEW k \in 1..(Len(b.packets) + 1)
               PROVE  Append(b.packets, m)[k].mode = b.mode
    BY <1>2
  <2>1. CASE k \in 1..Len(b.packets)
    <3>1. Append(b.packets, m)[k] = b.packets[k]
      BY <1>2, <2>1
    <3> QED BY <3>1, <2>1, <1>2 DEF Packed
  <2>2. CASE k = Len(b.packets) + 1
    BY <1>2, <2>2
  <2> QED BY <2>1, <2>2, <1>2
<1>6. Packed(Joined(b, m), limit)
  BY <1>1, <1>2, <1>3, <1>5 DEF Packed, FramingAllowance
<1> QED BY <1>4, <1>6

\* Whatever is pushed, for whom and in whatever order, every batch keeps to the
\* rules: reliable and unreliable messages never share a frame, one sent without
\* delay travels alone, and no batch is filled past the limit less the allowance.
THEOREM PushKeepsThePacking ==
  ASSUME NEW Msgs, NEW Dests, AreMessages(Msgs), NEW limit \in Nat,
         NEW batches \in Seq(Batch(Msgs, Dests)), NEW to \in Dests, NEW m \in Msgs,
         WellPacked(batches, limit)
  PROVE  /\ push(batches, to, m, limit) \in Seq(Batch(Msgs, Dests))
         /\ WellPacked(push(batches, to, m, limit), limit)
<1> DEFINE Fitting == {i \in DOMAIN batches : fits(batches[i], to, m, limit)}
           last == CHOOSE i \in Fitting : \A j \in Fitting : j <= i
           after == push(batches, to, m, limit)
<1>0. DOMAIN batches = 1..Len(batches) /\ Len(batches) \in Nat
  OBVIOUS
<1>1. CASE Fitting = {}
  <2>1. after = Append(batches, NewBatch(to, m))
    BY <1>1 DEF push
  <2>2. NewBatch(to, m) \in Batch(Msgs, Dests) /\ Packed(NewBatch(to, m), limit)
    BY AloneIsPacked
  <2>3. after \in Seq(Batch(Msgs, Dests))
    BY <2>1, <2>2
  <2>4. \A i \in 1..(Len(batches) + 1) : Packed(after[i], limit)
    <3> TAKE i \in 1..(Len(batches) + 1)
    <3>1. CASE i \in 1..Len(batches)
      BY <2>1, <3>1, <2>2 DEF WellPacked
    <3>2. CASE i = Len(batches) + 1
      BY <2>1, <3>2, <2>2
    <3> QED BY <3>1, <3>2, <1>0
  <2>5. DOMAIN after = 1..(Len(batches) + 1)
    BY <2>1, <2>2
  <2> QED BY <2>3, <2>4, <2>5 DEF WellPacked
<1>2. CASE Fitting # {}
  <2>1. PICK k \in Fitting : \A j \in Fitting : j <= k
    <3>1. Fitting \subseteq 1..Len(batches)
      BY <1>0
    <3> QED BY <3>1, <1>0, <1>2, LastOfSome
  <2>2. last \in Fitting
    BY <2>1
  <2>3. after = [batches EXCEPT ![last] = Joined(batches[last], m)]
    BY <1>2, <2>2 DEF push
  <2>4. batches[last] \in Batch(Msgs, Dests) /\ fits(batches[last], to, m, limit) /\ Packed(batches[last], limit)
    BY <2>2 DEF WellPacked
  <2>5. Joined(batches[last], m) \in Batch(Msgs, Dests) /\ Packed(Joined(batches[last], m), limit)
    BY <2>4, JoinedIsPacked
  <2>6. after \in Seq(Batch(Msgs, Dests)) /\ DOMAIN after = DOMAIN batches
    BY <2>2, <2>3, <2>5, <1>0
  <2>7. ASSUME NEW i \in DOMAIN batches PROVE Packed(after[i], limit)
    BY <2>2, <2>3, <2>5 DEF WellPacked
  <2> QED BY <2>6, <2>7 DEF WellPacked
<1> QED BY <1>1, <1>2

------------------------------------------------------------------------------
\* The inductive invariant

Fit == bounds \in Instances

\* What peer p puts on the wire: the host says what others said, too.
SaidBy(p) == {m \in Sayings(bounds) : m.sender = m.origin /\ (p = Host \/ m.origin = p)}
\* The peers linked to p with the protocol of p.
Alike(p) == {q \in Others(p) : ~Differs(p, q)}
\* What may be delivered to p once these peers are verified.
Readable(p, compared) ==
  {m \in Sayings(bounds) :
     /\ m.sender = m.origin
     /\ m.origin # p => IF p = Host THEN m.origin \in compared ELSE Host \in compared}
\* What of the broadcasts p received is not handled yet.
Envelopes(p) == {e \in [transport : Others(p), message : Sayings(bounds)] : e.message \in SaidBy(e.transport)}
Debts == [id : 0..bounds.sends, mode : SendModes, from : Peers, to : Peers]

Apps(p) ==
  [me : {p}, batches : Seq(Batch(SaidBy(p), Others(p))), puts : SUBSET Debts, drops : SUBSET Debts,
   end : [Others(p) -> {"none", "there", "gone"}], fresh : SUBSET Others(p),
   verified : SUBSET Others(p), matched : SUBSET Others(p),
   held : [Others(p) -> Seq(Sayings(bounds))],
   handshakes : Seq(Others(p)), envelopes : Seq(Envelopes(p)),
   delivered : [broadcast : Seq(Sayings(bounds)), direct : Seq(Sayings(bounds))]]

\* What a peer's world keeps to, inside a frame and between two.
Right(p, w) ==
  /\ w.verified \subseteq Alike(p) /\ w.matched \subseteq Alike(p)
  /\ \A q \in Others(p) : w.held[q] \in Seq(SaidBy(q))
  /\ \A q \in w.verified : w.held[q] = <<>>
  /\ \A q \in Alike(p) : w.end[q] # "gone"
  /\ \A q \in w.fresh \cap Alike(p) : w.end[q] = "there"
  /\ \A i \in DOMAIN w.envelopes : w.envelopes[i].transport \in w.verified
  /\ w.delivered.broadcast \in Seq(Readable(p, w.verified))
  /\ w.delivered.direct \in Seq(Readable(p, w.verified))
Good(p) == {w \in Apps(p) : Right(p, w) /\ WellPacked(w.batches, bounds.datagram)}

\* The handshake to q is in a batch.
Greets(b, q) ==
  b.to = q /\ b.mode = "Reliable" /\ \E m \in ToSet(b.packets) : m.kind = "handshake"
Greeted(w, q) == \E b \in ToSet(w.batches) : Greets(b, q)
\* What p's world does not lose while a frame works on it.
Gains(p, w, v) ==
  /\ v.fresh = w.fresh
  /\ \A q \in Alike(p) : v.end[q] = w.end[q]
  /\ w.verified \subseteq v.verified /\ w.matched \subseteq v.matched
  /\ ToSet(w.handshakes) \subseteq ToSet(v.handshakes)
  /\ \A q \in Others(p) : Greeted(w, q) => Greeted(v, q)
After(p, w) == {v \in Good(p) : Gains(p, w, v)}

------------------------------------------------------------------------------
\* The peers and what they say

\* The host's links are to the clients, and a client's is to the host.
LEMMA OthersAre ==
  ASSUME NEW p \in Peers
  PROVE  /\ Others(p) \subseteq Peers /\ p \notin Others(p) /\ IsFiniteSet(Others(p))
         /\ p = Host => Others(p) = Clients
         /\ p # Host => Others(p) = {Host}
         /\ \A q \in Others(p) : p \in Others(q)
<1>1. Host \notin Clients /\ IsFiniteSet(Clients)
  BY InstanceAssumption
<1>2. IsFiniteSet({Host})
  BY FS_Singleton
<1> QED
  BY <1>1, <1>2 DEF Others, Peers

\* The limits of the game.
LEMMA BoundsAre ==
  ASSUME Fit
  PROVE  /\ bounds.kinds \subseteq {"broadcast", "direct"} /\ bounds.modes \subseteq SendModes
         /\ bounds.sends \in Nat /\ bounds.burst \in Nat /\ bounds.datagram \in Nat
         /\ bounds.held_bytes \in Nat /\ bounds.sizes \subseteq Nat \ {0}
         /\ bounds.backlog \in Nat \ {0}
  BY InstanceAssumption DEF Fit

\* What is said is a message, of some size.
LEMMA SayingsAre ==
  ASSUME Fit, NEW p
  PROVE  AreMessages(SaidBy(p)) /\ AreMessages(Sayings(bounds)) /\ SaidBy(p) \subseteq Sayings(bounds)
<1>1. bounds.sizes \cup {2} \subseteq Nat
  BY BoundsAre
<1> QED
  BY <1>1 DEF AreMessages, SaidBy, Sayings

\* A peer's own word is its own.
LEMMA OwnWord ==
  ASSUME Fit, NEW p \in Peers, NEW kind \in {"handshake", "broadcast", "direct"},
         NEW id \in 0..bounds.sends, NEW mode \in SendModes, NEW size \in bounds.sizes \cup {2}
  PROVE  Message(kind, id, p, mode, size) \in SaidBy(p)
  BY DEF Message, SaidBy, Sayings

\* And so is its handshake.
LEMMA HandshakeIsSaid ==
  ASSUME Fit, NEW p \in Peers
  PROVE  Handshake(p) \in SaidBy(p)
<1>1. 0 \in 0..bounds.sends /\ "Reliable" \in SendModes
  BY BoundsAre DEF SendModes
<1> QED
  BY <1>1, OwnWord DEF Handshake

\* A client's messages are readable by the host once it is verified, anyone's by
\* a client once the host is.
LEMMA SaidIsReadable ==
  ASSUME NEW p \in Peers, NEW q \in Others(p), NEW m \in SaidBy(q), NEW compared, q \in compared
  PROVE  m \in Readable(p, compared)
<1>1. CASE p = Host
  BY <1>1, OthersAre, InstanceAssumption DEF SaidBy, Readable
<1>2. CASE p # Host
  BY <1>2, OthersAre DEF SaidBy, Readable
<1> QED
  BY <1>1, <1>2

\* What was readable stays so as more peers are verified.
LEMMA ReadableStays ==
  ASSUME NEW p, NEW a, NEW b, a \subseteq b
  PROVE  Seq(Readable(p, a)) \subseteq Seq(Readable(p, b))
<1>1. Readable(p, a) \subseteq Readable(p, b)
  BY DEF Readable
<1> QED
  BY <1>1

\* What is not lost at one step is not lost at the next.
LEMMA AfterAfter ==
  ASSUME NEW p, NEW w \in Good(p)
  PROVE  w \in After(p, w) /\ \A v \in After(p, w) : After(p, v) \subseteq After(p, w)
  BY DEF After, Gains

\* A change of nothing that is kept track of.
LEMMA NothingLost ==
  ASSUME NEW p, NEW w, NEW v, v.fresh = w.fresh, v.end = w.end, v.verified = w.verified,
         v.matched = w.matched, v.handshakes = w.handshakes, v.batches = w.batches
  PROVE  Gains(p, w, v)
  BY DEF Gains, Greeted

------------------------------------------------------------------------------
\* Loops

\* One more in a sequence.
LEMMA OneMore ==
  ASSUME NEW S, NEW s \in Seq(S), NEW x \in S
  PROVE  Append(s, x) \in Seq(S) /\ ToSet(Append(s, x)) = ToSet(s) \cup {x}
<1>1. Append(s, x) \in Seq(S) /\ Len(Append(s, x)) = Len(s) + 1 /\ Len(s) \in Nat
  OBVIOUS
<1>2. Append(s, x)[Len(s) + 1] = x /\ \A i \in 1..Len(s) : Append(s, x)[i] = s[i]
  OBVIOUS
<1>3. DOMAIN s = 1..Len(s) /\ DOMAIN Append(s, x) = 1..(Len(s) + 1)
  BY <1>1
<1>4. \A i \in 1..(Len(s) + 1) : i \in 1..Len(s) \/ i = Len(s) + 1
  BY <1>1
<1>5. Len(s) + 1 \in 1..(Len(s) + 1) /\ \A i \in 1..Len(s) : i \in 1..(Len(s) + 1)
  BY <1>1
<1> QED
  BY <1>1, <1>2, <1>3, <1>4, <1>5 DEF ToSet

------------------------------------------------------------------------------
\* Reading

\* A handshake is always read, another message once its sender is verified.
LEMMA DispatchStays ==
  ASSUME Fit, NEW p \in Peers, NEW q \in Others(p), NEW w \in Good(p), NEW m \in SaidBy(q),
         m.kind = "handshake" \/ q \in w.verified
  PROVE  dispatch_message(w, q, m) \in After(p, w)
<1>1. m \in Sayings(bounds) /\ m.kind \in {"handshake", "broadcast", "direct"}
  BY SayingsAre DEF Sayings
<1>2. w \in Apps(p) /\ Right(p, w) /\ WellPacked(w.batches, bounds.datagram)
  BY DEF Good
<1>3. CASE m.kind = "handshake"
  <2> DEFINE h == Append(w.handshakes, q)
             v == [w EXCEPT !.handshakes = h]
  <2>1. dispatch_message(w, q, m) = v
    BY <1>3 DEF dispatch_message
  <2>2. h \in Seq(Others(p)) /\ ToSet(w.handshakes) \subseteq ToSet(h)
    <3>1. w.handshakes \in Seq(Others(p))
      BY <1>2 DEF Apps
    <3> QED BY <3>1, OneMore
  <2> HIDE DEF h
  <2>3. v \in Apps(p)
    BY <1>2, <2>2 DEF Apps
  <2>4. Right(p, v) /\ v.batches = w.batches
    BY <1>2 DEF Right, Apps
  <2>5. Gains(p, w, v)
    BY <1>2, <2>2 DEF Gains, Greeted, Apps
  <2> QED
    BY <1>2, <2>1, <2>3, <2>4, <2>5 DEF Good, After
<1>4. CASE m.kind = "broadcast"
  <2> DEFINE e == [transport |-> q, message |-> m]
             h == Append(w.envelopes, e)
             v == [w EXCEPT !.envelopes = h]
  <2>1. dispatch_message(w, q, m) = v
    BY <1>4 DEF dispatch_message
  <2>2. w.envelopes \in Seq(Envelopes(p)) /\ e \in Envelopes(p) /\ e.transport \in w.verified
    BY <1>1, <1>2, <1>4 DEF Apps, Envelopes
  <2> HIDE DEF e
  <2>3. h \in Seq(Envelopes(p))
    BY <2>2
  <2>4. \A i \in DOMAIN h : h[i].transport \in w.verified
    <3>1. \A i \in DOMAIN w.envelopes : w.envelopes[i].transport \in w.verified
      BY <1>2 DEF Right
    <3>2. \A i \in DOMAIN h : (i \in DOMAIN w.envelopes /\ h[i] = w.envelopes[i]) \/ h[i] = e
      BY <2>2
    <3> QED BY <2>2, <3>1, <3>2
  <2> HIDE DEF h
  <2>5. v \in Apps(p)
    BY <1>2, <2>3 DEF Apps
  <2>6. Right(p, v) /\ v.batches = w.batches
    BY <1>2, <2>4 DEF Right, Apps
  <2>7. Gains(p, w, v)
    BY <1>2, NothingLost DEF Apps
  <2> QED
    BY <1>2, <2>1, <2>5, <2>6, <2>7 DEF Good, After
<1>5. CASE m.kind = "direct"
  <2> DEFINE d == Append(w.delivered.direct, m)
             v == [w EXCEPT !.delivered.direct = d]
  <2>1. dispatch_message(w, q, m) = v
    BY <1>5 DEF dispatch_message
  <2>2. m \in Readable(p, w.verified)
    BY <1>5, SaidIsReadable
  <2>3. d \in Seq(Readable(p, w.verified)) /\ d \in Seq(Sayings(bounds))
    <3>1. w.delivered.direct \in Seq(Readable(p, w.verified)) /\ w.delivered.direct \in Seq(Sayings(bounds))
      BY <1>2 DEF Right, Apps
    <3> QED BY <1>1, <2>2, <3>1
  <2> DEFINE r == [w.delivered EXCEPT !.direct = d]
  <2>4. v = [w EXCEPT !.delivered = r]
    OBVIOUS
  <2> HIDE DEF d
  <2>5. /\ r \in [broadcast : Seq(Sayings(bounds)), direct : Seq(Sayings(bounds))]
        /\ r.direct = d /\ r.broadcast = w.delivered.broadcast
    BY <1>2, <2>3 DEF Apps
  <2> HIDE DEF r, v
  <2>6. v \in Apps(p)
    BY <1>2, <2>4, <2>5 DEF Apps
  <2>7. Right(p, v) /\ v.batches = w.batches
    BY <1>2, <2>3, <2>4, <2>5 DEF Right, Apps
  <2>8. Gains(p, w, v)
    BY <1>2, <2>4, NothingLost DEF Apps
  <2> QED
    BY <1>2, <2>1, <2>6, <2>7, <2>8 DEF Good, After
<1> QED
  BY <1>1, <1>3, <1>4, <1>5

\* A handshake is heard.
LEMMA DispatchHears ==
  ASSUME NEW p \in Peers, NEW q \in Others(p), NEW w \in Good(p), NEW m, m.kind = "handshake"
  PROVE  q \in ToSet(dispatch_message(w, q, m).handshakes)
<1>1. w.handshakes \in Seq(Others(p)) /\ w \in Apps(p)
  BY DEF Good, Apps
<1>2. dispatch_message(w, q, m).handshakes = Append(w.handshakes, q)
  BY <1>1 DEF dispatch_message, Apps
<1> QED
  BY <1>1, <1>2, OneMore

\* A peer of the same protocol becomes verified, and what was held of it is read,
\* in the order it was held.
LEMMA VerifyStays ==
  ASSUME Fit, NEW p \in Peers, NEW w \in Good(p), NEW q \in Alike(p)
  PROVE  Verify(w, q) \in After(p, w) /\ q \in Verify(w, q).verified
<1>0. SUFFICES ASSUME ~peer_is_verified(w, q)
      PROVE  /\ replay_held_packets([w EXCEPT !.verified = @ \cup {q}], q) \in After(p, w)
             /\ q \in replay_held_packets([w EXCEPT !.verified = @ \cup {q}], q).verified
  BY AfterAfter DEF Verify, peer_is_verified
<1> DEFINE vs == w.verified \cup {q}
           seen == [w EXCEPT !.verified = vs]
<1> DEFINE S == {v \in After(p, w) : q \in v.verified}
           s == seen.held[q]
           n == Len(s)
           b == [seen EXCEPT !.held[q] = <<>>]
           step == [i \in 1..n |-> [a \in S |-> dispatch_message(a, q, s[i])]]
           so[i \in 0..Len(s)] == IF i = 0 THEN b ELSE dispatch_message(so[i - 1], q, s[i])
<1>w. w \in Apps(p) /\ Right(p, w) /\ WellPacked(w.batches, bounds.datagram) /\ q \in Others(p)
  BY DEF Good, Alike
<1>1. s \in Seq(SaidBy(q)) /\ n \in Nat
  <2>1. s = w.held[q]
    BY <1>w DEF Apps
  <2> HIDE DEF s
  <2> QED BY <1>w, <2>1 DEF Right
<1>2. b \in S
  <2> DEFINE h == [w.held EXCEPT ![q] = <<>>]
  <2>1. vs \subseteq Alike(p) /\ vs \subseteq Others(p) /\ w.verified \subseteq vs /\ q \in vs
    BY <1>w DEF Right, Apps
  <2>2. /\ h \in [Others(p) -> Seq(Sayings(bounds))]
        /\ \A x \in Others(p) : h[x] \in Seq(SaidBy(x))
        /\ \A x \in vs : h[x] = <<>>
    BY <1>w DEF Apps, Right
  <2>3. b = [w EXCEPT !.verified = vs, !.held = h]
    BY <1>w DEF Apps
  <2> HIDE DEF h, vs, b
  <2>4. b \in Apps(p)
    BY <1>w, <2>1, <2>2, <2>3 DEF Apps
  <2>5. /\ b.verified = vs /\ b.held = h /\ b.batches = w.batches /\ b.end = w.end /\ b.fresh = w.fresh
        /\ b.matched = w.matched /\ b.envelopes = w.envelopes /\ b.delivered = w.delivered
        /\ b.handshakes = w.handshakes
    BY <1>w, <2>3 DEF Apps
  <2>6. /\ w.delivered.broadcast \in Seq(Readable(p, vs))
        /\ w.delivered.direct \in Seq(Readable(p, vs))
    BY <1>w, <2>1, ReadableStays DEF Right
  <2>7. \A i \in DOMAIN w.envelopes : w.envelopes[i].transport \in vs
    BY <1>w, <2>1 DEF Right
  <2>8. Right(p, b)
    BY <1>w, <2>1, <2>2, <2>5, <2>6, <2>7 DEF Right
  <2>9. Gains(p, w, b)
    BY <2>1, <2>5 DEF Gains, Greeted
  <2> QED
    BY <1>w, <2>1, <2>4, <2>5, <2>8, <2>9 DEF Good, After
<1>3. \A i \in 1..n : \A v \in S : dispatch_message(v, q, s[i]) \in S
  <2> TAKE i \in 1..n
  <2> TAKE v \in S
  <2>1. s[i] \in SaidBy(q)
    BY <1>1
  <2>2. v \in After(p, w) /\ v \in Good(p) /\ q \in v.verified
    BY DEF After
  <2>3. dispatch_message(v, q, s[i]) \in After(p, v)
    <3> HIDE DEF s
    <3> QED BY <1>w, <2>1, <2>2, DispatchStays
  <2>4. q \in dispatch_message(v, q, s[i]).verified
    BY <2>2, <2>3 DEF After, Gains
  <2> HIDE DEF s
  <2> QED
    BY <2>2, <2>3, <2>4, AfterAfter
<1>4. replay_held_packets(seen, q) = so[n]
  BY DEF replay_held_packets, InTurn
<1> HIDE DEF S, s, b
<1>5. PICK f \in [0..n -> S] : Follows(f, b, n, step)
  <2>1. step \in [1..n -> [S -> S]]
    BY <1>3
  <2> HIDE DEF step, n
  <2> QED BY <1>1, <1>2, <2>1, Folds
<1>6. f = [i \in 0..n |-> IF i = 0 THEN b ELSE dispatch_message(f[i - 1], q, s[i])]
  <2>1. ASSUME NEW i \in 0..n, i # 0 PROVE f[i] = dispatch_message(f[i - 1], q, s[i])
    <3>1. i \in 1..n /\ f[i - 1] \in S
      <4> HIDE DEF step, n
      <4> QED BY <1>1, <1>5, <2>1
    <3>2. f[i] = step[i][f[i - 1]]
      BY <1>5, <3>1 DEF Follows
    <3> QED BY <3>1, <3>2
  <2> HIDE DEF step
  <2> QED BY <1>5, <2>1 DEF Follows
<1>7. so = [i \in 0..n |-> IF i = 0 THEN b ELSE dispatch_message(so[i - 1], q, s[i])]
  BY <1>6
<1> HIDE DEF so, step, n
<1>8. so[n] \in S
  <2>1. so[0] \in S
    BY <1>1, <1>2, <1>7
  <2>2. ASSUME NEW i \in 1..n, so[i - 1] \in S PROVE so[i] \in S
    <3>1. so[i] = dispatch_message(so[i - 1], q, s[i])
      BY <1>1, <1>7
    <3> QED BY <1>3, <2>2, <3>1
  <2> QED BY <1>1, <2>1, <2>2, StaysAlong
<1> QED
  BY <1>4, <1>8 DEF S

------------------------------------------------------------------------------
\* Sending

\* A batch that holds a handshake still does with another message, and one the
\* handshake is added to does.
LEMMA JoinedGreets ==
  ASSUME Fit, NEW p, NEW q, NEW b \in Batch(SaidBy(p), Others(p)), NEW m \in SaidBy(p)
  PROVE  /\ Greets(b, q) => Greets(Joined(b, m), q)
         /\ b.to = q /\ b.mode = "Reliable" /\ m.kind = "handshake" => Greets(Joined(b, m), q)
<1>1. b.packets \in Seq(SaidBy(p))
  BY DEF Batch
<1>2. ToSet(Append(b.packets, m)) = ToSet(b.packets) \cup {m}
  BY <1>1, OneMore
<1>3. Joined(b, m).packets = Append(b.packets, m) /\ Joined(b, m).to = b.to /\ Joined(b, m).mode = b.mode
  BY DEF Joined
<1> QED
  BY <1>2, <1>3 DEF Greets

\* Pushing takes no handshake out, and puts one in.
LEMMA PushGreets ==
  ASSUME Fit, NEW p \in Peers, NEW q \in Others(p), NEW m \in SaidBy(p),
         NEW batches \in Seq(Batch(SaidBy(p), Others(p)))
  PROVE  LET after == push(batches, q, m, bounds.datagram)
         IN /\ \A x \in Others(p) : (\E b \in ToSet(batches) : Greets(b, x)) => \E b \in ToSet(after) : Greets(b, x)
            /\ m.kind = "handshake" /\ m.mode = "Reliable" => \E b \in ToSet(after) : Greets(b, q)
<1> DEFINE S == Batch(SaidBy(p), Others(p))
           Fitting == {i \in DOMAIN batches : fits(batches[i], q, m, bounds.datagram)}
           last == CHOOSE i \in Fitting : \A j \in Fitting : j <= i
           after == push(batches, q, m, bounds.datagram)
<1>0. AreMessages(SaidBy(p)) /\ bounds.datagram \in Nat /\ DOMAIN batches = 1..Len(batches) /\ Len(batches) \in Nat
  BY SayingsAre, BoundsAre
<1>1. CASE Fitting = {}
  <2> DEFINE new == NewBatch(q, m)
  <2>1. after = Append(batches, new)
    BY <1>1 DEF push
  <2>2. new \in S
    BY <1>0, AloneIsPacked
  <2>3. m.kind = "handshake" /\ m.mode = "Reliable" => Greets(new, q)
    <3>1. m \in ToSet(<<m>>)
      BY DEF ToSet
    <3>2. new.to = q /\ new.mode = m.mode /\ new.packets = <<m>>
      BY DEF NewBatch
    <3> QED BY <3>1, <3>2 DEF Greets
  <2> HIDE DEF S, new, after
  <2>4. ToSet(after) = ToSet(batches) \cup {new}
    BY <2>1, <2>2, OneMore DEF S
  <2> QED BY <2>3, <2>4 DEF after
<1>2. CASE Fitting # {}
  <2>1. PICK k \in Fitting : \A j \in Fitting : j <= k
    <3>1. Fitting \subseteq 1..Len(batches)
      BY <1>0
    <3> QED BY <3>1, <1>0, <1>2, LastOfSome
  <2>2. last \in Fitting
    BY <2>1
  <2> DEFINE b == batches[last]
             c == Joined(b, m)
  <2>3. after = [batches EXCEPT ![last] = c]
    BY <1>2, <2>2 DEF push
  <2>4. last \in DOMAIN batches /\ b \in S /\ b.to = q /\ b.mode = m.mode
    <3>1. last \in DOMAIN batches /\ fits(b, q, m, bounds.datagram)
      BY <2>2
    <3> HIDE DEF Fitting, last, S
    <3>2. b \in S
      BY <3>1 DEF S
    <3> QED BY <3>1, <3>2 DEF fits
  <2> HIDE DEF Fitting, last, after
  <2>5. c \in ToSet(after)
    <3>1. last \in DOMAIN after /\ after[last] = c
      BY <2>3, <2>4
    <3> HIDE DEF c
    <3> QED BY <3>1 DEF ToSet
  <2>6. ASSUME NEW x \in ToSet(batches) PROVE x = b \/ x \in ToSet(after)
    <3>1. PICK i \in DOMAIN batches : x = batches[i]
      BY DEF ToSet
    <3>2. i # last => i \in DOMAIN after /\ after[i] = x
      BY <2>3, <3>1
    <3> HIDE DEF c
    <3> QED BY <3>1, <3>2 DEF ToSet
  <2>7. /\ \A x : Greets(b, x) => Greets(c, x)
        /\ m.kind = "handshake" /\ m.mode = "Reliable" => Greets(c, q)
    <3> HIDE DEF b
    <3> QED BY <2>4, JoinedGreets DEF S
  <2> HIDE DEF b, c, S
  <2> QED BY <2>5, <2>6, <2>7 DEF after
<1> QED
  BY <1>1, <1>2

\* Pushing a message keeps the batches a peer's own, and packed by the rules.
LEMMA EncodeOneStays ==
  ASSUME Fit, NEW p \in Peers, NEW q \in Others(p), NEW w \in Good(p), NEW m \in SaidBy(p)
  PROVE  /\ encode_lobby_client_message(w, q, m) \in After(p, w)
         /\ m.kind = "handshake" /\ m.mode = "Reliable" => Greeted(encode_lobby_client_message(w, q, m), q)
<1> DEFINE bs == push(w.batches, q, m, bounds.datagram)
           ps == w.puts \cup (IF m.kind = "handshake" THEN {} ELSE {Owed(m, w.me, q)})
           v == [w EXCEPT !.batches = bs, !.puts = ps]
<1>1. w \in Apps(p) /\ Right(p, w) /\ WellPacked(w.batches, bounds.datagram) /\ w.me = p
  BY DEF Good, Apps
<1>2. encode_lobby_client_message(w, q, m) = v
  BY DEF encode_lobby_client_message
<1>3. bs \in Seq(Batch(SaidBy(p), Others(p))) /\ WellPacked(bs, bounds.datagram)
  <2>1. w.batches \in Seq(Batch(SaidBy(p), Others(p))) /\ bounds.datagram \in Nat /\ AreMessages(SaidBy(p))
    BY <1>1, BoundsAre, SayingsAre DEF Apps
  <2> QED BY <1>1, <2>1, PushKeepsThePacking
<1>4. ps \in SUBSET Debts
  <2>1. m.id \in 0..bounds.sends /\ m.mode \in SendModes
    BY DEF SaidBy, Sayings
  <2>2. Owed(m, w.me, q) \in Debts
    BY <1>1, <2>1, OthersAre DEF Owed, Debts
  <2>3. w.puts \in SUBSET Debts
    BY <1>1 DEF Apps
  <2> QED BY <2>2, <2>3
<1> HIDE DEF bs, ps
<1>5. v \in Apps(p)
  BY <1>1, <1>3, <1>4 DEF Apps
<1>6. Right(p, v) /\ v.batches = bs
  BY <1>1 DEF Right, Apps
<1>7. /\ \A x \in Others(p) : Greeted(w, x) => Greeted(v, x)
      /\ m.kind = "handshake" /\ m.mode = "Reliable" => Greeted(v, q)
  <2>1. w.batches \in Seq(Batch(SaidBy(p), Others(p)))
    BY <1>1 DEF Apps
  <2> HIDE DEF v
  <2> QED BY <1>6, <2>1, PushGreets DEF Greeted, bs
<1>8. Gains(p, w, v)
  BY <1>1, <1>7 DEF Gains, Apps
<1> HIDE DEF v
<1> QED
  BY <1>2, <1>3, <1>5, <1>6, <1>7, <1>8 DEF Good, After

\* A finite set can be listed.
LEMMA ListedOnce ==
  ASSUME NEW T, IsFiniteSet(T)
  PROVE  SetToSeq(T) \in Seq(T) /\ ToSet(SetToSeq(T)) = T
<1> DEFINE n == Cardinality(T)
           g == SetToSeq(T)
<1>1. n \in Nat /\ \E f \in [1..n -> T] : IsInjective(f)
  BY Listings
<1>2. g \in [1..n -> T] /\ IsInjective(g)
  BY <1>1 DEF SetToSeq
<1>3. g \in Seq(T) /\ Range(g) = T
  BY <1>2, Listings
<1> HIDE DEF g
<1> QED
  BY <1>3 DEF ToSet, Range, g

\* To everyone who is there.
LEMMA EncodeAllStays ==
  ASSUME Fit, NEW p \in Peers, NEW w \in Good(p), NEW m \in SaidBy(p)
  PROVE  encode_lobby_message(w, m) \in After(p, w)
<1> DEFINE S == After(p, w)
           s == SetToSeq(Others(w.me))
           n == Len(s)
           b == w
           one(v, i) ==
             IF v.end[s[i]] = "there" THEN encode_lobby_client_message(v, s[i], m) ELSE v
           step == [i \in 1..n |-> [a \in S |-> one(a, i)]]
           so[i \in 0..Len(s)] == IF i = 0 THEN b ELSE one(so[i - 1], i)
<1>1. s \in Seq(Others(p)) /\ n \in Nat
  <2>1. w.me = p
    BY DEF Good, Apps
  <2>2. IsFiniteSet(Others(p))
    BY OthersAre
  <2> QED BY <2>1, <2>2, ListedOnce
<1>2. b \in S
  BY AfterAfter
<1>3. \A i \in 1..n : \A v \in S : one(v, i) \in S
  <2> TAKE i \in 1..n
  <2> TAKE v \in S
  <2>1. s[i] \in Others(p)
    BY <1>1
  <2>2. v \in After(p, w) /\ v \in Good(p)
    BY DEF After
  <2>3. encode_lobby_client_message(v, s[i], m) \in After(p, v)
    <3> HIDE DEF s
    <3> QED BY <2>1, <2>2, EncodeOneStays
  <2> HIDE DEF s
  <2> QED
    BY <2>2, <2>3, AfterAfter
<1>4. encode_lobby_message(w, m) = so[n]
  BY DEF encode_lobby_message, InTurn
<1> HIDE DEF S, s, b
<1>5. PICK f \in [0..n -> S] : Follows(f, b, n, step)
  <2>1. step \in [1..n -> [S -> S]]
    BY <1>3
  <2> HIDE DEF step, n
  <2> QED BY <1>1, <1>2, <2>1, Folds
<1>6. f = [i \in 0..n |-> IF i = 0 THEN b ELSE one(f[i - 1], i)]
  <2>1. ASSUME NEW i \in 0..n, i # 0 PROVE f[i] = one(f[i - 1], i)
    <3>1. i \in 1..n /\ f[i - 1] \in S
      <4> HIDE DEF step, n
      <4> QED BY <1>1, <1>5, <2>1
    <3>2. f[i] = step[i][f[i - 1]]
      BY <1>5, <3>1 DEF Follows
    <3> QED BY <3>1, <3>2
  <2> HIDE DEF step
  <2> QED BY <1>5, <2>1 DEF Follows
<1>7. so = [i \in 0..n |-> IF i = 0 THEN b ELSE one(so[i - 1], i)]
  BY <1>6
<1> HIDE DEF so, step, n, one
<1>8. so[n] \in S
  <2>1. so[0] \in S
    BY <1>1, <1>2, <1>7
  <2>2. ASSUME NEW i \in 1..n, so[i - 1] \in S PROVE so[i] \in S
    <3>1. so[i] = one(so[i - 1], i)
      BY <1>1, <1>7
    <3> QED BY <1>3, <2>2, <3>1
  <2> QED BY <1>1, <2>1, <2>2, StaysAlong
<1> QED
  BY <1>4, <1>8 DEF S

\* The host's own broadcast is also delivered to itself.
LEMMA DeliverStays ==
  ASSUME Fit, NEW p \in Peers, NEW w \in Good(p), NEW m \in Readable(p, w.verified)
  PROVE  LET v == [w EXCEPT !.delivered.broadcast = Append(@, m)]
         IN  v \in After(p, w)
<1> DEFINE d == Append(w.delivered.broadcast, m)
           r == [w.delivered EXCEPT !.broadcast = d]
           v == [w EXCEPT !.delivered = r]
<1>1. w \in Apps(p) /\ Right(p, w) /\ WellPacked(w.batches, bounds.datagram)
  BY DEF Good
<1>2. d \in Seq(Readable(p, w.verified)) /\ d \in Seq(Sayings(bounds))
  <2>1. w.delivered.broadcast \in Seq(Readable(p, w.verified)) /\ w.delivered.broadcast \in Seq(Sayings(bounds))
    BY <1>1 DEF Right, Apps
  <2>2. m \in Sayings(bounds)
    BY DEF Readable
  <2> QED BY <2>1, <2>2
<1> HIDE DEF d
<1>3. /\ r \in [broadcast : Seq(Sayings(bounds)), direct : Seq(Sayings(bounds))]
      /\ r.broadcast = d /\ r.direct = w.delivered.direct
  BY <1>1, <1>2 DEF Apps
<1>4. [w EXCEPT !.delivered.broadcast = Append(@, m)] = v
  BY DEF d
<1> HIDE DEF r, v
<1>5. v = [w EXCEPT !.delivered = r]
  BY DEF v
<1>6. v \in Apps(p)
  BY <1>1, <1>3, <1>5 DEF Apps
<1>7. Right(p, v) /\ v.batches = w.batches
  BY <1>1, <1>2, <1>3, <1>5 DEF Right, Apps
<1>8. Gains(p, w, v)
  BY <1>1, <1>5, NothingLost DEF Apps
<1> QED
  BY <1>1, <1>4, <1>6, <1>7, <1>8 DEF Good, After

\* What a peer says itself it may read.
LEMMA OwnIsReadable ==
  ASSUME NEW p, NEW m \in SaidBy(p), m.origin = p, NEW compared
  PROVE  m \in Readable(p, compared)
  BY DEF SaidBy, Readable

\* What the game says goes into the batches, and to the host's own game.
LEMMA SendStays ==
  ASSUME Fit, NEW p \in Peers, NEW w \in Good(p), NEW m \in SaidBy(p), m.origin = p
  PROVE  send(w, m) \in After(p, w)
<1>1. w.me = p
  BY DEF Good, Apps
<1>2. encode_broadcast_message(w, m) \in After(p, w)
  <2> DEFINE v == [w EXCEPT !.delivered.broadcast = Append(@, m)]
  <2>1. m \in Readable(p, w.verified)
    BY OwnIsReadable
  <2>2. v \in After(p, w)
    BY <2>1, DeliverStays
  <2> HIDE DEF v
  <2>3. CASE w.me = Host
    <3>1. encode_broadcast_message(w, m) = encode_lobby_message(v, m)
      BY <2>3 DEF encode_broadcast_message, v
    <3>2. v \in Good(p)
      BY <2>2 DEF After
    <3>3. encode_lobby_message(v, m) \in After(p, v)
      BY <3>2, EncodeAllStays
    <3> QED BY <2>2, <3>1, <3>3, AfterAfter
  <2>4. CASE w.me # Host
    <3>1. encode_broadcast_message(w, m) = encode_lobby_message(w, m)
      BY <2>4 DEF encode_broadcast_message
    <3> QED BY <3>1, EncodeAllStays
  <2> QED BY <2>3, <2>4
<1>3. encode_lobby_message(w, m) \in After(p, w)
  BY EncodeAllStays
<1> QED
  BY <1>2, <1>3, AfterAfter DEF send

\* The handshake goes to whoever appeared.
LEMMA AnnounceStays ==
  ASSUME Fit, NEW p \in Peers, NEW w \in Good(p)
  PROVE  /\ announce_protocol(w) \in After(p, w)
         /\ \A q \in w.fresh : Greeted(announce_protocol(w), q)
<1> DEFINE S == After(p, w)
           s == SetToSeq(w.fresh)
           n == Len(s)
           b == w
           step == [i \in 1..n |-> [a \in S |-> encode_lobby_client_message(a, s[i], Handshake(a.me))]]
           so[i \in 0..Len(s)] == IF i = 0 THEN b ELSE encode_lobby_client_message(so[i - 1], s[i], Handshake(so[i - 1].me))
           J == [i \in 0..n |-> {v \in S : \A k \in 1..i : Greeted(v, s[k])}]
<1>1. s \in Seq(Others(p)) /\ n \in Nat /\ \A q \in w.fresh : \E i \in 1..n : s[i] = q
  <2>1. w.fresh \subseteq Others(p)
    BY DEF Good, Apps
  <2>2. IsFiniteSet(w.fresh)
    BY <2>1, OthersAre, FS_Subset
  <2>3. s \in Seq(w.fresh) /\ ToSet(s) = w.fresh
    BY <2>2, ListedOnce
  <2>4. DOMAIN s = 1..n
    BY <2>3
  <2> HIDE DEF s
  <2> QED BY <2>1, <2>3, <2>4 DEF ToSet
<1>2. b \in S
  BY AfterAfter
<1>H. ASSUME NEW i \in 1..n, NEW v \in S
      PROVE  /\ encode_lobby_client_message(v, s[i], Handshake(v.me)) \in After(p, v)
             /\ encode_lobby_client_message(v, s[i], Handshake(v.me)) \in S
             /\ Greeted(encode_lobby_client_message(v, s[i], Handshake(v.me)), s[i])
  <2>1. s[i] \in Others(p)
    BY <1>1
  <2>2. v \in After(p, w) /\ v \in Good(p) /\ v.me = p
    BY DEF After, Good, Apps
  <2>3. Handshake(p) \in SaidBy(p) /\ Handshake(p).kind = "handshake" /\ Handshake(p).mode = "Reliable"
    BY HandshakeIsSaid DEF Handshake, Message
  <2> HIDE DEF s
  <2>4. /\ encode_lobby_client_message(v, s[i], Handshake(p)) \in After(p, v)
        /\ Greeted(encode_lobby_client_message(v, s[i], Handshake(p)), s[i])
    BY <2>1, <2>2, <2>3, EncodeOneStays
  <2> QED
    BY <2>2, <2>4, AfterAfter
<1>3. \A i \in 1..n : \A v \in S : encode_lobby_client_message(v, s[i], Handshake(v.me)) \in S
  BY <1>H
<1>J0. b \in J[0]
  BY <1>1, <1>2
<1>J1. \A i \in 1..n : \A v \in J[i - 1] : encode_lobby_client_message(v, s[i], Handshake(v.me)) \in J[i]
  <2> SUFFICES ASSUME NEW i \in 1..n, NEW v \in J[i - 1] PROVE encode_lobby_client_message(v, s[i], Handshake(v.me)) \in J[i]
    OBVIOUS
  <2> DEFINE u == encode_lobby_client_message(v, s[i], Handshake(v.me))
  <2>1. i - 1 \in 0..n /\ i \in 0..n
    BY <1>1
  <2>2. v \in S /\ \A k \in 1..(i - 1) : Greeted(v, s[k])
    BY <2>1
  <2>3. u \in S /\ Greeted(u, s[i]) /\ Gains(p, v, u)
    BY <1>H, <2>2 DEF After
  <2>4. \A k \in 1..i : k \in 1..(i - 1) \/ k = i
    BY <1>1
  <2>5. \A k \in 1..n : s[k] \in Others(p)
    BY <1>1
  <2> HIDE DEF u, s
  <2>6. ASSUME NEW k \in 1..i PROVE Greeted(u, s[k])
    <3>1. k \in 1..n
      BY <1>1
    <3> QED BY <2>2, <2>3, <2>4, <2>5, <3>1 DEF Gains
  <2> QED BY <2>1, <2>3, <2>6 DEF u
<1>4. announce_protocol(w) = so[n]
  BY DEF announce_protocol, InTurn
<1> HIDE DEF S, s, b, J
<1>5. PICK f \in [0..n -> S] : Follows(f, b, n, step)
  <2>1. step \in [1..n -> [S -> S]]
    BY <1>3
  <2> HIDE DEF step, n
  <2> QED BY <1>1, <1>2, <2>1, Folds
<1>6. f = [i \in 0..n |-> IF i = 0 THEN b ELSE encode_lobby_client_message(f[i - 1], s[i], Handshake(f[i - 1].me))]
  <2>1. ASSUME NEW i \in 0..n, i # 0 PROVE f[i] = encode_lobby_client_message(f[i - 1], s[i], Handshake(f[i - 1].me))
    <3>1. i \in 1..n /\ f[i - 1] \in S
      <4> HIDE DEF step, n
      <4> QED BY <1>1, <1>5, <2>1
    <3>2. f[i] = step[i][f[i - 1]]
      BY <1>5, <3>1 DEF Follows
    <3> QED BY <3>1, <3>2
  <2> HIDE DEF step
  <2> QED BY <1>5, <2>1 DEF Follows
<1>7. so = [i \in 0..n |-> IF i = 0 THEN b ELSE encode_lobby_client_message(so[i - 1], s[i], Handshake(so[i - 1].me))]
  BY <1>6
<1> HIDE DEF so, step, n
<1>8. so[n] \in J[n]
  <2>1. so[0] \in J[0]
    BY <1>1, <1>7, <1>J0
  <2>2. ASSUME NEW i \in 1..n, so[i - 1] \in J[i - 1] PROVE so[i] \in J[i]
    <3>1. so[i] = encode_lobby_client_message(so[i - 1], s[i], Handshake(so[i - 1].me))
      BY <1>1, <1>7
    <3> QED BY <1>J1, <2>2, <3>1
  <2> QED BY <1>1, <2>1, <2>2, GrowsAlong
<1>9. so[n] \in S /\ \A k \in 1..n : Greeted(so[n], s[k])
  BY <1>1, <1>8 DEF J
<1> QED
  BY <1>1, <1>4, <1>9 DEF S

------------------------------------------------------------------------------
\* Holding, and a packet read

\* What is held of a peer is its own, whatever had to go for it.
LEMMA HoldStays ==
  ASSUME Fit, NEW p \in Peers, NEW q \in Others(p), NEW w \in Good(p), NEW m \in SaidBy(q),
         q \notin w.verified
  PROVE  hold(w, q, m) \in After(p, w)
<1> DEFINE all == Append(w.held[q], m)
           Roomy == {i \in DOMAIN all : i = Len(all) \/ SizeOf(SubSeq(all, i, Len(all))) <= bounds.held_bytes}
           first == CHOOSE i \in Roomy : \A j \in Roomy : i <= j
           rest == SubSeq(all, first, Len(all))
           h == [w.held EXCEPT ![q] = rest]
           ds == w.drops \cup {Owed(all[i], q, w.me) : i \in 1..(first - 1)}
           v == [w EXCEPT !.held = h, !.drops = ds]
<1>1. w \in Apps(p) /\ Right(p, w) /\ WellPacked(w.batches, bounds.datagram) /\ w.me = p
  BY DEF Good, Apps
<1>2. all \in Seq(SaidBy(q)) /\ Len(all) \in Nat \ {0} /\ DOMAIN all = 1..Len(all)
  <2>1. w.held[q] \in Seq(SaidBy(q))
    BY <1>1 DEF Right
  <2> QED BY <2>1
<1>3. hold(w, q, m) = v
  BY DEF hold
<1> HIDE DEF all
<1>4. first \in 1..Len(all)
  <2>1. Roomy \in SUBSET Nat /\ Roomy # {} /\ Roomy \subseteq 1..Len(all)
    BY <1>2
  <2>2. \E i \in Roomy : \A j \in Roomy : i <= j
    <3> HIDE DEF Roomy
    <3> QED BY <2>1, LeastNumber
  <2> HIDE DEF Roomy
  <2> QED BY <2>1, <2>2
<1> HIDE DEF first
<1>5. rest \in Seq(SaidBy(q))
  BY <1>2, <1>4, SubSeqProperties
<1> HIDE DEF rest
<1>6. /\ h \in [Others(p) -> Seq(Sayings(bounds))]
      /\ \A x \in Others(p) : h[x] \in Seq(SaidBy(x))
      /\ \A x \in w.verified : h[x] = <<>>
  <2>1. rest \in Seq(Sayings(bounds))
    BY <1>5, SayingsAre
  <2> QED BY <1>1, <1>5, <2>1 DEF Apps, Right
<1>7. ds \in SUBSET Debts
  <2>1. ASSUME NEW i \in 1..(first - 1) PROVE Owed(all[i], q, w.me) \in Debts
    <3>1. all[i] \in SaidBy(q)
      BY <1>2, <1>4
    <3>2. all[i].id \in 0..bounds.sends /\ all[i].mode \in SendModes
      BY <3>1 DEF SaidBy, Sayings
    <3> QED BY <1>1, <3>2, OthersAre DEF Owed, Debts
  <2>2. w.drops \in SUBSET Debts
    BY <1>1 DEF Apps
  <2> QED BY <2>1, <2>2
<1> HIDE DEF h, ds
<1>8. v \in Apps(p)
  BY <1>1, <1>6, <1>7 DEF Apps
<1>9. Right(p, v) /\ v.batches = w.batches
  BY <1>1, <1>6 DEF Right, Apps
<1>10. Gains(p, w, v)
  BY <1>1, NothingLost DEF Apps
<1> QED
  BY <1>1, <1>3, <1>8, <1>9, <1>10 DEF Good, After

\* What is dropped of a peer is written down and changes nothing else.
LEMMA DropStays ==
  ASSUME NEW p \in Peers, NEW w \in Good(p), NEW ds \in SUBSET Debts
  PROVE  [w EXCEPT !.drops = ds] \in After(p, w)
<1>1. w \in Apps(p) /\ Right(p, w) /\ WellPacked(w.batches, bounds.datagram)
  BY DEF Good
<1> DEFINE v == [w EXCEPT !.drops = ds]
<1>2. v \in Apps(p)
  BY <1>1 DEF Apps
<1>3. Right(p, v) /\ v.batches = w.batches
  BY <1>1 DEF Right, Apps
<1>4. Gains(p, w, v)
  BY <1>1, NothingLost DEF Apps
<1> QED
  BY <1>1, <1>2, <1>3, <1>4 DEF Good, After

\* A message is read, held or dropped.
LEMMA DecodeStays ==
  ASSUME Fit, NEW p \in Peers, NEW q \in Others(p), NEW w \in Good(p), NEW m \in SaidBy(q)
  PROVE  /\ decode_message(w, q, m) \in After(p, w)
         /\ m.kind = "handshake" => q \in ToSet(decode_message(w, q, m).handshakes)
<1>1. CASE m.kind = "handshake" \/ peer_is_verified(w, q)
  <2>1. dispatch_message(w, q, m) \in After(p, w)
    BY <1>1, DispatchStays DEF peer_is_verified
  <2>2. m.kind = "handshake" => q \in ToSet(dispatch_message(w, q, m).handshakes)
    BY DispatchHears
  <2> QED BY <1>1, <2>1, <2>2 DEF decode_message
<1>2. CASE ~(m.kind = "handshake" \/ peer_is_verified(w, q)) /\ HasALobby(w)
  <2>1. decode_message(w, q, m) = hold(w, q, m)
    BY <1>2 DEF decode_message
  <2> QED BY <1>2, <2>1, HoldStays DEF peer_is_verified
<1>3. CASE ~(m.kind = "handshake" \/ peer_is_verified(w, q)) /\ ~HasALobby(w)
  <2> DEFINE ds == w.drops \cup {Owed(m, q, w.me)}
  <2>1. decode_message(w, q, m) = [w EXCEPT !.drops = ds]
    BY <1>3 DEF decode_message
  <2>2. w.me = p /\ w.drops \in SUBSET Debts /\ w \in Apps(p)
    BY DEF Good, Apps
  <2>3. m.id \in 0..bounds.sends /\ m.mode \in SendModes
    BY DEF SaidBy, Sayings
  <2>4. ds \in SUBSET Debts
    BY <2>2, <2>3, OthersAre DEF Owed, Debts
  <2> HIDE DEF ds
  <2> QED BY <1>3, <2>1, <2>4, DropStays
<1> QED
  BY <1>1, <1>2, <1>3

\* What p's socket received of its peers: a packet holds what its sender said.
Delivered(p) == {d \in [peer : Others(p), packet : Seq(Sayings(bounds)), reliable : BOOLEAN] :
                   d.packet \in Seq(SaidBy(d.peer))}

\* A packet brings a handshake.
Bears(packet) == \E m \in ToSet(packet) : m.kind = "handshake"

\* One packet after the other, each a frame of messages.
LEMMA PacketStays ==
  ASSUME Fit, NEW p \in Peers, NEW w \in Good(p), NEW d \in Delivered(p)
  PROVE  /\ decode_ensemble_packet(w, d) \in After(p, w)
         /\ Bears(d.packet) => d.peer \in ToSet(decode_ensemble_packet(w, d).handshakes)
<1> DEFINE S == After(p, w)
           s == d.packet
           n == Len(s)
           b == w
           step == [i \in 1..n |-> [a \in S |-> decode_message(a, d.peer, s[i])]]
           so[i \in 0..Len(s)] == IF i = 0 THEN b ELSE decode_message(so[i - 1], d.peer, s[i])
           J == [i \in 0..n |-> {v \in S : \A k \in 1..i : s[k].kind = "handshake" => d.peer \in ToSet(v.handshakes)}]
<1>1. d.peer \in Others(p) /\ s \in Seq(SaidBy(d.peer)) /\ n \in Nat /\ DOMAIN s = 1..n
  BY DEF Delivered
<1>2. b \in S
  BY AfterAfter
<1>H. ASSUME NEW i \in 1..n, NEW v \in S
      PROVE  /\ decode_message(v, d.peer, s[i]) \in After(p, v)
             /\ decode_message(v, d.peer, s[i]) \in S
             /\ s[i].kind = "handshake" => d.peer \in ToSet(decode_message(v, d.peer, s[i]).handshakes)
  <2>1. s[i] \in SaidBy(d.peer)
    BY <1>1
  <2>2. v \in After(p, w) /\ v \in Good(p)
    BY DEF After
  <2> HIDE DEF s
  <2>3. /\ decode_message(v, d.peer, s[i]) \in After(p, v)
        /\ s[i].kind = "handshake" => d.peer \in ToSet(decode_message(v, d.peer, s[i]).handshakes)
    BY <1>1, <2>1, <2>2, DecodeStays
  <2> QED
    BY <2>2, <2>3, AfterAfter
<1>3. \A i \in 1..n : \A v \in S : decode_message(v, d.peer, s[i]) \in S
  BY <1>H
<1>J0. b \in J[0]
  BY <1>1, <1>2
<1>J1. \A i \in 1..n : \A v \in J[i - 1] : decode_message(v, d.peer, s[i]) \in J[i]
  <2> SUFFICES ASSUME NEW i \in 1..n, NEW v \in J[i - 1] PROVE decode_message(v, d.peer, s[i]) \in J[i]
    OBVIOUS
  <2> DEFINE u == decode_message(v, d.peer, s[i])
  <2>1. i - 1 \in 0..n /\ i \in 0..n
    BY <1>1
  <2>2. v \in S /\ \A k \in 1..(i - 1) : s[k].kind = "handshake" => d.peer \in ToSet(v.handshakes)
    BY <2>1
  <2>3. u \in S /\ (s[i].kind = "handshake" => d.peer \in ToSet(u.handshakes)) /\ Gains(p, v, u)
    BY <1>H, <2>2 DEF After
  <2>4. \A k \in 1..i : k \in 1..(i - 1) \/ k = i
    BY <1>1
  <2> HIDE DEF u, s
  <2>5. \A k \in 1..i : s[k].kind = "handshake" => d.peer \in ToSet(u.handshakes)
    BY <2>2, <2>3, <2>4 DEF Gains
  <2> QED BY <2>1, <2>3, <2>5 DEF u
<1>4. decode_ensemble_packet(w, d) = so[n]
  BY DEF decode_ensemble_packet, InTurn
<1> HIDE DEF S, s, b, J
<1>5. PICK f \in [0..n -> S] : Follows(f, b, n, step)
  <2>1. step \in [1..n -> [S -> S]]
    BY <1>3
  <2> HIDE DEF step, n
  <2> QED BY <1>1, <1>2, <2>1, Folds
<1>6. f = [i \in 0..n |-> IF i = 0 THEN b ELSE decode_message(f[i - 1], d.peer, s[i])]
  <2>1. ASSUME NEW i \in 0..n, i # 0 PROVE f[i] = decode_message(f[i - 1], d.peer, s[i])
    <3>1. i \in 1..n /\ f[i - 1] \in S
      <4> HIDE DEF step, n
      <4> QED BY <1>1, <1>5, <2>1
    <3>2. f[i] = step[i][f[i - 1]]
      BY <1>5, <3>1 DEF Follows
    <3> QED BY <3>1, <3>2
  <2> HIDE DEF step
  <2> QED BY <1>5, <2>1 DEF Follows
<1>7. so = [i \in 0..n |-> IF i = 0 THEN b ELSE decode_message(so[i - 1], d.peer, s[i])]
  BY <1>6
<1> HIDE DEF so, step, n
<1>8. so[n] \in J[n]
  <2>1. so[0] \in J[0]
    BY <1>1, <1>7, <1>J0
  <2>2. ASSUME NEW i \in 1..n, so[i - 1] \in J[i - 1] PROVE so[i] \in J[i]
    <3>1. so[i] = decode_message(so[i - 1], d.peer, s[i])
      BY <1>1, <1>7
    <3> QED BY <1>J1, <2>2, <3>1
  <2> QED BY <1>1, <2>1, <2>2, GrowsAlong
<1>9. so[n] \in S /\ \A k \in 1..n : s[k].kind = "handshake" => d.peer \in ToSet(so[n].handshakes)
  BY <1>1, <1>8 DEF J
<1>10. Bears(d.packet) => \E k \in 1..n : s[k].kind = "handshake"
  BY <1>1 DEF Bears, ToSet, s
<1> QED
  BY <1>4, <1>9, <1>10 DEF S

\* All that a socket received.
LEMMA InboxStays ==
  ASSUME Fit, NEW p \in Peers, NEW w \in Good(p), NEW queue \in Seq(Delivered(p))
  PROVE  /\ InTurn(decode_ensemble_packet, w, queue) \in After(p, w)
         /\ \A d \in ToSet(queue) :
              Bears(d.packet) => d.peer \in ToSet(InTurn(decode_ensemble_packet, w, queue).handshakes)
<1> DEFINE S == After(p, w)
           s == queue
           n == Len(s)
           b == w
           step == [i \in 1..n |-> [a \in S |-> decode_ensemble_packet(a, s[i])]]
           so[i \in 0..Len(s)] == IF i = 0 THEN b ELSE decode_ensemble_packet(so[i - 1], s[i])
           J == [i \in 0..n |-> {v \in S : \A k \in 1..i : Bears(s[k].packet) => s[k].peer \in ToSet(v.handshakes)}]
<1>1. s \in Seq(Delivered(p)) /\ n \in Nat /\ DOMAIN s = 1..n
  OBVIOUS
<1>2. b \in S
  BY AfterAfter
<1>H. ASSUME NEW i \in 1..n, NEW v \in S
      PROVE  /\ decode_ensemble_packet(v, s[i]) \in After(p, v)
             /\ decode_ensemble_packet(v, s[i]) \in S
             /\ Bears(s[i].packet) => s[i].peer \in ToSet(decode_ensemble_packet(v, s[i]).handshakes)
  <2>1. s[i] \in Delivered(p)
    BY <1>1
  <2>2. v \in After(p, w) /\ v \in Good(p)
    BY DEF After
  <2> HIDE DEF s
  <2>3. /\ decode_ensemble_packet(v, s[i]) \in After(p, v)
        /\ Bears(s[i].packet) => s[i].peer \in ToSet(decode_ensemble_packet(v, s[i]).handshakes)
    BY <2>1, <2>2, PacketStays
  <2> QED
    BY <2>2, <2>3, AfterAfter
<1>3. \A i \in 1..n : \A v \in S : decode_ensemble_packet(v, s[i]) \in S
  BY <1>H
<1>J0. b \in J[0]
  BY <1>1, <1>2
<1>J1. \A i \in 1..n : \A v \in J[i - 1] : decode_ensemble_packet(v, s[i]) \in J[i]
  <2> SUFFICES ASSUME NEW i \in 1..n, NEW v \in J[i - 1] PROVE decode_ensemble_packet(v, s[i]) \in J[i]
    OBVIOUS
  <2> DEFINE u == decode_ensemble_packet(v, s[i])
  <2>1. i - 1 \in 0..n /\ i \in 0..n
    BY <1>1
  <2>2. v \in S /\ \A k \in 1..(i - 1) : Bears(s[k].packet) => s[k].peer \in ToSet(v.handshakes)
    BY <2>1
  <2>3. u \in S /\ (Bears(s[i].packet) => s[i].peer \in ToSet(u.handshakes)) /\ Gains(p, v, u)
    BY <1>H, <2>2 DEF After
  <2>4. \A k \in 1..i : k \in 1..(i - 1) \/ k = i
    BY <1>1
  <2> HIDE DEF u, s
  <2>5. \A k \in 1..i : Bears(s[k].packet) => s[k].peer \in ToSet(u.handshakes)
    BY <2>2, <2>3, <2>4 DEF Gains
  <2> QED BY <2>1, <2>3, <2>5 DEF u
<1>4. InTurn(decode_ensemble_packet, w, queue) = so[n]
  BY DEF InTurn
<1> HIDE DEF S, s, b, J
<1>5. PICK f \in [0..n -> S] : Follows(f, b, n, step)
  <2>1. step \in [1..n -> [S -> S]]
    BY <1>3
  <2> HIDE DEF step, n
  <2> QED BY <1>1, <1>2, <2>1, Folds
<1>6. f = [i \in 0..n |-> IF i = 0 THEN b ELSE decode_ensemble_packet(f[i - 1], s[i])]
  <2>1. ASSUME NEW i \in 0..n, i # 0 PROVE f[i] = decode_ensemble_packet(f[i - 1], s[i])
    <3>1. i \in 1..n /\ f[i - 1] \in S
      <4> HIDE DEF step, n
      <4> QED BY <1>1, <1>5, <2>1
    <3>2. f[i] = step[i][f[i - 1]]
      BY <1>5, <3>1 DEF Follows
    <3> QED BY <3>1, <3>2
  <2> HIDE DEF step
  <2> QED BY <1>5, <2>1 DEF Follows
<1>7. so = [i \in 0..n |-> IF i = 0 THEN b ELSE decode_ensemble_packet(so[i - 1], s[i])]
  BY <1>6
<1> HIDE DEF so, step, n
<1>8. so[n] \in J[n]
  <2>1. so[0] \in J[0]
    BY <1>1, <1>7, <1>J0
  <2>2. ASSUME NEW i \in 1..n, so[i - 1] \in J[i - 1] PROVE so[i] \in J[i]
    <3>1. so[i] = decode_ensemble_packet(so[i - 1], s[i])
      BY <1>1, <1>7
    <3> QED BY <1>J1, <2>2, <3>1
  <2> QED BY <1>1, <2>1, <2>2, GrowsAlong
<1>9. so[n] \in S /\ \A k \in 1..n : Bears(s[k].packet) => s[k].peer \in ToSet(so[n].handshakes)
  BY <1>1, <1>8 DEF J
<1>10. \A d \in ToSet(queue) : \E k \in 1..n : d = s[k]
  BY <1>1 DEF ToSet, s
<1> QED
  BY <1>4, <1>9, <1>10 DEF S

------------------------------------------------------------------------------
\* Relaying

\* The host relays what a verified client says as that client's, and delivers it.
LEMMA RelayStays ==
  ASSUME Fit, NEW p \in Peers, NEW w \in Good(p), NEW e \in Envelopes(p), e.transport \in w.verified
  PROVE  relay_broadcast_envelope(w, e) \in After(p, w)
<1>1. w.me = p /\ e.transport \in Others(p) /\ e.message \in SaidBy(e.transport)
  BY DEF Good, Apps, Envelopes
<1>2. CASE p # Host
  <2>1. relay_broadcast_envelope(w, e) = [w EXCEPT !.delivered.broadcast = Append(@, e.message)]
    BY <1>1, <1>2 DEF relay_broadcast_envelope
  <2>2. e.message \in Readable(p, w.verified)
    BY <1>1, SaidIsReadable
  <2> QED BY <2>1, <2>2, DeliverStays
<1>3. CASE p = Host
  <2> DEFINE m == [e.message EXCEPT !.sender = e.transport]
             v == encode_lobby_message(w, m)
  <2>1. e.transport # Host
    BY <1>1, <1>3, OthersAre
  <2>2. m = e.message
    BY <1>1, <2>1 DEF SaidBy, Sayings
  <2>3. m \in SaidBy(p)
    BY <1>1, <1>3, <2>2 DEF SaidBy
  <2>4. relay_broadcast_envelope(w, e) = [v EXCEPT !.delivered.broadcast = Append(@, m)]
    BY <1>1, <1>3 DEF relay_broadcast_envelope
  <2> HIDE DEF m
  <2>5. v \in After(p, w)
    BY <2>3, EncodeAllStays
  <2>6. v \in Good(p) /\ e.transport \in v.verified
    BY <2>5 DEF After, Gains
  <2>7. m \in Readable(p, v.verified)
    BY <1>1, <2>2, <2>6, SaidIsReadable
  <2> HIDE DEF v
  <2>8. [v EXCEPT !.delivered.broadcast = Append(@, m)] \in After(p, v)
    BY <2>6, <2>7, DeliverStays
  <2> QED BY <2>4, <2>5, <2>8, AfterAfter
<1> QED
  BY <1>2, <1>3

\* Envelopes are handled in the order they came.
LEMMA EnvelopesStay ==
  ASSUME Fit, NEW p \in Peers, NEW w \in Good(p)
  PROVE  relay_broadcast_envelopes(w) \in After(p, w)
<1> DEFINE S == After(p, w)
           s == w.envelopes
           n == Len(s)
           b == [w EXCEPT !.envelopes = <<>>]
           step == [i \in 1..n |-> [a \in S |-> relay_broadcast_envelope(a, s[i])]]
           so[i \in 0..Len(s)] == IF i = 0 THEN b ELSE relay_broadcast_envelope(so[i - 1], s[i])
<1>0. w \in Apps(p) /\ Right(p, w) /\ WellPacked(w.batches, bounds.datagram)
  BY DEF Good
<1>1. s \in Seq(Envelopes(p)) /\ n \in Nat /\ \A i \in 1..n : s[i].transport \in w.verified
  BY <1>0 DEF Apps, Right
<1>2. b \in S
  <2> DEFINE es == <<>>
             v == [w EXCEPT !.envelopes = es]
  <2>1. es \in Seq(Envelopes(p)) /\ DOMAIN es = {}
    OBVIOUS
  <2>2. b = v
    OBVIOUS
  <2> HIDE DEF es
  <2>3. v \in Apps(p)
    BY <1>0, <2>1 DEF Apps
  <2>4. Right(p, v) /\ v.batches = w.batches
    BY <1>0, <2>1 DEF Right, Apps
  <2>5. Gains(p, w, v)
    BY <1>0, NothingLost DEF Apps
  <2> HIDE DEF v
  <2> QED
    BY <1>0, <2>2, <2>3, <2>4, <2>5 DEF Good, After
<1>3. \A i \in 1..n : \A v \in S : relay_broadcast_envelope(v, s[i]) \in S
  <2> TAKE i \in 1..n
  <2> TAKE v \in S
  <2>1. v \in After(p, w) /\ v \in Good(p)
    BY DEF After
  <2>2. s[i] \in Envelopes(p) /\ s[i].transport \in v.verified
    BY <1>1, <2>1 DEF After, Gains
  <2>3. relay_broadcast_envelope(v, s[i]) \in After(p, v)
    <3> HIDE DEF s
    <3> QED BY <2>1, <2>2, RelayStays
  <2> HIDE DEF s
  <2> QED
    BY <2>1, <2>3, AfterAfter
<1>4. relay_broadcast_envelopes(w) = so[n]
  BY DEF relay_broadcast_envelopes, InTurn
<1> HIDE DEF S, s, b
<1>5. PICK f \in [0..n -> S] : Follows(f, b, n, step)
  <2>1. step \in [1..n -> [S -> S]]
    BY <1>3
  <2> HIDE DEF step, n
  <2> QED BY <1>1, <1>2, <2>1, Folds
<1>6. f = [i \in 0..n |-> IF i = 0 THEN b ELSE relay_broadcast_envelope(f[i - 1], s[i])]
  <2>1. ASSUME NEW i \in 0..n, i # 0 PROVE f[i] = relay_broadcast_envelope(f[i - 1], s[i])
    <3>1. i \in 1..n /\ f[i - 1] \in S
      <4> HIDE DEF step, n
      <4> QED BY <1>1, <1>5, <2>1
    <3>2. f[i] = step[i][f[i - 1]]
      BY <1>5, <3>1 DEF Follows
    <3> QED BY <3>1, <3>2
  <2> HIDE DEF step
  <2> QED BY <1>5, <2>1 DEF Follows
<1>7. so = [i \in 0..n |-> IF i = 0 THEN b ELSE relay_broadcast_envelope(so[i - 1], s[i])]
  BY <1>6
<1> HIDE DEF so, step, n
<1>8. so[n] \in S
  <2>1. so[0] \in S
    BY <1>1, <1>2, <1>7
  <2>2. ASSUME NEW i \in 1..n, so[i - 1] \in S PROVE so[i] \in S
    <3>1. so[i] = relay_broadcast_envelope(so[i - 1], s[i])
      BY <1>1, <1>7
    <3> QED BY <1>3, <2>2, <3>1
  <2> QED BY <1>1, <2>1, <2>2, StaysAlong
<1> QED
  BY <1>4, <1>8 DEF S

------------------------------------------------------------------------------
\* Comparing

\* A peer of another protocol is not verified, and its messages go unread.
LEMMA RefuseStays ==
  ASSUME Fit, NEW p \in Peers, NEW w \in Good(p), NEW q \in Others(p), Differs(p, q)
  PROVE  verify_protocol(w, q) \in After(p, w)
<1> DEFINE h == [w.held EXCEPT ![q] = <<>>]
           ds == w.drops \cup {Owed(m, q, w.me) : m \in ToSet(w.held[q])}
           en == [w.end EXCEPT ![q] = IF @ = "there" THEN "gone" ELSE @]
           vs == w.verified \ {q}
           v == [w EXCEPT !.held = h, !.drops = ds, !.end = en, !.verified = vs]
<1>1. w \in Apps(p) /\ Right(p, w) /\ WellPacked(w.batches, bounds.datagram) /\ w.me = p
  BY DEF Good, Apps
<1>2. verify_protocol(w, q) = v
  BY <1>1 DEF verify_protocol
<1>3. vs = w.verified
  BY <1>1 DEF Right, Alike
<1>4. /\ h \in [Others(p) -> Seq(Sayings(bounds))]
      /\ \A x \in Others(p) : h[x] \in Seq(SaidBy(x))
      /\ \A x \in w.verified : h[x] = <<>>
  BY <1>1 DEF Apps, Right
<1>5. ds \in SUBSET Debts
  <2>1. ASSUME NEW m \in ToSet(w.held[q]) PROVE Owed(m, q, w.me) \in Debts
    <3>1. w.held[q] \in Seq(SaidBy(q))
      BY <1>1 DEF Right
    <3>2. m \in SaidBy(q)
      BY <3>1 DEF ToSet
    <3>3. m.id \in 0..bounds.sends /\ m.mode \in SendModes
      BY <3>2 DEF SaidBy, Sayings
    <3> QED BY <1>1, <3>3, OthersAre DEF Owed, Debts
  <2>2. w.drops \in SUBSET Debts
    BY <1>1 DEF Apps
  <2> QED BY <2>1, <2>2
<1>6. /\ en \in [Others(p) -> {"none", "there", "gone"}]
      /\ \A x \in Alike(p) : en[x] = w.end[x]
  BY <1>1 DEF Apps, Alike
<1> HIDE DEF h, ds, en, vs
<1>7. v \in Apps(p)
  BY <1>1, <1>3, <1>4, <1>5, <1>6 DEF Apps
<1>8. Right(p, v) /\ v.batches = w.batches
  BY <1>1, <1>3, <1>4, <1>6 DEF Right, Apps
<1>9. Gains(p, w, v)
  BY <1>1, <1>3, <1>6 DEF Gains, Greeted, Apps
<1> QED
  BY <1>1, <1>2, <1>7, <1>8, <1>9 DEF Good, After

\* One comparison: a peer of the same protocol that is there becomes verified, a
\* match with one that is not there yet is kept.
LEMMA CompareStays ==
  ASSUME Fit, NEW p \in Peers, NEW w \in Good(p), NEW q \in Others(p)
  PROVE  /\ verify_protocol(w, q) \in After(p, w)
         /\ q \in Alike(p) /\ w.end[q] = "there" => q \in verify_protocol(w, q).verified
         /\ q \in Alike(p) /\ w.end[q] = "none" => q \in verify_protocol(w, q).matched
<1>1. w \in Apps(p) /\ Right(p, w) /\ WellPacked(w.batches, bounds.datagram) /\ w.me = p
  BY DEF Good, Apps
<1>2. CASE Differs(p, q)
  BY <1>2, RefuseStays DEF Alike
<1>3. CASE ~Differs(p, q)
  <2>1. q \in Alike(p)
    BY <1>3 DEF Alike
  <2>2. Verify(w, q) \in After(p, w) /\ q \in Verify(w, q).verified
    BY <2>1, VerifyStays
  <2> DEFINE ms == w.matched \cup {q}
             v == [w EXCEPT !.matched = ms]
  <2>3. ms \subseteq Alike(p) /\ ms \subseteq Others(p) /\ w.matched \subseteq ms /\ q \in ms
    BY <1>1, <2>1 DEF Right, Apps
  <2>4. verify_protocol(w, q) =
          IF w.end[q] = "there" THEN Verify(w, q) ELSE IF HasALobby(w) THEN v ELSE w
    BY <1>1, <1>3 DEF verify_protocol
  <2> HIDE DEF ms
  <2>5. v \in Apps(p)
    BY <1>1, <2>3 DEF Apps
  <2>6. Right(p, v) /\ v.batches = w.batches
    BY <1>1, <2>3 DEF Right, Apps
  <2>7. Gains(p, w, v) /\ q \in v.matched
    BY <1>1, <2>3 DEF Gains, Greeted, Apps
  <2>8. v \in After(p, w)
    BY <1>1, <2>5, <2>6, <2>7 DEF Good, After
  <2>9. HasALobby(w)
    <3>1. CASE p = Host
      BY <1>1, <3>1 DEF HasALobby
    <3>2. CASE p # Host
      BY <1>1, <2>1, <3>2, OthersAre DEF HasALobby, Right
    <3> QED BY <3>1, <3>2
  <2> HIDE DEF v
  <2> QED
    BY <2>2, <2>4, <2>7, <2>8, <2>9
<1> QED
  BY <1>2, <1>3

\* All the handshakes of a frame.
LEMMA HandshakesStay ==
  ASSUME Fit, NEW p \in Peers, NEW w \in Good(p)
  PROVE  /\ [w EXCEPT !.handshakes = <<>>] \in Good(p)
         /\ verify_protocols(w) \in After(p, [w EXCEPT !.handshakes = <<>>])
         /\ \A q \in ToSet(w.handshakes) \cap Alike(p) :
              /\ w.end[q] = "there" => q \in verify_protocols(w).verified
              /\ w.end[q] = "none" => q \in verify_protocols(w).matched
<1> DEFINE Done(v, q) ==
             q \in Alike(p) =>
               /\ w.end[q] = "there" => q \in v.verified
               /\ w.end[q] = "none" => q \in v.matched
<1> DEFINE b == [w EXCEPT !.handshakes = <<>>]
           S == After(p, b)
           s == w.handshakes
           n == Len(s)
           step == [i \in 1..n |-> [a \in S |-> verify_protocol(a, s[i])]]
           so[i \in 0..Len(s)] == IF i = 0 THEN b ELSE verify_protocol(so[i - 1], s[i])
           J == [i \in 0..n |-> {v \in S : \A k \in 1..i : Done(v, s[k])}]
<1>0. w \in Apps(p) /\ Right(p, w) /\ WellPacked(w.batches, bounds.datagram)
  BY DEF Good
<1>1. s \in Seq(Others(p)) /\ n \in Nat /\ DOMAIN s = 1..n
  BY <1>0 DEF Apps
<1>B. b \in Good(p) /\ b.end = w.end
  <2> DEFINE es == <<>>
             v == [w EXCEPT !.handshakes = es]
  <2>1. es \in Seq(Others(p))
    OBVIOUS
  <2>2. b = v
    OBVIOUS
  <2> HIDE DEF es
  <2>3. v \in Apps(p)
    BY <1>0, <2>1 DEF Apps
  <2>4. Right(p, v) /\ v.batches = w.batches /\ v.end = w.end
    BY <1>0, <2>1 DEF Right, Apps
  <2> HIDE DEF v
  <2> QED
    BY <1>0, <2>2, <2>3, <2>4 DEF Good
<1>2. b \in S
  <2> HIDE DEF b
  <2> QED BY <1>B, AfterAfter
<1>H. ASSUME NEW i \in 1..n, NEW v \in S
      PROVE  /\ verify_protocol(v, s[i]) \in After(p, v)
             /\ verify_protocol(v, s[i]) \in S
             /\ Done(verify_protocol(v, s[i]), s[i])
  <2>1. s[i] \in Others(p)
    BY <1>1
  <2> HIDE DEF s, b
  <2>2. v \in After(p, b) /\ v \in Good(p)
    BY DEF After
  <2>3. s[i] \in Alike(p) => v.end[s[i]] = w.end[s[i]]
    BY <1>B, <2>2 DEF After, Gains
  <2>4. /\ verify_protocol(v, s[i]) \in After(p, v)
        /\ s[i] \in Alike(p) /\ v.end[s[i]] = "there" => s[i] \in verify_protocol(v, s[i]).verified
        /\ s[i] \in Alike(p) /\ v.end[s[i]] = "none" => s[i] \in verify_protocol(v, s[i]).matched
    BY <2>1, <2>2, CompareStays
  <2> QED
    BY <1>B, <2>2, <2>3, <2>4, AfterAfter
<1> HIDE DEF Done
<1>3. \A i \in 1..n : \A v \in S : verify_protocol(v, s[i]) \in S
  BY <1>H
<1>J0. b \in J[0]
  BY <1>1, <1>2
<1>J1. \A i \in 1..n : \A v \in J[i - 1] : verify_protocol(v, s[i]) \in J[i]
  <2> SUFFICES ASSUME NEW i \in 1..n, NEW v \in J[i - 1] PROVE verify_protocol(v, s[i]) \in J[i]
    OBVIOUS
  <2> DEFINE u == verify_protocol(v, s[i])
  <2>1. i - 1 \in 0..n /\ i \in 0..n
    BY <1>1
  <2>2. v \in S /\ \A k \in 1..(i - 1) : Done(v, s[k])
    BY <2>1
  <2>3. u \in S /\ Done(u, s[i]) /\ Gains(p, v, u)
    BY <1>H, <2>2 DEF After
  <2>4. \A k \in 1..i : k \in 1..(i - 1) \/ k = i
    BY <1>1
  <2> HIDE DEF u, s
  <2>5. \A k \in 1..i : Done(u, s[k])
    BY <2>2, <2>3, <2>4 DEF Gains, Done
  <2> QED BY <2>1, <2>3, <2>5 DEF u
<1>4. verify_protocols(w) = so[n]
  BY DEF verify_protocols, InTurn
<1> HIDE DEF S, s, b, J
<1>5. PICK f \in [0..n -> S] : Follows(f, b, n, step)
  <2>1. step \in [1..n -> [S -> S]]
    BY <1>3
  <2> HIDE DEF step, n
  <2> QED BY <1>1, <1>2, <2>1, Folds
<1>6. f = [i \in 0..n |-> IF i = 0 THEN b ELSE verify_protocol(f[i - 1], s[i])]
  <2>1. ASSUME NEW i \in 0..n, i # 0 PROVE f[i] = verify_protocol(f[i - 1], s[i])
    <3>1. i \in 1..n /\ f[i - 1] \in S
      <4> HIDE DEF step, n
      <4> QED BY <1>1, <1>5, <2>1
    <3>2. f[i] = step[i][f[i - 1]]
      BY <1>5, <3>1 DEF Follows
    <3> QED BY <3>1, <3>2
  <2> HIDE DEF step
  <2> QED BY <1>5, <2>1 DEF Follows
<1>7. so = [i \in 0..n |-> IF i = 0 THEN b ELSE verify_protocol(so[i - 1], s[i])]
  BY <1>6
<1> HIDE DEF so, step, n
<1>8. so[n] \in J[n]
  <2>1. so[0] \in J[0]
    BY <1>1, <1>7, <1>J0
  <2>2. ASSUME NEW i \in 1..n, so[i - 1] \in J[i - 1] PROVE so[i] \in J[i]
    <3>1. so[i] = verify_protocol(so[i - 1], s[i])
      BY <1>1, <1>7
    <3> QED BY <1>J1, <2>2, <3>1
  <2> QED BY <1>1, <2>1, <2>2, GrowsAlong
<1>9. so[n] \in S /\ \A k \in 1..n : Done(so[n], s[k])
  BY <1>1, <1>8 DEF J
<1>10. \A q \in ToSet(w.handshakes) : \E k \in 1..n : q = s[k]
  BY <1>1 DEF ToSet, s
<1>11. \A q \in ToSet(w.handshakes) : Done(verify_protocols(w), q)
  BY <1>4, <1>9, <1>10
<1>12. verify_protocols(w) \in After(p, b)
  BY <1>4, <1>9 DEF S
<1>13. ASSUME NEW q \in ToSet(w.handshakes) \cap Alike(p)
       PROVE  /\ w.end[q] = "there" => q \in verify_protocols(w).verified
              /\ w.end[q] = "none" => q \in verify_protocols(w).matched
  <2>1. PICK k \in 1..n : q = s[k]
    BY <1>10
  <2>2. Done(so[n], s[k])
    BY <1>9
  <2>3. Done(so[n], q)
    BY <2>1, <2>2
  <2>4. w.end[q] = "there" => q \in so[n].verified
    BY <2>3 DEF Done
  <2>5. w.end[q] = "none" => q \in so[n].matched
    BY <2>3 DEF Done
  <2> QED BY <1>4, <2>4, <2>5
<1> QED
  BY <1>12, <1>13, <1>B DEF b

\* And those matched before they appeared.
LEMMA PromotedStay ==
  ASSUME Fit, NEW p \in Peers, NEW w \in Good(p)
  PROVE  /\ [w EXCEPT !.matched = @ \ w.fresh] \in Good(p)
         /\ verify_promoted_peers(w) \in After(p, [w EXCEPT !.matched = @ \ w.fresh])
         /\ w.fresh \cap w.matched \subseteq verify_promoted_peers(w).verified
<1> DEFINE b == [w EXCEPT !.matched = @ \ w.fresh]
           S == After(p, b)
           s == SetToSeq(w.fresh \cap w.matched)
           n == Len(s)
           step == [i \in 1..n |-> [a \in S |-> Verify(a, s[i])]]
           so[i \in 0..Len(s)] == IF i = 0 THEN b ELSE Verify(so[i - 1], s[i])
           J == [i \in 0..n |-> {v \in S : \A k \in 1..i : s[k] \in v.verified}]
<1>0. w \in Apps(p) /\ Right(p, w) /\ WellPacked(w.batches, bounds.datagram)
  BY DEF Good
<1>1. s \in Seq(Alike(p)) /\ n \in Nat /\ \A q \in w.fresh \cap w.matched : \E k \in 1..n : s[k] = q
  <2> DEFINE T == w.fresh \cap w.matched
  <2>1. T \subseteq Alike(p) /\ T \subseteq Others(p)
    BY <1>0 DEF Right, Apps
  <2>2. IsFiniteSet(T)
    BY <2>1, OthersAre, FS_Subset
  <2>4. s = SetToSeq(T)
    BY DEF T
  <2> HIDE DEF T, s
  <2>3. s \in Seq(T) /\ ToSet(s) = T
    BY <2>2, <2>4, ListedOnce
  <2>5. DOMAIN s = 1..n
    BY <2>3
  <2> QED BY <2>1, <2>3, <2>5 DEF ToSet, T
<1>B. b \in Good(p)
  <2> DEFINE ms == w.matched \ w.fresh
             v == [w EXCEPT !.matched = ms]
  <2>1. ms \subseteq Alike(p) /\ ms \subseteq Others(p)
    BY <1>0 DEF Right, Apps
  <2>2. b = v
    OBVIOUS
  <2> HIDE DEF ms
  <2>3. v \in Apps(p)
    BY <1>0, <2>1 DEF Apps
  <2>4. Right(p, v) /\ v.batches = w.batches
    BY <1>0, <2>1 DEF Right, Apps
  <2> HIDE DEF v
  <2> QED
    BY <1>0, <2>2, <2>3, <2>4 DEF Good
<1>2. b \in S
  <2> HIDE DEF b
  <2> QED BY <1>B, AfterAfter
<1>H. ASSUME NEW i \in 1..n, NEW v \in S
      PROVE  /\ Verify(v, s[i]) \in After(p, v)
             /\ Verify(v, s[i]) \in S
             /\ s[i] \in Verify(v, s[i]).verified
  <2>1. s[i] \in Alike(p)
    BY <1>1
  <2> HIDE DEF s, b
  <2>2. v \in After(p, b) /\ v \in Good(p)
    BY DEF After
  <2>3. Verify(v, s[i]) \in After(p, v) /\ s[i] \in Verify(v, s[i]).verified
    BY <2>1, <2>2, VerifyStays
  <2> QED
    BY <1>B, <2>2, <2>3, AfterAfter
<1>3. \A i \in 1..n : \A v \in S : Verify(v, s[i]) \in S
  BY <1>H
<1>J0. b \in J[0]
  BY <1>1, <1>2
<1>J1. \A i \in 1..n : \A v \in J[i - 1] : Verify(v, s[i]) \in J[i]
  <2> SUFFICES ASSUME NEW i \in 1..n, NEW v \in J[i - 1] PROVE Verify(v, s[i]) \in J[i]
    OBVIOUS
  <2> DEFINE u == Verify(v, s[i])
  <2>1. i - 1 \in 0..n /\ i \in 0..n
    BY <1>1
  <2>2. v \in S /\ \A k \in 1..(i - 1) : s[k] \in v.verified
    BY <2>1
  <2>3. u \in S /\ s[i] \in u.verified /\ Gains(p, v, u)
    BY <1>H, <2>2 DEF After
  <2>4. \A k \in 1..i : k \in 1..(i - 1) \/ k = i
    BY <1>1
  <2> HIDE DEF u, s
  <2>5. \A k \in 1..i : s[k] \in u.verified
    BY <2>2, <2>3, <2>4 DEF Gains
  <2> QED BY <2>1, <2>3, <2>5 DEF u
<1>4. verify_promoted_peers(w) = so[n]
  BY DEF verify_promoted_peers, InTurn
<1> HIDE DEF S, s, b, J
<1>5. PICK f \in [0..n -> S] : Follows(f, b, n, step)
  <2>1. step \in [1..n -> [S -> S]]
    BY <1>3
  <2> HIDE DEF step, n
  <2> QED BY <1>1, <1>2, <2>1, Folds
<1>6. f = [i \in 0..n |-> IF i = 0 THEN b ELSE Verify(f[i - 1], s[i])]
  <2>1. ASSUME NEW i \in 0..n, i # 0 PROVE f[i] = Verify(f[i - 1], s[i])
    <3>1. i \in 1..n /\ f[i - 1] \in S
      <4> HIDE DEF step, n
      <4> QED BY <1>1, <1>5, <2>1
    <3>2. f[i] = step[i][f[i - 1]]
      BY <1>5, <3>1 DEF Follows
    <3> QED BY <3>1, <3>2
  <2> HIDE DEF step
  <2> QED BY <1>5, <2>1 DEF Follows
<1>7. so = [i \in 0..n |-> IF i = 0 THEN b ELSE Verify(so[i - 1], s[i])]
  BY <1>6
<1> HIDE DEF so, step, n
<1>8. so[n] \in J[n]
  <2>1. so[0] \in J[0]
    BY <1>1, <1>7, <1>J0
  <2>2. ASSUME NEW i \in 1..n, so[i - 1] \in J[i - 1] PROVE so[i] \in J[i]
    <3>1. so[i] = Verify(so[i - 1], s[i])
      BY <1>1, <1>7
    <3> QED BY <1>J1, <2>2, <3>1
  <2> QED BY <1>1, <2>1, <2>2, GrowsAlong
<1>9. so[n] \in S /\ \A k \in 1..n : s[k] \in so[n].verified
  BY <1>1, <1>8 DEF J
<1> QED
  BY <1>1, <1>4, <1>9, <1>B DEF S, b

\* Who is fresh is all that changes, whoever it is now.
LEMMA FreshStays ==
  ASSUME NEW p \in Peers, NEW u \in Good(p), NEW fs \in SUBSET Others(p),
         \A q \in fs \cap Alike(p) : u.end[q] = "there"
  PROVE  LET v == [u EXCEPT !.fresh = fs]
         IN /\ v \in Good(p) /\ v.fresh = fs
            /\ v.end = u.end /\ v.verified = u.verified /\ v.matched = u.matched
            /\ v.handshakes = u.handshakes /\ v.batches = u.batches
<1> DEFINE v == [u EXCEPT !.fresh = fs]
<1>1. u \in Apps(p) /\ Right(p, u) /\ WellPacked(u.batches, bounds.datagram)
  BY DEF Good
<1>2. v \in Apps(p)
  BY <1>1 DEF Apps
<1>3. /\ v.fresh = fs /\ v.end = u.end /\ v.verified = u.verified /\ v.matched = u.matched
      /\ v.handshakes = u.handshakes /\ v.batches = u.batches
      /\ v.held = u.held /\ v.envelopes = u.envelopes /\ v.delivered = u.delivered
  BY <1>1 DEF Apps
<1> HIDE DEF v
<1>4. Right(p, v)
  BY <1>1, <1>3 DEF Right
<1> QED
  BY <1>1, <1>2, <1>3, <1>4 DEF Good, v

\* No longer fresh, anyone.
LEMMA FreshGone ==
  ASSUME NEW p \in Peers, NEW u \in Good(p)
  PROVE  LET v == [u EXCEPT !.fresh = {}]
         IN /\ v \in Good(p) /\ v.fresh = {}
            /\ v.end = u.end /\ v.verified = u.verified /\ v.matched = u.matched
            /\ v.handshakes = u.handshakes /\ v.batches = u.batches
<1> DEFINE fs == {}
<1>1. fs \in SUBSET Others(p) /\ \A q \in fs \cap Alike(p) : u.end[q] = "there"
  OBVIOUS
<1> HIDE DEF fs
<1>2. LET v == [u EXCEPT !.fresh = fs]
      IN /\ v \in Good(p) /\ v.fresh = fs
         /\ v.end = u.end /\ v.verified = u.verified /\ v.matched = u.matched
         /\ v.handshakes = u.handshakes /\ v.batches = u.batches
  BY <1>1, FreshStays
<1> QED
  BY <1>2 DEF fs

\* What the core's systems have done by the end of Update: who appeared was
\* greeted, who appeared after a match is verified, and so is who was heard of and
\* is there.
Updated(p, w, v) ==
  /\ v.fresh = {} /\ w.verified \subseteq v.verified
  /\ \A q \in Others(p) : Greeted(w, q) => Greeted(v, q)
  /\ \A q \in w.fresh : Greeted(v, q)
  /\ \A q \in Alike(p) :
       /\ v.end[q] = w.end[q]
       /\ q \in ToSet(w.handshakes) /\ w.end[q] = "there" => q \in v.verified
       /\ q \in w.matched /\ q \in w.fresh => q \in v.verified
       /\ q \in ToSet(w.handshakes) \cup w.matched /\ w.end[q] = "none" => q \in v.matched

\* Whichever of the two comparisons ran first.
LEMMA UpdateStays ==
  ASSUME Fit, NEW p \in Peers, NEW w \in Good(p), NEW v \in Update(w)
  PROVE  v \in Good(p) /\ Updated(p, w, v)
<1> DEFINE a == announce_protocol(w)
           announced == [a EXCEPT !.fresh = {}]
           again == [announced EXCEPT !.fresh = w.fresh]
           promoted == verify_promoted_peers(again)
           still == [promoted EXCEPT !.fresh = {}]
           one == verify_protocols(still)
           compared == verify_protocols(announced)
           back == [compared EXCEPT !.fresh = w.fresh]
           both == verify_promoted_peers(back)
           other == [both EXCEPT !.fresh = {}]
<1>1. /\ w.fresh \in SUBSET Others(p) /\ {} \in SUBSET Others(p)
      /\ \A q \in w.fresh \cap Alike(p) : w.end[q] = "there"
      /\ Alike(p) \subseteq Others(p)
  BY DEF Good, Apps, Right, Alike
<1>2. a \in After(p, w) /\ a \in Good(p) /\ \A q \in w.fresh : Greeted(a, q)
  BY AnnounceStays DEF After
<1>3. v = one \/ v = other
  BY DEF Update
<1> HIDE DEF a
<1>4. /\ announced \in Good(p) /\ announced.fresh = {} /\ announced.end = a.end /\ announced.verified = a.verified
      /\ announced.matched = a.matched /\ announced.handshakes = a.handshakes /\ announced.batches = a.batches
  BY <1>2, FreshGone
<1> HIDE DEF announced
<1>5. /\ \A q \in Others(p) : Greeted(w, q) \/ q \in w.fresh => Greeted(announced, q)
      /\ \A q \in Alike(p) : announced.end[q] = w.end[q]
      /\ w.verified \subseteq announced.verified /\ w.matched \subseteq announced.matched
      /\ ToSet(w.handshakes) \subseteq ToSet(announced.handshakes)
  BY <1>2, <1>4 DEF After, Gains, Greeted
<1>6. one \in Good(p) /\ Updated(p, w, one)
  <2>1. /\ again \in Good(p) /\ again.fresh = w.fresh /\ again.end = announced.end
        /\ again.verified = announced.verified /\ again.matched = announced.matched
        /\ again.handshakes = announced.handshakes /\ again.batches = announced.batches
    BY <1>1, <1>4, <1>5, FreshStays
  <2> HIDE DEF again
  <2> DEFINE start == [again EXCEPT !.matched = @ \ again.fresh]
  <2>2. /\ start \in Good(p) /\ promoted \in After(p, start) /\ again.fresh \cap again.matched \subseteq promoted.verified
    BY <2>1, PromotedStay
  <2>3. /\ start.fresh = again.fresh /\ start.end = again.end /\ start.verified = again.verified
        /\ start.matched = again.matched \ again.fresh /\ start.handshakes = again.handshakes
        /\ start.batches = again.batches
    BY <2>1 DEF Good, Apps
  <2> HIDE DEF start, promoted
  <2>4. /\ promoted \in Good(p) /\ promoted.fresh = w.fresh
        /\ \A q \in Others(p) : Greeted(w, q) \/ q \in w.fresh => Greeted(promoted, q)
        /\ \A q \in Alike(p) : promoted.end[q] = w.end[q]
        /\ w.verified \subseteq promoted.verified /\ w.fresh \cap w.matched \subseteq promoted.verified
        /\ w.matched \ w.fresh \subseteq promoted.matched
        /\ ToSet(w.handshakes) \subseteq ToSet(promoted.handshakes)
    BY <1>5, <2>1, <2>2, <2>3 DEF After, Gains, Greeted
  <2>5. /\ still \in Good(p) /\ still.fresh = {} /\ still.end = promoted.end /\ still.verified = promoted.verified
        /\ still.matched = promoted.matched /\ still.handshakes = promoted.handshakes /\ still.batches = promoted.batches
    BY <2>4, FreshGone
  <2> HIDE DEF still
  <2> DEFINE next == [still EXCEPT !.handshakes = <<>>]
  <2>6. /\ next \in Good(p) /\ one \in After(p, next)
        /\ \A q \in ToSet(still.handshakes) \cap Alike(p) :
             /\ still.end[q] = "there" => q \in one.verified
             /\ still.end[q] = "none" => q \in one.matched
    BY <2>5, HandshakesStay
  <2>7. /\ next.fresh = still.fresh /\ next.end = still.end /\ next.verified = still.verified
        /\ next.matched = still.matched /\ next.batches = still.batches
    BY <2>5 DEF Good, Apps
  <2> HIDE DEF next, one
  <2>8. /\ one \in Good(p) /\ one.fresh = {} /\ promoted.verified \subseteq one.verified
        /\ promoted.matched \subseteq one.matched
        /\ \A q \in Others(p) : Greeted(promoted, q) => Greeted(one, q)
        /\ \A q \in Alike(p) : one.end[q] = promoted.end[q]
    BY <2>5, <2>6, <2>7 DEF After, Gains, Greeted
  <2>9. ASSUME NEW q \in Alike(p)
        PROVE  /\ one.end[q] = w.end[q]
               /\ q \in ToSet(w.handshakes) /\ w.end[q] = "there" => q \in one.verified
               /\ q \in w.matched /\ q \in w.fresh => q \in one.verified
               /\ q \in ToSet(w.handshakes) \cup w.matched /\ w.end[q] = "none" => q \in one.matched
    <3>1. q \in ToSet(w.handshakes) => q \in ToSet(still.handshakes) /\ still.end[q] = w.end[q]
      BY <2>4, <2>5
    <3>2. w.end[q] = "none" => q \notin w.fresh
      BY <1>1
    <3> QED BY <2>4, <2>6, <2>8, <3>1, <3>2
  <2> QED BY <1>1, <2>4, <2>8, <2>9 DEF Updated
<1>7. other \in Good(p) /\ Updated(p, w, other)
  <2> DEFINE next == [announced EXCEPT !.handshakes = <<>>]
  <2>1. /\ next \in Good(p) /\ compared \in After(p, next)
        /\ \A q \in ToSet(announced.handshakes) \cap Alike(p) :
             /\ announced.end[q] = "there" => q \in compared.verified
             /\ announced.end[q] = "none" => q \in compared.matched
    BY <1>4, HandshakesStay
  <2>2. /\ next.fresh = announced.fresh /\ next.end = announced.end /\ next.verified = announced.verified
        /\ next.matched = announced.matched /\ next.batches = announced.batches
    BY <1>4 DEF Good, Apps
  <2> HIDE DEF next, compared
  <2>3. /\ compared \in Good(p) /\ w.verified \subseteq compared.verified
        /\ w.matched \subseteq compared.matched
        /\ \A q \in Others(p) : Greeted(w, q) \/ q \in w.fresh => Greeted(compared, q)
        /\ \A q \in Alike(p) : compared.end[q] = w.end[q]
    BY <1>5, <2>1, <2>2 DEF After, Gains, Greeted
  <2>4. /\ back \in Good(p) /\ back.fresh = w.fresh /\ back.end = compared.end /\ back.verified = compared.verified
        /\ back.matched = compared.matched /\ back.handshakes = compared.handshakes /\ back.batches = compared.batches
    BY <1>1, <2>3, FreshStays
  <2> HIDE DEF back
  <2> DEFINE start == [back EXCEPT !.matched = @ \ back.fresh]
  <2>5. /\ start \in Good(p) /\ both \in After(p, start) /\ back.fresh \cap back.matched \subseteq both.verified
    BY <2>4, PromotedStay
  <2>6. /\ start.fresh = back.fresh /\ start.end = back.end /\ start.verified = back.verified
        /\ start.matched = back.matched \ back.fresh /\ start.batches = back.batches
    BY <2>4 DEF Good, Apps
  <2> HIDE DEF start, both
  <2>7. /\ both \in Good(p) /\ compared.verified \subseteq both.verified
        /\ w.fresh \cap w.matched \subseteq both.verified /\ compared.matched \ w.fresh \subseteq both.matched
        /\ \A q \in Others(p) : Greeted(compared, q) => Greeted(both, q)
        /\ \A q \in Alike(p) : both.end[q] = compared.end[q]
    BY <2>3, <2>4, <2>5, <2>6 DEF After, Gains, Greeted
  <2>8. /\ other \in Good(p) /\ other.fresh = {} /\ other.end = both.end /\ other.verified = both.verified
        /\ other.matched = both.matched /\ other.batches = both.batches
    BY <2>7, FreshGone
  <2> HIDE DEF other
  <2>9. ASSUME NEW q \in Alike(p)
        PROVE  /\ other.end[q] = w.end[q]
               /\ q \in ToSet(w.handshakes) /\ w.end[q] = "there" => q \in other.verified
               /\ q \in w.matched /\ q \in w.fresh => q \in other.verified
               /\ q \in ToSet(w.handshakes) \cup w.matched /\ w.end[q] = "none" => q \in other.matched
    <3>1. q \in ToSet(w.handshakes) => q \in ToSet(announced.handshakes) /\ announced.end[q] = w.end[q]
      BY <1>5
    <3>2. w.end[q] = "none" => q \notin w.fresh
      BY <1>1
    <3>3. other.end[q] = w.end[q]
      BY <2>3, <2>7, <2>8
    <3>4. q \in ToSet(w.handshakes) /\ w.end[q] = "there" => q \in other.verified
      BY <2>1, <2>7, <2>8, <3>1
    <3>5. q \in ToSet(w.handshakes) \cup w.matched /\ w.end[q] = "none" => q \in other.matched
      BY <2>1, <2>3, <2>7, <2>8, <3>1, <3>2
    <3> QED BY <2>7, <2>8, <3>3, <3>4, <3>5
  <2>10. \A q \in Others(p) : Greeted(both, q) => Greeted(other, q)
    BY <2>8 DEF Greeted
  <2> QED BY <1>1, <2>3, <2>7, <2>8, <2>9, <2>10 DEF Updated
<1> QED
  BY <1>3, <1>6, <1>7

\* Whatever the game says in a frame.
LEMMA SaysStay ==
  ASSUME Fit, NEW p \in Peers, NEW w \in Good(p),
         NEW says \in Seq({m \in SaidBy(p) : m.origin = p})
  PROVE  InTurn(send, w, says) \in After(p, w)
<1> DEFINE S == After(p, w)
           s == says
           n == Len(s)
           b == w
           step == [i \in 1..n |-> [a \in S |-> send(a, s[i])]]
           so[i \in 0..Len(s)] == IF i = 0 THEN b ELSE send(so[i - 1], s[i])
<1>1. s \in Seq({m \in SaidBy(p) : m.origin = p}) /\ n \in Nat
  OBVIOUS
<1>2. b \in S
  BY AfterAfter
<1>3. \A i \in 1..n : \A v \in S : send(v, s[i]) \in S
  <2> TAKE i \in 1..n
  <2> TAKE v \in S
  <2>1. s[i] \in SaidBy(p) /\ s[i].origin = p
    BY <1>1
  <2>2. v \in After(p, w) /\ v \in Good(p)
    BY DEF After
  <2>3. send(v, s[i]) \in After(p, v)
    <3> HIDE DEF s
    <3> QED BY <2>1, <2>2, SendStays
  <2> HIDE DEF s
  <2> QED
    BY <2>2, <2>3, AfterAfter
<1>4. InTurn(send, w, says) = so[n]
  BY DEF InTurn
<1> HIDE DEF S, s, b
<1>5. PICK f \in [0..n -> S] : Follows(f, b, n, step)
  <2>1. step \in [1..n -> [S -> S]]
    BY <1>3
  <2> HIDE DEF step, n
  <2> QED BY <1>1, <1>2, <2>1, Folds
<1>6. f = [i \in 0..n |-> IF i = 0 THEN b ELSE send(f[i - 1], s[i])]
  <2>1. ASSUME NEW i \in 0..n, i # 0 PROVE f[i] = send(f[i - 1], s[i])
    <3>1. i \in 1..n /\ f[i - 1] \in S
      <4> HIDE DEF step, n
      <4> QED BY <1>1, <1>5, <2>1
    <3>2. f[i] = step[i][f[i - 1]]
      BY <1>5, <3>1 DEF Follows
    <3> QED BY <3>1, <3>2
  <2> HIDE DEF step
  <2> QED BY <1>5, <2>1 DEF Follows
<1>7. so = [i \in 0..n |-> IF i = 0 THEN b ELSE send(so[i - 1], s[i])]
  BY <1>6
<1> HIDE DEF so, step, n
<1>8. so[n] \in S
  <2>1. so[0] \in S
    BY <1>1, <1>2, <1>7
  <2>2. ASSUME NEW i \in 1..n, so[i - 1] \in S PROVE so[i] \in S
    <3>1. so[i] = send(so[i - 1], s[i])
      BY <1>1, <1>7
    <3> QED BY <1>3, <2>2, <3>1
  <2> QED BY <1>1, <2>1, <2>2, StaysAlong
<1> QED
  BY <1>4, <1>8 DEF S

------------------------------------------------------------------------------
\* The state

Named(c) == {mode \in SendModes : Channel(mode) = c}
\* A packet on a channel is of one guarantee, the channel's; one that must not be
\* delayed has no company.
Uniform(packet, c) ==
  \E mode \in Named(c) :
    /\ \A k \in DOMAIN packet : packet[k].mode = mode
    /\ mode = "ReliableNoDelay" => Len(packet) = 1
Carried(p, c) == {packet \in Seq(SaidBy(p)) : Uniform(packet, c)}
Received(p) == {d \in Delivered(p) : Uniform(d.packet, IF d.reliable THEN "reliable" ELSE "unreliable")}

AppsRight ==
  /\ app = [p \in Peers |-> app[p]]
  /\ \A p \in Peers : app[p] \in Good(p) /\ app[p].batches = <<>> /\ app[p].puts = {} /\ app[p].drops = {}
InboxRight ==
  /\ inbox = [p \in Peers |-> inbox[p]]
  /\ \A p \in Peers : inbox[p] \in Seq(Received(p))
WireRight ==
  /\ wire = [l \in Links |-> [reliable |-> wire[l].reliable, unreliable |-> wire[l].unreliable]]
  /\ \A l \in Links : /\ wire[l].reliable \in Seq(Carried(l[1], "reliable"))
                      /\ wire[l].unreliable \in Seq(Carried(l[1], "unreliable"))

\* q is verified for whoever this world is of, or will be when its seat, or lobby, is there.
Settled(w, q) == q \in w.verified \/ (q \in w.matched /\ (w.end[q] = "none" \/ q \in w.fresh))
\* The handshake of q to p has left q and was not read yet.
OnItsWay(q, p) ==
  \/ \E packet \in ToSet(wire[<<q, p>>].reliable) : Bears(packet)
  \/ \E d \in ToSet(inbox[p]) : d.peer = q /\ d.reliable /\ Bears(d.packet)
\* A peer that has appeared to q will have its handshake, or has it on its way, or
\* has done with it what can be done so far.
Waited(p, q) ==
  app[q].end[p] = "there" => p \in app[q].fresh \/ OnItsWay(q, p) \/ Settled(app[p], q)
GreetInv == \A p \in Peers : \A q \in Alike(p) : Waited(p, q)

\* What is true of the peers, their sockets and the network between frames.
PathInv ==
  Fit /\ sent \in 0..bounds.sends /\ AppsRight /\ InboxRight /\ WireRight /\ GreetInv

\* Nothing has been said.
LEMMA InitRight ==
  ASSUME Init PROVE PathInv
<1>1. Fit /\ sent = 0 /\ bounds.sends \in Nat
  BY BoundsAre DEF Init, Fit
<1>2. AppsRight
  <2>1. app = [p \in Peers |-> app[p]]
    BY DEF Init
  <2>2. ASSUME NEW p \in Peers
        PROVE  app[p] \in Good(p) /\ app[p].batches = <<>> /\ app[p].puts = {} /\ app[p].drops = {}
    <3> DEFINE en == [q \in Others(p) |-> "none"]
               h == [q \in Others(p) |-> <<>>]
               e == <<>>
               w == [me |-> p, batches |-> e, puts |-> {}, drops |-> {}, end |-> en, fresh |-> {},
                     verified |-> {}, matched |-> {}, held |-> h, handshakes |-> e, envelopes |-> e,
                     delivered |-> [broadcast |-> e, direct |-> e]]
    <3>1. app[p] = w
      BY DEF Init, NewApp
    <3>2. /\ en \in [Others(p) -> {"none", "there", "gone"}]
          /\ \A q \in Alike(p) : en[q] # "gone"
          /\ h \in [Others(p) -> Seq(Sayings(bounds))]
          /\ \A q \in Others(p) : h[q] \in Seq(SaidBy(q))
      BY DEF Alike
    <3>3. /\ e \in Seq(Sayings(bounds)) /\ e \in Seq(Others(p)) /\ e \in Seq(Envelopes(p))
          /\ e \in Seq(Batch(SaidBy(p), Others(p))) /\ e \in Seq(Readable(p, {}))
          /\ DOMAIN e = {}
      OBVIOUS
    <3>4. app[p].batches = <<>> /\ app[p].puts = {} /\ app[p].drops = {}
      BY <3>1
    <3> HIDE DEF en, h, e
    <3>5. w \in Apps(p)
      BY <3>2, <3>3 DEF Apps
    <3>6. Right(p, w) /\ WellPacked(w.batches, bounds.datagram)
      BY <3>2, <3>3 DEF Right, WellPacked
    <3> QED BY <3>1, <3>4, <3>5, <3>6 DEF Good
  <2> QED BY <2>1, <2>2 DEF AppsRight
<1>3. InboxRight
  BY DEF Init, InboxRight
<1>4. WireRight
  <2> DEFINE e == <<>>
             ch == [reliable |-> e, unreliable |-> e]
  <2>1. wire = [l \in Links |-> ch]
    BY DEF Init
  <2>2. ch.reliable = e /\ ch.unreliable = e /\ ch = [reliable |-> ch.reliable, unreliable |-> ch.unreliable]
    OBVIOUS
  <2>3. \A S : e \in Seq(S)
    OBVIOUS
  <2> HIDE DEF ch, e
  <2>4. wire = [l \in Links |-> [reliable |-> wire[l].reliable, unreliable |-> wire[l].unreliable]]
    BY <2>1, <2>2
  <2>5. \A l \in Links : wire[l].reliable = e /\ wire[l].unreliable = e
    BY <2>1, <2>2
  <2> QED BY <2>3, <2>4, <2>5 DEF WireRight
<1>5. GreetInv
  <2>1. ASSUME NEW p \in Peers, NEW q \in Alike(p) PROVE app[q].end[p] = "none"
    <3>1. q \in Peers /\ p \in Others(q)
      BY OthersAre DEF Alike
    <3> QED BY <3>1 DEF Init, NewApp
  <2> QED BY <2>1 DEF GreetInv, Waited
<1> QED
  BY <1>1, <1>2, <1>3, <1>4, <1>5 DEF PathInv

\* The limits are never changed, so neither is what they allow.
LEMMA SameLimits ==
  ASSUME UNCHANGED bounds
  PROVE  /\ Fit <=> Fit'
         /\ \A p \in Peers : Good(p)' = Good(p) /\ Received(p)' = Received(p)
         /\ \A p \in Peers : \A c : Carried(p, c)' = Carried(p, c)
         /\ \A p \in Peers : Alike(p)' = Alike(p)
<1>1. Sayings(bounds)' = Sayings(bounds)
  BY DEF Sayings
<1>2. \A p : SaidBy(p)' = SaidBy(p)
  BY <1>1 DEF SaidBy
<1>3. \A p : Alike(p)' = Alike(p)
  BY DEF Alike, Differs
<1>4. \A p, vs : Readable(p, vs)' = Readable(p, vs)
  BY <1>1 DEF Readable
<1>5. \A p : Envelopes(p)' = Envelopes(p)
  BY <1>1, <1>2 DEF Envelopes
<1>6. Debts' = Debts
  BY DEF Debts
<1>7. \A p : Apps(p)' = Apps(p)
  BY <1>1, <1>2, <1>5, <1>6 DEF Apps
<1>8. ASSUME NEW p PROVE Good(p)' = Good(p)
  <2>1. \A w : Right(p, w)' <=> Right(p, w)
    BY <1>2, <1>3, <1>4 DEF Right
  <2> QED BY <1>7, <2>1 DEF Good
<1>9. \A p : Delivered(p)' = Delivered(p)
  BY <1>1, <1>2 DEF Delivered
<1>10. \A p : Received(p)' = Received(p)
  BY <1>9 DEF Received
<1>11. \A p, c : Carried(p, c)' = Carried(p, c)
  BY <1>2 DEF Carried
<1> QED
  BY <1>3, <1>8, <1>10, <1>11 DEF Fit

------------------------------------------------------------------------------
\* The network

\* One element less.
LEMMA OneLess ==
  ASSUME NEW S, NEW s \in Seq(S), NEW i \in 1..Len(s)
  PROVE  RemoveAt(s, i) \in Seq(S)
<1>1. SubSeq(s, 1, i - 1) \in Seq(S) /\ SubSeq(s, i + 1, Len(s)) \in Seq(S)
  <2>1. \A k \in 1..(i - 1) : s[k] \in S
    OBVIOUS
  <2>2. \A k \in (i + 1)..Len(s) : s[k] \in S
    OBVIOUS
  <2>3. i \in Int /\ Len(s) \in Int /\ i - 1 \in Int /\ i + 1 \in Int /\ 1 \in Int
    OBVIOUS
  <2> QED BY <2>1, <2>2, <2>3, SubSeqProperties
<1> QED
  BY <1>1 DEF RemoveAt

\* What two queues hold together.
LEMMA OfBoth ==
  ASSUME NEW S, NEW a \in Seq(S), NEW b \in Seq(S)
  PROVE  ToSet(a \o b) = ToSet(a) \cup ToSet(b)
<1> DEFINE t == a \o b
<1>1. Len(a) \in Nat /\ Len(b) \in Nat /\ DOMAIN a = 1..Len(a) /\ DOMAIN b = 1..Len(b)
  OBVIOUS
<1>2. /\ t \in Seq(S) /\ Len(t) = Len(a) + Len(b)
      /\ \A i \in 1..Len(a) : t[i] = a[i]
      /\ \A i \in 1..Len(b) : t[Len(a) + i] = b[i]
  OBVIOUS
<1>3. DOMAIN t = 1..(Len(a) + Len(b))
  BY <1>2
<1> HIDE DEF t
<1>4. ASSUME NEW i \in DOMAIN t PROVE t[i] \in ToSet(a) \cup ToSet(b)
  <2>1. CASE i \in 1..Len(a)
    BY <1>1, <1>2, <2>1 DEF ToSet
  <2>2. CASE i \notin 1..Len(a)
    <3>1. i - Len(a) \in 1..Len(b) /\ Len(a) + (i - Len(a)) = i
      BY <1>1, <1>3, <2>2
    <3>2. t[i] = b[i - Len(a)]
      BY <1>2, <3>1
    <3> QED BY <1>1, <3>1, <3>2 DEF ToSet
  <2> QED BY <2>1, <2>2
<1>5. ASSUME NEW i \in 1..Len(a) PROVE a[i] \in ToSet(t)
  <2>1. i \in DOMAIN t
    BY <1>1, <1>3
  <2> QED BY <1>2, <2>1 DEF ToSet
<1>6. ASSUME NEW i \in 1..Len(b) PROVE b[i] \in ToSet(t)
  <2>1. Len(a) + i \in DOMAIN t
    BY <1>1, <1>3
  <2> QED BY <1>2, <2>1 DEF ToSet
<1>7. ToSet(t) \subseteq ToSet(a) \cup ToSet(b)
  BY <1>4 DEF ToSet
<1>8. ToSet(a) \subseteq ToSet(t) /\ ToSet(b) \subseteq ToSet(t)
  BY <1>1, <1>5, <1>6 DEF ToSet
<1> QED
  BY <1>7, <1>8 DEF t

\* The others are still there.
LEMMA OthersStay ==
  ASSUME NEW S, NEW s \in Seq(S), NEW i \in 1..Len(s), NEW k \in 1..Len(s), k # i
  PROVE  s[k] \in ToSet(RemoveAt(s, i))
<1> DEFINE a == SubSeq(s, 1, i - 1)
           b == SubSeq(s, i + 1, Len(s))
<1>1. i \in Int /\ Len(s) \in Nat /\ i - 1 \in Int /\ i + 1 \in Int /\ 1 \in Int
  OBVIOUS
<1>2. a \in Seq(S) /\ Len(a) = i - 1 /\ \A j \in 1..(i - 1) : a[j] = s[j]
  <2>1. \A j \in 1..(i - 1) : s[j] \in S
    OBVIOUS
  <2> QED BY <1>1, <2>1, SubSeqProperties
<1>3. b \in Seq(S) /\ Len(b) = Len(s) - i /\ \A j \in 1..(Len(s) - i) : b[j] = s[i + j]
  <2>1. \A j \in (i + 1)..Len(s) : s[j] \in S
    OBVIOUS
  <2> QED BY <1>1, <2>1, SubSeqProperties
<1>4. RemoveAt(s, i) = a \o b
  BY DEF RemoveAt
<1> HIDE DEF a, b
<1>5. ToSet(RemoveAt(s, i)) = ToSet(a) \cup ToSet(b)
  BY <1>2, <1>3, <1>4, OfBoth
<1>6. DOMAIN a = 1..(i - 1) /\ DOMAIN b = 1..(Len(s) - i)
  BY <1>2, <1>3
<1>7. CASE k < i
  <2>1. k \in 1..(i - 1)
    BY <1>7
  <2> QED BY <1>2, <1>5, <1>6, <2>1 DEF ToSet
<1>8. CASE k > i
  <2>1. k - i \in 1..(Len(s) - i) /\ i + (k - i) = k
    BY <1>8
  <2> QED BY <1>3, <1>5, <1>6, <2>1 DEF ToSet
<1> QED
  BY <1>7, <1>8

\* The messages of one batch make a packet of its channel.
LEMMA PacketsAreCarried ==
  ASSUME Fit, NEW p \in Peers, NEW w \in Good(p), NEW q \in Others(p), NEW c
  PROVE  Packets(w, q, c) \in Seq(Carried(p, c))
<1> DEFINE S == Batch(SaidBy(p), Others(p))
           keep == {b \in ToSet(w.batches) : b.to = q /\ Channel(b.mode) = c}
           For == Retain(w.batches, keep)
<1>1. w.batches \in Seq(S) /\ WellPacked(w.batches, bounds.datagram)
  BY DEF Good, Apps
<1>2. For \in Seq(S) /\ Range(For) = Range(w.batches) \cap keep
  <2> HIDE DEF S, keep
  <2> QED BY <1>1, RetainKeepsExactly
<1>3. ASSUME NEW i \in DOMAIN For PROVE For[i].packets \in Carried(p, c)
  <2> DEFINE b == For[i]
  <2>1. b \in S /\ b \in Range(For)
    <3> HIDE DEF S, For
    <3> QED BY <1>2, <1>3 DEF Range
  <2> HIDE DEF b
  <2>2. b \in keep
    <3> HIDE DEF keep, For
    <3> QED BY <1>2, <2>1
  <2>3. PICK k \in DOMAIN w.batches : b = w.batches[k]
    BY <2>2 DEF ToSet
  <2>4. Packed(b, bounds.datagram)
    BY <1>1, <2>3 DEF WellPacked
  <2>5. b.packets \in Seq(SaidBy(p)) /\ b.mode \in Named(c)
    BY <2>1, <2>2 DEF Batch, Named
  <2>6. Uniform(b.packets, c)
    BY <2>4, <2>5 DEF Packed, Uniform
  <2> QED BY <2>5, <2>6 DEF Carried, b
<1>4. Packets(w, q, c) = [i \in DOMAIN For |-> For[i].packets]
  BY DEF Packets
<1>5. DOMAIN For = 1..Len(For) /\ Len(For) \in Nat
  BY <1>2
<1> HIDE DEF For
<1> QED
  BY <1>3, <1>4, <1>5

\* A handshake in a batch is in a packet of the reliable channel.
LEMMA PacketsGreet ==
  ASSUME NEW p \in Peers, NEW w \in Good(p), NEW q \in Others(p), Greeted(w, q)
  PROVE  \E packet \in ToSet(Packets(w, q, "reliable")) : Bears(packet)
<1> DEFINE S == Batch(SaidBy(p), Others(p))
           keep == {b \in ToSet(w.batches) : b.to = q /\ Channel(b.mode) = "reliable"}
           For == Retain(w.batches, keep)
<1>1. w.batches \in Seq(S)
  BY DEF Good, Apps
<1>2. For \in Seq(S) /\ Range(For) = Range(w.batches) \cap keep
  <2> HIDE DEF S, keep
  <2> QED BY <1>1, RetainKeepsExactly
<1>3. PICK b \in ToSet(w.batches) : Greets(b, q)
  BY DEF Greeted
<1>4. b \in keep /\ b \in Range(w.batches)
  BY <1>3 DEF Greets, Channel, is_reliable, ToSet, Range
<1>5. Packets(w, q, "reliable") = [i \in DOMAIN For |-> For[i].packets]
  BY DEF Packets
<1> HIDE DEF For, keep
<1>6. PICK k \in DOMAIN For : b = For[k]
  BY <1>2, <1>4 DEF Range
<1>7. b.packets \in ToSet(Packets(w, q, "reliable"))
  BY <1>5, <1>6 DEF ToSet
<1>8. Bears(b.packets)
  BY <1>3 DEF Greets, Bears
<1> QED
  BY <1>7, <1>8

\* The end of a frame: its packets go out, and its batches are empty again.
LEMMA FlushKeeps ==
  ASSUME PathInv, NEW p \in Peers, NEW w \in Good(p), flush_outbound(w), UNCHANGED bounds
  PROVE  AppsRight' /\ WireRight'
<1>0. w.me = p
  BY DEF Good, Apps
<1>1. AppsRight'
  <2> DEFINE e == <<>>
             v == [w EXCEPT !.batches = e, !.puts = {}, !.drops = {}]
  <2>1. app' = [app EXCEPT ![p] = v]
    BY <1>0 DEF flush_outbound
  <2>2. w \in Apps(p) /\ Right(p, w)
    BY DEF Good
  <2>3. e \in Seq(Batch(SaidBy(p), Others(p))) /\ DOMAIN e = {}
    OBVIOUS
  <2>4. e = <<>>
    OBVIOUS
  <2> HIDE DEF e
  <2>5. v \in Apps(p)
    BY <2>2, <2>3 DEF Apps
  <2>6. Right(p, v) /\ v.batches = e /\ v.puts = {} /\ v.drops = {}
    BY <2>2 DEF Right, Apps
  <2>7. WellPacked(e, bounds.datagram)
    BY <2>3 DEF WellPacked
  <2> HIDE DEF v
  <2>8. v \in Good(p)
    BY <2>5, <2>6, <2>7 DEF Good
  <2>9. app = [x \in Peers |-> app[x]]
    BY DEF PathInv, AppsRight
  <2>10. app' = [x \in Peers |-> IF x = p THEN v ELSE app[x]]
    BY <2>1, <2>9
  <2>11. ASSUME NEW x \in Peers
         PROVE  app'[x] \in Good(x)' /\ app'[x].batches = <<>> /\ app'[x].puts = {} /\ app'[x].drops = {}
    <3>1. Good(x)' = Good(x)
      BY SameLimits
    <3>2. CASE x = p
      BY <2>4, <2>6, <2>8, <2>10, <3>1, <3>2
    <3>3. CASE x # p
      BY <2>10, <3>1, <3>3 DEF PathInv, AppsRight
    <3> QED BY <3>2, <3>3
  <2> QED BY <2>10, <2>11 DEF AppsRight
<1>2. WireRight'
  <2> DEFINE new(l) == IF l[1] # p \/ w.end[l[2]] # "there" THEN wire[l]
                       ELSE [c \in DOMAIN wire[l] |-> wire[l][c] \o Packets(w, l[2], c)]
  <2>1. wire' = [l \in Links |-> new(l)]
    BY <1>0 DEF flush_outbound
  <2>2. ASSUME NEW l \in Links
        PROVE  /\ new(l) = [reliable |-> new(l).reliable, unreliable |-> new(l).unreliable]
               /\ new(l).reliable \in Seq(Carried(l[1], "reliable"))
               /\ new(l).unreliable \in Seq(Carried(l[1], "unreliable"))
    <3>1. /\ wire[l] = [reliable |-> wire[l].reliable, unreliable |-> wire[l].unreliable]
          /\ wire[l].reliable \in Seq(Carried(l[1], "reliable"))
          /\ wire[l].unreliable \in Seq(Carried(l[1], "unreliable"))
      BY DEF PathInv, WireRight
    <3>2. CASE l[1] # p \/ w.end[l[2]] # "there"
      BY <3>1, <3>2
    <3>3. CASE ~(l[1] # p \/ w.end[l[2]] # "there")
      <4>1. l[2] \in Others(p) /\ l[1] = p
        BY <3>3 DEF Links
      <4>2. /\ Packets(w, l[2], "reliable") \in Seq(Carried(p, "reliable"))
            /\ Packets(w, l[2], "unreliable") \in Seq(Carried(p, "unreliable"))
        BY <4>1, PacketsAreCarried DEF PathInv
      <4> DEFINE r == wire[l].reliable \o Packets(w, l[2], "reliable")
                 u == wire[l].unreliable \o Packets(w, l[2], "unreliable")
      <4>3. r \in Seq(Carried(p, "reliable")) /\ u \in Seq(Carried(p, "unreliable"))
        BY <3>1, <4>1, <4>2
      <4>4. DOMAIN wire[l] = {"reliable", "unreliable"}
        BY <3>1
      <4>5. new(l) = [reliable |-> r, unreliable |-> u]
        BY <3>3, <4>4
      <4> HIDE DEF r, u, new
      <4> QED BY <4>1, <4>3, <4>5
    <3> QED BY <3>2, <3>3
  <2> HIDE DEF new
  <2>3. ASSUME NEW l \in Links
        PROVE /\ wire'[l] = new(l)
              /\ wire'[l].reliable \in Seq(Carried(l[1], "reliable"))'
              /\ wire'[l].unreliable \in Seq(Carried(l[1], "unreliable"))'
    <3>1. l[1] \in Peers /\ wire'[l] = new(l)
      BY <2>1 DEF Links
    <3>2. \A c : Carried(l[1], c)' = Carried(l[1], c)
      BY <3>1, SameLimits
    <3> QED BY <2>2, <3>1, <3>2
  <2>4. wire' = [l \in Links |-> [reliable |-> wire'[l].reliable, unreliable |-> wire'[l].unreliable]]
    BY <2>1, <2>2, <2>3
  <2> QED BY <2>3, <2>4 DEF WireRight, Links
<1> QED
  BY <1>1, <1>2

\* What leaves with a frame: the handshakes in its batches, and nothing that was under way is lost.
LEMMA FlushSends ==
  ASSUME PathInv, NEW p \in Peers, NEW w \in Good(p), flush_outbound(w)
  PROVE  /\ \A l \in Links : ToSet(wire[l].reliable) \subseteq ToSet(wire'[l].reliable)
         /\ \A q \in Others(p) :
              w.end[q] = "there" /\ Greeted(w, q) => \E packet \in ToSet(wire'[<<p, q>>].reliable) : Bears(packet)
<1> DEFINE new(l) == IF l[1] # p \/ w.end[l[2]] # "there" THEN wire[l]
                     ELSE [c \in DOMAIN wire[l] |-> wire[l][c] \o Packets(w, l[2], c)]
<1>0. w.me = p
  BY DEF Good, Apps
<1>1. wire' = [l \in Links |-> new(l)]
  BY <1>0 DEF flush_outbound
<1>2. ASSUME NEW l \in Links, l[1] = p, w.end[l[2]] = "there"
      PROVE  ToSet(wire'[l].reliable) = ToSet(wire[l].reliable) \cup ToSet(Packets(w, l[2], "reliable"))
  <2>1. l[2] \in Others(p)
    BY <1>2 DEF Links
  <2>2. DOMAIN wire[l] = {"reliable", "unreliable"} /\ wire[l].reliable \in Seq(Carried(p, "reliable"))
    BY <1>2 DEF PathInv, WireRight
  <2>3. Packets(w, l[2], "reliable") \in Seq(Carried(p, "reliable"))
    BY <2>1, PacketsAreCarried DEF PathInv
  <2>4. wire'[l].reliable = wire[l].reliable \o Packets(w, l[2], "reliable")
    BY <1>1, <1>2, <2>2
  <2> QED BY <2>2, <2>3, <2>4, OfBoth
<1>3. ASSUME NEW l \in Links, l[1] # p \/ w.end[l[2]] # "there"
      PROVE  wire'[l] = wire[l]
  BY <1>1, <1>3
<1>4. \A l \in Links : ToSet(wire[l].reliable) \subseteq ToSet(wire'[l].reliable)
  BY <1>2, <1>3
<1>5. ASSUME NEW q \in Others(p), w.end[q] = "there", Greeted(w, q)
      PROVE  \E packet \in ToSet(wire'[<<p, q>>].reliable) : Bears(packet)
  <2> DEFINE l == <<p, q>>
  <2>1. l \in Links /\ l[1] = p /\ l[2] = q
    BY OthersAre DEF Links
  <2> HIDE DEF l
  <2>2. \E packet \in ToSet(Packets(w, q, "reliable")) : Bears(packet)
    BY <1>5, PacketsGreet
  <2>3. ToSet(Packets(w, q, "reliable")) \subseteq ToSet(wire'[l].reliable)
    BY <1>2, <1>5, <2>1
  <2> QED BY <2>2, <2>3 DEF l
<1> QED
  BY <1>4, <1>5

------------------------------------------------------------------------------
\* Every step

\* What the game says is said by its peer.
LEMMA SaysAreSaid ==
  ASSUME PathInv, NEW p \in Peers, NEW n \in 0..bounds.burst, sent + n <= bounds.sends,
         NEW says \in Says(p, n)
  PROVE  says \in [1..n -> {m \in SaidBy(p) : m.origin = p}]
<1>1. PICK f \in [1..n -> [kind : bounds.kinds, mode : bounds.modes, size : bounds.sizes]] :
        says = [i \in 1..n |-> Message(f[i].kind, sent + i, p, f[i].mode, f[i].size)]
  BY DEF Says
<1>2. ASSUME NEW i \in 1..n
      PROVE  Message(f[i].kind, sent + i, p, f[i].mode, f[i].size) \in {m \in SaidBy(p) : m.origin = p}
  <2>1. f[i] \in [kind : bounds.kinds, mode : bounds.modes, size : bounds.sizes]
    BY <1>1
  <2>2. /\ f[i].kind \in {"handshake", "broadcast", "direct"} /\ f[i].mode \in SendModes
        /\ f[i].size \in bounds.sizes \cup {2}
    BY <2>1, BoundsAre DEF PathInv
  <2>3. sent + i \in 0..bounds.sends
    BY BoundsAre DEF PathInv
  <2>4. Message(f[i].kind, sent + i, p, f[i].mode, f[i].size) \in SaidBy(p)
    BY <2>2, <2>3, OwnWord DEF PathInv
  <2> QED BY <2>4 DEF Message
<1> QED
  BY <1>1, <1>2

\* What a frame of p has made of its world before it is flushed: who appeared was
\* greeted, and whoever is settled, or was heard of, is settled.
Worked(p, w) ==
  /\ w.fresh = {}
  /\ \A q \in Alike(p) :
       /\ w.end[q] = app[p].end[q]
       /\ q \in app[p].fresh => Greeted(w, q)
       /\ Settled(app[p], q) \/ (\E d \in ToSet(inbox[p]) : d.peer = q /\ Bears(d.packet)) => Settled(w, q)

\* Reading, the core's systems and the game do that, one after the other.
LEMMA WorkDone ==
  ASSUME Fit, NEW p \in Peers, app[p] \in Good(p), inbox[p] \in Seq(Delivered(p)),
         NEW read, read = relay_broadcast_envelopes(InTurn(decode_ensemble_packet, app[p], inbox[p])),
         NEW before \in Seq({m \in SaidBy(p) : m.origin = p}),
         NEW after \in Seq({m \in SaidBy(p) : m.origin = p}),
         NEW v \in Update(InTurn(send, read, before)),
         NEW w, w = InTurn(send, v, after)
  PROVE  w \in Good(p) /\ Worked(p, w)
<1> DEFINE a == app[p]
           decoded == InTurn(decode_ensemble_packet, a, inbox[p])
           said == InTurn(send, read, before)
<1>1. /\ decoded \in After(p, a)
      /\ \A d \in ToSet(inbox[p]) : Bears(d.packet) => d.peer \in ToSet(decoded.handshakes)
  BY InboxStays
<1> HIDE DEF decoded
<1>2. decoded \in Good(p)
  BY <1>1 DEF After
<1>3. read \in After(p, decoded)
  BY <1>2, EnvelopesStay DEF decoded
<1>4. read \in Good(p)
  BY <1>3 DEF After
<1>5. said \in After(p, read)
  BY <1>4, SaysStay
<1> HIDE DEF said
<1>6. said \in Good(p)
  BY <1>5 DEF After
<1>7. v \in Good(p) /\ Updated(p, said, v)
  BY <1>6, UpdateStays DEF said
<1>8. w \in After(p, v) /\ w \in Good(p)
  BY <1>7, SaysStay DEF After
<1>9. /\ said.fresh = a.fresh /\ a.verified \subseteq said.verified /\ a.matched \subseteq said.matched
      /\ ToSet(decoded.handshakes) \subseteq ToSet(said.handshakes)
      /\ \A q \in Alike(p) : said.end[q] = a.end[q]
  BY <1>1, <1>3, <1>5 DEF After, Gains
<1>10. /\ w.fresh = v.fresh /\ v.verified \subseteq w.verified /\ v.matched \subseteq w.matched
       /\ \A q \in Alike(p) : w.end[q] = v.end[q]
       /\ \A q \in Others(p) : Greeted(v, q) => Greeted(w, q)
  BY <1>8 DEF After, Gains
<1> HIDE DEF a
<1>11. w.fresh = {}
  BY <1>7, <1>10 DEF Updated
<1>12. ASSUME NEW q \in Alike(p)
       PROVE  /\ w.end[q] = a.end[q]
              /\ q \in a.fresh => Greeted(w, q)
              /\ Settled(a, q) \/ (\E d \in ToSet(inbox[p]) : d.peer = q /\ Bears(d.packet)) => Settled(w, q)
  <2>0. q \in Others(p)
    BY DEF Alike
  <2>1. /\ v.end[q] = said.end[q]
        /\ q \in ToSet(said.handshakes) /\ said.end[q] = "there" => q \in v.verified
        /\ q \in said.matched /\ q \in said.fresh => q \in v.verified
        /\ q \in ToSet(said.handshakes) \cup said.matched /\ said.end[q] = "none" => q \in v.matched
        /\ q \in said.fresh => Greeted(v, q)
        /\ said.verified \subseteq v.verified
    BY <1>7 DEF Updated
  <2>2. w.end[q] = a.end[q]
    BY <1>9, <1>10, <2>1
  <2>3. q \in a.fresh => Greeted(w, q)
    BY <1>9, <1>10, <2>0, <2>1
  <2>4. Settled(a, q) => Settled(w, q)
    BY <1>9, <1>10, <2>1, <2>2 DEF Settled
  <2>5. ASSUME NEW d \in ToSet(inbox[p]), d.peer = q, Bears(d.packet)
        PROVE  Settled(w, q)
    <3>1. q \in ToSet(said.handshakes)
      BY <1>1, <1>9, <2>5
    <3>2. a.end[q] = "there" \/ a.end[q] = "none"
      <4>1. a \in Apps(p) /\ Right(p, a)
        BY DEF Good, a
      <4>2. a.end[q] # "gone" /\ a.end[q] \in {"none", "there", "gone"}
        BY <2>0, <4>1 DEF Right, Apps
      <4> QED BY <4>2
    <3>3. CASE a.end[q] = "there"
      BY <1>9, <1>10, <2>1, <3>1, <3>3 DEF Settled
    <3>4. CASE a.end[q] = "none"
      BY <1>9, <1>10, <2>1, <2>2, <3>1, <3>4 DEF Settled
    <3> QED BY <3>2, <3>3, <3>4
  <2> QED BY <2>2, <2>3, <2>4, <2>5
<1> QED
  BY <1>8, <1>11, <1>12 DEF Worked, a

\* A frame of one peer.
LEMMA FrameKeeps ==
  ASSUME PathInv, NEW p \in Peers, Frame(p)
  PROVE  PathInv'
<1>1. PICK n \in {i \in 0..bounds.burst : i > 0 => p \in bounds.speakers /\ sent + i <= bounds.sends} :
        \E says \in Says(p, n), early \in 0..n :
          LET read == relay_broadcast_envelopes(InTurn(decode_ensemble_packet, app[p], inbox[p]))
          IN /\ \E w \in Update(InTurn(send, read, SubSeq(says, 1, early))) :
                  flush_outbound(InTurn(send, w, SubSeq(says, early + 1, n)))
             /\ sent' = sent + n
             /\ inbox' = [inbox EXCEPT ![p] = <<>>]
             /\ UNCHANGED bounds
  BY DEF Frame
<1> DEFINE read == relay_broadcast_envelopes(InTurn(decode_ensemble_packet, app[p], inbox[p]))
<1>2. PICK says \in Says(p, n), early \in 0..n :
          /\ \E w \in Update(InTurn(send, read, SubSeq(says, 1, early))) :
               flush_outbound(InTurn(send, w, SubSeq(says, early + 1, n)))
          /\ sent' = sent + n
          /\ inbox' = [inbox EXCEPT ![p] = <<>>]
          /\ UNCHANGED bounds
  BY <1>1
<1>3. Fit /\ bounds.burst \in Nat /\ bounds.sends \in Nat /\ sent \in 0..bounds.sends
  BY BoundsAre DEF PathInv
<1>4. n \in Nat /\ n \in 0..bounds.burst /\ sent + n <= bounds.sends /\ early \in Nat
  BY <1>1, <1>3
<1> DEFINE Own == {m \in SaidBy(p) : m.origin = p}
           before == SubSeq(says, 1, early)
           after == SubSeq(says, early + 1, n)
<1>5. before \in Seq(Own) /\ after \in Seq(Own)
  <2>1. says \in [1..n -> Own]
    BY <1>4, SaysAreSaid
  <2> HIDE DEF Own
  <2>2. \A i \in 1..early : says[i] \in Own
    BY <1>4, <2>1
  <2>3. \A i \in (early + 1)..n : says[i] \in Own
    BY <1>4, <2>1
  <2>4. 1 \in Int /\ early \in Int /\ early + 1 \in Int /\ n \in Int
    BY <1>4
  <2> QED BY <2>2, <2>3, <2>4, SubSeqProperties
<1>6. app[p] \in Good(p) /\ inbox[p] \in Seq(Delivered(p))
  <2>1. app[p] \in Good(p)
    BY DEF PathInv, AppsRight
  <2>2. inbox[p] \in Seq(Delivered(p))
    <3>1. inbox[p] \in Seq(Received(p)) /\ Received(p) \subseteq Delivered(p)
      BY DEF PathInv, InboxRight, Received
    <3> QED BY <3>1
  <2> QED BY <2>1, <2>2
<1> HIDE DEF read
<1>7. PICK v \in Update(InTurn(send, read, before)) : flush_outbound(InTurn(send, v, after))
  BY <1>2
<1> DEFINE w == InTurn(send, v, after)
<1>8. w \in Good(p) /\ Worked(p, w)
  <2> HIDE DEF before, after, w
  <2> QED BY <1>3, <1>5, <1>6, WorkDone DEF read, w
<1>9. flush_outbound(w) /\ w.me = p
  BY <1>7, <1>8 DEF Good, Apps
<1> HIDE DEF w
<1>11. AppsRight' /\ WireRight'
  BY <1>2, <1>8, <1>9, FlushKeeps
<1>12. sent' \in 0..bounds'.sends
  BY <1>2, <1>3, <1>4
<1>13. InboxRight'
  <2>1. inbox' = [x \in Peers |-> IF x = p THEN <<>> ELSE inbox[x]]
    BY <1>2 DEF PathInv, InboxRight
  <2>2. ASSUME NEW x \in Peers PROVE inbox'[x] \in Seq(Received(x)')
    <3>1. Received(x)' = Received(x)
      BY <1>2, SameLimits
    <3>2. CASE x = p
      BY <2>1, <3>2
    <3>3. CASE x # p
      BY <2>1, <3>1, <3>3 DEF PathInv, InboxRight
    <3> QED BY <3>2, <3>3
  <2> QED BY <2>1, <2>2 DEF InboxRight
<1>14. GreetInv'
  <2> SUFFICES ASSUME NEW x \in Peers, NEW y \in Alike(x), Waited(x, y),
                      app'[y].end[x] = "there"
               PROVE  x \in app'[y].fresh \/ OnItsWay(y, x)' \/ Settled(app'[x], y)
    <3>1. \A x \in Peers : Alike(x)' = Alike(x)
      BY <1>2, SameLimits
    <3> QED BY <3>1 DEF PathInv, GreetInv, Waited
  <2>0. /\ y \in Peers /\ y \in Others(x) /\ x \in Others(y) /\ x \in Alike(y) /\ x # y
    BY OthersAre DEF Alike, Differs
  <2>1. /\ app'[p].end = w.end /\ app'[p].fresh = w.fresh /\ app'[p].verified = w.verified
        /\ app'[p].matched = w.matched
    <3>1. app'[p] = [w EXCEPT !.batches = <<>>, !.puts = {}, !.drops = {}]
      BY <1>9 DEF flush_outbound, PathInv, AppsRight
    <3> QED BY <1>8, <3>1 DEF Good, Apps
  <2>2. \A z \in Peers : z # p => app'[z] = app[z] /\ inbox'[z] = inbox[z]
    BY <1>2, <1>9 DEF flush_outbound, PathInv, AppsRight, InboxRight
  <2>3. /\ \A l \in Links : ToSet(wire[l].reliable) \subseteq ToSet(wire'[l].reliable)
        /\ \A q \in Others(p) : w.end[q] = "there" /\ Greeted(w, q) =>
             \E packet \in ToSet(wire'[<<p, q>>].reliable) : Bears(packet)
    BY <1>8, <1>9, FlushSends
  <2>4. <<y, x>> \in Links
    BY <2>0 DEF Links
  <2>5. CASE y = p
    <3>1. app[y].end[x] = "there"
      BY <1>8, <2>0, <2>1, <2>5 DEF Worked
    <3>2. CASE x \in app[y].fresh
      BY <1>8, <2>0, <2>1, <2>3, <2>5, <3>1, <3>2 DEF Worked, OnItsWay
    <3>3. CASE OnItsWay(y, x)
      BY <2>0, <2>2, <2>3, <2>4, <2>5, <3>3 DEF OnItsWay
    <3>4. CASE Settled(app[x], y)
      BY <2>0, <2>2, <2>5, <3>4
    <3> QED BY <3>1, <3>2, <3>3, <3>4 DEF Waited
  <2>6. CASE x = p
    <3>1. app'[y] = app[y]
      BY <2>0, <2>2, <2>6
    <3>2. Settled(w, y) => Settled(app'[x], y)
      BY <2>1, <2>6 DEF Settled
    <3>3. CASE x \in app[y].fresh
      BY <3>1, <3>3
    <3>4. CASE OnItsWay(y, x)
      <4>1. CASE \E packet \in ToSet(wire[<<y, x>>].reliable) : Bears(packet)
        BY <2>3, <2>4, <4>1 DEF OnItsWay
      <4>2. CASE \E d \in ToSet(inbox[x]) : d.peer = y /\ d.reliable /\ Bears(d.packet)
        BY <1>8, <2>6, <3>2, <4>2 DEF Worked
      <4> QED BY <3>4, <4>1, <4>2 DEF OnItsWay
    <3>5. CASE Settled(app[x], y)
      BY <1>8, <2>6, <3>2, <3>5 DEF Worked
    <3> QED BY <3>1, <3>3, <3>4, <3>5 DEF Waited
  <2>7. CASE x # p /\ y # p
    <3>1. app'[x] = app[x] /\ app'[y] = app[y] /\ inbox'[x] = inbox[x]
      BY <2>0, <2>2, <2>7
    <3>2. OnItsWay(y, x) => OnItsWay(y, x)'
      BY <2>3, <2>4, <3>1 DEF OnItsWay
    <3> QED BY <3>1, <3>2 DEF Waited
  <2> QED BY <2>5, <2>6, <2>7
<1> QED
  BY <1>2, <1>3, <1>11, <1>12, <1>13, <1>14, SameLimits DEF PathInv

\* A seat or a lobby appears.
LEMMA PromoteKeeps ==
  ASSUME PathInv, NEW p \in Peers, NEW q \in Others(p), Promote(p, q)
  PROVE  PathInv'
<1>1. UNCHANGED <<inbox, wire, sent, bounds>>
  BY DEF Promote
<1> DEFINE w == app[p]
           en == [w.end EXCEPT ![q] = "there"]
           fs == w.fresh \cup {q}
           v == [w EXCEPT !.end = en, !.fresh = fs]
<1>0. w.end[q] = "none" /\ p # q /\ q \in Peers
  BY OthersAre DEF Promote
<1>2. /\ w \in Apps(p) /\ Right(p, w) /\ WellPacked(w.batches, bounds.datagram)
      /\ w.batches = <<>> /\ w.puts = {} /\ w.drops = {}
  BY DEF PathInv, AppsRight, Good
<1>3. app = [x \in Peers |-> app[x]]
  BY DEF PathInv, AppsRight
<1>4. app' = [x \in Peers |-> IF x = p THEN v ELSE app[x]]
  BY <1>3 DEF Promote
<1>5. en \in [Others(p) -> {"none", "there", "gone"}] /\ fs \in SUBSET Others(p)
  BY <1>2 DEF Apps
<1>E. en[q] = "there" /\ (\A x \in Others(p) : x # q => en[x] = w.end[x]) /\ fs = w.fresh \cup {q}
  BY <1>2 DEF Apps
<1> HIDE DEF w, en, fs
<1>6. v \in Apps(p)
  BY <1>2, <1>5 DEF Apps
<1>7. /\ v.batches = w.batches /\ v.puts = w.puts /\ v.drops = w.drops
      /\ v.end = en /\ v.fresh = fs /\ v.verified = w.verified /\ v.matched = w.matched
      /\ v.held = w.held /\ v.envelopes = w.envelopes /\ v.delivered = w.delivered
  BY <1>2 DEF Apps
<1>8. v \in Good(p)
  <2>1. Right(p, v)
    <3> HIDE DEF v
    <3>1. \A x \in Alike(p) : v.end[x] # "gone"
      BY <1>2, <1>7, <1>E DEF Right, Alike
    <3>2. \A x \in v.fresh \cap Alike(p) : v.end[x] = "there"
      BY <1>2, <1>7, <1>E DEF Right, Alike
    <3> QED BY <1>2, <1>7, <3>1, <3>2 DEF Right
  <2> QED BY <1>2, <1>6, <1>7, <2>1 DEF Good
<1> HIDE DEF v
<1>9. AppsRight'
  <2>1. ASSUME NEW x \in Peers
        PROVE  app'[x] \in Good(x)' /\ app'[x].batches = <<>> /\ app'[x].puts = {} /\ app'[x].drops = {}
    <3>1. Good(x)' = Good(x)
      BY <1>1, SameLimits
    <3>2. CASE x = p
      BY <1>2, <1>4, <1>7, <1>8, <3>1, <3>2
    <3>3. CASE x # p
      BY <1>4, <3>1, <3>3 DEF PathInv, AppsRight
    <3> QED BY <3>2, <3>3
  <2> QED BY <1>4, <2>1 DEF AppsRight
<1>10. InboxRight'
  BY <1>1, SameLimits DEF PathInv, InboxRight
<1>11. WireRight'
  BY <1>1, SameLimits DEF PathInv, WireRight, Links
<1>12. GreetInv'
  <2> SUFFICES ASSUME NEW x \in Peers, NEW y \in Alike(x), Waited(x, y),
                      app'[y].end[x] = "there"
               PROVE  x \in app'[y].fresh \/ OnItsWay(y, x)' \/ Settled(app'[x], y)
    <3>1. \A x \in Peers : Alike(x)' = Alike(x)
      BY <1>1, SameLimits
    <3> QED BY <3>1 DEF PathInv, GreetInv, Waited
  <2>0. y \in Peers /\ y \in Others(x) /\ x \in Others(y) /\ x # y
    BY OthersAre DEF Alike
  <2>1. OnItsWay(y, x)' <=> OnItsWay(y, x)
    BY <1>1 DEF OnItsWay
  <2>2. Settled(app[x], y) => Settled(app'[x], y)
    <3>1. CASE x = p /\ y = q
      BY <1>4, <1>7, <1>E, <3>1 DEF Settled, w
    <3>2. CASE x = p /\ y # q
      BY <1>4, <1>7, <1>E, <2>0, <3>2 DEF Settled, w
    <3>3. CASE x # p
      BY <1>4, <3>3
    <3> QED BY <3>1, <3>2, <3>3
  <2>3. CASE y = p /\ x = q
    BY <1>4, <1>7, <1>E, <2>3
  <2>4. CASE y = p /\ x # q
    <3>1. app[y].end[x] = "there" /\ (x \in app[y].fresh => x \in app'[y].fresh)
      BY <1>4, <1>7, <1>E, <2>0, <2>4 DEF w
    <3> QED BY <2>1, <2>2, <3>1 DEF Waited
  <2>5. CASE y # p
    BY <1>4, <2>0, <2>1, <2>2, <2>5 DEF Waited
  <2> QED BY <2>3, <2>4, <2>5
<1> QED
  BY <1>1, <1>9, <1>10, <1>11, <1>12, SameLimits DEF PathInv

\* What is in a queue is at its head or behind it.
LEMMA HeadOrTail ==
  ASSUME NEW S, NEW s \in Seq(S), s # <<>>
  PROVE  \A x \in ToSet(s) : x = Head(s) \/ x \in ToSet(Tail(s))
<1>1. Len(s) \in Nat \ {0} /\ DOMAIN s = 1..Len(s) /\ Head(s) = s[1]
  OBVIOUS
<1> DEFINE t == Tail(s)
<1>2. t \in Seq(S) /\ Len(t) = Len(s) - 1 /\ \A i \in 1..Len(t) : t[i] = s[i + 1]
  BY HeadTailProperties
<1> HIDE DEF t
<1>3. ASSUME NEW i \in DOMAIN s, i # 1 PROVE s[i] \in ToSet(t)
  <2>1. i - 1 \in 1..Len(t) /\ (i - 1) + 1 = i
    BY <1>1, <1>2, <1>3
  <2>2. i - 1 \in DOMAIN t
    BY <1>2, <2>1
  <2> QED BY <1>2, <2>1, <2>2 DEF ToSet
<1> QED
  BY <1>1, <1>3 DEF ToSet, t

\* Making room in a backlog leaves what was received what it was.
LEMMA ArrivedIsRight ==
  ASSUME Fit, NEW S, NEW queue \in Seq(S), NEW d \in S
  PROVE  /\ arrive(queue, d) \in Seq(S) /\ d \in ToSet(arrive(queue, d))
         /\ \A e \in ToSet(queue) : e.reliable => e \in ToSet(arrive(queue, d))
<1> DEFINE Queued == UnreliableOf(queue, d.peer)
           oldest == CHOOSE i \in Queued : \A j \in Queued : i <= j
<1>1. Append(queue, d) \in Seq(S) /\ ToSet(Append(queue, d)) = ToSet(queue) \cup {d}
  BY OneMore
<1>2. ASSUME ~(d.reliable \/ Cardinality(Queued) < bounds.backlog)
      PROVE  /\ Append(RemoveAt(queue, oldest), d) \in Seq(S)
             /\ d \in ToSet(Append(RemoveAt(queue, oldest), d))
             /\ \A e \in ToSet(queue) : e.reliable => e \in ToSet(Append(RemoveAt(queue, oldest), d))
  <2>1. Queued # {}
    <3>1. Cardinality({}) = 0 /\ bounds.backlog \in Nat \ {0}
      BY BoundsAre, FS_EmptySet
    <3>2. ~(Cardinality(Queued) < bounds.backlog)
      BY <1>2
    <3> HIDE DEF Queued
    <3>3. ASSUME Queued = {} PROVE FALSE
      <4>1. Cardinality(Queued) = 0
        BY <3>1, <3>3
      <4> QED BY <3>1, <3>2, <4>1
    <3> QED BY <3>3
  <2>2. Queued \in SUBSET Nat /\ Queued \subseteq 1..Len(queue)
    BY DEF UnreliableOf
  <2> HIDE DEF Queued
  <2>3. oldest \in 1..Len(queue)
    BY <2>1, <2>2, LeastNumber
  <2>4. oldest \in Queued
    BY <2>1, <2>2, LeastNumber
  <2> HIDE DEF oldest
  <2>5. RemoveAt(queue, oldest) \in Seq(S)
    BY <2>3, OneLess
  <2>6. ASSUME NEW e \in ToSet(queue), e.reliable PROVE e \in ToSet(RemoveAt(queue, oldest))
    <3>1. PICK k \in 1..Len(queue) : e = queue[k]
      BY DEF ToSet
    <3>2. k # oldest
      BY <2>4, <2>6, <3>1 DEF Queued, UnreliableOf
    <3> QED BY <2>3, <3>1, <3>2, OthersStay
  <2>7. ToSet(Append(RemoveAt(queue, oldest), d)) = ToSet(RemoveAt(queue, oldest)) \cup {d}
    BY <2>5, OneMore
  <2> QED BY <2>5, <2>6, <2>7
<1> QED
  BY <1>1, <1>2 DEF arrive

\* A packet that arrives was sent on that channel.
LEMMA ArriveKeeps ==
  ASSUME PathInv, NEW p \in Peers, NEW q \in Others(p), NEW reliable \in BOOLEAN,
         NEW packet \in Carried(p, IF reliable THEN "reliable" ELSE "unreliable"),
         Arrive(p, q, packet, reliable)
  PROVE  /\ UNCHANGED <<app, sent, bounds>> /\ AppsRight' /\ InboxRight'
         /\ \A x \in Peers : \A e \in ToSet(inbox[x]) : e.reliable => e \in ToSet(inbox'[x])
         /\ [peer |-> p, packet |-> packet, reliable |-> reliable] \in ToSet(inbox'[q])
<1> DEFINE d == [peer |-> p, packet |-> packet, reliable |-> reliable]
<1>0. UNCHANGED <<app, sent, bounds>> /\ inbox' = [inbox EXCEPT ![q] = arrive(inbox[q], d)]
  BY DEF Arrive
<1>1. q \in Peers /\ p \in Others(q) /\ Fit
  BY OthersAre DEF PathInv
<1>2. d \in Received(q)
  <2>1. packet \in Seq(SaidBy(p)) /\ Uniform(packet, IF reliable THEN "reliable" ELSE "unreliable")
    BY DEF Carried
  <2>2. packet \in Seq(Sayings(bounds))
    BY <1>1, <2>1, SayingsAre
  <2> QED BY <1>1, <2>1, <2>2 DEF Received, Delivered
<1> HIDE DEF d
<1>3. /\ arrive(inbox[q], d) \in Seq(Received(q)) /\ d \in ToSet(arrive(inbox[q], d))
      /\ \A e \in ToSet(inbox[q]) : e.reliable => e \in ToSet(arrive(inbox[q], d))
  BY <1>1, <1>2, ArrivedIsRight DEF PathInv, InboxRight
<1>4. inbox' = [x \in Peers |-> IF x = q THEN arrive(inbox[q], d) ELSE inbox[x]]
  BY <1>0 DEF PathInv, InboxRight
<1>5. InboxRight'
  <2>1. ASSUME NEW x \in Peers PROVE inbox'[x] \in Seq(Received(x)')
    <3>1. Received(x)' = Received(x)
      BY <1>0, SameLimits
    <3> QED BY <1>3, <1>4, <3>1 DEF PathInv, InboxRight
  <2> QED BY <1>4, <2>1 DEF InboxRight
<1>6. AppsRight'
  BY <1>0, SameLimits DEF PathInv, AppsRight
<1>7. \A x \in Peers : \A e \in ToSet(inbox[x]) : e.reliable => e \in ToSet(inbox'[x])
  BY <1>3, <1>4
<1>8. d \in ToSet(inbox'[q])
  BY <1>1, <1>3, <1>4
<1> QED
  BY <1>0, <1>5, <1>6, <1>7, <1>8 DEF d

\* A channel with one packet less.
LEMMA TakenKeeps ==
  ASSUME PathInv, NEW l \in Links, UNCHANGED bounds,
         NEW r \in Seq(Carried(l[1], "reliable")), NEW u \in Seq(Carried(l[1], "unreliable")),
         \/ wire' = [wire EXCEPT ![l].reliable = r] /\ u = wire[l].unreliable
         \/ wire' = [wire EXCEPT ![l].unreliable = u] /\ r = wire[l].reliable
  PROVE  /\ WireRight'
         /\ wire'[l].reliable = r /\ \A k \in Links : k # l => wire'[k] = wire[k]
<1>1. wire = [k \in Links |-> [reliable |-> wire[k].reliable, unreliable |-> wire[k].unreliable]]
  BY DEF PathInv, WireRight
<1>2. wire[l] = [reliable |-> wire[l].reliable, unreliable |-> wire[l].unreliable]
  BY <1>1
<1>3. wire' = [wire EXCEPT ![l] = [reliable |-> r, unreliable |-> u]]
  <2>1. [wire[l] EXCEPT !.reliable = r] = [reliable |-> r, unreliable |-> wire[l].unreliable]
    BY <1>2
  <2>2. [wire[l] EXCEPT !.unreliable = u] = [reliable |-> wire[l].reliable, unreliable |-> u]
    BY <1>2
  <2> QED BY <2>1, <2>2
<1>4. wire' = [k \in Links |-> IF k = l THEN [reliable |-> r, unreliable |-> u] ELSE wire[k]]
  BY <1>1, <1>3
<1>5. ASSUME NEW k \in Links
      PROVE  /\ wire'[k] = [reliable |-> wire'[k].reliable, unreliable |-> wire'[k].unreliable]
             /\ wire'[k].reliable \in Seq(Carried(k[1], "reliable"))'
             /\ wire'[k].unreliable \in Seq(Carried(k[1], "unreliable"))'
  <2>1. k[1] \in Peers
    BY DEF Links
  <2>2. \A c : Carried(k[1], c)' = Carried(k[1], c)
    BY <2>1, SameLimits
  <2>3. CASE k = l
    BY <1>4, <2>2, <2>3
  <2>4. CASE k # l
    BY <1>1, <1>4, <2>2, <2>4 DEF PathInv, WireRight
  <2> QED BY <2>3, <2>4
<1>6. WireRight'
  BY <1>4, <1>5 DEF WireRight, Links
<1> QED
  BY <1>4, <1>6

\* Worlds are as they were, and what was on its way is.
LEMMA GreetingsStay ==
  ASSUME GreetInv, UNCHANGED <<app, bounds>>,
         \A x \in Peers : \A y \in Others(x) : OnItsWay(y, x) => OnItsWay(y, x)'
  PROVE  GreetInv'
<1>1. ASSUME NEW x \in Peers, NEW y \in Alike(x) PROVE Waited(x, y)'
  <2>1. Waited(x, y) /\ y \in Others(x)
    BY DEF GreetInv, Alike
  <2> QED BY <2>1 DEF Waited
<1>2. \A x \in Peers : Alike(x)' = Alike(x)
  BY SameLimits
<1> QED
  BY <1>1, <1>2 DEF GreetInv

\* A packet of the reliable channel arrives, the oldest first.
LEMMA ArriveReliableKeeps ==
  ASSUME PathInv, NEW l \in Links, ArriveReliable(l[1], l[2])
  PROVE  PathInv'
<1>0. l = <<l[1], l[2]>> /\ l[1] \in Peers /\ l[2] \in Others(l[1])
  BY DEF Links
<1> DEFINE line == wire[l].reliable
           rest == Tail(line)
           u == wire[l].unreliable
<1>1. /\ line # <<>> /\ wire' = [wire EXCEPT ![l].reliable = rest]
      /\ Arrive(l[1], l[2], Head(line), TRUE)
  BY <1>0 DEF ArriveReliable
<1>2. line \in Seq(Carried(l[1], "reliable")) /\ u \in Seq(Carried(l[1], "unreliable"))
  BY DEF PathInv, WireRight
<1> HIDE DEF line
<1>3. Head(line) \in Carried(l[1], "reliable") /\ rest \in Seq(Carried(l[1], "reliable"))
  BY <1>1, <1>2
<1> DEFINE d == [peer |-> l[1], packet |-> Head(line), reliable |-> TRUE]
<1>4. /\ UNCHANGED <<app, sent, bounds>> /\ AppsRight' /\ InboxRight'
      /\ \A x \in Peers : \A e \in ToSet(inbox[x]) : e.reliable => e \in ToSet(inbox'[x])
      /\ d \in ToSet(inbox'[l[2]])
  BY <1>0, <1>1, <1>3, ArriveKeeps
<1>H. \A x \in ToSet(line) : x = Head(line) \/ x \in ToSet(rest)
  BY <1>1, <1>2, HeadOrTail
<1> HIDE DEF rest, u
<1>5. /\ WireRight' /\ wire'[l].reliable = rest
      /\ \A k \in Links : k # l => wire'[k] = wire[k]
  BY <1>1, <1>2, <1>3, <1>4, TakenKeeps DEF u
<1>6. GreetInv'
  <2>1. ASSUME NEW x \in Peers, NEW y \in Others(x), OnItsWay(y, x)
        PROVE  OnItsWay(y, x)'
    <3>1. <<y, x>> \in Links
      BY OthersAre DEF Links
    <3>2. CASE \E e \in ToSet(inbox[x]) : e.peer = y /\ e.reliable /\ Bears(e.packet)
      BY <1>4, <3>2 DEF OnItsWay
    <3>3. CASE l # <<y, x>> /\ \E packet \in ToSet(wire[<<y, x>>].reliable) : Bears(packet)
      BY <1>5, <3>1, <3>3 DEF OnItsWay
    <3>4. ASSUME l = <<y, x>>, NEW packet \in ToSet(wire[<<y, x>>].reliable), Bears(packet)
          PROVE  OnItsWay(y, x)'
      <4>0. l[1] = y /\ l[2] = x /\ packet \in ToSet(line)
        BY <3>4 DEF line
      <4>1. CASE packet \in ToSet(rest)
        BY <1>5, <3>4, <4>1 DEF OnItsWay
      <4>2. CASE packet = Head(line)
        <5>1. d.peer = y /\ d.reliable /\ d.packet = packet
          BY <4>0, <4>2
        <5> HIDE DEF d
        <5> QED BY <1>4, <3>4, <4>0, <5>1 DEF OnItsWay
      <4> QED BY <1>H, <4>0, <4>1, <4>2
    <3> QED BY <2>1, <3>2, <3>3, <3>4 DEF OnItsWay
  <2> QED BY <1>4, <2>1, GreetingsStay DEF PathInv
<1> QED
  BY <1>4, <1>5, <1>6, SameLimits DEF PathInv

\* One of the unreliable channel arrives, or is lost.
LEMMA ArriveUnreliableKeeps ==
  ASSUME PathInv, NEW l \in Links, ArriveUnreliable(l[1], l[2]) \/ Lose(l[1], l[2])
  PROVE  PathInv'
<1>0. l = <<l[1], l[2]>> /\ l[1] \in Peers /\ l[2] \in Others(l[1])
  BY DEF Links
<1> DEFINE line == wire[l].unreliable
           r == wire[l].reliable
<1>1. PICK i \in DOMAIN line :
        /\ wire' = [wire EXCEPT ![l].unreliable = RemoveAt(line, i)]
        /\ \/ Arrive(l[1], l[2], line[i], FALSE)
           \/ UNCHANGED <<app, inbox, sent, bounds>>
  BY <1>0 DEF ArriveUnreliable, Lose
<1>2. line \in Seq(Carried(l[1], "unreliable")) /\ r \in Seq(Carried(l[1], "reliable"))
  BY DEF PathInv, WireRight
<1> HIDE DEF line
<1> DEFINE u == RemoveAt(line, i)
<1>3. line[i] \in Carried(l[1], "unreliable") /\ i \in 1..Len(line)
  BY <1>1, <1>2
<1>4. u \in Seq(Carried(l[1], "unreliable"))
  BY <1>2, <1>3, OneLess
<1>5. /\ UNCHANGED <<app, sent, bounds>> /\ AppsRight' /\ InboxRight'
      /\ \A x \in Peers : \A e \in ToSet(inbox[x]) : e.reliable => e \in ToSet(inbox'[x])
  <2>1. CASE Arrive(l[1], l[2], line[i], FALSE)
    BY <1>0, <1>3, <2>1, ArriveKeeps
  <2>2. CASE UNCHANGED <<app, inbox, sent, bounds>>
    BY <2>2, SameLimits DEF PathInv, AppsRight, InboxRight
  <2> QED BY <1>1, <2>1, <2>2
<1>6. wire' = [wire EXCEPT ![l].unreliable = u]
  BY <1>1
<1> HIDE DEF u, r
<1>7. /\ WireRight' /\ wire'[l].reliable = r
      /\ \A k \in Links : k # l => wire'[k] = wire[k]
  BY <1>2, <1>4, <1>5, <1>6, TakenKeeps DEF r
<1>8. GreetInv'
  <2>1. ASSUME NEW x \in Peers, NEW y \in Others(x), OnItsWay(y, x)
        PROVE  OnItsWay(y, x)'
    <3>1. <<y, x>> \in Links
      BY OthersAre DEF Links
    <3>2. wire'[<<y, x>>].reliable = wire[<<y, x>>].reliable
      BY <1>7, <3>1 DEF r
    <3> QED BY <1>5, <2>1, <3>2 DEF OnItsWay
  <2> QED BY <1>5, <2>1, GreetingsStay DEF PathInv
<1> QED
  BY <1>5, <1>7, <1>8, SameLimits DEF PathInv

\* Nothing happens.
LEMMA StutterKeeps ==
  ASSUME PathInv, UNCHANGED vars
  PROVE  PathInv'
<1>1. UNCHANGED <<app, inbox, wire, sent, bounds>>
  BY DEF vars
<1> QED
  <2>1. GreetInv'
    BY <1>1, GreetingsStay DEF PathInv, OnItsWay
  <2> QED BY <1>1, <2>1, SameLimits DEF PathInv, AppsRight, InboxRight, WireRight, Links

\* Whatever happens next.
LEMMA StepKeeps ==
  ASSUME PathInv, [Next]_vars
  PROVE  PathInv'
<1>1. ASSUME NEW p \in Peers, Frame(p) PROVE PathInv'
  BY <1>1, FrameKeeps
<1>2. ASSUME NEW l \in Links, Promote(l[1], l[2]) PROVE PathInv'
  BY <1>2, PromoteKeeps DEF Links
<1>3. ASSUME NEW l \in Links, ArriveReliable(l[1], l[2]) PROVE PathInv'
  BY <1>3, ArriveReliableKeeps
<1>4. ASSUME NEW l \in Links, ArriveUnreliable(l[1], l[2]) \/ Lose(l[1], l[2]) PROVE PathInv'
  BY <1>4, ArriveUnreliableKeeps
<1> QED
  BY <1>1, <1>2, <1>3, <1>4, StutterKeeps DEF Next

\* The invariant always holds.
THEOREM PathsStayRight == Spec => []PathInv
<1>1. Init => PathInv
  BY InitRight
<1>2. PathInv /\ [Next]_vars => PathInv'
  BY StepKeeps
<1> QED
  BY <1>1, <1>2, PTL DEF Spec

\* Whatever was delivered came from its author's, or the host's, verified end.
LEMMA InvReads ==
  ASSUME PathInv
  PROVE  OnlyTheComparedAreRead
<1> SUFFICES ASSUME NEW p \in Peers,
                    NEW m \in ToSet(app[p].delivered.direct \o app[p].delivered.broadcast), m.origin # p
             PROVE  IF p = Host THEN m.origin \in app[p].verified /\ ~Differs(p, m.origin)
                    ELSE Host \in app[p].verified /\ ~Differs(p, Host)
  BY DEF OnlyTheComparedAreRead
<1> DEFINE w == app[p]
           all == w.delivered.direct \o w.delivered.broadcast
<1>1. Right(p, w)
  BY DEF PathInv, AppsRight, Good
<1>2. all \in Seq(Readable(p, w.verified))
  BY <1>1 DEF Right
<1>3. m \in Readable(p, w.verified)
  <2> HIDE DEF all
  <2>1. m \in ToSet(all)
    BY DEF all
  <2> QED BY <1>2, <2>1 DEF ToSet
<1>4. w.verified \subseteq Alike(p)
  BY <1>1 DEF Right
<1> HIDE DEF w, all
<1>5. IF p = Host THEN m.origin \in w.verified ELSE Host \in w.verified
  BY <1>3 DEF Readable
<1>6. \A q \in w.verified : ~Differs(p, q)
  BY <1>4 DEF Alike
<1> QED
  BY <1>5, <1>6 DEF w

\* Nothing but a handshake is read from a peer whose protocol was not compared or
\* differs, however many messages, packets and peers there are.
THEOREM NothingUncomparedIsRead == Spec => []OnlyTheComparedAreRead
<1>1. PathInv => OnlyTheComparedAreRead
  BY InvReads
<1> QED
  BY <1>1, PathsStayRight, PTL

\* When all is quiet, nobody waits for a handshake that will not come.
LEMMA InvWaits ==
  ASSUME PathInv
  PROVE  NobodyWaitsInVain
<1> SUFFICES ASSUME Quiet, NEW l \in Links, ~Differs(l[1], l[2]),
                    app[l[1]].end[l[2]] = "there", app[l[2]].end[l[1]] = "there"
             PROVE  l[2] \in app[l[1]].verified /\ app[l[1]].held[l[2]] = <<>>
  BY DEF NobodyWaitsInVain
<1> DEFINE p == l[1]
           q == l[2]
<1>1. p \in Peers /\ q \in Peers /\ q \in Others(p) /\ p \in Others(q) /\ q \in Alike(p)
  BY OthersAre DEF Links, Alike
<1>2. <<q, p>> \in Links
  BY <1>1 DEF Links
<1>3. /\ inbox[p] = <<>> /\ app[p].fresh = {} /\ app[q].fresh = {} /\ wire[<<q, p>>].reliable = <<>>
  BY <1>1, <1>2 DEF Quiet
<1>4. Waited(p, q)
  BY <1>1 DEF PathInv, GreetInv
<1>5. Right(p, app[p])
  BY <1>1 DEF PathInv, AppsRight, Good
<1> HIDE DEF p, q
<1>6. ~OnItsWay(q, p)
  BY <1>3 DEF OnItsWay, ToSet
<1>7. q \in app[p].verified
  <2>1. app[p].end[q] = "there" /\ app[q].end[p] = "there"
    BY DEF p, q
  <2>2. Settled(app[p], q)
    BY <1>3, <1>4, <1>6, <2>1 DEF Waited
  <2> QED BY <1>3, <2>1, <2>2 DEF Settled
<1>8. app[p].held[q] = <<>>
  BY <1>5, <1>7 DEF Right
<1> QED
  BY <1>7, <1>8 DEF p, q

\* Peers of one build that have appeared to each other have compared their
\* protocols, and hold nothing back, once nothing is under way: whichever appeared
\* first, and whatever frames and packets the handshakes shared.
THEOREM NobodyIsLeftWaiting == Spec => []NobodyWaitsInVain
<1>1. PathInv => NobodyWaitsInVain
  BY InvWaits
<1> QED
  BY <1>1, PathsStayRight, PTL
==============================================================================
