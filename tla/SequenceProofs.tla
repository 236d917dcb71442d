---------------------------- MODULE SequenceProofs ----------------------------
(***************************************************************************)
(* What the other proofs need to know of sequences.                        *)
(*                                                                         *)
(* The elements Retain returns are exactly those that are to be kept.  The *)
(* rank of an index among the kept ones is an injection into as many       *)
(* numbers as there are kept indices, hence onto them, so the CHOOSE in    *)
(* Retain always has a witness.                                            *)
(*                                                                         *)
(* A function that is defined along a sequence exists: its steps can be    *)
(* taken one after the other, as far as the sequence goes.                 *)
(***************************************************************************)
EXTENDS JoinOrder, Integers, FiniteSetTheorems, FunctionTheorems,
        SequenceTheorems, WellFoundedInduction, TLAPS

------------------------------------------------------------------------------
\* Retain

\* Ranks number the indices from 1 to their count: each number is the rank of
\* exactly one of them.
LEMMA RanksNumberThePlaces ==
  ASSUME NEW n \in Nat, NEW places \in SUBSET (1..n)
  PROVE  /\ Cardinality(places) \in Nat
         /\ \A i \in places : RankIn(places, i) \in 1..Cardinality(places)
         /\ \A i, j \in places : RankIn(places, i) = RankIn(places, j) => i = j
         /\ \A k \in 1..Cardinality(places) :
              \E i \in places : RankIn(places, i) = k
<1> DEFINE count == Cardinality(places)
           below(i) == {j \in places : j <= i}
           rank == [i \in places |-> RankIn(places, i)]
<1>1. IsFiniteSet(places)
  <2>1. IsFiniteSet(1..n)
    BY FS_Interval
  <2> QED
    BY <2>1, FS_Subset
<1>2. count \in Nat
  BY <1>1, FS_CardinalityType
<1>3. ASSUME NEW i \in places
      PROVE  IsFiniteSet(below(i)) /\ Cardinality(below(i)) \in 1..count
  <2>1. below(i) \in SUBSET places
    OBVIOUS
  <2>2. i \in below(i)
    OBVIOUS
  <2>3. IsFiniteSet(below(i)) /\ Cardinality(below(i)) <= count
    BY <1>1, <2>1, FS_Subset
  <2>4. Cardinality(below(i)) # 0
    BY <2>2, <2>3, FS_EmptySet
  <2>5. Cardinality(below(i)) \in Nat
    BY <2>3, FS_CardinalityType
  <2> HIDE DEF below, count
  <2> QED
    BY <1>2, <2>3, <2>4, <2>5
<1>4. ASSUME NEW i \in places, NEW j \in places, i < j
      PROVE  RankIn(places, i) # RankIn(places, j)
  <2>1. below(i) \in SUBSET below(j)
    <3> SUFFICES ASSUME NEW k \in places, k <= i
                 PROVE  k <= j
      OBVIOUS
    <3>1. i \in Nat /\ j \in Nat /\ k \in Nat
      OBVIOUS
    <3> QED
      BY <1>4, <3>1
  <2>2. j \in below(j) /\ j \notin below(i)
    BY <1>4
  <2>3. IsFiniteSet(below(j))
    BY <1>3
  <2>4. Cardinality(below(j)) # Cardinality(below(i))
    BY <2>1, <2>2, <2>3, FS_Subset
  <2> QED
    BY <2>4 DEF RankIn
<1>5. \A i, j \in places : RankIn(places, i) = RankIn(places, j) => i = j
  <2>1. \A i, j \in places : i < j \/ j < i \/ i = j
    OBVIOUS
  <2> QED
    BY <1>4, <2>1
<1>6. \A i \in places : RankIn(places, i) \in 1..count
  BY <1>3 DEF RankIn
<1>7. rank \in [places -> 1..count]
  BY <1>6
<1>8. rank \in Injection(places, 1..count)
  <2> HIDE DEF count
  <2>1. \A i, j \in places : rank[i] = rank[j] => i = j
    BY <1>5
  <2> HIDE DEF rank
  <2> QED
    BY <1>7, <2>1, Fun_IsInj
<1>9. rank \in Surjection(places, 1..count)
  <2>1. IsFiniteSet(1..count)
    BY <1>2, FS_Interval
  <2>2. Cardinality(1..count) = count
    <3>1. Cardinality(1..count) = IF 1 > count THEN 0 ELSE count - 1 + 1
      BY <1>2, FS_Interval
    <3> HIDE DEF count
    <3> QED
      BY <1>2, <3>1
  <2> HIDE DEF rank
  <2> QED
    BY <1>8, <2>1, <2>2, FS_Injection
<1>10. \A k \in 1..count : \E i \in places : rank[i] = k
  <2> HIDE DEF rank, count
  <2> QED
    BY <1>9, Fun_SurjectionProperties
<1> QED
  BY <1>2, <1>5, <1>6, <1>10

\* Vec::retain keeps exactly what it is told to keep, and invents nothing.
THEOREM RetainKeepsExactly ==
  ASSUME NEW S, NEW s \in Seq(S), NEW keep
  PROVE  /\ Retain(s, keep) \in Seq(S)
         /\ Range(Retain(s, keep)) = Range(s) \cap keep
<1> DEFINE places == PlacesOf(s, keep)
           count == Cardinality(places)
           pick(k) == CHOOSE i \in places : RankIn(places, i) = k
           kept == [k \in 1..count |-> s[pick(k)]]
<1>1. Len(s) \in Nat /\ DOMAIN s = 1..Len(s) /\ \A i \in 1..Len(s) : s[i] \in S
  OBVIOUS
<1>2. places \in SUBSET (1..Len(s))
  BY <1>1 DEF PlacesOf
<1>3. /\ count \in Nat
      /\ \A i \in places : RankIn(places, i) \in 1..count
      /\ \A i, j \in places : RankIn(places, i) = RankIn(places, j) => i = j
      /\ \A k \in 1..count : \E i \in places : RankIn(places, i) = k
  BY <1>1, <1>2, RanksNumberThePlaces
<1>4. \A k \in 1..count : pick(k) \in places /\ RankIn(places, pick(k)) = k
  BY <1>3
<1>5. Retain(s, keep) = kept
  BY DEF Retain
<1>6. \A i \in places : s[i] \in S /\ s[i] \in keep
  BY <1>1 DEF PlacesOf
<1>7. kept \in Seq(S)
  <2>1. kept \in [1..count -> S]
    BY <1>4, <1>6
  <2> HIDE DEF kept, count
  <2> QED
    BY <1>3, <2>1
<1>8. \A x \in Range(kept) : x \in Range(s) \cap keep
  BY <1>1, <1>2, <1>4, <1>6 DEF Range
<1>9. ASSUME NEW x \in Range(s) \cap keep
      PROVE  x \in Range(kept)
  <2>1. PICK i \in places : s[i] = x
    BY DEF PlacesOf, Range
  <2>2. RankIn(places, i) \in 1..count
    BY <1>3
  <2>3. pick(RankIn(places, i)) = i
    BY <1>3, <1>4, <2>2
  <2>4. kept[RankIn(places, i)] = x
    BY <2>1, <2>2, <2>3
  <2> QED
    BY <2>2, <2>4 DEF Range
<1> QED
  BY <1>5, <1>7, <1>8, <1>9

\* Each number up to the count of the kept places is the rank of the place that
\* Retain picks for it, and of no other.
LEMMA RetainPicks ==
  ASSUME NEW S, NEW s \in Seq(S), NEW keep
  PROVE  LET places == PlacesOf(s, keep)
             t == Retain(s, keep)
         IN /\ places \in SUBSET (1..Len(s))
            /\ Len(t) = Cardinality(places) /\ Len(t) \in Nat
            /\ DOMAIN t = 1..Len(t)
            /\ \A i \in places : RankIn(places, i) \in 1..Len(t) /\ t[RankIn(places, i)] = s[i]
            /\ \A k \in 1..Len(t) : \E i \in places : RankIn(places, i) = k
            /\ \A i, j \in places : RankIn(places, i) = RankIn(places, j) => i = j
<1> DEFINE places == PlacesOf(s, keep)
           count == Cardinality(places)
           pick(k) == CHOOSE i \in places : RankIn(places, i) = k
           kept == [k \in 1..count |-> s[pick(k)]]
<1>1. Len(s) \in Nat /\ places \in SUBSET (1..Len(s))
  BY DEF PlacesOf
<1>2. /\ count \in Nat
      /\ \A i \in places : RankIn(places, i) \in 1..count
      /\ \A i, j \in places : RankIn(places, i) = RankIn(places, j) => i = j
      /\ \A k \in 1..count : \E i \in places : RankIn(places, i) = k
  BY <1>1, RanksNumberThePlaces
<1>3. \A k \in 1..count : pick(k) \in places /\ RankIn(places, pick(k)) = k
  BY <1>2
<1>4. Retain(s, keep) = kept
  BY DEF Retain
<1>5. \A i \in places : kept[RankIn(places, i)] = s[i]
  <2> TAKE i \in places
  <2>1. RankIn(places, i) \in 1..count
    BY <1>2
  <2>2. pick(RankIn(places, i)) = i
    BY <1>2, <1>3, <2>1
  <2> QED
    BY <2>1, <2>2
<1>6. Len(kept) = count /\ DOMAIN kept = 1..count
  BY <1>2
<1> HIDE DEF kept, pick
<1> QED
  BY <1>1, <1>2, <1>4, <1>5, <1>6

LEMMA HowManyNumbers ==
  ASSUME NEW n \in Nat
  PROVE  IsFiniteSet(1..n) /\ Cardinality(1..n) = n
<1>1. IsFiniteSet(1..n) /\ Cardinality(1..n) = IF 1 > n THEN 0 ELSE n - 1 + 1
  BY FS_Interval
<1> QED
  BY <1>1

\* What is kept of a list is no longer than the list.
LEMMA RetainShortens ==
  ASSUME NEW S, NEW s \in Seq(S), NEW keep
  PROVE  Len(Retain(s, keep)) \in Nat /\ Len(Retain(s, keep)) <= Len(s)
<1>1. /\ PlacesOf(s, keep) \in SUBSET (1..Len(s)) /\ Len(s) \in Nat
      /\ Len(Retain(s, keep)) = Cardinality(PlacesOf(s, keep))
      /\ Len(Retain(s, keep)) \in Nat
  BY RetainPicks
<1>2. IsFiniteSet(1..Len(s)) /\ Cardinality(1..Len(s)) = Len(s)
  BY <1>1, HowManyNumbers
<1>3. Cardinality(PlacesOf(s, keep)) <= Cardinality(1..Len(s))
  BY <1>1, <1>2, FS_Subset
<1> QED
  BY <1>1, <1>2, <1>3

\* Only which elements of the list are to be kept matters.
LEMMA RetainOfTheListed ==
  ASSUME NEW s, NEW a, NEW b, Range(s) \cap a = Range(s) \cap b
  PROVE  Retain(s, a) = Retain(s, b)
<1>1. PlacesOf(s, a) = PlacesOf(s, b)
  BY DEF PlacesOf, Range
<1> QED
  BY <1>1 DEF Retain

\* Keeping everybody changes nothing.
LEMMA RetainEverybody ==
  ASSUME NEW S, NEW s \in Seq(S), NEW keep, Range(s) \subseteq keep
  PROVE  Retain(s, keep) = s
<1> DEFINE places == PlacesOf(s, keep)
           t == Retain(s, keep)
<1>1. Len(s) \in Nat /\ DOMAIN s = 1..Len(s)
  OBVIOUS
<1>2. places = 1..Len(s)
  BY <1>1 DEF PlacesOf, Range
<1>3. \A i \in 1..Len(s) : RankIn(places, i) = i
  <2> TAKE i \in 1..Len(s)
  <2>1. {j \in places : j <= i} = 1..i
    BY <1>1, <1>2
  <2>2. Cardinality(1..i) = i
    BY <1>1, FS_Interval
  <2> QED
    BY <2>1, <2>2 DEF RankIn
<1>4. Len(t) = Len(s)
  <2>1. Cardinality(1..Len(s)) = Len(s)
    BY <1>1, FS_Interval, SMTT(30)
  <2> QED
    BY <1>2, <2>1, RetainPicks
<1>5. \A i \in 1..Len(s) : t[i] = s[i]
  BY <1>2, <1>3, RetainPicks
<1>6. t \in Seq(S)
  BY RetainKeepsExactly
<1> HIDE DEF t
<1>7. t = s
  BY <1>1, <1>4, <1>5, <1>6
<1> QED
  BY <1>7 DEF t

\* Keeping some and then some of those is keeping what is in both at once.
LEMMA RetainTwice ==
  ASSUME NEW S, NEW s \in Seq(S), NEW a, NEW b
  PROVE  Retain(Retain(s, a), b) = Retain(s, a \cap b)
<1> DEFINE t == Retain(s, a)
           first == PlacesOf(s, a)
           second == PlacesOf(t, b)
           both == PlacesOf(s, a \cap b)
           u == Retain(t, b)
           v == Retain(s, a \cap b)
           rank(i) == RankIn(first, i)
<1>1. /\ Len(s) \in Nat /\ first \in SUBSET (1..Len(s))
      /\ Len(t) = Cardinality(first) /\ Len(t) \in Nat /\ DOMAIN t = 1..Len(t)
      /\ \A i \in first : rank(i) \in 1..Len(t) /\ t[rank(i)] = s[i]
      /\ \A k \in 1..Len(t) : \E i \in first : rank(i) = k
      /\ \A i, j \in first : rank(i) = rank(j) => i = j
  BY RetainPicks
<1>2. t \in Seq(S)
  BY RetainKeepsExactly
<1> HIDE DEF t
<1>3. /\ second \in SUBSET (1..Len(t)) /\ Len(u) \in Nat
      /\ Len(u) = Cardinality(second) /\ DOMAIN u = 1..Len(u)
      /\ \A k \in second : RankIn(second, k) \in 1..Len(u) /\ u[RankIn(second, k)] = t[k]
      /\ \A m \in 1..Len(u) : \E k \in second : RankIn(second, k) = m
  BY <1>2, RetainPicks
<1>4. /\ both \in SUBSET (1..Len(s)) /\ Len(v) \in Nat
      /\ Len(v) = Cardinality(both) /\ DOMAIN v = 1..Len(v)
      /\ \A i \in both : RankIn(both, i) \in 1..Len(v) /\ v[RankIn(both, i)] = s[i]
  BY RetainPicks
<1>5. both = {i \in first : s[i] \in b}
  BY DEF PlacesOf
<1>6. \A i \in first : rank(i) \in second <=> i \in both
  BY <1>1, <1>5 DEF PlacesOf
<1>7. IsFiniteSet(both) /\ \A m : IsFiniteSet({j \in both : j <= m})
  <2>1. IsFiniteSet(1..Len(s))
    BY <1>1, FS_Interval
  <2>2. \A m : {j \in both : j <= m} \in SUBSET (1..Len(s))
    BY <1>4
  <2> QED
    BY <1>4, <2>1, <2>2, FS_Subset
<1>8. \A i, j \in first : j <= i <=> rank(j) <= rank(i)
  <2>1. ASSUME NEW i \in first, NEW j \in first, j <= i
        PROVE  rank(j) <= rank(i)
    <3>1. {k \in first : k <= j} \in SUBSET {k \in first : k <= i}
      <4> SUFFICES ASSUME NEW k \in first, k <= j PROVE k <= i
        OBVIOUS
      <4>1. i \in Nat /\ j \in Nat /\ k \in Nat
        BY <1>1
      <4> QED
        BY <2>1, <4>1
    <3>2. IsFiniteSet({k \in first : k <= i})
      <4>1. IsFiniteSet(1..Len(s)) /\ {k \in first : k <= i} \in SUBSET (1..Len(s))
        BY <1>1, FS_Interval
      <4> QED
        BY <4>1, FS_Subset
    <3> QED
      BY <3>1, <3>2, FS_Subset DEF RankIn
  <2>2. ASSUME NEW i \in first, NEW j \in first, rank(j) <= rank(i)
        PROVE  j <= i
    <3>1. i \in Nat /\ j \in Nat /\ rank(i) \in Nat /\ rank(j) \in Nat
      BY <1>1
    <3>2. CASE i <= j
      <4>1. rank(i) <= rank(j)
        BY <2>1, <3>2
      <4>2. rank(i) = rank(j)
        BY <2>2, <3>1, <4>1
      <4>3. i = j
        BY <1>1, <4>2
      <4> QED
        BY <3>1, <4>3
    <3> QED
      BY <3>1, <3>2
  <2> QED
    BY <2>1, <2>2
<1>9. \A i \in both : RankIn(both, i) = RankIn(second, rank(i))
  <2> TAKE i \in both
  <2> DEFINE low == {j \in both : j <= i}
             lowRanks == {k \in second : k <= rank(i)}
             f == [j \in low |-> rank(j)]
  <2>1. f \in [low -> lowRanks]
    BY <1>5, <1>6, <1>8
  <2>2. \A j, k \in low : f[j] = f[k] => j = k
    BY <1>1, <1>5
  <2>3. \A m \in lowRanks : \E j \in low : f[j] = m
    <3> TAKE m \in lowRanks
    <3>1. PICK j \in first : rank(j) = m
      BY <1>1, <1>3
    <3>2. j \in low
      BY <1>5, <1>6, <1>8, <3>1
    <3> QED
      BY <3>1, <3>2
  <2>4. f \in Bijection(low, lowRanks)
    <3> HIDE DEF f, low, lowRanks
    <3> QED
      BY <2>1, <2>2, <2>3, Fun_IsBij
  <2>5. Cardinality(low) = Cardinality(lowRanks)
    <3>1. ExistsBijection(low, lowRanks)
      BY <2>4 DEF ExistsBijection
    <3>2. IsFiniteSet(low)
      BY <1>7
    <3> QED
      BY <3>1, <3>2, FS_Bijection
  <2> QED
    BY <2>5 DEF RankIn
<1>10. Cardinality(both) = Cardinality(second)
  <2> DEFINE f == [j \in both |-> rank(j)]
  <2>1. f \in [both -> second]
    BY <1>5, <1>6
  <2>2. \A j, k \in both : f[j] = f[k] => j = k
    BY <1>1, <1>5
  <2>3. \A m \in second : \E j \in both : f[j] = m
    BY <1>1, <1>3, <1>5, <1>6, ZenonT(40)
  <2>4. f \in Bijection(both, second)
    <3> HIDE DEF f, both, second
    <3> QED
      BY <2>1, <2>2, <2>3, Fun_IsBij
  <2>5. ExistsBijection(both, second)
    BY <2>4 DEF ExistsBijection
  <2> QED
    BY <1>7, <2>5, FS_Bijection
<1>11. Len(u) = Len(v)
  BY <1>3, <1>4, <1>10
<1>12. \A m \in 1..Len(u) : u[m] = v[m]
  <2> TAKE m \in 1..Len(u)
  <2>1. PICK k \in second : RankIn(second, k) = m
    BY <1>3
  <2>2. PICK i \in first : rank(i) = k
    BY <1>1, <1>3
  <2>3. i \in both
    BY <1>6, <2>2
  <2>4. u[m] = t[k] /\ t[k] = s[i]
    BY <1>1, <1>3, <2>1, <2>2
  <2>5. RankIn(both, i) = m
    BY <1>9, <2>1, <2>2, <2>3
  <2>6. v[m] = s[i]
    BY <1>4, <2>3, <2>5
  <2> QED
    BY <2>4, <2>6
<1>13. u \in Seq(S) /\ v \in Seq(S)
  BY <1>2, RetainKeepsExactly
<1> HIDE DEF u, v
<1>14. u = v
  BY <1>11, <1>12, <1>13
<1> QED
  BY <1>14 DEF t, u, v

------------------------------------------------------------------------------
\* Steps taken one after the other

\* Some number is the least of any there are.
LEMMA LeastNumber ==
  ASSUME NEW T \in SUBSET Nat, T # {}
  PROVE  \E n \in T : \A m \in T : n <= m
<1>1. PICK n \in T : \A m \in T : ~ (<<m, n>> \in OpToRel(<, Nat))
  BY NatLessThanWellFounded, WFMin
<1>2. \A m \in T : ~ (m < n)
  BY <1>1 DEF OpToRel
<1> QED
  BY <1>2

\* A set with zero, and with the next of each number it has, has all up to there.
LEMMA UpTo ==
  ASSUME NEW k \in Nat, NEW T \in SUBSET Nat, 0 \in T,
         \A n \in 0..(k - 1) : n \in T => n + 1 \in T
  PROVE  0..k \subseteq T
<1> SUFFICES ASSUME ~(0..k \subseteq T) PROVE FALSE
  OBVIOUS
<1> DEFINE Missing == {n \in 0..k : n \notin T}
<1>1. PICK n \in Missing : \A m \in Missing : n <= m
  <2>1. Missing \in SUBSET Nat /\ Missing # {}
    OBVIOUS
  <2> QED
    BY <2>1, LeastNumber
<1>2. n # 0 /\ n - 1 \in 0..(k - 1) /\ n - 1 \notin Missing
  BY <1>1
<1> QED
  BY <1>1, <1>2

\* f is what b comes to, one step after the other.
Follows(f, b, k, step) == f[0] = b /\ \A i \in 1..k : f[i] = step[i][f[i - 1]]
\* So many steps one after the other can be taken.
LEMMA Folds ==
  ASSUME NEW S, NEW b \in S, NEW k \in Nat, NEW step \in [1..k -> [S -> S]]
  PROVE  \E f \in [0..k -> S] : Follows(f, b, k, step)
<1> DEFINE Good(n, f) == f[0] = b /\ \A i \in 1..n : f[i] = step[i][f[i - 1]]
           T == {n \in 0..k : \E f \in [0..n -> S] : Good(n, f)}
<1>1. 0 \in T
  <2> DEFINE f == [i \in 0..0 |-> b]
  <2>1. f \in [0..0 -> S] /\ f[0] = b /\ \A i \in 1..0 : FALSE
    OBVIOUS
  <2> HIDE DEF f
  <2>2. Good(0, f)
    BY <2>1
  <2> QED
    BY <2>1, <2>2
<1>2. ASSUME NEW n \in 0..(k - 1), n \in T
      PROVE  n + 1 \in T
  <2>1. PICK f \in [0..n -> S] : Good(n, f)
    BY <1>2
  <2> DEFINE m == n + 1
             next == step[m][f[n]]
             g == [i \in 0..m |-> IF i = m THEN next ELSE f[i]]
  <2>2. m \in 1..k /\ m - 1 = n /\ n \in Nat /\ next \in S
    BY <2>1
  <2>3. \A i \in 0..n : f[i] \in S
    BY <2>1
  <2> HIDE DEF next, m
  <2>4. \A i \in 0..m : i # m => i \in 0..n
    BY <2>2
  <2>5. g \in [0..m -> S]
    BY <2>2, <2>3, <2>4
  <2>6. g[m] = next /\ \A i \in 0..n : g[i] = f[i]
    BY <2>2, <2>4
  <2> HIDE DEF g
  <2>7. ASSUME NEW i \in 1..m PROVE g[i] = step[i][g[i - 1]]
    <3>1. CASE i = m
      <4>1. g[i - 1] = f[n]
        BY <2>2, <2>6, <3>1
      <4> QED
        BY <2>6, <3>1, <4>1 DEF next
    <3>2. CASE i # m
      <4>1. i \in 1..n /\ i \in 0..n /\ i - 1 \in 0..n
        BY <2>2, <3>2
      <4> QED
        BY <2>1, <2>6, <4>1
    <3> QED
      BY <3>1, <3>2
  <2>8. g[0] = b
    BY <2>1, <2>2, <2>6
  <2>9. Good(m, g) /\ m \in 0..k
    BY <2>2, <2>7, <2>8
  <2>10. m \in T
    BY <2>5, <2>9
  <2> QED
    BY <2>10 DEF m
<1>3. 0..k \subseteq T
  <2> HIDE DEF T
  <2>1. T \in SUBSET Nat
    BY DEF T
  <2> QED
    BY <1>1, <1>2, <2>1, UpTo
<1>4. k \in T
  BY <1>3
<1> QED
  BY <1>4 DEF Follows

\* What each step keeps true is true after as many as there are.
LEMMA StaysAlong ==
  ASSUME NEW S, NEW n \in Nat, NEW g, g[0] \in S,
         \A i \in 1..n : g[i - 1] \in S => g[i] \in S
  PROVE  g[n] \in S
<1> DEFINE T == {i \in 0..n : g[i] \in S}
<1>1. T \in SUBSET Nat /\ 0 \in T
  OBVIOUS
<1>2. ASSUME NEW i \in 0..(n - 1), i \in T PROVE i + 1 \in T
  <2>1. i + 1 \in 1..n /\ i + 1 \in 0..n /\ (i + 1) - 1 = i
    OBVIOUS
  <2> QED
    BY <1>2, <2>1
<1> HIDE DEF T
<1>3. 0..n \subseteq T
  BY <1>1, <1>2, UpTo
<1> QED
  BY <1>3 DEF T

\* What each step adds to is all there after as many as there are.
LEMMA GrowsAlong ==
  ASSUME NEW n \in Nat, NEW J, NEW g, g[0] \in J[0],
         \A i \in 1..n : g[i - 1] \in J[i - 1] => g[i] \in J[i]
  PROVE  g[n] \in J[n]
<1> DEFINE T == {i \in 0..n : g[i] \in J[i]}
<1>1. T \in SUBSET Nat /\ 0 \in T
  OBVIOUS
<1>2. ASSUME NEW i \in 0..(n - 1), i \in T PROVE i + 1 \in T
  <2>1. i + 1 \in 1..n /\ i + 1 \in 0..n /\ (i + 1) - 1 = i
    OBVIOUS
  <2> QED
    BY <1>2, <2>1
<1> HIDE DEF T
<1>3. 0..n \subseteq T
  BY <1>1, <1>2, UpTo
<1> QED
  BY <1>3 DEF T

\* A finite set can be listed, and whoever lists it once each names them all.
LEMMA Listings ==
  ASSUME NEW T, IsFiniteSet(T)
  PROVE  /\ Cardinality(T) \in Nat
         /\ \E f \in [1..Cardinality(T) -> T] : IsInjective(f)
         /\ \A f \in [1..Cardinality(T) -> T] : IsInjective(f) => f \in Seq(T) /\ Range(f) = T
<1> DEFINE n == Cardinality(T)
<1>1. n \in Nat /\ \E f : ExistsBijection(1..n, T)
  BY FS_NatBijection, FS_CardinalityType
<1>2. PICK f : f \in Bijection(1..n, T)
  BY <1>1 DEF ExistsBijection
<1>3. f \in [1..n -> T] /\ IsInjective(f)
  BY <1>2 DEF Bijection, Injection, IsInjective
<1>4. ASSUME NEW g \in [1..n -> T], IsInjective(g) PROVE g \in Seq(T) /\ Range(g) = T
  <2>1. IsFiniteSet(1..n) /\ Cardinality(1..n) = n
    BY <1>1, HowManyNumbers
  <2>2. g \in Injection(1..n, T)
    BY <1>4 DEF Injection, IsInjective
  <2>3. g \in Surjection(1..n, T)
    BY <2>1, <2>2, FS_Injection
  <2>4. g \in Seq(T)
    BY <1>1
  <2> QED BY <2>3, <2>4 DEF Surjection, Range
<1> QED
  BY <1>1, <1>3, <1>4

==============================================================================
