------------------------------ MODULE JoinOrder ------------------------------
(***************************************************************************)
(* The members of a lobby are a Rust Vec in join order, and the order      *)
(* decides who takes a lobby over.  These operators are what the code does *)
(* to such a Vec.  They are written without recursion so that proofs can   *)
(* use them.                                                               *)
(***************************************************************************)
EXTENDS Naturals, Sequences, FiniteSets, Functions

\* The indices of s whose element is in keep.
PlacesOf(s, keep) == {i \in DOMAIN s : s[i] \in keep}

\* The rank of index i among the indices in places.
RankIn(places, i) == Cardinality({j \in places : j <= i})

\* Vec::retain, and either half of Iterator::partition: the elements of s that
\* are in keep, in the order they had.
Retain(s, keep) ==
  LET places == PlacesOf(s, keep)
  IN [k \in 1..Cardinality(places) |->
        s[CHOOSE i \in places : RankIn(places, i) = k]]

==============================================================================
