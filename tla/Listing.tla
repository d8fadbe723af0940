------------------------------- MODULE Listing -------------------------------
(* Numbers of a set listed in order, and a sequence filtered by its places. *)
(* SetToSortSeq and SelectSeq give the same; they are defined by way of     *)
(* permutations and recursion, which cannot be reasoned about.              *)
EXTENDS Naturals, FiniteSets

\* At place i is the number that has i up to and including itself.
UpTo(S, n) == {m \in S : m <= n}
Ascending(S) == [i \in 1..Cardinality(S) |-> CHOOSE n \in S : Cardinality(UpTo(S, n)) = i]

\* What the sequence has at these places.
Only(seq, places) == [n \in 1..Cardinality(places) |-> seq[Ascending(places)[n]]]
=============================================================================
