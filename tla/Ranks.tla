-------------------------------- MODULE Ranks --------------------------------
(***************************************************************************)
(* The order of a set of numbers: what slots, and the members of a list    *)
(* that pass a filter, are counted by.                                     *)
(***************************************************************************)
EXTENDS Naturals, FiniteSets

\* Which of a set of numbers d is, and the i-th of them.
Rank(set, d) == Cardinality({e \in set : e <= d})
Nth(set, i) == CHOOSE d \in set : Rank(set, d) = i

\* What a sequence has at some of its places, in their order.
Sublist(s, places) == [i \in 1..Cardinality(places) |-> s[Nth(places, i)]]
=============================================================================
