------------------------------ MODULE Filters -------------------------------
(* What a loop keeps of a sequence when it passes over some of it.          *)
EXTENDS Integers, FiniteSets

\* The k-th of some places, in their order.
PlaceOf(places, k) == CHOOSE i \in places : Cardinality({j \in places : j < i}) = k - 1

Kept(seq, places) == [k \in 1..Cardinality(places) |-> seq[PlaceOf(places, k)]]
=============================================================================
