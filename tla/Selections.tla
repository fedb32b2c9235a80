------------------------------ MODULE Selections -----------------------------
(***************************************************************************)
(* The elements of a sequence that a comprehension keeps, in their order.  *)
(* SelectSeq is this too, but defined by recursion over the sequence,      *)
(* which the theorems about its results could not unfold.                  *)
(***************************************************************************)
EXTENDS Naturals, Sequences, FiniteSets

(* The nth of a set of places.                                             *)
NthPlace(places, n) == CHOOSE i \in places : Cardinality({j \in places : j <= i}) = n

Selected(s, places) == [n \in 1 .. Cardinality(places) |-> s[NthPlace(places, n)]]
=============================================================================
