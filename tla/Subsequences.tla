---------------------------- MODULE Subsequences ----------------------------
(***************************************************************************)
(* A query, or a loop that passes elements over, leaves some elements of a *)
(* sequence in their order.  SelectSeq says so too, by recursion; told by  *)
(* the places that are left, it can be reasoned about.                     *)
(***************************************************************************)
EXTENDS Integers, Sequences, FiniteSets

\* The n-th of the places in I.
PlaceOf(I, n) == CHOOSE i \in I : Cardinality({j \in I : j <= i}) = n

\* The elements of s at the places in I, in their order.
Subsequence(s, I) == [n \in 1 .. Cardinality(I) |-> s[PlaceOf(I, n)]]
=============================================================================
