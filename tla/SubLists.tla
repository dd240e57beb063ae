------------------------------ MODULE SubLists ------------------------------
(* The elements of s at the places I, in their order: what SelectSeq does, *)
(* in a form without recursion.                                            *)
EXTENDS Naturals, FiniteSets

Nth(I, k) == CHOOSE i \in I : Cardinality({j \in I : j <= i}) = k
Picked(s, I) == [k \in 1..Cardinality(I) |-> s[Nth(I, k)]]
=============================================================================
