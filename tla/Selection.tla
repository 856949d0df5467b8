------------------------------- MODULE Selection --------------------------------
(* Choosing elements of a sequence by their places.  SelectSeq does it too, but *)
(* by a recursion the provers do not know.                                      *)
EXTENDS Naturals, FiniteSets

\* The k-th least of a set of places.
Nth(I, k) == CHOOSE i \in I : Cardinality({j \in I : j < i}) = k - 1

\* The elements of s at the places I, in their order.
Selected(s, I) == [k \in 1..Cardinality(I) |-> s[Nth(I, k)]]
================================================================================
