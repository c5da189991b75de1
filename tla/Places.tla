-------------------------------- MODULE Places --------------------------------
(***************************************************************************)
(* The members of a finite set of numbers by their place in it: what is    *)
(* left of a list keeps its order.                                         *)
(***************************************************************************)
EXTENDS Integers, FiniteSets

Rank(I, i)  == Cardinality({h \in I : h <= i})
Nth(I, k)   == CHOOSE i \in I : Rank(I, i) = k
Least(I)    == Nth(I, 1)
Greatest(I) == Nth(I, Cardinality(I))

\* The members of s at the places I, as a sequence.
Kept(s, I) == [k \in 1 .. Cardinality(I) |-> s[Nth(I, k)]]
=============================================================================
