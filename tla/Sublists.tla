------------------------------ MODULE Sublists ------------------------------
(* Parts of sequences, by the positions they take, in a form that can be    *)
(* reasoned about without induction.                                        *)
EXTENDS Naturals, FiniteSets, SequencesExt

\* How many of a set of positions come up to and with i.
Rank(I, i) == Cardinality({j \in I : j < i}) + 1

\* The nth of a set of positions, counted from the front.
Nth(I, n) == CHOOSE i \in I : Rank(I, i) = n

\* The elements of s at the positions I, in their order.
Select(s, I) == [n \in 1 .. Cardinality(I) |-> s[Nth(I, n)]]
=============================================================================
