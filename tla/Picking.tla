------------------------------ MODULE Picking ------------------------------
(***************************************************************************)
(* What a list comprehension with a condition keeps of a list.             *)
(***************************************************************************)
EXTENDS Integers, Sequences, FiniteSets

\* The place of i in a set of numbers, and what s has at the places of S, in order.
Place(S, i) == Cardinality({j \in S : j <= i})
Picked(s, S) == [n \in 1..Cardinality(S) |-> s[CHOOSE i \in S : Place(S, i) = n]]
=============================================================================
