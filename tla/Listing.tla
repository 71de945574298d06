------------------------------ MODULE Listing ------------------------------
(***************************************************************************)
(* Sets of numbers as sequences in increasing order, and the elements of a *)
(* sequence at such places.  The definitions are explicit, so that what    *)
(* they list can be proved.                                                *)
(***************************************************************************)
EXTENDS Naturals, Sequences, FiniteSets

\* How many numbers of S are not above i.
CountTo(S, i) == Cardinality({j \in S : j <= i})

\* The n-th number of S.
Nth(S, n) == CHOOSE i \in S : CountTo(S, i) = n

Listed(S) == [n \in 1..Cardinality(S) |-> Nth(S, n)]

\* The elements of s at the places in S.
Picked(s, S) == [n \in 1..Cardinality(S) |-> s[Nth(S, n)]]
=============================================================================
