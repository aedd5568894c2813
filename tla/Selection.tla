------------------------------ MODULE Selection ------------------------------
(*****************************************************************************)
(* [x for x in s if ...]: the elements of a sequence at some of its indexes, *)
(* in their order.  It is written with ranks and not as a recursion, so that *)
(* what is selected can be reasoned about (SelectionLemmas).                 *)
(*****************************************************************************)
EXTENDS Naturals, FiniteSets, Sequences

\* The place of i among the indexes I, and the index at the place k
Rank(I, i) == Cardinality({j \in I : j <= i})
Nth(I, k) == CHOOSE i \in I : Rank(I, i) = k

Picked(s, I) == [k \in 1 .. Cardinality(I) |-> s[Nth(I, k)]]
=============================================================================
