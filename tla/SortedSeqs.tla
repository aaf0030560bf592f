----------------------------- MODULE SortedSeqs -----------------------------
(***************************************************************************)
(* Sets of numbers in order: the gateway sorts what it keeps by time of    *)
(* recording, by position in a buffer, and by index.                       *)
(***************************************************************************)
EXTENDS Naturals, Sequences, SequencesExt, FiniteSets

Increasing(s) == IsSorted(s, <)

\* Variant: largest first.
Descending(S) == CHOOSE s \in SetToSeqs(S) : IsSorted(s, >)

\* The elements of S, smallest first.
Ascending(S) ==
  [k \in 1..Cardinality(S) |-> CHOOSE x \in S : Cardinality({y \in S : y < x}) = k - 1]

\* The elements of s at the positions in I, in their order.
Selected(s, I) == LET at == Ascending(I) IN [k \in DOMAIN at |-> s[at[k]]]
=============================================================================
