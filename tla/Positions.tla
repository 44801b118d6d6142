------------------------------ MODULE Positions ------------------------------
(***************************************************************************)
(* Sequences by rank: an element stands where as many others are before    *)
(* it.  What SelectSeq and SortSeq compute, in definitions whose results   *)
(* follow from counting.                                                   *)
(***************************************************************************)
EXTENDS Naturals, Sequences, FiniteSets

\* The elements of S in the order R, a set of pairs that orders any two of them.
Lined(S, R) ==
  [k \in 1..Cardinality(S) |-> CHOOSE x \in S : Cardinality({y \in S : <<y, x>> \in R}) = k - 1]

Ascending(S) == Lined(S, {p \in S \X S : p[1] < p[2]})

\* The elements of T that s has, in the order of s.
Only(s, T) == LET at == Ascending({i \in DOMAIN s : s[i] \in T})
              IN  [k \in DOMAIN at |-> s[at[k]]]
=============================================================================
