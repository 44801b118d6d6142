---------------------------- MODULE MCDocStore ----------------------------
(* Model values for DocStore and the symmetry of its ids. *)
EXTENDS DocStore, TLC

Symmetry == Permutations(Clients) \cup Permutations(Docs) \cup Permutations(Tables)
              \cup Permutations(Slugs)
=============================================================================
