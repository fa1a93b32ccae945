--------------------------- MODULE MCEntryOutput ---------------------------
(* Instances of EntryOutput for TLC: requests differ in nothing but name.  *)
EXTENDS EntryOutput, TLC

Symmetry == Permutations(Requests)
=============================================================================
