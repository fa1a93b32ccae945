--------------------------- MODULE MCDigitalForm ---------------------------
(* Instances of DigitalForm for TLC: the symmetries of the configurations. *)
EXTENDS DigitalForm, TLC

Symmetry ==
  Permutations(Forms) \cup Permutations(Entries) \cup Permutations(Requests)
    \cup Permutations(Items) \cup Permutations(Contents)
=============================================================================
