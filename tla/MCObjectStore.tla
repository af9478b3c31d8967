---------------------------- MODULE MCObjectStore ----------------------------
(* ObjectStore for TLC: the slots of one kind are interchangeable.          *)
EXTENDS ObjectStoreRefinement, TLC

Symmetry ==
  Permutations(Uploaders) \cup Permutations(Deleters)
    \cup Permutations(Creators) \cup Permutations(Droppers)
    \cup Permutations(Sizes)
=============================================================================
