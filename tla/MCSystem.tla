------------------------------ MODULE MCSystem --------------------------------
(* System for TLC: contents are interchangeable.                            *)
EXTENDS System, TLC

Symmetry == Permutations(Sizes) \cup Permutations(Keys)

Modes == {{}, {"stop", "shutdown"}, {"silent"}}
NoFaults == {{}}
=============================================================================
