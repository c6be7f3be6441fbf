-------------------------- MODULE MCScribeSegments --------------------------
(* Finite instances of ScribeSegments for TLC.                              *)
EXTENDS ScribeSegments, TLC
CONSTANTS w1, w2, c1, public, private
Symmetry == Permutations(Workers) \cup Permutations(Boundaries)
=============================================================================
