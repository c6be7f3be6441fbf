----------------------------- MODULE MCHandoffs -----------------------------
EXTENDS Handoffs

Symmetry == Permutations(Actors)
=============================================================================
