------------------------------- MODULE MCEfes -------------------------------
EXTENDS Efes, TLC

CONSTANTS d1, d2, d3, k1, k2

Symmetry == Permutations(Keys)
=============================================================================
