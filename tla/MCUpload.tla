------------------------------ MODULE MCUpload ------------------------------
EXTENDS Upload, TLC

CONSTANTS r1, r2

Symmetry == Permutations(Requests)
=============================================================================
