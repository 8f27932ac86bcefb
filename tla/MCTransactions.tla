--------------------------- MODULE MCTransactions ---------------------------
EXTENDS Transactions, TLC

CONSTANTS d1, d2, k1, k2, w1, w2

Symmetry ==
    Permutations(Devices) \cup Permutations(Keys) \cup Permutations(Workers)
=============================================================================
