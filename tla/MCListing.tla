------------------------------ MODULE MCListing ------------------------------
EXTENDS Listing, TLC

CONSTANTS d1, d2, k1, k2, k3

Symmetry == Permutations(Devices) \cup Permutations(Keys)
=============================================================================
