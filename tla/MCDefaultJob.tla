---------------------------- MODULE MCDefaultJob ----------------------------
EXTENDS DefaultJob, TLC
Symmetry == Permutations(Workers)
=============================================================================
