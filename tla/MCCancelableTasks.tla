-------------------------- MODULE MCCancelableTasks --------------------------
EXTENDS CancelableTasks, TLC
Symmetry == Permutations(Tasks)
=============================================================================
