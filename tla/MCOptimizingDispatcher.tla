---------------------- MODULE MCOptimizingDispatcher ----------------------
EXTENDS OptimizingDispatcher, TLC
Symmetry == Permutations(Functions) \cup Permutations(Jobs) \cup Permutations(Tasks)
=============================================================================
