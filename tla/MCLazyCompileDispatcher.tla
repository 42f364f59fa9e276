---------------------- MODULE MCLazyCompileDispatcher ----------------------
EXTENDS LazyCompileDispatcher, TLC
CONSTANTS f1, f2

\* f2 is an inner function of f1.
Nested == [f \in Functions |-> IF f = f2 THEN f1 ELSE None]
Symmetry == Permutations(Workers)
=============================================================================
