--------------------------- MODULE MCHeapSafepoint ---------------------------
(* Model-checking instances of HeapSafepoint. *)
EXTENDS HeapSafepoint, TLC

\* Background threads are interchangeable.
Symmetry == Permutations(Background)
==============================================================================
