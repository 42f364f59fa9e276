---------------------- MODULE MCAtomicsSynchronization ----------------------
EXTENDS AtomicsSynchronization, TLC

Symmetry == Permutations(Threads)
=============================================================================
