----------------------------- MODULE MCEventBus -----------------------------
EXTENDS EventBus, TLC
Symmetry == Permutations(Stream)
=============================================================================
