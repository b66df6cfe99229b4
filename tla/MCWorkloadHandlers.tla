------------------------- MODULE MCWorkloadHandlers -------------------------
EXTENDS WorkloadHandlers, TLC
Perms == Permutations(Request) \cup Permutations(Namespace)
=============================================================================
