------------------------------ MODULE MCWarmPool ------------------------------
\* Instances of WarmPool for TLC.  Ids, requests and fingerprints are
\* interchangeable in the safety runs; liveness runs use no symmetry.
EXTENDS WarmPool, TLC

PoolSymmetry == Permutations(Spares) \cup Permutations(Requests)
                \cup Permutations(Fingerprints)
===============================================================================
