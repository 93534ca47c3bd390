---------------------------- MODULE MCWarmPoolPrune ---------------------------
\* Instances of WarmPoolPrune for TLC.
EXTENDS WarmPoolPrune, TLC

SpareSymmetry == Permutations(Spares)
===============================================================================
