---------------------------- MODULE MCXhrCollector ----------------------------
\* Instances of XhrCollector for TLC: two attempts, bodies of two sizes.
EXTENDS XhrCollector

CONSTANTS a1, a2, a3, b1, b2

Pages == (a1 :> 1) @@ (a2 :> 1) @@ (a3 :> 1) @@ (b1 :> 2) @@ (b2 :> 2)
Sizes == (a1 :> 1) @@ (a2 :> 3) @@ (a3 :> 4) @@ (b1 :> 1) @@ (b2 :> 2)
===============================================================================
