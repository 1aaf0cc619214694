--------------------------- MODULE MCPooledExecutor ---------------------------
(* Small instances of PooledExecutor for TLC.                              *)
EXTENDS PooledExecutor, TLC

CONSTANTS c1, c2, c3, x1, x2, x3, r1, r2, r3

ThreeCallers   == {c1, c2, c3}
ThreeExecutors == {x1, x2, x3}
OneSticky      == {x3}
ThreeConns     == {r1, r2, r3}
Interchange    == Permutations(ThreeCallers) \union Permutations(ThreeConns)
                  \union Permutations({x1, x2})
===============================================================================
