------------------------------- MODULE MCCache -------------------------------
(* Small instances of Cache for TLC.                                         *)
EXTENDS Cache, TLC

CONSTANTS a, b, c, k1, k2, t1, t2

TwoThreads   == {a, b}
ThreeThreads == {a, b, c}
OneKey       == {k1}
TwoKeys      == {k1, k2}
OneTag       == {t1}
TwoTags      == {t1, t2}
Interchange  == Permutations(ThreeThreads) \union Permutations(TwoKeys)
                \union Permutations(TwoTags)
=============================================================================
