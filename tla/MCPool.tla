------------------------------- MODULE MCPool -------------------------------
(* Small instances of Pool for TLC.                                        *)
EXTENDS Pool, TLC

CONSTANTS t1, t2, t3, r1, r2, r3, r4, r5

TwoThreads     == {t1, t2}
ThreeThreads   == {t1, t2, t3}
ThreeResources == {r1, r2, r3}
FiveResources  == {r1, r2, r3, r4, r5}
ThreadSymmetry == Permutations({t1, t2, t3}) \union Permutations(FiveResources)
DropReturns    == AdapterFaults \ {"drop"}
=============================================================================
