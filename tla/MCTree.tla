------------------------------- MODULE MCTree -------------------------------
(* Small instances of Tree for TLC.                                          *)
EXTENDS Tree, TLC

CONSTANTS c1, c2, s1, s2

TwoClients  == {c1, c2}
TwoScopes   == {s1, s2}
LargeForest == s1 :> {1, 2, 3} @@ s2 :> {}
Interchange == Permutations(TwoClients)
(* What a client holds no longer matters once no operation can start.      *)
LiveState == <<rows, nextId, work, ops, raced, IF ops < MaxOps THEN held ELSE <<>> >>
=============================================================================
