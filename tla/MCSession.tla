------------------------------ MODULE MCSession ------------------------------
(* Small instances of Session for TLC.                                     *)
EXTENDS Session, TLC

CONSTANTS e1, e2, k1, k2, va, vb

OneEntity    == {e1}
TwoEntities  == {e1, e2}
OneKey       == {k1}
TwoKeys      == {k1, k2}
TwoValues    == {va, vb}
Interchange  == Permutations(TwoEntities) \union Permutations(TwoKeys)
                \union Permutations(TwoValues)

NoCalls      == {}
Disciplined  == {"rollback", "clear"}
HooksAct      == {"actInHooks"}
HooksAndDisciplined == HooksAct \union Disciplined
AllButRollbackTo == FaultKinds \ {"rollbackTo"}
=============================================================================
