------------------------------- MODULE MCBulk -------------------------------
(* Small instances of Bulk for TLC.                                          *)
EXTENDS Bulk

CONSTANTS k1, k2, k3, va, vb

ThreeKeys == {k1, k2, k3}
TwoValues == {va, vb}
Row(k, v) == [key |-> k, val |-> v]
Distinct3 == <<Row(k1, va), Row(k2, vb), Row(k3, va)>>
Twice     == <<Row(k1, va), Row(k2, vb), Row(k1, vb)>>
Ragged    == <<Row(k1, Missing), Row(k2, vb), Row(k3, va)>>
Keyless   == <<Row(k1, va), Row(Missing, vb), Row(k3, Missing)>>

Call(op, r, size, conc, tx, cb, where) ==
  [op |-> op, rows |-> r, size |-> size, concurrency |-> conc,
   transactional |-> tx, callback |-> cb, where |-> where]
Everything == TwoValues \union {Null}
Inputs(op) == CASE op = "update" -> {Distinct3, Twice, Keyless}
                [] op \in {"insert", "upsert"} -> {Distinct3, Twice, Ragged}
                [] OTHER -> {Distinct3, Twice}
SomeCalls == {Call(op, r, size, conc, tx, op # "deleteWhere", Everything) :
                r \in {Distinct3, Twice, Ragged, Keyless},
                op \in Ops, size \in 1..2, conc \in 1..3, tx \in BOOLEAN}
Explored == {c \in SomeCalls : c.rows \in Inputs(c.op) /\ c.concurrency <= Chunks(c) + 1}
            \union {Call(op, Distinct3, 2, 2, FALSE, FALSE, {va}) : op \in {"update", "delete", "deleteWhere"}}
            \union {Call("insert", Distinct3, 0, 1, TRUE, FALSE, Everything),
                    Call("upsert", Distinct3, 1, 0, FALSE, FALSE, Everything),
                    Call("updateWhere", Ragged, 1, 1, FALSE, FALSE, Everything)}
StartTables == {[k \in ThreeKeys |-> Absent], [k \in ThreeKeys |-> IF k = k3 THEN Absent ELSE va]}
ThreeWorkers == 1..3
=============================================================================
