---------------------------- MODULE MCRemoteCache ----------------------------
(* A small instance of RemoteCache for TLC.                                *)
EXTENDS RemoteCache, TLC

CONSTANTS a, b, k1, t1, t2

TwoProcesses == {a, b}
OneKey       == {k1}
TwoTags      == {t1, t2}
(* The prefix of the tag sets, and the empty one.                          *)
EachPrefix   == {[keys |-> {}, tags |-> Tags], [keys |-> Keys, tags |-> Tags]}
Interchange  == Permutations(TwoProcesses) \union Permutations(TwoTags)
=============================================================================
