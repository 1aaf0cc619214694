---------------------------- MODULE BoundedLeases ----------------------------
(***************************************************************************)
(* What a resource pool promises its callers: at most Max resources are    *)
(* out on lease, each to one holder, and none is granted once the pool has *)
(* been closed.  When a grant happens, and which resource is granted, is   *)
(* left open; a resource may be granted again after it came back.          *)
(***************************************************************************)
EXTENDS Naturals, FiniteSets

CONSTANTS Holders, Resources, None, Max

VARIABLES
  held,     \* the resource each holder has on lease, or None
  closed    \* the pool has been destroyed

vars == <<held, closed>>

Leased == {h \in Holders : held[h] # None}

TypeOK == held \in [Holders -> Resources \union {None}] /\ closed \in BOOLEAN

Init == held = [h \in Holders |-> None] /\ closed = FALSE

Grant(h, r) ==
  /\ ~closed
  /\ held[h] = None
  /\ \A other \in Holders : held[other] # r
  /\ Cardinality(Leased) < Max
  /\ held' = [held EXCEPT ![h] = r]
  /\ UNCHANGED closed

Return(h) ==
  /\ held[h] # None
  /\ held' = [held EXCEPT ![h] = None]
  /\ UNCHANGED closed

(* A lease is a move-only value: it may change hands.                      *)
Move(g, h) ==
  /\ held[g] # None /\ held[h] = None
  /\ held' = [held EXCEPT ![h] = held[g], ![g] = None]
  /\ UNCHANGED closed

Close == closed' = TRUE /\ UNCHANGED held

Next ==
  \/ Close
  \/ \E h \in Holders :
       \/ Return(h)
       \/ \E r \in Resources : Grant(h, r)
       \/ \E g \in Holders : Move(g, h)

Spec == Init /\ [][Next]_vars

(* No resource is leased to two holders, and no more than Max are out.     *)
Exclusive ==
  /\ Cardinality(Leased) <= Max
  /\ \A g, h \in Holders : held[g] = held[h] /\ held[g] # None => g = h
=============================================================================
