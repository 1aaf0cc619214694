---------------------------- MODULE OrderedForest ----------------------------
(***************************************************************************)
(* What a nested-set table promises: each scope holds a forest whose       *)
(* siblings are ordered, and every operation is one edit of that forest.   *)
(* A scope is trusted until two operations overlap in it or one of them    *)
(* uses a node that was read before another one changed it; from then on   *)
(* nothing is promised until the scope has been recovered.                 *)
(***************************************************************************)
EXTENDS Naturals, Sequences, SequencesExt, FiniteSets

CONSTANTS Scopes, Top    \* Top is the parent of the roots

VARIABLES
  kids,      \* scope -> (node or Top) -> its children, in order
  trusted    \* scope -> whether its forest is known to be intact

vars == <<kids, trusted>>

Nodes(f)   == DOMAIN f \ {Top}
Under(f, S) == UNION {ToSet(f[p]) : p \in S \intersect DOMAIN f}
Below(f)   ==                       \* every node's descendants
  [p \in DOMAIN f |->
     LET reach[k \in 0..Cardinality(DOMAIN f)] ==
           IF k = 0 THEN Under(f, {p}) ELSE LET S == reach[k - 1] IN S \union Under(f, S)
     IN  reach[Cardinality(DOMAIN f)]]
ParentOf(f, n) == CHOOSE p \in DOMAIN f : Contains(f[p], n)
IsForest(f) == /\ Below(f)[Top] = Nodes(f)
               /\ \A p, q \in DOMAIN f : \A i \in DOMAIN f[p], j \in DOMAIN f[q] :
                     f[p][i] = f[q][j] => p = q /\ i = j

Detached(f, n) == [p \in DOMAIN f |-> Remove(f[p], n)]

Init == trusted = [s \in Scopes |-> TRUE] /\ \A s \in Scopes : IsForest(kids[s])

AddLast(f, p, n)  == [q \in DOMAIN f \union {n} |->
                        IF q = n THEN <<>> ELSE IF q = p THEN Append(f[p], n) ELSE f[q]]
MoveLast(f, n, p) == [Detached(f, n) EXCEPT ![p] = Append(@, n)]
Swap(f, p, i)     == [f EXCEPT ![p] = [@ EXCEPT ![i] = f[p][i + 1], ![i + 1] = f[p][i]]]
Prune(f, n)       == [q \in DOMAIN f \ ({n} \union Below(f)[n]) |-> Remove(f[q], n)]

(* The children of n take its place and n becomes the last root.           *)
Dissolve(f, n) ==
  LET p == ParentOf(f, n)
      i == CHOOSE j \in DOMAIN f[p] : f[p][j] = n
      promoted == [f EXCEPT ![n] = <<>>,
                            ![p] = SubSeq(@, 1, i - 1) \o f[n] \o SubSeq(@, i + 1, Len(@))]
  IN  [promoted EXCEPT ![Top] = Append(@, n)]

(* Recovery keeps every parent and sorts the siblings.                     *)
Sorted(f) == [p \in DOMAIN f |-> SortSeq(f[p], <)]

Edit(f, g) ==
  \/ \E n \in DOMAIN g \ DOMAIN f, p \in DOMAIN f : g = AddLast(f, p, n)
  \/ \E n \in Nodes(f) : \E p \in DOMAIN f \ ({n} \union Below(f)[n]) : g = MoveLast(f, n, p)
  \/ \E p \in DOMAIN f : \E i \in 1..Len(f[p]) - 1 : g = Swap(f, p, i)
  \/ \E n \in Nodes(f) : g = Dissolve(f, n) \/ g = Prune(f, n)
  \/ g = Sorted(f)

Step(s) ==
  /\ \A t \in Scopes \ {s} : kids'[t] = kids[t] /\ trusted'[t] = trusted[t]
  /\ \/ ~trusted'[s]
     \/ trusted[s] /\ Edit(kids[s], kids'[s])
     \/ ~trusted[s] /\ IsForest(kids[s]) /\ kids'[s] = Sorted(kids[s])

Next == \E s \in Scopes : Step(s)
Spec == Init /\ [][Next]_vars
=============================================================================
