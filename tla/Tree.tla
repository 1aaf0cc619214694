-------------------------------- MODULE Tree --------------------------------
(***************************************************************************)
(* metal::TreeManager and NestedSetStrategy (include/metal/tree.hpp): trees *)
(* kept in one table as nested sets, several trees per table told apart by  *)
(* a scope column.  Every operation is a sequence of autocommitted          *)
(* statements computed from one SELECT and from a TreeNodeResult the caller *)
(* read earlier; statements of other clients fall between them.             *)
(***************************************************************************)
EXTENDS Integers, FiniteSets, Sequences, SequencesExt

CONSTANTS
  Clients,      \* each holds a TreeManager over its own connection
  Scopes,       \* values of the tree_scope column
  MaxNodes,     \* bound: keys the table hands out
  MaxOps,       \* bound: operations started
  Seed,         \* scope -> the keys of the rows it starts with
  Temp,         \* the 10000000 that isolates a moving range
  NoNode

Root == 0                                   \* a NULL parent
Ids  == 1..MaxNodes

ASSUME TreeAssumption ==
  /\ MaxNodes \in Nat /\ MaxOps \in Nat
  /\ Temp \in Nat /\ Temp > 4 * MaxNodes     \* no bound comes near the isolated range
  /\ IsFiniteSet(Clients)
  /\ Seed \in [Scopes -> SUBSET Ids]         \* a row is in one scope, keys are handed out in order
  /\ \A s, u \in Scopes : s # u => Seed[s] \intersect Seed[u] = {}
  /\ \E n \in 0..MaxNodes : UNION {Seed[s] : s \in Scopes} = 1..n

VARIABLES
  rows,     \* the table: id -> [scope, parent, lft, rght, depth]
  nextId,   \* the next key of the table
  held,     \* client -> the TreeNodeResult it holds: [id, row] or NoNode
  work,     \* client -> the operation in progress or Idle
  ops,      \* operations started
  raced     \* history: scopes where operations overlapped or used a stale node

vars == <<rows, nextId, held, work, ops, raced>>

-----------------------------------------------------------------------------
(* Queries: TreeQuery and the reading half of TreeManager.                 *)
InScope(s)      == {i \in DOMAIN rows : rows[i].scope = s}
Ordered(S, Before(_, _)) ==
  [k \in 1..Cardinality(S) |-> CHOOSE i \in S : Cardinality({j \in S : Before(j, i)}) = k - 1]
ByKey(S)        == Ordered(S, LAMBDA i, j : i < j)
ByLeft(S)       == Ordered(S, LAMBDA i, j : \/ rows[i].lft < rows[j].lft
                                            \/ rows[i].lft = rows[j].lft /\ i < j)
Width(b)        == b.rght - b.lft + 1
ChildCount(b)   == (b.rght - b.lft - 1) \div 2
IsLeaf(b)       == b.rght - b.lft = 1
IsInside(a, b)  == a.lft > b.lft /\ a.rght < b.rght
MaxRght(s)      == LET R == {rows[i].rght : i \in InScope(s)}
                   IN  IF R = {} THEN 0 ELSE CHOOSE r \in R : \A q \in R : r >= q

FindDescendants(s, b) == ByLeft({i \in InScope(s) : IsInside(rows[i], b)})
FindAncestors(s, b)   == ByLeft({i \in InScope(s) : rows[i].lft <= b.lft /\ rows[i].rght >= b.rght})
FindChildren(s, p)    == ByLeft({i \in InScope(s) : rows[i].parent = p})
FindLeaves(s)         == ByLeft({i \in InScope(s) : IsLeaf(rows[i])})
FindAtDepth(s, d)     == ByLeft({i \in InScope(s) : rows[i].depth = d})

(* to_threaded(): rows ordered by their left bound nest under the innermost *)
(* open row; the result gives each row the row it is nested under.          *)
Nest(acc, i) ==
  LET at   == SelectInSeq(acc.open, LAMBDA j : rows[i].lft < rows[j].rght)
      rest == IF at = 0 THEN <<>> ELSE SubSeq(acc.open, at, Len(acc.open))
  IN  [open  |-> <<i>> \o rest,
       under |-> [acc.under EXCEPT ![i] = IF rest = <<>> THEN Root ELSE rest[1]]]
Threaded(seq) ==
  LET nested[k \in 0..Len(seq)] ==
        IF k = 0 THEN [open |-> <<>>, under |-> [i \in ToSet(seq) |-> Root]]
        ELSE Nest(nested[k - 1], seq[k])
  IN  nested[Len(seq)].under

(* validate_tree(): the nodes it complains about.                          *)
Invalid(s) ==
  LET before(i, j) == rows[i].lft <= rows[j].lft /\ i # j
  IN  {i \in InScope(s) :
         \/ rows[i].lft >= rows[i].rght
         \/ rows[i].lft < 1
         \/ \E j \in InScope(s) : /\ before(i, j)
                                  /\ rows[j].lft < rows[i].rght
                                  /\ rows[j].rght > rows[i].rght}

(* recover(): bounds from the parent links, siblings in the order of their   *)
(* keys.  The children of a node are numbered in turn, each around what     *)
(* `below' makes of the numbers that follow its left bound; a row that no   *)
(* root leads to gets none, and no path from a root has more nodes than     *)
(* there are rows.                                                          *)
InTurn(nodes, left, depth, below) ==
  LET upto[k \in 0..Len(nodes)] ==
        IF k = 0 THEN [next |-> left, done |-> <<>>]
        ELSE LET lft == upto[k - 1].next
                 sub == below[nodes[k]][lft + 1]
             IN  [next |-> sub.next + 1,
                  done |-> upto[k - 1].done \o sub.done
                           \o <<[id |-> nodes[k], lft |-> lft, rght |-> sub.next, depth |-> depth]>>]
  IN  upto[Len(nodes)]

Recovered(parent) ==
  LET size == Cardinality(DOMAIN parent)
      children(p) == ByKey({i \in DOMAIN parent : parent[i] = p})
      traverse[levels \in 0..size] ==
        [p \in DOMAIN parent \union {Root} |-> [left \in Nat |->
           IF levels = 0 THEN [next |-> left, done |-> <<>>]
           ELSE InTurn(children(p), left, size - levels, traverse[levels - 1])]]
  IN  traverse[size][Root][1].done

-----------------------------------------------------------------------------
(* The statements an operation is made of, and what each does to the rows   *)
(* of its scope.                                                           *)
Shift(col, from, by)        == [kind |-> "shift", col |-> col, from |-> from, by |-> by]
MoveRange(lo, hi, by, deeper) == [kind |-> "range", lo |-> lo, hi |-> hi, by |-> by, deeper |-> deeper]
Adopt(old, new)             == [kind |-> "adopt", old |-> old, new |-> new]
Assign(i, cols)             == [kind |-> "assign", id |-> i, cols |-> cols]
DropRange(lo, hi)           == [kind |-> "drop", lo |-> lo, hi |-> hi]
NewRow(p, l, d)             == [kind |-> "insert",
                                cols |-> [parent |-> p, lft |-> l, rght |-> l + 1, depth |-> d]]

Within(r, st)  == r.lft >= st.lo /\ r.rght <= st.hi
With(r, cols)  == [c \in DOMAIN r |-> IF c \in DOMAIN cols THEN cols[c] ELSE r[c]]

Affects(st, i, r) ==
  CASE st.kind = "shift"  -> r[st.col] >= st.from
    [] st.kind = "range"  -> Within(r, st)
    [] st.kind = "adopt"  -> r.parent = st.old
    [] st.kind = "assign" -> i = st.id
    [] OTHER              -> FALSE

Changed(st, r) ==
  CASE st.kind = "shift"  -> [r EXCEPT ![st.col] = @ + st.by]
    [] st.kind = "range"  -> [r EXCEPT !.lft = @ + st.by, !.rght = @ + st.by, !.depth = @ + st.deeper]
    [] st.kind = "adopt"  -> [r EXCEPT !.parent = st.new]
    [] st.kind = "assign" -> With(r, st.cols)

Updated(s, st) ==
  [i \in DOMAIN rows |->
     IF rows[i].scope = s /\ Affects(st, i, rows[i]) THEN Changed(st, rows[i]) ELSE rows[i]]

Execute(s, st) ==
  CASE st.kind = "drop" ->
         /\ rows' = [i \in {j \in DOMAIN rows : ~(rows[j].scope = s /\ Within(rows[j], st))} |-> rows[i]]
         /\ UNCHANGED nextId
    [] st.kind = "insert" ->
         /\ rows' = [i \in DOMAIN rows \union {nextId} |->
                       IF i = nextId THEN With([scope |-> s, parent |-> 0, lft |-> 0, rght |-> 0, depth |-> 0],
                                               st.cols)
                                     ELSE rows[i]]
         /\ nextId' = nextId + 1
    [] OTHER -> rows' = Updated(s, st) /\ UNCHANGED nextId

(* shift_for_insert() and shift_for_delete().                              *)
OpenGap(point, width)   == <<Shift("rght", point, width), Shift("lft", point, width)>>
CloseGap(rght, width)   == <<Shift("lft", rght + 1, -width), Shift("rght", rght + 1, -width)>>

-----------------------------------------------------------------------------
(* The statements of each operation, from the node n the caller holds (its  *)
(* key i and row b) and from what the operation's own SELECT returns.       *)
InsertSteps(s, p) ==
  IF p = Root THEN <<NewRow(Root, MaxRght(s) + 1, 0)>>
  ELSE OpenGap(rows[p].rght, 2) \o <<NewRow(p, rows[p].rght, rows[p].depth + 1)>>

(* move_to(): a node may not go below itself or a descendant.              *)
MayMoveAnywhere(s, b, p) == p = Root \/ p \in InScope(s)   \* mutant: no cycle check
MayMove(s, b, p) == \/ p = Root
                    \/ /\ p \in InScope(s)
                       /\ ~IsInside(rows[p], b)
                       /\ ~(rows[p].lft = b.lft /\ rows[p].rght = b.rght)

SameSpot(b, point) == point                          \* mutant: the closed gap is forgotten
Target(b, point)   == IF point > b.rght THEN point - Width(b) ELSE point

MoveSteps(s, i, b, p) ==
  LET point   == IF p = Root THEN MaxRght(s) + 1 ELSE rows[p].rght
      target  == Target(b, point)
      level   == IF p = Root THEN 0 ELSE rows[p].depth + 1
      isolate == -Temp - b.rght
  IN  <<MoveRange(b.lft, b.rght, isolate, 0)>> \o CloseGap(b.rght, Width(b)) \o OpenGap(target, Width(b))
      \o <<MoveRange(b.lft + isolate, b.rght + isolate, target - b.lft - isolate, level - b.depth),
           Assign(i, [parent |-> p])>>

(* swap_adjacent(): nothing happens unless the ranges are in order.        *)
SwapSteps(l, r) ==
  IF l.rght >= r.lft THEN <<>>
  ELSE <<MoveRange(r.lft, r.rght, Temp, 0), MoveRange(l.lft, l.rght, Width(r), 0),
         MoveRange(r.lft + Temp, r.rght + Temp, -Temp - Width(l), 0)>>

(* move_up() and move_down(): the siblings are read again, by the parent    *)
(* the held node had.                                                      *)
SlideSteps(s, i, b, by) ==
  LET siblings == FindChildren(s, b.parent)
      at       == SelectInSeq(siblings, LAMBDA j : j = i)
  IN  IF at = 0 \/ at + by \notin DOMAIN siblings THEN <<>>
      ELSE IF by < 0 THEN SwapSteps(rows[siblings[at - 1]], rows[siblings[at]])
                     ELSE SwapSteps(rows[siblings[at]], rows[siblings[at + 1]])

KeepChildren(i, b) == <<>>                           \* mutant: children not promoted
Promote(i, b)      == <<Adopt(i, b.parent)>>

RemoveSteps(s, i, b) ==
  Promote(i, b)
  \o (IF b.rght - b.lft > 1 THEN <<MoveRange(b.lft + 1, b.rght - 1, -1, -1)>> ELSE <<>>)
  \o CloseGap(b.rght, 2)
  \o <<Assign(i, [parent |-> Root, lft |-> MaxRght(s) - 1, rght |-> MaxRght(s), depth |-> 0])>>

DeleteSteps(b) == <<DropRange(b.lft, b.rght)>> \o CloseGap(b.rght, Width(b))

RecoverSteps(s) ==
  LET updates == Recovered([i \in InScope(s) |-> rows[i].parent])
  IN  [k \in DOMAIN updates |->
         Assign(updates[k].id, [lft |-> updates[k].lft, rght |-> updates[k].rght,
                                depth |-> updates[k].depth])]

-----------------------------------------------------------------------------
(* The forest the rows of a scope stand for.                               *)
Kids(s) == [p \in InScope(s) \union {Root} |-> FindChildren(s, p)]

Idle         == [scope |-> NoNode, todo |-> <<>>, heals |-> FALSE, before |-> <<>>]
Running(s)   == {c \in Clients : work[c] # Idle /\ work[c].scope = s}
Stale(n)     == n.id \notin DOMAIN rows \/ rows[n.id] # n.row
Hanging(s)   == Len(RecoverSteps(s)) = Cardinality(InScope(s))

Seeded == UNION {Seed[s] : s \in Scopes}
Init ==
  /\ \E parent \in [Seeded -> Seeded \union {Root}] :
       LET scopeOf(i) == CHOOSE s \in Scopes : i \in Seed[s]
           number(s)  == Recovered([i \in Seed[s] |-> parent[i]])
       IN  /\ \A s \in Scopes : Len(number(s)) = Cardinality(Seed[s])
           /\ rows = [i \in Seeded |->
                LET u == CHOOSE u \in ToSet(number(scopeOf(i))) : u.id = i
                IN  [scope |-> scopeOf(i), parent |-> parent[i],
                     lft |-> u.lft, rght |-> u.rght, depth |-> u.depth]]
  /\ nextId = Cardinality(Seeded) + 1
  /\ held = [c \in Clients |-> NoNode]
  /\ work = [c \in Clients |-> Idle]
  /\ ops = 0 /\ raced = {}

(* An operation of c has read what it needs and has `steps' to execute.     *)
Start(c, s, steps, fresh, heals) ==
  /\ work[c] = Idle /\ ops < MaxOps
  /\ LET alone == Running(s) = {}
         mine  == IF steps = <<>> THEN Idle
                  ELSE [scope |-> s, todo |-> steps, heals |-> heals /\ alone, before |-> Kids(s)]
     IN  /\ work' = [d \in Clients |-> IF d = c THEN mine
                                       ELSE IF d \in Running(s) THEN [work[d] EXCEPT !.heals = FALSE]
                                       ELSE work[d]]
         /\ raced' = IF alone /\ fresh THEN raced ELSE raced \union {s}
  /\ ops' = ops + 1
  /\ UNCHANGED <<rows, nextId, held>>

GetNode(c, i) ==
  /\ work[c] = Idle /\ ops < MaxOps
  /\ held' = [held EXCEPT ![c] = [id |-> i, row |-> rows[i]]]
  /\ UNCHANGED <<rows, nextId, work, ops, raced>>

InsertAsChild(c, s, p) ==
  /\ p \in InScope(s) \union {Root}
  /\ nextId + Cardinality({d \in Clients : work[d] # Idle}) <= MaxNodes
  /\ Start(c, s, InsertSteps(s, p), TRUE, FALSE)

WithNode(c, Steps(_, _, _)) ==
  /\ held[c] # NoNode
  /\ LET s == held[c].row.scope
     IN  Start(c, s, Steps(s, held[c].id, held[c].row), ~Stale(held[c]), FALSE)

MoveTo(c, p) ==
  /\ held[c] # NoNode /\ MayMove(held[c].row.scope, held[c].row, p)
  /\ WithNode(c, LAMBDA s, i, b : MoveSteps(s, i, b, p))
MoveUp(c)         == WithNode(c, LAMBDA s, i, b : SlideSteps(s, i, b, -1))
MoveDown(c)       == WithNode(c, LAMBDA s, i, b : SlideSteps(s, i, b, 1))
RemoveFromTree(c) == WithNode(c, RemoveSteps)
DeleteSubtree(c)  == WithNode(c, LAMBDA s, i, b : DeleteSteps(b))
Recover(c, s)     == Start(c, s, RecoverSteps(s), TRUE, Hanging(s))

(* The next statement of an operation.                                     *)
Statement(c) ==
  /\ work[c] # Idle
  /\ LET w == work[c]
         last == Len(w.todo) = 1
     IN  /\ Execute(w.scope, Head(w.todo))
         /\ work' = [work EXCEPT ![c] = IF last THEN Idle ELSE [w EXCEPT !.todo = Tail(@)]]
         /\ raced' = IF last /\ w.heals THEN raced \ {w.scope} ELSE raced
  /\ UNCHANGED <<held, ops>>

(* A statement throws: what the operation has written stays.               *)
StatementFails(c) ==
  /\ work[c] # Idle
  /\ work' = [work EXCEPT ![c] = Idle]
  /\ raced' = raced \union {work[c].scope}
  /\ UNCHANGED <<rows, nextId, held, ops>>

Next ==
  \E c \in Clients :
     \/ \E i \in DOMAIN rows : GetNode(c, i)
     \/ \E s \in Scopes, p \in Ids \union {Root} : InsertAsChild(c, s, p)
     \/ \E p \in Ids \union {Root} : MoveTo(c, p)
     \/ MoveUp(c) \/ MoveDown(c)
     \/ RemoveFromTree(c) \/ DeleteSubtree(c)
     \/ \E s \in Scopes : Recover(c, s)
     \/ Statement(c) \/ StatementFails(c)

Spec == Init /\ [][Next]_vars

-----------------------------------------------------------------------------
(* Properties.                                                             *)
Settled(s) == Running(s) = {} /\ s \notin raced

(* The bounds of a settled scope are the numbers 1..2n, each used once:     *)
(* what max_rght(), the leaf test and child_count() rely on, and what every *)
(* sequence of shifts in tree.hpp has to restore.                          *)
NumberingSound ==
  \A s \in Scopes : Settled(s) =>
     {rows[i].lft : i \in InScope(s)} \union {rows[i].rght : i \in InScope(s)}
       = 1..2 * Cardinality(InScope(s))

Forest == INSTANCE OrderedForest WITH
  Top     <- Root,
  kids    <- [s \in Scopes |-> IF Running(s) = {} THEN Kids(s)
                               ELSE work[CHOOSE c \in Running(s) : TRUE].before],
  trusted <- [s \in Scopes |-> s \notin raced]

(* Every operation of TreeManager that runs alone and on a node read since   *)
(* the last change is exactly one edit of the ordered forest, whatever the   *)
(* statements of operations in other scopes do in between; recover() brings *)
(* a damaged scope back.                                                   *)
ImplementsOrderedForest == Forest!Spec

(* In a settled scope the range queries answer what the parent links say:   *)
(* descendants, path, leaves, depths, child counts, the threaded tree; and  *)
(* validate() has nothing to report.                                       *)
QueriesMatchForest ==
  \A s \in Scopes : Settled(s) =>
     LET below == Forest!Below(Kids(s))
     IN  /\ \A i \in InScope(s) :
              LET b    == rows[i]
                  path == ToSet(FindAncestors(s, b)) \ {i}
              IN  /\ ToSet(FindDescendants(s, b)) = below[i]
                  /\ path = {j \in InScope(s) : i \in below[j]}
                  /\ i \in ToSet(FindAtDepth(s, Cardinality(path)))
                  /\ ChildCount(b) = Cardinality(below[i])
                  /\ i \in ToSet(FindLeaves(s)) <=> below[i] = {}
                  /\ \A j \in below[i] :
                       Threaded(FindDescendants(s, b))[j] = IF rows[j].parent = i THEN Root ELSE rows[j].parent
         /\ Invalid(s) = {}
=============================================================================
