------------------------------ MODULE TreeProofs ------------------------------
(***************************************************************************)
(* Proofs about module Tree, for any number of clients, scopes, rows and   *)
(* operations: a scope that is not raced is a sound nested-set table        *)
(* whenever no operation is under way in it (its bounds are 1..2n, nested   *)
(* as the parent links say, with the right depths), and the range queries   *)
(* answer what the parent links say.  First what an operation as a whole    *)
(* does to a sound table; then its statements one by one; then recover();   *)
(* then the invariant; last the queries.                                    *)
(***************************************************************************)
EXTENDS Tree, FiniteSetTheorems, SequenceTheorems, NaturalsInduction, WellFoundedInduction, TLAPS

-----------------------------------------------------------------------------
(* A sound table t of one scope, with the bounds 1..m.                      *)
In(t, i, j)  == IsInside(t[i], t[j])
Apart(t, i, j) == t[i].rght < t[j].lft \/ t[j].rght < t[i].lft
Bounds(t, m) ==
  \A i \in DOMAIN t : /\ t[i].lft \in Nat /\ t[i].rght \in Nat
                      /\ 1 <= t[i].lft /\ t[i].lft < t[i].rght /\ t[i].rght <= m
Laminar(t)   == \A i, j \in DOMAIN t : i = j \/ Apart(t, i, j) \/ In(t, i, j) \/ In(t, j, i)
Filled(t, m) == \A v \in 1..m : \E i \in DOMAIN t : t[i].lft = v \/ t[i].rght = v
Linked(t, i) ==
  /\ t[i].depth \in Int
  /\ t[i].parent = Root => t[i].depth = 0 /\ \A j \in DOMAIN t : ~In(t, i, j)
  /\ t[i].parent # Root =>
       /\ t[i].parent \in DOMAIN t /\ In(t, i, t[i].parent)
       /\ t[i].depth = t[t[i].parent].depth + 1
       /\ \A j \in DOMAIN t : In(t, i, j) => j = t[i].parent \/ In(t, t[i].parent, j)
Forests(t, m) ==
  /\ DOMAIN t \subseteq Ids /\ m \in Nat
  /\ Bounds(t, m) /\ Laminar(t) /\ Filled(t, m) /\ \A i \in DOMAIN t : Linked(t, i)

(* Where a new last child of p begins.                                      *)
LEMMA InsertKeeps ==
  ASSUME NEW t, NEW u, NEW m, NEW n, NEW p, NEW R, Forests(t, m),
         n \in Ids \ DOMAIN t, DOMAIN u = DOMAIN t \union {n},
         \/ p = Root /\ R = m + 1
         \/ p \in DOMAIN t /\ R = t[p].rght,
         \A i \in DOMAIN t :
           /\ u[i].lft = IF t[i].lft >= R THEN t[i].lft + 2 ELSE t[i].lft
           /\ u[i].rght = IF t[i].rght >= R THEN t[i].rght + 2 ELSE t[i].rght
           /\ u[i].parent = t[i].parent /\ u[i].depth = t[i].depth,
         u[n].lft = R, u[n].rght = R + 1, u[n].parent = p,
         u[n].depth = IF p = Root THEN 0 ELSE t[p].depth + 1
  PROVE  Forests(u, m + 2)
<1> DEFINE D == DOMAIN t
<1> USE DEF Root, Ids
<1>1. /\ m \in Nat /\ R \in Nat /\ 1 <= R /\ R <= m + 1
      /\ \A i \in D : /\ t[i].lft \in Nat /\ t[i].rght \in Nat
                      /\ 1 <= t[i].lft /\ t[i].lft < t[i].rght /\ t[i].rght <= m
  BY DEF Forests, Bounds
<1>2. Bounds(u, m + 2)
  BY <1>1 DEF Bounds
<1>3. \A i, j \in D :
        /\ In(u, i, j) <=> In(t, i, j)
        /\ Apart(u, i, j) <=> Apart(t, i, j)
  BY <1>1 DEF In, IsInside, Apart
<1>4. \A j \in D : ~In(u, j, n)
  BY <1>1 DEF In, IsInside
<1>5. \A j \in D : In(u, n, j) <=> p \in D /\ (j = p \/ In(t, p, j))
  <2>1. CASE p = Root
    BY <1>1, <2>1 DEF In, IsInside, Forests
  <2>2. CASE p \in D
    <3>1. \A j \in D : j = p \/ Apart(t, p, j) \/ In(t, p, j) \/ In(t, j, p)
      BY <2>2 DEF Forests, Laminar
    <3>2. R = t[p].rght
      BY <2>2 DEF Forests
    <3> QED
      BY <1>1, <2>2, <3>1, <3>2 DEF In, IsInside, Apart
  <2> QED
    BY <2>1, <2>2
<1>6. Laminar(u)
  <2>1. \A j \in D : Apart(u, n, j) \/ In(u, n, j)
    BY <1>1 DEF In, IsInside, Apart
  <2>2. \A j \in D : Apart(u, j, n) <=> Apart(u, n, j)
    BY DEF Apart
  <2> QED
    BY <1>3, <2>1, <2>2 DEF Laminar, Forests
<1>7. Filled(u, m + 2)
  <2> SUFFICES ASSUME NEW v \in 1..(m + 2), v # R, v # R + 1
               PROVE  \E i \in D : u[i].lft = v \/ u[i].rght = v
    BY <1>1 DEF Filled
  <2> DEFINE w == IF v < R THEN v ELSE v - 2
  <2>1. w \in 1..m
    BY <1>1
  <2>2. PICK i \in D : t[i].lft = w \/ t[i].rght = w
    BY <2>1 DEF Forests, Filled
  <2> QED
    BY <1>1, <2>2
<1>8. \A i \in D : Linked(u, i)
  <2> SUFFICES ASSUME NEW i \in D PROVE Linked(u, i)
    OBVIOUS
  <2>1. Linked(t, i) /\ u[i].parent = t[i].parent /\ u[i].depth = t[i].depth /\ n # Root
    BY DEF Forests
  <2>2. CASE t[i].parent = Root
    BY <1>3, <1>4, <2>1, <2>2 DEF Linked
  <2>3. CASE t[i].parent # Root
    <3>1. t[i].parent \in D /\ u[t[i].parent].depth = t[t[i].parent].depth
      BY <2>1, <2>3 DEF Linked
    <3> QED
      BY <1>3, <1>4, <2>1, <2>3, <3>1 DEF Linked
  <2> QED
    BY <2>2, <2>3
<1>9. Linked(u, n)
  <2> ~In(u, n, n)
    BY <1>1 DEF In, IsInside
  <2>1. CASE p = Root
    <3>1. p \notin D
      BY <2>1 DEF Forests
    <3> QED
      BY <1>5, <2>1, <3>1 DEF Linked
  <2>2. CASE p \in D
    <3>1. t[p].depth \in Int /\ u[p].depth = t[p].depth /\ p # Root
      BY <2>2 DEF Forests, Linked
    <3> QED
      BY <1>3, <1>5, <2>2, <3>1 DEF Linked
  <2> QED
    BY <2>1, <2>2
<1> QED
  BY <1>1, <1>2, <1>6, <1>7, <1>8, <1>9 DEF Forests

(* Without i and what is below it.                                          *)
LEMMA DeleteKeeps ==
  ASSUME NEW t, NEW u, NEW m, NEW i, Forests(t, m), i \in DOMAIN t,
         DOMAIN u = {j \in DOMAIN t : j # i /\ ~In(t, j, i)},
         \A j \in DOMAIN u :
           /\ u[j].lft = IF t[j].lft > t[i].rght THEN t[j].lft - Width(t[i]) ELSE t[j].lft
           /\ u[j].rght = IF t[j].rght > t[i].rght THEN t[j].rght - Width(t[i]) ELSE t[j].rght
           /\ u[j].parent = t[j].parent /\ u[j].depth = t[j].depth
  PROVE  Forests(u, m - Width(t[i]))
<1> DEFINE L == t[i].lft
<1> DEFINE R == t[i].rght
<1> DEFINE W == R - L + 1
<1> USE DEF Root, Ids
<1>1. /\ m \in Nat /\ L \in Nat /\ R \in Nat /\ 1 <= L /\ L < R /\ R <= m /\ Width(t[i]) = W
      /\ \A j \in DOMAIN t : /\ t[j].lft \in Nat /\ t[j].rght \in Nat
                             /\ 1 <= t[j].lft /\ t[j].lft < t[j].rght /\ t[j].rght <= m
  BY DEF Forests, Bounds, Width
<1>2. \A j \in DOMAIN u :
        /\ j \in DOMAIN t /\ j # i
        /\ t[j].rght < L \/ t[j].lft > R \/ (t[j].lft < L /\ t[j].rght > R)
  BY DEF Forests, Laminar, Apart, In, IsInside
<1> HIDE DEF L, R
<1>3. \A j \in DOMAIN u :
        /\ u[j].lft = IF t[j].lft > R THEN t[j].lft - W ELSE t[j].lft
        /\ u[j].rght = IF t[j].rght > R THEN t[j].rght - W ELSE t[j].rght
  BY <1>1 DEF R
<1>4. Bounds(u, m - W)
  BY <1>1, <1>2, <1>3 DEF Bounds
<1>5. \A j, k \in DOMAIN u :
        /\ In(u, j, k) <=> In(t, j, k)
        /\ Apart(u, j, k) <=> Apart(t, j, k)
  BY <1>1, <1>2, <1>3 DEF In, IsInside, Apart
<1>6. Laminar(u)
  BY <1>2, <1>5 DEF Laminar, Forests
<1>7. Filled(u, m - W)
  <2> SUFFICES ASSUME NEW v \in 1..(m - W)
               PROVE  \E j \in DOMAIN u : u[j].lft = v \/ u[j].rght = v
    BY DEF Filled
  <2> DEFINE w == IF v < L THEN v ELSE v + W
  <2>1. w \in 1..m /\ w \notin L..R
    BY <1>1
  <2>2. PICK j \in DOMAIN t : t[j].lft = w \/ t[j].rght = w
    BY <2>1 DEF Forests, Filled
  <2>3. j \in DOMAIN u
    BY <1>1, <2>1, <2>2 DEF In, IsInside, L, R
  <2> QED
    BY <1>1, <1>2, <1>3, <2>2, <2>3
<1>8. ASSUME NEW j \in DOMAIN u
      PROVE  Linked(u, j)
  <2>1. /\ Linked(t, j) /\ j \in DOMAIN t /\ u[j].parent = t[j].parent /\ u[j].depth = t[j].depth
    BY <1>2 DEF Forests
  <2>2. CASE t[j].parent = Root
    BY <1>2, <1>5, <2>1, <2>2 DEF Linked
  <2>3. CASE t[j].parent # Root
    <3>1. t[j].parent \in DOMAIN t /\ In(t, j, t[j].parent)
      BY <2>1, <2>3 DEF Linked
    <3>2. t[j].parent \in DOMAIN u
      BY <1>1, <2>1, <3>1 DEF In, IsInside
    <3> QED
      BY <1>2, <1>5, <2>1, <2>3, <3>1, <3>2 DEF Linked
  <2> QED
    BY <2>2, <2>3
<1> QED
  BY <1>1, <1>2, <1>4, <1>6, <1>7, <1>8 DEF Forests

(* With i as the last root and its children in its place.                   *)
Removes(t, u, m, i) ==
  /\ DOMAIN u = DOMAIN t
  /\ \A j \in DOMAIN t \ {i} :
       /\ u[j].lft = IF t[j].lft > t[i].rght THEN t[j].lft - 2
                     ELSE IF In(t, j, i) THEN t[j].lft - 1 ELSE t[j].lft
       /\ u[j].rght = IF t[j].rght > t[i].rght THEN t[j].rght - 2
                      ELSE IF In(t, j, i) THEN t[j].rght - 1 ELSE t[j].rght
       /\ u[j].parent = IF t[j].parent = i THEN t[i].parent ELSE t[j].parent
       /\ u[j].depth = IF In(t, j, i) THEN t[j].depth - 1 ELSE t[j].depth
  /\ u[i].lft = m - 1 /\ u[i].rght = m /\ u[i].parent = Root /\ u[i].depth = 0

(* remove_from_tree(): the children of i take its place, i becomes the last *)
(* root.                                                                    *)
LEMMA RemoveKeeps ==
  ASSUME NEW t, NEW u, NEW m, NEW i, Forests(t, m), i \in DOMAIN t, Removes(t, u, m, i)
  PROVE  Forests(u, m)
<1> DEFINE L == t[i].lft
<1> DEFINE R == t[i].rght
<1> USE DEF Root, Ids
<1>1. /\ m \in Nat /\ L \in Nat /\ R \in Nat /\ 1 <= L /\ L < R /\ R <= m
      /\ \A j \in DOMAIN t : /\ t[j].lft \in Nat /\ t[j].rght \in Nat
                             /\ 1 <= t[j].lft /\ t[j].lft < t[j].rght /\ t[j].rght <= m
  BY DEF Forests, Bounds
<1>2. \A j \in DOMAIN t : In(t, j, i) <=> L < t[j].lft /\ t[j].rght < R
  BY DEF In, IsInside
<1>3. \A j \in DOMAIN t : j # i =>
        \/ t[j].rght < L \/ t[j].lft > R \/ (t[j].lft < L /\ t[j].rght > R) \/ (L < t[j].lft /\ t[j].rght < R)
  BY DEF Forests, Laminar, Apart, In, IsInside
<1> HIDE DEF L, R
<1>4. \A j \in DOMAIN t : j # i =>
        /\ u[j].lft = IF t[j].lft > R THEN t[j].lft - 2
                      ELSE IF L < t[j].lft /\ t[j].rght < R THEN t[j].lft - 1 ELSE t[j].lft
        /\ u[j].rght = IF t[j].rght > R THEN t[j].rght - 2
                       ELSE IF L < t[j].lft /\ t[j].rght < R THEN t[j].rght - 1 ELSE t[j].rght
  BY <1>2 DEF L, R, Removes
<1>5. Bounds(u, m) /\ \A j \in DOMAIN t : j # i => u[j].rght < m - 1
  BY <1>1, <1>3, <1>4 DEF Bounds, Removes
<1>6. \A j, k \in DOMAIN t : j # i /\ k # i =>
        /\ In(u, j, k) <=> In(t, j, k)
        /\ Apart(u, j, k) <=> Apart(t, j, k)
  BY <1>1, <1>3, <1>4 DEF In, IsInside, Apart
<1>7. \A j \in DOMAIN t : ~In(u, i, j) /\ ~In(u, j, i) /\ (j # i => Apart(u, i, j) /\ Apart(u, j, i))
  BY <1>1, <1>5 DEF In, IsInside, Apart, Bounds, Removes
<1>8. Laminar(u)
  BY <1>6, <1>7 DEF Laminar, Forests, Removes
<1>9. Filled(u, m)
  <2> SUFFICES ASSUME NEW v \in 1..(m - 2)
               PROVE  \E j \in DOMAIN u : u[j].lft = v \/ u[j].rght = v
    BY <1>1 DEF Filled, Removes
  <2> DEFINE w == IF v < L THEN v ELSE IF v + 1 < R THEN v + 1 ELSE v + 2
  <2>1. w \in 1..m /\ w # L /\ w # R
    BY <1>1
  <2>2. PICK j \in DOMAIN t : t[j].lft = w \/ t[j].rght = w
    BY <2>1 DEF Forests, Filled
  <2>3. j # i
    BY <2>1, <2>2 DEF L, R
  <2> QED
    BY <1>1, <1>3, <1>4, <2>2, <2>3 DEF Removes
<1>10. ASSUME NEW j \in DOMAIN u, j # i
       PROVE  Linked(u, j)
  <2>1. /\ Linked(t, j) /\ Linked(t, i)
        /\ u[j].parent = IF t[j].parent = i THEN t[i].parent ELSE t[j].parent
        /\ u[j].depth = IF In(t, j, i) THEN t[j].depth - 1 ELSE t[j].depth
        /\ j \in DOMAIN t /\ DOMAIN u = DOMAIN t
        /\ \A k \in DOMAIN t : k # i => u[k].depth = IF In(t, k, i) THEN t[k].depth - 1 ELSE t[k].depth
    BY <1>10 DEF Forests, Removes
  <2>2. \A k \in DOMAIN t : ~In(t, k, k) /\ (In(t, k, i) => ~In(t, i, k))
    BY <1>1 DEF In, IsInside
  <2>3. \A x, y, z \in DOMAIN t : In(t, x, y) /\ In(t, y, z) => In(t, x, z)
    BY <1>1 DEF In, IsInside
  <2>4. CASE t[j].parent = Root
    <3>1. i # Root /\ u[j].parent = Root /\ ~In(t, j, i) /\ t[j].depth = 0
      BY <2>1, <2>4 DEF Linked, Forests
    <3> QED
      BY <1>6, <1>7, <1>10, <2>1, <2>4, <3>1 DEF Linked
  <2>5. CASE t[j].parent # Root /\ t[j].parent # i
    <3> DEFINE q == t[j].parent
    <3>1. q \in DOMAIN t /\ In(t, j, q) /\ t[j].depth = t[q].depth + 1 /\ t[q].depth \in Int
      BY <2>1, <2>5 DEF Linked, Forests
    <3>2. In(t, j, i) <=> In(t, q, i)
      BY <2>1, <2>3, <2>5, <3>1 DEF Linked
    <3>4. u[j].parent = q /\ u[q].depth = (IF In(t, q, i) THEN t[q].depth - 1 ELSE t[q].depth)
      BY <2>1, <2>5, <3>1
    <3>5. \A k \in DOMAIN t : In(u, j, k) => k = q \/ In(u, q, k)
      BY <1>6, <1>7, <1>10, <2>1, <2>5, <3>1 DEF Linked
    <3>6. In(u, j, q)
      BY <1>6, <1>10, <2>1, <2>5, <3>1
    <3>7. u[j].depth \in Int /\ u[j].depth = u[q].depth + 1
      <4>1. CASE In(t, j, i)
        BY <2>1, <3>1, <3>2, <3>4, <4>1
      <4>2. CASE ~In(t, j, i)
        BY <2>1, <3>1, <3>2, <3>4, <4>2
      <4> QED
        BY <4>1, <4>2
    <3> QED
      BY <2>1, <2>5, <3>1, <3>4, <3>5, <3>6, <3>7 DEF Linked
  <2>6. CASE t[j].parent # Root /\ t[j].parent = i
    <3>1. /\ In(t, j, i) /\ t[j].depth = t[i].depth + 1 /\ t[i].depth \in Int
          /\ u[j].parent = t[i].parent
      BY <2>1, <2>6 DEF Linked
    <3> u[j].depth = t[i].depth
      BY <2>1, <3>1
    <3>2. CASE t[i].parent = Root
      <4>1. \A k \in DOMAIN t : ~In(u, j, k)
        BY <1>6, <1>7, <1>10, <2>1, <2>6, <3>2 DEF Linked
      <4> QED
        BY <2>1, <3>1, <3>2, <4>1 DEF Linked
    <3>3. CASE t[i].parent # Root
      <4> DEFINE q == t[i].parent
      <4>1. q \in DOMAIN t /\ In(t, i, q) /\ t[i].depth = t[q].depth + 1 /\ q # i /\ ~In(t, q, i)
        BY <2>1, <2>2, <3>3 DEF Linked
      <4>2. In(u, j, q) /\ u[q].depth = t[q].depth
        BY <1>6, <1>10, <2>1, <2>3, <3>1, <4>1
      <4>3. \A k \in DOMAIN t : In(u, j, k) => k = q \/ In(u, q, k)
        BY <1>6, <1>7, <1>10, <2>1, <2>6, <3>3, <4>1 DEF Linked
      <4> QED
        BY <2>1, <3>1, <3>3, <4>1, <4>2, <4>3 DEF Linked
    <3> QED
      BY <3>2, <3>3
  <2> QED
    BY <2>4, <2>5, <2>6
<1>11. Linked(u, i)
  BY <1>7 DEF Linked, Removes
<1> QED
  BY <1>1, <1>5, <1>8, <1>9, <1>10, <1>11 DEF Forests, Removes

(* With the block of i as the last child of q.                              *)
Block(t, j, i) == j = i \/ In(t, j, i)
Point(t, m, q) == IF q = Root THEN m + 1 ELSE t[q].rght
Level(t, q)    == IF q = Root THEN 0 ELSE t[q].depth + 1
Closed(v, b)   == IF v > b.rght THEN v - Width(b) ELSE v
Opened(v, b, g) == IF Closed(v, b) >= g THEN Closed(v, b) + Width(b) ELSE Closed(v, b)
MovesTo(t, u, i, q, g, level) ==
  /\ DOMAIN u = DOMAIN t
  /\ \A j \in DOMAIN t :
       /\ u[j].lft = IF Block(t, j, i) THEN t[j].lft + g - t[i].lft ELSE Opened(t[j].lft, t[i], g)
       /\ u[j].rght = IF Block(t, j, i) THEN t[j].rght + g - t[i].lft ELSE Opened(t[j].rght, t[i], g)
       /\ u[j].parent = IF j = i THEN q ELSE t[j].parent
       /\ u[j].depth = IF Block(t, j, i) THEN t[j].depth + level - t[i].depth ELSE t[j].depth

(* move_to(): i and what is below it becomes the last child of q.           *)
LEMMA MoveKeeps ==
  ASSUME NEW t, NEW u, NEW m, NEW i, NEW q, Forests(t, m), i \in DOMAIN t,
         q = Root \/ (q \in DOMAIN t /\ ~Block(t, q, i)),
         MovesTo(t, u, i, q, Closed(Point(t, m, q), t[i]), Level(t, q))
  PROVE  Forests(u, m)
<1> DEFINE L == t[i].lft
<1> DEFINE R == t[i].rght
<1> DEFINE P == Point(t, m, q)
<1> DEFINE W == R - L + 1
<1> DEFINE g == IF P > R THEN P - W ELSE P
<1> DEFINE cl(v) == IF v > R THEN v - W ELSE v
<1> DEFINE op(v) == IF cl(v) >= g THEN cl(v) + W ELSE cl(v)
<1> DEFINE B(j) == Block(t, j, i)
<1> USE DEF Root, Ids
<1>1. /\ m \in Nat /\ L \in Nat /\ R \in Nat /\ 1 <= L /\ L < R /\ R <= m
      /\ \A j \in DOMAIN t : /\ t[j].lft \in Nat /\ t[j].rght \in Nat
                             /\ 1 <= t[j].lft /\ t[j].lft < t[j].rght /\ t[j].rght <= m
  BY DEF Forests, Bounds
<1>2. \A j \in DOMAIN t : B(j) <=> L <= t[j].lft /\ t[j].rght <= R
  BY <1>1 DEF Block, In, IsInside, Forests, Laminar, Apart
<1>3. \A j \in DOMAIN t : ~B(j) =>
        t[j].rght < L \/ t[j].lft > R \/ (t[j].lft < L /\ t[j].rght > R)
  BY DEF Forests, Laminar, Apart, In, IsInside, Block
<1>4. /\ P \in Nat /\ 1 <= P /\ P <= m + 1 /\ (P < L \/ P > R)
      /\ q # Root => q \in DOMAIN t /\ P = t[q].rght
      /\ q = Root => P = m + 1
  <2>1. CASE q = Root
    BY <1>1, <2>1 DEF Point
  <2>2. CASE q # Root
    BY <1>1, <1>3, <2>2 DEF Point
  <2> QED
    BY <2>1, <2>2
<1>5. /\ DOMAIN u = DOMAIN t
      /\ \A j \in DOMAIN t :
           /\ B(j) => u[j].lft = t[j].lft + g - L /\ u[j].rght = t[j].rght + g - L
           /\ ~B(j) => u[j].lft = op(t[j].lft) /\ u[j].rght = op(t[j].rght)
           /\ u[j].parent = IF j = i THEN q ELSE t[j].parent
           /\ u[j].depth = IF B(j) THEN t[j].depth + Level(t, q) - t[i].depth ELSE t[j].depth
  BY DEF MovesTo, Opened, Closed, Width
<1> HIDE DEF L, R, P, B
<1>6. Bounds(u, m)
  BY <1>1, <1>2, <1>3, <1>4, <1>5 DEF Bounds
<1>7. \A j, k \in DOMAIN t : (B(j) <=> B(k)) =>
        /\ In(u, j, k) <=> In(t, j, k)
        /\ Apart(u, j, k) <=> Apart(t, j, k)
  BY <1>1, <1>2, <1>3, <1>4, <1>5 DEF In, IsInside, Apart
<1>8. \A j, k \in DOMAIN t : B(j) /\ ~B(k) =>
        /\ In(u, j, k) <=> t[k].lft < P /\ P <= t[k].rght
        /\ ~In(u, k, j)
        /\ ~In(u, j, k) => Apart(u, j, k) /\ Apart(u, k, j)
  BY <1>1, <1>2, <1>3, <1>4, <1>5 DEF In, IsInside, Apart
<1>9. \A k \in DOMAIN t : t[k].lft < P /\ P <= t[k].rght <=> q # Root /\ Block(t, q, k)
  BY <1>1, <1>4 DEF Block, In, IsInside, Forests, Laminar, Apart
<1>10. Laminar(u)
  BY <1>5, <1>7, <1>8 DEF Laminar, Forests
<1>11. Filled(u, m)
  <2> SUFFICES ASSUME NEW v \in 1..m
               PROVE  \E j \in DOMAIN t : u[j].lft = v \/ u[j].rght = v
    BY <1>5 DEF Filled
  <2>1. CASE v >= g /\ v < g + W
    <3> DEFINE w == v - g + L
    <3>1. w \in L..R /\ w \in 1..m
      BY <1>1, <1>4, <2>1
    <3>2. PICK j \in DOMAIN t : t[j].lft = w \/ t[j].rght = w
      BY <3>1 DEF Forests, Filled
    <3>3. B(j)
      BY <1>1, <1>2, <1>3, <3>1, <3>2
    <3> QED
      BY <1>1, <1>4, <1>5, <3>2, <3>3
  <2>2. CASE ~(v >= g /\ v < g + W)
    <3> DEFINE w1 == IF v >= g + W THEN v - W ELSE v
    <3> DEFINE w == IF w1 >= L THEN w1 + W ELSE w1
    <3>1. w \notin L..R /\ w \in 1..m
      BY <1>1, <1>4, <2>2
    <3>2. PICK j \in DOMAIN t : t[j].lft = w \/ t[j].rght = w
      BY <3>1 DEF Forests, Filled
    <3>3. ~B(j)
      BY <1>1, <1>2, <3>1, <3>2
    <3>4. op(w) = v
      BY <1>1, <1>4, <2>2
    <3> QED
      BY <1>5, <3>2, <3>3, <3>4
  <2> QED
    BY <2>1, <2>2
<1>12. \A x, y, z \in DOMAIN t : In(t, x, y) /\ In(t, y, z) => In(t, x, z)
  BY <1>1 DEF In, IsInside
<1>13. \A x, y \in DOMAIN t : B(y) /\ In(t, x, y) => B(x)
  BY <1>12 DEF B, Block
<1>14. ASSUME NEW j \in DOMAIN t, j # i
       PROVE  Linked(u, j)
  <2>1. Linked(t, j) /\ u[j].parent = t[j].parent /\ Level(t, q) \in Int /\ t[i].depth \in Int
    BY <1>4, <1>5, <1>14 DEF Forests, Linked, Level
  <2>2. CASE t[j].parent = Root
    <3>1. ~B(j)
      BY <1>14, <2>1, <2>2 DEF Linked, B, Block
    <3>2. \A k \in DOMAIN t : ~In(u, j, k)
      BY <1>7, <1>8, <2>1, <2>2, <3>1 DEF Linked
    <3> QED
      BY <1>5, <2>1, <2>2, <3>1, <3>2 DEF Linked
  <2>3. CASE t[j].parent # Root
    <3> DEFINE p == t[j].parent
    <3>1. /\ p \in DOMAIN t /\ In(t, j, p) /\ t[j].depth = t[p].depth + 1 /\ t[p].depth \in Int
          /\ \A k \in DOMAIN t : In(t, j, k) => k = p \/ In(t, p, k)
      BY <2>1, <2>3 DEF Linked, Forests
    <3>2. B(j) <=> B(p)
      BY <1>13, <1>14, <3>1 DEF B, Block
    <3>3. In(u, j, p)
      BY <1>7, <3>1, <3>2
    <3>4. u[j].depth \in Int /\ u[j].depth = u[p].depth + 1
      <4>1. CASE B(j)
        BY <1>5, <2>1, <3>1, <3>2, <4>1
      <4>2. CASE ~B(j)
        BY <1>5, <2>1, <3>1, <3>2, <4>2
      <4> QED
        BY <4>1, <4>2
    <3>5. ASSUME NEW k \in DOMAIN t, In(u, j, k)
          PROVE  k = p \/ In(u, p, k)
      <4>1. CASE B(j) <=> B(k)
        BY <1>7, <3>1, <3>2, <3>5, <4>1
      <4>2. CASE ~(B(j) <=> B(k))
        BY <1>8, <3>1, <3>2, <3>5, <4>2
      <4> QED
        BY <4>1, <4>2
    <3> QED
      BY <1>5, <2>1, <2>3, <3>1, <3>3, <3>4, <3>5 DEF Linked
  <2> QED
    BY <2>2, <2>3
<1>15. Linked(u, i)
  <2>1. B(i) /\ Linked(t, i) /\ i # Root
    BY DEF B, Block, Forests
  <2>2. u[i].parent = q /\ u[i].depth = Level(t, q)
    BY <1>4, <1>5, <2>1 DEF Linked, Level, Forests
  <2>3. ASSUME NEW k \in DOMAIN t, In(u, i, k)
        PROVE  q # Root /\ (k = q \/ In(t, q, k)) /\ ~B(k)
    <3>1. CASE B(k)
      <4>1. In(t, i, k)
        BY <1>7, <2>1, <2>3, <3>1
      <4> QED
        BY <1>1, <3>1, <4>1 DEF B, Block, In, IsInside
    <3>2. CASE ~B(k)
      BY <1>8, <1>9, <2>1, <2>3, <3>2 DEF Block
    <3> QED
      BY <3>1, <3>2
  <2>4. CASE q = Root
    BY <1>5, <2>2, <2>3, <2>4 DEF Linked, Level
  <2>5. CASE q # Root
    <3>1. ~B(q) /\ q \in DOMAIN t
      BY <1>4, <2>5 DEF B
    <3>2. In(u, i, q)
      BY <1>8, <1>9, <2>1, <2>5, <3>1 DEF Block
    <3>3. u[q].depth = t[q].depth /\ t[q].depth \in Int
      BY <1>5, <3>1 DEF Forests, Linked
    <3>4. \A k \in DOMAIN t : In(u, i, k) => k = q \/ In(u, q, k)
      BY <1>7, <2>3, <3>1
    <3> QED
      BY <1>5, <2>2, <2>5, <3>1, <3>2, <3>3, <3>4 DEF Linked, Level
  <2> QED
    BY <2>4, <2>5
<1> QED
  BY <1>1, <1>5, <1>6, <1>10, <1>11, <1>14, <1>15 DEF Forests

(* With two neighbours exchanged.                                           *)
Swaps(t, u, l, r) ==
  /\ DOMAIN u = DOMAIN t
  /\ \A j \in DOMAIN t :
       /\ u[j].lft = IF Block(t, j, r) THEN t[j].lft - Width(t[l])
                     ELSE IF Block(t, j, l) THEN t[j].lft + Width(t[r]) ELSE t[j].lft
       /\ u[j].rght = IF Block(t, j, r) THEN t[j].rght - Width(t[l])
                      ELSE IF Block(t, j, l) THEN t[j].rght + Width(t[r]) ELSE t[j].rght
       /\ u[j].parent = t[j].parent /\ u[j].depth = t[j].depth

(* swap_adjacent(): the ranges of two neighbours change places.             *)
LEMMA SwapKeeps ==
  ASSUME NEW t, NEW u, NEW m, NEW l, NEW r, Forests(t, m), l \in DOMAIN t, r \in DOMAIN t,
         t[l].rght + 1 = t[r].lft, Swaps(t, u, l, r)
  PROVE  Forests(u, m)
<1> DEFINE A == t[l].lft
<1> DEFINE M == t[r].lft
<1> DEFINE Z == t[r].rght
<1>1. /\ m \in Nat /\ A \in Nat /\ M \in Nat /\ Z \in Nat
      /\ 1 <= A /\ A + 1 < M /\ M < Z /\ Z <= m /\ t[l].rght = M - 1
      /\ \A j \in DOMAIN t : /\ t[j].lft \in Nat /\ t[j].rght \in Nat
                             /\ 1 <= t[j].lft /\ t[j].lft < t[j].rght /\ t[j].rght <= m
  BY DEF Forests, Bounds
<1>2. \A j \in DOMAIN t : /\ Block(t, j, r) <=> M <= t[j].lft /\ t[j].rght <= Z
                          /\ Block(t, j, l) <=> A <= t[j].lft /\ t[j].rght < M
  BY <1>1 DEF Block, In, IsInside, Forests, Laminar, Apart
<1>3. \A j \in DOMAIN t :
        \/ M <= t[j].lft /\ t[j].rght <= Z
        \/ A <= t[j].lft /\ t[j].rght < M
        \/ t[j].rght < A \/ t[j].lft > Z \/ (t[j].lft < A /\ t[j].rght > Z)
  <2>1. \A j \in DOMAIN t : j = l \/ Apart(t, j, l) \/ In(t, j, l) \/ In(t, l, j)
    BY DEF Forests, Laminar
  <2>2. \A j \in DOMAIN t : j = r \/ Apart(t, j, r) \/ In(t, j, r) \/ In(t, r, j)
    BY DEF Forests, Laminar
  <2> QED
    BY <1>1, <2>1, <2>2 DEF Apart, In, IsInside
<1>4. /\ DOMAIN u = DOMAIN t
      /\ \A j \in DOMAIN t :
           /\ u[j].lft = IF M <= t[j].lft /\ t[j].rght <= Z THEN t[j].lft - (M - A)
                         ELSE IF A <= t[j].lft /\ t[j].rght < M THEN t[j].lft + (Z - M + 1) ELSE t[j].lft
           /\ u[j].rght = IF M <= t[j].lft /\ t[j].rght <= Z THEN t[j].rght - (M - A)
                          ELSE IF A <= t[j].lft /\ t[j].rght < M THEN t[j].rght + (Z - M + 1) ELSE t[j].rght
           /\ u[j].parent = t[j].parent /\ u[j].depth = t[j].depth
  <2>1. Width(t[l]) = M - A /\ Width(t[r]) = Z - M + 1
    BY <1>1 DEF Width
  <2> QED
    BY <1>2, <2>1 DEF Swaps
<1> HIDE DEF A, M, Z
<1>5. Bounds(u, m)
  BY <1>1, <1>3, <1>4 DEF Bounds
<1>6. \A j, k \in DOMAIN t : In(u, j, k) <=> In(t, j, k)
  BY <1>1, <1>3, <1>4 DEF In, IsInside
<1>7. \A j, k \in DOMAIN t : Apart(u, j, k) <=> Apart(t, j, k)
  BY <1>1, <1>3, <1>4 DEF Apart
<1>8. Laminar(u)
  BY <1>4, <1>6, <1>7 DEF Laminar, Forests
<1>9. Filled(u, m)
  <2> SUFFICES ASSUME NEW v \in 1..m
               PROVE  \E j \in DOMAIN t : u[j].lft = v \/ u[j].rght = v
    BY <1>4 DEF Filled
  <2> DEFINE w == IF A <= v /\ v <= A + Z - M THEN v + (M - A)
                  ELSE IF A + Z - M < v /\ v <= Z THEN v - (Z - M + 1) ELSE v
  <2>1. w \in 1..m
    BY <1>1
  <2>2. PICK j \in DOMAIN t : t[j].lft = w \/ t[j].rght = w
    BY <2>1 DEF Forests, Filled
  <2> QED
    BY <1>1, <1>3, <1>4, <2>2
<1>10. ASSUME NEW j \in DOMAIN t PROVE Linked(u, j)
  <2>1. Linked(t, j)
    BY DEF Forests
  <2>2. CASE t[j].parent = Root
    BY <1>4, <1>6, <2>1, <2>2 DEF Linked
  <2>3. CASE t[j].parent # Root
    BY <1>4, <1>6, <2>1, <2>3 DEF Linked
  <2> QED
    BY <2>2, <2>3
<1> QED
  BY <1>1, <1>4, <1>5, <1>8, <1>9, <1>10 DEF Forests

-----------------------------------------------------------------------------
(* What the statements of an operation make of the table of their scope.    *)
Cols       == {"scope", "parent", "lft", "rght", "depth"}
Tabular(t) == \A i \in DOMAIN t : DOMAIN t[i] = Cols
Applied(s, t, st, id) ==
  CASE st.kind = "drop"   -> [i \in {j \in DOMAIN t : ~Within(t[j], st)} |-> t[i]]
    [] st.kind = "insert" ->
         [i \in DOMAIN t \union {id} |->
            IF i = id THEN With([scope |-> s, parent |-> 0, lft |-> 0, rght |-> 0, depth |-> 0], st.cols)
                      ELSE t[i]]
    [] OTHER -> [i \in DOMAIN t |-> IF Affects(st, i, t[i]) THEN Changed(st, t[i]) ELSE t[i]]
Leads(s, t, todo, id, u) ==
  \E f : /\ f[1] = t /\ f[Len(todo) + 1] = u
         /\ \A k \in 1..Len(todo) : f[k + 1] = Applied(s, f[k], todo[k], id)

(* What each kind of statement does to the columns of a table: first the    *)
(* two shifts of bounds at or after a number,                               *)
LEMMA ShiftLft ==
  ASSUME NEW s, NEW t, NEW id, NEW from, NEW by, Tabular(t), NEW u,
         u = Applied(s, t, Shift("lft", from, by), id)
  PROVE  /\ Tabular(u) /\ DOMAIN u = DOMAIN t
         /\ \A j \in DOMAIN t :
              /\ u[j].lft = IF t[j].lft >= from THEN t[j].lft + by ELSE t[j].lft
              /\ u[j].rght = t[j].rght /\ u[j].parent = t[j].parent /\ u[j].depth = t[j].depth
BY DEF Applied, Shift, Affects, Changed, Tabular, Cols

(* likewise of the right bounds,                                            *)
LEMMA ShiftRght ==
  ASSUME NEW s, NEW t, NEW id, NEW from, NEW by, Tabular(t), NEW u,
         u = Applied(s, t, Shift("rght", from, by), id)
  PROVE  /\ Tabular(u) /\ DOMAIN u = DOMAIN t
         /\ \A j \in DOMAIN t :
              /\ u[j].rght = IF t[j].rght >= from THEN t[j].rght + by ELSE t[j].rght
              /\ u[j].lft = t[j].lft /\ u[j].parent = t[j].parent /\ u[j].depth = t[j].depth
BY DEF Applied, Shift, Affects, Changed, Tabular, Cols

(* the rows of a range moved along the line and up or down,                 *)
LEMMA RangeMoves ==
  ASSUME NEW s, NEW t, NEW id, NEW lo, NEW hi, NEW by, NEW deeper, Tabular(t), NEW u,
         u = Applied(s, t, MoveRange(lo, hi, by, deeper), id)
  PROVE  /\ Tabular(u) /\ DOMAIN u = DOMAIN t
         /\ \A j \in DOMAIN t :
              LET in == t[j].lft >= lo /\ t[j].rght <= hi
              IN  /\ u[j].lft = IF in THEN t[j].lft + by ELSE t[j].lft
                  /\ u[j].rght = IF in THEN t[j].rght + by ELSE t[j].rght
                  /\ u[j].depth = IF in THEN t[j].depth + deeper ELSE t[j].depth
                  /\ u[j].parent = t[j].parent
BY ZenonT(60) DEF Applied, MoveRange, Affects, Changed, Within, Tabular, Cols

(* the children of one row given to another,                                *)
LEMMA AdoptMoves ==
  ASSUME NEW s, NEW t, NEW id, NEW old, NEW new, Tabular(t), NEW u,
         u = Applied(s, t, Adopt(old, new), id)
  PROVE  /\ Tabular(u) /\ DOMAIN u = DOMAIN t
         /\ \A j \in DOMAIN t :
              /\ u[j].parent = IF t[j].parent = old THEN new ELSE t[j].parent
              /\ u[j].lft = t[j].lft /\ u[j].rght = t[j].rght /\ u[j].depth = t[j].depth
BY DEF Applied, Adopt, Affects, Changed, Tabular, Cols

(* the rows of a range deleted,                                             *)
LEMMA DropMoves ==
  ASSUME NEW s, NEW t, NEW id, NEW lo, NEW hi, Tabular(t), NEW u,
         u = Applied(s, t, DropRange(lo, hi), id)
  PROVE  /\ Tabular(u)
         /\ \A j : j \in DOMAIN u <=> j \in DOMAIN t /\ ~(t[j].lft >= lo /\ t[j].rght <= hi)
         /\ \A j \in DOMAIN u : u[j] = t[j]
BY DEF Applied, DropRange, Within, Tabular, Cols

(* columns of one row assigned,                                             *)
LEMMA AssignMoves ==
  ASSUME NEW s, NEW t, NEW id, NEW i, NEW cols, Tabular(t), NEW u,
         u = Applied(s, t, Assign(i, cols), id)
  PROVE  /\ Tabular(u) /\ DOMAIN u = DOMAIN t
         /\ \A j \in DOMAIN t : j # i => u[j] = t[j]
         /\ i \in DOMAIN t => \A c \in Cols : u[i][c] = IF c \in DOMAIN cols THEN cols[c] ELSE t[i][c]
BY DEF Applied, Assign, Affects, Changed, With, Tabular, Cols

(* and a row inserted.                                                      *)
LEMMA InsertMoves ==
  ASSUME NEW s, NEW t, NEW id, NEW p, NEW l, NEW d, Tabular(t), NEW u,
         u = Applied(s, t, NewRow(p, l, d), id)
  PROVE  /\ Tabular(u)
         /\ \A j : j \in DOMAIN u <=> j = id \/ j \in DOMAIN t
         /\ \A j \in DOMAIN t : j # id => u[j] = t[j]
         /\ u[id].parent = p /\ u[id].lft = l /\ u[id].rght = l + 1 /\ u[id].depth = d
BY DEF Applied, NewRow, With, Tabular, Cols

-----------------------------------------------------------------------------
(* Each operation of a sound table leads to what it promises.               *)
LEMMA MoveLeads ==
  ASSUME TreeAssumption, NEW s, NEW t, NEW id, NEW m, Forests(t, m), Tabular(t), NEW i \in DOMAIN t,
         NEW q, q = Root \/ (q \in DOMAIN t /\ ~Block(t, q, i)),
         NEW L, NEW R, NEW W, NEW iso, NEW g, NEW level,
         L = t[i].lft, R = t[i].rght, W = Width(t[i]), iso = -Temp - R,
         g = Closed(Point(t, m, q), t[i]), level = Level(t, q),
         NEW todo,
         todo = <<MoveRange(L, R, iso, 0), Shift("lft", R + 1, -W), Shift("rght", R + 1, -W),
                  Shift("rght", g, W), Shift("lft", g, W),
                  MoveRange(L + iso, R + iso, g - L - iso, level - t[i].depth),
                  Assign(i, [parent |-> q])>>
  PROVE  \E u : Leads(s, t, todo, id, u) /\ Tabular(u) /\ Forests(u, m)
<1> DEFINE u1 == Applied(s, t, MoveRange(L, R, iso, 0), id)
<1> DEFINE u2 == Applied(s, u1, Shift("lft", R + 1, -W), id)
<1> DEFINE u3 == Applied(s, u2, Shift("rght", R + 1, -W), id)
<1> DEFINE u4 == Applied(s, u3, Shift("rght", g, W), id)
<1> DEFINE u5 == Applied(s, u4, Shift("lft", g, W), id)
<1> DEFINE u6 == Applied(s, u5, MoveRange(L + iso, R + iso, g - L - iso, level - t[i].depth), id)
<1> DEFINE u  == Applied(s, u6, Assign(i, [parent |-> q]), id)
<1> DEFINE D == DOMAIN t
<1>1. Leads(s, t, todo, id, u)
  <2> DEFINE f == <<t, u1, u2, u3, u4, u5, u6, u>>
  <2>1. Len(todo) = 7
    OBVIOUS
  <2>2. f[1] = t /\ f[Len(todo) + 1] = u
    BY <2>1
  <2>3. \A k \in 1..Len(todo) : f[k + 1] = Applied(s, f[k], todo[k], id)
    <3> HIDE DEF u1, u2, u3, u4, u5, u6, u
    <3> SUFFICES ASSUME NEW k \in 1..7 PROVE f[k + 1] = Applied(s, f[k], todo[k], id)
      BY <2>1
    <3>1. CASE k = 1
      BY <3>1 DEF u1
    <3>2. CASE k = 2
      BY <3>2 DEF u2
    <3>3. CASE k = 3
      BY <3>3 DEF u3
    <3>4. CASE k = 4
      BY <3>4 DEF u4
    <3>5. CASE k = 5
      BY <3>5 DEF u5
    <3>6. CASE k = 6
      BY <3>6 DEF u6
    <3>7. CASE k = 7
      BY <3>7 DEF u
    <3> QED
      BY <3>1, <3>2, <3>3, <3>4, <3>5, <3>6, <3>7
  <2> HIDE DEF f, u1, u2, u3, u4, u5, u6, u
  <2> QED
    BY <2>2, <2>3 DEF Leads
<1>2. /\ m \in Nat /\ L \in Nat /\ R \in Nat /\ 1 <= L /\ L < R /\ R <= m /\ W = R - L + 1
      /\ Temp \in Nat /\ t[i].depth \in Int
      /\ \A j \in D : /\ t[j].lft \in Nat /\ t[j].rght \in Nat /\ t[j].depth \in Int
                      /\ 1 <= t[j].lft /\ t[j].lft < t[j].rght /\ t[j].rght <= m
  BY DEF Forests, Bounds, Linked, Width, TreeAssumption
<1>3. \A j \in D : Block(t, j, i) <=> L <= t[j].lft /\ t[j].rght <= R
  BY <1>2 DEF Block, In, IsInside, Forests, Laminar, Apart
<1>4. /\ g \in Nat /\ g >= 1 /\ level \in Int
      /\ \A j \in D : ~Block(t, j, i) =>
           /\ Closed(t[j].lft, t[i]) = IF t[j].lft > R THEN t[j].lft - W ELSE t[j].lft
           /\ Closed(t[j].rght, t[i]) = IF t[j].rght > R THEN t[j].rght - W ELSE t[j].rght
           /\ Closed(t[j].lft, t[i]) >= 1 /\ Closed(t[j].rght, t[i]) >= 1
           /\ Opened(t[j].lft, t[i], g) =
                IF Closed(t[j].lft, t[i]) >= g THEN Closed(t[j].lft, t[i]) + W ELSE Closed(t[j].lft, t[i])
           /\ Opened(t[j].rght, t[i], g) =
                IF Closed(t[j].rght, t[i]) >= g THEN Closed(t[j].rght, t[i]) + W ELSE Closed(t[j].rght, t[i])
  <2>1. Point(t, m, q) \in Nat /\ Point(t, m, q) >= 1 /\ level \in Int
    BY <1>2 DEF Point, Level, Forests, Linked
  <2>2. \A j \in D : ~Block(t, j, i) =>
          t[j].rght < L \/ t[j].lft > R \/ (t[j].lft < L /\ t[j].rght > R)
    BY DEF Forests, Laminar, Apart, In, IsInside, Block
  <2> QED
    BY <1>2, <2>1, <2>2 DEF Closed, Opened
<1>5. /\ Tabular(u1) /\ DOMAIN u1 = D
      /\ \A j \in D :
           /\ u1[j].lft = IF Block(t, j, i) THEN t[j].lft + iso ELSE t[j].lft
           /\ u1[j].rght = IF Block(t, j, i) THEN t[j].rght + iso ELSE t[j].rght
           /\ u1[j].parent = t[j].parent /\ u1[j].depth = t[j].depth
  <2> HIDE DEF u1
  <2>1. u1 = Applied(s, t, MoveRange(L, R, iso, 0), id)
    BY DEF u1
  <2>2. /\ Tabular(u1) /\ DOMAIN u1 = DOMAIN t
        /\ \A j \in DOMAIN t :
              LET in == t[j].lft >= L /\ t[j].rght <= R
              IN  /\ u1[j].lft = IF in THEN t[j].lft + iso ELSE t[j].lft
                  /\ u1[j].rght = IF in THEN t[j].rght + iso ELSE t[j].rght
                  /\ u1[j].depth = IF in THEN t[j].depth + 0 ELSE t[j].depth
                  /\ u1[j].parent = t[j].parent
    BY <2>1, RangeMoves
  <2> QED
    BY <1>2, <1>3, <2>2
<1> HIDE DEF u1
<1>6. /\ Tabular(u2) /\ DOMAIN u2 = D
      /\ \A j \in D :
           /\ u2[j].lft = IF Block(t, j, i) THEN t[j].lft + iso ELSE Closed(t[j].lft, t[i])
           /\ u2[j].rght = u1[j].rght /\ u2[j].parent = t[j].parent /\ u2[j].depth = t[j].depth
  <2> HIDE DEF u2
  <2>1. /\ Tabular(u2) /\ DOMAIN u2 = DOMAIN u1
        /\ \A j \in DOMAIN u1 :
              /\ u2[j].lft = IF u1[j].lft >= R + 1 THEN u1[j].lft + (-W) ELSE u1[j].lft
              /\ u2[j].rght = u1[j].rght /\ u2[j].parent = u1[j].parent /\ u2[j].depth = u1[j].depth
    BY <1>5, ShiftLft DEF u2
  <2> QED
    BY <1>2, <1>3, <1>4, <1>5, <2>1
<1> HIDE DEF u2
<1>7. /\ Tabular(u3) /\ DOMAIN u3 = D
      /\ \A j \in D :
           /\ u3[j].rght = IF Block(t, j, i) THEN t[j].rght + iso ELSE Closed(t[j].rght, t[i])
           /\ u3[j].lft = u2[j].lft /\ u3[j].parent = t[j].parent /\ u3[j].depth = t[j].depth
  <2> HIDE DEF u3
  <2>1. /\ Tabular(u3) /\ DOMAIN u3 = DOMAIN u2
        /\ \A j \in DOMAIN u2 :
              /\ u3[j].rght = IF u2[j].rght >= R + 1 THEN u2[j].rght + (-W) ELSE u2[j].rght
              /\ u3[j].lft = u2[j].lft /\ u3[j].parent = u2[j].parent /\ u3[j].depth = u2[j].depth
    BY <1>6, ShiftRght DEF u3
  <2> QED
    BY <1>2, <1>3, <1>4, <1>5, <1>6, <2>1
<1> HIDE DEF u3
<1>8. /\ Tabular(u4) /\ DOMAIN u4 = D
      /\ \A j \in D :
           /\ u4[j].rght = IF Block(t, j, i) THEN t[j].rght + iso ELSE Opened(t[j].rght, t[i], g)
           /\ u4[j].lft = u2[j].lft /\ u4[j].parent = t[j].parent /\ u4[j].depth = t[j].depth
  <2> HIDE DEF u4
  <2>1. /\ Tabular(u4) /\ DOMAIN u4 = DOMAIN u3
        /\ \A j \in DOMAIN u3 :
              /\ u4[j].rght = IF u3[j].rght >= g THEN u3[j].rght + W ELSE u3[j].rght
              /\ u4[j].lft = u3[j].lft /\ u4[j].parent = u3[j].parent /\ u4[j].depth = u3[j].depth
    BY <1>7, ShiftRght DEF u4
  <2> QED
    BY <1>2, <1>3, <1>4, <1>7, <2>1
<1> HIDE DEF u4
<1>9. /\ Tabular(u5) /\ DOMAIN u5 = D
      /\ \A j \in D :
           /\ u5[j].lft = IF Block(t, j, i) THEN t[j].lft + iso ELSE Opened(t[j].lft, t[i], g)
           /\ u5[j].rght = u4[j].rght /\ u5[j].parent = t[j].parent /\ u5[j].depth = t[j].depth
  <2> HIDE DEF u5
  <2>1. /\ Tabular(u5) /\ DOMAIN u5 = DOMAIN u4
        /\ \A j \in DOMAIN u4 :
              /\ u5[j].lft = IF u4[j].lft >= g THEN u4[j].lft + W ELSE u4[j].lft
              /\ u5[j].rght = u4[j].rght /\ u5[j].parent = u4[j].parent /\ u5[j].depth = u4[j].depth
    BY <1>8, ShiftLft DEF u5
  <2> QED
    BY <1>2, <1>3, <1>4, <1>6, <1>8, <2>1
<1> HIDE DEF u5
<1>10. /\ Tabular(u6) /\ DOMAIN u6 = D
       /\ \A j \in D :
           /\ u6[j].lft = IF Block(t, j, i) THEN t[j].lft + g - L ELSE Opened(t[j].lft, t[i], g)
           /\ u6[j].rght = IF Block(t, j, i) THEN t[j].rght + g - L ELSE Opened(t[j].rght, t[i], g)
           /\ u6[j].parent = t[j].parent
           /\ u6[j].depth = IF Block(t, j, i) THEN t[j].depth + level - t[i].depth ELSE t[j].depth
  <2> HIDE DEF u6
  <2> DEFINE in(j) == u5[j].lft >= L + iso /\ u5[j].rght <= R + iso
  <2>1. /\ Tabular(u6) /\ DOMAIN u6 = D
        /\ \A j \in D :
              /\ u6[j].lft = IF in(j) THEN u5[j].lft + (g - L - iso) ELSE u5[j].lft
              /\ u6[j].rght = IF in(j) THEN u5[j].rght + (g - L - iso) ELSE u5[j].rght
              /\ u6[j].depth = IF in(j) THEN u5[j].depth + (level - t[i].depth) ELSE u5[j].depth
              /\ u6[j].parent = u5[j].parent
    BY SMTT(30), <1>9, RangeMoves DEF u6
  <2>2. \A j \in D : in(j) <=> Block(t, j, i)
    BY <1>2, <1>3, <1>4, <1>8, <1>9
  <2> HIDE DEF in
  <2> QED
    BY <1>2, <1>4, <1>8, <1>9, <2>1, <2>2
<1> HIDE DEF u6
<1>11. Tabular(u) /\ MovesTo(t, u, i, q, g, level)
  <2> HIDE DEF u
  <2>1. /\ Tabular(u) /\ DOMAIN u = D
        /\ \A j \in D : j # i => u[j] = u6[j]
        /\ \A c \in Cols : u[i][c] = IF c \in DOMAIN [parent |-> q] THEN [parent |-> q][c] ELSE u6[i][c]
    BY <1>10, AssignMoves DEF u
  <2>2. /\ u[i].parent = q /\ u[i].lft = u6[i].lft /\ u[i].rght = u6[i].rght /\ u[i].depth = u6[i].depth
    BY <2>1 DEF Cols
  <2> QED
    BY <1>10, <2>1, <2>2 DEF MovesTo
<1>12. Forests(u, m)
  BY <1>11, MoveKeeps
<1> QED
  BY SMTT(60), <1>1, <1>11, <1>12

(* The three statements of swap_adjacent() lead to a sound table; no bound  *)
(* comes near those of the isolated range.                                  *)
LEMMA SwapLeads ==
  ASSUME TreeAssumption, NEW s, NEW t, NEW id, NEW m, Forests(t, m), m <= 2 * MaxNodes, Tabular(t),
         NEW l \in DOMAIN t, NEW r \in DOMAIN t, t[l].rght + 1 = t[r].lft,
         NEW todo,
         todo = <<MoveRange(t[r].lft, t[r].rght, Temp, 0), MoveRange(t[l].lft, t[l].rght, Width(t[r]), 0),
                  MoveRange(t[r].lft + Temp, t[r].rght + Temp, -Temp - Width(t[l]), 0)>>
  PROVE  \E u : Leads(s, t, todo, id, u) /\ Tabular(u) /\ Forests(u, m)
<1> DEFINE A == t[l].lft
<1> DEFINE M == t[r].lft
<1> DEFINE Z == t[r].rght
<1> DEFINE D == DOMAIN t
<1> DEFINE u1 == Applied(s, t, MoveRange(M, Z, Temp, 0), id)
<1> DEFINE u2 == Applied(s, u1, MoveRange(A, t[l].rght, Width(t[r]), 0), id)
<1> DEFINE u  == Applied(s, u2, MoveRange(M + Temp, Z + Temp, -Temp - Width(t[l]), 0), id)
<1> DEFINE R(j) == Block(t, j, r)
<1> DEFINE L(j) == Block(t, j, l)
<1>1. Leads(s, t, todo, id, u)
  <2> DEFINE f == <<t, u1, u2, u>>
  <2>1. Len(todo) = 3
    OBVIOUS
  <2>2. f[1] = t /\ f[Len(todo) + 1] = u
    BY <2>1
  <2>3. \A k \in 1..Len(todo) : f[k + 1] = Applied(s, f[k], todo[k], id)
    <3> HIDE DEF u1, u2, u
    <3> SUFFICES ASSUME NEW k \in 1..3 PROVE f[k + 1] = Applied(s, f[k], todo[k], id)
      BY <2>1
    <3>1. CASE k = 1
      BY <3>1 DEF u1
    <3>2. CASE k = 2
      BY <3>2 DEF u2
    <3>3. CASE k = 3
      BY <3>3 DEF u
    <3> QED
      BY <3>1, <3>2, <3>3
  <2> QED
    BY <2>2, <2>3 DEF Leads
<1>2. /\ m \in Nat /\ A \in Nat /\ M \in Nat /\ Z \in Nat
      /\ 1 <= A /\ A + 1 < M /\ M < Z /\ Z <= m /\ t[l].rght = M - 1
      /\ Width(t[l]) = M - A /\ Width(t[r]) = Z - M + 1
      /\ Temp \in Nat /\ Temp > 2 * m
      /\ \A j \in D : /\ t[j].lft \in Nat /\ t[j].rght \in Nat /\ t[j].depth \in Int
                      /\ 1 <= t[j].lft /\ t[j].lft < t[j].rght /\ t[j].rght <= m
  BY DEF Forests, Bounds, Linked, Width, TreeAssumption
<1>3. \A j \in D : /\ R(j) <=> M <= t[j].lft /\ t[j].rght <= Z
                   /\ L(j) <=> A <= t[j].lft /\ t[j].rght < M
  BY <1>2 DEF Block, In, IsInside, Forests, Laminar, Apart
<1> HIDE DEF A, M, Z, R, L
<1>4. /\ Tabular(u1) /\ DOMAIN u1 = D
      /\ \A j \in D :
           /\ u1[j].lft = IF R(j) THEN t[j].lft + Temp ELSE t[j].lft
           /\ u1[j].rght = IF R(j) THEN t[j].rght + Temp ELSE t[j].rght
           /\ u1[j].parent = t[j].parent /\ u1[j].depth = t[j].depth
  <2> HIDE DEF u1
  <2>1. /\ Tabular(u1) /\ DOMAIN u1 = DOMAIN t
        /\ \A j \in DOMAIN t :
              LET in == t[j].lft >= M /\ t[j].rght <= Z
              IN  /\ u1[j].lft = IF in THEN t[j].lft + Temp ELSE t[j].lft
                  /\ u1[j].rght = IF in THEN t[j].rght + Temp ELSE t[j].rght
                  /\ u1[j].depth = IF in THEN t[j].depth + 0 ELSE t[j].depth
                  /\ u1[j].parent = t[j].parent
    BY RangeMoves DEF u1
  <2> QED
    BY <1>2, <1>3, <2>1
<1> HIDE DEF u1
<1>5. /\ Tabular(u2) /\ DOMAIN u2 = D
      /\ \A j \in D :
           /\ u2[j].lft = IF R(j) THEN t[j].lft + Temp
                          ELSE IF L(j) THEN t[j].lft + Width(t[r]) ELSE t[j].lft
           /\ u2[j].rght = IF R(j) THEN t[j].rght + Temp
                           ELSE IF L(j) THEN t[j].rght + Width(t[r]) ELSE t[j].rght
           /\ u2[j].parent = t[j].parent /\ u2[j].depth = t[j].depth
  <2> HIDE DEF u2
  <2> DEFINE in(j) == u1[j].lft >= A /\ u1[j].rght <= t[l].rght
  <2>1. /\ Tabular(u2) /\ DOMAIN u2 = DOMAIN u1
        /\ \A j \in DOMAIN u1 :
              /\ u2[j].lft = IF in(j) THEN u1[j].lft + Width(t[r]) ELSE u1[j].lft
              /\ u2[j].rght = IF in(j) THEN u1[j].rght + Width(t[r]) ELSE u1[j].rght
              /\ u2[j].depth = IF in(j) THEN u1[j].depth + 0 ELSE u1[j].depth
              /\ u2[j].parent = u1[j].parent
    BY <1>4, RangeMoves DEF u2
  <2>2. \A j \in D : in(j) <=> L(j) /\ ~R(j)
    BY <1>2, <1>3, <1>4
  <2> HIDE DEF in
  <2> QED
    BY <1>2, <1>4, <2>1, <2>2
<1> HIDE DEF u2
<1>6. Tabular(u) /\ Swaps(t, u, l, r)
  <2> HIDE DEF u
  <2> DEFINE in(j) == u2[j].lft >= M + Temp /\ u2[j].rght <= Z + Temp
  <2>1. /\ Tabular(u) /\ DOMAIN u = DOMAIN u2
        /\ \A j \in DOMAIN u2 :
              /\ u[j].lft = IF in(j) THEN u2[j].lft + (-Temp - Width(t[l])) ELSE u2[j].lft
              /\ u[j].rght = IF in(j) THEN u2[j].rght + (-Temp - Width(t[l])) ELSE u2[j].rght
              /\ u[j].depth = IF in(j) THEN u2[j].depth + 0 ELSE u2[j].depth
              /\ u[j].parent = u2[j].parent
    BY <1>5, RangeMoves DEF u
  <2>2. \A j \in D : in(j) <=> R(j)
    BY <1>2, <1>3, <1>5
  <2> HIDE DEF in
  <2>3. \A j \in D :
           /\ u[j].lft = IF R(j) THEN t[j].lft - Width(t[l])
                         ELSE IF L(j) THEN t[j].lft + Width(t[r]) ELSE t[j].lft
           /\ u[j].rght = IF R(j) THEN t[j].rght - Width(t[l])
                          ELSE IF L(j) THEN t[j].rght + Width(t[r]) ELSE t[j].rght
           /\ u[j].parent = t[j].parent /\ u[j].depth = t[j].depth
    BY <1>2, <1>5, <2>1, <2>2
  <2> QED
    BY <1>5, <2>1, <2>3 DEF Swaps, R, L
<1>7. Forests(u, m)
  BY <1>6, SwapKeeps
<1> QED
  BY <1>1, <1>6, <1>7

(* The three statements of delete_subtree().                                *)
LEMMA DeleteLeads ==
  ASSUME NEW s, NEW t, NEW id, NEW m, Forests(t, m), Tabular(t), NEW i \in DOMAIN t,
         NEW L, NEW R, NEW W, L = t[i].lft, R = t[i].rght, W = Width(t[i]),
         NEW todo, todo = <<DropRange(L, R), Shift("lft", R + 1, -W), Shift("rght", R + 1, -W)>>
  PROVE  \E u : Leads(s, t, todo, id, u) /\ Tabular(u) /\ Forests(u, m - W)
<1> DEFINE u1 == Applied(s, t, DropRange(L, R), id)
<1> DEFINE u2 == Applied(s, u1, Shift("lft", R + 1, -W), id)
<1> DEFINE u  == Applied(s, u2, Shift("rght", R + 1, -W), id)
<1>1. Leads(s, t, todo, id, u)
  <2> DEFINE f == <<t, u1, u2, u>>
  <2>1. Len(todo) = 3
    OBVIOUS
  <2>2. f[1] = t /\ f[Len(todo) + 1] = u
    BY <2>1
  <2>3. \A k \in 1..Len(todo) : f[k + 1] = Applied(s, f[k], todo[k], id)
    <3> HIDE DEF u1, u2, u
    <3> SUFFICES ASSUME NEW k \in 1..3 PROVE f[k + 1] = Applied(s, f[k], todo[k], id)
      BY <2>1
    <3>1. CASE k = 1
      BY <3>1 DEF u1
    <3>2. CASE k = 2
      BY <3>2 DEF u2
    <3>3. CASE k = 3
      BY <3>3 DEF u
    <3> QED
      BY <3>1, <3>2, <3>3
  <2> QED
    BY <2>2, <2>3 DEF Leads
<1>2. /\ m \in Nat /\ L \in Nat /\ R \in Nat /\ 1 <= L /\ L < R /\ R <= m /\ W = R - L + 1
      /\ \A j \in DOMAIN t : /\ t[j].lft \in Nat /\ t[j].rght \in Nat
                             /\ 1 <= t[j].lft /\ t[j].lft < t[j].rght /\ t[j].rght <= m
  BY DEF Forests, Bounds, Width
<1>3. \A j \in DOMAIN t : Block(t, j, i) <=> L <= t[j].lft /\ t[j].rght <= R
  BY <1>2 DEF Block, In, IsInside, Forests, Laminar, Apart
<1>4. Tabular(u1) /\ DOMAIN u1 = {j \in DOMAIN t : j # i /\ ~In(t, j, i)} /\ \A j \in DOMAIN u1 : u1[j] = t[j]
  <2> HIDE DEF u1
  <2>1. /\ Tabular(u1)
        /\ \A j : j \in DOMAIN u1 <=> j \in DOMAIN t /\ ~(t[j].lft >= L /\ t[j].rght <= R)
        /\ \A j \in DOMAIN u1 : u1[j] = t[j]
    BY DropMoves DEF u1
  <2> QED
    BY <1>2, <1>3, <2>1 DEF Block
<1> HIDE DEF u1
<1>5. /\ Tabular(u2) /\ DOMAIN u2 = DOMAIN u1
      /\ \A j \in DOMAIN u1 :
              /\ u2[j].lft = IF u1[j].lft >= R + 1 THEN u1[j].lft + (-W) ELSE u1[j].lft
              /\ u2[j].rght = u1[j].rght /\ u2[j].parent = u1[j].parent /\ u2[j].depth = u1[j].depth
  BY <1>4, ShiftLft
<1> HIDE DEF u2
<1>6. /\ Tabular(u) /\ DOMAIN u = DOMAIN u2
      /\ \A j \in DOMAIN u2 :
              /\ u[j].rght = IF u2[j].rght >= R + 1 THEN u2[j].rght + (-W) ELSE u2[j].rght
              /\ u[j].lft = u2[j].lft /\ u[j].parent = u2[j].parent /\ u[j].depth = u2[j].depth
  BY <1>5, ShiftRght
<1> HIDE DEF u
<1>7. \A j \in DOMAIN u :
           /\ u[j].lft = IF t[j].lft > R THEN t[j].lft - W ELSE t[j].lft
           /\ u[j].rght = IF t[j].rght > R THEN t[j].rght - W ELSE t[j].rght
           /\ u[j].parent = t[j].parent /\ u[j].depth = t[j].depth
  BY <1>2, <1>4, <1>5, <1>6
<1>8. DOMAIN u = {j \in DOMAIN t : j # i /\ ~In(t, j, i)}
  BY <1>4, <1>5, <1>6
<1>9. Forests(u, m - Width(t[i]))
  BY <1>7, <1>8, DeleteKeeps
<1> QED
  BY <1>1, <1>6, <1>9

(* The statements of remove_from_tree(), with or without a range to         *)
(* promote.                                                                 *)
LEMMA RemoveLeads ==
  ASSUME NEW s, NEW t, NEW id, NEW m, Forests(t, m), Tabular(t), NEW i \in DOMAIN t,
         NEW L, NEW R, L = t[i].lft, R = t[i].rght,
         NEW todo,
         LET last == Assign(i, [parent |-> Root, lft |-> m - 1, rght |-> m, depth |-> 0])
         IN  \/ /\ R - L > 1
                /\ todo = <<Adopt(i, t[i].parent), MoveRange(L + 1, R - 1, -1, -1),
                            Shift("lft", R + 1, -2), Shift("rght", R + 1, -2), last>>
             \/ /\ ~(R - L > 1)
                /\ todo = <<Adopt(i, t[i].parent),
                            Shift("lft", R + 1, -2), Shift("rght", R + 1, -2), last>>
  PROVE  \E u : Leads(s, t, todo, id, u) /\ Tabular(u) /\ Forests(u, m)
<1> DEFINE last == Assign(i, [parent |-> Root, lft |-> m - 1, rght |-> m, depth |-> 0])
<1> DEFINE D == DOMAIN t
<1> DEFINE u1 == Applied(s, t, Adopt(i, t[i].parent), id)
<1> DEFINE v2 == Applied(s, u1, MoveRange(L + 1, R - 1, -1, -1), id)
<1> DEFINE u2 == IF R - L > 1 THEN v2 ELSE u1
<1> DEFINE u3 == Applied(s, u2, Shift("lft", R + 1, -2), id)
<1> DEFINE u4 == Applied(s, u3, Shift("rght", R + 1, -2), id)
<1> DEFINE u  == Applied(s, u4, last, id)
<1>1. Leads(s, t, todo, id, u)
  <2>1. CASE R - L > 1
    <3> DEFINE f == <<t, u1, v2, u3, u4, u>>
    <3>1. /\ Len(todo) = 5 /\ todo[5] = last /\ todo[2] = MoveRange(L + 1, R - 1, -1, -1)
          /\ todo[3] = Shift("lft", R + 1, -2) /\ todo[4] = Shift("rght", R + 1, -2)
          /\ todo[1] = Adopt(i, t[i].parent) /\ u2 = v2
      BY <2>1
    <3>2. f[1] = t /\ f[Len(todo) + 1] = u
      BY <3>1
    <3>3. \A k \in 1..Len(todo) : f[k + 1] = Applied(s, f[k], todo[k], id)
      <4> SUFFICES ASSUME NEW k \in 1..5 PROVE f[k + 1] = Applied(s, f[k], todo[k], id)
        BY <3>1
      <4> HIDE DEF u1, v2, u2, u3, u4, u, last
      <4>1. CASE k = 1
        BY <3>1, <4>1 DEF u1
      <4>2. CASE k = 2
        BY <3>1, <4>2 DEF v2
      <4>3. CASE k = 3
        BY <3>1, <4>3 DEF u3
      <4>4. CASE k = 4
        BY <3>1, <4>4 DEF u4
      <4>5. CASE k = 5
        BY <3>1, <4>5 DEF u
      <4> QED
        BY <4>1, <4>2, <4>3, <4>4, <4>5
    <3> QED
      BY <3>2, <3>3, ZenonT(90) DEF Leads
  <2>2. CASE ~(R - L > 1)
    <3> DEFINE f == <<t, u1, u3, u4, u>>
    <3>1. /\ Len(todo) = 4 /\ todo[4] = last
          /\ todo[2] = Shift("lft", R + 1, -2) /\ todo[3] = Shift("rght", R + 1, -2)
          /\ todo[1] = Adopt(i, t[i].parent) /\ u2 = u1
      BY <2>2
    <3>2. f[1] = t /\ f[Len(todo) + 1] = u
      BY <3>1
    <3>3. \A k \in 1..Len(todo) : f[k + 1] = Applied(s, f[k], todo[k], id)
      <4> SUFFICES ASSUME NEW k \in 1..4 PROVE f[k + 1] = Applied(s, f[k], todo[k], id)
        BY <3>1
      <4> HIDE DEF u1, v2, u2, u3, u4, u, last
      <4>1. CASE k = 1
        BY <3>1, <4>1 DEF u1
      <4>2. CASE k = 2
        BY <3>1, <4>2 DEF u3
      <4>3. CASE k = 3
        BY <3>1, <4>3 DEF u4
      <4>4. CASE k = 4
        BY <3>1, <4>4 DEF u
      <4> QED
        BY <4>1, <4>2, <4>3, <4>4
    <3> HIDE DEF u1, v2, u2, u3, u4, u
    <3> QED
      BY <3>2, <3>3 DEF Leads
  <2> QED
    BY <2>1, <2>2
<1>2. /\ m \in Nat /\ L \in Nat /\ R \in Nat /\ 1 <= L /\ L < R /\ R <= m
      /\ \A j \in D : /\ t[j].lft \in Nat /\ t[j].rght \in Nat /\ t[j].depth \in Int
                      /\ 1 <= t[j].lft /\ t[j].lft < t[j].rght /\ t[j].rght <= m
  BY DEF Forests, Bounds, Linked
<1>3. \A j \in D : /\ In(t, j, i) <=> L + 1 <= t[j].lft /\ t[j].rght <= R - 1
                   /\ t[j].lft > R => t[j].rght > R
                   /\ In(t, j, i) => R - L > 1
  BY <1>2 DEF In, IsInside
<1>4. /\ Tabular(u1) /\ DOMAIN u1 = D
      /\ \A j \in D :
           /\ u1[j].parent = IF t[j].parent = i THEN t[i].parent ELSE t[j].parent
           /\ u1[j].lft = t[j].lft /\ u1[j].rght = t[j].rght /\ u1[j].depth = t[j].depth
  BY AdoptMoves
<1> HIDE DEF u1
<1>5. /\ Tabular(u2) /\ DOMAIN u2 = D
      /\ \A j \in D :
           /\ u2[j].lft = IF In(t, j, i) THEN t[j].lft - 1 ELSE t[j].lft
           /\ u2[j].rght = IF In(t, j, i) THEN t[j].rght - 1 ELSE t[j].rght
           /\ u2[j].depth = IF In(t, j, i) THEN t[j].depth - 1 ELSE t[j].depth
           /\ u2[j].parent = u1[j].parent
  <2>1. CASE R - L > 1
    <3> HIDE DEF v2
    <3> DEFINE in(j) == u1[j].lft >= L + 1 /\ u1[j].rght <= R - 1
    <3>1. /\ Tabular(v2) /\ DOMAIN v2 = D
          /\ \A j \in D :
              /\ v2[j].lft = IF in(j) THEN u1[j].lft + (-1) ELSE u1[j].lft
              /\ v2[j].rght = IF in(j) THEN u1[j].rght + (-1) ELSE u1[j].rght
              /\ v2[j].depth = IF in(j) THEN u1[j].depth + (-1) ELSE u1[j].depth
              /\ v2[j].parent = u1[j].parent
      BY <1>4, RangeMoves DEF v2
    <3>2. \A j \in D : in(j) <=> In(t, j, i)
      BY <1>2, <1>3, <1>4
    <3> HIDE DEF in
    <3> QED
      BY <1>2, <1>4, <2>1, <3>1, <3>2
  <2>2. CASE ~(R - L > 1)
    BY <1>3, <1>4, <2>2
  <2> QED
    BY <2>1, <2>2
<1> HIDE DEF u2
<1>6. /\ Tabular(u3) /\ DOMAIN u3 = DOMAIN u2
      /\ \A j \in DOMAIN u2 :
           /\ u3[j].lft = IF u2[j].lft >= R + 1 THEN u2[j].lft + (-2) ELSE u2[j].lft
           /\ u3[j].rght = u2[j].rght /\ u3[j].parent = u2[j].parent /\ u3[j].depth = u2[j].depth
  BY <1>5, ShiftLft
<1> HIDE DEF u3
<1>7. /\ Tabular(u4) /\ DOMAIN u4 = DOMAIN u3
      /\ \A j \in DOMAIN u3 :
           /\ u4[j].rght = IF u3[j].rght >= R + 1 THEN u3[j].rght + (-2) ELSE u3[j].rght
           /\ u4[j].lft = u3[j].lft /\ u4[j].parent = u3[j].parent /\ u4[j].depth = u3[j].depth
  BY <1>6, ShiftRght
<1> HIDE DEF u4
<1>8. /\ Tabular(u) /\ DOMAIN u = D
      /\ \A j \in D : j # i => u[j] = u4[j]
      /\ u[i].lft = m - 1 /\ u[i].rght = m /\ u[i].parent = Root /\ u[i].depth = 0
  <2> DEFINE cols == [parent |-> Root, lft |-> m - 1, rght |-> m, depth |-> 0]
  <2> HIDE DEF u
  <2>1. /\ Tabular(u) /\ DOMAIN u = DOMAIN u4
        /\ \A j \in DOMAIN u4 : j # i => u[j] = u4[j]
        /\ i \in DOMAIN u4 => \A c \in Cols : u[i][c] = IF c \in DOMAIN cols THEN cols[c] ELSE u4[i][c]
    BY <1>5, <1>6, <1>7, AssignMoves DEF u
  <2> QED
    BY <1>5, <1>6, <1>7, <2>1 DEF Cols
<1> HIDE DEF u
<1>9. Removes(t, u, m, i)
  <2>1. \A j \in D \ {i} :
       /\ u[j].lft = IF t[j].lft > t[i].rght THEN t[j].lft - 2
                     ELSE IF In(t, j, i) THEN t[j].lft - 1 ELSE t[j].lft
       /\ u[j].rght = IF t[j].rght > t[i].rght THEN t[j].rght - 2
                      ELSE IF In(t, j, i) THEN t[j].rght - 1 ELSE t[j].rght
    BY <1>2, <1>3, <1>5, <1>6, <1>7, <1>8
  <2>2. \A j \in D \ {i} :
       /\ u[j].parent = IF t[j].parent = i THEN t[i].parent ELSE t[j].parent
       /\ u[j].depth = IF In(t, j, i) THEN t[j].depth - 1 ELSE t[j].depth
    BY <1>4, <1>5, <1>6, <1>7, <1>8
  <2> QED
    BY <1>8, <2>1, <2>2 DEF Removes
<1>10. Forests(u, m)
  BY <1>9, RemoveKeeps
<1> QED
  BY <1>1, <1>8, <1>10

(* The statements of insert_as_child(), at the top or below a node.         *)
LEMMA InsertLeads ==
  ASSUME NEW s, NEW t, NEW id, NEW m, Forests(t, m), Tabular(t), id \in Ids \ DOMAIN t,
         NEW p, NEW todo,
         \/ p = Root /\ todo = <<NewRow(Root, m + 1, 0)>>
         \/ /\ p \in DOMAIN t
            /\ todo = <<Shift("rght", t[p].rght, 2), Shift("lft", t[p].rght, 2),
                        NewRow(p, t[p].rght, t[p].depth + 1)>>
  PROVE  \E u : Leads(s, t, todo, id, u) /\ Tabular(u) /\ Forests(u, m + 2)
<1> DEFINE D == DOMAIN t
<1>0. /\ m \in Nat /\ \A j \in D : /\ j # Root /\ t[j].lft \in Nat /\ t[j].rght \in Nat
                                   /\ t[j].rght <= m /\ t[j].lft < t[j].rght
  BY DEF Forests, Bounds, Ids, Root
<1>1. CASE p = Root
  <2> DEFINE u == Applied(s, t, NewRow(Root, m + 1, 0), id)
  <2>1. Len(todo) = 1 /\ todo[1] = NewRow(Root, m + 1, 0)
    BY <1>0, <1>1
  <2>2. Leads(s, t, todo, id, u)
    <3> DEFINE f == <<t, u>>
    <3> HIDE DEF u
    <3>1. f[1] = t /\ f[Len(todo) + 1] = u
      BY <2>1
    <3>2. \A k \in 1..Len(todo) : f[k + 1] = Applied(s, f[k], todo[k], id)
      BY <2>1 DEF u
    <3> QED
      BY <3>1, <3>2 DEF Leads
  <2>3. /\ Tabular(u)
        /\ \A j : j \in DOMAIN u <=> j = id \/ j \in D
        /\ \A j \in D : j # id => u[j] = t[j]
        /\ u[id].parent = Root /\ u[id].lft = m + 1 /\ u[id].rght = m + 1 + 1 /\ u[id].depth = 0
    <3>1. u = Applied(s, t, NewRow(Root, m + 1, 0), id)
      OBVIOUS
    <3> HIDE DEF u
    <3> QED
      BY <3>1, InsertMoves
  <2> HIDE DEF u
  <2>4. \A j \in D :
           /\ u[j].lft = IF t[j].lft >= m + 1 THEN t[j].lft + 2 ELSE t[j].lft
           /\ u[j].rght = IF t[j].rght >= m + 1 THEN t[j].rght + 2 ELSE t[j].rght
           /\ u[j].parent = t[j].parent /\ u[j].depth = t[j].depth
    BY <1>0, <2>3
  <2>5. DOMAIN u = D \union {id}
    BY <2>3
  <2>6. Forests(u, m + 2)
    BY <1>1, <2>3, <2>4, <2>5, InsertKeeps
  <2> QED
    BY <2>2, <2>3, <2>6
<1>2. CASE p \in D
  <2> DEFINE R == t[p].rght
  <2> DEFINE u1 == Applied(s, t, Shift("rght", R, 2), id)
  <2> DEFINE u2 == Applied(s, u1, Shift("lft", R, 2), id)
  <2> DEFINE u  == Applied(s, u2, NewRow(p, R, t[p].depth + 1), id)
  <2>1. /\ Len(todo) = 3 /\ todo[1] = Shift("rght", R, 2) /\ todo[2] = Shift("lft", R, 2)
        /\ todo[3] = NewRow(p, R, t[p].depth + 1)
    BY <1>0, <1>2
  <2>2. Leads(s, t, todo, id, u)
    <3> DEFINE f == <<t, u1, u2, u>>
    <3> HIDE DEF u, u1, u2
    <3>1. f[1] = t /\ f[Len(todo) + 1] = u
      BY <2>1
    <3>2. \A k \in 1..Len(todo) : f[k + 1] = Applied(s, f[k], todo[k], id)
      <4> SUFFICES ASSUME NEW k \in 1..3 PROVE f[k + 1] = Applied(s, f[k], todo[k], id)
        BY <2>1
      <4>1. CASE k = 1
        BY <2>1, <4>1 DEF u1
      <4>2. CASE k = 2
        BY <2>1, <4>2 DEF u2
      <4>3. CASE k = 3
        BY <2>1, <4>3 DEF u
      <4> QED
        BY <4>1, <4>2, <4>3
    <3> QED
      BY <3>1, <3>2 DEF Leads
  <2>3. /\ Tabular(u1) /\ DOMAIN u1 = D
        /\ \A j \in D :
              /\ u1[j].rght = IF t[j].rght >= R THEN t[j].rght + 2 ELSE t[j].rght
              /\ u1[j].lft = t[j].lft /\ u1[j].parent = t[j].parent /\ u1[j].depth = t[j].depth
    BY ShiftRght
  <2> HIDE DEF u1
  <2>4. /\ Tabular(u2) /\ DOMAIN u2 = DOMAIN u1
        /\ \A j \in DOMAIN u1 :
              /\ u2[j].lft = IF u1[j].lft >= R THEN u1[j].lft + 2 ELSE u1[j].lft
              /\ u2[j].rght = u1[j].rght /\ u2[j].parent = u1[j].parent /\ u2[j].depth = u1[j].depth
    BY <2>3, ShiftLft
  <2> HIDE DEF u2
  <2>5. /\ Tabular(u)
        /\ \A j : j \in DOMAIN u <=> j = id \/ j \in DOMAIN u2
        /\ \A j \in DOMAIN u2 : j # id => u[j] = u2[j]
        /\ u[id].parent = p /\ u[id].lft = R /\ u[id].rght = R + 1 /\ u[id].depth = t[p].depth + 1
    <3>1. u = Applied(s, u2, NewRow(p, R, t[p].depth + 1), id)
      OBVIOUS
    <3> HIDE DEF u, R
    <3> QED
      BY <2>4, <3>1, InsertMoves
  <2> HIDE DEF u
  <2>6. \A j \in D :
           /\ u[j].lft = IF t[j].lft >= R THEN t[j].lft + 2 ELSE t[j].lft
           /\ u[j].rght = IF t[j].rght >= R THEN t[j].rght + 2 ELSE t[j].rght
           /\ u[j].parent = t[j].parent /\ u[j].depth = t[j].depth
    BY <2>3, <2>4, <2>5
  <2>7. DOMAIN u = D \union {id} /\ p # Root
    BY <1>0, <1>2, <2>3, <2>4, <2>5
  <2>8. Forests(u, m + 2)
    BY <1>2, <2>5, <2>6, <2>7, InsertKeeps
  <2> QED
    BY <2>2, <2>5, <2>8
<1> QED
  BY <1>1, <1>2

-----------------------------------------------------------------------------
(* Orders.                                                                  *)
Orders(B, S) ==
  /\ \A x \in S : <<x, x>> \notin B
  /\ \A x, y, z \in S : <<x, y>> \in B /\ <<y, z>> \in B => <<x, z>> \in B
  /\ \A x, y \in S : x = y \/ <<x, y>> \in B \/ <<y, x>> \in B

(* A finite total order numbers its elements from 0.                        *)
LEMMA Ranks ==
  ASSUME NEW S, IsFiniteSet(S), NEW B, Orders(B, S), NEW rank,
         rank = [i \in S |-> Cardinality({j \in S : <<j, i>> \in B})]
  PROVE  /\ Cardinality(S) \in Nat
         /\ \A i \in S : rank[i] \in 0..(Cardinality(S) - 1)
         /\ \A i, j \in S : <<i, j>> \in B <=> rank[i] < rank[j]
         /\ \A k \in 0..(Cardinality(S) - 1) : \E i \in S : rank[i] = k
<1> DEFINE N == Cardinality(S)
<1> DEFINE Less(i) == {j \in S : <<j, i>> \in B}
<1>1. N \in Nat
  BY FS_CardinalityType
<1>2. \A i \in S : /\ Less(i) \in SUBSET S /\ i \notin Less(i)
                   /\ IsFiniteSet(Less(i)) /\ rank[i] = Cardinality(Less(i)) /\ rank[i] \in Nat
  <2> TAKE i \in S
  <2>1. Less(i) \in SUBSET S /\ i \notin Less(i) /\ rank[i] = Cardinality(Less(i))
    BY DEF Orders
  <2> HIDE DEF Less
  <2>2. IsFiniteSet(Less(i))
    BY <2>1, FS_Subset
  <2> QED
    BY <2>1, <2>2, FS_CardinalityType
<1>3. \A i \in S : rank[i] \in 0..(N - 1)
  <2> TAKE i \in S
  <2>1. Cardinality(Less(i)) <= N /\ (N = Cardinality(Less(i)) => S = Less(i))
    <3> HIDE DEF Less
    <3> QED
      BY <1>2, FS_Subset
  <2>2. S # Less(i)
    BY <1>2
  <2> HIDE DEF Less, N
  <2> QED
    BY <1>1, <1>2, <2>1, <2>2
<1>4. ASSUME NEW i \in S, NEW j \in S, <<i, j>> \in B
      PROVE  rank[i] < rank[j]
  <2>1. Less(i) \in SUBSET Less(j) /\ i \in Less(j) /\ i \notin Less(i)
    BY <1>4 DEF Orders
  <2>2. Cardinality(Less(i)) <= Cardinality(Less(j)) /\ (Cardinality(Less(j)) = Cardinality(Less(i)) => Less(j) = Less(i))
    <3> HIDE DEF Less
    <3> QED
      BY <1>2, <2>1, FS_Subset
  <2> HIDE DEF Less
  <2> QED
    BY <1>2, <2>1, <2>2
<1>5. \A i, j \in S : <<i, j>> \in B <=> rank[i] < rank[j]
  <2> TAKE i, j \in S
  <2>1. i = j \/ <<i, j>> \in B \/ <<j, i>> \in B
    BY DEF Orders
  <2>2. i = j => <<i, j>> \notin B
    BY DEF Orders
  <2>3. rank[i] \in Nat /\ rank[j] \in Nat
    BY <1>2
  <2>4. <<i, j>> \in B => rank[i] < rank[j]
    BY <1>4
  <2>5. <<j, i>> \in B => rank[j] < rank[i]
    BY <1>4
  <2> QED
    BY <2>1, <2>2, <2>3, <2>4, <2>5
<1>6. \A k \in 0..(N - 1) : \E i \in S : rank[i] = k
  <2>1. rank \in Injection(S, 0..(N - 1))
    <3>1. rank \in [S -> 0..(N - 1)]
      BY <1>3
    <3>2. \A i, j \in S : rank[i] = rank[j] => i = j
      <4> TAKE i, j \in S
      <4>1. i = j \/ <<i, j>> \in B \/ <<j, i>> \in B
        BY DEF Orders
      <4>2. rank[i] \in Nat /\ rank[j] \in Nat
        BY <1>2
      <4> QED
        BY <1>5, <4>1, <4>2
    <3> QED
      BY <3>1, <3>2 DEF Injection, IsInjective
  <2>2. IsFiniteSet(0..(N - 1)) /\ Cardinality(0..(N - 1)) = N
    BY SMTT(60), <1>1, FS_Interval
  <2>3. rank \in Surjection(S, 0..(N - 1))
    BY <2>1, <2>2, FS_Injection
  <2> QED
    BY <2>3 DEF Surjection
<1> QED
  BY <1>1, <1>3, <1>5, <1>6

(* A sequence that puts each member of S where its rank says.               *)
Sorts(q, S, B) ==
  /\ q = [k \in 1..Cardinality(S) |-> q[k]]
  /\ \A k \in 1..Cardinality(S) : q[k] \in S /\ Cardinality({j \in S : <<j, q[k]>> \in B}) = k - 1

(* The sequence by rank is the sorted sequence of the elements.             *)
LEMMA Sequenced ==
  ASSUME NEW S, IsFiniteSet(S), NEW B, Orders(B, S), NEW q, Sorts(q, S, B)
  PROVE  /\ q \in Seq(S) /\ Len(q) = Cardinality(S) /\ Len(q) \in Nat
         /\ \A i \in S : \E k \in 1..Len(q) : q[k] = i
         /\ \A k, n \in 1..Len(q) : k < n <=> <<q[k], q[n]>> \in B
         /\ \A k, n \in 1..Len(q) : q[k] = q[n] => k = n
<1> DEFINE rank == [i \in S |-> Cardinality({j \in S : <<j, i>> \in B})]
<1> DEFINE N == Cardinality(S)
<1>1. /\ N \in Nat
      /\ \A i \in S : rank[i] \in 0..(N - 1)
      /\ \A i, j \in S : <<i, j>> \in B <=> rank[i] < rank[j]
      /\ \A k \in 0..(N - 1) : \E i \in S : rank[i] = k
  <2> HIDE DEF rank
  <2>1. rank = [i \in S |-> Cardinality({j \in S : <<j, i>> \in B})]
    BY DEF rank
  <2> QED
    BY <2>1, Ranks
<1>2. \A k \in 1..N : q[k] \in S /\ rank[q[k]] = k - 1
  BY DEF Sorts
<1>3. q = [k \in 1..N |-> q[k]]
  BY DEF Sorts
<1> HIDE DEF rank, N
<1>4. q \in Seq(S) /\ Len(q) = N
  BY <1>1, <1>2, <1>3
<1>5. \A i, j \in S : rank[i] = rank[j] => i = j
  BY <1>1 DEF Orders
<1>6. \A i \in S : \E k \in 1..N : q[k] = i
  <2> TAKE i \in S
  <2>1. rank[i] + 1 \in 1..N
    BY <1>1
  <2>2. q[rank[i] + 1] = i
    BY <1>1, <1>2, <1>5, <2>1
  <2> QED
    BY <2>1, <2>2
<1>7. \A k, n \in 1..N : (k < n <=> <<q[k], q[n]>> \in B) /\ (q[k] = q[n] => k = n)
  BY <1>1, <1>2
<1> QED
  BY <1>1, <1>4, <1>6, <1>7 DEF N

(* The CHOOSE of Ordered finds such a member for each place.                *)
LEMMA PlaceTaken ==
  ASSUME NEW S, IsFiniteSet(S), NEW B, Orders(B, S), NEW k \in 1..Cardinality(S)
  PROVE  \E i \in S : Cardinality({j \in S : <<j, i>> \in B}) = k - 1
<1> DEFINE rank == [i \in S |-> Cardinality({j \in S : <<j, i>> \in B})]
<1>1. Cardinality(S) \in Nat /\ \A n \in 0..(Cardinality(S) - 1) : \E i \in S : rank[i] = n
  <2> HIDE DEF rank
  <2>1. rank = [i \in S |-> Cardinality({j \in S : <<j, i>> \in B})]
    BY DEF rank
  <2> QED
    BY <2>1, Ranks
<1>2. k - 1 \in 0..(Cardinality(S) - 1)
  BY <1>1
<1>3. PICK i \in S : rank[i] = k - 1
  BY <1>1, <1>2
<1> QED
  BY <1>3

-----------------------------------------------------------------------------
(* What a sound table says of its bounds.                                   *)
LEMMA Counted ==
  ASSUME TreeAssumption, NEW t, NEW m, Forests(t, m)
  PROVE  /\ IsFiniteSet(DOMAIN t) /\ Cardinality(DOMAIN t) \in Nat
         /\ Cardinality(DOMAIN t) <= MaxNodes
         /\ m = 2 * Cardinality(DOMAIN t)
         /\ {t[i].lft : i \in DOMAIN t} \union {t[i].rght : i \in DOMAIN t} = 1..m
<1> DEFINE D == DOMAIN t
<1> DEFINE A == {t[i].lft : i \in D}
<1> DEFINE B == {t[i].rght : i \in D}
<1> DEFINE l == [i \in D |-> t[i].lft]
<1> DEFINE r == [i \in D |-> t[i].rght]
<1>1. IsFiniteSet(D) /\ Cardinality(D) \in Nat /\ Cardinality(D) <= MaxNodes
  <2>1. MaxNodes \in Nat /\ D \in SUBSET (1..MaxNodes)
    BY DEF Forests, Ids, TreeAssumption
  <2>2. IsFiniteSet(1..MaxNodes) /\ Cardinality(1..MaxNodes) = MaxNodes
    BY <2>1, FS_Interval
  <2> HIDE DEF D
  <2>3. IsFiniteSet(D) /\ Cardinality(D) <= Cardinality(1..MaxNodes)
    BY <2>1, <2>2, FS_Subset
  <2> QED
    BY <2>2, <2>3, FS_CardinalityType
<1>2. /\ m \in Nat
      /\ \A i \in D : /\ t[i].lft \in Nat /\ t[i].rght \in Nat
                      /\ 1 <= t[i].lft /\ t[i].lft < t[i].rght /\ t[i].rght <= m
      /\ \A i, j \in D : i = j \/ Apart(t, i, j) \/ In(t, i, j) \/ In(t, j, i)
      /\ \A v \in 1..m : \E i \in D : t[i].lft = v \/ t[i].rght = v
  BY DEF Forests, Bounds, Laminar, Filled
<1>3. A \union B = 1..m
  BY <1>2
<1>4. A \intersect B = {}
  <2> SUFFICES ASSUME NEW i \in D, NEW j \in D, t[i].lft = t[j].rght PROVE FALSE
    OBVIOUS
  <2> QED
    BY <1>2 DEF Apart, In, IsInside
<1>5. l \in Bijection(D, A)
  <2>1. l \in [D -> A] /\ \A v \in A : \E i \in D : l[i] = v
    OBVIOUS
  <2>2. \A i, j \in D : t[i].lft = t[j].lft => i = j
    BY <1>2 DEF Apart, In, IsInside
  <2>3. \A i, j \in D : l[i] = l[j] => i = j
    BY <2>2
  <2> QED
    BY <2>1, <2>3 DEF Bijection, Injection, Surjection, IsInjective
<1>6. r \in Bijection(D, B)
  <2>1. r \in [D -> B] /\ \A v \in B : \E i \in D : r[i] = v
    OBVIOUS
  <2>2. \A i, j \in D : t[i].rght = t[j].rght => i = j
    BY <1>2 DEF Apart, In, IsInside
  <2>3. \A i, j \in D : r[i] = r[j] => i = j
    BY <2>2
  <2> QED
    BY <2>1, <2>3 DEF Bijection, Injection, Surjection, IsInjective
<1> HIDE DEF A, B, l, r, D
<1>7. IsFiniteSet(A) /\ Cardinality(A) = Cardinality(D)
  BY <1>1, <1>5, FS_Bijection DEF ExistsBijection
<1>8. IsFiniteSet(B) /\ Cardinality(B) = Cardinality(D)
  BY <1>1, <1>6, FS_Bijection DEF ExistsBijection
<1>9. Cardinality(A \union B) = Cardinality(A) + Cardinality(B) - Cardinality(A \intersect B)
  BY <1>7, <1>8, FS_Union
<1>10. Cardinality(A \intersect B) = 0
  BY <1>4, FS_EmptySet
<1>11. Cardinality(1..m) = m
  <2>1. m \in Int /\ 1 \in Int
    BY <1>2
  <2>2. Cardinality(1..m) = IF 1 > m THEN 0 ELSE m - 1 + 1
    BY <2>1, FS_Interval
  <2> QED
    BY <1>2, <2>2
<1>12. m = 2 * Cardinality(D)
  <2>1. Cardinality(A \union B) = m
    BY <1>3, <1>11
  <2> QED
    BY <1>1, <1>2, <1>7, <1>8, <1>9, <1>10, <2>1
<1> QED
  BY <1>1, <1>3, <1>12 DEF A, B, D

Sub(s) == [i \in InScope(s) |-> rows[i]]

(* max_rght() of a sound scope is its last bound.                           *)
LEMMA MaxRghtIs ==
  ASSUME NEW s, NEW m, Forests(Sub(s), m)
  PROVE  MaxRght(s) = m
<1> DEFINE R == {rows[i].rght : i \in InScope(s)}
<1>1. /\ m \in Nat
      /\ \A i \in InScope(s) : /\ rows[i].lft \in Nat /\ rows[i].rght \in Nat
                               /\ 1 <= rows[i].lft /\ rows[i].lft < rows[i].rght /\ rows[i].rght <= m
      /\ \A v \in 1..m : \E i \in InScope(s) : rows[i].lft = v \/ rows[i].rght = v
  BY DEF Sub, Forests, Bounds, Filled
<1>2. CASE R = {}
  <2>0. InScope(s) = {}
    BY <1>2
  <2>1. m = 0
    BY <1>1, <2>0
  <2> QED
    BY <1>2, <2>1 DEF MaxRght
<1>3. CASE R # {}
  <2>1. m \in R
    BY <1>1, <1>3
  <2>2. \A q \in R : q \in Nat /\ m >= q
    BY <1>1
  <2>3. MaxRght(s) = CHOOSE r \in R : \A q \in R : r >= q
    BY <1>3 DEF MaxRght
  <2> HIDE DEF R
  <2> DEFINE Top(r) == r \in R /\ \A q \in R : r >= q
  <2>4. Top(m)
    BY <1>1, <2>1, <2>2
  <2> DEFINE c == CHOOSE r : Top(r)
  <2>5. Top(c)
    <3> HIDE DEF Top
    <3> QED
      BY <2>4
  <2>6. MaxRght(s) = c
    BY <2>3
  <2> HIDE DEF c
  <2>7. c \in R /\ c >= m
    BY <2>1, <2>5
  <2>8. c = m
    BY <1>1, <2>2, <2>7
  <2> QED
    BY <2>6, <2>8
<1> QED
  BY <1>2, <1>3

(* Rows of a scope in the order of their left bounds.                       *)
LEMMA LeftToRight ==
  ASSUME TreeAssumption, NEW s, NEW m, Forests(Sub(s), m), NEW S \in SUBSET InScope(s),
         NEW q, q = ByLeft(S)
  PROVE  /\ q \in Seq(S) /\ Len(q) \in Nat
         /\ \A i \in S : \E k \in 1..Len(q) : q[k] = i
         /\ \A k, n \in 1..Len(q) : k < n <=> rows[q[k]].lft < rows[q[n]].lft
         /\ \A k, n \in 1..Len(q) : q[k] = q[n] => k = n
<1> DEFINE B == {x \in S \X S : rows[x[1]].lft < rows[x[2]].lft}
<1> DEFINE Before(i, j) == \/ rows[i].lft < rows[j].lft
                           \/ rows[i].lft = rows[j].lft /\ i < j
<1>1. IsFiniteSet(S)
  <2>1. IsFiniteSet(InScope(s))
    BY Counted DEF Sub
  <2> QED
    BY <2>1, FS_Subset
<1>2. \A i \in S : rows[i].lft \in Nat /\ i \in Nat
  BY DEF Sub, Forests, Bounds, Ids
<1>3. \A i, j \in S : rows[i].lft = rows[j].lft => i = j
  BY DEF Sub, Forests, Bounds, Laminar, Apart, In, IsInside
<1>4. \A i, j \in S : <<i, j>> \in B <=> rows[i].lft < rows[j].lft
  OBVIOUS
<1>5. Orders(B, S)
  <2> HIDE DEF B
  <2> QED
    BY <1>2, <1>3, <1>4 DEF Orders
<1>6. \A i \in S : {j \in S : Before(j, i)} = {j \in S : <<j, i>> \in B}
  <2> TAKE i \in S
  <2>1. \A j \in S : Before(j, i) <=> <<j, i>> \in B
    <3> HIDE DEF B
    <3> TAKE j \in S
    <3>1. i \in S /\ j \in S /\ i \in Nat /\ j \in Nat
      BY <1>2
    <3>2. rows[j].lft = rows[i].lft => ~(j < i)
      BY <1>3, <3>1
    <3> QED
      BY <1>4, <3>2
  <2> HIDE DEF B, Before
  <2> QED
    BY <2>1
<1>7. q = [k \in 1..Cardinality(S) |-> CHOOSE i \in S : Cardinality({j \in S : Before(j, i)}) = k - 1]
  BY DEF ByLeft, Ordered
<1>8. ASSUME NEW k \in 1..Cardinality(S)
      PROVE  q[k] \in S /\ Cardinality({j \in S : <<j, q[k]>> \in B}) = k - 1
  <2> DEFINE Fits(i) == i \in S /\ Cardinality({j \in S : Before(j, i)}) = k - 1
  <2>1. PICK i \in S : Cardinality({j \in S : <<j, i>> \in B}) = k - 1
    <3> HIDE DEF B
    <3> QED
      BY <1>1, <1>5, PlaceTaken
  <2>2. Fits(i)
    BY <1>6, <2>1
  <2>3. q[k] = CHOOSE x : Fits(x)
    BY <1>7
  <2>4. Fits(CHOOSE x : Fits(x))
    <3> HIDE DEF Fits
    <3> QED
      BY <2>2
  <2>5. Fits(q[k])
    BY <2>3, <2>4
  <2> QED
    BY <1>6, <2>5
<1> HIDE DEF B
<1>9. Sorts(q, S, B)
  <2>1. q = [k \in 1..Cardinality(S) |-> q[k]]
    BY <1>7
  <2> QED
    BY <1>8, <2>1 DEF Sorts
<1>10. /\ q \in Seq(S) /\ Len(q) = Cardinality(S) /\ Len(q) \in Nat
       /\ \A i \in S : \E k \in 1..Len(q) : q[k] = i
       /\ \A k, n \in 1..Len(q) : k < n <=> <<q[k], q[n]>> \in B
       /\ \A k, n \in 1..Len(q) : q[k] = q[n] => k = n
  BY <1>1, <1>5, <1>9, Sequenced
<1>11. \A k \in 1..Len(q) : q[k] \in S
  BY <1>10
<1> QED
  BY <1>4, <1>10, <1>11

(* The children of a node, and how two of them that follow each other lie.  *)
LEMMA Siblings ==
  ASSUME TreeAssumption, NEW s, NEW m, NEW p, Forests(Sub(s), m), NEW q, q = FindChildren(s, p)
  PROVE  /\ q \in Seq(InScope(s)) /\ Len(q) \in Nat
         /\ \A k \in 1..Len(q) : rows[q[k]].parent = p
         /\ \A i \in InScope(s) : rows[i].parent = p => \E k \in 1..Len(q) : q[k] = i
         /\ \A k, n \in 1..Len(q) : k < n <=> rows[q[k]].lft < rows[q[n]].lft
         /\ \A k, n \in 1..Len(q) : q[k] = q[n] => k = n
<1> DEFINE S == {i \in InScope(s) : rows[i].parent = p}
<1>1. S \in SUBSET InScope(s) /\ q = ByLeft(S)
  BY DEF FindChildren
<1>2. \A i : i \in S <=> i \in InScope(s) /\ rows[i].parent = p
  OBVIOUS
<1> HIDE DEF S
<1>3. /\ q \in Seq(S) /\ Len(q) \in Nat
      /\ \A i \in S : \E k \in 1..Len(q) : q[k] = i
      /\ \A k, n \in 1..Len(q) : k < n <=> rows[q[k]].lft < rows[q[n]].lft
      /\ \A k, n \in 1..Len(q) : q[k] = q[n] => k = n
  BY ZenonT(60), <1>1, LeftToRight
<1>4. \A k \in 1..Len(q) : q[k] \in S
  BY <1>3
<1>5. q \in Seq(InScope(s))
  BY <1>1, <1>3, <1>4
<1> QED
  BY <1>2, <1>3, <1>4, <1>5

(* Lists of statements put together.                                        *)
LEMMA Spliced ==
  ASSUME NEW S, NEW p \in Seq(S), NEW q \in Seq(S), NEW r \in Seq(S), Len(r) = Len(p) + Len(q),
         \A i \in 1..Len(p) : r[i] = p[i], \A i \in 1..Len(q) : r[Len(p) + i] = q[i]
  PROVE  p \o q = r
<1>1. /\ p \o q \in Seq(S) /\ Len(p \o q) = Len(p) + Len(q)
      /\ \A i \in 1..Len(p) + Len(q) : (p \o q)[i] = IF i <= Len(p) THEN p[i] ELSE q[i - Len(p)]
  BY ConcatProperties
<1>2. Len(p) \in Nat /\ Len(q) \in Nat
  BY LenProperties
<1>3. ASSUME NEW i \in 1..Len(p) + Len(q) PROVE (p \o q)[i] = r[i]
  <2>1. CASE i <= Len(p)
    BY <1>1, <1>2, <2>1
  <2>2. CASE ~(i <= Len(p))
    <3>1. i - Len(p) \in 1..Len(q) /\ Len(p) + (i - Len(p)) = i
      BY <1>2, <2>2
    <3> QED
      BY <1>1, <2>2, <3>1
  <2> QED
    BY <2>1, <2>2
<1> QED
  BY <1>1, <1>3, SeqEqual

(* Short lists, put together.                                               *)
LEMMA Join11 ==
  ASSUME NEW a, NEW b
  PROVE  <<a>> \o <<b>> = <<a, b>>
<1> DEFINE S == {a, b}
<1>1. <<a>> \in Seq(S) /\ <<b>> \in Seq(S) /\ <<a, b>> \in Seq(S)
  OBVIOUS
<1>2. Len(<<a, b>>) = Len(<<a>>) + Len(<<b>>)
  OBVIOUS
<1>3. \A i \in 1..Len(<<a>>) : <<a, b>>[i] = <<a>>[i]
  OBVIOUS
<1>4. \A i \in 1..Len(<<b>>) : <<a, b>>[Len(<<a>>) + i] = <<b>>[i]
  OBVIOUS
<1> HIDE DEF S
<1> QED
  BY <1>1, <1>2, <1>3, <1>4, Spliced

(* The same for one statement and two.                                      *)
LEMMA Join12 ==
  ASSUME NEW a, NEW b, NEW c
  PROVE  <<a>> \o <<b, c>> = <<a, b, c>>
<1> DEFINE S == {a, b, c}
<1>1. <<a>> \in Seq(S) /\ <<b, c>> \in Seq(S) /\ <<a, b, c>> \in Seq(S)
  OBVIOUS
<1>2. Len(<<a, b, c>>) = Len(<<a>>) + Len(<<b, c>>)
  OBVIOUS
<1>3. \A i \in 1..Len(<<a>>) : <<a, b, c>>[i] = <<a>>[i]
  OBVIOUS
<1>4. \A i \in 1..Len(<<b, c>>) : <<a, b, c>>[Len(<<a>>) + i] = <<b, c>>[i]
  OBVIOUS
<1> HIDE DEF S
<1> QED
  BY <1>1, <1>2, <1>3, <1>4, Spliced

(* The same for two and one.                                                *)
LEMMA Join21 ==
  ASSUME NEW a, NEW b, NEW c
  PROVE  <<a, b>> \o <<c>> = <<a, b, c>>
<1> DEFINE S == {a, b, c}
<1>1. <<a, b>> \in Seq(S) /\ <<c>> \in Seq(S) /\ <<a, b, c>> \in Seq(S)
  OBVIOUS
<1>2. Len(<<a, b, c>>) = Len(<<a, b>>) + Len(<<c>>)
  OBVIOUS
<1>3. \A i \in 1..Len(<<a, b>>) : <<a, b, c>>[i] = <<a, b>>[i]
  OBVIOUS
<1>4. \A i \in 1..Len(<<c>>) : <<a, b, c>>[Len(<<a, b>>) + i] = <<c>>[i]
  OBVIOUS
<1> HIDE DEF S
<1> QED
  BY <1>1, <1>2, <1>3, <1>4, Spliced

(* The same for two and two.                                                *)
LEMMA Join22 ==
  ASSUME NEW a, NEW b, NEW c, NEW d
  PROVE  <<a, b>> \o <<c, d>> = <<a, b, c, d>>
<1> DEFINE S == {a, b, c, d}
<1>1. <<a, b>> \in Seq(S) /\ <<c, d>> \in Seq(S) /\ <<a, b, c, d>> \in Seq(S)
  OBVIOUS
<1>2. Len(<<a, b, c, d>>) = Len(<<a, b>>) + Len(<<c, d>>)
  OBVIOUS
<1>3. \A i \in 1..Len(<<a, b>>) : <<a, b, c, d>>[i] = <<a, b>>[i]
  OBVIOUS
<1>4. \A i \in 1..Len(<<c, d>>) : <<a, b, c, d>>[Len(<<a, b>>) + i] = <<c, d>>[i]
  OBVIOUS
<1> HIDE DEF S
<1> QED
  BY <1>1, <1>2, <1>3, <1>4, Spliced

(* The same for three and one.                                              *)
LEMMA Join31 ==
  ASSUME NEW a, NEW b, NEW c, NEW d
  PROVE  <<a, b, c>> \o <<d>> = <<a, b, c, d>>
<1> DEFINE S == {a, b, c, d}
<1>1. <<a, b, c>> \in Seq(S) /\ <<d>> \in Seq(S) /\ <<a, b, c, d>> \in Seq(S)
  OBVIOUS
<1>2. Len(<<a, b, c, d>>) = Len(<<a, b, c>>) + Len(<<d>>)
  OBVIOUS
<1>3. \A i \in 1..Len(<<a, b, c>>) : <<a, b, c, d>>[i] = <<a, b, c>>[i]
  OBVIOUS
<1>4. \A i \in 1..Len(<<d>>) : <<a, b, c, d>>[Len(<<a, b, c>>) + i] = <<d>>[i]
  OBVIOUS
<1> HIDE DEF S
<1> QED
  BY <1>1, <1>2, <1>3, <1>4, Spliced

(* The same for three and two.                                              *)
LEMMA Join32 ==
  ASSUME NEW a, NEW b, NEW c, NEW d, NEW e
  PROVE  <<a, b, c>> \o <<d, e>> = <<a, b, c, d, e>>
<1> DEFINE S == {a, b, c, d, e}
<1>1. <<a, b, c>> \in Seq(S) /\ <<d, e>> \in Seq(S) /\ <<a, b, c, d, e>> \in Seq(S)
  OBVIOUS
<1>2. Len(<<a, b, c, d, e>>) = Len(<<a, b, c>>) + Len(<<d, e>>)
  OBVIOUS
<1>3. \A i \in 1..Len(<<a, b, c>>) : <<a, b, c, d, e>>[i] = <<a, b, c>>[i]
  OBVIOUS
<1>4. \A i \in 1..Len(<<d, e>>) : <<a, b, c, d, e>>[Len(<<a, b, c>>) + i] = <<d, e>>[i]
  OBVIOUS
<1> HIDE DEF S
<1> QED
  BY <1>1, <1>2, <1>3, <1>4, Spliced

(* The same for four and one.                                               *)
LEMMA Join41 ==
  ASSUME NEW a, NEW b, NEW c, NEW d, NEW e
  PROVE  <<a, b, c, d>> \o <<e>> = <<a, b, c, d, e>>
<1> DEFINE S == {a, b, c, d, e}
<1>1. <<a, b, c, d>> \in Seq(S) /\ <<e>> \in Seq(S) /\ <<a, b, c, d, e>> \in Seq(S)
  OBVIOUS
<1>2. Len(<<a, b, c, d, e>>) = Len(<<a, b, c, d>>) + Len(<<e>>)
  OBVIOUS
<1>3. \A i \in 1..Len(<<a, b, c, d>>) : <<a, b, c, d, e>>[i] = <<a, b, c, d>>[i]
  OBVIOUS
<1>4. \A i \in 1..Len(<<e>>) : <<a, b, c, d, e>>[Len(<<a, b, c, d>>) + i] = <<e>>[i]
  OBVIOUS
<1> HIDE DEF S
<1> QED
  BY <1>1, <1>2, <1>3, <1>4, Spliced

(* The same for five and two.                                               *)
LEMMA Join52 ==
  ASSUME NEW a, NEW b, NEW c, NEW d, NEW e, NEW f, NEW g
  PROVE  <<a, b, c, d, e>> \o <<f, g>> = <<a, b, c, d, e, f, g>>
<1> DEFINE S == {a, b, c, d, e, f, g}
<1>1. <<a, b, c, d, e>> \in Seq(S) /\ <<f, g>> \in Seq(S) /\ <<a, b, c, d, e, f, g>> \in Seq(S)
  OBVIOUS
<1>2. Len(<<a, b, c, d, e, f, g>>) = Len(<<a, b, c, d, e>>) + Len(<<f, g>>)
  OBVIOUS
<1>3. \A i \in 1..Len(<<a, b, c, d, e>>) : <<a, b, c, d, e, f, g>>[i] = <<a, b, c, d, e>>[i]
  OBVIOUS
<1>4. \A i \in 1..Len(<<f, g>>) : <<a, b, c, d, e, f, g>>[Len(<<a, b, c, d, e>>) + i] = <<f, g>>[i]
  OBVIOUS
<1> HIDE DEF S
<1> QED
  BY <1>1, <1>2, <1>3, <1>4, Spliced

(* Of two siblings that follow each other the right one begins where the    *)
(* left one ends.                                                           *)
LEMMA Neighbours ==
  ASSUME NEW t, NEW m, Forests(t, m), NEW a \in DOMAIN t, NEW b \in DOMAIN t,
         t[a].parent = t[b].parent, t[a].lft < t[b].lft,
         \A c \in DOMAIN t : t[c].parent = t[a].parent => ~(t[a].lft < t[c].lft /\ t[c].lft < t[b].lft)
  PROVE  t[a].rght + 1 = t[b].lft
<1> DEFINE P == t[a].parent
<1> DEFINE v == t[a].rght + 1
<1> USE DEF Root
<1>1. /\ m \in Nat
      /\ \A i \in DOMAIN t : /\ t[i].lft \in Nat /\ t[i].rght \in Nat /\ i # Root
                             /\ 1 <= t[i].lft /\ t[i].lft < t[i].rght /\ t[i].rght <= m
      /\ \A i, j \in DOMAIN t : i = j \/ Apart(t, i, j) \/ In(t, i, j) \/ In(t, j, i)
      /\ \A w \in 1..m : \E i \in DOMAIN t : t[i].lft = w \/ t[i].rght = w
      /\ \A i \in DOMAIN t : Linked(t, i)
  BY DEF Forests, Bounds, Laminar, Filled, Ids
<1>2. \A i, j \in DOMAIN t : In(t, i, j) => ~In(t, j, i) /\ i # j
  BY <1>1 DEF In, IsInside
<1>3. \A i \in DOMAIN t : t[i].parent # Root =>
        /\ t[i].parent \in DOMAIN t /\ In(t, i, t[i].parent)
        /\ \A j \in DOMAIN t : In(t, i, j) => j = t[i].parent \/ In(t, t[i].parent, j)
  BY <1>1 DEF Linked
<1>4. \A i \in DOMAIN t : t[i].parent = Root => \A j \in DOMAIN t : ~In(t, i, j)
  BY <1>1 DEF Linked
<1>5. \A i, j \in DOMAIN t : t[i].parent = t[j].parent => ~In(t, i, j)
  <2> SUFFICES ASSUME NEW i \in DOMAIN t, NEW j \in DOMAIN t, t[i].parent = t[j].parent, In(t, i, j)
               PROVE  FALSE
    OBVIOUS
  <2>1. t[i].parent # Root
    BY <1>4
  <2>2. In(t, j, t[i].parent) /\ t[i].parent \in DOMAIN t
    BY <1>3, <2>1
  <2>3. j = t[i].parent \/ In(t, t[i].parent, j)
    BY <1>3, <2>1
  <2> QED
    BY <1>2, <2>2, <2>3
<1>6. t[a].rght < t[b].lft
  BY <1>1, <1>5 DEF Apart
<1>7. PICK k \in DOMAIN t : t[k].lft = v \/ t[k].rght = v
  BY <1>1, <1>6
<1>8. k # a
  BY <1>1, <1>7
<1> SUFFICES ASSUME v # t[b].lft PROVE FALSE
  OBVIOUS
<1> k # b /\ v < t[b].lft
  BY <1>1, <1>6, <1>7, SMTT(90)
<1>9. CASE t[k].rght = v
  <2>1. In(t, a, k)
    <3>1. Apart(t, a, k) \/ In(t, a, k) \/ In(t, k, a)
      BY <1>1, <1>8
    <3> QED
      BY <1>1, <1>9, <3>1 DEF Apart, In, IsInside
  <2>2. P # Root /\ (k = P \/ In(t, P, k))
    BY <1>3, <1>4, <2>1
  <2>3. In(t, b, P) /\ P \in DOMAIN t
    BY <1>3, <2>2
  <2> QED
    BY <1>1, <1>9, <2>2, <2>3 DEF In, IsInside
<1>10. CASE t[k].lft = v
  <2> DEFINE K == t[k].parent
  <2>1. K # P
    BY <1>1, <1>10
  <2>2. K # Root /\ K \in DOMAIN t /\ In(t, k, K)
    <3>1. CASE P = Root
      BY <1>3, <2>1, <3>1
    <3>2. CASE P # Root
      <4>1. In(t, a, P) /\ In(t, b, P) /\ P \in DOMAIN t
        BY <1>3, <3>2
      <4>2. In(t, k, P)
        BY <1>1, <1>6, <1>10, <4>1 DEF Apart, In, IsInside
      <4> QED
        BY <1>3, <1>4, <4>1, <4>2
    <3> QED
      BY <3>1, <3>2
  <2>3. In(t, a, K)
    <3>1. t[K].lft < v /\ t[K].rght > v /\ K # a
      BY <1>1, <1>10, <2>2 DEF In, IsInside
    <3>2. Apart(t, a, K) \/ In(t, a, K) \/ In(t, K, a)
      BY <1>1, <2>2, <3>1
    <3> QED
      BY <1>1, <2>2, <3>1, <3>2 DEF Apart, In, IsInside
  <2>4. P # Root /\ P \in DOMAIN t /\ In(t, P, K)
    BY <1>3, <1>4, <2>1, <2>2, <2>3
  <2>5. In(t, b, P) /\ In(t, a, P)
    BY <1>3, <2>4
  <2>6. In(t, k, P)
    BY <1>1, <1>6, <1>10, <2>4, <2>5 DEF Apart, In, IsInside
  <2>7. P = K \/ In(t, K, P)
    BY <1>3, <2>2, <2>4, <2>6
  <2> QED
    BY <1>2, <2>1, <2>2, <2>4, <2>7
<1> QED
  BY <1>7, <1>9, <1>10

-----------------------------------------------------------------------------
(* What an operation decides, on a sound scope and with a fresh node, leads *)
(* to a sound scope, whatever key the table hands out next.                 *)
Inserts(todo) == \E k \in 1..Len(todo) : todo[k].kind = "insert"
Sound(s, todo, id) == \E u, m : Leads(s, Sub(s), todo, id, u) /\ Tabular(u) /\ Forests(u, m)
Good(s, todo) == \A id : (Inserts(todo) => id \in Ids \ DOMAIN rows) => Sound(s, todo, id)
Rows == \A i \in DOMAIN rows : DOMAIN rows[i] = Cols

(* The table of one scope is the part of the rows that is in it.            *)
LEMMA InScopeRows ==
  ASSUME NEW s
  PROVE  /\ DOMAIN Sub(s) = InScope(s) /\ InScope(s) \subseteq DOMAIN rows
         /\ \A i \in InScope(s) : Sub(s)[i] = rows[i]
         /\ Rows => Tabular(Sub(s))
BY DEF Sub, InScope, Tabular, Rows

(* Whatever insert_as_child() reads in a sound scope, its statements lead   *)
(* to a sound scope.                                                        *)
LEMMA InsertGood ==
  ASSUME TreeAssumption, Rows, NEW s, NEW m, Forests(Sub(s), m), NEW p \in InScope(s) \union {Root}
  PROVE  Good(s, InsertSteps(s, p))
<1>1. Tabular(Sub(s)) /\ DOMAIN Sub(s) = InScope(s) /\ InScope(s) \subseteq DOMAIN rows
  BY InScopeRows
<1>2. CASE p = Root
  <2>1. InsertSteps(s, p) = <<NewRow(Root, m + 1, 0)>>
    BY <1>2, MaxRghtIs DEF InsertSteps
  <2>2. Inserts(InsertSteps(s, p))
    BY <2>1 DEF Inserts, NewRow
  <2> SUFFICES ASSUME NEW id \in Ids \ DOMAIN rows PROVE Sound(s, InsertSteps(s, p), id)
    BY <2>2 DEF Good
  <2>3. id \in Ids \ DOMAIN Sub(s)
    BY <1>1
  <2>4. \E u, n : Leads(s, Sub(s), InsertSteps(s, p), id, u) /\ Tabular(u) /\ Forests(u, n)
    BY <1>1, <1>2, <2>1, <2>3, InsertLeads
  <2> QED
    BY <2>4 DEF Sound
<1>3. CASE p # Root
  <2>1. p \in InScope(s) /\ Sub(s)[p] = rows[p]
    BY <1>3, InScopeRows
  <2>2. InsertSteps(s, p) = <<Shift("rght", rows[p].rght, 2), Shift("lft", rows[p].rght, 2),
                              NewRow(p, rows[p].rght, rows[p].depth + 1)>>
    <3>1. InsertSteps(s, p) = <<Shift("rght", rows[p].rght, 2), Shift("lft", rows[p].rght, 2)>>
                              \o <<NewRow(p, rows[p].rght, rows[p].depth + 1)>>
      BY <1>3 DEF InsertSteps, OpenGap
    <3> QED
      BY <3>1, Join21
  <2>3. Inserts(InsertSteps(s, p))
    <3>1. Len(InsertSteps(s, p)) = 3 /\ InsertSteps(s, p)[3].kind = "insert"
      BY <2>2 DEF NewRow
    <3>2. 3 \in 1..Len(InsertSteps(s, p))
      BY <3>1
    <3> QED
      BY <3>1, <3>2 DEF Inserts
  <2> SUFFICES ASSUME NEW id \in Ids \ DOMAIN rows PROVE Sound(s, InsertSteps(s, p), id)
    BY <2>3 DEF Good
  <2>4. id \in Ids \ DOMAIN Sub(s)
    BY <1>1
  <2>5. \E u, n : Leads(s, Sub(s), InsertSteps(s, p), id, u) /\ Tabular(u) /\ Forests(u, n)
    BY <1>1, <2>1, <2>2, <2>4, InsertLeads
  <2> QED
    BY <2>5 DEF Sound
<1> QED
  BY <1>2, <1>3

(* The same of delete_subtree() and a node read since the last change.      *)
LEMMA DeleteGood ==
  ASSUME Rows, NEW s, NEW m, Forests(Sub(s), m), NEW i \in InScope(s)
  PROVE  Good(s, DeleteSteps(rows[i]))
<1> SUFFICES ASSUME NEW id
             PROVE  \E u, n : Leads(s, Sub(s), DeleteSteps(rows[i]), id, u) /\ Tabular(u) /\ Forests(u, n)
  BY DEF Good, Sound
<1>1. Tabular(Sub(s)) /\ i \in DOMAIN Sub(s) /\ Sub(s)[i] = rows[i]
  BY InScopeRows
<1> DEFINE L == rows[i].lft
<1> DEFINE R == rows[i].rght
<1> DEFINE W == Width(rows[i])
<1>2. DeleteSteps(rows[i]) = <<DropRange(L, R), Shift("lft", R + 1, -W), Shift("rght", R + 1, -W)>>
  <2> DeleteSteps(rows[i]) = <<DropRange(L, R)>> \o <<Shift("lft", R + 1, -W), Shift("rght", R + 1, -W)>>
    BY DEF DeleteSteps, CloseGap
  <2> QED
    BY Join12
<1> HIDE DEF L, R, W
<1>3. L = Sub(s)[i].lft /\ R = Sub(s)[i].rght /\ W = Width(Sub(s)[i])
  BY <1>1 DEF L, R, W
<1> QED
  BY <1>1, <1>2, <1>3, DeleteLeads, ZenonT(90)

(* The same of remove_from_tree().                                          *)
LEMMA RemoveGood ==
  ASSUME Rows, NEW s, NEW m, Forests(Sub(s), m), NEW i \in InScope(s)
  PROVE  Good(s, RemoveSteps(s, i, rows[i]))
<1> DEFINE todo == RemoveSteps(s, i, rows[i])
<1> SUFFICES ASSUME NEW id
             PROVE  \E u, n : Leads(s, Sub(s), todo, id, u) /\ Tabular(u) /\ Forests(u, n)
  BY DEF Good, Sound
<1>1. Tabular(Sub(s)) /\ i \in DOMAIN Sub(s) /\ Sub(s)[i] = rows[i]
  BY InScopeRows
<1> DEFINE L == rows[i].lft
<1> DEFINE R == rows[i].rght
<1> DEFINE first == Adopt(i, rows[i].parent)
<1> DEFINE last == Assign(i, [parent |-> Root, lft |-> m - 1, rght |-> m, depth |-> 0])
<1> DEFINE gap1 == Shift("lft", R + 1, -2)
<1> DEFINE gap2 == Shift("rght", R + 1, -2)
<1> DEFINE inner == MoveRange(L + 1, R - 1, -1, -1)
<1>2. todo = <<first>> \o (IF R - L > 1 THEN <<inner>> ELSE <<>>) \o <<gap1, gap2>> \o <<last>>
  BY MaxRghtIs DEF RemoveSteps, Promote, CloseGap
<1>3. R - L > 1 => todo = <<first, inner, gap1, gap2, last>>
  <2> HIDE DEF first, inner, gap1, gap2, last, todo, R, L
  <2> SUFFICES ASSUME R - L > 1 PROVE todo = <<first, inner, gap1, gap2, last>>
    OBVIOUS
  <2>1. todo = ((<<first>> \o <<inner>>) \o <<gap1, gap2>>) \o <<last>>
    BY <1>2
  <2>2. <<first>> \o <<inner>> = <<first, inner>>
    BY Join11
  <2>3. <<first, inner>> \o <<gap1, gap2>> = <<first, inner, gap1, gap2>>
    BY Join22
  <2>4. <<first, inner, gap1, gap2>> \o <<last>> = <<first, inner, gap1, gap2, last>>
    BY Join41
  <2> QED
    BY <2>1, <2>2, <2>3, <2>4
<1>4. ~(R - L > 1) => todo = <<first, gap1, gap2, last>>
  <2> HIDE DEF first, inner, gap1, gap2, last, todo, R, L
  <2> SUFFICES ASSUME ~(R - L > 1) PROVE todo = <<first, gap1, gap2, last>>
    OBVIOUS
  <2>1. todo = ((<<first>> \o <<>>) \o <<gap1, gap2>>) \o <<last>>
    BY <1>2
  <2>2. <<first>> \o <<>> = <<first>>
    <3>1. <<first>> \in Seq({first})
      OBVIOUS
    <3> QED
      BY <3>1, ConcatEmptySeq
  <2>3. <<first>> \o <<gap1, gap2>> = <<first, gap1, gap2>>
    BY Join12
  <2>4. <<first, gap1, gap2>> \o <<last>> = <<first, gap1, gap2, last>>
    BY Join31
  <2> QED
    BY <2>1, <2>2, <2>3, <2>4
<1> HIDE DEF todo, L, R
<1>5. L = Sub(s)[i].lft /\ R = Sub(s)[i].rght /\ rows[i].parent = Sub(s)[i].parent
  BY <1>1 DEF L, R
<1> QED
  BY <1>1, <1>3, <1>4, <1>5, RemoveLeads

(* The same of move_to() to a parent it allows.                             *)
LEMMA MoveGood ==
  ASSUME TreeAssumption, Rows, NEW s, NEW m, Forests(Sub(s), m), NEW i \in InScope(s), NEW p,
         MayMove(s, rows[i], p)
  PROVE  Good(s, MoveSteps(s, i, rows[i], p))
<1> DEFINE b == rows[i]
<1> DEFINE todo == MoveSteps(s, i, b, p)
<1> SUFFICES ASSUME NEW id
             PROVE  \E u, n : Leads(s, Sub(s), todo, id, u) /\ Tabular(u) /\ Forests(u, n)
  BY DEF Good, Sound
<1> DEFINE t == Sub(s)
<1>1. /\ Tabular(t) /\ i \in DOMAIN t /\ t[i] = b /\ DOMAIN t = InScope(s)
      /\ p \in InScope(s) => t[p] = rows[p] /\ p # Root
  BY InScopeRows DEF Forests, Ids, Root
<1>2. p = Root \/ (p \in DOMAIN t /\ ~Block(t, p, i))
  BY <1>1 DEF MayMove, Block, In
<1> DEFINE L == b.lft
<1> DEFINE R == b.rght
<1> DEFINE W == Width(b)
<1> DEFINE iso == -Temp - R
<1> DEFINE g == Closed(Point(t, m, p), b)
<1> DEFINE level == Level(t, p)
<1>3. Target(b, IF p = Root THEN MaxRght(s) + 1 ELSE rows[p].rght) = g
  BY <1>1, <1>2, MaxRghtIs DEF Target, Closed, Point
<1>4. (IF p = Root THEN 0 ELSE rows[p].depth + 1) = level
  BY <1>1, <1>2 DEF Level
<1> DEFINE a1 == MoveRange(L, R, iso, 0)
<1> DEFINE a2 == Shift("lft", R + 1, -W)
<1> DEFINE a3 == Shift("rght", R + 1, -W)
<1> DEFINE a4 == Shift("rght", g, W)
<1> DEFINE a5 == Shift("lft", g, W)
<1> DEFINE a6 == MoveRange(L + iso, R + iso, g - L - iso, level - b.depth)
<1> DEFINE a7 == Assign(i, [parent |-> p])
<1>5. todo = <<a1>> \o <<a2, a3>> \o <<a4, a5>> \o <<a6, a7>>
  <2> HIDE DEF g, level
  <2> QED
    BY <1>3, <1>4 DEF MoveSteps, CloseGap, OpenGap
<1>6. todo = <<a1, a2, a3, a4, a5, a6, a7>>
  <2> HIDE DEF a1, a2, a3, a4, a5, a6, a7, todo
  <2>1. <<a1>> \o <<a2, a3>> = <<a1, a2, a3>>
    BY Join12
  <2>2. <<a1, a2, a3>> \o <<a4, a5>> = <<a1, a2, a3, a4, a5>>
    BY Join32
  <2>3. <<a1, a2, a3, a4, a5>> \o <<a6, a7>> = <<a1, a2, a3, a4, a5, a6, a7>>
    BY Join52
  <2> QED
    BY <1>5, <2>1, <2>2, <2>3
<1> HIDE DEF todo, b, L, R, W, iso, g, level
<1>7. /\ L = t[i].lft /\ R = t[i].rght /\ W = Width(t[i]) /\ iso = -Temp - R
      /\ g = Closed(Point(t, m, p), t[i]) /\ level = Level(t, p) /\ b = t[i]
  BY <1>1 DEF b, L, R, W, iso, g, level
<1> HIDE DEF t
<1>8. Forests(t, m)
  BY DEF t
<1>9. \E u : Leads(s, t, todo, id, u) /\ Tabular(u) /\ Forests(u, m)
  BY ZenonT(90), <1>1, <1>2, <1>6, <1>7, <1>8, MoveLeads
<1> QED
  BY <1>9 DEF t

(* The same of move_up() and move_down(), when they have a sibling to pass. *)
LEMMA SlideGood ==
  ASSUME TreeAssumption, Rows, NEW s, NEW m, Forests(Sub(s), m), NEW i \in InScope(s), NEW by \in {-1, 1}
  PROVE  SlideSteps(s, i, rows[i], by) = <<>> \/ Good(s, SlideSteps(s, i, rows[i], by))
<1> DEFINE b == rows[i]
<1> DEFINE q == FindChildren(s, b.parent)
<1> DEFINE at == SelectInSeq(q, LAMBDA j : j = i)
<1> DEFINE todo == SlideSteps(s, i, b, by)
<1>1. /\ q \in Seq(InScope(s)) /\ Len(q) \in Nat
      /\ \A k \in 1..Len(q) : rows[q[k]].parent = b.parent
      /\ \A j \in InScope(s) : rows[j].parent = b.parent => \E k \in 1..Len(q) : q[k] = j
      /\ \A k, n \in 1..Len(q) : k < n <=> rows[q[k]].lft < rows[q[n]].lft
      /\ \A k, n \in 1..Len(q) : q[k] = q[n] => k = n
  BY SMTT(60), Siblings
<1>2. PICK k \in 1..Len(q) : q[k] = i
  BY <1>1
<1>3. at = k
  <2>1. {j \in 1..Len(q) : q[j] = i} = {k}
    BY <1>1, <1>2
  <2>2. at = Min({k})
    BY <2>1 DEF SelectInSeq
  <2>3. k \in Nat /\ k <= k
    BY <1>1
  <2> QED
    BY <2>2, <2>3 DEF Min
<1>4. CASE at + by \notin DOMAIN q
  BY <1>4 DEF SlideSteps
<1>5. CASE at + by \in DOMAIN q
  <2> DEFINE n == IF by < 0 THEN k - 1 ELSE k
  <2>1. n \in 1..Len(q) /\ n + 1 \in 1..Len(q)
    BY SMTT(60), <1>1, <1>3, <1>5
  <2> DEFINE l == q[n]
  <2> DEFINE r == q[n + 1]
  <2>2. l \in InScope(s) /\ r \in InScope(s)
    BY <1>1, <2>1
  <2>3. todo = SwapSteps(rows[l], rows[r])
    BY SMTT(60), <1>1, <1>3, <1>5 DEF SlideSteps
  <2>4. rows[l].rght + 1 = rows[r].lft
    <3>1. rows[l].parent = rows[r].parent /\ rows[l].lft < rows[r].lft
      BY <1>1, <2>1
    <3>2. ASSUME NEW c \in InScope(s), rows[c].parent = rows[l].parent
          PROVE  ~(rows[l].lft < rows[c].lft /\ rows[c].lft < rows[r].lft)
      <4>1. rows[c].parent = b.parent
        BY <1>1, <2>1, <3>2
      <4>2. PICK x \in 1..Len(q) : q[x] = c
        BY <1>1, <4>1
      <4>3. ~(n < x /\ x < n + 1)
        BY <2>1
      <4> HIDE DEF q, n
      <4> QED
        BY <1>1, <2>1, <4>2, <4>3
    <3> HIDE DEF l, r
    <3>3. /\ l \in DOMAIN Sub(s) /\ r \in DOMAIN Sub(s) /\ Sub(s)[l] = rows[l] /\ Sub(s)[r] = rows[r]
          /\ DOMAIN Sub(s) = InScope(s) /\ \A c \in InScope(s) : Sub(s)[c] = rows[c]
      BY <2>2, InScopeRows
    <3> DEFINE t == Sub(s)
    <3>4. \A c \in DOMAIN t : t[c].parent = t[l].parent => ~(t[l].lft < t[c].lft /\ t[c].lft < t[r].lft)
      BY <3>2, <3>3
    <3>5. Forests(t, m) /\ l \in DOMAIN t /\ r \in DOMAIN t /\ t[l].parent = t[r].parent /\ t[l].lft < t[r].lft
      BY <3>1, <3>3
    <3> HIDE DEF t
    <3>6. t[l].rght + 1 = t[r].lft
      BY <3>4, <3>5, Neighbours
    <3> QED
      BY <3>3, <3>6 DEF t
  <2> HIDE DEF l, r, todo
  <2>5. /\ l \in DOMAIN Sub(s) /\ r \in DOMAIN Sub(s) /\ Sub(s)[l] = rows[l] /\ Sub(s)[r] = rows[r]
        /\ Tabular(Sub(s)) /\ rows[l].rght \in Nat
    BY <2>2, InScopeRows DEF Forests, Bounds
  <2>6. todo = <<MoveRange(rows[r].lft, rows[r].rght, Temp, 0),
                 MoveRange(rows[l].lft, rows[l].rght, Width(rows[r]), 0),
                 MoveRange(rows[r].lft + Temp, rows[r].rght + Temp, -Temp - Width(rows[l]), 0)>>
    BY <2>3, <2>4, <2>5 DEF SwapSteps
  <2>7. m <= 2 * MaxNodes
    <3>1. m = 2 * Cardinality(DOMAIN Sub(s)) /\ Cardinality(DOMAIN Sub(s)) <= MaxNodes
          /\ Cardinality(DOMAIN Sub(s)) \in Nat /\ MaxNodes \in Nat
      BY Counted DEF TreeAssumption
    <3> QED
      BY <3>1
  <2>8. Good(s, todo)
    <3> SUFFICES ASSUME NEW id
                 PROVE  \E u, x : Leads(s, Sub(s), todo, id, u) /\ Tabular(u) /\ Forests(u, x)
      BY DEF Good, Sound
    <3> QED
      BY <2>4, <2>5, <2>6, <2>7, SwapLeads
  <2> QED
    BY <2>8 DEF todo
<1> QED
  BY <1>4, <1>5

-----------------------------------------------------------------------------
(* recover(): the rows that a root leads to, numbered as a sound table.     *)
Listed(q, S) ==
  /\ q \in Seq(S) /\ Len(q) \in Nat
  /\ \A i \in S : \E k \in 1..Len(q) : q[k] = i
  /\ \A k, n \in 1..Len(q) : q[k] = q[n] => k = n

(* ByKey gives each member of a set of numbers one place, in order.         *)
LEMMA ByKeyLists ==
  ASSUME NEW S, IsFiniteSet(S), S \subseteq Nat
  PROVE  Listed(ByKey(S), S)
<1> SUFFICES ASSUME NEW q, q = ByKey(S) PROVE Listed(q, S)
  OBVIOUS
<1> DEFINE B == {x \in S \X S : x[1] < x[2]}
<1>1. \A i, j \in S : <<i, j>> \in B <=> i < j
  OBVIOUS
<1>2. Orders(B, S)
  <2> HIDE DEF B
  <2> QED
    BY <1>1 DEF Orders
<1>3. \A i \in S : {j \in S : j < i} = {j \in S : <<j, i>> \in B}
  <2> HIDE DEF B
  <2> QED
    BY <1>1
<1>4. q = [k \in 1..Cardinality(S) |-> CHOOSE i \in S : Cardinality({j \in S : j < i}) = k - 1]
  BY DEF ByKey, Ordered
<1>5. ASSUME NEW k \in 1..Cardinality(S)
      PROVE  q[k] \in S /\ Cardinality({j \in S : <<j, q[k]>> \in B}) = k - 1
  <2> DEFINE Fits(i) == i \in S /\ Cardinality({j \in S : j < i}) = k - 1
  <2>1. PICK i \in S : Cardinality({j \in S : <<j, i>> \in B}) = k - 1
    <3> HIDE DEF B, Fits
    <3>1. IsFiniteSet(S) /\ k \in 1..Cardinality(S)
      OBVIOUS
    <3> QED
      BY ONLY <1>2, <3>1, PlaceTaken
  <2>2. Fits(i)
    BY <1>3, <2>1
  <2>3. q[k] = CHOOSE x : Fits(x)
    BY <1>4
  <2>4. Fits(CHOOSE x : Fits(x))
    <3> HIDE DEF Fits
    <3> QED
      BY <2>2
  <2>5. Fits(q[k])
    BY <2>3, <2>4
  <2> QED
    BY <1>3, <2>5
<1> HIDE DEF B
<1>6. Sorts(q, S, B)
  <2>1. q = [k \in 1..Cardinality(S) |-> q[k]]
    BY <1>4
  <2> QED
    BY <1>5, <2>1 DEF Sorts
<1>7. /\ q \in Seq(S) /\ Len(q) \in Nat
      /\ \A i \in S : \E k \in 1..Len(q) : q[k] = i
      /\ \A k, n \in 1..Len(q) : q[k] = q[n] => k = n
  BY <1>2, <1>6, Sequenced
<1> QED
  BY <1>7 DEF Listed

(* Counting up: what holds of 0 and of the successor of each number it      *)
(* holds of, holds of all the numbers up to n.                              *)
LEMMA Upwards ==
  ASSUME NEW n \in Nat, NEW S, 0 \in S, \A m \in 0..(n - 1) : m \in S => m + 1 \in S
  PROVE  \A m \in 0..n : m \in S
<1> DEFINE T == (0..n) \ S
<1> SUFFICES ASSUME T # {} PROVE FALSE
  OBVIOUS
<1>1. T \subseteq Nat
  OBVIOUS
<1>2. PICK x \in T : \A y \in T : ~(<<y, x>> \in OpToRel(<, Nat))
  BY <1>1, NatLessThanWellFounded, WFMin
<1>3. x \in 1..n /\ x - 1 \notin S
  OBVIOUS
<1>4. x - 1 \in T
  BY <1>3
<1>5. x - 1 \in Nat /\ x \in Nat /\ x - 1 < x
  BY <1>3
<1>6. <<x - 1, x>> \in OpToRel(<, Nat)
  BY <1>5 DEF OpToRel
<1> QED
  BY <1>2, <1>4, <1>6

(* The loop of traverse().                                                  *)
At(g, p, left) == g[p][left]
After(r, i, below, depth) ==
  [next |-> At(below, i, r.next + 1).next + 1,
   done |-> r.done \o At(below, i, r.next + 1).done
            \o <<[id |-> i, lft |-> r.next, rght |-> At(below, i, r.next + 1).next, depth |-> depth]>>]
Turns(h, nodes, left, depth, below, n) ==
  /\ DOMAIN h = 0..n /\ h[0] = [next |-> left, done |-> <<>>]
  /\ \A k \in 1..n : h[k] = After(h[k - 1], nodes[k], below, depth)
Loop(h, nodes, left, depth, below) ==
  [k \in 0..Len(nodes) |-> IF k = 0 THEN [next |-> left, done |-> <<>>]
                           ELSE After(h[k - 1], nodes[k], below, depth)]

(* The recursive function of InTurn exists: it is a run of the loop of      *)
(* traverse().                                                              *)
LEMMA InTurnLoops ==
  ASSUME NEW E, NEW nodes \in Seq(E), NEW left, NEW depth, NEW below
  PROVE  \E h : /\ Turns(h, nodes, left, depth, below, Len(nodes))
                /\ InTurn(nodes, left, depth, below) = h[Len(nodes)]
<1> DEFINE N == Len(nodes)
<1> DEFINE T(h, n) == h = [x \in DOMAIN h |-> h[x]] /\ Turns(h, nodes, left, depth, below, n)
<1> DEFINE S == {n \in 0..N : \E h : T(h, n)}
<1>1. N \in Nat
  BY LenProperties
<1>2. 0 \in S
  <2> DEFINE h == [n \in 0..0 |-> [next |-> left, done |-> <<>>]]
  <2>1. T(h, 0)
    BY DEF Turns
  <2> QED
    BY <1>1, <2>1
<1>3. \A m \in 0..(N - 1) : m \in S => m + 1 \in S
  <2> SUFFICES ASSUME NEW m \in 0..(N - 1), m \in S PROVE \E h : T(h, m + 1)
    BY <1>1
  <2>1. PICK g : T(g, m)
    OBVIOUS
  <2> DEFINE h == [n \in 0..(m + 1) |-> IF n = m + 1 THEN After(g[m], nodes[m + 1], below, depth) ELSE g[n]]
  <2>2. DOMAIN h = 0..(m + 1) /\ h[0] = g[0] /\ h[m + 1] = After(g[m], nodes[m + 1], below, depth)
        /\ \A n \in 0..m : h[n] = g[n]
    BY <1>1
  <2>3. h = [x \in DOMAIN h |-> h[x]]
    OBVIOUS
  <2> HIDE DEF h
  <2>4. ASSUME NEW k \in 1..(m + 1) PROVE h[k] = After(h[k - 1], nodes[k], below, depth)
    <3>1. CASE k = m + 1
      BY <1>1, <2>2, <3>1
    <3>2. CASE k # m + 1
      <4>1. k \in 1..m /\ k - 1 \in 0..m
        BY <1>1, <3>2
      <4> QED
        BY <2>1, <2>2, <4>1 DEF Turns
    <3> QED
      BY <3>1, <3>2
  <2>5. T(h, m + 1)
    BY <2>1, <2>2, <2>3, <2>4 DEF Turns
  <2> QED
    BY <2>5
<1>4. N \in S
  <2> HIDE DEF S, N
  <2>1. \A m \in 0..N : m \in S
    BY <1>1, <1>2, <1>3, Upwards
  <2> QED
    BY <1>1, <2>1
<1>5. PICK f : T(f, N)
  BY <1>4
<1>6. f = Loop(f, nodes, left, depth, below)
  <2>1. DOMAIN f = 0..N /\ \A n \in 0..N : f[n] = Loop(f, nodes, left, depth, below)[n]
    BY <1>5 DEF Turns, Loop
  <2>2. Loop(f, nodes, left, depth, below) = [n \in 0..N |-> Loop(f, nodes, left, depth, below)[n]]
    BY DEF Loop
  <2> QED
    BY <1>5, <2>1, <2>2
<1> DEFINE k == CHOOSE h : h = Loop(h, nodes, left, depth, below)
<1>7. k = Loop(k, nodes, left, depth, below)
  BY <1>6
<1>8. InTurn(nodes, left, depth, below) = k[N]
  BY DEF InTurn, Loop, After, At
<1> HIDE DEF k
<1>9. Turns(k, nodes, left, depth, below, N)
  <2>1. DOMAIN k = 0..N
    BY <1>7 DEF Loop
  <2>2. \A n \in 0..N : k[n] = IF n = 0 THEN [next |-> left, done |-> <<>>]
                               ELSE After(k[n - 1], nodes[n], below, depth)
    BY <1>7 DEF Loop
  <2> QED
    BY <1>1, <2>1, <2>2 DEF Turns
<1> QED
  BY <1>8, <1>9

(* The recursion of traverse().                                             *)
KidsOf(par, p) == ByKey({i \in DOMAIN par : par[i] = p})
Layer(par, n, g) ==
  [p \in DOMAIN par \union {Root} |-> [left \in Nat |->
     IF n = 0 THEN [next |-> left, done |-> <<>>]
     ELSE InTurn(KidsOf(par, p), left, Cardinality(DOMAIN par) - n, g)]]
Layers(f, par) == [n \in 0..Cardinality(DOMAIN par) |-> Layer(par, n, f[n - 1])]
Built(f, par, n) ==
  DOMAIN f = 0..n /\ \A k \in 0..n : f[k] = Layer(par, k, f[k - 1])

(* At no levels traverse() does not look further down.                      *)
LEMMA BaseLayer ==
  ASSUME NEW par, NEW g, NEW h
  PROVE  Layer(par, 0, g) = Layer(par, 0, h)
BY DEF Layer

(* The recursive function of Recovered exists and is built layer by layer.  *)
LEMMA RecoveredBuilds ==
  ASSUME NEW par, Cardinality(DOMAIN par) \in Nat
  PROVE  \E f : /\ Built(f, par, Cardinality(DOMAIN par))
                /\ Recovered(par) = f[Cardinality(DOMAIN par)][Root][1].done
<1> DEFINE N == Cardinality(DOMAIN par)
<1> DEFINE T(h, n) == h = [x \in DOMAIN h |-> h[x]] /\ Built(h, par, n)
<1> DEFINE S == {n \in 0..N : \E h : T(h, n)}
<1>1. N \in Nat
  OBVIOUS
<1>2. 0 \in S
  <2> DEFINE h == [n \in 0..0 |-> Layer(par, 0, 0)]
  <2>1. h[0] = Layer(par, 0, h[0 - 1])
    BY BaseLayer
  <2>2. T(h, 0)
    BY <2>1 DEF Built
  <2> QED
    BY <1>1, <2>2
<1>3. \A m \in 0..(N - 1) : m \in S => m + 1 \in S
  <2> SUFFICES ASSUME NEW m \in 0..(N - 1), m \in S PROVE \E h : T(h, m + 1)
    BY <1>1
  <2>1. PICK g : T(g, m)
    OBVIOUS
  <2> DEFINE h == [n \in 0..(m + 1) |-> IF n = m + 1 THEN Layer(par, m + 1, g[m]) ELSE g[n]]
  <2>2. DOMAIN h = 0..(m + 1) /\ h[m + 1] = Layer(par, m + 1, g[m]) /\ \A n \in 0..m : h[n] = g[n]
    BY <1>1
  <2>3. h = [x \in DOMAIN h |-> h[x]]
    OBVIOUS
  <2> HIDE DEF h, N
  <2>4. ASSUME NEW k \in 0..(m + 1) PROVE h[k] = Layer(par, k, h[k - 1])
    <3>1. CASE k = m + 1
      <4>1. k - 1 = m /\ m \in 0..m
        BY <1>1, <3>1
      <4>2. h[k - 1] = g[m]
        BY <2>2, <4>1
      <4> QED
        BY <2>2, <3>1, <4>2
    <3>2. CASE k = 0
      <4>1. h[k] = Layer(par, 0, g[k - 1])
        BY <1>1, <2>1, <2>2, <3>2, SMTT(90) DEF Built
      <4> QED
        BY <3>2, <4>1, BaseLayer
    <3>3. CASE k # m + 1 /\ k # 0
      <4>1. k \in 0..m /\ k - 1 \in 0..m
        BY <1>1, <3>3
      <4> QED
        BY <2>1, <2>2, <4>1 DEF Built
    <3> QED
      BY <3>1, <3>2, <3>3
  <2>5. T(h, m + 1)
    BY <2>1, <2>2, <2>3, <2>4 DEF Built
  <2> QED
    BY <2>5
<1>4. N \in S
  <2> HIDE DEF S, N
  <2>1. \A m \in 0..N : m \in S
    BY <1>1, <1>2, <1>3, Upwards
  <2> QED
    BY <1>1, <2>1
<1>5. PICK f : T(f, N)
  BY <1>4
<1>6. f = Layers(f, par)
  <2>1. DOMAIN f = 0..N /\ \A n \in 0..N : f[n] = Layers(f, par)[n]
    BY <1>5 DEF Built, Layers
  <2>2. Layers(f, par) = [n \in 0..N |-> Layers(f, par)[n]]
    BY DEF Layers
  <2> QED
    BY <1>5, <2>1, <2>2
<1> DEFINE k == CHOOSE h : h = Layers(h, par)
<1>7. k = Layers(k, par)
  BY <1>6
<1>8. Recovered(par) = k[N][Root][1].done
  <2> DEFINE L(h) == [levels \in 0..Cardinality(DOMAIN par) |->
               [p \in DOMAIN par \union {Root} |-> [left \in Nat |->
                 IF levels = 0 THEN [next |-> left, done |-> <<>>]
                 ELSE InTurn(ByKey({i \in DOMAIN par : par[i] = p}), left,
                             Cardinality(DOMAIN par) - levels, h[levels - 1])]]]
  <2>1. Recovered(par) = (CHOOSE h : h = L(h))[N][Root][1].done
    BY DEF Recovered
  <2>2. \A h : L(h) = Layers(h, par)
    BY DEF Layers, Layer, KidsOf
  <2> HIDE DEF L
  <2> QED
    BY <2>1, <2>2
<1> HIDE DEF k
<1>9. Built(k, par, N)
  BY <1>7 DEF Built, Layers
<1> QED
  BY <1>8, <1>9

-----------------------------------------------------------------------------
(* Ways from a root down to a row, by the parent links par.                 *)
Way(par, f, e, i) ==
  /\ e \in Nat /\ f[e] = i /\ par[f[0]] = Root
  /\ \A k \in 0..e : f[k] \in DOMAIN par
  /\ \A k \in 1..e : par[f[k]] = f[k - 1]
Through(par, i, e, c, d) == d \in 0..e /\ \E f : Way(par, f, e, i) /\ f[d] = c

(* A row has one way up to a root,                                          *)
LEMMA OneWay ==
  ASSUME NEW par, DOMAIN par \subseteq Ids, NEW i, NEW e1, NEW e2, NEW f, NEW g,
         Way(par, f, e1, i), Way(par, g, e2, i)
  PROVE  e1 = e2 /\ \A k \in 0..e1 : f[k] = g[k]
<1> DEFINE D == DOMAIN par
<1>0. e1 \in Nat /\ e2 \in Nat /\ Root \notin D
  BY DEF Way, Ids, Root
<1> SUFFICES ASSUME NEW x \in Nat, NEW y \in Nat, NEW p, NEW q, x <= y,
                    Way(par, p, x, i), Way(par, q, y, i)
             PROVE  x = y /\ \A k \in 0..x : p[k] = q[k]
  <2>1. CASE e1 <= e2
    BY <1>0, <2>1
  <2>2. CASE e2 <= e1
    BY <1>0, <2>2
  <2> QED
    BY <1>0, <2>1, <2>2
<1> DEFINE S == {k \in 0..x : p[x - k] = q[y - k]}
<1>1. 0 \in S
  BY DEF Way
<1>2. \A k \in 0..(x - 1) : k \in S => k + 1 \in S
  <2> SUFFICES ASSUME NEW k \in 0..(x - 1), p[x - k] = q[y - k] PROVE p[x - (k + 1)] = q[y - (k + 1)]
    BY <1>0
  <2>1. x - k \in 1..x /\ y - k \in 1..y /\ (x - k) - 1 = x - (k + 1) /\ (y - k) - 1 = y - (k + 1)
    BY <1>0
  <2> QED
    BY <2>1 DEF Way
<1>3. \A k \in 0..x : k \in S
  <2> HIDE DEF S
  <2> QED
    BY <1>1, <1>2, Upwards
<1>4. x = y
  <2> SUFFICES ASSUME x < y PROVE FALSE
    OBVIOUS
  <2>1. x \in 0..x /\ x - x = 0 /\ y - x \in 1..y /\ y - x - 1 \in 0..y
    OBVIOUS
  <2>2. p[0] = q[y - x]
    BY <1>3, <2>1
  <2>3. par[q[y - x]] \in D /\ par[p[0]] = Root
    BY <2>1 DEF Way
  <2> QED
    BY <1>0, <2>2, <2>3
<1>5. ASSUME NEW k \in 0..x PROVE p[k] = q[k]
  <2>1. x - k \in 0..x /\ x - (x - k) = k /\ y - (x - k) = k
    BY <1>4
  <2> QED
    BY <1>3, <2>1
<1> QED
  BY <1>4, <1>5

(* and passes one node at each depth on it.                                 *)
LEMMA OneThrough ==
  ASSUME NEW par, DOMAIN par \subseteq Ids, NEW i, NEW e1, NEW e2, NEW c1, NEW c2, NEW d,
         Through(par, i, e1, c1, d), Through(par, i, e2, c2, d)
  PROVE  e1 = e2 /\ c1 = c2
<1>1. PICK f : Way(par, f, e1, i) /\ f[d] = c1
  BY DEF Through
<1>2. PICK g : Way(par, g, e2, i) /\ g[d] = c2
  BY DEF Through
<1>3. d \in 0..e1
  BY DEF Through
<1>4. e1 = e2 /\ \A k \in 0..e1 : f[k] = g[k]
  BY <1>1, <1>2, OneWay
<1> QED
  BY <1>1, <1>2, <1>3, <1>4

(* Rows t that take up the numbers from lo up to hi: the nodes C, of depth  *)
(* d, and what is below them.                                               *)
Below(t, par, i) ==
  /\ par[i] \in DOMAIN t /\ In(t, i, par[i]) /\ t[i].depth = t[par[i]].depth + 1
  /\ \A j \in DOMAIN t : In(t, i, j) => j = par[i] \/ In(t, par[i], j)
Patch(t, par, lo, hi, d, C) ==
  /\ lo \in Nat /\ hi \in Nat /\ lo <= hi /\ d \in Nat
  /\ DOMAIN t \subseteq DOMAIN par
  /\ \A i \in DOMAIN t : /\ t[i].lft \in Nat /\ t[i].rght \in Nat /\ t[i].depth \in Nat
                         /\ lo <= t[i].lft /\ t[i].lft < t[i].rght /\ t[i].rght < hi
  /\ Laminar(t)
  /\ \A v \in lo..(hi - 1) : \E i \in DOMAIN t : t[i].lft = v \/ t[i].rght = v
  /\ \A i \in DOMAIN t : i \in C => t[i].depth = d /\ \A j \in DOMAIN t : ~In(t, i, j)
  /\ \A i \in DOMAIN t : i \notin C => Below(t, par, i)
  /\ \A i \in DOMAIN t : \E c \in C : Through(par, i, t[i].depth, c, d)
  /\ \A c \in C : Through(par, c, d, c, d)
  /\ \A i, e, c : /\ e \in 0..(Cardinality(DOMAIN par) - 1)
                  /\ c \in C /\ Through(par, i, e, c, d)
                  => i \in DOMAIN t

(* A node around the numbering of what is below it numbers itself.          *)
LEMMA PatchWraps ==
  ASSUME NEW par, DOMAIN par \subseteq Ids, Cardinality(DOMAIN par) \in Nat, NEW c \in DOMAIN par,
         NEW d, NEW lo \in Nat, NEW hi, NEW v, Through(par, c, d, c, d),
         Patch(v, par, lo + 1, hi, d + 1, {i \in DOMAIN par : par[i] = c}),
         d \in Nat,
         NEW t, DOMAIN t = DOMAIN v \union {c},
         \A i \in DOMAIN v : t[i].lft = v[i].lft /\ t[i].rght = v[i].rght /\ t[i].depth = v[i].depth,
         c \notin DOMAIN v => t[c].lft = lo /\ t[c].rght = hi /\ t[c].depth = d
  PROVE  c \notin DOMAIN v /\ Patch(t, par, lo, hi + 1, d, {c})
<1> DEFINE K == {i \in DOMAIN par : par[i] = c}
<1>1. /\ hi \in Nat /\ lo + 1 <= hi
      /\ DOMAIN v \subseteq DOMAIN par
      /\ \A i \in DOMAIN v : /\ v[i].lft \in Nat /\ v[i].rght \in Nat /\ v[i].depth \in Nat
                             /\ lo + 1 <= v[i].lft /\ v[i].lft < v[i].rght /\ v[i].rght < hi
      /\ Laminar(v)
      /\ \A x \in (lo + 1)..(hi - 1) : \E i \in DOMAIN v : v[i].lft = x \/ v[i].rght = x
  BY DEF Patch
<1>2. /\ \A i \in DOMAIN v : i \in K => v[i].depth = d + 1 /\ \A j \in DOMAIN v : ~In(v, i, j)
      /\ \A i \in DOMAIN v : i \notin K => Below(v, par, i)
      /\ \A i \in DOMAIN v : \E k \in K : Through(par, i, v[i].depth, k, d + 1)
  BY DEF Patch
<1>3. \A i, e, k : e \in 0..(Cardinality(DOMAIN par) - 1) /\ k \in K /\ Through(par, i, e, k, d + 1)
                   => i \in DOMAIN v
  BY DEF Patch
<1>4. c \notin DOMAIN v
  <2> SUFFICES ASSUME c \in DOMAIN v PROVE FALSE
    OBVIOUS
  <2>1. PICK k \in K : Through(par, c, v[c].depth, k, d + 1)
    BY <1>2
  <2>2. PICK f : Way(par, f, v[c].depth, c)
    BY <2>1 DEF Through
  <2>3. PICK g : Way(par, g, d, c)
    BY DEF Through
  <2>4. v[c].depth = d
    BY <2>2, <2>3, OneWay
  <2>5. d + 1 \in 0..v[c].depth
    BY <2>1 DEF Through
  <2> QED
    BY <2>4, <2>5
<1>5. t[c].lft = lo /\ t[c].rght = hi /\ t[c].depth = d
  BY <1>4
<1>6. \A i, j \in DOMAIN v : (In(t, i, j) <=> In(v, i, j)) /\ (Apart(t, i, j) <=> Apart(v, i, j))
  BY DEF In, IsInside, Apart
<1>7. \A i \in DOMAIN v : In(t, i, c) /\ ~In(t, c, i)
  BY <1>1, <1>5 DEF In, IsInside
<1>8. Laminar(t)
  BY <1>1, <1>6, <1>7 DEF Laminar
<1>9. \A i \in DOMAIN t : /\ t[i].lft \in Nat /\ t[i].rght \in Nat /\ t[i].depth \in Nat
                          /\ lo <= t[i].lft /\ t[i].lft < t[i].rght /\ t[i].rght < hi + 1
  BY <1>1, <1>5
<1>10. \A x \in lo..(hi + 1 - 1) : \E i \in DOMAIN t : t[i].lft = x \/ t[i].rght = x
  <2> TAKE x \in lo..(hi + 1 - 1)
  <2>1. CASE x = lo \/ x = hi
    BY <1>5, <2>1
  <2>2. CASE x # lo /\ x # hi
    <3>1. x \in (lo + 1)..(hi - 1)
      BY <1>1, <2>2
    <3> QED
      BY <1>1, <3>1
  <2> QED
    BY <2>1, <2>2
<1>11. ~In(t, c, c)
  BY <1>1, <1>5 DEF In, IsInside
<1>12. ASSUME NEW i \in DOMAIN v PROVE Below(t, par, i)
  <2>1. CASE i \in K
    <3>1. par[i] = c /\ In(t, i, c) /\ t[i].depth = t[c].depth + 1
      BY <1>2, <1>5, <1>7, <2>1
    <3>2. \A j \in DOMAIN t : In(t, i, j) => j = c
      BY <1>2, <1>6, <2>1
    <3> QED
      BY <3>1, <3>2 DEF Below
  <2>2. CASE i \notin K
    <3>1. /\ par[i] \in DOMAIN v /\ In(v, i, par[i]) /\ v[i].depth = v[par[i]].depth + 1
          /\ \A j \in DOMAIN v : In(v, i, j) => j = par[i] \/ In(v, par[i], j)
      BY <1>2, <2>2 DEF Below
    <3>2. In(t, i, par[i]) /\ t[i].depth = t[par[i]].depth + 1 /\ par[i] \in DOMAIN t
      BY <1>6, <3>1
    <3>3. \A j \in DOMAIN t : In(t, i, j) => j = par[i] \/ In(t, par[i], j)
      BY <1>6, <1>7, <3>1
    <3> QED
      BY <3>2, <3>3 DEF Below
  <2> QED
    BY <2>1, <2>2
<1>13. ASSUME NEW i \in DOMAIN v PROVE Through(par, i, t[i].depth, c, d)
  <2>1. PICK k \in K : Through(par, i, v[i].depth, k, d + 1)
    BY <1>2
  <2>2. PICK f : Way(par, f, v[i].depth, i) /\ f[d + 1] = k
    BY <2>1 DEF Through
  <2>3. d + 1 \in 1..v[i].depth /\ d \in 0..v[i].depth /\ (d + 1) - 1 = d
    BY <1>1, <2>1 DEF Through
  <2>4. f[d] = c
    BY <2>2, <2>3 DEF Way
  <2> QED
    BY <2>2, <2>3, <2>4 DEF Through
<1>14. ASSUME NEW i, NEW e \in 0..(Cardinality(DOMAIN par) - 1), Through(par, i, e, c, d)
       PROVE  i \in DOMAIN t
  <2>1. PICK f : Way(par, f, e, i) /\ f[d] = c
    BY <1>14 DEF Through
  <2>2. d \in 0..e /\ e \in Nat
    BY <1>14 DEF Through, Way
  <2>3. CASE d = e
    BY <2>1, <2>3 DEF Way
  <2>4. CASE d # e
    <3>1. d + 1 \in 1..e /\ d + 1 \in 0..e /\ (d + 1) - 1 = d
      BY <2>2, <2>4
    <3>2. f[d + 1] \in DOMAIN par /\ par[f[d + 1]] = c
      BY <2>1, <3>1 DEF Way
    <3>3. Through(par, i, e, f[d + 1], d + 1)
      BY <2>1, <3>1 DEF Through
    <3>4. f[d + 1] \in K
      BY <3>2
    <3> QED
      BY <1>3, <3>3, <3>4
  <2> QED
    BY <2>3, <2>4
<1>15. Patch(t, par, lo, hi + 1, d, {c})
  <2> HIDE DEF K
  <2>1. lo <= hi + 1 /\ hi + 1 \in Nat /\ DOMAIN t \subseteq DOMAIN par
    BY <1>1
  <2>2. \A i \in DOMAIN t : i \in {c} => t[i].depth = d /\ \A j \in DOMAIN t : ~In(t, i, j)
    BY <1>5, <1>7, <1>11
  <2>3. \A i \in DOMAIN t : i \notin {c} => Below(t, par, i)
    BY <1>12
  <2>4. \A i \in DOMAIN t : \E k \in {c} : Through(par, i, t[i].depth, k, d)
    BY <1>5, <1>13
  <2>5. \A i, e, k : e \in 0..(Cardinality(DOMAIN par) - 1) /\ k \in {c} /\ Through(par, i, e, k, d)
                     => i \in DOMAIN t
    BY <1>14
  <2> QED
    BY <1>8, <1>9, <1>10, <2>1, <2>2, <2>3, <2>4, <2>5 DEF Patch
<1> QED
  BY <1>4, <1>15

Extends(t, u) ==
  \A i \in DOMAIN u : t[i].lft = u[i].lft /\ t[i].rght = u[i].rght /\ t[i].depth = u[i].depth
Joins(t, t1, t2) ==
  /\ DOMAIN t = DOMAIN t1 \union DOMAIN t2 /\ Extends(t, t1)
  /\ DOMAIN t1 \intersect DOMAIN t2 = {} => Extends(t, t2)

(* Two numberings that follow each other are one.                           *)
LEMMA PatchesJoin ==
  ASSUME NEW par, DOMAIN par \subseteq Ids, NEW lo, NEW mid, NEW hi, NEW d, NEW C1, NEW C2,
         NEW t1, NEW t2, NEW t, \A c \in C1 : c \notin C2,
         Patch(t1, par, lo, mid, d, C1), Patch(t2, par, mid, hi, d, C2), Joins(t, t1, t2)
  PROVE  DOMAIN t1 \intersect DOMAIN t2 = {} /\ Patch(t, par, lo, hi, d, C1 \union C2)
<1> DEFINE N == Cardinality(DOMAIN par)
<1>0. /\ DOMAIN t = DOMAIN t1 \union DOMAIN t2 /\ Extends(t, t1)
      /\ DOMAIN t1 \intersect DOMAIN t2 = {} => Extends(t, t2)
  BY DEF Joins
<1>1. /\ lo \in Nat /\ mid \in Nat /\ hi \in Nat /\ d \in Nat /\ lo <= mid /\ mid <= hi
      /\ DOMAIN t1 \subseteq DOMAIN par /\ DOMAIN t2 \subseteq DOMAIN par
      /\ \A i \in DOMAIN t1 : /\ t1[i].lft \in Nat /\ t1[i].rght \in Nat /\ t1[i].depth \in Nat
                              /\ lo <= t1[i].lft /\ t1[i].lft < t1[i].rght /\ t1[i].rght < mid
      /\ \A i \in DOMAIN t2 : /\ t2[i].lft \in Nat /\ t2[i].rght \in Nat /\ t2[i].depth \in Nat
                              /\ mid <= t2[i].lft /\ t2[i].lft < t2[i].rght /\ t2[i].rght < hi
      /\ Laminar(t1) /\ Laminar(t2)
      /\ \A x \in lo..(mid - 1) : \E i \in DOMAIN t1 : t1[i].lft = x \/ t1[i].rght = x
      /\ \A x \in mid..(hi - 1) : \E i \in DOMAIN t2 : t2[i].lft = x \/ t2[i].rght = x
  BY DEF Patch
<1>2. /\ \A i \in DOMAIN t1 : i \in C1 => t1[i].depth = d /\ \A j \in DOMAIN t1 : ~In(t1, i, j)
      /\ \A i \in DOMAIN t1 : i \notin C1 => Below(t1, par, i)
      /\ \A i \in DOMAIN t2 : i \in C2 => t2[i].depth = d /\ \A j \in DOMAIN t2 : ~In(t2, i, j)
      /\ \A i \in DOMAIN t2 : i \notin C2 => Below(t2, par, i)
  BY DEF Patch
<1>3. /\ \A i \in DOMAIN t1 : \E c \in C1 : Through(par, i, t1[i].depth, c, d)
      /\ \A i \in DOMAIN t2 : \E c \in C2 : Through(par, i, t2[i].depth, c, d)
      /\ \A c \in C1 : Through(par, c, d, c, d)
      /\ \A c \in C2 : Through(par, c, d, c, d)
  BY DEF Patch
<1>4. /\ \A i, e, c : e \in 0..(N - 1) /\ c \in C1 /\ Through(par, i, e, c, d) => i \in DOMAIN t1
      /\ \A i, e, c : e \in 0..(N - 1) /\ c \in C2 /\ Through(par, i, e, c, d) => i \in DOMAIN t2
  BY DEF Patch
<1> HIDE DEF N
<1>5. ASSUME NEW i \in DOMAIN t1, NEW e, NEW c \in C2, Through(par, i, e, c, d) PROVE FALSE
  <2>1. PICK k \in C1 : Through(par, i, t1[i].depth, k, d)
    BY <1>3
  <2>2. k = c
    BY <1>5, <2>1, OneThrough
  <2> QED
    BY <2>1, <2>2
<1>6. ASSUME NEW i \in DOMAIN t2, NEW e, NEW c \in C1, Through(par, i, e, c, d) PROVE FALSE
  <2>1. PICK k \in C2 : Through(par, i, t2[i].depth, k, d)
    BY <1>3
  <2>2. k = c
    BY <1>6, <2>1, OneThrough
  <2> QED
    BY <2>1, <2>2
<1>7. DOMAIN t1 \intersect DOMAIN t2 = {}
  BY <1>3, <1>5
<1>8. (\A i \in DOMAIN t1 : i \notin C2) /\ (\A i \in DOMAIN t2 : i \notin C1)
  BY <1>3, <1>5, <1>6
<1>9. /\ \A i \in DOMAIN t1 : t[i].lft = t1[i].lft /\ t[i].rght = t1[i].rght /\ t[i].depth = t1[i].depth
      /\ \A i \in DOMAIN t2 : t[i].lft = t2[i].lft /\ t[i].rght = t2[i].rght /\ t[i].depth = t2[i].depth
  BY <1>0, <1>7 DEF Extends
<1>10. /\ \A i, j \in DOMAIN t1 : (In(t, i, j) <=> In(t1, i, j)) /\ (Apart(t, i, j) <=> Apart(t1, i, j))
       /\ \A i, j \in DOMAIN t2 : (In(t, i, j) <=> In(t2, i, j)) /\ (Apart(t, i, j) <=> Apart(t2, i, j))
  BY <1>9 DEF In, IsInside, Apart
<1>11. \A i \in DOMAIN t1, j \in DOMAIN t2 : ~In(t, i, j) /\ ~In(t, j, i) /\ Apart(t, i, j) /\ Apart(t, j, i)
  BY <1>1, <1>9 DEF In, IsInside, Apart
<1>12. Laminar(t)
  <2> SUFFICES ASSUME NEW i \in DOMAIN t, NEW j \in DOMAIN t, i # j
               PROVE  Apart(t, i, j) \/ In(t, i, j) \/ In(t, j, i)
    BY DEF Laminar
  <2>1. CASE i \in DOMAIN t1 /\ j \in DOMAIN t1
    BY <1>1, <1>10, <2>1 DEF Laminar
  <2>2. CASE i \in DOMAIN t2 /\ j \in DOMAIN t2
    BY <1>1, <1>10, <2>2 DEF Laminar
  <2> QED
    BY <1>0, <1>11, <2>1, <2>2
<1>13. \A i \in DOMAIN t : /\ t[i].lft \in Nat /\ t[i].rght \in Nat /\ t[i].depth \in Nat
                           /\ lo <= t[i].lft /\ t[i].lft < t[i].rght /\ t[i].rght < hi
  BY <1>0, <1>1, <1>9
<1>14. \A x \in lo..(hi - 1) : \E i \in DOMAIN t : t[i].lft = x \/ t[i].rght = x
  <2> TAKE x \in lo..(hi - 1)
  <2>1. CASE x < mid
    <3>1. x \in lo..(mid - 1)
      BY <1>1, <2>1
    <3> QED
      BY <1>0, <1>1, <1>9, <3>1
  <2>2. CASE x >= mid
    <3>1. x \in mid..(hi - 1)
      BY <1>1, <2>2
    <3> QED
      BY <1>0, <1>1, <1>9, <3>1
  <2> QED
    BY <1>1, <2>1, <2>2
<1>15. ASSUME NEW i \in DOMAIN t, i \in C1 \union C2
       PROVE  t[i].depth = d /\ \A j \in DOMAIN t : ~In(t, i, j)
  <2>1. CASE i \in DOMAIN t1
    BY <1>0, <1>2, <1>8, <1>9, <1>10, <1>11, <1>15, <2>1
  <2>2. CASE i \in DOMAIN t2
    BY <1>0, <1>2, <1>8, <1>9, <1>10, <1>11, <1>15, <2>2
  <2> QED
    BY <1>0, <1>15, <2>1, <2>2
<1>16. ASSUME NEW i \in DOMAIN t, i \notin C1 \union C2
       PROVE  Below(t, par, i)
  <2>1. CASE i \in DOMAIN t1
    <3>1. /\ par[i] \in DOMAIN t1 /\ In(t1, i, par[i]) /\ t1[i].depth = t1[par[i]].depth + 1
          /\ \A j \in DOMAIN t1 : In(t1, i, j) => j = par[i] \/ In(t1, par[i], j)
      BY <1>2, <1>16, <2>1 DEF Below
    <3>2. par[i] \in DOMAIN t /\ In(t, i, par[i]) /\ t[i].depth = t[par[i]].depth + 1
      BY <1>0, <1>9, <1>10, <2>1, <3>1
    <3>3. \A j \in DOMAIN t : In(t, i, j) => j = par[i] \/ In(t, par[i], j)
      BY <1>0, <1>10, <1>11, <2>1, <3>1
    <3> QED
      BY <3>2, <3>3 DEF Below
  <2>2. CASE i \in DOMAIN t2
    <3>1. /\ par[i] \in DOMAIN t2 /\ In(t2, i, par[i]) /\ t2[i].depth = t2[par[i]].depth + 1
          /\ \A j \in DOMAIN t2 : In(t2, i, j) => j = par[i] \/ In(t2, par[i], j)
      BY <1>2, <1>16, <2>2 DEF Below
    <3>2. par[i] \in DOMAIN t /\ In(t, i, par[i]) /\ t[i].depth = t[par[i]].depth + 1
      BY <1>0, <1>9, <1>10, <2>2, <3>1
    <3>3. \A j \in DOMAIN t : In(t, i, j) => j = par[i] \/ In(t, par[i], j)
      BY <1>0, <1>10, <1>11, <2>2, <3>1
    <3> QED
      BY <3>2, <3>3 DEF Below
  <2> QED
    BY <1>0, <2>1, <2>2
<1>17. Patch(t, par, lo, hi, d, C1 \union C2)
  <2>1. lo <= hi /\ DOMAIN t \subseteq DOMAIN par
    BY <1>0, <1>1
  <2>2. \A i \in DOMAIN t : \E c \in C1 \union C2 : Through(par, i, t[i].depth, c, d)
    BY <1>0, <1>3, <1>9
  <2>3. \A c \in C1 \union C2 : Through(par, c, d, c, d)
    BY <1>3
  <2>4. \A i, e, c : e \in 0..(N - 1) /\ c \in C1 \union C2 /\ Through(par, i, e, c, d) => i \in DOMAIN t
    BY <1>0, <1>4
  <2> QED
    BY <1>1, <1>12, <1>13, <1>14, <1>15, <1>16, <2>1, <2>2, <2>3, <2>4 DEF Patch, N
<1> QED
  BY <1>7, <1>17

(* A list q that says what t gives each member of A, once.                  *)
Entry(t, i) == [id |-> i, lft |-> t[i].lft, rght |-> t[i].rght, depth |-> t[i].depth]
Entries(t, A) == {Entry(t, i) : i \in A}
Lists(q, t, A) ==
  /\ q \in Seq(Entries(t, A))
  /\ \A i \in A : \E k \in 1..Len(q) : q[k] = Entry(t, i)
  /\ \A k, n \in 1..Len(q) : q[k] = q[n] => k = n

(* Lists of entries: two of them put together,                              *)
LEMMA ListsJoin ==
  ASSUME NEW t, NEW A1, NEW A2, A1 \intersect A2 = {}, NEW q1, NEW q2,
         Lists(q1, t, A1), Lists(q2, t, A2)
  PROVE  Lists(q1 \o q2, t, A1 \union A2)
<1> DEFINE S == Entries(t, A1 \union A2)
<1> DEFINE q == q1 \o q2
<1>1. Entries(t, A1) \subseteq S /\ Entries(t, A2) \subseteq S
  BY DEF Entries
<1>2. Entries(t, A1) \intersect Entries(t, A2) = {}
  BY DEF Entries, Entry
<1>3. q1 \in Seq(Entries(t, A1)) /\ q2 \in Seq(Entries(t, A2))
  BY DEF Lists
<1> HIDE DEF S
<1>4. q1 \in Seq(S) /\ q2 \in Seq(S) /\ Len(q1) \in Nat /\ Len(q2) \in Nat
  BY <1>1, <1>3
<1>5. /\ q \in Seq(S) /\ Len(q) = Len(q1) + Len(q2)
      /\ \A i \in 1..Len(q1) + Len(q2) : q[i] = IF i <= Len(q1) THEN q1[i] ELSE q2[i - Len(q1)]
  BY <1>4, ConcatProperties
<1>6. \A i \in 1..Len(q1) : q[i] = q1[i] /\ q[i] \in Entries(t, A1)
  BY <1>3, <1>4, <1>5
<1>7. \A i \in 1..Len(q2) : q[Len(q1) + i] = q2[i] /\ Len(q1) + i \in 1..Len(q)
  <2> TAKE i \in 1..Len(q2)
  <2>1. Len(q1) + i \in 1..Len(q1) + Len(q2) /\ ~(Len(q1) + i <= Len(q1)) /\ Len(q1) + i - Len(q1) = i
    BY <1>4
  <2> QED
    BY <1>5, <2>1
<1> HIDE DEF q
<1>8. \A k \in 1..Len(q) : k \in 1..Len(q1) \/ k - Len(q1) \in 1..Len(q2)
  BY <1>4, <1>5
<1>9. \A k \in 1..Len(q) : k - Len(q1) \in 1..Len(q2) =>
                           q[k] = q2[k - Len(q1)] /\ q[k] \in Entries(t, A2)
  BY <1>3, <1>4, <1>5, <1>7
<1>10. \A i \in A1 \union A2 : \E k \in 1..Len(q) : q[k] = Entry(t, i)
  <2> TAKE i \in A1 \union A2
  <2>1. CASE i \in A1
    <3>1. PICK k \in 1..Len(q1) : q1[k] = Entry(t, i)
      BY <2>1 DEF Lists
    <3>2. k \in 1..Len(q)
      BY <1>4, <1>5
    <3> QED
      BY <1>6, <3>1, <3>2
  <2>2. CASE i \in A2
    <3>1. PICK k \in 1..Len(q2) : q2[k] = Entry(t, i)
      BY <2>2 DEF Lists
    <3> QED
      BY <1>7, <3>1
  <2> QED
    BY <2>1, <2>2
<1>11. ASSUME NEW k \in 1..Len(q), NEW n \in 1..Len(q), q[k] = q[n]
       PROVE  k = n
  <2>1. CASE k \in 1..Len(q1) /\ n \in 1..Len(q1)
    BY <1>6, <1>11, <2>1 DEF Lists
  <2>2. CASE k \in 1..Len(q1) /\ n - Len(q1) \in 1..Len(q2)
    BY <1>2, <1>6, <1>9, <1>11, <2>2
  <2>3. CASE k - Len(q1) \in 1..Len(q2) /\ n \in 1..Len(q1)
    BY <1>2, <1>6, <1>9, <1>11, <2>3
  <2>4. CASE k - Len(q1) \in 1..Len(q2) /\ n - Len(q1) \in 1..Len(q2)
    <3>1. q2[k - Len(q1)] = q2[n - Len(q1)]
      BY <1>9, <1>11, <2>4
    <3>2. k - Len(q1) = n - Len(q1)
      BY <2>4, <3>1 DEF Lists
    <3> QED
      BY <1>4, <3>2
  <2> QED
    BY <1>8, <2>1, <2>2, <2>3, <2>4
<1> QED
  BY <1>5, <1>10, <1>11 DEF Lists, S, q

(* one with a single entry,                                                 *)
LEMMA ListsOne ==
  ASSUME NEW t, NEW i
  PROVE  Lists(<<Entry(t, i)>>, t, {i})
<1> DEFINE e == Entry(t, i)
<1>1. Entries(t, {i}) = {e}
  BY DEF Entries
<1> HIDE DEF e
<1>2. <<e>> \in Seq({e}) /\ Len(<<e>>) = 1 /\ <<e>>[1] = e
  OBVIOUS
<1>3. (\E k \in 1..Len(<<e>>) : <<e>>[k] = e) /\ \A k, n \in 1..Len(<<e>>) : k = n
  BY <1>2
<1> QED
  BY <1>1, <1>2, <1>3 DEF Lists, e

(* the empty one,                                                           *)
LEMMA ListsNone ==
  ASSUME NEW t
  PROVE  Lists(<<>>, t, {})
BY DEF Lists

(* and one that depends on the bounds and depth only.                       *)
LEMMA ListsSame ==
  ASSUME NEW t, NEW u, NEW A, NEW q, Lists(q, t, A),
         \A i \in A : t[i].lft = u[i].lft /\ t[i].rght = u[i].rght /\ t[i].depth = u[i].depth
  PROVE  Lists(q, u, A)
<1>1. \A i \in A : Entry(t, i) = Entry(u, i)
  BY DEF Entry
<1>2. Entries(t, A) = Entries(u, A)
  BY <1>1 DEF Entries
<1> QED
  BY <1>1, <1>2 DEF Lists

(* The numbers of the nodes the loop of traverse() has been through.        *)
Under(par, p) == {i \in DOMAIN par : par[i] = p}
Numbered(par, r, left, d, C) ==
  \E t : Patch(t, par, left, r.next, d, C) /\ Lists(r.done, t, DOMAIN t)

(* One turn of the loop of traverse() numbers one more child with what is   *)
(* below it.                                                                *)
LEMMA TurnNumbers ==
  ASSUME NEW par, DOMAIN par \subseteq Ids, Cardinality(DOMAIN par) \in Nat,
         NEW r, NEW left, NEW d \in Nat, NEW C, Numbered(par, r, left, d, C),
         NEW c \in DOMAIN par, c \notin C, Through(par, c, d, c, d), NEW below,
         r.next \in Nat => Numbered(par, At(below, c, r.next + 1), r.next + 1, d + 1, Under(par, c))
  PROVE  Numbered(par, After(r, c, below, d), left, d, C \union {c})
<1> DEFINE lo == r.next
<1> DEFINE b == At(below, c, lo + 1)
<1> DEFINE hi == b.next
<1>1. PICK t1 : Patch(t1, par, left, lo, d, C) /\ Lists(r.done, t1, DOMAIN t1)
  BY DEF Numbered
<1>2. lo \in Nat
  BY <1>1 DEF Patch
<1>3. PICK v : Patch(v, par, lo + 1, hi, d + 1, Under(par, c)) /\ Lists(b.done, v, DOMAIN v)
  BY <1>2 DEF Numbered
<1>4. After(r, c, below, d) = [next |-> hi + 1,
                               done |-> r.done \o b.done \o <<[id |-> c, lft |-> lo, rght |-> hi, depth |-> d]>>]
  BY DEF After
<1> HIDE DEF lo, hi, b
<1> DEFINE t2 == [i \in DOMAIN v \union {c} |-> IF i \in DOMAIN v THEN v[i]
                                                ELSE [lft |-> lo, rght |-> hi, depth |-> d]]
<1>5. /\ DOMAIN t2 = DOMAIN v \union {c} /\ \A i \in DOMAIN v : t2[i] = v[i]
      /\ c \notin DOMAIN v => t2[c].lft = lo /\ t2[c].rght = hi /\ t2[c].depth = d
  OBVIOUS
<1> HIDE DEF t2
<1>6. c \notin DOMAIN v /\ Patch(t2, par, lo, hi + 1, d, {c})
  <2>1. Patch(v, par, lo + 1, hi, d + 1, {i \in DOMAIN par : par[i] = c})
    BY <1>3 DEF Under
  <2>2. \A i \in DOMAIN v : t2[i].lft = v[i].lft /\ t2[i].rght = v[i].rght /\ t2[i].depth = v[i].depth
    BY <1>5
  <2> QED
    BY <1>2, <1>5, <2>1, <2>2, PatchWraps
<1> DEFINE t == [i \in DOMAIN t1 \union DOMAIN t2 |-> IF i \in DOMAIN t1 THEN t1[i] ELSE t2[i]]
<1>7. /\ DOMAIN t = DOMAIN t1 \union DOMAIN t2 /\ \A i \in DOMAIN t1 : t[i] = t1[i]
      /\ DOMAIN t1 \intersect DOMAIN t2 = {} => \A i \in DOMAIN t2 : t[i] = t2[i]
  OBVIOUS
<1> HIDE DEF t
<1>8. DOMAIN t1 \intersect DOMAIN t2 = {} /\ Patch(t, par, left, hi + 1, d, C \union {c})
  <2>1. Joins(t, t1, t2)
    BY <1>7 DEF Joins, Extends
  <2> DEFINE end == hi + 1
  <2> DEFINE C2 == {c}
  <2>3. \A x \in C : x \notin C2
    OBVIOUS
  <2>4. Patch(t1, par, left, lo, d, C) /\ Patch(t2, par, lo, end, d, C2)
    BY <1>1, <1>6
  <2> HIDE DEF end, C2
  <2>5. DOMAIN t1 \intersect DOMAIN t2 = {} /\ Patch(t, par, left, end, d, C \union C2)
    BY <2>1, <2>3, <2>4, PatchesJoin
  <2> QED
    BY <2>5 DEF end, C2
<1>9. Lists(r.done, t, DOMAIN t1)
  BY <1>1, <1>7, ListsSame
<1>10. Lists(b.done, t, DOMAIN v)
  <2>1. \A i \in DOMAIN v : t[i] = v[i]
    BY <1>5, <1>7, <1>8
  <2> QED
    BY <1>3, <2>1, ListsSame
<1>11. Lists(<<[id |-> c, lft |-> lo, rght |-> hi, depth |-> d]>>, t, {c})
  <2>1. Entry(t, c) = [id |-> c, lft |-> lo, rght |-> hi, depth |-> d]
    BY <1>5, <1>6, <1>7, <1>8 DEF Entry
  <2>2. Lists(<<Entry(t, c)>>, t, {c})
    BY ListsOne
  <2> QED
    BY <2>1, <2>2
<1>12. DOMAIN t1 \intersect DOMAIN v = {} /\ (DOMAIN t1 \union DOMAIN v) \intersect {c} = {}
       /\ (DOMAIN t1 \union DOMAIN v) \union {c} = DOMAIN t
  BY <1>5, <1>6, <1>7, <1>8
<1>13. Lists(r.done \o b.done, t, DOMAIN t1 \union DOMAIN v)
  BY <1>9, <1>10, <1>12, ListsJoin
<1>14. Lists((r.done \o b.done) \o <<[id |-> c, lft |-> lo, rght |-> hi, depth |-> d]>>, t, DOMAIN t)
  <2>1. Lists((r.done \o b.done) \o <<[id |-> c, lft |-> lo, rght |-> hi, depth |-> d]>>, t,
              (DOMAIN t1 \union DOMAIN v) \union {c})
    BY <1>11, <1>12, <1>13, ListsJoin
  <2> QED
    BY <1>12, <2>1
<1> QED
  BY <1>4, <1>8, <1>14 DEF Numbered

(* Nothing to number: no children, or nodes as deep as there are rows.      *)
LEMMA NoneNumbered ==
  ASSUME NEW par, NEW left \in Nat, NEW d \in Nat, NEW C, NEW r, r = [next |-> left, done |-> <<>>],
         C = {} \/ (d = Cardinality(DOMAIN par) /\ \A c \in C : Through(par, c, d, c, d))
  PROVE  Numbered(par, r, left, d, C)
<1> DEFINE t == [i \in {} |-> 0]
<1>1. DOMAIN t = {}
  OBVIOUS
<1> HIDE DEF t
<1>2. \A v \in left..(left - 1) : FALSE
  OBVIOUS
<1>3. \A c \in C : Through(par, c, d, c, d)
  OBVIOUS
<1>4. \A i, e, c : ~(e \in 0..(Cardinality(DOMAIN par) - 1) /\ c \in C /\ Through(par, i, e, c, d))
  <2> SUFFICES ASSUME NEW i, NEW e \in 0..(Cardinality(DOMAIN par) - 1), NEW c \in C, Through(par, i, e, c, d)
               PROVE  FALSE
    OBVIOUS
  <2>1. d \in 0..e
    BY DEF Through
  <2> QED
    BY <2>1
<1>5. Patch(t, par, left, left, d, C)
  BY <1>1, <1>2, <1>3, <1>4 DEF Patch, Laminar
<1>6. Lists(<<>>, t, {})
  BY ListsNone
<1> QED
  BY <1>1, <1>5, <1>6 DEF Numbered

(* The whole loop numbers all the children.                                 *)
LEMMA LoopNumbers ==
  ASSUME NEW par, DOMAIN par \subseteq Ids, Cardinality(DOMAIN par) \in Nat,
         NEW nodes \in Seq(DOMAIN par), \A k, n \in 1..Len(nodes) : nodes[k] = nodes[n] => k = n,
         NEW left \in Nat, NEW d \in Nat, \A k \in 1..Len(nodes) : Through(par, nodes[k], d, nodes[k], d),
         NEW below,
         \A c \in DOMAIN par, lo \in Nat :
            Through(par, c, d, c, d) => Numbered(par, At(below, c, lo), lo, d + 1, Under(par, c))
  PROVE  Numbered(par, InTurn(nodes, left, d, below), left, d, {nodes[k] : k \in 1..Len(nodes)})
<1> DEFINE N == Len(nodes)
<1>1. PICK h : Turns(h, nodes, left, d, below, N) /\ InTurn(nodes, left, d, below) = h[N]
  BY InTurnLoops
<1> DEFINE Seen(m) == {nodes[k] : k \in 1..m}
<1> DEFINE P(m) == Numbered(par, h[m], left, d, Seen(m))
<1> DEFINE S == {m \in 0..N : P(m)}
<1>2. N \in Nat
  BY LenProperties
<1>3. 0 \in S
  <2>1. Seen(0) = {}
    OBVIOUS
  <2>2. h[0] = [next |-> left, done |-> <<>>]
    BY <1>1 DEF Turns
  <2> HIDE DEF Seen
  <2>3. Numbered(par, h[0], left, d, {})
    BY <2>2, NoneNumbered
  <2>4. P(0)
    BY <2>1, <2>3
  <2> HIDE DEF P
  <2> QED
    BY <1>2, <2>4
<1>4. \A m \in 0..(N - 1) : m \in S => m + 1 \in S
  <2> SUFFICES ASSUME NEW m \in 0..(N - 1), P(m)
               PROVE  P(m + 1)
    <3> HIDE DEF P
    <3> QED
      BY <1>2
  <2>0. m + 1 \in 1..N /\ (m + 1) - 1 = m
    BY <1>2
  <2> DEFINE c == nodes[m + 1]
  <2>1. h[m + 1] = After(h[m], c, below, d)
    BY <1>1, <2>0 DEF Turns
  <2>2. c \in DOMAIN par /\ Through(par, c, d, c, d)
    BY <2>0
  <2>3. c \notin Seen(m)
    <3> SUFFICES ASSUME NEW k \in 1..m, nodes[k] = nodes[m + 1] PROVE FALSE
      OBVIOUS
    <3>1. k \in 1..N /\ k # m + 1
      BY <1>2
    <3> QED
      BY <2>0, <3>1
  <2>4. Seen(m + 1) = Seen(m) \union {c}
    <3>1. 1..(m + 1) = (1..m) \union {m + 1}
      BY <1>2
    <3> QED
      BY <3>1
  <2> HIDE DEF c, Seen
  <2>5. h[m].next \in Nat => Numbered(par, At(below, c, h[m].next + 1), h[m].next + 1, d + 1, Under(par, c))
    BY <2>2
  <2>6. Numbered(par, After(h[m], c, below, d), left, d, Seen(m) \union {c})
    BY <2>2, <2>3, <2>5, TurnNumbers
  <2> QED
    BY <2>1, <2>4, <2>6
<1>5. N \in S
  <2> HIDE DEF S, N
  <2>1. \A m \in 0..N : m \in S
    BY <1>2, <1>3, <1>4, Upwards
  <2> QED
    BY <1>2, <2>1
<1> QED
  BY <1>1, <1>5

(* What a layer of the recursive function is at one node and number.        *)
LEMMA LayerAt ==
  ASSUME NEW par, NEW n, NEW g, NEW p \in DOMAIN par \union {Root}, NEW left \in Nat
  PROVE  At(Layer(par, n, g), p, left) =
           IF n = 0 THEN [next |-> left, done |-> <<>>]
           ELSE InTurn(KidsOf(par, p), left, Cardinality(DOMAIN par) - n, g)
BY DEF Layer, At

(* Each layer numbers what is below a node at its depth.                    *)
LEMMA LayerNumbers ==
  ASSUME NEW par, DOMAIN par \subseteq Ids, IsFiniteSet(DOMAIN par), NEW f, NEW N, N = Cardinality(DOMAIN par),
         Built(f, par, N)
  PROVE  \A n \in 0..N : \A p \in DOMAIN par \union {Root}, left \in Nat :
           (\A c \in Under(par, p) : Through(par, c, N - n, c, N - n))
             => Numbered(par, At(f[n], p, left), left, N - n, Under(par, p))
<1>1. N \in Nat
  BY FS_CardinalityType
<1> DEFINE Heads(p, d) == \A c \in Under(par, p) : Through(par, c, d, c, d)
<1> DEFINE S == {n \in 0..N : \A p \in DOMAIN par \union {Root}, left \in Nat :
                   Heads(p, N - n) => Numbered(par, At(f[n], p, left), left, N - n, Under(par, p))}
<1>2. \A n \in 0..N : \A p \in DOMAIN par \union {Root}, left \in Nat :
        At(f[n], p, left) = IF n = 0 THEN [next |-> left, done |-> <<>>]
                        ELSE InTurn(KidsOf(par, p), left, N - n, f[n - 1])
  <2>1. \A n \in 0..N : f[n] = Layer(par, n, f[n - 1])
    BY DEF Built
  <2> TAKE n \in 0..N
  <2> TAKE p \in DOMAIN par \union {Root}, left \in Nat
  <2>2. At(Layer(par, n, f[n - 1]), p, left) =
          IF n = 0 THEN [next |-> left, done |-> <<>>]
          ELSE InTurn(KidsOf(par, p), left, Cardinality(DOMAIN par) - n, f[n - 1])
    BY LayerAt
  <2> QED
    BY <2>1, <2>2
<1>3. 0 \in S
  <2> SUFFICES ASSUME NEW p \in DOMAIN par \union {Root}, NEW left \in Nat, Heads(p, N - 0)
               PROVE  Numbered(par, At(f[0], p, left), left, N - 0, Under(par, p))
    BY <1>1
  <2>1. At(f[0], p, left) = [next |-> left, done |-> <<>>] /\ N - 0 = N
    BY <1>1, <1>2
  <2>2. \A c \in Under(par, p) : Through(par, c, N, c, N)
    BY <2>1
  <2>3. Numbered(par, At(f[0], p, left), left, N, Under(par, p))
    BY <1>1, <2>1, <2>2, NoneNumbered
  <2> QED
    BY <2>1, <2>3
<1>4. \A m \in 0..(N - 1) : m \in S => m + 1 \in S
  <2> SUFFICES ASSUME NEW m \in 0..(N - 1), m \in S,
                      NEW p \in DOMAIN par \union {Root}, NEW left \in Nat, Heads(p, N - (m + 1))
               PROVE  Numbered(par, At(f[m + 1], p, left), left, N - (m + 1), Under(par, p))
    BY <1>1
  <2> DEFINE d == N - (m + 1)
  <2>1. d \in Nat /\ d + 1 = N - m /\ m + 1 \in 0..N /\ m + 1 # 0 /\ (m + 1) - 1 = m
    BY <1>1
  <2>2. At(f[m + 1], p, left) = InTurn(KidsOf(par, p), left, d, f[m])
    BY <1>2, <2>1
  <2>3. \A c \in Under(par, p) : Through(par, c, d, c, d)
    OBVIOUS
  <2>4. \A c \in DOMAIN par, lo \in Nat :
            Heads(c, d + 1) => Numbered(par, At(f[m], c, lo), lo, d + 1, Under(par, c))
    BY <2>1
  <2> HIDE DEF d
  <2> DEFINE nodes == KidsOf(par, p)
  <2>5. Listed(nodes, Under(par, p))
    <3>1. Under(par, p) \in SUBSET DOMAIN par /\ Under(par, p) \subseteq Nat
      BY DEF Under, Ids
    <3>2. IsFiniteSet(Under(par, p))
      BY <3>1, FS_Subset
    <3>3. nodes = ByKey(Under(par, p))
      BY DEF KidsOf, Under
    <3> QED
      BY <3>1, <3>2, <3>3, ByKeyLists
  <2> HIDE DEF nodes
  <2>6. \A k \in 1..Len(nodes) : nodes[k] \in Under(par, p)
    BY <2>5 DEF Listed
  <2>7. {nodes[k] : k \in 1..Len(nodes)} = Under(par, p)
    BY <2>5, <2>6, SMTT(90) DEF Listed
  <2>8. nodes \in Seq(DOMAIN par)
    BY <2>5 DEF Under, Listed
  <2>9. ASSUME NEW c \in DOMAIN par, NEW lo \in Nat, Through(par, c, d, c, d)
        PROVE  Numbered(par, At(f[m], c, lo), lo, d + 1, Under(par, c))
    <3>1. PICK w : Way(par, w, d, c)
      BY <2>9 DEF Through
    <3>2. ASSUME NEW x \in Under(par, c) PROVE Through(par, x, d + 1, x, d + 1)
      <4> DEFINE g == [k \in 0..(d + 1) |-> IF k = d + 1 THEN x ELSE w[k]]
      <4>1. g[d + 1] = x /\ \A k \in 0..d : g[k] = w[k]
        BY <2>1
      <4> HIDE DEF g
      <4>2. /\ d + 1 \in Nat /\ d + 1 \in 0..(d + 1) /\ 0 \in 0..d
            /\ \A k \in 0..(d + 1) : k \in 0..d \/ k = d + 1
            /\ \A k \in 1..(d + 1) : k \in 1..d \/ k = d + 1
            /\ \A k \in 1..d : k \in 0..d /\ k - 1 \in 0..d
            /\ d \in 0..d /\ (d + 1) - 1 = d
        BY <2>1
      <4>3. x \in DOMAIN par /\ par[x] = c
        BY DEF Under
      <4>4. w[d] = c /\ par[w[0]] = Root /\ (\A k \in 0..d : w[k] \in DOMAIN par)
            /\ \A k \in 1..d : par[w[k]] = w[k - 1]
        BY <3>1 DEF Way
      <4>5. Way(par, g, d + 1, x)
        BY <4>1, <4>2, <4>3, <4>4 DEF Way
      <4> QED
        BY <4>1, <4>2, <4>5 DEF Through
    <3> QED
      BY <2>4, <3>2
  <2>10. \A k \in 1..Len(nodes) : Through(par, nodes[k], d, nodes[k], d)
    BY <2>3, <2>6
  <2>11. Numbered(par, InTurn(nodes, left, d, f[m]), left, d, {nodes[k] : k \in 1..Len(nodes)})
    <3>1. Cardinality(DOMAIN par) \in Nat /\ DOMAIN par \subseteq Ids /\ left \in Nat /\ d \in Nat
      BY <1>1, <2>1
    <3>2. \A k, n \in 1..Len(nodes) : nodes[k] = nodes[n] => k = n
      BY <2>5 DEF Listed
    <3> DEFINE g == f[m]
    <3>3. \A c \in DOMAIN par, lo \in Nat :
            Through(par, c, d, c, d) => Numbered(par, At(g, c, lo), lo, d + 1, Under(par, c))
      BY <2>9
    <3> HIDE DEF g
    <3>4. Numbered(par, InTurn(nodes, left, d, g), left, d, {nodes[k] : k \in 1..Len(nodes)})
      BY ONLY <2>8, <2>10, <3>1, <3>2, <3>3, LoopNumbers, ZenonT(90)
    <3> QED
      BY <3>4 DEF g
  <2> QED
    BY <2>2, <2>7, <2>11 DEF d, nodes
<1>5. \A n \in 0..N : n \in S
  <2> HIDE DEF S
  <2> QED
    BY <1>1, <1>3, <1>4, Upwards
<1> QED
  BY <1>5

(* recover() numbers exactly the rows a root leads to, without a gap.       *)
LEMMA RecoveredLists ==
  ASSUME NEW par, DOMAIN par \subseteq Ids, IsFiniteSet(DOMAIN par)
  PROVE  \E t, hi : Patch(t, par, 1, hi, 0, Under(par, Root)) /\ Lists(Recovered(par), t, DOMAIN t)
<1> DEFINE N == Cardinality(DOMAIN par)
<1>1. N \in Nat
  BY FS_CardinalityType
<1>2. PICK f : Built(f, par, N) /\ Recovered(par) = f[N][Root][1].done
  BY <1>1, RecoveredBuilds
<1>3. ASSUME NEW c \in Under(par, Root) PROVE Through(par, c, 0, c, 0)
  <2> DEFINE g == [k \in 0..0 |-> c]
  <2>1. g[0] = c /\ \A k \in 1..0 : FALSE
    OBVIOUS
  <2> HIDE DEF g
  <2>2. c \in DOMAIN par /\ par[c] = Root
    BY DEF Under
  <2>3. Way(par, g, 0, c)
    BY <2>1, <2>2 DEF Way
  <2> QED
    BY <2>1, <2>3 DEF Through
<1> HIDE DEF N
<1>4. N - N = 0 /\ N \in 0..N /\ Root \in DOMAIN par \union {Root} /\ 1 \in Nat
  BY <1>1
<1>5. \A n \in 0..N : \A p \in DOMAIN par \union {Root}, left \in Nat :
           (\A c \in Under(par, p) : Through(par, c, N - n, c, N - n))
             => Numbered(par, At(f[n], p, left), left, N - n, Under(par, p))
  BY <1>2, LayerNumbers DEF N
<1>6. (\A c \in Under(par, Root) : Through(par, c, N - N, c, N - N))
        => Numbered(par, At(f[N], Root, 1), 1, N - N, Under(par, Root))
  BY <1>4, <1>5
<1>7. Numbered(par, At(f[N], Root, 1), 1, 0, Under(par, Root))
  BY <1>3, <1>4, <1>6
<1>8. Recovered(par) = At(f[N], Root, 1).done
  BY <1>2 DEF At
<1> QED
  BY <1>7, <1>8 DEF Numbered

(* If every row got a number, the numbers are those of a sound table.       *)
LEMMA ListLength ==
  ASSUME NEW q, NEW t, NEW A, IsFiniteSet(A), Lists(q, t, A)
  PROVE  Len(q) \in Nat /\ Len(q) = Cardinality(A)
<1> DEFINE n == Len(q)
<1>1. n \in Nat /\ \A k \in 1..n : \E i \in A : q[k] = Entry(t, i)
  BY DEF Lists, Entries
<1>2. \A i \in A : \E k \in 1..n : q[k] = Entry(t, i)
  BY DEF Lists
<1>3. \A k, l \in 1..n : q[k] = q[l] => k = l
  BY DEF Lists
<1>4. \A i : Entry(t, i).id = i
  BY DEF Entry
<1> HIDE DEF n
<1> DEFINE g == [k \in 1..n |-> q[k].id]
<1>5. \A k \in 1..n : g[k] \in A /\ q[k] = Entry(t, g[k])
  BY <1>1, <1>4
<1>6. \A i \in A : \E k \in 1..n : g[k] = i
  BY <1>2, <1>4
<1>7. g \in [1..n -> A]
  BY <1>5
<1> HIDE DEF g
<1>8. \A k, l \in 1..n : g[k] = g[l] => k = l
  BY <1>3, <1>5
<1>9. g \in Bijection(1..n, A)
  BY <1>6, <1>7, <1>8 DEF Bijection, Injection, Surjection, IsInjective
<1>10. IsFiniteSet(1..n) /\ Cardinality(1..n) = n
  <2>1. Cardinality(1..n) = IF 1 > n THEN 0 ELSE n - 1 + 1
    BY <1>1, FS_Interval
  <2> QED
    BY <1>1, <2>1, FS_Interval
<1>11. Cardinality(1..n) = Cardinality(A)
  BY <1>9, <1>10, FS_Bijection DEF ExistsBijection
<1> QED
  BY <1>1, <1>10, <1>11 DEF n

(* When it numbers all the rows, the table with these numbers is sound.     *)
LEMMA Renumbered ==
  ASSUME NEW par, DOMAIN par \subseteq Ids, IsFiniteSet(DOMAIN par),
         Len(Recovered(par)) = Cardinality(DOMAIN par)
  PROVE  \E t, m : /\ Lists(Recovered(par), t, DOMAIN par)
                   /\ \A u : /\ DOMAIN u = DOMAIN par /\ Extends(u, t) /\ DOMAIN t = DOMAIN par
                             /\ \A i \in DOMAIN par : u[i].parent = par[i]
                             => Forests(u, m)
                   /\ DOMAIN t = DOMAIN par
<1>1. PICK t, hi : Patch(t, par, 1, hi, 0, Under(par, Root)) /\ Lists(Recovered(par), t, DOMAIN t)
  BY RecoveredLists
<1>2. DOMAIN t = DOMAIN par
  <2>1. DOMAIN t \in SUBSET DOMAIN par
    BY <1>1 DEF Patch
  <2>2. IsFiniteSet(DOMAIN t)
    BY <2>1, FS_Subset
  <2>3. Cardinality(DOMAIN t) = Cardinality(DOMAIN par)
    BY <1>1, <2>2, ListLength
  <2> QED
    BY <2>1, <2>3, FS_Subset
<1>3. ASSUME NEW u, DOMAIN u = DOMAIN par, Extends(u, t), \A i \in DOMAIN par : u[i].parent = par[i]
      PROVE  Forests(u, hi - 1)
  <2>1. /\ hi \in Nat /\ 1 <= hi
        /\ \A i \in DOMAIN t : /\ t[i].lft \in Nat /\ t[i].rght \in Nat /\ t[i].depth \in Nat
                               /\ 1 <= t[i].lft /\ t[i].lft < t[i].rght /\ t[i].rght < hi
        /\ Laminar(t)
        /\ \A v \in 1..(hi - 1) : \E i \in DOMAIN t : t[i].lft = v \/ t[i].rght = v
    BY <1>1 DEF Patch
  <2>2. /\ \A i \in DOMAIN t : i \in Under(par, Root) => t[i].depth = 0 /\ \A j \in DOMAIN t : ~In(t, i, j)
        /\ \A i \in DOMAIN t : i \notin Under(par, Root) => Below(t, par, i)
    BY <1>1 DEF Patch
  <2>3. \A i \in DOMAIN u : u[i].lft = t[i].lft /\ u[i].rght = t[i].rght /\ u[i].depth = t[i].depth
    BY <1>2, <1>3 DEF Extends
  <2>4. \A i, j \in DOMAIN u : (In(u, i, j) <=> In(t, i, j)) /\ (Apart(u, i, j) <=> Apart(t, i, j))
    BY <2>3 DEF In, IsInside, Apart
  <2>5. Bounds(u, hi - 1)
    BY <1>2, <1>3, <2>1, <2>3 DEF Bounds
  <2>6. Laminar(u)
    BY <1>2, <1>3, <2>1, <2>4 DEF Laminar
  <2>7. Filled(u, hi - 1)
    BY SMTT(60), <1>2, <1>3, <2>1, <2>3 DEF Filled
  <2>8. ASSUME NEW i \in DOMAIN u PROVE Linked(u, i)
    <3>1. u[i].parent = par[i] /\ (i \in Under(par, Root) <=> par[i] = Root) /\ i \in DOMAIN t
      BY <1>2, <1>3 DEF Under
    <3>2. u[i].depth \in Int
      BY <2>1, <2>3, <3>1
    <3>3. CASE par[i] = Root
      <4>1. u[i].depth = 0 /\ \A j \in DOMAIN u : ~In(u, i, j)
        BY <1>2, <1>3, <2>2, <2>3, <2>4, <3>1, <3>3
      <4> QED
        BY <3>1, <3>2, <3>3, <4>1 DEF Linked
    <3>4. CASE par[i] # Root
      <4>1. Below(t, par, i)
        BY <2>2, <3>1, <3>4
      <4>2. par[i] \in DOMAIN u /\ In(u, i, par[i]) /\ u[i].depth = u[par[i]].depth + 1
        BY <1>2, <1>3, <2>3, <2>4, <3>1, <4>1 DEF Below
      <4>3. \A j \in DOMAIN u : In(u, i, j) => j = par[i] \/ In(u, par[i], j)
        BY <1>2, <1>3, <2>4, <3>1, <4>1 DEF Below
      <4> QED
        BY <3>1, <3>2, <3>4, <4>2, <4>3 DEF Linked
    <3> QED
      BY <3>3, <3>4
  <2>9. hi - 1 \in Nat
    BY <2>1
  <2> QED
    BY <1>3, <2>5, <2>6, <2>7, <2>8, <2>9 DEF Forests
<1> QED
  BY <1>1, <1>2, <1>3

(* Every row of a sound table is reached from a root, on a way no longer    *)
(* than the table.                                                          *)
Reached(par, t, m, i) ==
  \E e \in Nat : e + 1 <= t[i].lft /\ t[i].rght <= m - e /\ \E f : Way(par, f, e, i)

(* In a sound table every row has a way up to a root.                       *)
LEMMA ForestWay ==
  ASSUME NEW t, NEW m, Forests(t, m), NEW par, par = [i \in DOMAIN t |-> t[i].parent]
  PROVE  \A i \in DOMAIN t : Reached(par, t, m, i)
<1>1. /\ m \in Nat /\ DOMAIN par = DOMAIN t /\ \A i \in DOMAIN t : par[i] = t[i].parent
      /\ \A i \in DOMAIN t : /\ t[i].lft \in Nat /\ t[i].rght \in Nat /\ i # Root
                             /\ 1 <= t[i].lft /\ t[i].lft < t[i].rght /\ t[i].rght <= m
      /\ \A i \in DOMAIN t : Linked(t, i)
  BY DEF Forests, Bounds, Ids, Root
<1> DEFINE S == {v \in 0..m : \A i \in DOMAIN t : t[i].lft <= v => Reached(par, t, m, i)}
<1>2. 0 \in S
  BY <1>1
<1>3. \A v \in 0..(m - 1) : v \in S => v + 1 \in S
  <2> SUFFICES ASSUME NEW v \in 0..(m - 1), v \in S, NEW i \in DOMAIN t, t[i].lft <= v + 1
               PROVE  Reached(par, t, m, i)
    BY <1>1
  <2>1. CASE par[i] = Root
    <3> DEFINE g == [k \in 0..0 |-> i]
    <3>1. g[0] = i /\ \A k \in 1..0 : FALSE
      OBVIOUS
    <3> HIDE DEF g
    <3>2. Way(par, g, 0, i)
      BY <1>1, <2>1, <3>1 DEF Way
    <3>3. 0 + 1 <= t[i].lft /\ t[i].rght <= m - 0 /\ 0 \in Nat
      BY <1>1
    <3> QED
      BY <3>2, <3>3 DEF Reached
  <2>2. CASE par[i] # Root
    <3> DEFINE p == par[i]
    <3>1. p \in DOMAIN t /\ In(t, i, p)
      BY <1>1, <2>2 DEF Linked
    <3>2. t[p].lft < t[i].lft /\ t[i].rght < t[p].rght
      BY <3>1 DEF In, IsInside
    <3>3. Reached(par, t, m, p)
      BY <1>1, <3>1, <3>2
    <3>4. PICK e, f : e \in Nat /\ e + 1 <= t[p].lft /\ t[p].rght <= m - e /\ Way(par, f, e, p)
      BY <3>3 DEF Reached
    <3> HIDE DEF p
    <3> DEFINE g == [k \in 0..(e + 1) |-> IF k = e + 1 THEN i ELSE f[k]]
    <3>5. g[e + 1] = i /\ \A k \in 0..e : g[k] = f[k]
      BY <3>4
    <3> HIDE DEF g
    <3>6. /\ e + 1 \in Nat /\ 0 \in 0..e /\ e \in 0..e /\ (e + 1) - 1 = e
          /\ \A k \in 0..(e + 1) : k \in 0..e \/ k = e + 1
          /\ \A k \in 1..(e + 1) : k \in 1..e \/ k = e + 1
          /\ \A k \in 1..e : k \in 0..e /\ k - 1 \in 0..e
      BY <3>4
    <3>7. f[e] = p /\ par[f[0]] = Root /\ (\A k \in 0..e : f[k] \in DOMAIN par)
          /\ \A k \in 1..e : par[f[k]] = f[k - 1]
      BY <3>4 DEF Way
    <3>8. Way(par, g, e + 1, i)
      BY <1>1, <3>5, <3>6, <3>7 DEF Way, p
    <3>9. (e + 1) + 1 <= t[i].lft /\ t[i].rght <= m - (e + 1)
      BY <1>1, <3>1, <3>2, <3>4
    <3> QED
      BY <3>6, <3>8, <3>9 DEF Reached
  <2> QED
    BY <2>1, <2>2
<1>4. \A v \in 0..m : v \in S
  <2> HIDE DEF S
  <2> QED
    BY <1>1, <1>2, <1>3, Upwards
<1>5. m \in S
  BY <1>1, <1>4
<1> QED
  BY <1>1, <1>5

(* So recover() of a sound table leaves no row out.                         *)
LEMMA SoundRecovers ==
  ASSUME TreeAssumption, NEW t, NEW m, Forests(t, m), NEW par, par = [i \in DOMAIN t |-> t[i].parent]
  PROVE  Len(Recovered(par)) = Cardinality(DOMAIN par)
<1> DEFINE D == DOMAIN par
<1>1. /\ IsFiniteSet(D) /\ Cardinality(D) \in Nat /\ m = 2 * Cardinality(D) /\ D \subseteq Ids /\ D = DOMAIN t
      /\ \A i \in D : t[i].lft \in Nat /\ t[i].rght \in Nat /\ t[i].lft < t[i].rght
  BY Counted DEF Forests, Bounds
<1>2. PICK v, hi : Patch(v, par, 1, hi, 0, Under(par, Root)) /\ Lists(Recovered(par), v, DOMAIN v)
  BY <1>1, RecoveredLists
<1>3. ASSUME NEW i \in D PROVE i \in DOMAIN v
  <2>1. PICK e, f : e \in Nat /\ e + 1 <= t[i].lft /\ t[i].rght <= m - e /\ Way(par, f, e, i)
    BY <1>1, ForestWay DEF Reached
  <2>2. e \in 0..(Cardinality(D) - 1) /\ 0 \in 0..e
    <3>1. t[i].lft \in Nat /\ t[i].rght \in Nat /\ t[i].lft < t[i].rght /\ Cardinality(D) \in Nat
      BY <1>1
    <3> HIDE DEF D
    <3> QED
      BY <1>1, <2>1, <3>1
  <2>3. f[0] \in Under(par, Root)
    BY <2>1, <2>2 DEF Way, Under
  <2>4. Through(par, i, e, f[0], 0)
    BY <2>1, <2>2 DEF Through
  <2>5. \A j, x, c : x \in 0..(Cardinality(D) - 1) /\ c \in Under(par, Root) /\ Through(par, j, x, c, 0)
                     => j \in DOMAIN v
    BY <1>2 DEF Patch
  <2> QED
    BY <2>2, <2>3, <2>4, <2>5
<1>4. DOMAIN v = D
  BY <1>2, <1>3 DEF Patch
<1> QED
  BY <1>1, <1>2, <1>4, ListLength

-----------------------------------------------------------------------------
(* Lists of statements, one at a time.                                      *)
LEMMA LeadsSomewhere ==
  ASSUME NEW s, NEW t, NEW todo, Len(todo) \in Nat, NEW id
  PROVE  \E u : Leads(s, t, todo, id, u)
<1> DEFINE N == Len(todo)
<1> DEFINE T(f, n) == f[1] = t /\ \A k \in 1..n : f[k + 1] = Applied(s, f[k], todo[k], id)
<1> DEFINE S == {n \in 0..N : \E f : T(f, n)}
<1>1. 0 \in S
  <2> DEFINE f == [k \in 1..1 |-> t]
  <2>1. f[1] = t /\ \A k \in 1..0 : FALSE
    OBVIOUS
  <2> HIDE DEF f
  <2>2. T(f, 0)
    BY <2>1
  <2> QED
    BY <2>2
<1>2. \A m \in 0..(N - 1) : m \in S => m + 1 \in S
  <2> SUFFICES ASSUME NEW m \in 0..(N - 1), m \in S PROVE \E f : T(f, m + 1)
    OBVIOUS
  <2>1. PICK g : T(g, m)
    OBVIOUS
  <2> DEFINE f == [k \in 1..(m + 2) |-> IF k = m + 2 THEN Applied(s, g[m + 1], todo[m + 1], id) ELSE g[k]]
  <2>2. f[m + 2] = Applied(s, g[m + 1], todo[m + 1], id) /\ \A k \in 1..(m + 1) : f[k] = g[k]
    OBVIOUS
  <2> HIDE DEF f
  <2>3. f[1] = t
    <3>1. 1 \in 1..(m + 1) /\ g[1] = t
      BY <2>1
    <3> QED
      BY <2>2, <3>1
  <2>4. ASSUME NEW k \in 1..(m + 1) PROVE f[k + 1] = Applied(s, f[k], todo[k], id)
    <3>1. CASE k = m + 1
      <4>1. k + 1 = m + 2 /\ f[k] = g[m + 1]
        BY <2>2, <3>1
      <4> QED
        BY <2>2, <3>1, <4>1
    <3>2. CASE k # m + 1
      <4>1. k \in 1..m /\ k + 1 \in 1..(m + 1)
        BY <3>2
      <4> QED
        BY <2>1, <2>2, <4>1
    <3> QED
      BY <3>1, <3>2
  <2> QED
    BY <2>3, <2>4
<1>3. N \in S
  <2> HIDE DEF S
  <2>1. \A m \in 0..N : m \in S
    BY <1>1, <1>2, Upwards
  <2> QED
    BY <2>1
<1>4. PICK f : T(f, N)
  BY <1>3
<1> QED
  BY <1>4 DEF Leads

(* recover() run to its end leaves each row with the numbers it computed.   *)
LEMMA RecoverGood ==
  ASSUME Rows, NEW s, InScope(s) \subseteq Ids, IsFiniteSet(InScope(s)), Hanging(s)
  PROVE  Good(s, RecoverSteps(s))
<1> DEFINE par == [i \in InScope(s) |-> rows[i].parent]
<1> DEFINE q == Recovered(par)
<1> DEFINE todo == RecoverSteps(s)
<1> DEFINE D == InScope(s)
<1> SUFFICES ASSUME NEW id
             PROVE  \E u, n : Leads(s, Sub(s), todo, id, u) /\ Tabular(u) /\ Forests(u, n)
  BY DEF Good, Sound
<1>1. DOMAIN par = D /\ \A i \in D : par[i] = rows[i].parent
  OBVIOUS
<1>2. todo = [k \in DOMAIN q |-> Assign(q[k].id, [lft |-> q[k].lft, rght |-> q[k].rght, depth |-> q[k].depth])]
  BY DEF RecoverSteps
<1>3. Len(todo) = Cardinality(D)
  BY DEF Hanging
<1> HIDE DEF par, q, todo
<1>4. PICK v, hi : Patch(v, par, 1, hi, 0, Under(par, Root)) /\ Lists(q, v, DOMAIN v)
  BY <1>1, RecoveredLists DEF q
<1>5. Len(q) \in Nat /\ DOMAIN q = 1..Len(q)
  BY <1>4 DEF Lists
<1>6. Len(todo) = Len(q)
  BY <1>2, <1>5
<1>7. PICK t, m : /\ Lists(q, t, DOMAIN par)
                  /\ \A u : /\ DOMAIN u = DOMAIN par /\ Extends(u, t) /\ DOMAIN t = DOMAIN par
                            /\ \A i \in DOMAIN par : u[i].parent = par[i]
                            => Forests(u, m)
                  /\ DOMAIN t = DOMAIN par
  <2>1. Len(Recovered(par)) = Cardinality(DOMAIN par)
    BY <1>1, <1>3, <1>6 DEF q
  <2> HIDE DEF D
  <2>2. DOMAIN par \subseteq Ids /\ IsFiniteSet(DOMAIN par)
    BY <1>1 DEF D
  <2> QED
    BY <2>1, <2>2, Renumbered DEF q
<1>8. PICK f : f[1] = Sub(s) /\ \A k \in 1..Len(todo) : f[k + 1] = Applied(s, f[k], todo[k], id)
  <2>1. PICK u : Leads(s, Sub(s), todo, id, u)
    BY <1>5, <1>6, LeadsSomewhere
  <2> QED
    BY <2>1 DEF Leads
<1> DEFINE N == Len(q)
<1>9. \A k \in 1..N : \E i \in D : q[k] = Entry(t, i)
  BY <1>1, <1>7 DEF Lists, Entries
<1>10. \A i \in D : \E k \in 1..N : q[k] = Entry(t, i)
  BY <1>1, <1>7 DEF Lists
<1>11. \A k, n \in 1..N : q[k] = q[n] => k = n
  BY <1>1, <1>7 DEF Lists
<1>12. \A i : Entry(t, i).id = i /\ Entry(t, i).lft = t[i].lft /\ Entry(t, i).rght = t[i].rght
              /\ Entry(t, i).depth = t[i].depth
  BY DEF Entry
<1> DEFINE Done(k, i) == f[k][i].lft = t[i].lft /\ f[k][i].rght = t[i].rght /\ f[k][i].depth = t[i].depth
<1> DEFINE P(k) == /\ Tabular(f[k + 1]) /\ DOMAIN f[k + 1] = D
                   /\ \A i \in D : f[k + 1][i].parent = par[i]
                   /\ \A n \in 1..k : Done(k + 1, q[n].id)
<1>13. P(0)
  <2>1. f[0 + 1] = Sub(s) /\ \A n \in 1..0 : FALSE
    BY <1>8
  <2>2. Tabular(Sub(s)) /\ DOMAIN Sub(s) = D /\ \A i \in D : Sub(s)[i] = rows[i]
    BY InScopeRows
  <2> QED
    BY <1>1, <2>1, <2>2
<1>14. ASSUME NEW k \in 0..(N - 1), P(k) PROVE P(k + 1)
  <2> DEFINE u == f[k + 1]
  <2> DEFINE w == f[k + 1 + 1]
  <2> DEFINE st == q[k + 1]
  <2>1. k + 1 \in 1..N
    BY <1>5
  <2>2. PICK i \in D : st = Entry(t, i)
    BY <1>9, <2>1
  <2> DEFINE cols == [lft |-> t[i].lft, rght |-> t[i].rght, depth |-> t[i].depth]
  <2>3. w = Applied(s, u, Assign(i, cols), id)
    <3>1. w = Applied(s, u, todo[k + 1], id)
      BY <1>6, <1>8, <2>1
    <3>2. todo[k + 1] = Assign(st.id, [lft |-> st.lft, rght |-> st.rght, depth |-> st.depth])
      BY <1>2, <1>5, <2>1
    <3>3. todo[k + 1] = Assign(i, cols)
      BY <1>12, <2>2, <3>2
    <3> QED
      BY <3>1, <3>3
  <2>4. DOMAIN cols = {"lft", "rght", "depth"} /\ cols["lft"] = t[i].lft /\ cols["rght"] = t[i].rght
        /\ cols["depth"] = t[i].depth
    OBVIOUS
  <2>5. Tabular(u) /\ DOMAIN u = D /\ (\A j \in D : u[j].parent = par[j])
        /\ \A n \in 1..k : Done(k + 1, q[n].id)
    BY <1>14
  <2> HIDE DEF w, cols
  <2>6. /\ Tabular(w) /\ DOMAIN w = DOMAIN u
        /\ \A j \in DOMAIN u : j # i => w[j] = u[j]
        /\ i \in DOMAIN u => \A c \in Cols : w[i][c] = IF c \in DOMAIN cols THEN cols[c] ELSE u[i][c]
    <3> HIDE DEF u
    <3> QED
      BY <2>3, <2>5, AssignMoves
  <2>7. w[i].lft = t[i].lft /\ w[i].rght = t[i].rght /\ w[i].depth = t[i].depth /\ w[i].parent = u[i].parent
    BY <2>4, <2>5, <2>6 DEF Cols
  <2>8. \A j \in D : w[j].parent = par[j]
    BY <2>5, <2>6, <2>7
  <2>9. ASSUME NEW n \in 1..(k + 1)
        PROVE  LET j == q[n].id IN w[j].lft = t[j].lft /\ w[j].rght = t[j].rght /\ w[j].depth = t[j].depth
    <3>1. n \in 1..N
      BY <1>5
    <3>2. PICK j \in D : q[n] = Entry(t, j)
      BY <1>9, <3>1
    <3>3. q[n].id = j
      BY <1>12, <3>2
    <3>4. CASE j = i
      BY <2>7, <3>3, <3>4
    <3>5. CASE j # i
      <4>1. n # k + 1
        BY <1>12, <2>2, <3>3, <3>5
      <4>2. n \in 1..k
        BY <4>1
      <4>3. w[j] = u[j]
        BY <2>5, <2>6, <3>5
      <4> QED
        BY <2>5, <3>3, <4>2, <4>3
    <3> QED
      BY <3>4, <3>5
  <2> QED
    BY <2>5, <2>6, <2>8, <2>9 DEF w
<1>15. P(N)
  <2> HIDE DEF P
  <2> DEFINE S == {k \in 0..N : P(k)}
  <2>1. 0 \in S /\ \A k \in 0..(N - 1) : k \in S => k + 1 \in S
    BY <1>5, <1>13, <1>14
  <2> HIDE DEF S
  <2>2. \A k \in 0..N : k \in S
    BY <1>5, <2>1, Upwards
  <2> QED
    BY <1>5, <2>2 DEF S
<1> DEFINE u == f[N + 1]
<1>16. \A i \in D : u[i].lft = t[i].lft /\ u[i].rght = t[i].rght /\ u[i].depth = t[i].depth
  <2> TAKE j \in D
  <2>1. PICK n \in 1..N : q[n] = Entry(t, j)
    BY <1>10
  <2>2. q[n].id = j
    BY <1>12, <2>1
  <2> QED
    BY <1>15, <2>2
<1>19. Tabular(u) /\ DOMAIN u = D /\ \A i \in D : u[i].parent = par[i]
  BY <1>15
<1>17. Leads(s, Sub(s), todo, id, u)
  BY <1>6, <1>8 DEF Leads
<1> HIDE DEF u
<1>18. Forests(u, m)
  BY <1>1, <1>7, <1>16, <1>19 DEF Extends
<1> QED
  BY <1>17, <1>18, <1>19

-----------------------------------------------------------------------------
(* The inductive invariant.                                                 *)
Shaped(st) ==
  \/ st.kind \in {"drop", "range", "adopt"}
  \/ st.kind = "shift" /\ st.col \in {"lft", "rght"}
  \/ st.kind \in {"assign", "insert"} /\ "scope" \notin DOMAIN st.cols
Listing(todo) ==
  /\ \E S : todo \in Seq(S)
  /\ \A k \in 1..Len(todo) : Shaped(todo[k]) /\ (todo[k].kind = "insert" => k = Len(todo))

Table ==
  /\ nextId \in Nat /\ 1 <= nextId /\ DOMAIN rows \subseteq 1..(nextId - 1)
  /\ Rows /\ \A i \in DOMAIN rows : rows[i].scope \in Scopes
Works ==
  /\ work = [c \in Clients |-> work[c]]
  /\ \A c \in Clients : work[c] # Idle =>
       /\ work[c] = [scope |-> work[c].scope, todo |-> work[c].todo,
                     heals |-> work[c].heals, before |-> work[c].before]
       /\ work[c].scope \in Scopes /\ work[c].heals \in BOOLEAN
       /\ Listing(work[c].todo) /\ Len(work[c].todo) > 0
Inserting == {c \in Clients : Inserts(work[c].todo)}
Room  == nextId + Cardinality(Inserting) <= MaxNodes + 1
Holds ==
  /\ held = [c \in Clients |-> held[c]]
  /\ \A c \in Clients : held[c] # NoNode => held[c].row.scope \in Scopes
Rest  == \A s \in Scopes : s \notin raced /\ Running(s) = {} => \E m : Forests(Sub(s), m)
Trusted(c) == work[c] # Idle /\ (work[c].scope \notin raced \/ work[c].heals = TRUE)
Ready(s, todo) == \A id : (Inserts(todo) => id \in nextId..MaxNodes) => Sound(s, todo, id)
Busy ==
  \A c \in Clients : \A s, todo :
     Trusted(c) /\ s = work[c].scope /\ todo = work[c].todo => Running(s) = {c} /\ Ready(s, todo)
TInv  == Table /\ Works /\ Room /\ Holds /\ Rest /\ Busy

(* A statement changes the rows of its scope as Applied says, and no other. *)
LEMMA ChangedRows ==
  ASSUME NEW st, Shaped(st), st.kind # "insert", st.kind # "drop", NEW r, DOMAIN r = Cols
  PROVE  DOMAIN Changed(st, r) = Cols /\ Changed(st, r).scope = r.scope
<1>1. CASE st.kind = "shift"
  BY <1>1 DEF Changed, Shaped, Cols
<1>2. CASE st.kind = "range"
  BY <1>2 DEF Changed, Shaped, Cols
<1>3. CASE st.kind = "adopt"
  BY <1>3 DEF Changed, Shaped, Cols
<1>4. CASE st.kind = "assign"
  <2>1. Changed(st, r) = [c \in Cols |-> IF c \in DOMAIN st.cols THEN st.cols[c] ELSE r[c]]
    BY <1>4 DEF Changed, With
  <2>2. "scope" \in Cols /\ "scope" \notin DOMAIN st.cols
    BY <1>4 DEF Shaped, Cols
  <2> QED
    BY <2>1, <2>2
<1> QED
  BY <1>1, <1>2, <1>3, <1>4 DEF Shaped

(* A statement changes the table of its scope as Applied says and no other  *)
(* scope.                                                                   *)
LEMMA ExecuteRows ==
  ASSUME Table, NEW s \in Scopes, NEW st, Shaped(st), Execute(s, st)
  PROVE  /\ Table'
         /\ nextId' = IF st.kind = "insert" THEN nextId + 1 ELSE nextId
         /\ Sub(s)' = Applied(s, Sub(s), st, nextId)
         /\ \A z \in Scopes : z # s => Sub(z)' = Sub(z)
<1> DEFINE base == [scope |-> s, parent |-> 0, lft |-> 0, rght |-> 0, depth |-> 0]
<1>0. /\ nextId \in Nat /\ 1 <= nextId /\ DOMAIN rows \subseteq 1..(nextId - 1)
      /\ \A i \in DOMAIN rows : DOMAIN rows[i] = Cols /\ rows[i].scope \in Scopes
  BY DEF Table, Rows
<1>1. CASE st.kind = "drop"
  <2>1. /\ rows' = [i \in {j \in DOMAIN rows : ~(rows[j].scope = s /\ Within(rows[j], st))} |-> rows[i]]
        /\ nextId' = nextId
    BY <1>1 DEF Execute
  <2>2. /\ DOMAIN rows' = {j \in DOMAIN rows : ~(rows[j].scope = s /\ Within(rows[j], st))}
        /\ \A i \in DOMAIN rows' : rows'[i] = rows[i] /\ i \in DOMAIN rows
    BY <2>1
  <2>3. Table'
    BY <1>0, <2>1, <2>2 DEF Table, Rows
  <2>4. InScope(s)' = {j \in InScope(s) : ~Within(rows[j], st)}
    BY <2>2 DEF InScope
  <2>5. Sub(s)' = Applied(s, Sub(s), st, nextId)
    <3>1. Applied(s, Sub(s), st, nextId) = [i \in {j \in DOMAIN Sub(s) : ~Within(Sub(s)[j], st)} |-> Sub(s)[i]]
      BY <1>1 DEF Applied
    <3>2. {j \in DOMAIN Sub(s) : ~Within(Sub(s)[j], st)} = InScope(s)'
      BY <2>4 DEF Sub
    <3>3. \A i \in InScope(s)' : Sub(s)[i] = rows'[i]
      BY <2>2, <2>4 DEF Sub, InScope
    <3>4. Sub(s)' = [i \in InScope(s)' |-> rows'[i]]
      BY DEF Sub
    <3> QED
      BY <3>1, <3>2, <3>3, <3>4
  <2>6. ASSUME NEW z \in Scopes, z # s PROVE Sub(z)' = Sub(z)
    <3>1. InScope(z)' = InScope(z) /\ \A i \in InScope(z) : rows'[i] = rows[i]
      BY <2>2, <2>6 DEF InScope
    <3> QED
      BY <3>1 DEF Sub
  <2> QED
    BY <1>1, <2>1, <2>3, <2>5, <2>6
<1>2. CASE st.kind = "insert"
  <2>1. /\ rows' = [i \in DOMAIN rows \union {nextId} |->
                      IF i = nextId THEN With(base, st.cols) ELSE rows[i]]
        /\ nextId' = nextId + 1
    BY <1>2 DEF Execute
  <2>2. nextId \notin DOMAIN rows
    BY <1>0
  <2>3. /\ DOMAIN rows' = DOMAIN rows \union {nextId} /\ rows'[nextId] = With(base, st.cols)
        /\ \A i \in DOMAIN rows : rows'[i] = rows[i]
    BY <2>1, <2>2
  <2>4. DOMAIN With(base, st.cols) = Cols /\ With(base, st.cols).scope = s
    BY <1>2 DEF With, Cols, Shaped
  <2>5. Table'
    BY <1>0, <2>1, <2>3, <2>4 DEF Table, Rows
  <2>6. InScope(s)' = InScope(s) \union {nextId}
    BY <2>3, <2>4 DEF InScope
  <2>7. Sub(s)' = Applied(s, Sub(s), st, nextId)
    <3>1. Applied(s, Sub(s), st, nextId) =
            [i \in DOMAIN Sub(s) \union {nextId} |-> IF i = nextId THEN With(base, st.cols) ELSE Sub(s)[i]]
      BY <1>2 DEF Applied
    <3>2. DOMAIN Sub(s) \union {nextId} = InScope(s)'
      BY <2>6 DEF Sub
    <3>3. \A i \in InScope(s)' : rows'[i] = IF i = nextId THEN With(base, st.cols) ELSE Sub(s)[i]
      BY <2>3, <2>6 DEF Sub, InScope
    <3>4. Sub(s)' = [i \in InScope(s)' |-> rows'[i]]
      BY DEF Sub
    <3> HIDE DEF base
    <3> QED
      BY <3>1, <3>2, <3>3, <3>4
  <2>8. ASSUME NEW z \in Scopes, z # s PROVE Sub(z)' = Sub(z)
    <3>1. InScope(z)' = InScope(z) /\ \A i \in InScope(z) : rows'[i] = rows[i]
      BY <2>2, <2>3, <2>4, <2>8 DEF InScope
    <3> QED
      BY <3>1 DEF Sub
  <2> QED
    BY <1>2, <2>1, <2>5, <2>7, <2>8
<1>3. CASE st.kind # "drop" /\ st.kind # "insert"
  <2>1. rows' = Updated(s, st) /\ nextId' = nextId
    BY <1>3 DEF Execute
  <2>2. /\ DOMAIN rows' = DOMAIN rows
        /\ \A i \in DOMAIN rows :
             rows'[i] = IF rows[i].scope = s /\ Affects(st, i, rows[i]) THEN Changed(st, rows[i]) ELSE rows[i]
    BY <2>1 DEF Updated
  <2>3. \A i \in DOMAIN rows : DOMAIN rows'[i] = Cols /\ rows'[i].scope = rows[i].scope
    <3> TAKE i \in DOMAIN rows
    <3>1. DOMAIN Changed(st, rows[i]) = Cols /\ Changed(st, rows[i]).scope = rows[i].scope
      BY <1>0, <1>3, ChangedRows
    <3> QED
      BY <1>0, <2>2, <3>1
  <2>4. Table'
    BY <1>0, <2>1, <2>2, <2>3 DEF Table, Rows
  <2>5. \A z : InScope(z)' = InScope(z)
    BY <2>2, <2>3 DEF InScope
  <2>6. Sub(s)' = Applied(s, Sub(s), st, nextId)
    <3>1. Applied(s, Sub(s), st, nextId) =
            [i \in DOMAIN Sub(s) |-> IF Affects(st, i, Sub(s)[i]) THEN Changed(st, Sub(s)[i]) ELSE Sub(s)[i]]
      BY <1>3 DEF Applied
    <3>2. DOMAIN Sub(s) = InScope(s)
      BY DEF Sub
    <3>3. \A i \in InScope(s) : rows'[i] = IF Affects(st, i, Sub(s)[i]) THEN Changed(st, Sub(s)[i]) ELSE Sub(s)[i]
      BY <2>2 DEF Sub, InScope
    <3>4. Sub(s)' = [i \in InScope(s) |-> rows'[i]]
      BY <2>5 DEF Sub
    <3> QED
      BY <3>1, <3>2, <3>3, <3>4
  <2>7. ASSUME NEW z \in Scopes, z # s PROVE Sub(z)' = Sub(z)
    <3>1. \A i \in InScope(z) : rows'[i] = rows[i]
      BY <2>2, <2>7 DEF InScope
    <3> QED
      BY <2>5, <3>1 DEF Sub
  <2> QED
    BY <1>3, <2>1, <2>4, <2>6, <2>7
<1> QED
  BY <1>1, <1>2, <1>3

(* What is left of a list leads on from what its first statement leaves.    *)
LEMMA LeadsOn ==
  ASSUME NEW s, NEW t, NEW S, NEW todo \in Seq(S), Len(todo) > 0, NEW id, NEW u, Leads(s, t, todo, id, u)
  PROVE  Leads(s, Applied(s, t, Head(todo), id), Tail(todo), id, u)
<1> DEFINE N == Len(todo)
<1>1. /\ Len(Tail(todo)) = N - 1 /\ \A k \in 1..(N - 1) : Tail(todo)[k] = todo[k + 1]
      /\ Head(todo) = todo[1] /\ N \in Nat
  BY HeadTailProperties
<1>2. PICK f : f[1] = t /\ f[N + 1] = u /\ \A k \in 1..N : f[k + 1] = Applied(s, f[k], todo[k], id)
  BY DEF Leads
<1> HIDE DEF N
<1> DEFINE g == [k \in 1..N |-> f[k + 1]]
<1>3. \A k \in 1..N : g[k] = f[k + 1]
  OBVIOUS
<1> HIDE DEF g
<1>4. 1 \in 1..N /\ N \in 1..N /\ (N - 1) + 1 = N
  BY <1>1 DEF N
<1>5. g[1] = Applied(s, t, Head(todo), id) /\ g[(N - 1) + 1] = u
  BY <1>1, <1>2, <1>3, <1>4
<1>6. ASSUME NEW k \in 1..(N - 1) PROVE g[k + 1] = Applied(s, g[k], Tail(todo)[k], id)
  <2>1. k \in 1..N /\ k + 1 \in 1..N /\ Tail(todo)[k] = todo[k + 1]
    BY <1>1
  <2>2. f[k + 1 + 1] = Applied(s, f[k + 1], todo[k + 1], id)
    BY <1>2, <2>1
  <2> QED
    BY <1>3, <2>1, <2>2
<1> QED
  BY <1>1, <1>5, <1>6 DEF Leads

(* Only an insert looks at the key that is handed out.                      *)
LEMMA SameKey ==
  ASSUME NEW s, NEW t, NEW st, st.kind # "insert", NEW id, NEW x
  PROVE  Applied(s, t, st, id) = Applied(s, t, st, x)
BY DEF Applied

(* What the rest of a list of statements keeps of the list.                 *)
LEMMA ListingHead ==
  ASSUME NEW todo, Listing(todo), Len(todo) > 0
  PROVE  /\ Len(todo) \in Nat /\ Shaped(Head(todo))
         /\ Head(todo).kind = "insert" => Len(todo) = 1
         /\ Head(todo).kind = "insert" => Inserts(todo)
         /\ Inserts(Tail(todo)) => Inserts(todo)
         /\ Head(todo).kind # "insert" => (Inserts(todo) => Inserts(Tail(todo)))
         /\ Len(todo) # 1 => Listing(Tail(todo)) /\ Len(Tail(todo)) > 0
         /\ Len(Tail(todo)) = Len(todo) - 1
<1> DEFINE N == Len(todo)
<1> DEFINE T == Tail(todo)
<1>1. PICK S : todo \in Seq(S)
  BY DEF Listing
<1>2. /\ T \in Seq(S) /\ Len(T) = N - 1 /\ \A k \in 1..(N - 1) : T[k] = todo[k + 1]
      /\ Head(todo) = todo[1] /\ N \in Nat
  BY <1>1, HeadTailProperties
<1>3. \A k \in 1..N : Shaped(todo[k]) /\ (todo[k].kind = "insert" => k = N)
  BY DEF Listing
<1> HIDE DEF N, T
<1>4. N > 0
  BY DEF N
<1>5. 1 \in 1..N /\ \A k \in 1..(N - 1) : k + 1 \in 1..N /\ (k + 1 = N => k = N - 1)
  BY <1>2, <1>4
<1>6. \A k \in 1..N : k = 1 \/ (k - 1 \in 1..(N - 1) /\ (k - 1) + 1 = k)
  BY <1>2
<1>7. Inserts(T) => Inserts(todo)
  BY <1>2, <1>5 DEF Inserts, N
<1>8. Head(todo).kind # "insert" => (Inserts(todo) => Inserts(T))
  <2> SUFFICES ASSUME todo[1].kind # "insert", NEW k \in 1..N, todo[k].kind = "insert"
               PROVE  Inserts(T)
    BY <1>2 DEF Inserts, N
  <2>1. k - 1 \in 1..(N - 1) /\ (k - 1) + 1 = k
    BY <1>6
  <2>2. T[k - 1].kind = "insert"
    BY <1>2, <2>1
  <2> QED
    BY <1>2, <2>1, <2>2 DEF Inserts
<1>9. ASSUME N # 1 PROVE Listing(T) /\ Len(T) > 0
  <2>1. \A k \in 1..Len(T) : Shaped(T[k]) /\ (T[k].kind = "insert" => k = Len(T))
    BY <1>2, <1>3, <1>5
  <2>2. Len(T) > 0
    BY <1>2, <1>4, <1>9
  <2> QED
    BY <1>2, <2>1, <2>2 DEF Listing
<1>10. Head(todo).kind = "insert" => Inserts(todo)
  BY <1>2, <1>5 DEF Inserts, N
<1> QED
  BY <1>2, <1>3, <1>5, <1>7, <1>8, <1>9, <1>10 DEF N, T

(* A client that is idle inserts nothing.                                   *)
LEMMA IdleInserts ==
  ~Inserts(Idle.todo)
BY DEF Idle, Inserts

(* The clients that insert are finitely many.                               *)
LEMMA FewInserting ==
  ASSUME TreeAssumption
  PROVE  /\ IsFiniteSet(Inserting) /\ Cardinality(Inserting) \in Nat
         /\ \A c \in Inserting : Cardinality(Inserting) >= 1
<1>1. Inserting \in SUBSET Clients /\ IsFiniteSet(Clients)
  BY DEF Inserting, TreeAssumption
<1>2. IsFiniteSet(Inserting) /\ Cardinality(Inserting) \in Nat
  BY <1>1, FS_Subset, FS_CardinalityType
<1>3. Inserting # {} => Cardinality(Inserting) # 0
  BY <1>2, FS_EmptySet
<1> QED
  BY <1>2, <1>3

(* One statement of an operation.                                           *)
LEMMA StatementKeeps ==
  ASSUME TreeAssumption, TInv, NEW c \in Clients, Statement(c)
  PROVE  TInv'
<1> SUFFICES ASSUME NEW w, w = work[c], NEW s, s = w.scope, NEW todo, todo = w.todo,
                    NEW st, st = Head(todo), NEW rest, rest = Tail(todo)
             PROVE  TInv'
  OBVIOUS
<1>1. Table /\ Works /\ Room /\ Holds /\ Rest /\ Busy
  BY DEF TInv
<1>2. /\ w # Idle /\ s \in Scopes /\ Listing(todo) /\ Len(todo) > 0 /\ w.heals \in BOOLEAN
      /\ w = [scope |-> s, todo |-> todo, heals |-> w.heals, before |-> w.before]
  BY <1>1 DEF Statement, Works
<1>3. /\ Len(todo) \in Nat /\ Shaped(st)
      /\ st.kind = "insert" => Len(todo) = 1 /\ Inserts(todo)
      /\ Inserts(rest) => Inserts(todo)
      /\ st.kind # "insert" => (Inserts(todo) => Inserts(rest))
      /\ Len(todo) # 1 => Listing(rest) /\ Len(rest) > 0
      /\ Len(rest) = Len(todo) - 1
  BY <1>2, ListingHead
<1>4. /\ Execute(s, st)
      /\ work' = [work EXCEPT ![c] = IF Len(todo) = 1 THEN Idle ELSE [w EXCEPT !.todo = rest]]
      /\ raced' = IF Len(todo) = 1 /\ w.heals THEN raced \ {s} ELSE raced
      /\ held' = held
  BY DEF Statement
<1>5. /\ Table'
      /\ nextId' = IF st.kind = "insert" THEN nextId + 1 ELSE nextId
      /\ Sub(s)' = Applied(s, Sub(s), st, nextId)
      /\ \A z \in Scopes : z # s => Sub(z)' = Sub(z)
  BY <1>1, <1>2, <1>3, <1>4, ExecuteRows
<1>6. /\ work' = [d \in Clients |-> work'[d]] /\ \A d \in Clients : d # c => work'[d] = work[d]
      /\ Len(todo) = 1 => work'[c] = Idle
      /\ Len(todo) # 1 => work'[c] = [scope |-> s, todo |-> rest, heals |-> w.heals, before |-> w.before]
  <2>1. DOMAIN work = Clients /\ work = [d \in Clients |-> work[d]]
    BY <1>1 DEF Works
  <2> QED
    BY <1>2, <1>4, <2>1
<1>17. Len(todo) # 1 => work'[c].scope = s /\ work'[c].todo = rest /\ work'[c].heals = w.heals
  <2> SUFFICES ASSUME Len(todo) # 1
               PROVE  work'[c].scope = s /\ work'[c].todo = rest /\ work'[c].heals = w.heals
    OBVIOUS
  <2>1. work'[c] = [scope |-> s, todo |-> rest, heals |-> w.heals, before |-> w.before]
    BY <1>6
  <2> QED
    BY <2>1
<1>7. Len(todo) # 1 => work'[c] # Idle
  <2>1. Len(todo) # 1 => Len(work'[c].todo) > 0
    BY <1>3, <1>6
  <2>2. ~(Len(Idle.todo) > 0)
    BY DEF Idle
  <2> QED
    BY <2>1, <2>2
<1>8. \A z : Running(z)' = IF Len(todo) = 1 THEN Running(z) \ {c} ELSE Running(z)
  <2> TAKE z
  <2>1. \A d \in Clients \ {c} : d \in Running(z)' <=> d \in Running(z)
    BY <1>6 DEF Running
  <2>2. Len(todo) = 1 => c \notin Running(z)'
    BY <1>6 DEF Running
  <2>3. Len(todo) # 1 => (c \in Running(z)' <=> c \in Running(z))
    BY <1>2, <1>6, <1>7 DEF Running
  <2>4. Running(z) \subseteq Clients /\ Running(z)' \subseteq Clients
    BY DEF Running
  <2>5. CASE Len(todo) = 1
    <3>1. \A d : d \in Running(z)' <=> d \in Running(z) \ {c}
      BY <2>1, <2>2, <2>4, <2>5
    <3> QED
      BY <2>5, <3>1
  <2>6. CASE Len(todo) # 1
    <3>1. \A d : d \in Running(z)' <=> d \in Running(z)
      BY <2>1, <2>3, <2>4, <2>6
    <3> QED
      BY <2>6, <3>1
  <2> QED
    BY <2>5, <2>6
<1>9. c \in Running(s)
  BY <1>2 DEF Running
<1>10. nextId \in Nat /\ nextId' \in Nat /\ nextId <= nextId'
  BY <1>1, <1>5 DEF Table
<1>11. Works'
  <2>1. ASSUME NEW d \in Clients, work'[d] # Idle
        PROVE  /\ work'[d] = [scope |-> work'[d].scope, todo |-> work'[d].todo,
                              heals |-> work'[d].heals, before |-> work'[d].before]
               /\ work'[d].scope \in Scopes /\ work'[d].heals \in BOOLEAN
               /\ Listing(work'[d].todo) /\ Len(work'[d].todo) > 0
    <3>1. CASE d = c
      <4>1. Len(todo) # 1
        BY <1>6, <2>1, <3>1
      <4>2. work'[c] = [scope |-> s, todo |-> rest, heals |-> w.heals, before |-> w.before]
        BY <1>6, <4>1
      <4>3. work'[c].scope = s /\ work'[c].todo = rest /\ work'[c].heals = w.heals /\ work'[c].before = w.before
        BY <4>2
      <4> QED
        BY <1>2, <1>3, <3>1, <4>1, <4>2, <4>3
    <3>2. CASE d # c
      BY <1>1, <1>6, <2>1, <3>2 DEF Works
    <3> QED
      BY <3>1, <3>2
  <2> QED
    BY <1>6, <2>1 DEF Works
<1>12. Room'
  <2>1. /\ IsFiniteSet(Inserting) /\ Cardinality(Inserting) \in Nat
        /\ \A d \in Inserting : Cardinality(Inserting) >= 1
    BY FewInserting
  <2>2. Inserting' \in SUBSET Inserting
    <3> SUFFICES ASSUME NEW d \in Clients, Inserts(work'[d].todo) PROVE Inserts(work[d].todo)
      BY DEF Inserting
    <3>1. CASE d = c
      <4>1. Len(todo) # 1
        BY <1>6, <3>1, IdleInserts
      <4>2. work'[c].todo = rest /\ work[c].todo = todo
        BY <1>17, <4>1
      <4> QED
        BY <1>3, <3>1, <4>2
    <3>2. CASE d # c
      BY <1>6, <3>2
    <3> QED
      BY <3>1, <3>2
  <2>3. IsFiniteSet(Inserting') /\ Cardinality(Inserting') \in Nat /\ Cardinality(Inserting') <= Cardinality(Inserting)
    BY <2>1, <2>2, FS_Subset, FS_CardinalityType
  <2>4. MaxNodes \in Nat
    BY DEF TreeAssumption
  <2>5. CASE st.kind = "insert"
    <3>1. c \in Inserting /\ c \notin Inserting'
      BY <1>3, <1>6, <2>5, IdleInserts DEF Inserting
    <3>2. Inserting' \in SUBSET (Inserting \ {c})
      BY <2>2, <3>1
    <3>3. Cardinality(Inserting \ {c}) = Cardinality(Inserting) - 1 /\ IsFiniteSet(Inserting \ {c})
      BY <2>1, <3>1, FS_RemoveElement
    <3>4. Cardinality(Inserting') <= Cardinality(Inserting) - 1
      BY <3>2, <3>3, FS_Subset
    <3> QED
      BY <1>1, <1>5, <1>10, <2>1, <2>3, <2>4, <2>5, <3>4 DEF Room
  <2>6. CASE st.kind # "insert"
    BY <1>1, <1>5, <1>10, <2>1, <2>3, <2>4, <2>6 DEF Room
  <2> QED
    BY <2>5, <2>6
<1>13. Holds'
  BY <1>1, <1>4 DEF Holds
<1>14. Trusted(c) => Running(s) = {c} /\ Ready(s, todo)
  BY <1>1 DEF Busy
<1>15. Rest'
  <2> SUFFICES ASSUME NEW z \in Scopes, z \notin raced', Running(z)' = {}
               PROVE  \E m : Forests(Sub(z)', m)
    BY DEF Rest
  <2>1. CASE z # s
    <3>1. c \notin Running(z)
      BY <2>1 DEF Running
    <3>2. z \notin raced /\ Running(z) = {}
      BY <1>4, <1>8, <2>1, <3>1
    <3> QED
      BY <1>1, <1>5, <2>1, <3>2 DEF Rest
  <2>2. CASE z = s
    <3>1. Len(todo) = 1
      BY <1>8, <1>9, <2>2
    <3>2. Trusted(c)
      BY <1>2, <1>4, <2>2 DEF Trusted
    <3>3. Inserts(todo) => nextId \in nextId..MaxNodes
      <4> SUFFICES ASSUME Inserts(todo) PROVE nextId <= MaxNodes
        BY <1>10 DEF TreeAssumption
      <4>1. c \in Inserting
        BY DEF Inserting
      <4>2. Cardinality(Inserting) \in Nat /\ Cardinality(Inserting) >= 1 /\ MaxNodes \in Nat
        BY <4>1, FewInserting DEF TreeAssumption
      <4> QED
        BY <1>1, <1>10, <4>2 DEF Room
    <3>4. Sound(s, todo, nextId)
      BY <1>14, <3>2, <3>3 DEF Ready
    <3>5. PICK u, m : Leads(s, Sub(s), todo, nextId, u) /\ Forests(u, m)
      BY <3>4 DEF Sound
    <3>6. PICK S : todo \in Seq(S)
      BY <1>2 DEF Listing
    <3>7. Leads(s, Sub(s)', rest, nextId, u)
      BY <1>2, <1>5, <3>5, <3>6, LeadsOn
    <3>8. Len(rest) = 0
      BY <1>3, <3>1
    <3>9. u = Sub(s)'
      BY <3>7, <3>8 DEF Leads
    <3> QED
      BY <2>2, <3>5, <3>9
  <2> QED
    BY <2>1, <2>2
<1>16. Busy'
  <2> SUFFICES ASSUME NEW d \in Clients, NEW z, NEW left, Trusted(d)', z = work'[d].scope, left = work'[d].todo
               PROVE  Running(z)' = {d} /\ Ready(z, left)'
    BY DEF Busy
  <2>1. CASE d = c
    <3>1. Len(todo) # 1 /\ work'[c].scope = s /\ work'[c].todo = rest /\ work'[c].heals = w.heals
      BY <1>6, <1>17, <2>1 DEF Trusted
    <3>2. raced' = raced
      BY <1>4, <3>1
    <3>3. Trusted(c)
      BY <1>2, <2>1, <3>1, <3>2 DEF Trusted
    <3>4. Running(s)' = {c}
      BY <1>8, <1>14, <3>1, <3>3
    <3>5. st.kind # "insert" /\ nextId' = nextId
      BY <1>3, <1>5, <3>1
    <3>6. ASSUME NEW id, Inserts(rest) => id \in nextId..MaxNodes
          PROVE  Sound(s, rest, id)'
      <4>1. Sound(s, todo, id)
        BY <1>3, <1>14, <3>3, <3>5, <3>6 DEF Ready
      <4>2. PICK u, m : Leads(s, Sub(s), todo, id, u) /\ Tabular(u) /\ Forests(u, m)
        BY <4>1 DEF Sound
      <4>3. PICK S : todo \in Seq(S)
        BY <1>2 DEF Listing
      <4>4. Leads(s, Applied(s, Sub(s), st, id), rest, id, u)
        BY <1>2, <4>2, <4>3, LeadsOn
      <4>5. Applied(s, Sub(s), st, id) = Sub(s)'
        BY <1>5, <3>5, SameKey
      <4> QED
        BY <4>2, <4>4, <4>5 DEF Sound
    <3>7. Ready(s, rest)'
      BY <3>5, <3>6 DEF Ready
    <3> QED
      BY <2>1, <3>1, <3>4, <3>7
  <2>2. CASE d # c
    <3>1. /\ work'[d] = work[d] /\ work[d] # Idle
          /\ z = work[d].scope /\ left = work[d].todo /\ z \in Scopes
      BY <1>1, <1>6, <2>2 DEF Trusted, Works
    <3>2. d \in Running(z)
      BY <3>1 DEF Running
    <3>3. CASE z # s
      <4>1. z \notin raced' => z \notin raced
        BY <1>4, <3>3
      <4>2. Trusted(d)
        BY <3>1, <4>1 DEF Trusted
      <4>3. Running(z) = {d} /\ Ready(z, left)
        BY <1>1, <3>1, <4>2 DEF Busy
      <4>4. Running(z)' = {d}
        BY <1>8, <2>2, <4>3
      <4>5. Sub(z)' = Sub(z)
        BY <1>5, <3>1, <3>3
      <4>6. \A id : id \in nextId'..MaxNodes => id \in nextId..MaxNodes
        BY <1>10 DEF TreeAssumption
      <4>7. Ready(z, left)'
        <5>1. \A id : Sound(z, left, id)' <=> Sound(z, left, id)
          BY <4>5 DEF Sound
        <5> QED
          BY <4>3, <4>6, <5>1 DEF Ready
      <4> QED
        BY <3>1, <4>4, <4>7
    <3>4. CASE z = s
      <4>1. ~Trusted(c)
        BY <1>14, <2>2, <3>2, <3>4
      <4>2. ~Trusted(d)
        BY ZenonT(60), <1>1, <1>9, <2>2, <3>1, <3>4 DEF Busy
      <4>3. raced' = raced
        BY <1>2, <1>4, <4>1 DEF Trusted
      <4> QED
        BY <3>1, <4>2, <4>3 DEF Trusted
    <3> QED
      BY <3>3, <3>4
  <2> QED
    BY <2>1, <2>2
<1> QED
  BY <1>5, <1>11, <1>12, <1>13, <1>15, <1>16 DEF TInv

(* The read that an operation begins with.  Its statements are in order if  *)
(* the bounds were sound, or if the operation heals the scope.              *)
LEMMA StartKeeps ==
  ASSUME TreeAssumption, TInv, NEW c \in Clients, NEW s \in Scopes, NEW steps, NEW fresh, NEW heals,
         steps = <<>> \/ (Listing(steps) /\ Len(steps) > 0),
         \A m : fresh /\ Forests(Sub(s), m) => steps = <<>> \/ Good(s, steps),
         heals => (steps = <<>> \/ Good(s, steps)),
         Inserts(steps) => nextId + Cardinality({d \in Clients : work[d] # Idle}) <= MaxNodes,
         Start(c, s, steps, fresh, heals)
  PROVE  TInv'
<1> DEFINE alone == Running(s) = {}
<1> DEFINE mine == [scope |-> s, todo |-> steps, heals |-> heals /\ alone, before |-> Kids(s)]
<1>1. Table /\ Works /\ Room /\ Holds /\ Rest /\ Busy
  BY DEF TInv
<1>2. /\ work[c] = Idle /\ rows' = rows /\ nextId' = nextId /\ held' = held
      /\ raced' = IF alone /\ fresh THEN raced ELSE raced \union {s}
      /\ work' = [d \in Clients |-> IF d = c THEN IF steps = <<>> THEN Idle ELSE mine
                                    ELSE IF d \in Running(s) THEN [work[d] EXCEPT !.heals = FALSE]
                                    ELSE work[d]]
  BY DEF Start
<1>3. /\ work' = [d \in Clients |-> work'[d]]
      /\ work'[c] = IF steps = <<>> THEN Idle ELSE mine
      /\ \A d \in Clients : d # c /\ d \notin Running(s) => work'[d] = work[d]
      /\ \A d \in Clients : d # c /\ d \in Running(s) => work'[d] = [work[d] EXCEPT !.heals = FALSE]
  <2> HIDE DEF mine
  <2> QED
    BY <1>2
<1>4. /\ mine.scope = s /\ mine.todo = steps /\ mine.heals = (heals /\ alone)
      /\ mine = [scope |-> mine.scope, todo |-> mine.todo, heals |-> mine.heals, before |-> mine.before]
  OBVIOUS
<1>5. mine.heals \in BOOLEAN /\ (mine.heals = TRUE => heals /\ alone)
  BY <1>4
<1> HIDE DEF mine
<1>6. c \notin Running(s)
  BY <1>2 DEF Running
<1>7. ASSUME NEW d \in Clients, d \in Running(s)
      PROVE  /\ work'[d].scope = s /\ work'[d].todo = work[d].todo /\ work'[d].heals = FALSE
             /\ work'[d] = [scope |-> work'[d].scope, todo |-> work'[d].todo,
                            heals |-> work'[d].heals, before |-> work'[d].before]
             /\ work[d] # Idle /\ Listing(work[d].todo) /\ Len(work[d].todo) > 0
  <2>1. work[d] # Idle /\ work[d].scope = s /\ d # c
    BY <1>2, <1>7 DEF Running
  <2>2. /\ work[d] = [scope |-> work[d].scope, todo |-> work[d].todo,
                      heals |-> work[d].heals, before |-> work[d].before]
        /\ Listing(work[d].todo) /\ Len(work[d].todo) > 0
    BY <1>1, <2>1 DEF Works
  <2>3. work'[d] = [scope |-> work[d].scope, todo |-> work[d].todo,
                    heals |-> FALSE, before |-> work[d].before]
    BY <1>3, <1>7, <2>1, <2>2
  <2>4. /\ work'[d].scope = work[d].scope /\ work'[d].todo = work[d].todo
        /\ work'[d].heals = FALSE /\ work'[d].before = work[d].before
    BY <2>3
  <2> QED
    BY <2>1, <2>2, <2>3, <2>4
<1>8. ~(Len(Idle.todo) > 0)
  BY DEF Idle
<1>9. /\ work'[c] # Idle <=> steps # <<>>
      /\ \A d \in Clients : d # c => (work'[d] # Idle <=> work[d] # Idle)
  <2>1. work'[c] # Idle <=> steps # <<>>
    <3>1. CASE steps = <<>>
      BY <1>3, <3>1
    <3>2. CASE steps # <<>>
      BY <1>3, <1>4, <1>8, <3>2
    <3> QED
      BY <3>1, <3>2
  <2>2. ASSUME NEW d \in Clients, d # c PROVE work'[d] # Idle <=> work[d] # Idle
    <3>1. CASE d \in Running(s)
      <4>1. Len(work'[d].todo) > 0 /\ work[d] # Idle
        BY <1>7, <3>1
      <4>2. work'[d] # Idle
        BY <1>8, <4>1
      <4> QED
        BY <4>1, <4>2
    <3>2. CASE d \notin Running(s)
      BY <1>3, <2>2, <3>2
    <3> QED
      BY <3>1, <3>2
  <2> QED
    BY <2>1, <2>2
<1>10. /\ \A z : z # s => Running(z)' = Running(z)
       /\ Running(s)' = IF steps = <<>> THEN Running(s) ELSE Running(s) \union {c}
  <2>1. ASSUME NEW z, NEW d \in Clients, d # c
        PROVE  d \in Running(z)' <=> d \in Running(z)
    <3>1. CASE d \in Running(s)
      <4>1. work'[d].scope = s /\ work[d] # Idle
        BY <1>7, <3>1
      <4>2. work[d].scope = s
        BY <3>1 DEF Running
      <4>3. work'[d] # Idle
        BY <1>9, <2>1, <4>1
      <4> QED
        BY <4>1, <4>2, <4>3 DEF Running
    <3>2. CASE d \notin Running(s)
      BY <1>3, <2>1, <3>2 DEF Running
    <3> QED
      BY <3>1, <3>2
  <2>2. \A z : c \notin Running(z)
    BY <1>2 DEF Running
  <2>3. ASSUME NEW z PROVE c \in Running(z)' <=> z = s /\ steps # <<>>
    <3>1. CASE steps = <<>>
      BY <1>9, <3>1 DEF Running
    <3>2. CASE steps # <<>>
      <4>1. work'[c].scope = s /\ work'[c] # Idle
        BY <1>3, <1>4, <1>9, <3>2
      <4> QED
        BY <3>2, <4>1 DEF Running
    <3> QED
      BY <3>1, <3>2
  <2>4. \A z : Running(z) \subseteq Clients /\ Running(z)' \subseteq Clients
    BY DEF Running
  <2>5. ASSUME NEW z, z # s PROVE Running(z)' = Running(z)
    <3>1. \A d : d \in Running(z)' <=> d \in Running(z)
      BY <2>1, <2>2, <2>3, <2>4, <2>5
    <3> QED
      BY <3>1
  <2>6. CASE steps = <<>>
    <3>1. \A d : d \in Running(s)' <=> d \in Running(s)
      BY <2>1, <2>2, <2>3, <2>4, <2>6
    <3> QED
      BY <2>5, <2>6, <3>1
  <2>7. CASE steps # <<>>
    <3>1. \A d : d \in Running(s)' <=> d \in Running(s) \union {c}
      BY <2>1, <2>2, <2>3, <2>4, <2>7
    <3> QED
      BY <2>5, <2>7, <3>1
  <2> QED
    BY <2>6, <2>7
<1>11. Table'
  BY <1>1, <1>2 DEF Table, Rows
<1>12. Works'
  <2>1. ASSUME NEW d \in Clients, work'[d] # Idle
        PROVE  /\ work'[d] = [scope |-> work'[d].scope, todo |-> work'[d].todo,
                              heals |-> work'[d].heals, before |-> work'[d].before]
               /\ work'[d].scope \in Scopes /\ work'[d].heals \in BOOLEAN
               /\ Listing(work'[d].todo) /\ Len(work'[d].todo) > 0
    <3>1. CASE d = c
      <4>1. steps # <<>> /\ work'[c] = mine
        BY <1>3, <1>9, <2>1, <3>1
      <4> QED
        BY <1>4, <1>5, <3>1, <4>1
    <3>2. CASE d # c /\ d \in Running(s)
      BY <1>7, <3>2
    <3>3. CASE d # c /\ d \notin Running(s)
      <4>1. work'[d] = work[d]
        BY <1>3, <3>3
      <4> QED
        BY <1>1, <2>1, <4>1 DEF Works
    <3> QED
      BY <3>1, <3>2, <3>3
  <2> QED
    BY <1>3, <2>1 DEF Works
<1>13. Room'
  <2> DEFINE B == {d \in Clients : work[d] # Idle}
  <2>1. IsFiniteSet(Clients) /\ B \in SUBSET Clients /\ MaxNodes \in Nat /\ nextId \in Nat
    BY <1>1 DEF TreeAssumption, Table
  <2>2. Inserting \in SUBSET B
    BY IdleInserts DEF Inserting
  <2>3. c \notin B
    BY <1>2
  <2>9. \A d \in Clients : d # c => (d \in Inserting' <=> d \in Inserting)
    <3> TAKE d \in Clients
    <3>1. CASE d \in Running(s)
      BY <1>7, <3>1 DEF Inserting
    <3>2. CASE d \notin Running(s)
      BY <1>3, <3>2 DEF Inserting
    <3> QED
      BY <3>1, <3>2
  <2> HIDE DEF B
  <2>4. IsFiniteSet(B) /\ Cardinality(B) \in Nat
    BY <2>1, FS_Subset, FS_CardinalityType
  <2>5. CASE Inserts(steps)
    <3>1. nextId + Cardinality(B) <= MaxNodes
      BY <2>5 DEF B
    <3>2. Inserting' \in SUBSET (B \union {c})
      BY <2>2, <2>9 DEF Inserting
    <3>3. IsFiniteSet(B \union {c}) /\ Cardinality(B \union {c}) = Cardinality(B) + 1
      BY <2>3, <2>4, FS_AddElement
    <3>4. Cardinality(Inserting') \in Nat /\ Cardinality(Inserting') <= Cardinality(B) + 1
      BY <3>2, <3>3, FS_Subset, FS_CardinalityType
    <3> QED
      BY <1>2, <2>1, <2>4, <3>1, <3>4 DEF Room
  <2>6. CASE ~Inserts(steps)
    <3>1. c \notin Inserting'
      BY <1>3, <1>4, <2>6, IdleInserts DEF Inserting
    <3>2. c \notin Inserting
      BY <2>2, <2>3
    <3>3. \A d : d \in Inserting' <=> d \in Inserting
      BY <2>9, <3>1, <3>2 DEF Inserting
    <3>4. Inserting' = Inserting
      BY <3>3
    <3> QED
      BY <1>1, <1>2, <3>4 DEF Room
  <2> QED
    BY <2>5, <2>6
<1>14. Holds'
  BY <1>1, <1>2 DEF Holds
<1>15. \A z : Sub(z)' = Sub(z)
  BY <1>2 DEF Sub, InScope
<1>16. Rest'
  <2> SUFFICES ASSUME NEW z \in Scopes, z \notin raced', Running(z)' = {}
               PROVE  \E m : Forests(Sub(z)', m)
    BY DEF Rest
  <2>1. z \notin raced
    BY <1>2
  <2>2. Running(z) = {}
    BY <1>10
  <2> QED
    BY <1>1, <1>15, <2>1, <2>2 DEF Rest
<1>17. Busy'
  <2> SUFFICES ASSUME NEW d \in Clients, NEW z, NEW left, Trusted(d)', z = work'[d].scope, left = work'[d].todo
               PROVE  Running(z)' = {d} /\ Ready(z, left)'
    BY DEF Busy
  <2>1. \A x, y : Ready(x, y)' <=> Ready(x, y)
    BY <1>2, <1>15 DEF Ready, Sound
  <2>2. CASE d = c
    <3>1. steps # <<>> /\ work'[c] = mine /\ z = s /\ left = steps
      BY <1>3, <1>4, <1>9, <2>2 DEF Trusted
    <3>2. s \notin raced' \/ mine.heals = TRUE
      BY <1>4, <2>2, <3>1 DEF Trusted
    <3>3. alone /\ Good(s, steps)
      <4>1. CASE s \notin raced'
        <5>1. alone /\ fresh /\ s \notin raced
          BY <1>2, <4>1
        <5>2. PICK m : Forests(Sub(s), m)
          BY <1>1, <5>1 DEF Rest
        <5> QED
          BY <3>1, <5>1, <5>2
      <4>2. CASE mine.heals = TRUE
        BY <1>5, <3>1, <4>2
      <4> QED
        BY <3>2, <4>1, <4>2
    <3>4. Running(s)' = {c}
      BY <1>10, <3>1, <3>3
    <3>5. \A id : id \in nextId..MaxNodes => id \in Ids \ DOMAIN rows
      BY <1>1 DEF Table, Ids, TreeAssumption
    <3>6. Ready(s, steps)
      BY <3>3, <3>5 DEF Ready, Good
    <3> QED
      BY <2>1, <2>2, <3>1, <3>4, <3>6
  <2>3. CASE d # c /\ d \in Running(s)
    <3>1. s \in raced'
      BY <1>2, <2>3
    <3>2. work'[d].scope = s /\ work'[d].heals = FALSE
      BY <1>7, <2>3
    <3> QED
      BY <3>1, <3>2 DEF Trusted
  <2>4. CASE d # c /\ d \notin Running(s)
    <3>1. work'[d] = work[d] /\ work[d] # Idle
      BY <1>3, <2>4 DEF Trusted
    <3>2. d \in Running(z) /\ z # s
      BY <2>4, <3>1 DEF Running
    <3>3. Trusted(d)
      BY <1>2, <3>1, <3>2 DEF Trusted
    <3>4. Running(z) = {d} /\ Ready(z, left)
      BY <1>1, <3>1, <3>3 DEF Busy
    <3> QED
      BY <1>10, <2>1, <3>2, <3>4
  <2> QED
    BY <2>2, <2>3, <2>4
<1> QED
  BY <1>11, <1>12, <1>13, <1>14, <1>16, <1>17 DEF TInv

(* The lists of statements the operations run.                              *)
Plain(todo) ==
  /\ \E S : todo \in Seq(S)
  /\ \A k \in 1..Len(todo) : Shaped(todo[k]) /\ todo[k].kind # "insert"

(* Lists without an insert: what the operations are made of.                *)
LEMMA PlainLists ==
  ASSUME NEW todo, Plain(todo)
  PROVE  Listing(todo) /\ ~Inserts(todo)
BY DEF Plain, Listing, Inserts

(* The empty list is one,                                                   *)
LEMMA PlainNone ==
  Plain(<<>>)
<1>1. <<>> \in Seq({}) /\ Len(<<>>) = 0
  OBVIOUS
<1> QED
  BY <1>1 DEF Plain

(* and so is one statement,                                                 *)
LEMMA PlainOne ==
  ASSUME NEW a, Shaped(a), a.kind # "insert"
  PROVE  Plain(<<a>>) /\ Len(<<a>>) = 1
<1>1. <<a>> \in Seq({a}) /\ Len(<<a>>) = 1 /\ <<a>>[1] = a
  OBVIOUS
<1>2. \A k \in 1..Len(<<a>>) : k = 1
  BY <1>1
<1> QED
  BY <1>1, <1>2 DEF Plain

(* two,                                                                     *)
LEMMA PlainTwo ==
  ASSUME NEW a, Shaped(a), a.kind # "insert", NEW b, Shaped(b), b.kind # "insert"
  PROVE  Plain(<<a, b>>) /\ Len(<<a, b>>) = 2
<1>1. <<a, b>> \in Seq({a, b}) /\ Len(<<a, b>>) = 2 /\ <<a, b>>[1] = a /\ <<a, b>>[2] = b
  OBVIOUS
<1>2. \A k \in 1..Len(<<a, b>>) : k = 1 \/ k = 2
  BY <1>1
<1> QED
  BY <1>1, <1>2 DEF Plain

(* and three.                                                               *)
LEMMA PlainThree ==
  ASSUME NEW a, Shaped(a), a.kind # "insert", NEW b, Shaped(b), b.kind # "insert",
         NEW c, Shaped(c), c.kind # "insert"
  PROVE  Plain(<<a, b, c>>) /\ Len(<<a, b, c>>) = 3
<1>1. /\ <<a, b, c>> \in Seq({a, b, c}) /\ Len(<<a, b, c>>) = 3
      /\ <<a, b, c>>[1] = a /\ <<a, b, c>>[2] = b /\ <<a, b, c>>[3] = c
  OBVIOUS
<1>2. \A k \in 1..Len(<<a, b, c>>) : k = 1 \/ k = 2 \/ k = 3
  BY <1>1
<1> QED
  BY <1>1, <1>2 DEF Plain

(* A sequence over a set is one over a larger set.                          *)
LEMMA Wider ==
  ASSUME NEW S, NEW T, S \subseteq T, NEW x \in Seq(S)
  PROVE  x \in Seq(T)
OBVIOUS

(* Two lists without an insert put together,                                *)
LEMMA PlainJoin ==
  ASSUME NEW x, Plain(x), NEW y, Plain(y)
  PROVE  /\ Plain(x \o y) /\ Len(x \o y) = Len(x) + Len(y) /\ Len(x) \in Nat /\ Len(y) \in Nat
         /\ Len(y) > 0 => Len(x \o y) > 0
<1>1. PICK S, T : x \in Seq(S) /\ y \in Seq(T)
  BY DEF Plain
<1>2. S \subseteq S \union T /\ T \subseteq S \union T
  OBVIOUS
<1>3. x \in Seq(S \union T) /\ y \in Seq(S \union T)
  BY <1>1, <1>2, Wider
<1>4. /\ x \o y \in Seq(S \union T) /\ Len(x \o y) = Len(x) + Len(y)
      /\ \A i \in 1..(Len(x) + Len(y)) : (x \o y)[i] = IF i <= Len(x) THEN x[i] ELSE y[i - Len(x)]
      /\ Len(x) \in Nat /\ Len(y) \in Nat
  BY <1>3, ConcatProperties
<1> DEFINE z == x \o y
<1> HIDE DEF z
<1>5. ASSUME NEW k \in 1..Len(z) PROVE Shaped(z[k]) /\ z[k].kind # "insert"
  <2>1. k \in 1..(Len(x) + Len(y)) /\ z[k] = IF k <= Len(x) THEN x[k] ELSE y[k - Len(x)]
    BY <1>4, <1>5 DEF z
  <2>2. CASE k <= Len(x)
    <3>1. k \in 1..Len(x)
      BY <1>4, <2>1, <2>2
    <3> QED
      BY <2>1, <2>2, <3>1 DEF Plain
  <2>3. CASE ~(k <= Len(x))
    <3>1. k - Len(x) \in 1..Len(y)
      BY <1>4, <2>1, <2>3
    <3> QED
      BY <2>1, <2>3, <3>1 DEF Plain
  <2> QED
    BY <2>2, <2>3
<1> QED
  BY <1>4, <1>5 DEF Plain, z

(* and one followed by any statement.                                       *)
LEMMA PlainThen ==
  ASSUME NEW x, Plain(x), NEW a, Shaped(a)
  PROVE  Listing(x \o <<a>>) /\ Len(x \o <<a>>) = Len(x) + 1 /\ Len(x) \in Nat
<1>1. PICK S : x \in Seq(S)
  BY DEF Plain
<1>2. S \subseteq S \union {a} /\ <<a>> \in Seq(S \union {a}) /\ Len(<<a>>) = 1 /\ <<a>>[1] = a
  OBVIOUS
<1>3. x \in Seq(S \union {a})
  BY <1>1, <1>2, Wider
<1>4. /\ x \o <<a>> \in Seq(S \union {a}) /\ Len(x \o <<a>>) = Len(x) + 1 /\ Len(x) \in Nat
      /\ \A i \in 1..(Len(x) + 1) : (x \o <<a>>)[i] = IF i <= Len(x) THEN x[i] ELSE <<a>>[i - Len(x)]
  BY <1>2, <1>3, ConcatProperties
<1> DEFINE z == x \o <<a>>
<1> HIDE DEF z
<1>5. ASSUME NEW k \in 1..Len(z) PROVE Shaped(z[k]) /\ (z[k].kind = "insert" => k = Len(z))
  <2>1. k \in 1..(Len(x) + 1) /\ z[k] = IF k <= Len(x) THEN x[k] ELSE <<a>>[k - Len(x)]
    BY <1>4, <1>5 DEF z
  <2>2. CASE k <= Len(x)
    <3>1. k \in 1..Len(x)
      BY <1>4, <2>1, <2>2
    <3> QED
      BY <2>1, <2>2, <3>1 DEF Plain
  <2>3. CASE ~(k <= Len(x))
    <3>1. k - Len(x) = 1 /\ k = Len(z)
      BY <1>4, <2>1, <2>3 DEF z
    <3>2. z[k] = a
      BY <1>2, <2>1, <2>3, <3>1
    <3> QED
      BY <3>1, <3>2
  <2> QED
    BY <2>2, <2>3
<1> QED
  BY <1>4, <1>5 DEF Listing, z

(* Each statement has a shape the invariant allows.                         *)
LEMMA StepShapes ==
  /\ \A lo, hi, by, deeper : /\ Shaped(MoveRange(lo, hi, by, deeper))
                             /\ MoveRange(lo, hi, by, deeper).kind # "insert"
  /\ \A from, by : /\ Shaped(Shift("lft", from, by)) /\ Shift("lft", from, by).kind # "insert"
                   /\ Shaped(Shift("rght", from, by)) /\ Shift("rght", from, by).kind # "insert"
  /\ \A old, new : Shaped(Adopt(old, new)) /\ Adopt(old, new).kind # "insert"
  /\ \A lo, hi : Shaped(DropRange(lo, hi)) /\ DropRange(lo, hi).kind # "insert"
  /\ \A i, p : Shaped(Assign(i, [parent |-> p])) /\ Assign(i, [parent |-> p]).kind # "insert"
  /\ \A i, p, l, r, d : LET a == Assign(i, [parent |-> p, lft |-> l, rght |-> r, depth |-> d])
                        IN  Shaped(a) /\ a.kind # "insert"
  /\ \A i, l, r, d : LET a == Assign(i, [lft |-> l, rght |-> r, depth |-> d])
                     IN  Shaped(a) /\ a.kind # "insert"
  /\ \A p, l, d : Shaped(NewRow(p, l, d))
<1>1. \A lo, hi, by, deeper : /\ Shaped(MoveRange(lo, hi, by, deeper))
                              /\ MoveRange(lo, hi, by, deeper).kind # "insert"
  BY DEF Shaped, MoveRange
<1>2. \A from, by : /\ Shaped(Shift("lft", from, by)) /\ Shift("lft", from, by).kind # "insert"
                    /\ Shaped(Shift("rght", from, by)) /\ Shift("rght", from, by).kind # "insert"
  BY DEF Shaped, Shift
<1>3. \A old, new : Shaped(Adopt(old, new)) /\ Adopt(old, new).kind # "insert"
  BY DEF Shaped, Adopt
<1>4. \A lo, hi : Shaped(DropRange(lo, hi)) /\ DropRange(lo, hi).kind # "insert"
  BY DEF Shaped, DropRange
<1>5. \A i, p : Shaped(Assign(i, [parent |-> p])) /\ Assign(i, [parent |-> p]).kind # "insert"
  BY DEF Shaped, Assign
<1>6. \A i, p, l, r, d : LET a == Assign(i, [parent |-> p, lft |-> l, rght |-> r, depth |-> d])
                         IN  Shaped(a) /\ a.kind # "insert"
  BY DEF Shaped, Assign
<1>7. \A i, l, r, d : LET a == Assign(i, [lft |-> l, rght |-> r, depth |-> d])
                      IN  Shaped(a) /\ a.kind # "insert"
  BY DEF Shaped, Assign
<1>8. \A p, l, d : Shaped(NewRow(p, l, d))
  BY DEF Shaped, NewRow
<1> QED
  BY <1>1, <1>2, <1>3, <1>4, <1>5, <1>6, <1>7, <1>8

(* shift_for_insert() and shift_for_delete() are lists without an insert.   *)
LEMMA GapsPlain ==
  ASSUME NEW point, NEW width
  PROVE  /\ Plain(OpenGap(point, width)) /\ Len(OpenGap(point, width)) = 2
         /\ Plain(CloseGap(point, width)) /\ Len(CloseGap(point, width)) = 2
BY StepShapes, PlainTwo DEF OpenGap, CloseGap

(* The statements of insert_as_child() are a list with the insert at its    *)
(* end,                                                                     *)
LEMMA InsertLists ==
  ASSUME NEW s, NEW p
  PROVE  Listing(InsertSteps(s, p)) /\ Len(InsertSteps(s, p)) > 0
<1>1. CASE p = Root
  <2> DEFINE a == NewRow(Root, MaxRght(s) + 1, 0)
  <2>1. InsertSteps(s, p) = <<a>>
    BY <1>1 DEF InsertSteps
  <2>2. Shaped(a)
    BY StepShapes
  <2> HIDE DEF a
  <2>3. <<a>> \in Seq({a}) /\ Len(<<a>>) = 1 /\ <<a>>[1] = a
    OBVIOUS
  <2>4. \A k \in 1..Len(<<a>>) : k = 1
    BY <2>3
  <2>5. Listing(<<a>>)
    BY <2>2, <2>3, <2>4 DEF Listing
  <2> QED
    BY <2>1, <2>3, <2>5
<1>2. CASE p # Root
  <2> DEFINE x == OpenGap(rows[p].rght, 2)
  <2> DEFINE a == NewRow(p, rows[p].rght, rows[p].depth + 1)
  <2>1. InsertSteps(s, p) = x \o <<a>>
    BY <1>2 DEF InsertSteps
  <2>2. Shaped(a) /\ Plain(x) /\ Len(x) = 2
    BY StepShapes, GapsPlain
  <2> HIDE DEF a, x
  <2>3. Listing(x \o <<a>>) /\ Len(x \o <<a>>) = Len(x) + 1
    <3>1. Shaped(a) /\ Plain(x)
      BY <2>2
    <3> QED
      BY <3>1, PlainThen
  <2> QED
    BY <2>1, <2>2, <2>3
<1> QED
  BY <1>1, <1>2

(* those of move_to() a list without one,                                   *)
LEMMA MoveLists ==
  ASSUME NEW s, NEW i, NEW b, NEW p
  PROVE  Plain(MoveSteps(s, i, b, p)) /\ Len(MoveSteps(s, i, b, p)) > 0
<1> DEFINE point == IF p = Root THEN MaxRght(s) + 1 ELSE rows[p].rght
<1> DEFINE target == Target(b, point)
<1> DEFINE level == IF p = Root THEN 0 ELSE rows[p].depth + 1
<1> DEFINE isolate == -Temp - b.rght
<1> DEFINE first == <<MoveRange(b.lft, b.rght, isolate, 0)>>
<1> DEFINE shut == CloseGap(b.rght, Width(b))
<1> DEFINE open == OpenGap(target, Width(b))
<1> DEFINE back == <<MoveRange(b.lft + isolate, b.rght + isolate, target - b.lft - isolate, level - b.depth),
                    Assign(i, [parent |-> p])>>
<1>1. MoveSteps(s, i, b, p) = first \o shut \o open \o back
  BY DEF MoveSteps
<1>2. /\ Plain(first) /\ Len(first) = 1
      /\ Plain(back) /\ Len(back) > 0
  BY StepShapes, PlainOne, PlainTwo
<1>3. Plain(shut) /\ Len(shut) = 2 /\ Plain(open) /\ Len(open) = 2
  BY GapsPlain
<1> HIDE DEF first, shut, open, back
<1>4. Plain(first \o shut) /\ Len(first \o shut) \in Nat
  BY <1>2, <1>3, PlainJoin
<1>5. Plain(first \o shut \o open) /\ Len(first \o shut \o open) \in Nat
  BY <1>3, <1>4, PlainJoin
<1>6. Plain(first \o shut \o open \o back) /\ Len(first \o shut \o open \o back) > 0
  BY <1>2, <1>5, PlainJoin
<1> QED
  BY <1>1, <1>6

(* as are those of swap_adjacent(),                                         *)
LEMMA SwapLists ==
  ASSUME NEW l, NEW r
  PROVE  \/ SwapSteps(l, r) = <<>>
         \/ Plain(SwapSteps(l, r)) /\ Len(SwapSteps(l, r)) > 0
<1> DEFINE a == MoveRange(r.lft, r.rght, Temp, 0)
<1> DEFINE b == MoveRange(l.lft, l.rght, Width(r), 0)
<1> DEFINE c == MoveRange(r.lft + Temp, r.rght + Temp, -Temp - Width(l), 0)
<1>1. SwapSteps(l, r) = <<>> \/ SwapSteps(l, r) = <<a, b, c>>
  BY DEF SwapSteps
<1>2. Plain(<<a, b, c>>) /\ Len(<<a, b, c>>) = 3
  BY StepShapes, PlainThree
<1> HIDE DEF a, b, c
<1> QED
  BY <1>1, <1>2

(* of move_up() and move_down(),                                            *)
LEMMA SlideLists ==
  ASSUME NEW s, NEW i, NEW b, NEW by
  PROVE  \/ SlideSteps(s, i, b, by) = <<>>
         \/ Plain(SlideSteps(s, i, b, by)) /\ Len(SlideSteps(s, i, b, by)) > 0
<1>1. SlideSteps(s, i, b, by) = <<>> \/ \E l, r : SlideSteps(s, i, b, by) = SwapSteps(l, r)
  BY DEF SlideSteps
<1> QED
  BY <1>1, SwapLists

(* of remove_from_tree(),                                                   *)
LEMMA RemoveLists ==
  ASSUME NEW s, NEW i, NEW b
  PROVE  Plain(RemoveSteps(s, i, b)) /\ Len(RemoveSteps(s, i, b)) > 0
<1> DEFINE up == MoveRange(b.lft + 1, b.rght - 1, -1, -1)
<1> DEFINE lift == IF b.rght - b.lft > 1 THEN <<up>> ELSE <<>>
<1> DEFINE shut == CloseGap(b.rght, 2)
<1> DEFINE link == Assign(i, [parent |-> Root, lft |-> MaxRght(s) - 1, rght |-> MaxRght(s), depth |-> 0])
<1>1. RemoveSteps(s, i, b) = Promote(i, b) \o lift \o shut \o <<link>>
  BY DEF RemoveSteps
<1>2. Plain(Promote(i, b)) /\ Len(Promote(i, b)) = 1
  BY StepShapes, PlainOne DEF Promote
<1>3. Plain(lift) /\ Len(lift) \in Nat
  <2>1. Plain(<<up>>) /\ Len(<<up>>) = 1
    BY StepShapes, PlainOne
  <2> HIDE DEF up
  <2>2. Plain(<<>>) /\ Len(<<>>) = 0
    BY PlainNone
  <2> QED
    BY <2>1, <2>2
<1>4. Plain(shut) /\ Len(shut) = 2
  BY GapsPlain
<1>5. Plain(<<link>>) /\ Len(<<link>>) = 1
  BY StepShapes, PlainOne
<1> HIDE DEF lift, shut, link
<1>6. Plain(Promote(i, b) \o lift) /\ Len(Promote(i, b) \o lift) \in Nat
  BY <1>2, <1>3, PlainJoin
<1>7. Plain(Promote(i, b) \o lift \o shut) /\ Len(Promote(i, b) \o lift \o shut) \in Nat
  BY <1>4, <1>6, PlainJoin
<1>8. /\ Plain(Promote(i, b) \o lift \o shut \o <<link>>)
      /\ Len(Promote(i, b) \o lift \o shut \o <<link>>) > 0
  BY <1>5, <1>7, PlainJoin
<1> QED
  BY <1>1, <1>8

(* of delete_subtree()                                                      *)
LEMMA DeleteLists ==
  ASSUME NEW b
  PROVE  Plain(DeleteSteps(b)) /\ Len(DeleteSteps(b)) > 0
<1> DEFINE cut == <<DropRange(b.lft, b.rght)>>
<1> DEFINE shut == CloseGap(b.rght, Width(b))
<1>1. DeleteSteps(b) = cut \o shut
  BY DEF DeleteSteps
<1>2. Plain(cut) /\ Len(cut) = 1 /\ Plain(shut) /\ Len(shut) > 0
  BY StepShapes, PlainOne, GapsPlain
<1> HIDE DEF cut, shut
<1>3. Plain(cut \o shut) /\ Len(cut \o shut) > 0
  BY <1>2, PlainJoin
<1> QED
  BY <1>1, <1>3

(* and of recover().                                                        *)
LEMMA RecoverLists ==
  ASSUME NEW s, InScope(s) \subseteq Ids, IsFiniteSet(InScope(s))
  PROVE  RecoverSteps(s) = <<>> \/ (Plain(RecoverSteps(s)) /\ Len(RecoverSteps(s)) > 0)
<1> DEFINE par == [i \in InScope(s) |-> rows[i].parent]
<1> DEFINE q == Recovered(par)
<1>1. DOMAIN par \subseteq Ids /\ IsFiniteSet(DOMAIN par)
  OBVIOUS
<1> HIDE DEF par
<1>2. \E S : q \in Seq(S)
  BY <1>1, RecoveredLists DEF Lists
<1>3. Len(q) \in Nat /\ DOMAIN q = 1..Len(q)
  BY <1>2
<1> DEFINE F(k) == Assign(q[k].id, [lft |-> q[k].lft, rght |-> q[k].rght, depth |-> q[k].depth])
<1> DEFINE T == [k \in 1..Len(q) |-> F(k)]
<1>4. RecoverSteps(s) = T
  BY <1>3 DEF RecoverSteps, par
<1>5. \A k \in 1..Len(q) : Shaped(F(k)) /\ F(k).kind # "insert"
  BY StepShapes
<1> HIDE DEF F, q
<1>6. T \in Seq({F(k) : k \in 1..Len(q)}) /\ Len(T) = Len(q) /\ \A k \in 1..Len(q) : T[k] = F(k)
  BY <1>3
<1> HIDE DEF T
<1>7. Plain(T)
  BY <1>5, <1>6 DEF Plain
<1>8. Len(T) = 0 => T = <<>>
  BY <1>6, EmptySeq
<1> QED
  BY <1>3, <1>4, <1>6, <1>7, <1>8

-----------------------------------------------------------------------------
(* The actions.                                                             *)
LEMMA FiniteIds ==
  ASSUME TreeAssumption
  PROVE  IsFiniteSet(Ids)
<1>1. 1 \in Int /\ MaxNodes \in Int
  BY DEF TreeAssumption
<1>2. IsFiniteSet(1..MaxNodes)
  BY ONLY <1>1, FS_Interval
<1> QED
  BY <1>2 DEF Ids

(* What the invariant says of the rows of a scope.                          *)
LEMMA TableRows ==
  ASSUME TreeAssumption, TInv
  PROVE  Rows /\ \A s : InScope(s) \subseteq Ids /\ IsFiniteSet(InScope(s))
<1>1. Table /\ Room
  BY DEF TInv
<1>2. Cardinality(Inserting) \in Nat /\ MaxNodes \in Nat /\ nextId \in Nat
  BY <1>1, FewInserting DEF Table, TreeAssumption
<1>3. DOMAIN rows \in SUBSET Ids
  BY <1>1, <1>2 DEF Table, Room, Ids
<1>4. IsFiniteSet(Ids)
  BY FiniteIds
<1>5. \A s : InScope(s) \in SUBSET Ids
  BY <1>3 DEF InScope
<1> QED
  BY <1>1, <1>4, <1>5, FS_Subset DEF Table

(* A node that is not stale is a row of its scope.                          *)
LEMMA HeldRow ==
  ASSUME NEW c, ~Stale(held[c])
  PROVE  held[c].id \in InScope(held[c].row.scope) /\ held[c].row = rows[held[c].id]
BY DEF Stale, InScope

(* Each action keeps the invariant: the operations that start,              *)
LEMMA InsertAsChildKeeps ==
  ASSUME TreeAssumption, TInv, NEW c \in Clients, NEW s \in Scopes, NEW p, InsertAsChild(c, s, p)
  PROVE  TInv'
<1> DEFINE steps == InsertSteps(s, p)
<1>1. /\ p \in InScope(s) \union {Root}
      /\ nextId + Cardinality({d \in Clients : work[d] # Idle}) <= MaxNodes
      /\ Start(c, s, steps, TRUE, FALSE)
  BY DEF InsertAsChild
<1>2. Listing(steps) /\ Len(steps) > 0
  BY InsertLists
<1>3. ASSUME NEW m, Forests(Sub(s), m) PROVE Good(s, steps)
  BY <1>1, <1>3, TableRows, InsertGood
<1> HIDE DEF steps
<1> QED
  BY <1>1, <1>2, <1>3, StartKeeps

(* move_to() of a stale node included, which makes its scope raced,         *)
LEMMA MoveToKeeps ==
  ASSUME TreeAssumption, TInv, NEW c \in Clients, NEW p, MoveTo(c, p)
  PROVE  TInv'
<1> DEFINE s == held[c].row.scope
<1> DEFINE i == held[c].id
<1> DEFINE b == held[c].row
<1> DEFINE steps == MoveSteps(s, i, b, p)
<1>1. /\ held[c] # NoNode /\ MayMove(s, b, p)
      /\ Start(c, s, steps, ~Stale(held[c]), FALSE)
  BY DEF MoveTo, WithNode
<1>2. s \in Scopes
  BY <1>1 DEF TInv, Holds
<1>3. Listing(steps) /\ Len(steps) > 0 /\ ~Inserts(steps)
  BY MoveLists, PlainLists
<1>4. ASSUME NEW m, ~Stale(held[c]), Forests(Sub(s), m) PROVE Good(s, steps)
  <2>1. i \in InScope(s) /\ b = rows[i]
    BY <1>4, HeldRow
  <2> HIDE DEF s, i, b
  <2>2. Good(s, MoveSteps(s, i, rows[i], p))
    BY <1>1, <1>4, <2>1, TableRows, MoveGood
  <2> QED
    BY <2>1, <2>2
<1> HIDE DEF s, i, b, steps
<1> QED
  BY <1>1, <1>2, <1>3, <1>4, StartKeeps

(* move_up() and move_down(),                                               *)
LEMMA SlideKeeps ==
  ASSUME TreeAssumption, TInv, NEW c \in Clients, MoveUp(c) \/ MoveDown(c)
  PROVE  TInv'
<1> DEFINE s == held[c].row.scope
<1> DEFINE i == held[c].id
<1> DEFINE b == held[c].row
<1>1. PICK by \in {-1, 1} : /\ held[c] # NoNode
                            /\ Start(c, s, SlideSteps(s, i, b, by), ~Stale(held[c]), FALSE)
  BY DEF MoveUp, MoveDown, WithNode
<1> DEFINE steps == SlideSteps(s, i, b, by)
<1>2. s \in Scopes
  BY <1>1 DEF TInv, Holds
<1>3. /\ steps = <<>> \/ (Listing(steps) /\ Len(steps) > 0)
      /\ ~Inserts(steps)
  <2>1. steps = <<>> \/ (Plain(steps) /\ Len(steps) > 0)
    BY SlideLists
  <2> HIDE DEF steps
  <2> QED
    BY <2>1, PlainNone, PlainLists
<1>4. ASSUME NEW m, ~Stale(held[c]), Forests(Sub(s), m) PROVE steps = <<>> \/ Good(s, steps)
  <2>1. i \in InScope(s) /\ b = rows[i]
    BY <1>4, HeldRow
  <2> HIDE DEF s, i, b
  <2>2. SlideSteps(s, i, rows[i], by) = <<>> \/ Good(s, SlideSteps(s, i, rows[i], by))
    BY <1>1, <1>4, <2>1, TableRows, SlideGood
  <2> QED
    BY <2>1, <2>2
<1> HIDE DEF s, i, b
<1>5. Start(c, s, steps, ~Stale(held[c]), FALSE)
  BY <1>1
<1> HIDE DEF steps
<1> QED
  BY <1>2, <1>3, <1>4, <1>5, StartKeeps

(* remove_from_tree(),                                                      *)
LEMMA RemoveFromTreeKeeps ==
  ASSUME TreeAssumption, TInv, NEW c \in Clients, RemoveFromTree(c)
  PROVE  TInv'
<1> DEFINE s == held[c].row.scope
<1> DEFINE i == held[c].id
<1> DEFINE b == held[c].row
<1> DEFINE steps == RemoveSteps(s, i, b)
<1>1. held[c] # NoNode /\ Start(c, s, steps, ~Stale(held[c]), FALSE)
  BY DEF RemoveFromTree, WithNode
<1>2. s \in Scopes
  BY <1>1 DEF TInv, Holds
<1>3. Listing(steps) /\ Len(steps) > 0 /\ ~Inserts(steps)
  BY RemoveLists, PlainLists
<1>4. ASSUME NEW m, ~Stale(held[c]), Forests(Sub(s), m) PROVE Good(s, steps)
  <2>1. i \in InScope(s) /\ b = rows[i]
    BY <1>4, HeldRow
  <2> HIDE DEF s, i, b
  <2>2. Good(s, RemoveSteps(s, i, rows[i]))
    BY <1>4, <2>1, TableRows, RemoveGood
  <2> QED
    BY <2>1, <2>2
<1> HIDE DEF s, i, b, steps
<1> QED
  BY <1>1, <1>2, <1>3, <1>4, StartKeeps

(* delete_subtree();                                                        *)
LEMMA DeleteSubtreeKeeps ==
  ASSUME TreeAssumption, TInv, NEW c \in Clients, DeleteSubtree(c)
  PROVE  TInv'
<1> DEFINE s == held[c].row.scope
<1> DEFINE i == held[c].id
<1> DEFINE b == held[c].row
<1> DEFINE steps == DeleteSteps(b)
<1>1. held[c] # NoNode /\ Start(c, s, steps, ~Stale(held[c]), FALSE)
  BY DEF DeleteSubtree, WithNode
<1>2. s \in Scopes
  BY <1>1 DEF TInv, Holds
<1>3. Listing(steps) /\ Len(steps) > 0 /\ ~Inserts(steps)
  BY DeleteLists, PlainLists
<1>4. ASSUME NEW m, ~Stale(held[c]), Forests(Sub(s), m) PROVE Good(s, steps)
  <2>1. i \in InScope(s) /\ b = rows[i]
    BY <1>4, HeldRow
  <2> HIDE DEF s, i, b
  <2>2. Good(s, DeleteSteps(rows[i]))
    BY <1>4, <2>1, TableRows, DeleteGood
  <2> QED
    BY <2>1, <2>2
<1> HIDE DEF s, i, b, steps
<1> QED
  BY <1>1, <1>2, <1>3, <1>4, StartKeeps

(* A sound scope hangs together, so that recover() numbers every row of it. *)
LEMMA RecoverKeeps ==
  ASSUME TreeAssumption, TInv, NEW c \in Clients, NEW s \in Scopes, Recover(c, s)
  PROVE  TInv'
<1> DEFINE steps == RecoverSteps(s)
<1>1. Start(c, s, steps, TRUE, Hanging(s))
  BY DEF Recover
<1>2. Rows /\ InScope(s) \subseteq Ids /\ IsFiniteSet(InScope(s))
  BY TableRows
<1>3. Hanging(s) => Good(s, steps)
  BY <1>2, RecoverGood
<1>4. ASSUME NEW m, Forests(Sub(s), m) PROVE Hanging(s)
  <2> DEFINE par == [i \in InScope(s) |-> rows[i].parent]
  <2>1. par = [i \in DOMAIN Sub(s) |-> Sub(s)[i].parent] /\ DOMAIN par = InScope(s)
    BY DEF Sub
  <2> HIDE DEF par
  <2>2. Len(Recovered(par)) = Cardinality(InScope(s))
    BY <1>4, <2>1, SoundRecovers
  <2>3. \E S : Recovered(par) \in Seq(S)
    BY <1>2, <2>1, RecoveredLists DEF Lists
  <2>4. Len(RecoverSteps(s)) = Len(Recovered(par))
    BY <2>3 DEF RecoverSteps, par
  <2> QED
    BY <2>2, <2>4 DEF Hanging
<1>5. /\ steps = <<>> \/ (Listing(steps) /\ Len(steps) > 0)
      /\ ~Inserts(steps)
  <2>1. steps = <<>> \/ (Plain(steps) /\ Len(steps) > 0)
    BY <1>2, RecoverLists
  <2> HIDE DEF steps
  <2> QED
    BY <2>1, PlainNone, PlainLists
<1> HIDE DEF steps
<1> QED
  BY <1>1, <1>3, <1>4, <1>5, StartKeeps

(* a client that reads a node;                                              *)
LEMMA GetNodeKeeps ==
  ASSUME TInv, NEW c \in Clients, NEW i \in DOMAIN rows, GetNode(c, i)
  PROVE  TInv'
<1>1. /\ held' = [held EXCEPT ![c] = [id |-> i, row |-> rows[i]]]
      /\ rows' = rows /\ nextId' = nextId /\ work' = work /\ raced' = raced
  BY DEF GetNode
<1>2. Table /\ Works /\ Room /\ Holds /\ Rest /\ Busy
  BY DEF TInv
<1>3. /\ held' = [d \in Clients |-> held'[d]] /\ held'[c] = [id |-> i, row |-> rows[i]]
      /\ \A d \in Clients : d # c => held'[d] = held[d]
  BY <1>1, <1>2 DEF Holds
<1>4. rows[i].scope \in Scopes
  BY <1>2 DEF Table
<1>5. Holds'
  BY <1>2, <1>3, <1>4 DEF Holds
<1>6. \A z : Running(z)' = Running(z) /\ Sub(z)' = Sub(z)
  BY <1>1 DEF Running, Sub, InScope
<1>7. Table' /\ Works'
  BY <1>1, <1>2 DEF Table, Rows, Works
<1>8. Room'
  BY <1>1, <1>2 DEF Room, Inserting
<1>9. Rest'
  BY <1>1, <1>2, <1>6 DEF Rest
<1>10. Busy'
  <2>1. \A x, y : Ready(x, y)' <=> Ready(x, y)
    BY <1>1, <1>6 DEF Ready, Sound
  <2>2. \A d : Trusted(d)' <=> Trusted(d)
    BY <1>1 DEF Trusted
  <2> QED
    BY <1>1, <1>2, <1>6, <2>1, <2>2 DEF Busy
<1> QED
  BY <1>5, <1>7, <1>8, <1>9, <1>10 DEF TInv

(* and an operation that stops half-way.                                    *)
LEMMA StatementFailsKeeps ==
  ASSUME TreeAssumption, TInv, NEW c \in Clients, StatementFails(c)
  PROVE  TInv'
<1>1. /\ work[c] # Idle /\ work' = [work EXCEPT ![c] = Idle]
      /\ raced' = raced \union {work[c].scope}
      /\ rows' = rows /\ nextId' = nextId /\ held' = held
  BY DEF StatementFails
<1>2. Table /\ Works /\ Room /\ Holds /\ Rest /\ Busy
  BY DEF TInv
<1>3. /\ work' = [d \in Clients |-> work'[d]] /\ work'[c] = Idle
      /\ \A d \in Clients : d # c => work'[d] = work[d]
  BY <1>1, <1>2 DEF Works
<1>4. \A z : Sub(z)' = Sub(z)
  BY <1>1 DEF Sub, InScope
<1>5. ASSUME NEW z PROVE Running(z)' = Running(z) \ {c}
  <2>1. \A d \in Clients : d # c => (d \in Running(z)' <=> d \in Running(z))
    BY <1>3 DEF Running
  <2>2. c \notin Running(z)' /\ Running(z) \subseteq Clients /\ Running(z)' \subseteq Clients
    BY <1>3 DEF Running
  <2>3. \A d : d \in Running(z)' <=> d \in Running(z) \ {c}
    BY <2>1, <2>2
  <2> QED
    BY <2>3
<1>6. Table' /\ Holds'
  BY <1>1, <1>2 DEF Table, Rows, Holds
<1>7. Works'
  BY <1>2, <1>3 DEF Works
<1>8. Room'
  <2>1. Inserting' \in SUBSET Inserting
    BY <1>3, IdleInserts DEF Inserting
  <2>2. IsFiniteSet(Inserting) /\ Cardinality(Inserting) \in Nat /\ nextId \in Nat /\ MaxNodes \in Nat
    BY <1>2, FewInserting DEF Table, TreeAssumption
  <2>3. Cardinality(Inserting') \in Nat /\ Cardinality(Inserting') <= Cardinality(Inserting)
    BY <2>1, <2>2, FS_Subset, FS_CardinalityType
  <2> QED
    BY <1>1, <1>2, <2>2, <2>3 DEF Room
<1>9. Rest'
  <2> SUFFICES ASSUME NEW z \in Scopes, z \notin raced', Running(z)' = {}
               PROVE  \E m : Forests(Sub(z)', m)
    BY DEF Rest
  <2>1. z \notin raced /\ z # work[c].scope
    BY <1>1
  <2>2. c \notin Running(z)
    BY <2>1 DEF Running
  <2>3. Running(z) = {}
    BY <1>5, <2>2
  <2> QED
    BY <1>2, <1>4, <2>1, <2>3 DEF Rest
<1>10. Busy'
  <2> SUFFICES ASSUME NEW d \in Clients, NEW z, NEW left, Trusted(d)', z = work'[d].scope, left = work'[d].todo
               PROVE  Running(z)' = {d} /\ Ready(z, left)'
    BY DEF Busy
  <2>1. d # c
    BY <1>3 DEF Trusted
  <2>2. work'[d] = work[d]
    BY <1>3, <2>1
  <2>3. Trusted(d)
    BY <1>1, <2>2 DEF Trusted
  <2>4. Running(z) = {d} /\ Ready(z, left)
    BY <1>2, <2>2, <2>3 DEF Busy
  <2>5. Running(z)' = {d}
    BY <1>5, <2>1, <2>4
  <2>6. Ready(z, left)'
    BY <1>1, <1>4, <2>4 DEF Ready, Sound
  <2> QED
    BY <2>5, <2>6
<1> QED
  BY <1>6, <1>7, <1>8, <1>9, <1>10 DEF TInv

(* The rows a table starts with are numbered by their parent links.         *)
LEMMA InitSound ==
  ASSUME TreeAssumption, Init
  PROVE  TInv
<1>1. /\ \A s \in Scopes : Seed[s] \in SUBSET Ids
      /\ \A s, u \in Scopes : s # u => Seed[s] \intersect Seed[u] = {}
      /\ MaxNodes \in Nat
  BY DEF TreeAssumption
<1>2. PICK n \in 0..MaxNodes : Seeded = 1..n
  BY DEF TreeAssumption, Seeded
<1> DEFINE scopeOf(i) == CHOOSE s \in Scopes : i \in Seed[s]
<1>3. PICK parent \in [Seeded -> Seeded \union {Root}] :
        /\ \A s \in Scopes : Len(Recovered([i \in Seed[s] |-> parent[i]])) = Cardinality(Seed[s])
        /\ rows = [i \in Seeded |->
             LET u == CHOOSE u \in ToSet(Recovered([j \in Seed[scopeOf(i)] |-> parent[j]])) : u.id = i
             IN  [scope |-> scopeOf(i), parent |-> parent[i],
                  lft |-> u.lft, rght |-> u.rght, depth |-> u.depth]]
  BY DEF Init
<1>4. /\ nextId = Cardinality(Seeded) + 1 /\ held = [c \in Clients |-> NoNode]
      /\ work = [c \in Clients |-> Idle] /\ raced = {}
  BY DEF Init
<1>5. \A s \in Scopes : \A i \in Seed[s] : scopeOf(i) = s /\ i \in Seeded
  BY <1>1 DEF Seeded
<1>6. \A i \in Seeded : scopeOf(i) \in Scopes /\ i \in Seed[scopeOf(i)]
  BY DEF Seeded
<1> HIDE DEF scopeOf
<1> DEFINE par(s) == [i \in Seed[s] |-> parent[i]]
<1> DEFINE entry(i) == CHOOSE u \in ToSet(Recovered(par(scopeOf(i)))) : u.id = i
<1>7. DOMAIN rows = Seeded
  BY <1>3
<1>8. \A i \in Seeded : rows[i] = [scope |-> scopeOf(i), parent |-> parent[i], lft |-> entry(i).lft,
                                   rght |-> entry(i).rght, depth |-> entry(i).depth]
  BY <1>3
<1>9. \A s : DOMAIN par(s) = Seed[s] /\ \A i \in Seed[s] : par(s)[i] = parent[i]
  OBVIOUS
<1>10. \A s \in Scopes : Len(Recovered(par(s))) = Cardinality(Seed[s])
  BY <1>3
<1> HIDE DEF par, entry
<1>11. \A i \in Seeded : /\ DOMAIN rows[i] = Cols /\ rows[i].scope = scopeOf(i) /\ rows[i].parent = parent[i]
                         /\ rows[i].lft = entry(i).lft /\ rows[i].rght = entry(i).rght
                         /\ rows[i].depth = entry(i).depth
  <2> TAKE i \in Seeded
  <2>1. rows[i] = [scope |-> scopeOf(i), parent |-> parent[i], lft |-> entry(i).lft,
                   rght |-> entry(i).rght, depth |-> entry(i).depth]
    BY <1>8
  <2> QED
    BY <2>1 DEF Cols
<1>12. \A s \in Scopes : InScope(s) = Seed[s]
  <2> SUFFICES ASSUME NEW s \in Scopes PROVE InScope(s) = Seed[s]
    OBVIOUS
  <2>1. \A i \in InScope(s) : i \in Seed[s]
    BY <1>6, <1>7, <1>11 DEF InScope
  <2>2. \A i \in Seed[s] : i \in InScope(s)
    BY <1>5, <1>7, <1>11 DEF InScope
  <2> QED
    BY <2>1, <2>2
<1>13. nextId = n + 1 /\ n \in Nat
  BY SMTT(60), <1>1, <1>2, <1>4, FS_Interval
<1>14. Table
  BY <1>2, <1>6, <1>7, <1>11, <1>13 DEF Table, Rows
<1>15. Works /\ Holds
  BY <1>4 DEF Works, Holds
<1>16. Room
  <2>1. Inserting = {}
    BY <1>4, IdleInserts DEF Inserting
  <2>2. Cardinality(Inserting) = 0
    BY <2>1, FS_EmptySet
  <2>4. nextId + Cardinality(Inserting) = n + 1
    BY <1>13, <2>2
  <2>5. n + 1 <= MaxNodes + 1
    BY <1>1, <1>2
  <2>6. nextId + Cardinality(Inserting) <= MaxNodes + 1
    BY <2>4, <2>5
  <2> QED
    BY <2>6 DEF Room
<1>17. Busy
  BY <1>4 DEF Busy, Trusted
<1>18. ASSUME NEW s \in Scopes PROVE \E m : Forests(Sub(s), m)
  <2> DEFINE r == par(s)
  <2> DEFINE q == Recovered(r)
  <2>9. IsFiniteSet(Ids)
    BY FiniteIds
  <2>1. IsFiniteSet(Ids) /\ Seed[s] \in SUBSET Ids
    BY <1>1, <2>9
  <2>2. /\ DOMAIN r = Seed[s] /\ DOMAIN r \subseteq Ids /\ IsFiniteSet(DOMAIN r)
        /\ Len(Recovered(r)) = Cardinality(DOMAIN r) /\ \A i \in Seed[s] : r[i] = parent[i]
    BY <1>9, <1>10, <2>1, FS_Subset
  <2>3. PICK t, m : /\ Lists(Recovered(r), t, DOMAIN r)
                    /\ \A u : /\ DOMAIN u = DOMAIN r /\ Extends(u, t) /\ DOMAIN t = DOMAIN r
                              /\ \A i \in DOMAIN r : u[i].parent = r[i]
                              => Forests(u, m)
                    /\ DOMAIN t = DOMAIN r
    <3> HIDE DEF r
    <3> QED
      BY <2>2, Renumbered
  <2> DEFINE u == Sub(s)
  <2>4. DOMAIN u = Seed[s] /\ \A i \in Seed[s] : u[i] = rows[i]
    BY <1>12 DEF Sub
  <2>5. ASSUME NEW i \in Seed[s] PROVE entry(i) = Entry(t, i)
    <3>1. scopeOf(i) = s
      BY <1>5
    <3>2. entry(i) = CHOOSE x \in ToSet(q) : x.id = i
      BY <3>1 DEF entry
    <3>3. q \in Seq(Entries(t, Seed[s])) /\ \E k \in 1..Len(q) : q[k] = Entry(t, i)
      BY <2>2, <2>3 DEF Lists
    <3> HIDE DEF q, r
    <3>4. ToSet(q) = {q[k] : k \in 1..Len(q)}
      BY <3>3 DEF ToSet
    <3>5. Entry(t, i) \in ToSet(q)
      BY <3>3, <3>4
    <3>6. \A x \in ToSet(q) : \E j \in Seed[s] : x = Entry(t, j)
      BY <3>3, <3>4 DEF Entries
    <3>7. \A j : Entry(t, j).id = j
      BY DEF Entry
    <3>8. \A x \in ToSet(q) : x.id = i => x = Entry(t, i)
      BY <3>6, <3>7
    <3> QED
      BY <3>2, <3>5, <3>7, <3>8
  <2>6. \A i \in Seed[s] : u[i].lft = t[i].lft /\ u[i].rght = t[i].rght /\ u[i].depth = t[i].depth
    <3> TAKE i \in Seed[s]
    <3>1. entry(i).lft = t[i].lft /\ entry(i).rght = t[i].rght /\ entry(i).depth = t[i].depth
      BY <2>5 DEF Entry
    <3> QED
      BY <1>5, <1>11, <2>4, <3>1
  <2>7. \A i \in Seed[s] : u[i].parent = r[i]
    BY <1>5, <1>11, <2>2, <2>4
  <2>8. Extends(u, t)
    BY <2>2, <2>3, <2>6 DEF Extends
  <2> HIDE DEF u
  <2> QED
    <3>1. Forests(u, m)
      BY <2>2, <2>3, <2>4, <2>7, <2>8
    <3> QED
      BY <3>1 DEF u
<1>19. Rest
  BY <1>18 DEF Rest
<1> QED
  BY <1>14, <1>15, <1>16, <1>17, <1>19 DEF TInv

(* Every step keeps the invariant.                                          *)
LEMMA NextKeeps ==
  ASSUME TreeAssumption, TInv, [Next]_vars
  PROVE  TInv'
<1>1. CASE UNCHANGED vars
  <2>1. /\ rows' = rows /\ nextId' = nextId /\ held' = held /\ work' = work /\ raced' = raced
    BY <1>1 DEF vars
  <2>2. Table /\ Works /\ Room /\ Holds /\ Rest /\ Busy
    BY DEF TInv
  <2>3. \A z : Running(z)' = Running(z) /\ Sub(z)' = Sub(z)
    BY <2>1 DEF Running, Sub, InScope
  <2>4. Table' /\ Works' /\ Holds'
    BY <2>1, <2>2 DEF Table, Rows, Works, Holds
  <2>5. Room'
    BY <2>1, <2>2 DEF Room, Inserting
  <2>6. Rest'
    BY <2>1, <2>2, <2>3 DEF Rest
  <2>7. \A x, y : Ready(x, y)' <=> Ready(x, y)
    BY <2>1, <2>3 DEF Ready, Sound
  <2>8. \A d : Trusted(d)' <=> Trusted(d)
    BY <2>1 DEF Trusted
  <2>9. Busy'
    BY <2>1, <2>2, <2>3, <2>7, <2>8 DEF Busy
  <2> QED
    BY <2>4, <2>5, <2>6, <2>9 DEF TInv
<1>2. CASE Next
  <2>1. PICK c \in Clients :
          \/ \E i \in DOMAIN rows : GetNode(c, i)
          \/ \E s \in Scopes, p \in Ids \union {Root} : InsertAsChild(c, s, p)
          \/ \E p \in Ids \union {Root} : MoveTo(c, p)
          \/ MoveUp(c) \/ MoveDown(c)
          \/ RemoveFromTree(c) \/ DeleteSubtree(c)
          \/ \E s \in Scopes : Recover(c, s)
          \/ Statement(c) \/ StatementFails(c)
    BY <1>2 DEF Next
  <2>2. CASE \E i \in DOMAIN rows : GetNode(c, i)
    BY <2>2, GetNodeKeeps
  <2>3. CASE \E s \in Scopes, p \in Ids \union {Root} : InsertAsChild(c, s, p)
    BY <2>3, InsertAsChildKeeps
  <2>4. CASE \E p \in Ids \union {Root} : MoveTo(c, p)
    BY <2>4, MoveToKeeps
  <2>5. CASE MoveUp(c) \/ MoveDown(c)
    BY <2>5, SlideKeeps
  <2>6. CASE RemoveFromTree(c)
    BY <2>6, RemoveFromTreeKeeps
  <2>7. CASE DeleteSubtree(c)
    BY <2>7, DeleteSubtreeKeeps
  <2>8. CASE \E s \in Scopes : Recover(c, s)
    BY <2>8, RecoverKeeps
  <2>9. CASE Statement(c)
    BY <2>9, StatementKeeps
  <2>10. CASE StatementFails(c)
    BY <2>10, StatementFailsKeeps
  <2> QED
    BY <2>1, <2>2, <2>3, <2>4, <2>5, <2>6, <2>7, <2>8, <2>9, <2>10
<1> QED
  BY <1>1, <1>2

(* In every reachable state the tables, the work in progress and the keys   *)
(* are well formed, a settled scope is a sound nested-set table (Rest), and *)
(* a trusted operation in progress is alone in its scope with statements    *)
(* left that lead to one (Busy). It is what every operation of TreeManager  *)
(* relies on and has to restore.                                            *)
THEOREM TreeInvariant == Spec => []TInv
<1>1. Init => TInv
  BY InitSound, TreeAssumption
<1>2. TInv /\ [Next]_vars => TInv'
  BY NextKeeps, TreeAssumption
<1> QED
  BY <1>1, <1>2, PTL DEF Spec

(* A settled scope is sound.                                                *)
LEMMA SettledSound ==
  ASSUME TInv, NEW s \in Scopes, Settled(s)
  PROVE  \E m : Forests(Sub(s), m)
BY DEF TInv, Rest, Settled

(* NumberingSound: in a scope where no operation is under way and none has  *)
(* overlapped another or used a stale node, the bounds are 1..2n, each used *)
(* once, whatever operations of TreeManager have run and wherever in other  *)
(* scopes statements have failed.                                           *)
THEOREM NumberingIsSound == Spec => []NumberingSound
<1>1. TInv => NumberingSound
  <2> SUFFICES ASSUME TInv, NEW s \in Scopes, Settled(s)
               PROVE  {rows[i].lft : i \in InScope(s)} \union {rows[i].rght : i \in InScope(s)}
                        = 1..2 * Cardinality(InScope(s))
    BY DEF NumberingSound
  <2> DEFINE t == Sub(s)
  <2>1. PICK m : Forests(t, m)
    BY SettledSound
  <2>2. DOMAIN t = InScope(s) /\ \A i \in InScope(s) : t[i] = rows[i]
    BY DEF Sub
  <2> HIDE DEF t
  <2>3. /\ m = 2 * Cardinality(DOMAIN t)
        /\ {t[i].lft : i \in DOMAIN t} \union {t[i].rght : i \in DOMAIN t} = 1..m
    BY <2>1, TreeAssumption, Counted
  <2>4. /\ {t[i].lft : i \in DOMAIN t} = {rows[i].lft : i \in InScope(s)}
        /\ {t[i].rght : i \in DOMAIN t} = {rows[i].rght : i \in InScope(s)}
    BY <2>2
  <2> QED
    BY <2>2, <2>3, <2>4
<1> QED
  BY <1>1, TreeInvariant, PTL

-----------------------------------------------------------------------------
(* What the range queries say of a sound table.                             *)
Over(t, i)   == {x \in DOMAIN t : In(t, i, x)}
Inside(t, i) == {x \in DOMAIN t : In(t, x, i)}

(* What a sound table says of two rows and of a row and its parent.         *)
LEMMA Nesting ==
  ASSUME NEW t, NEW m, Forests(t, m)
  PROVE  /\ m \in Nat
         /\ \A i \in DOMAIN t : /\ t[i].lft \in Nat /\ t[i].rght \in Nat /\ i # Root
                                /\ 1 <= t[i].lft /\ t[i].lft < t[i].rght /\ t[i].rght <= m
         /\ \A i \in DOMAIN t : ~In(t, i, i)
         /\ \A i, j \in DOMAIN t : In(t, i, j) => ~In(t, j, i) /\ i # j
         /\ \A i, j, k \in DOMAIN t : In(t, i, j) /\ In(t, j, k) => In(t, i, k)
         /\ \A i \in DOMAIN t : t[i].depth \in Int
         /\ \A i \in DOMAIN t : t[i].parent = Root => t[i].depth = 0 /\ \A j \in DOMAIN t : ~In(t, i, j)
         /\ \A i \in DOMAIN t : t[i].parent # Root =>
              /\ t[i].parent \in DOMAIN t /\ In(t, i, t[i].parent)
              /\ t[i].depth = t[t[i].parent].depth + 1
              /\ \A j \in DOMAIN t : In(t, i, j) => j = t[i].parent \/ In(t, t[i].parent, j)
<1>1. /\ m \in Nat
      /\ \A i \in DOMAIN t : /\ t[i].lft \in Nat /\ t[i].rght \in Nat /\ i # Root
                             /\ 1 <= t[i].lft /\ t[i].lft < t[i].rght /\ t[i].rght <= m
  BY DEF Forests, Bounds, Ids, Root
<1>2. \A i \in DOMAIN t : Linked(t, i)
  BY DEF Forests
<1>3. /\ \A i \in DOMAIN t : ~In(t, i, i)
      /\ \A i, j \in DOMAIN t : In(t, i, j) => ~In(t, j, i) /\ i # j
      /\ \A i, j, k \in DOMAIN t : In(t, i, j) /\ In(t, j, k) => In(t, i, k)
  BY <1>1 DEF In, IsInside
<1> QED
  BY <1>1, <1>2, <1>3 DEF Linked

(* A row is as deep as there are rows around it.                            *)
LEMMA DepthCounts ==
  ASSUME TreeAssumption, NEW t, NEW m, Forests(t, m)
  PROVE  \A i \in DOMAIN t : IsFiniteSet(Over(t, i)) /\ t[i].depth = Cardinality(Over(t, i))
<1>1. /\ m \in Nat
      /\ \A i \in DOMAIN t : /\ t[i].lft \in Nat /\ t[i].rght \in Nat
                             /\ 1 <= t[i].lft /\ t[i].lft < t[i].rght /\ t[i].rght <= m
      /\ \A i \in DOMAIN t : ~In(t, i, i)
      /\ \A i, j, k \in DOMAIN t : In(t, i, j) /\ In(t, j, k) => In(t, i, k)
      /\ \A i \in DOMAIN t : t[i].parent = Root => t[i].depth = 0 /\ \A j \in DOMAIN t : ~In(t, i, j)
      /\ \A i \in DOMAIN t : t[i].parent # Root =>
           /\ t[i].parent \in DOMAIN t /\ In(t, i, t[i].parent)
           /\ t[i].depth = t[t[i].parent].depth + 1
           /\ \A j \in DOMAIN t : In(t, i, j) => j = t[i].parent \/ In(t, t[i].parent, j)
  BY Nesting
<1> DEFINE Fine(i) == IsFiniteSet(Over(t, i)) /\ t[i].depth = Cardinality(Over(t, i))
<1> DEFINE S == {v \in 0..m : \A i \in DOMAIN t : t[i].lft <= v => Fine(i)}
<1>2. 0 \in S
  BY <1>1
<1>3. \A v \in 0..(m - 1) : v \in S => v + 1 \in S
  <2> SUFFICES ASSUME NEW v \in 0..(m - 1), v \in S, NEW i \in DOMAIN t, t[i].lft <= v + 1
               PROVE  Fine(i)
    BY <1>1
  <2>1. CASE t[i].parent = Root
    <3>1. Over(t, i) = {} /\ t[i].depth = 0
      BY <1>1, <2>1 DEF Over
    <3> QED
      BY <3>1, FS_EmptySet
  <2>2. CASE t[i].parent # Root
    <3> DEFINE p == t[i].parent
    <3>1. /\ p \in DOMAIN t /\ In(t, i, p) /\ t[i].depth = t[p].depth + 1
          /\ \A j \in DOMAIN t : In(t, i, j) => j = p \/ In(t, p, j)
      BY <1>1, <2>2
    <3> HIDE DEF p
    <3>2. t[p].lft < t[i].lft
      BY <3>1 DEF In, IsInside
    <3>3. Fine(p)
      BY <1>1, <3>1, <3>2
    <3>4. \A x : x \in Over(t, i) <=> x \in Over(t, p) \union {p}
      BY <1>1, <3>1 DEF Over
    <3>5. Over(t, i) = Over(t, p) \union {p} /\ p \notin Over(t, p)
      BY <1>1, <3>1, <3>4 DEF Over
    <3>6. IsFiniteSet(Over(t, i)) /\ Cardinality(Over(t, i)) = Cardinality(Over(t, p)) + 1
      BY <3>3, <3>5, FS_AddElement
    <3> QED
      BY <3>1, <3>3, <3>6
  <2> QED
    BY <2>1, <2>2
<1>4. \A v \in 0..m : v \in S
  <2> HIDE DEF S
  <2> QED
    BY <1>1, <1>2, <1>3, Upwards
<1>5. m \in S
  BY <1>1, <1>4
<1> QED
  BY <1>1, <1>5

(* The rows below i, moved to the left edge, are a sound table themselves.  *)
LEMMA InsideForests ==
  ASSUME NEW t, NEW m, Forests(t, m), NEW i \in DOMAIN t, NEW u,
         DOMAIN u = Inside(t, i),
         \A j \in DOMAIN u : /\ u[j].lft = t[j].lft - t[i].lft /\ u[j].rght = t[j].rght - t[i].lft
                             /\ u[j].depth = t[j].depth - t[i].depth - 1
                             /\ u[j].parent = IF t[j].parent = i THEN Root ELSE t[j].parent
  PROVE  Forests(u, t[i].rght - t[i].lft - 1)
<1> DEFINE L == t[i].lft
<1> DEFINE R == t[i].rght
<1> DEFINE D == DOMAIN t
<1>1. /\ m \in Nat
      /\ \A j \in D : /\ t[j].lft \in Nat /\ t[j].rght \in Nat /\ j # Root
                      /\ 1 <= t[j].lft /\ t[j].lft < t[j].rght /\ t[j].rght <= m
      /\ \A j, k \in D : In(t, j, k) => ~In(t, k, j) /\ j # k
      /\ \A j \in D : t[j].depth \in Int
      /\ \A j \in D : t[j].parent = Root => t[j].depth = 0 /\ \A k \in D : ~In(t, j, k)
      /\ \A j \in D : t[j].parent # Root =>
           /\ t[j].parent \in D /\ In(t, j, t[j].parent)
           /\ t[j].depth = t[t[j].parent].depth + 1
           /\ \A k \in D : In(t, j, k) => k = t[j].parent \/ In(t, t[j].parent, k)
  BY Nesting
<1>2. \A j \in DOMAIN u : j \in D /\ In(t, j, i) /\ L < t[j].lft /\ t[j].rght < R
  BY DEF Inside, In, IsInside
<1>3. DOMAIN u \subseteq Ids /\ R - L - 1 \in Nat /\ L \in Nat /\ R \in Nat /\ R <= m
  BY <1>1, <1>2 DEF Forests
<1>4. Bounds(u, R - L - 1)
  BY <1>1, <1>2, <1>3 DEF Bounds
<1>5. \A j, k \in DOMAIN u : /\ In(u, j, k) <=> In(t, j, k)
                             /\ Apart(u, j, k) <=> Apart(t, j, k)
  BY <1>1, <1>2, <1>3 DEF In, IsInside, Apart
<1>6. Laminar(u)
  BY <1>2, <1>5 DEF Laminar, Forests
<1>7. Filled(u, R - L - 1)
  <2> SUFFICES ASSUME NEW v \in 1..(R - L - 1)
               PROVE  \E j \in DOMAIN u : u[j].lft = v \/ u[j].rght = v
    BY DEF Filled
  <2> DEFINE w == v + L
  <2>1. w \in 1..m /\ L < w /\ w < R
    BY <1>1, <1>3
  <2>2. PICK j \in D : t[j].lft = w \/ t[j].rght = w
    BY <2>1 DEF Forests, Filled
  <2>3. j = i \/ Apart(t, j, i) \/ In(t, j, i) \/ In(t, i, j)
    BY DEF Forests, Laminar
  <2> HIDE DEF w
  <2>4. In(t, j, i)
    BY <1>1, <1>3, <2>1, <2>2, <2>3 DEF Apart, In, IsInside
  <2>5. j \in DOMAIN u
    BY <2>4 DEF Inside
  <2>6. w - L = v
    BY <1>3 DEF w
  <2> QED
    BY <2>2, <2>5, <2>6
<1>8. ASSUME NEW j \in DOMAIN u PROVE Linked(u, j)
  <2>1. j \in D /\ In(t, j, i) /\ t[j].parent # Root
    BY <1>1, <1>2
  <2> DEFINE p == t[j].parent
  <2>2. /\ p \in D /\ In(t, j, p) /\ t[j].depth = t[p].depth + 1
        /\ \A k \in D : In(t, j, k) => k = p \/ In(t, p, k)
    BY <1>1, <2>1
  <2>3. t[j].depth \in Int /\ t[i].depth \in Int /\ t[p].depth \in Int /\ i # Root
    BY <1>1, <2>1, <2>2
  <2> HIDE DEF p
  <2>4. CASE p = i
    <3>1. u[j].parent = Root /\ u[j].depth = 0
      BY <2>2, <2>3, <2>4 DEF p
    <3>2. \A k \in DOMAIN u : ~In(u, j, k)
      BY <1>1, <1>2, <1>5, <2>2, <2>4
    <3> QED
      BY <3>1, <3>2 DEF Linked
  <2>5. CASE p # i
    <3>1. In(t, p, i) /\ p \in DOMAIN u
      BY <2>1, <2>2, <2>5 DEF Inside
    <3>2. u[j].parent = p /\ p # Root
      BY <1>1, <2>2, <2>5 DEF p
    <3>3. u[j].depth \in Int /\ u[j].depth = u[p].depth + 1
      BY <2>2, <2>3, <3>1
    <3>4. In(u, j, p) /\ \A k \in DOMAIN u : In(u, j, k) => k = p \/ In(u, p, k)
      BY <1>2, <1>5, <2>2, <3>1
    <3> QED
      BY <3>1, <3>2, <3>3, <3>4 DEF Linked
  <2> QED
    BY <2>4, <2>5
<1> QED
  BY <1>3, <1>4, <1>6, <1>7, <1>8 DEF Forests

(* child_count() and is_leaf(): the width of a node counts what is below it. *)
LEMMA InsideCounts ==
  ASSUME TreeAssumption, NEW t, NEW m, Forests(t, m), NEW i \in DOMAIN t
  PROVE  /\ IsFiniteSet(Inside(t, i)) /\ Cardinality(Inside(t, i)) \in Nat
         /\ t[i].rght - t[i].lft - 1 = 2 * Cardinality(Inside(t, i))
<1> DEFINE u == [j \in Inside(t, i) |->
                   [lft |-> t[j].lft - t[i].lft, rght |-> t[j].rght - t[i].lft,
                    depth |-> t[j].depth - t[i].depth - 1,
                    parent |-> IF t[j].parent = i THEN Root ELSE t[j].parent]]
<1>1. DOMAIN u = Inside(t, i)
  OBVIOUS
<1>2. \A j \in DOMAIN u : /\ u[j].lft = t[j].lft - t[i].lft /\ u[j].rght = t[j].rght - t[i].lft
                          /\ u[j].depth = t[j].depth - t[i].depth - 1
                          /\ u[j].parent = IF t[j].parent = i THEN Root ELSE t[j].parent
  OBVIOUS
<1> HIDE DEF u
<1>3. Forests(u, t[i].rght - t[i].lft - 1)
  BY <1>1, <1>2, InsideForests
<1> QED
  BY <1>1, <1>3, Counted

(* What is below a node by the parent links is what lies inside it.         *)
Spread(f, p, g) ==
  [k \in 0..Cardinality(DOMAIN f) |->
     IF k = 0 THEN Forest!Under(f, {p}) ELSE g[k - 1] \union Forest!Under(f, g[k - 1])]
Spreads(g, f, p, n) ==
  /\ DOMAIN g = 0..n /\ g[0] = Forest!Under(f, {p})
  /\ \A k \in 1..n : g[k] = g[k - 1] \union Forest!Under(f, g[k - 1])

(* The Cardinality of the instance is that of FiniteSets.                   *)
LEMMA SameCardinality ==
  ASSUME NEW S
  PROVE  Forest!Cardinality(S) = Cardinality(S)
BY DEF Forest!Cardinality, Cardinality

(* The recursive function of Below exists: it spreads from a node to its    *)
(* children, and theirs.                                                    *)
LEMMA BelowSpreads ==
  ASSUME NEW f, NEW p \in DOMAIN f, Cardinality(DOMAIN f) \in Nat
  PROVE  \E g : Spreads(g, f, p, Cardinality(DOMAIN f)) /\ Forest!Below(f)[p] = g[Cardinality(DOMAIN f)]
<1> DEFINE N == Cardinality(DOMAIN f)
<1> DEFINE T(h, n) == h = [x \in DOMAIN h |-> h[x]] /\ Spreads(h, f, p, n)
<1> DEFINE S == {n \in 0..N : \E h : T(h, n)}
<1>1. N \in Nat
  OBVIOUS
<1>2. 0 \in S
  <2> DEFINE h == [n \in 0..0 |-> Forest!Under(f, {p})]
  <2>1. T(h, 0)
    BY DEF Spreads
  <2> QED
    BY <1>1, <2>1
<1>3. \A m \in 0..(N - 1) : m \in S => m + 1 \in S
  <2> SUFFICES ASSUME NEW m \in 0..(N - 1), m \in S PROVE \E h : T(h, m + 1)
    BY <1>1
  <2>1. PICK g : T(g, m)
    OBVIOUS
  <2> DEFINE h == [n \in 0..(m + 1) |-> IF n = m + 1 THEN g[m] \union Forest!Under(f, g[m]) ELSE g[n]]
  <2>2. DOMAIN h = 0..(m + 1) /\ h[0] = g[0] /\ h[m + 1] = g[m] \union Forest!Under(f, g[m])
        /\ \A n \in 0..m : h[n] = g[n]
    BY <1>1
  <2>3. h = [x \in DOMAIN h |-> h[x]]
    OBVIOUS
  <2> HIDE DEF h
  <2>4. ASSUME NEW k \in 1..(m + 1) PROVE h[k] = h[k - 1] \union Forest!Under(f, h[k - 1])
    <3>1. CASE k = m + 1
      BY <1>1, <2>2, <3>1
    <3>2. CASE k # m + 1
      <4>1. k \in 1..m /\ k - 1 \in 0..m /\ k \in 0..m
        BY <1>1, <3>2
      <4> QED
        BY <2>1, <2>2, <4>1 DEF Spreads
    <3> QED
      BY <3>1, <3>2
  <2>5. T(h, m + 1)
    BY <2>1, <2>2, <2>3, <2>4 DEF Spreads
  <2> QED
    BY <2>5
<1>4. N \in S
  <2> HIDE DEF S, N
  <2>1. \A m \in 0..N : m \in S
    BY <1>1, <1>2, <1>3, Upwards
  <2> QED
    BY <1>1, <2>1
<1>5. PICK h : T(h, N)
  BY <1>4
<1>6. h = Spread(f, p, h)
  <2>1. DOMAIN h = 0..N /\ \A n \in 0..N : h[n] = Spread(f, p, h)[n]
    BY <1>5 DEF Spreads, Spread
  <2>2. Spread(f, p, h) = [n \in 0..N |-> Spread(f, p, h)[n]]
    BY DEF Spread
  <2> QED
    BY <1>5, <2>1, <2>2
<1> DEFINE k == CHOOSE g : g = Spread(f, p, g)
<1>7. k = Spread(f, p, k)
  BY <1>6
<1>8. Forest!Below(f)[p] = k[N]
  <2> DEFINE M == Forest!Cardinality(DOMAIN f)
  <2> DEFINE L(q, g) == [n \in 0..M |-> IF n = 0 THEN Forest!Under(f, {q})
                                       ELSE g[n - 1] \union Forest!Under(f, g[n - 1])]
  <2>1. Forest!Below(f) = [q \in DOMAIN f |-> (CHOOSE g : g = L(q, g))[M]]
    BY DEF Forest!Below
  <2>2. M = N
    BY SameCardinality
  <2>3. \A g : L(p, g) = Spread(f, p, g)
    BY <2>2 DEF Spread
  <2> HIDE DEF L, M
  <2>4. Forest!Below(f)[p] = (CHOOSE g : g = L(p, g))[M]
    BY <2>1
  <2> QED
    BY <2>2, <2>3, <2>4
<1> HIDE DEF k
<1>9. Spreads(k, f, p, N)
  <2>1. DOMAIN k = 0..N
    BY <1>7 DEF Spread
  <2>2. \A n \in 0..N : k[n] = IF n = 0 THEN Forest!Under(f, {p})
                               ELSE k[n - 1] \union Forest!Under(f, k[n - 1])
    BY <1>7 DEF Spread
  <2>3. 0 \in 0..N /\ \A n \in 1..N : n \in 0..N /\ n # 0
    BY <1>1
  <2>4. k[0] = Forest!Under(f, {p}) /\ \A n \in 1..N : k[n] = k[n - 1] \union Forest!Under(f, k[n - 1])
    BY <2>2, <2>3
  <2> QED
    BY <2>1, <2>4 DEF Spreads
<1> QED
  BY <1>8, <1>9

(* kids gives every node the rows whose parent it is.                       *)
LEMMA BelowIsInside ==
  ASSUME TreeAssumption, NEW t, NEW m, Forests(t, m), NEW f, DOMAIN f = DOMAIN t \union {Root},
         \A S, j : j \in Forest!Under(f, S) <=> j \in DOMAIN t /\ t[j].parent \in S
  PROVE  \A i \in DOMAIN t : Forest!Below(f)[i] = Inside(t, i)
<1> DEFINE D == DOMAIN t
<1> DEFINE N == Cardinality(DOMAIN f)
<1>1. /\ \A i \in D : i # Root
      /\ \A i \in D : ~In(t, i, i)
      /\ \A i, j \in D : In(t, i, j) => ~In(t, j, i) /\ i # j
      /\ \A i, j, k \in D : In(t, i, j) /\ In(t, j, k) => In(t, i, k)
      /\ \A i \in D : t[i].parent = Root => t[i].depth = 0 /\ \A j \in D : ~In(t, i, j)
      /\ \A i \in D : t[i].parent # Root =>
           /\ t[i].parent \in D /\ In(t, i, t[i].parent)
           /\ t[i].depth = t[t[i].parent].depth + 1
           /\ \A j \in D : In(t, i, j) => j = t[i].parent \/ In(t, t[i].parent, j)
  BY Nesting
<1>2. IsFiniteSet(D) /\ Cardinality(D) \in Nat
  BY Counted
<1>3. N \in Nat /\ N = Cardinality(D) + 1
  <2>1. Root \notin D
    BY <1>1
  <2> QED
    BY <1>2, <2>1, FS_AddElement
<1>4. \A i \in D : IsFiniteSet(Over(t, i)) /\ t[i].depth = Cardinality(Over(t, i)) /\ t[i].depth \in Nat
  BY DepthCounts, FS_CardinalityType
<1>5. ASSUME NEW i \in D, NEW j \in D, In(t, j, i) PROVE t[i].depth + 1 <= t[j].depth
  <2>1. Over(t, i) \union {i} \in SUBSET Over(t, j) /\ i \notin Over(t, i)
    BY <1>1, <1>5 DEF Over
  <2>2. Cardinality(Over(t, i) \union {i}) = Cardinality(Over(t, i)) + 1
    BY <1>4, <2>1, FS_AddElement
  <2>3. Cardinality(Over(t, i) \union {i}) <= Cardinality(Over(t, j))
    BY <1>4, <2>1, FS_Subset
  <2> QED
    BY <1>4, <2>2, <2>3
<1>6. ASSUME NEW i \in D PROVE t[i].depth <= Cardinality(D)
  <2>1. Over(t, i) \in SUBSET D
    BY DEF Over
  <2>2. Cardinality(Over(t, i)) <= Cardinality(D)
    BY <1>2, <2>1, FS_Subset
  <2> QED
    BY <1>4, <2>2
<1> SUFFICES ASSUME NEW i \in D PROVE Forest!Below(f)[i] = Inside(t, i)
  OBVIOUS
<1>7. PICK g : Spreads(g, f, i, N) /\ Forest!Below(f)[i] = g[N]
  BY <1>3, BelowSpreads
<1>8. /\ g[0] = Forest!Under(f, {i})
      /\ \A k \in 1..N : g[k] = g[k - 1] \union Forest!Under(f, g[k - 1])
  BY <1>7 DEF Spreads
<1>9. \A j : j \in g[0] <=> j \in D /\ t[j].parent = i
  BY <1>8
<1>10. \A k \in 0..(N - 1) : \A j : j \in g[k + 1] <=> j \in g[k] \/ (j \in D /\ t[j].parent \in g[k])
  <2> TAKE k \in 0..(N - 1)
  <2>1. k + 1 \in 1..N /\ (k + 1) - 1 = k
    BY <1>3
  <2>2. g[k + 1] = g[k] \union Forest!Under(f, g[k])
    BY <1>8, <2>1
  <2> QED
    BY <2>2
<1> HIDE DEF D, N
<1>11. \A k \in 0..N : g[k] \subseteq Inside(t, i)
  <2> DEFINE S == {k \in 0..N : g[k] \subseteq Inside(t, i)}
  <2>1. 0 \in S
    BY <1>1, <1>3, <1>9 DEF Inside, D
  <2>2. \A k \in 0..(N - 1) : k \in S => k + 1 \in S
    <3> SUFFICES ASSUME NEW k \in 0..(N - 1), g[k] \subseteq Inside(t, i), NEW j \in g[k + 1]
                 PROVE  j \in Inside(t, i)
      BY <1>3
    <3>1. CASE j \in g[k]
      BY <3>1
    <3>2. CASE j \in D /\ t[j].parent \in g[k]
      <4>1. t[j].parent \in D /\ In(t, t[j].parent, i)
        BY <3>2 DEF Inside, D
      <4>2. In(t, j, t[j].parent)
        BY <1>1, <3>2, <4>1
      <4> QED
        BY <1>1, <3>2, <4>1, <4>2 DEF Inside, D
    <3> QED
      BY <1>10, <3>1, <3>2
  <2> HIDE DEF S
  <2>3. \A k \in 0..N : k \in S
    BY <1>3, <2>1, <2>2, Upwards
  <2> QED
    BY <2>3 DEF S
<1>12. \A k \in 0..N : \A j \in Inside(t, i) : t[j].depth <= t[i].depth + 1 + k => j \in g[k]
  <2> DEFINE S == {k \in 0..N : \A j \in Inside(t, i) : t[j].depth <= t[i].depth + 1 + k => j \in g[k]}
  <2>0. ASSUME NEW j \in Inside(t, i), t[j].parent # i
        PROVE  /\ t[j].parent \in Inside(t, i) /\ t[j].depth = t[t[j].parent].depth + 1
               /\ t[i].depth + 1 <= t[t[j].parent].depth
    <3>1. j \in D /\ In(t, j, i)
      BY DEF Inside, D
    <3>2. t[j].parent # Root
      BY <1>1, <3>1
    <3>3. /\ t[j].parent \in D /\ t[j].depth = t[t[j].parent].depth + 1 /\ In(t, t[j].parent, i)
      BY <1>1, <2>0, <3>1, <3>2
    <3> QED
      BY <1>5, <3>3 DEF Inside, D
  <2>1. 0 \in S
    <3> SUFFICES ASSUME NEW j \in Inside(t, i), t[j].depth <= t[i].depth + 1 + 0 PROVE j \in g[0]
      BY <1>3
    <3>1. j \in D /\ t[i].depth \in Nat /\ \A x \in Inside(t, i) : t[x].depth \in Nat
      BY <1>4 DEF Inside, D
    <3>2. t[j].parent = i
      BY <2>0, <3>1
    <3> QED
      BY <1>9, <3>1, <3>2
  <2>2. \A k \in 0..(N - 1) : k \in S => k + 1 \in S
    <3> SUFFICES ASSUME NEW k \in 0..(N - 1), k \in S, NEW j \in Inside(t, i), t[j].depth <= t[i].depth + 1 + (k + 1)
                 PROVE  j \in g[k + 1]
      BY <1>3
    <3>1. j \in D /\ t[i].depth \in Nat /\ \A x \in Inside(t, i) : t[x].depth \in Nat
      BY <1>4 DEF Inside, D
    <3>2. CASE t[j].parent = i
      <4>1. t[j].depth = t[i].depth + 1
        BY <1>1, <3>1, <3>2 DEF D
      <4>2. j \in g[k]
        BY <3>1, <4>1
      <4> QED
        BY <1>10, <4>2
    <3>3. CASE t[j].parent # i
      <4>1. t[j].parent \in Inside(t, i) /\ t[j].depth = t[t[j].parent].depth + 1
        BY <2>0, <3>3
      <4>2. t[t[j].parent].depth \in Nat
        BY <3>1, <4>1
      <4>3. t[t[j].parent].depth <= t[i].depth + 1 + k
        BY <3>1, <4>1, <4>2
      <4>4. t[j].parent \in g[k]
        BY <4>1, <4>3
      <4> QED
        BY <1>10, <3>1, <4>4
    <3> QED
      BY <3>2, <3>3
  <2> HIDE DEF S
  <2>3. \A k \in 0..N : k \in S
    BY <1>3, <2>1, <2>2, Upwards
  <2> QED
    BY <2>3 DEF S
<1>13. N \in 0..N /\ \A j \in Inside(t, i) : t[j].depth <= t[i].depth + 1 + N
  <2>1. \A j \in Inside(t, i) : t[j].depth \in Nat /\ t[j].depth <= Cardinality(D)
    BY <1>4, <1>6 DEF Inside, D
  <2>2. t[i].depth \in Nat
    BY <1>4
  <2> QED
    BY <1>2, <1>3, <2>1, <2>2
<1>14. \A j : j \in g[N] <=> j \in Inside(t, i)
  BY <1>11, <1>12, <1>13
<1> QED
  BY <1>7, <1>14

(* A query returns each row of its set.                                     *)
LEMMA LeftToRightSet ==
  ASSUME TreeAssumption, NEW s, NEW m, Forests(Sub(s), m), NEW S \in SUBSET InScope(s),
         NEW q, q = ByLeft(S)
  PROVE  ToSet(q) = S
<1>1. S \in SUBSET InScope(s) /\ q = ByLeft(S)
  OBVIOUS
<1>2. /\ q \in Seq(S) /\ Len(q) \in Nat
      /\ \A i \in S : \E k \in 1..Len(q) : q[k] = i
      /\ \A k, n \in 1..Len(q) : k < n <=> rows[q[k]].lft < rows[q[n]].lft
      /\ \A k, n \in 1..Len(q) : q[k] = q[n] => k = n
  BY ZenonT(60), <1>1, LeftToRight
<1>3. \A x : x \in ToSet(q) <=> \E k \in 1..Len(q) : q[k] = x
  BY <1>2 DEF ToSet
<1>4. \A k \in 1..Len(q) : q[k] \in S
  BY <1>2
<1>5. \A x : x \in ToSet(q) <=> x \in S
  BY <1>2, <1>3, <1>4
<1> QED
  BY <1>5

(* A forest's children are the rows with that parent.                       *)
LEMMA KidsAre ==
  ASSUME TreeAssumption, NEW s, NEW m, Forests(Sub(s), m)
  PROVE  /\ DOMAIN Kids(s) = InScope(s) \union {Root}
         /\ \A S, j : j \in Forest!Under(Kids(s), S) <=> j \in InScope(s) /\ rows[j].parent \in S
<1>1. /\ DOMAIN Kids(s) = InScope(s) \union {Root}
      /\ \A p \in DOMAIN Kids(s) : Kids(s)[p] = ByLeft({i \in InScope(s) : rows[i].parent = p})
  BY DEF Kids, FindChildren
<1>2. \A p \in DOMAIN Kids(s) : Forest!ToSet(Kids(s)[p]) = {i \in InScope(s) : rows[i].parent = p}
  <2> TAKE p \in DOMAIN Kids(s)
  <2> DEFINE S == {i \in InScope(s) : rows[i].parent = p}
  <2>1. S \in SUBSET InScope(s)
    OBVIOUS
  <2> DEFINE q == Kids(s)[p]
  <2>2. q = ByLeft(S)
    BY <1>1
  <2>3. Forest!ToSet(q) = ToSet(q)
    BY DEF Forest!ToSet, ToSet
  <2>4. ToSet(q) = S
    <3> HIDE DEF S, q
    <3> QED
      BY <2>1, <2>2, LeftToRightSet
  <2> QED
    BY <2>3, <2>4
<1>3. \A j \in InScope(s) : rows[j].parent \in InScope(s) \union {Root}
  BY DEF Forests, Linked, Sub
<1> DEFINE f == Kids(s)
<1>4. \A S, j : j \in Forest!Under(f, S) <=> \E p \in S \intersect DOMAIN f : j \in Forest!ToSet(f[p])
  <2> HIDE DEF f
  <2> QED
    BY DEF Forest!Under
<1> HIDE DEF f
<1>5. ASSUME NEW S, NEW j
      PROVE  j \in Forest!Under(f, S) <=> j \in InScope(s) /\ rows[j].parent \in S
  <2>1. \A p \in DOMAIN f : j \in Forest!ToSet(f[p]) <=> j \in InScope(s) /\ rows[j].parent = p
    BY <1>2 DEF f
  <2>2. DOMAIN f = InScope(s) \union {Root}
    BY <1>1 DEF f
  <2> QED
    BY <1>3, <1>4, <2>1, <2>2
<1> QED
  BY <1>1, <1>5 DEF f

(* Below of the forest of a sound scope is containment of bounds.           *)
LEMMA BelowSound ==
  ASSUME TreeAssumption, NEW s, NEW m, Forests(Sub(s), m)
  PROVE  \A i \in InScope(s) : Forest!Below(Kids(s))[i] = Inside(Sub(s), i)
<1>1. /\ DOMAIN Kids(s) = InScope(s) \union {Root}
      /\ \A S, j : j \in Forest!Under(Kids(s), S) <=> j \in InScope(s) /\ rows[j].parent \in S
  BY KidsAre
<1>2. DOMAIN Sub(s) = InScope(s) /\ \A j \in InScope(s) : Sub(s)[j] = rows[j]
  BY DEF Sub
<1> DEFINE t == Sub(s)
<1> DEFINE f == Kids(s)
<1> SUFFICES \A i \in DOMAIN t : Forest!Below(f)[i] = Inside(t, i)
  BY <1>2
<1>3. DOMAIN f = DOMAIN t \union {Root} /\ Forests(t, m)
  BY <1>1, <1>2
<1>4. \A S, j : j \in Forest!Under(f, S) <=> j \in DOMAIN t /\ t[j].parent \in S
  BY <1>1, <1>2
<1> HIDE DEF t, f
<1> QED
  BY <1>3, <1>4, BelowIsInside

(* find_descendants(), find_ancestors(), find_leaves() and find_at_depth(). *)
LEMMA DescendantsAre ==
  ASSUME TreeAssumption, NEW s, NEW m, Forests(Sub(s), m), NEW i \in InScope(s)
  PROVE  ToSet(FindDescendants(s, rows[i])) = Inside(Sub(s), i)
<1> DEFINE S == {j \in InScope(s) : IsInside(rows[j], rows[i])}
<1> DEFINE q == ByLeft(S)
<1>1. S = Inside(Sub(s), i)
  BY DEF Inside, Sub, In
<1>2. S \in SUBSET InScope(s) /\ q = ByLeft(S)
  OBVIOUS
<1>3. FindDescendants(s, rows[i]) = q
  BY DEF FindDescendants
<1>4. ToSet(q) = S
  <2> HIDE DEF S, q
  <2> QED
    BY <1>2, LeftToRightSet
<1> QED
  BY <1>1, <1>3, <1>4

(* find_ancestors() and the path to a node: the rows around it.             *)
LEMMA AncestorsAre ==
  ASSUME TreeAssumption, NEW s, NEW m, Forests(Sub(s), m), NEW i \in InScope(s)
  PROVE  ToSet(FindAncestors(s, rows[i])) \ {i} = Over(Sub(s), i)
<1> DEFINE S == {j \in InScope(s) : rows[j].lft <= rows[i].lft /\ rows[j].rght >= rows[i].rght}
<1> DEFINE q == ByLeft(S)
<1>1. S \in SUBSET InScope(s) /\ q = ByLeft(S)
  OBVIOUS
<1>2. FindAncestors(s, rows[i]) = q
  BY DEF FindAncestors
<1>3. ToSet(q) = S
  <2> HIDE DEF S, q
  <2> QED
    BY <1>1, LeftToRightSet
<1>4. /\ \A j \in InScope(s) : j # i => \/ rows[j].rght < rows[i].lft \/ rows[i].rght < rows[j].lft
                                        \/ IsInside(rows[i], rows[j]) \/ IsInside(rows[j], rows[i])
      /\ \A j \in InScope(s) : /\ rows[j].lft \in Nat /\ rows[j].rght \in Nat
                               /\ rows[j].lft < rows[j].rght
  BY DEF Sub, Forests, Bounds, Laminar, Apart, In
<1>5. ASSUME NEW j \in InScope(s)
      PROVE  j \in S /\ j # i <=> IsInside(rows[i], rows[j])
  <2>1. /\ rows[j].lft \in Nat /\ rows[j].rght \in Nat /\ rows[j].lft < rows[j].rght
        /\ rows[i].lft \in Nat /\ rows[i].rght \in Nat /\ rows[i].lft < rows[i].rght
    BY <1>4
  <2>2. j # i => \/ rows[j].rght < rows[i].lft \/ rows[i].rght < rows[j].lft
                 \/ IsInside(rows[i], rows[j]) \/ IsInside(rows[j], rows[i])
    BY <1>4
  <2> QED
    BY <2>1, <2>2 DEF IsInside
<1>6. S \ {i} = {j \in InScope(s) : IsInside(rows[i], rows[j])}
  <2>1. S \subseteq InScope(s)
    OBVIOUS
  <2> HIDE DEF S
  <2> QED
    BY <1>5, <2>1
<1>7. Over(Sub(s), i) = {j \in InScope(s) : IsInside(rows[i], rows[j])}
  BY DEF Over, Sub, In
<1> QED
  BY <1>2, <1>3, <1>6, <1>7

(* find_at_depth() with the depth of a row finds it.                        *)
LEMMA AtDepthIs ==
  ASSUME TreeAssumption, NEW s, NEW m, Forests(Sub(s), m), NEW i \in InScope(s)
  PROVE  i \in ToSet(FindAtDepth(s, rows[i].depth))
<1> DEFINE S == {j \in InScope(s) : rows[j].depth = rows[i].depth}
<1> DEFINE q == ByLeft(S)
<1>1. S \in SUBSET InScope(s) /\ q = ByLeft(S) /\ i \in S
  OBVIOUS
<1>2. FindAtDepth(s, rows[i].depth) = q
  BY DEF FindAtDepth
<1>3. ToSet(q) = S
  <2> HIDE DEF S, q
  <2> QED
    BY <1>1, LeftToRightSet
<1> QED
  BY <1>1, <1>2, <1>3

(* find_leaves() finds the rows with nothing below them.                    *)
LEMMA LeavesAre ==
  ASSUME TreeAssumption, NEW s, NEW m, Forests(Sub(s), m), NEW i \in InScope(s)
  PROVE  i \in ToSet(FindLeaves(s)) <=> Inside(Sub(s), i) = {}
<1> DEFINE S == {j \in InScope(s) : IsLeaf(rows[j])}
<1> DEFINE q == ByLeft(S)
<1>1. S \in SUBSET InScope(s) /\ q = ByLeft(S)
  OBVIOUS
<1>2. FindLeaves(s) = q
  BY DEF FindLeaves
<1>3. ToSet(q) = S
  <2> HIDE DEF S, q
  <2> QED
    BY <1>1, LeftToRightSet
<1>4. DOMAIN Sub(s) = InScope(s) /\ Sub(s)[i] = rows[i]
  BY DEF Sub
<1> DEFINE t == Sub(s)
<1> DEFINE I == Inside(t, i)
<1>5. /\ t[i].lft \in Nat /\ t[i].rght \in Nat
      /\ IsFiniteSet(I) /\ Cardinality(I) \in Nat /\ t[i].rght - t[i].lft - 1 = 2 * Cardinality(I)
  BY <1>4, InsideCounts, Nesting
<1>6. Cardinality(I) = 0 <=> I = {}
  <2> HIDE DEF I
  <2> QED
    BY <1>5, FS_EmptySet
<1>7. IsLeaf(rows[i]) <=> Cardinality(I) = 0
  <2> DEFINE c == Cardinality(I)
  <2>1. rows[i].rght - rows[i].lft - 1 = 2 * c /\ c \in Nat /\ rows[i].lft \in Nat /\ rows[i].rght \in Nat
    BY <1>4, <1>5
  <2> HIDE DEF c
  <2>2. rows[i].rght - rows[i].lft = 1 <=> c = 0
    BY <2>1
  <2> QED
    BY <2>2 DEF c, IsLeaf
<1>8. i \in S <=> IsLeaf(rows[i])
  OBVIOUS
<1> QED
  BY <1>2, <1>3, <1>6, <1>7, <1>8

(* child_count() is the number of rows below a node.                        *)
LEMMA ChildCountIs ==
  ASSUME TreeAssumption, NEW s, NEW m, Forests(Sub(s), m), NEW i \in InScope(s)
  PROVE  ChildCount(rows[i]) = Cardinality(Inside(Sub(s), i))
<1>1. DOMAIN Sub(s) = InScope(s) /\ Sub(s)[i] = rows[i]
  BY DEF Sub
<1> DEFINE c == Cardinality(Inside(Sub(s), i))
<1>2. c \in Nat /\ rows[i].rght - rows[i].lft - 1 = 2 * c
  BY <1>1, InsideCounts
<1> HIDE DEF c
<1>3. (2 * c) \div 2 = c
  BY <1>2
<1> QED
  BY <1>2, <1>3 DEF ChildCount, c

(* validate_tree() has nothing to report of a sound table.                  *)
LEMMA NoneInvalid ==
  ASSUME NEW s, NEW m, Forests(Sub(s), m)
  PROVE  Invalid(s) = {}
<1>1. /\ \A i, j \in InScope(s) : j # i => \/ rows[j].rght < rows[i].lft \/ rows[i].rght < rows[j].lft
                                           \/ IsInside(rows[i], rows[j]) \/ IsInside(rows[j], rows[i])
      /\ \A j \in InScope(s) : /\ rows[j].lft \in Nat /\ rows[j].rght \in Nat
                               /\ 1 <= rows[j].lft /\ rows[j].lft < rows[j].rght
  BY DEF Sub, Forests, Bounds, Laminar, Apart, In
<1>2. ASSUME NEW i \in InScope(s), NEW j \in InScope(s), rows[i].lft <= rows[j].lft, i # j,
             rows[j].lft < rows[i].rght
      PROVE  ~(rows[j].rght > rows[i].rght)
  <2>1. /\ rows[j].lft \in Nat /\ rows[j].rght \in Nat /\ rows[j].lft < rows[j].rght
        /\ rows[i].lft \in Nat /\ rows[i].rght \in Nat /\ rows[i].lft < rows[i].rght
    BY <1>1
  <2>2. \/ rows[j].rght < rows[i].lft \/ rows[i].rght < rows[j].lft
        \/ IsInside(rows[i], rows[j]) \/ IsInside(rows[j], rows[i])
    BY <1>1, <1>2
  <2> QED
    BY <1>2, <2>1, <2>2 DEF IsInside
<1>3. \A i \in InScope(s) : ~(rows[i].lft >= rows[i].rght) /\ ~(rows[i].lft < 1)
  BY <1>1
<1> QED
  BY <1>2, <1>3 DEF Invalid

-----------------------------------------------------------------------------
(* to_threaded().  The stack after j is j on top of the open rows from the  *)
(* first that contains j.                                                   *)
Holding(j, x) == rows[j].lft < rows[x].rght
NestsUnder(j, before, after, at) ==
  /\ at \in 1..Len(before) /\ Holding(j, before[at])
  /\ \A a \in 1..Len(before) : Holding(j, before[a]) => at <= a
  /\ Len(after) = Len(before) - at + 2 /\ after[1] = j
  /\ \A a \in 2..(Len(before) - at + 2) : after[a] = before[at + a - 2]

FirstOver(q, j) == SelectInSeq(q, LAMBDA x : rows[j].lft < rows[x].rght)

(* SelectInSeq finds the first open row that reaches past the left bound of *)
(* j,                                                                       *)
LEMMA FirstHolding ==
  ASSUME NEW q, Len(q) \in Nat, NEW j, NEW a \in 1..Len(q), Holding(j, q[a])
  PROVE  /\ FirstOver(q, j) \in 1..Len(q) /\ Holding(j, q[FirstOver(q, j)])
         /\ \A b \in 1..Len(q) : Holding(j, q[b]) => FirstOver(q, j) <= b
<1> DEFINE I == {b \in 1..Len(q) : Holding(j, q[b])}
<1> DEFINE at == FirstOver(q, j)
<1> DEFINE Least(b) == b \in I /\ \A c \in I : b <= c
<1>1. I # {} /\ I \subseteq Nat
  OBVIOUS
<1>2. at = CHOOSE b : Least(b)
  <2>1. I = {b \in 1..Len(q) : rows[j].lft < rows[q[b]].rght}
    BY DEF Holding
  <2>2. at = Min(I)
    BY <1>1, <2>1 DEF SelectInSeq, FirstOver
  <2>3. Min(I) = CHOOSE b \in I : \A c \in I : b <= c
    BY DEF Min
  <2> QED
    BY <2>2, <2>3
<1>3. \E b : Least(b)
  <2> HIDE DEF I
  <2>1. PICK b \in I : \A c \in I : ~(<<c, b>> \in OpToRel(<, Nat))
    BY <1>1, NatLessThanWellFounded, WFMin
  <2>2. \A c \in I : b <= c
    <3> SUFFICES ASSUME NEW c \in I, ~(b <= c) PROVE FALSE
      OBVIOUS
    <3>1. b \in Nat /\ c \in Nat /\ c < b
      BY <1>1
    <3>2. <<c, b>> \in OpToRel(<, Nat)
      BY <3>1 DEF OpToRel
    <3> QED
      BY <2>1, <3>2
  <2> QED
    BY <2>2
<1>4. Least(at)
  <2> HIDE DEF Least
  <2> QED
    BY <1>2, <1>3
<1> HIDE DEF at
<1>5. at \in 1..Len(q) /\ Holding(j, q[at]) /\ \A b \in 1..Len(q) : Holding(j, q[b]) => at <= b
  BY <1>4
<1> QED
  BY <1>5 DEF at

(* and 0 when there is none.                                                *)
LEMMA NoneHolding ==
  ASSUME NEW q, Len(q) \in Nat, NEW j, \A a \in 1..Len(q) : ~Holding(j, q[a])
  PROVE  FirstOver(q, j) = 0
<1>1. {b \in 1..Len(q) : rows[j].lft < rows[q[b]].rght} = {}
  BY DEF Holding
<1> QED
  BY <1>1 DEF SelectInSeq, FirstOver

(* When no open row contains j, j is a root and alone on the stack;         *)
LEMMA NestRoot ==
  ASSUME NEW S, NEW acc, acc.open \in Seq(S), NEW j \in S,
         \A a \in 1..Len(acc.open) : ~Holding(j, acc.open[a])
  PROVE  /\ Nest(acc, j).open = <<j>>
         /\ Nest(acc, j).under = [acc.under EXCEPT ![j] = Root]
<1>1. FirstOver(acc.open, j) = 0
  <2> DEFINE q == acc.open
  <2>1. Len(q) \in Nat /\ \A a \in 1..Len(q) : ~Holding(j, q[a])
    OBVIOUS
  <2> HIDE DEF q
  <2>2. FirstOver(q, j) = 0
    BY <2>1, NoneHolding
  <2> QED
    BY <2>2 DEF q
<1>2. Nest(acc, j) = [open |-> <<j>> \o <<>>, under |-> [acc.under EXCEPT ![j] = Root]]
  BY <1>1 DEF Nest, FirstOver, SelectInSeq
<1>3. <<j>> \o <<>> = <<j>>
  BY ConcatEmptySeq
<1> QED
  BY <1>2, <1>3

(* otherwise it goes below the first that does.                             *)
LEMMA NestUnder ==
  ASSUME NEW S, NEW acc, acc.open \in Seq(S), NEW j \in S,
         NEW c \in 1..Len(acc.open), Holding(j, acc.open[c])
  PROVE  \E at : /\ NestsUnder(j, acc.open, Nest(acc, j).open, at)
                 /\ Nest(acc, j).open \in Seq(S)
                 /\ Nest(acc, j).under = [acc.under EXCEPT ![j] = acc.open[at]]
<1> DEFINE q == acc.open
<1> DEFINE at == FirstOver(q, j)
<1> DEFINE n == Len(q)
<1> DEFINE rest == SubSeq(q, at, n)
<1>1. n \in Nat /\ q \in Seq(S) /\ \A a \in 1..n : q[a] \in S
  OBVIOUS
<1>2. /\ at \in 1..n /\ Holding(j, q[at])
      /\ \A b \in 1..n : Holding(j, q[b]) => at <= b
  <2> HIDE DEF q
  <2>1. Len(q) \in Nat /\ c \in 1..Len(q) /\ Holding(j, q[c])
    BY <1>1 DEF q
  <2> QED
    BY <2>1, FirstHolding
<1>3. Nest(acc, j) = [open |-> <<j>> \o rest,
                      under |-> [acc.under EXCEPT ![j] = IF rest = <<>> THEN Root ELSE rest[1]]]
  <2>1. at # 0
    BY <1>2
  <2> QED
    BY <2>1 DEF Nest, FirstOver, SelectInSeq
<1> HIDE DEF at
<1>4. rest \in Seq(S) /\ Len(rest) = n - at + 1 /\ \A b \in 1..(n - at + 1) : rest[b] = q[at + b - 1]
  <2>1. at \in Int /\ n \in Int /\ at <= n /\ \A a \in at..n : q[a] \in S
    BY <1>1, <1>2
  <2> HIDE DEF q, n
  <2> QED
    BY <2>1, SubSeqProperties
<1> HIDE DEF rest
<1>5. rest # <<>> /\ rest[1] = q[at]
  BY <1>1, <1>2, <1>4
<1> DEFINE r == <<j>> \o rest
<1>6. Nest(acc, j).open = r /\ Nest(acc, j).under = [acc.under EXCEPT ![j] = q[at]]
  <2> HIDE DEF q
  <2> QED
    BY <1>3, <1>5
<1>7. /\ r \in Seq(S) /\ Len(r) = 1 + Len(rest)
      /\ \A b \in 1..(1 + Len(rest)) : r[b] = IF b <= 1 THEN j ELSE rest[b - 1]
  BY <1>4, ConcatProperties
<1> HIDE DEF r, n
<1>8. \A a \in 2..(n - at + 2) : r[a] = q[at + a - 2]
  <2> TAKE a \in 2..(n - at + 2)
  <2>1. a \in 1..(1 + Len(rest)) /\ ~(a <= 1) /\ a - 1 \in 1..(n - at + 1) /\ at + (a - 1) - 1 = at + a - 2
    BY <1>1, <1>2, <1>4
  <2>2. r[a] = rest[a - 1] /\ rest[a - 1] = q[at + (a - 1) - 1]
    BY <1>4, <1>7, <2>1
  <2> QED
    BY <2>1, <2>2
<1>9. Len(r) = n - at + 2 /\ r[1] = j
  BY <1>1, <1>2, <1>4, <1>7
<1>10. NestsUnder(j, q, r, at)
  <2> HIDE DEF q
  <2> QED
    BY <1>2, <1>8, <1>9 DEF NestsUnder, n
<1> QED
  BY <1>6, <1>7, <1>10

Bare(q) == [open |-> <<>>, under |-> [i \in ToSet(q) |-> Root]]
Threading(q, g) == [k \in 0..Len(q) |-> IF k = 0 THEN Bare(q) ELSE Nest(g[k - 1], q[k])]
Threads(g, q, n) ==
  /\ DOMAIN g = 0..n /\ g[0] = Bare(q)
  /\ \A k \in 1..n : g[k] = Nest(g[k - 1], q[k])

(* The recursive function of Threaded exists: it is a run of the loop of    *)
(* to_threaded().                                                           *)
LEMMA ThreadedLoops ==
  ASSUME NEW q, Len(q) \in Nat
  PROVE  \E g : Threads(g, q, Len(q)) /\ Threaded(q) = g[Len(q)].under
<1> DEFINE N == Len(q)
<1> DEFINE T(h, n) == h = [x \in DOMAIN h |-> h[x]] /\ Threads(h, q, n)
<1> DEFINE S == {n \in 0..N : \E h : T(h, n)}
<1>1. N \in Nat
  OBVIOUS
<1>2. 0 \in S
  <2> DEFINE h == [n \in 0..0 |-> Bare(q)]
  <2>1. T(h, 0)
    BY DEF Threads
  <2> QED
    BY <1>1, <2>1
<1>3. \A m \in 0..(N - 1) : m \in S => m + 1 \in S
  <2> SUFFICES ASSUME NEW m \in 0..(N - 1), m \in S PROVE \E h : T(h, m + 1)
    BY <1>1
  <2>1. PICK g : T(g, m)
    OBVIOUS
  <2> DEFINE h == [n \in 0..(m + 1) |-> IF n = m + 1 THEN Nest(g[m], q[m + 1]) ELSE g[n]]
  <2>2. DOMAIN h = 0..(m + 1) /\ h[0] = g[0] /\ h[m + 1] = Nest(g[m], q[m + 1])
        /\ \A n \in 0..m : h[n] = g[n]
    BY <1>1
  <2>3. h = [x \in DOMAIN h |-> h[x]]
    OBVIOUS
  <2> HIDE DEF h
  <2>4. ASSUME NEW k \in 1..(m + 1) PROVE h[k] = Nest(h[k - 1], q[k])
    <3>1. CASE k = m + 1
      <4>1. k - 1 = m /\ m \in 0..m
        BY <1>1, <3>1
      <4>2. h[k - 1] = g[m]
        BY <2>2, <4>1
      <4> QED
        BY <2>2, <3>1, <4>2
    <3>2. CASE k # m + 1
      <4>1. k \in 1..m /\ k - 1 \in 0..m /\ k \in 0..m
        BY <1>1, <3>2
      <4> QED
        BY <2>1, <2>2, <4>1 DEF Threads
    <3> QED
      BY <3>1, <3>2
  <2>5. T(h, m + 1)
    BY <2>1, <2>2, <2>3, <2>4 DEF Threads
  <2> QED
    BY <2>5
<1>4. N \in S
  <2> HIDE DEF S, N
  <2>1. \A m \in 0..N : m \in S
    BY <1>1, <1>2, <1>3, Upwards
  <2> QED
    BY <1>1, <2>1
<1>5. PICK h : T(h, N)
  BY <1>4
<1>6. h = Threading(q, h)
  <2>1. DOMAIN h = 0..N /\ \A n \in 0..N : h[n] = Threading(q, h)[n]
    BY <1>5 DEF Threads, Threading
  <2>2. Threading(q, h) = [n \in 0..N |-> Threading(q, h)[n]]
    BY DEF Threading
  <2> QED
    BY <1>5, <2>1, <2>2
<1> DEFINE k == CHOOSE g : g = Threading(q, g)
<1>7. k = Threading(q, k)
  BY <1>6
<1>8. Threaded(q) = k[N].under
  BY DEF Threaded, Threading, Bare
<1> HIDE DEF k
<1>9. Threads(k, q, N)
  <2>1. DOMAIN k = 0..N
    BY <1>7 DEF Threading
  <2>2. \A n \in 0..N : k[n] = IF n = 0 THEN Bare(q) ELSE Nest(k[n - 1], q[n])
    BY <1>7 DEF Threading
  <2>3. 0 \in 0..N /\ \A n \in 1..N : n \in 0..N /\ n # 0
    BY <1>1
  <2>4. k[0] = Bare(q) /\ \A n \in 1..N : k[n] = Nest(k[n - 1], q[n])
    BY <2>2, <2>3
  <2> QED
    BY <2>1, <2>4 DEF Threads
<1> QED
  BY <1>8, <1>9

(* After k rows: the open rows are the last one and the rows around it,     *)
(* innermost first, and each row so far is under its parent.                *)
Above(t, i, j) == IF t[j].parent = i THEN Root ELSE t[j].parent
Open(t, i, q, k, open) ==
  /\ open \in Seq(Inside(t, i)) /\ Len(open) \in Nat
  /\ k = 0 => Len(open) = 0
  /\ k > 0 => Len(open) > 0 /\ open[1] = q[k]
  /\ \A a, b \in 1..Len(open) : a < b => In(t, open[a], open[b])
  /\ \A n \in 1..k : q[n] = q[k] \/ In(t, q[k], q[n]) => \E a \in 1..Len(open) : open[a] = q[n]
Hangs(t, i, q, k, under) ==
  /\ DOMAIN under = Inside(t, i)
  /\ \A n \in 1..k : under[q[n]] = Above(t, i, q[n])

Walks(t, i, q) ==
  /\ \A x, y \in DOMAIN t : Holding(x, y) <=> t[x].lft < t[y].rght
  /\ q \in Seq(Inside(t, i)) /\ Len(q) \in Nat
  /\ \A x \in Inside(t, i) : \E a \in 1..Len(q) : q[a] = x
  /\ \A a, b \in 1..Len(q) : a < b <=> t[q[a]].lft < t[q[b]].lft
  /\ \A a, b \in 1..Len(q) : q[a] = q[b] => a = b

(* One turn of the loop: the rows that are popped end before j, so that the *)
(* row left on top is the parent of j.                                      *)
LEMMA ThreadStep ==
  ASSUME NEW t, NEW m, Forests(t, m), NEW i \in DOMAIN t,
         NEW q, Walks(t, i, q),
         NEW k \in 0..(Len(q) - 1), NEW acc,
         Open(t, i, q, k, acc.open), Hangs(t, i, q, k, acc.under)
  PROVE  /\ Open(t, i, q, k + 1, Nest(acc, q[k + 1]).open)
         /\ Hangs(t, i, q, k + 1, Nest(acc, q[k + 1]).under)
<1> DEFINE D == Inside(t, i)
<1> DEFINE j == q[k + 1]
<1> DEFINE w == acc.open
<1>1. /\ \A x \in DOMAIN t : /\ t[x].lft \in Nat /\ t[x].rght \in Nat /\ x # Root
                             /\ t[x].lft < t[x].rght
      /\ \A x \in DOMAIN t : ~In(t, x, x)
      /\ \A x, y \in DOMAIN t : In(t, x, y) => ~In(t, y, x) /\ x # y
      /\ \A x, y, z \in DOMAIN t : In(t, x, y) /\ In(t, y, z) => In(t, x, z)
      /\ \A x \in DOMAIN t : t[x].parent = Root => \A y \in DOMAIN t : ~In(t, x, y)
      /\ \A x \in DOMAIN t : t[x].parent # Root =>
           /\ t[x].parent \in DOMAIN t /\ In(t, x, t[x].parent)
           /\ \A y \in DOMAIN t : In(t, x, y) => y = t[x].parent \/ In(t, t[x].parent, y)
  BY Nesting
<1>2. /\ \A x : x \in D <=> x \in DOMAIN t /\ In(t, x, i)
      /\ k \in Nat /\ k + 1 \in 1..Len(q) /\ k + 1 > 0 /\ \A n \in 1..(k + 1) : n = k + 1 \/ n \in 1..k
      /\ \A n \in 1..k : n \in 1..Len(q) /\ n < k + 1 /\ n \in 1..(k + 1)
      /\ \A n \in 1..Len(q) : q[n] \in D
  <2>1. q \in Seq(D) /\ Len(q) \in Nat
    BY DEF Walks
  <2>2. \A n \in 1..Len(q) : q[n] \in D
    <3> HIDE DEF D
    <3> QED
      BY <2>1
  <2>3. \A x : x \in D <=> x \in DOMAIN t /\ In(t, x, i)
    BY DEF Inside
  <2> HIDE DEF D
  <2>4. /\ k \in Nat /\ k + 1 \in 1..Len(q) /\ k + 1 > 0
        /\ \A n \in 1..(k + 1) : n = k + 1 \/ n \in 1..k
    BY <2>1
  <2>5. \A n \in 1..k : n \in 1..Len(q) /\ n < k + 1 /\ n \in 1..(k + 1)
    BY <2>1
  <2> QED
    BY <2>2, <2>3, <2>4, <2>5
<1>0. /\ Len(q) \in Nat /\ \A x \in D : \E a \in 1..Len(q) : q[a] = x
      /\ \A a, b \in 1..Len(q) : a < b <=> t[q[a]].lft < t[q[b]].lft
      /\ \A a, b \in 1..Len(q) : q[a] = q[b] => a = b
  BY DEF Walks
<1>3. j \in D
  BY <1>2
<1>4. /\ w \in Seq(D) /\ Len(w) \in Nat /\ \A a \in 1..Len(w) : w[a] \in D
      /\ k = 0 => Len(w) = 0
      /\ k > 0 => Len(w) > 0 /\ w[1] = q[k]
      /\ \A a, b \in 1..Len(w) : a < b => In(t, w[a], w[b])
      /\ \A n \in 1..k : q[n] = q[k] \/ In(t, q[k], q[n]) => \E a \in 1..Len(w) : w[a] = q[n]
  BY DEF Open
<1> HIDE DEF D, j, w
<1>5. \A x, y \in DOMAIN t : /\ In(t, x, y) <=> t[y].lft < t[x].lft /\ t[x].rght < t[y].rght
                             /\ In(t, x, y) => Holding(x, y)
                             /\ Holding(x, y) /\ t[y].lft < t[x].lft => In(t, x, y)
  <2> TAKE x, y \in DOMAIN t
  <2>1. /\ t[x].lft \in Nat /\ t[x].rght \in Nat /\ t[x].lft < t[x].rght
        /\ t[y].lft \in Nat /\ t[y].rght \in Nat /\ t[y].lft < t[y].rght
    BY <1>1
  <2>2. x = y \/ Apart(t, x, y) \/ In(t, x, y) \/ In(t, y, x)
    BY DEF Forests, Laminar
  <2>3. Holding(x, y) <=> t[x].lft < t[y].rght
    BY DEF Walks
  <2> QED
    BY <2>1, <2>2, <2>3 DEF In, IsInside, Apart
<1>6. ASSUME NEW a \in 1..Len(w), Holding(j, w[a]) PROVE In(t, j, w[a])
  <2>1. k > 0 /\ k \in 1..k /\ 1 \in 1..Len(w) /\ w[1] = q[k] /\ a \in Nat
    BY <1>2, <1>4
  <2>2. t[q[k]].lft < t[j].lft
    BY <1>0, <1>2, <2>1 DEF j
  <2>3. w[a] \in DOMAIN t /\ q[k] \in DOMAIN t /\ j \in DOMAIN t
    BY <1>2, <1>3, <1>4, <2>1
  <2>4. a = 1 \/ In(t, q[k], w[a])
    BY <1>4, <2>1
  <2>5. t[w[a]].lft \in Nat /\ t[q[k]].lft \in Nat /\ t[j].lft \in Nat
    BY <1>1, <2>3
  <2>6. t[w[a]].lft < t[j].lft
    <3>1. CASE a = 1
      BY <2>1, <2>2, <3>1
    <3>2. CASE In(t, q[k], w[a])
      <4>1. t[w[a]].lft < t[q[k]].lft
        BY <1>5, <2>3, <3>2
      <4> QED
        BY <2>2, <2>5, <4>1
    <3> QED
      BY <2>4, <3>1, <3>2
  <2> QED
    BY <1>5, <1>6, <2>3, <2>6
<1>7. ASSUME NEW x \in D, In(t, j, x)
      PROVE  Holding(j, x) /\ \E a \in 1..Len(w) : w[a] = x
  <2>1. PICK n \in 1..Len(q) : q[n] = x
    BY <1>0
  <2>2. x \in DOMAIN t /\ j \in DOMAIN t
    BY <1>2, <1>3
  <2>3. t[x].lft < t[j].lft /\ t[j].rght < t[x].rght /\ Holding(j, x)
    BY <1>5, <1>7, <2>2
  <2>4. n < k + 1
    BY <1>0, <1>2, <2>1, <2>3 DEF j
  <2>5. n \in 1..k /\ k \in 1..k /\ (n = k \/ n < k)
    BY <1>0, <1>2, <2>4
  <2>6. q[k] \in DOMAIN t /\ t[q[k]].lft < t[j].lft
    BY <1>0, <1>2, <2>5 DEF j
  <2>7. n = k \/ t[x].lft < t[q[k]].lft
    BY <1>0, <1>2, <2>1, <2>5
  <2>8. x = q[k] \/ In(t, q[k], x)
    <3> SUFFICES ASSUME t[x].lft < t[q[k]].lft PROVE In(t, q[k], x)
      BY <2>1, <2>7
    <3>1. /\ t[x].lft \in Nat /\ t[x].rght \in Nat /\ t[q[k]].lft \in Nat
          /\ t[j].lft \in Nat /\ t[j].rght \in Nat /\ t[j].lft < t[j].rght
      BY <1>1, <2>2, <2>6
    <3>2. t[q[k]].lft < t[x].rght
      BY <2>3, <2>6, <3>1
    <3>3. Holding(q[k], x)
      BY <2>2, <2>6, <3>2 DEF Walks
    <3> QED
      BY <1>5, <2>2, <2>6, <3>3
  <2> QED
    BY <1>4, <2>1, <2>3, <2>5, <2>8
<1> DEFINE p == t[j].parent
<1>8. /\ p # i => p \in D /\ In(t, j, p)
      /\ \A x \in D : In(t, j, x) => p # i /\ (x = p \/ In(t, p, x))
      /\ Above(t, i, j) = IF p = i THEN Root ELSE p
  <2>1. j \in DOMAIN t /\ In(t, j, i)
    BY <1>2, <1>3
  <2>2. p # Root /\ p \in DOMAIN t /\ In(t, j, p)
    BY <1>1, <2>1
  <2>3. p = i \/ In(t, p, i)
    BY <1>1, <2>1, <2>2
  <2>4. ASSUME NEW x \in D, In(t, j, x) PROVE p # i /\ (x = p \/ In(t, p, x))
    <3>1. x \in DOMAIN t /\ In(t, x, i)
      BY <1>2
    <3>2. x = p \/ In(t, p, x)
      BY <1>1, <2>1, <2>2, <2>4, <3>1
    <3>3. p # i
      BY <1>1, <3>1, <3>2
    <3> QED
      BY <3>2, <3>3
  <2>5. Above(t, i, j) = IF p = i THEN Root ELSE p
    BY DEF Above
  <2> HIDE DEF p
  <2> QED
    BY <1>2, <2>2, <2>3, <2>4, <2>5
<1> HIDE DEF p
<1> DEFINE v == Nest(acc, j).open
<1> DEFINE under == Nest(acc, j).under
<1>9. v \in Seq(D) /\ Len(v) \in Nat /\ Len(v) > 0 /\ v[1] = j
      /\ (\A a, b \in 1..Len(v) : a < b => In(t, v[a], v[b]))
      /\ (\A x \in D : x = j \/ In(t, j, x) => \E a \in 1..Len(v) : v[a] = x)
      /\ under = [acc.under EXCEPT ![j] = Above(t, i, j)]
  <2>1. CASE \A a \in 1..Len(w) : ~Holding(j, w[a])
    <3>1. v = <<j>> /\ under = [acc.under EXCEPT ![j] = Root]
      <4>1. /\ acc.open \in Seq(D) /\ j \in D
            /\ \A a \in 1..Len(acc.open) : ~Holding(j, acc.open[a])
        BY <1>3, <1>4, <2>1 DEF w
      <4> QED
        BY <4>1, NestRoot, ZenonT(90)
    <3>2. \A x \in D : ~In(t, j, x)
      BY <1>7, <2>1
    <3>3. Above(t, i, j) = Root
      BY <1>8, <3>2
    <3> HIDE DEF v, under
    <3>4. Len(v) = 1 /\ v[1] = j /\ v \in Seq(D)
      BY <1>3, <3>1
    <3> QED
      BY <3>1, <3>2, <3>3, <3>4
  <2>2. CASE \E a \in 1..Len(w) : Holding(j, w[a])
    <3>1. PICK at : NestsUnder(j, w, v, at) /\ v \in Seq(D) /\ under = [acc.under EXCEPT ![j] = w[at]]
      <4>1. PICK c \in 1..Len(w) : Holding(j, w[c])
        BY <2>2
      <4>2. acc.open \in Seq(D) /\ j \in D /\ c \in 1..Len(acc.open) /\ Holding(j, acc.open[c])
        BY <1>3, <1>4, <4>1 DEF w
      <4>3. \E at : /\ NestsUnder(j, acc.open, Nest(acc, j).open, at)
                    /\ Nest(acc, j).open \in Seq(D)
                    /\ Nest(acc, j).under = [acc.under EXCEPT ![j] = acc.open[at]]
        BY ZenonT(60), <4>2, NestUnder
      <4> QED
        BY <4>3 DEF w
    <3>2. /\ at \in 1..Len(w) /\ Holding(j, w[at])
          /\ \A a \in 1..Len(w) : Holding(j, w[a]) => at <= a
          /\ Len(v) = Len(w) - at + 2 /\ v[1] = j
          /\ \A a \in 2..(Len(w) - at + 2) : v[a] = w[at + a - 2]
      BY <3>1 DEF NestsUnder
    <3>3. v \in Seq(D) /\ under = [acc.under EXCEPT ![j] = w[at]]
      BY <3>1
    <3> HIDE DEF v, under
    <3>4. Len(v) \in Nat /\ Len(v) > 0
      BY <1>4, <3>2
    <3>5. \A a \in 2..Len(v) : at + a - 2 \in 1..Len(w) /\ v[a] = w[at + a - 2]
      BY <1>4, <3>2
    <3>6. In(t, j, w[at]) /\ w[at] \in D
      BY <1>4, <1>6, <3>2
    <3>7. \A b \in at..Len(w) : b \in 1..Len(w) /\ (b = at \/ In(t, w[at], w[b])) /\ w[b] \in D
      BY <1>4, <3>2
    <3>8. \A b \in at..Len(w) : In(t, j, w[b])
      <4> TAKE b \in at..Len(w)
      <4>1. j \in DOMAIN t /\ w[at] \in DOMAIN t /\ w[b] \in DOMAIN t
        BY <1>2, <1>3, <3>6, <3>7
      <4> QED
        BY <1>1, <3>6, <3>7, <4>1
    <3>9. ASSUME NEW a \in 1..Len(v), NEW b \in 1..Len(v), a < b PROVE In(t, v[a], v[b])
      <4>1. b \in 2..Len(v) /\ at + b - 2 \in at..Len(w) /\ v[b] = w[at + b - 2]
        BY <1>4, <3>2, <3>5, <3>9
      <4>2. CASE a = 1
        BY <3>2, <3>8, <4>1, <4>2
      <4>3. CASE a # 1
        <5>1. a \in 2..Len(v) /\ at + a - 2 < at + b - 2
          BY <1>4, <3>2, <3>4, <3>9, <4>3
        <5>2. v[a] = w[at + a - 2] /\ at + a - 2 \in 1..Len(w) /\ at + b - 2 \in 1..Len(w)
          BY <3>5, <4>1, <5>1
        <5> DEFINE x == at + a - 2
        <5> DEFINE y == at + b - 2
        <5>3. x \in 1..Len(w) /\ y \in 1..Len(w) /\ x < y /\ v[a] = w[x] /\ v[b] = w[y]
          BY <4>1, <5>1, <5>2
        <5> HIDE DEF x, y
        <5> QED
          BY <1>4, <5>3
      <4> QED
        BY <4>2, <4>3
    <3>10. ASSUME NEW x \in D, In(t, j, x)
           PROVE  \E a \in at..Len(w) : w[a] = x
      <4>1. PICK a \in 1..Len(w) : w[a] = x
        BY <1>7, <3>10
      <4>2. at <= a
        BY <1>7, <3>2, <3>10, <4>1
      <4> QED
        BY <1>4, <3>2, <4>1, <4>2
    <3>11. ASSUME NEW x \in D, x = j \/ In(t, j, x) PROVE \E a \in 1..Len(v) : v[a] = x
      <4>1. CASE x = j
        BY <3>2, <3>4, <4>1
      <4>2. CASE In(t, j, x)
        <5>1. PICK a \in at..Len(w) : w[a] = x
          BY <3>10, <4>2
        <5> DEFINE b == a - at + 2
        <5>2. b \in 2..(Len(w) - at + 2) /\ b \in 1..Len(v) /\ at + b - 2 = a
          BY <1>4, <3>2
        <5> HIDE DEF b
        <5> QED
          BY <3>2, <5>1, <5>2
      <4> QED
        BY <3>11, <4>1, <4>2
    <3>12. w[at] = p /\ p # i
      <4>1. p # i /\ (w[at] = p \/ In(t, p, w[at]))
        BY <1>8, <3>6
      <4>2. p \in D /\ In(t, j, p)
        BY <1>8, <4>1
      <4>3. PICK a \in at..Len(w) : w[a] = p
        BY <3>10, <4>2
      <4>4. w[at] = p \/ In(t, w[at], p)
        BY <3>7, <4>3
      <4>5. p \in DOMAIN t /\ w[at] \in DOMAIN t
        BY <1>2, <3>6, <4>2
      <4> QED
        BY <1>1, <4>1, <4>4, <4>5
    <3>13. Above(t, i, j) = w[at]
      BY <1>8, <3>12
    <3> QED
      BY <3>2, <3>3, <3>4, <3>9, <3>11, <3>13
  <2> QED
    BY <2>1, <2>2
<1> HIDE DEF v, under
<1>10. Open(t, i, q, k + 1, v)
  <2>1. k + 1 # 0 /\ q[k + 1] = j
    BY <1>2 DEF j
  <2>2. \A n \in 1..(k + 1) : q[n] \in D
    BY <1>2
  <2> QED
    BY <1>9, <2>1, <2>2 DEF Open, D
<1>11. Hangs(t, i, q, k + 1, under)
  <2>1. DOMAIN acc.under = D /\ \A n \in 1..k : acc.under[q[n]] = Above(t, i, q[n])
    BY DEF Hangs, D
  <2>2. DOMAIN under = D
    BY <1>9, <2>1
  <2>3. \A n \in 1..k : q[n] # j /\ q[n] \in D
    <3> TAKE n \in 1..k
    <3>1. n \in 1..Len(q) /\ n # k + 1
      BY <1>2
    <3> QED
      BY <1>0, <1>2, <3>1 DEF j
  <2>4. under[j] = Above(t, i, j)
    BY <1>3, <1>9, <2>1
  <2>5. \A n \in 1..k : under[q[n]] = Above(t, i, q[n])
    BY <1>9, <2>1, <2>3
  <2>6. \A n \in 1..(k + 1) : under[q[n]] = Above(t, i, q[n])
    BY <1>2, <2>4, <2>5 DEF j
  <2> QED
    BY <2>2, <2>6 DEF Hangs, D
<1> QED
  BY <1>10, <1>11 DEF v, under, j

(* to_threaded() puts every row below its parent.                           *)
LEMMA ThreadedIs ==
  ASSUME NEW t, NEW m, Forests(t, m), NEW i \in DOMAIN t, NEW q, Walks(t, i, q)
  PROVE  \A j \in Inside(t, i) : Threaded(q)[j] = Above(t, i, j)
<1> DEFINE N == Len(q)
<1>1. /\ N \in Nat /\ q \in Seq(Inside(t, i)) /\ \A x \in Inside(t, i) : \E a \in 1..N : q[a] = x
  BY DEF Walks
<1>2. PICK g : Threads(g, q, N) /\ Threaded(q) = g[N].under
  BY <1>1, ThreadedLoops
<1>3. g[0] = Bare(q) /\ \A k \in 1..N : g[k] = Nest(g[k - 1], q[k])
  BY <1>2 DEF Threads
<1> DEFINE Fine(k) == Open(t, i, q, k, g[k].open) /\ Hangs(t, i, q, k, g[k].under)
<1> DEFINE S == {k \in 0..N : Fine(k)}
<1>4. Fine(0)
  <2>1. g[0].open = <<>> /\ g[0].under = [x \in ToSet(q) |-> Root]
    BY <1>3 DEF Bare
  <2>2. ToSet(q) = Inside(t, i)
    <3>1. \A x : x \in ToSet(q) <=> \E a \in 1..N : q[a] = x
      BY <1>1 DEF ToSet
    <3>2. \A a \in 1..N : q[a] \in Inside(t, i)
      BY <1>1
    <3>3. \A x : x \in ToSet(q) <=> x \in Inside(t, i)
      BY <1>1, <3>1, <3>2
    <3> QED
      BY <3>3
  <2>3. Hangs(t, i, q, 0, g[0].under)
    BY <2>1, <2>2 DEF Hangs
  <2>4. Open(t, i, q, 0, <<>>)
    <3>1. <<>> \in Seq(Inside(t, i)) /\ Len(<<>>) = 0 /\ ~(0 > 0)
      OBVIOUS
    <3> QED
      BY <3>1 DEF Open
  <2> QED
    BY <2>1, <2>3, <2>4
<1>5. \A k \in 0..(N - 1) : k \in S => k + 1 \in S
  <2> SUFFICES ASSUME NEW k \in 0..(N - 1), Fine(k) PROVE Fine(k + 1)
    BY <1>1
  <2>1. k + 1 \in 1..N /\ (k + 1) - 1 = k
    BY <1>1
  <2>2. g[k + 1] = Nest(g[k], q[k + 1])
    BY <1>3, <2>1
  <2> DEFINE acc == g[k]
  <2>3. Open(t, i, q, k, acc.open) /\ Hangs(t, i, q, k, acc.under)
    OBVIOUS
  <2> HIDE DEF acc
  <2>4. /\ Open(t, i, q, k + 1, Nest(acc, q[k + 1]).open)
        /\ Hangs(t, i, q, k + 1, Nest(acc, q[k + 1]).under)
    BY <2>3, ThreadStep
  <2> QED
    BY <2>2, <2>4 DEF acc
<1>6. N \in S
  <2>1. 0 \in S
    BY SMTT(30), <1>1, <1>4
  <2> HIDE DEF S, N
  <2>2. \A k \in 0..N : k \in S
    BY <1>1, <1>5, <2>1, Upwards
  <2> QED
    BY <1>1, <2>2
<1>7. \A n \in 1..N : g[N].under[q[n]] = Above(t, i, q[n])
  BY <1>6 DEF Hangs
<1> QED
  BY <1>1, <1>2, <1>7

(* The descendants of a node as find_descendants() returns them are what    *)
(* the loop needs.                                                          *)
LEMMA LeftToRightWalks ==
  ASSUME TreeAssumption, NEW s, NEW m, Forests(Sub(s), m), NEW i \in InScope(s),
         NEW S \in SUBSET InScope(s), S = Inside(Sub(s), i), NEW q, q = ByLeft(S)
  PROVE  Walks(Sub(s), i, q)
<1> DEFINE t == Sub(s)
<1>1. /\ q \in Seq(S) /\ Len(q) \in Nat
      /\ \A x \in S : \E k \in 1..Len(q) : q[k] = x
      /\ \A k, n \in 1..Len(q) : k < n <=> rows[q[k]].lft < rows[q[n]].lft
      /\ \A k, n \in 1..Len(q) : q[k] = q[n] => k = n
  BY LeftToRight, SMTT(90)
<1>2. \A k \in 1..Len(q) : q[k] \in S /\ q[k] \in InScope(s)
  BY <1>1
<1>3. DOMAIN t = InScope(s) /\ \A j \in InScope(s) : t[j] = rows[j]
  BY DEF Sub
<1> HIDE DEF t
<1>4. \A k, n \in 1..Len(q) : k < n <=> t[q[k]].lft < t[q[n]].lft
  BY <1>1, <1>2, <1>3
<1>5. \A x, y \in DOMAIN t : Holding(x, y) <=> t[x].lft < t[y].rght
  BY <1>3 DEF Holding
<1>6. S = Inside(t, i)
  BY DEF t
<1>7. Walks(t, i, q)
  BY <1>1, <1>4, <1>5, <1>6 DEF Walks
<1> QED
  BY <1>7 DEF t

(* to_threaded() of the descendants of a node.                              *)
LEMMA DescendantsThread ==
  ASSUME TreeAssumption, NEW s, NEW m, Forests(Sub(s), m), NEW i \in InScope(s)
  PROVE  \A j \in Inside(Sub(s), i) :
           Threaded(FindDescendants(s, rows[i]))[j] = IF rows[j].parent = i THEN Root ELSE rows[j].parent
<1> DEFINE t == Sub(s)
<1> DEFINE S == {j \in InScope(s) : IsInside(rows[j], rows[i])}
<1> DEFINE q == ByLeft(S)
<1>1. S = Inside(t, i)
  BY DEF Inside, Sub, In
<1>2. S \in SUBSET InScope(s) /\ q = ByLeft(S)
  OBVIOUS
<1>3. FindDescendants(s, rows[i]) = q
  BY DEF FindDescendants
<1>4. DOMAIN t = InScope(s) /\ \A j \in InScope(s) : t[j] = rows[j]
  BY DEF Sub
<1>5. Forests(t, m) /\ i \in DOMAIN t
  BY <1>4
<1>6. Walks(t, i, q)
  <2> HIDE DEF S, q
  <2> HIDE DEF t
  <2>1. S = Inside(Sub(s), i)
    BY <1>1 DEF t
  <2>2. Walks(Sub(s), i, q)
    BY <1>2, <2>1, LeftToRightWalks
  <2> QED
    BY <2>2 DEF t
<1> HIDE DEF t, q
<1>7. \A j \in Inside(t, i) : Threaded(q)[j] = Above(t, i, j)
  BY <1>5, <1>6, ThreadedIs
<1>8. \A j \in Inside(t, i) : Above(t, i, j) = IF rows[j].parent = i THEN Root ELSE rows[j].parent
  BY <1>4 DEF Above, Inside
<1> QED
  BY <1>3, <1>7, <1>8 DEF t

Answers(s, i, below, path) ==
  /\ ToSet(FindDescendants(s, rows[i])) = below[i]
  /\ path = {j \in InScope(s) : i \in below[j]}
  /\ i \in ToSet(FindAtDepth(s, Cardinality(path)))
  /\ ChildCount(rows[i]) = Cardinality(below[i])
  /\ i \in ToSet(FindLeaves(s)) <=> below[i] = {}
  /\ \A j \in below[i] :
       Threaded(FindDescendants(s, rows[i]))[j] = IF rows[j].parent = i THEN Root ELSE rows[j].parent

(* All the queries about one node of a sound scope.                         *)
LEMMA QueriesSound ==
  ASSUME TreeAssumption, NEW s, NEW m, Forests(Sub(s), m), NEW below, below = Forest!Below(Kids(s)),
         NEW i \in InScope(s), NEW path, path = ToSet(FindAncestors(s, rows[i])) \ {i}
  PROVE  Answers(s, i, below, path)
<1> DEFINE t == Sub(s)
<1>1. DOMAIN t = InScope(s) /\ \A j \in InScope(s) : t[j] = rows[j]
  BY DEF Sub
<1>2. \A j \in InScope(s) : below[j] = Inside(t, j)
  BY BelowSound
<1>3. path = Over(t, i)
  BY AncestorsAre
<1>4. rows[i].depth = Cardinality(path)
  BY <1>1, <1>3, DepthCounts
<1>5. \A j \in InScope(s) : j \in Over(t, i) <=> i \in Inside(t, j)
  BY <1>1 DEF Over, Inside
<1>6. Over(t, i) \subseteq InScope(s)
  BY <1>1 DEF Over
<1>7. path = {j \in InScope(s) : i \in below[j]}
  <2> HIDE DEF t
  <2> QED
    BY <1>2, <1>3, <1>5, <1>6
<1>8. ToSet(FindDescendants(s, rows[i])) = Inside(t, i)
  BY DescendantsAre
<1>9. i \in ToSet(FindAtDepth(s, rows[i].depth))
  BY AtDepthIs
<1>10. ChildCount(rows[i]) = Cardinality(Inside(t, i))
  BY ChildCountIs
<1>11. i \in ToSet(FindLeaves(s)) <=> Inside(t, i) = {}
  BY LeavesAre
<1>12. \A j \in Inside(t, i) :
         Threaded(FindDescendants(s, rows[i]))[j] = IF rows[j].parent = i THEN Root ELSE rows[j].parent
  BY DescendantsThread
<1> HIDE DEF t
<1> QED
  BY <1>2, <1>4, <1>7, <1>8, <1>9, <1>10, <1>11, <1>12 DEF Answers

(* QueriesMatchForest: in a settled scope find_descendants(),               *)
(* find_ancestors(), find_leaves(), find_at_depth(), child_count() and      *)
(* to_threaded(), which look at bounds and depths only, answer what the     *)
(* parent links say, and validate_tree() reports nothing.                   *)
THEOREM QueriesAreRight == Spec => []QueriesMatchForest
<1>1. TInv => QueriesMatchForest
  <2> SUFFICES ASSUME TInv, NEW s \in Scopes, Settled(s)
               PROVE  /\ \A i \in InScope(s) :
                           LET b    == rows[i]
                               path == ToSet(FindAncestors(s, b)) \ {i}
                           IN  /\ ToSet(FindDescendants(s, b)) = Forest!Below(Kids(s))[i]
                               /\ path = {j \in InScope(s) : i \in Forest!Below(Kids(s))[j]}
                               /\ i \in ToSet(FindAtDepth(s, Cardinality(path)))
                               /\ ChildCount(b) = Cardinality(Forest!Below(Kids(s))[i])
                               /\ i \in ToSet(FindLeaves(s)) <=> Forest!Below(Kids(s))[i] = {}
                               /\ \A j \in Forest!Below(Kids(s))[i] :
                                    Threaded(FindDescendants(s, b))[j]
                                      = IF rows[j].parent = i THEN Root ELSE rows[j].parent
                      /\ Invalid(s) = {}
    BY DEF QueriesMatchForest
  <2>1. PICK m : Forests(Sub(s), m)
    BY SettledSound
  <2>2. Invalid(s) = {}
    BY <2>1, NoneInvalid
  <2> DEFINE below == Forest!Below(Kids(s))
  <2>3. ASSUME NEW i \in InScope(s)
        PROVE  /\ ToSet(FindDescendants(s, rows[i])) = below[i]
               /\ ToSet(FindAncestors(s, rows[i])) \ {i} = {j \in InScope(s) : i \in below[j]}
               /\ i \in ToSet(FindAtDepth(s, Cardinality(ToSet(FindAncestors(s, rows[i])) \ {i})))
               /\ ChildCount(rows[i]) = Cardinality(below[i])
               /\ i \in ToSet(FindLeaves(s)) <=> below[i] = {}
               /\ \A j \in below[i] :
                    Threaded(FindDescendants(s, rows[i]))[j]
                      = IF rows[j].parent = i THEN Root ELSE rows[j].parent
    <3> DEFINE path == ToSet(FindAncestors(s, rows[i])) \ {i}
    <3>1. below = Forest!Below(Kids(s)) /\ path = ToSet(FindAncestors(s, rows[i])) \ {i}
      OBVIOUS
    <3> HIDE DEF below, path
    <3>2. Answers(s, i, below, path)
      BY <2>1, <3>1, TreeAssumption, QueriesSound
    <3> QED
      BY <3>2 DEF Answers, path
  <2> QED
    BY <2>2, <2>3
<1> QED
  BY <1>1, TreeInvariant, PTL
=============================================================================
