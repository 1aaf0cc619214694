--------------------------- MODULE SessionProofs ----------------------------
(***************************************************************************)
(* Proofs about module Session: its transaction scopes, for every set of   *)
(* entities, keys, values and faults, and that transaction() is a nested   *)
(* transaction. The theorems are about the callbacks of an Orderly         *)
(* application, which leaves rollback() and clear() of a session to code   *)
(* outside of its callbacks.                                               *)
(***************************************************************************)
EXTENDS Session, Integers, FiniteSetTheorems, SequenceTheorems, WellFoundedInduction, TLAPS

-----------------------------------------------------------------------------
(* The ranges of the variables.                                            *)
Objects     == [pk : Keys \union {NoKey}, val : Vals, events : Seq(Nat)]
Records     == [status : {"Untracked", "New", "Managed", "Removed"}, orig : Vals \union {NoVal}]
Entries     == [existed : BOOLEAN, rec : Records, obj : Objects]
Checkpoints == [entries : [Entities -> Entries \union {NoEntry}], order : Seq(Entities)]
Snapshots   == [rows : Table, obj : [Entities -> Objects], tracked : [Entities -> Records],
                order : Seq(Entities), idmap : [Keys -> Entities \union {NoEntity}], next : Nat]
Frames      == [kind : {"commit", "scope"}, outermost : BOOLEAN, sp : Nat, begin : Snapshots]
Savepoints  == [name : Nat, rows : Table]
Labels      == HookAt \union {"user", "flush", "finish", "throw", "dispatch"}

DbTypeOK ==
  /\ rows \in Table /\ base \in Table \union {NoTx} /\ saves \in Seq(Savepoints)
MemoryTypeOK ==
  /\ obj \in [Entities -> Objects] /\ tracked \in [Entities -> Records]
  /\ order \in Seq(Entities) /\ checkpoints \in Seq(Checkpoints)
  /\ idmap \in [Keys -> Entities \union {NoEntity}]
ScopeTypeOK ==
  /\ depth \in Nat /\ rollbackOnly \in BOOLEAN /\ spCounter \in Nat
  /\ frames \in Seq(Frames) /\ innerFailed \in BOOLEAN
ControlTypeOK ==
  /\ pc \in Labels /\ todo \in Seq(Entities) /\ round \in 0..2 /\ current \in Vals \union {NoVal}
  /\ nextEvent \in Nat /\ voided \subseteq Nat /\ delivered \subseteq Nat
TypeOK == DbTypeOK /\ MemoryTypeOK /\ ScopeTypeOK /\ ControlTypeOK

(* Where the activations of transaction() and commit() may be: a flush they *)
(* started has a round, a commit() is alone, user code runs in none, and     *)
(* what is rollback-only never gets past the end of a callback.             *)
Phases ==
  /\ pc \in {"user", "dispatch"} => round = 0
  /\ pc = "finish" => round = 2
  /\ pc = "dispatch" => frames = <<>>
  /\ round # 0 => frames # <<>>
  /\ pc \in HookAt \ {"afterHook"} => todo # <<>>
  /\ frames # <<>> /\ frames[1].kind = "commit" => Len(frames) = 1 /\ round # 0
  /\ rollbackOnly /\ round # 0 => pc = "throw"

(* The scopes that are open: the outermost is the first, each of the others *)
(* is a transaction() with a level of depth, and each has its checkpoint.   *)
Nesting ==
  /\ Len(checkpoints) = Len(frames)
  /\ \A i \in 1..Len(frames) : /\ frames[i].outermost <=> i = 1
                               /\ i # 1 => frames[i].kind = "scope"
  /\ depth = IF frames # <<>> /\ frames[1].kind = "commit" THEN 0 ELSE Len(frames)

(* BEGIN comes with the outermost scope, except that a commit() whose BEGIN *)
(* has failed is unwound.                                                   *)
InTransaction ==
  /\ base # NoTx => frames # <<>> /\ frames[1].begin.rows = base
  /\ frames # <<>> /\ base = NoTx => /\ pc = "throw" /\ frames[1].kind = "commit" /\ round # 0
                                     /\ rows = frames[1].begin.rows
  /\ base = NoTx => saves = <<>>

(* A savepoint has a name of its own and the rows of the scope it was for.  *)
SavepointsKnown ==
  /\ \A i, j \in 1..Len(saves) : saves[i].name = saves[j].name => i = j
  /\ \A j \in 1..Len(saves) : saves[j].name <= spCounter
  /\ \A i \in 1..Len(frames) :
       /\ frames[i].sp <= spCounter
       /\ i # 1 => \A j \in 1..Len(saves) :
            saves[j].name = frames[i].sp => saves[j].rows = frames[i].begin.rows

(* A failed inner scope has marked the transaction rollback-only.           *)
Poisoned ==
  /\ innerFailed => rollbackOnly
  /\ rollbackOnly => depth # 0

ScopesInv == TypeOK /\ Phases /\ Nesting /\ InTransaction /\ SavepointsKnown /\ Poisoned

(* No callback calls rollback() or clear() on the session whose transaction *)
(* it runs in.                                                              *)
Orderly == "rollbackInScope" \notin Calls /\ "clearInScope" \notin Calls

(* Counting up: what holds of 0 and of the successor of each number it     *)
(* holds of, holds of all the numbers up to n.                             *)
LEMMA Upwards ==
  ASSUME NEW n \in Nat, NEW S, 0 \in S, \A m \in 0..(n - 1) : m \in S => m + 1 \in S
  PROVE  \A m \in 0..n : m \in S
<1> DEFINE T == (0..n) \ S
<1> SUFFICES ASSUME T # {} PROVE FALSE
  OBVIOUS
<1>1. T \subseteq Nat
  OBVIOUS
<1>2. PICK x \in T : \A y \in T : ~(<<y, x>> \in OpToRel(<, Nat))
  BY <1>1, NatLessThanWellFounded, WFMin
<1>3. x \in 1..n /\ x - 1 \notin S
  OBVIOUS
<1>4. x - 1 \in T
  BY <1>3
<1>5. x - 1 \in Nat /\ x \in Nat /\ x - 1 < x
  BY <1>3
<1>6. <<x - 1, x>> \in OpToRel(<, Nat)
  BY <1>5 DEF OpToRel
<1> QED
  BY <1>2, <1>4, <1>6

(* f is a solution of the recursion of Without up to m.                     *)
KeptIn(f, s, e, m) ==
  /\ DOMAIN f = 0..m /\ f[0] = <<>>
  /\ \A n \in 1..m : f[n] = IF s[n] = e THEN f[n - 1] ELSE Append(f[n - 1], s[n])
Recurrence(f, s, e) ==
  [n \in 0..Len(s) |-> IF n = 0 THEN <<>>
                       ELSE IF s[n] = e THEN f[n - 1] ELSE Append(f[n - 1], s[n])]

(* The recursion of Without has a solution: a length without one would     *)
(* have a least one, and the solution for the length below extends to it.  *)
LEMMA KeptExists ==
  ASSUME NEW E, NEW s \in Seq(E), NEW e
  PROVE  \E f : f = [x \in DOMAIN f |-> f[x]] /\ KeptIn(f, s, e, Len(s))
<1> DEFINE S == {m \in 0..Len(s) : \E f : f = [x \in DOMAIN f |-> f[x]] /\ KeptIn(f, s, e, m)}
<1>1. 0 \in S
  <2> DEFINE f == [n \in 0..0 |-> <<>>]
  <2>1. f = [x \in DOMAIN f |-> f[x]] /\ DOMAIN f = 0..0 /\ f[0] = <<>>
    OBVIOUS
  <2> HIDE DEF f
  <2>2. KeptIn(f, s, e, 0)
    BY <2>1 DEF KeptIn
  <2> QED
    BY <2>1, <2>2
<1>2. ASSUME NEW m \in 0..(Len(s) - 1), m \in S PROVE m + 1 \in S
  <2>1. PICK f : KeptIn(f, s, e, m)
    BY <1>2
  <2> DEFINE last == IF s[m + 1] = e THEN f[m] ELSE Append(f[m], s[m + 1])
             g == [n \in 0..(m + 1) |-> IF n = m + 1 THEN last ELSE f[n]]
  <2>2. /\ g = [x \in DOMAIN g |-> g[x]] /\ DOMAIN g = 0..(m + 1)
        /\ g[m + 1] = last /\ \A n \in 0..m : g[n] = f[n]
    OBVIOUS
  <2> HIDE DEF g
  <2>3. KeptIn(g, s, e, m + 1)
    <3>1. g[0] = <<>>
      BY <2>1, <2>2 DEF KeptIn
    <3>2. ASSUME NEW n \in 1..(m + 1)
          PROVE  g[n] = IF s[n] = e THEN g[n - 1] ELSE Append(g[n - 1], s[n])
      BY <2>1, <2>2 DEF KeptIn
    <3> QED
      BY <2>2, <3>1, <3>2 DEF KeptIn
  <2>4. m + 1 \in 0..Len(s)
    OBVIOUS
  <2> QED
    BY <2>2, <2>3, <2>4
<1>3. Len(s) \in 0..Len(s) /\ Len(s) \in Nat
  OBVIOUS
<1>4. Len(s) \in S
  <2> HIDE DEF S
  <2> QED
    BY <1>1, <1>2, <1>3, Upwards
<1> QED
  BY <1>4

(* Without is the last value of its recursion.                             *)
LEMMA KeptSoFar ==
  ASSUME NEW E, NEW s \in Seq(E), NEW e
  PROVE  \E k : KeptIn(k, s, e, Len(s)) /\ Without(s, e) = k[Len(s)]
<1> DEFINE k == CHOOSE h : h = [n \in 0..Len(s) |-> IF n = 0 THEN <<>>
                       ELSE IF s[n] = e THEN h[n - 1] ELSE Append(h[n - 1], s[n])]
<1>1. PICK f : f = [x \in DOMAIN f |-> f[x]] /\ KeptIn(f, s, e, Len(s))
  BY KeptExists
<1>2. f = Recurrence(f, s, e)
  <2>1. DOMAIN f = 0..Len(s) /\ \A n \in 0..Len(s) : f[n] = Recurrence(f, s, e)[n]
    BY <1>1 DEF KeptIn, Recurrence
  <2>2. Recurrence(f, s, e) = [n \in 0..Len(s) |-> Recurrence(f, s, e)[n]]
    BY DEF Recurrence
  <2> QED
    BY <1>1, <2>1, <2>2
<1>3. k = Recurrence(k, s, e)
  BY <1>2 DEF Recurrence
<1>4. Without(s, e) = k[Len(s)]
  BY DEF Without
<1> HIDE DEF k
<1>5. KeptIn(k, s, e, Len(s))
  <2>1. DOMAIN k = 0..Len(s)
    BY <1>3 DEF Recurrence
  <2>2. \A n \in 0..Len(s) : k[n] = IF n = 0 THEN <<>> ELSE IF s[n] = e THEN k[n - 1] ELSE Append(k[n - 1], s[n])
    BY <1>3 DEF Recurrence
  <2>3. k[0] = <<>>
    BY <2>2
  <2>4. ASSUME NEW n \in 1..Len(s)
        PROVE  k[n] = IF s[n] = e THEN k[n - 1] ELSE Append(k[n - 1], s[n])
    BY <2>2
  <2> QED
    BY <2>1, <2>3, <2>4 DEF KeptIn
<1> QED
  BY <1>4, <1>5

(* std::erase, which delete_entity() runs on the insertion order: it keeps *)
(* exactly the other elements, and no duplicates appear.                   *)
LEMMA WithoutSeq ==
  ASSUME NEW E, NEW s \in Seq(E), NEW e
  PROVE  /\ Without(s, e) \in Seq(E)
         /\ \A i \in Positions(Without(s, e)) : \E j \in Positions(s) : s[j] = Without(s, e)[i] /\ s[j] # e
         /\ \A j \in Positions(s) : s[j] # e => \E i \in Positions(Without(s, e)) : s[j] = Without(s, e)[i]
         /\ (\A i, j \in Positions(s) : s[i] = s[j] => i = j) =>
              \A i, j \in Positions(Without(s, e)) : Without(s, e)[i] = Without(s, e)[j] => i = j
<1>1. PICK k : KeptIn(k, s, e, Len(s)) /\ Without(s, e) = k[Len(s)]
  BY KeptSoFar
<1> DEFINE Once(t) == \A i, j \in Positions(t) : t[i] = t[j] => i = j
           From(m) == \A i \in Positions(k[m]) : \E j \in 1..m : s[j] = k[m][i] /\ s[j] # e
           All(m) == \A j \in 1..m : s[j] # e => \E i \in Positions(k[m]) : s[j] = k[m][i]
           S == {m \in 0..Len(s) : k[m] \in Seq(E) /\ From(m) /\ All(m) /\ (Once(s) => Once(k[m]))}
<1>2. 0 \in S
  BY <1>1 DEF KeptIn, Positions
<1>3. ASSUME NEW m \in 0..(Len(s) - 1), m \in S PROVE m + 1 \in S
  <2>1. m + 1 \in 1..Len(s) /\ (m + 1) - 1 = m /\ s[m + 1] \in E
    OBVIOUS
  <2>2. k[m] \in Seq(E) /\ From(m) /\ All(m) /\ (Once(s) => Once(k[m]))
    BY <1>3
  <2>3. CASE s[m + 1] = e
    <3>1. k[m + 1] = k[m]
      BY <1>1, <2>1, <2>3 DEF KeptIn
    <3>2. From(m + 1)
      <4>1. \A j \in 1..m : j \in 1..(m + 1)
        OBVIOUS
      <4> QED
        BY <2>2, <3>1, <4>1
    <3>3. All(m + 1)
      BY <2>2, <2>3, <3>1
    <3>4. Once(s) => Once(k[m + 1])
      BY <2>2, <3>1
    <3>5. m + 1 \in 0..Len(s) /\ k[m + 1] \in Seq(E)
      BY <2>1, <2>2, <3>1
    <3> HIDE DEF From, All, Once
    <3> QED
      BY <3>2, <3>3, <3>4, <3>5
  <2>4. CASE s[m + 1] # e
    <3>1. k[m + 1] = Append(k[m], s[m + 1])
      BY <1>1, <2>1, <2>4 DEF KeptIn
    <3>2. /\ k[m + 1] \in Seq(E) /\ Len(k[m + 1]) = Len(k[m]) + 1
          /\ \A i \in 1..Len(k[m]) : k[m + 1][i] = k[m][i]
          /\ k[m + 1][Len(k[m]) + 1] = s[m + 1] /\ Len(k[m]) \in Nat
      BY <2>1, <2>2, <3>1
    <3>3. From(m + 1)
      <4> SUFFICES ASSUME NEW i \in Positions(k[m + 1])
                   PROVE  \E j \in 1..(m + 1) : s[j] = k[m + 1][i] /\ s[j] # e
        OBVIOUS
      <4>1. CASE i = Len(k[m]) + 1
        BY <2>1, <2>4, <3>2, <4>1
      <4>2. CASE i # Len(k[m]) + 1
        <5>1. i \in Positions(k[m]) /\ k[m + 1][i] = k[m][i]
          BY <3>2, <4>2 DEF Positions
        <5>2. PICK j \in 1..m : s[j] = k[m][i] /\ s[j] # e
          BY <2>2, <5>1
        <5> QED
          BY <5>1, <5>2
      <4> QED
        BY <4>1, <4>2
    <3>4. All(m + 1)
      <4> SUFFICES ASSUME NEW j \in 1..(m + 1), s[j] # e
                   PROVE  \E i \in Positions(k[m + 1]) : s[j] = k[m + 1][i]
        OBVIOUS
      <4>1. CASE j = m + 1
        BY <3>2, <4>1 DEF Positions
      <4>2. CASE j # m + 1
        <5>1. PICK i \in Positions(k[m]) : s[j] = k[m][i]
          BY <2>2, <4>2
        <5> QED
          BY <3>2, <5>1 DEF Positions
      <4> QED
        BY <4>1, <4>2
    <3>5. ASSUME Once(s) PROVE Once(k[m + 1])
      <4>1. \A i \in Positions(k[m]) : k[m][i] # s[m + 1]
        <5> SUFFICES ASSUME NEW i \in Positions(k[m]), k[m][i] = s[m + 1] PROVE FALSE
          OBVIOUS
        <5>1. PICK j \in 1..m : s[j] = k[m][i]
          BY <2>2
        <5>2. j \in Positions(s) /\ m + 1 \in Positions(s) /\ j # m + 1
          BY <2>1 DEF Positions
        <5> QED
          BY <3>5, <5>1, <5>2
      <4>2. \A i, j \in Positions(k[m]) : k[m][i] = k[m][j] => i = j
        BY <2>2, <3>5
      <4> SUFFICES ASSUME NEW i \in Positions(k[m + 1]), NEW j \in Positions(k[m + 1]),
                          k[m + 1][i] = k[m + 1][j]
                   PROVE  i = j
        OBVIOUS
      <4>3. \A x \in Positions(k[m + 1]) : x = Len(k[m]) + 1 \/ x \in Positions(k[m])
        BY <3>2 DEF Positions
      <4>4. \A x \in Positions(k[m]) : k[m + 1][x] = k[m][x]
        BY <3>2 DEF Positions
      <4> QED
        BY <3>2, <4>1, <4>2, <4>3, <4>4
    <3>6. m + 1 \in 0..Len(s) /\ k[m + 1] \in Seq(E)
      BY <2>1, <3>2
    <3> HIDE DEF From, All, Once
    <3> QED
      BY <3>3, <3>4, <3>5, <3>6
  <2> QED
    BY <2>3, <2>4
<1>4. Len(s) \in Nat /\ Len(s) \in 0..Len(s)
  OBVIOUS
<1>5. Len(s) \in S
  <2> HIDE DEF S
  <2> QED
    BY <1>2, <1>3, <1>4, Upwards
<1> QED
  BY <1>1, <1>5 DEF Positions

(* A non-empty set of positions has a last one: what the choice of the     *)
(* newest savepoint of a name relies on.                                   *)
LEMMA MaxOf ==
  ASSUME NEW n \in Nat, NEW S \in SUBSET (1..n), S # {}
  PROVE  \E i \in S : \A j \in S : j <= i
<1> DEFINE T == {n - i : i \in S}
<1>1. T \subseteq Nat /\ T # {}
  <2>1. \A i \in S : i \in 1..n /\ n - i \in Nat
    OBVIOUS
  <2>2. PICK i \in S : TRUE
    OBVIOUS
  <2>3. n - i \in T
    OBVIOUS
  <2> QED
    BY <2>1, <2>3
<1>2. \E x \in T : \A y \in T : ~(<<y, x>> \in OpToRel(<, Nat))
  BY <1>1, NatLessThanWellFounded, WFMin
<1>3. PICK i \in S : \A y \in T : ~(<<y, n - i>> \in OpToRel(<, Nat))
  BY <1>2
<1>4. ASSUME NEW j \in S PROVE j <= i
  <2>1. ~(<<n - j, n - i>> \in OpToRel(<, Nat))
    BY <1>3
  <2>2. ~(n - j < n - i)
    BY <2>1 DEF OpToRel
  <2> QED
    BY <2>2
<1> QED
  BY <1>4

(* pop_back(): all but the last element.                                   *)
LEMMA PopSeq ==
  ASSUME NEW S, NEW s \in Seq(S), s # <<>>
  PROVE  /\ Pop(s) \in Seq(S) /\ Len(Pop(s)) = Len(s) - 1
         /\ \A i \in 1..(Len(s) - 1) : Pop(s)[i] = s[i]
         /\ LastOf(s) \in S /\ Len(s) \in Nat \ {0}
<1>1. Len(s) \in Nat \ {0}
  BY EmptySeq
<1>2. LastOf(s) \in S
  BY <1>1 DEF LastOf
<1>3. Pop(s) \in Seq(S) /\ Len(Pop(s)) = Len(s) - 1
  <2>1. Len(s) - 1 \in Nat /\ 1 <= Len(s) - 1 + 1 /\ Len(s) - 1 <= Len(s)
    BY <1>1
  <2>2. \A i \in 1..(Len(s) - 1) : s[i] \in S
    BY <1>1
  <2>3. 1 \in 1..(Len(s) + 1) /\ Len(s) - 1 \in (1 - 1)..Len(s)
    BY <1>1
  <2>4. Pop(s) \in Seq(S) /\ Len(Pop(s)) = IF 1 <= Len(s) - 1 THEN (Len(s) - 1) - 1 + 1 ELSE 0
    BY <2>3, SubSeqProperties DEF Pop
  <2> QED
    BY SMTT(60), <1>1, <2>4
<1>4. \A i \in 1..(Len(s) - 1) : Pop(s)[i] = s[i]
  BY <1>1 DEF Pop
<1> QED
  BY <1>1, <1>2, <1>3, <1>4

(* push_back(): the same elements and one more.                            *)
LEMMA PushSeq ==
  ASSUME NEW S, NEW s \in Seq(S), NEW x \in S
  PROVE  /\ Append(s, x) \in Seq(S) /\ Len(Append(s, x)) = Len(s) + 1
         /\ \A i \in 1..Len(s) : Append(s, x)[i] = s[i]
         /\ Append(s, x)[Len(s) + 1] = x /\ Append(s, x) # <<>>
  OBVIOUS

(* rebuild_identity_map(): a key is mapped to a tracked entity that has    *)
(* it, or no tracked entity has it.                                        *)
LEMMA RebuiltKeys ==
  ASSUME NEW ord \in Seq(Entities), NEW o, NEW k \in Keys
  PROVE  /\ Rebuilt(o, ord) \in [Keys -> Entities \union {NoEntity}]
         /\ \/ /\ Rebuilt(o, ord)[k] = NoEntity
               /\ \A i \in Positions(ord) : o[ord[i]].pk # k
            \/ \E i \in Positions(ord) : Rebuilt(o, ord)[k] = ord[i] /\ o[ord[i]].pk = k
<1> DEFINE at(x) == {i \in Positions(ord) : o[ord[i]].pk = x}
           last(x) == CHOOSE i \in at(x) : \A j \in at(x) : j <= i
<1>1. ASSUME NEW x \in Keys, at(x) # {} PROVE last(x) \in at(x)
  <2>1. \E i \in at(x) : \A j \in at(x) : j <= i
    <3>1. at(x) \in SUBSET (1..Len(ord)) /\ Len(ord) \in Nat
      BY DEF Positions
    <3> QED
      BY <1>1, <3>1, MaxOf
  <2> QED
    BY <2>1
<1>2. Rebuilt(o, ord) = [x \in Keys |-> IF at(x) = {} THEN NoEntity ELSE ord[last(x)]]
  BY DEF Rebuilt
<1>3. \A x \in Keys : at(x) # {} => ord[last(x)] \in Entities
  <2>1. \A i \in Positions(ord) : ord[i] \in Entities
    BY DEF Positions
  <2> HIDE DEF last
  <2> QED
    BY <1>1, <2>1
<1> QED
  BY ZenonT(60), <1>1, <1>2, <1>3

(* What begin_memory_checkpoint() captures has the type of a checkpoint.   *)
LEMMA NowTypes ==
  ASSUME TypeOK
  PROVE  Snapshot \in Snapshots /\ NewCheckpoint \in Checkpoints
<1>1. Snapshot \in Snapshots
  BY DEF TypeOK, DbTypeOK, MemoryTypeOK, ControlTypeOK, Snapshot, Snapshots
<1>2. \A e \in Entities : Entry(TRUE, tracked[e], obj[e]) \in Entries
  BY DEF TypeOK, MemoryTypeOK, Entry, Entries
<1>3. NewCheckpoint \in Checkpoints
  BY <1>2 DEF TypeOK, MemoryTypeOK, NewCheckpoint, Checkpoints
<1> QED
  BY <1>1, <1>3

(* track() keeps the types, and a checkpoint for each scope.               *)
LEMMA TrackTypes ==
  ASSUME TypeOK, NEW e \in Entities, NEW o \in Objects, NEW rec \in Records, Track(e, o, rec)
  PROVE  /\ checkpoints' \in Seq(Checkpoints) /\ tracked' \in [Entities -> Records]
         /\ order' \in Seq(Entities) /\ idmap' \in [Keys -> Entities \union {NoEntity}]
         /\ Len(checkpoints') = Len(checkpoints)
<1>1. Entry(FALSE, rec, o) \in Entries
  BY DEF Entry, Entries
<1>2. \A i \in Positions(checkpoints) :
        checkpoints[i] \in Checkpoints
        /\ [checkpoints[i] EXCEPT !.entries[e] = Entry(FALSE, rec, o)] \in Checkpoints
  <2>1. \A i \in Positions(checkpoints) : checkpoints[i] \in Checkpoints
    BY DEF TypeOK, MemoryTypeOK, Positions
  <2>2. ASSUME NEW c \in Checkpoints
        PROVE  [c EXCEPT !.entries[e] = Entry(FALSE, rec, o)] \in Checkpoints
    <3> DEFINE x == Entry(FALSE, rec, o)
    <3>1. c.entries \in [Entities -> Entries \union {NoEntry}] /\ c.order \in Seq(Entities)
      BY DEF Checkpoints
    <3> HIDE DEF x
    <3>2. [c.entries EXCEPT ![e] = x] \in [Entities -> Entries \union {NoEntry}]
      BY <1>1, <3>1 DEF x
    <3>3. [c EXCEPT !.entries[e] = x] = [entries |-> [c.entries EXCEPT ![e] = x], order |-> c.order]
      BY DEF Checkpoints
    <3> QED
      BY <3>1, <3>2, <3>3 DEF Checkpoints, x
  <2> QED
    BY <2>1, <2>2
<1>3. checkpoints' \in [1..Len(checkpoints) -> Checkpoints]
  BY <1>2 DEF Track, Positions
<1>4. checkpoints' \in Seq(Checkpoints) /\ Len(checkpoints') = Len(checkpoints)
  BY <1>3 DEF TypeOK, MemoryTypeOK
<1>5. order' \in Seq(Entities)
  BY DEF TypeOK, MemoryTypeOK, Track
<1>6. tracked' \in [Entities -> Records]
  BY DEF TypeOK, MemoryTypeOK, Track
<1>7. idmap' \in [Keys -> Entities \union {NoEntity}]
  BY DEF TypeOK, MemoryTypeOK, Track, Objects
<1> QED
  BY <1>4, <1>5, <1>6, <1>7

(* restore_memory_checkpoint() keeps the types: the entries of a           *)
(* checkpoint are records and objects.                                     *)
LEMMA RestoreTypes ==
  ASSUME TypeOK, NEW cp \in Checkpoints, RestoreFrom(cp)
  PROVE  /\ obj' \in [Entities -> Objects] /\ tracked' \in [Entities -> Records]
         /\ order' \in Seq(Entities) /\ idmap' \in [Keys -> Entities \union {NoEntity}]
<1> USE SessionAssumption DEF SessionAssumption
<1>1. \A e \in Entities : cp.entries[e] # NoEntry =>
        cp.entries[e].obj \in Objects /\ cp.entries[e].rec \in Records
  BY DEF Checkpoints, Entries
<1>2. order' \in Seq(Entities)
  BY DEF RestoreFrom, Checkpoints
<1>3. idmap' = Rebuilt(obj', order')
  BY DEF RestoreFrom
<1>4. idmap' \in [Keys -> Entities \union {NoEntity}]
  <2>1. CASE Keys = {}
    <3>1. idmap' \in [Keys -> {}]
      BY <1>3, <2>1 DEF Rebuilt
    <3> QED
      BY <2>1, <3>1
  <2>2. CASE Keys # {}
    BY <1>2, <1>3, <2>2, RebuiltKeys
  <2> QED
    BY <2>1, <2>2
<1>5. obj' \in [Entities -> Objects]
  BY <1>1 DEF TypeOK, MemoryTypeOK, RestoreFrom
<1>6. Untracked \in Records
  BY DEF Untracked, Records
<1>7. tracked' \in [Entities -> Records]
  BY <1>1, <1>6 DEF TypeOK, MemoryTypeOK, RestoreFrom
<1> QED
  BY <1>2, <1>4, <1>5, <1>7

(* What the steps do to the scopes, in seven ways.                         *)
Grows(S, s, t)   == t \in Seq(S) /\ Len(t) = Len(s) + 1 /\ \A i \in 1..Len(s) : t[i] = s[i]
Shrinks(S, s, t) == t \in Seq(S) /\ Len(t) = Len(s) - 1 /\ \A i \in 1..(Len(s) - 1) : t[i] = s[i]
Calm ==
  /\ UNCHANGED <<base, saves, frames, depth, rollbackOnly, innerFailed>>
  /\ Len(checkpoints') = Len(checkpoints)
  /\ spCounter' \in Nat /\ (spCounter <= spCounter' \/ frames = <<>>)
  /\ rows' = rows \/ (rows' \in Table /\ (frames = <<>> \/ base # NoTx))
  /\ frames # <<>> /\ base = NoTx => pc' = pc /\ round' = round
OpensOutermost(kind) ==
  /\ frames = <<>> /\ base = NoTx /\ saves = <<>>
  /\ frames' \in Seq(Frames) /\ frames' # <<>>
  /\ Len(frames') = 1 /\ frames'[1] = Frame(kind, TRUE, 0) /\ Len(checkpoints') = 1
  /\ UNCHANGED <<rows, saves, spCounter>>
  /\ depth' = (IF kind = "commit" THEN 0 ELSE 1) /\ rollbackOnly' = FALSE /\ innerFailed' = FALSE
  /\ base' = rows \/ (kind = "commit" /\ base' = NoTx /\ pc' = "throw" /\ round' = 1)
OpensInner ==
  /\ frames # <<>> /\ base # NoTx /\ frames[1].kind # "commit"
  /\ Grows(Frames, frames, frames') /\ frames'[Len(frames')] = Frame("scope", FALSE, spCounter + 1)
  /\ Len(checkpoints') = Len(checkpoints) + 1
  /\ Grows(Savepoints, saves, saves') /\ saves'[Len(saves')] = [name |-> spCounter + 1, rows |-> rows]
  /\ depth' = depth + 1 /\ spCounter' = spCounter + 1
  /\ UNCHANGED <<rows, base, rollbackOnly, innerFailed>>
Finishes ==
  /\ pc = "finish" /\ round = 2 /\ base # NoTx /\ ~rollbackOnly /\ ~innerFailed
  /\ rows' = rows /\ rollbackOnly' = FALSE /\ UNCHANGED innerFailed
EndsOutermost ==
  /\ Len(frames) = 1 /\ frames' = <<>> /\ checkpoints' = <<>>
  /\ base' = NoTx /\ saves' = <<>> /\ depth' = 0 /\ spCounter' \in Nat
EndsInner ==
  /\ Len(frames) > 1 /\ frames' # <<>> /\ Shrinks(Frames, frames, frames')
  /\ Len(checkpoints') = Len(checkpoints) - 1
  /\ base' = base /\ depth' = depth - 1 /\ spCounter' = spCounter
  /\ saves' \in Seq(Savepoints) /\ Len(saves') <= Len(saves)
  /\ \A i \in 1..Len(saves') : saves'[i] = saves[i]
UnwindsOutermost ==
  /\ EndsOutermost
  /\ rows' = frames[1].begin.rows /\ rollbackOnly' = FALSE /\ innerFailed' = FALSE
UnwindsInner ==
  /\ EndsInner /\ base # NoTx
  /\ rows' \in {rows, LastOf(frames).begin.rows} /\ rollbackOnly' = TRUE /\ innerFailed' = TRUE

(* Where each step finds the stack of scopes.                              *)
LEMMA Idle ==
  ASSUME ScopesInv, pc = "user"
  PROVE  /\ depth = 0 => /\ frames = <<>> /\ base = NoTx /\ saves = <<>> /\ checkpoints = <<>>
                         /\ ~rollbackOnly /\ ~innerFailed
         /\ depth # 0 => frames # <<>> /\ base # NoTx /\ frames[1].kind # "commit"
<1> USE SessionAssumption DEF SessionAssumption
<1>1. Len(frames) \in Nat /\ (frames = <<>> <=> Len(frames) = 0)
      /\ (checkpoints = <<>> <=> Len(checkpoints) = 0)
  BY EmptySeq DEF ScopesInv, TypeOK, ScopeTypeOK, MemoryTypeOK
<1>2. round = 0
  BY DEF ScopesInv, Phases
<1>3. frames # <<>> => frames[1].kind # "commit" /\ base # NoTx
  BY <1>2 DEF ScopesInv, Phases, InTransaction
<1>4. depth = Len(frames)
  BY <1>1, <1>3 DEF ScopesInv, Nesting
<1> QED
  BY <1>1, <1>3, <1>4 DEF ScopesInv, InTransaction, Nesting, Poisoned

(* What a handler may assume of the innermost activation, of its           *)
(* checkpoint and of the depth.                                            *)
LEMMA TopKnown ==
  ASSUME ScopesInv, frames # <<>>
  PROVE  /\ Len(frames) \in Nat \ {0} /\ Len(checkpoints) = Len(frames) /\ checkpoints # <<>>
         /\ Top = frames[Len(frames)] /\ Top \in Frames
         /\ Top.outermost <=> Len(frames) = 1
         /\ Len(frames) # 1 => Top.kind = "scope" /\ depth = Len(frames) /\ base # NoTx
         /\ frames[1] \in Frames
         /\ depth = (IF frames[1].kind = "commit" THEN 0 ELSE Len(frames))
         /\ base # NoTx => frames[1].begin.rows = base
         /\ base = NoTx => rows = frames[1].begin.rows
<1>1. /\ Len(frames) \in Nat \ {0} /\ Top = frames[Len(frames)] /\ Top \in Frames
      /\ frames[1] \in Frames
  BY PopSeq, EmptySeq DEF ScopesInv, TypeOK, ScopeTypeOK, Top, LastOf
<1>2. Len(checkpoints) = Len(frames) /\ checkpoints # <<>>
  BY <1>1, EmptySeq DEF ScopesInv, Nesting, TypeOK, MemoryTypeOK
<1>3. Top.outermost <=> Len(frames) = 1
  BY <1>1 DEF ScopesInv, Nesting
<1>4. depth = (IF frames[1].kind = "commit" THEN 0 ELSE Len(frames))
  BY DEF ScopesInv, Nesting
<1>5. Len(frames) # 1 => Top.kind = "scope" /\ depth = Len(frames) /\ base # NoTx
  BY <1>1, <1>4 DEF ScopesInv, Nesting, Phases, InTransaction
<1>6. (base # NoTx => frames[1].begin.rows = base) /\ (base = NoTx => rows = frames[1].begin.rows)
  BY DEF ScopesInv, InTransaction
<1> QED
  BY <1>1, <1>2, <1>3, <1>4, <1>5, <1>6

(* ROLLBACK TO and RELEASE find a savepoint of the name they are given.    *)
LEMMA SavepointRows ==
  ASSUME ScopesInv, NEW n, SavepointsNamed(n) # {}
  PROVE  /\ SavepointAt(n) \in Positions(saves) /\ saves[SavepointAt(n)].name = n
<1>1. PICK i \in SavepointsNamed(n) : TRUE
  OBVIOUS
<1>2. \A j \in SavepointsNamed(n) : j = i
  BY DEF ScopesInv, SavepointsKnown, SavepointsNamed, Positions
<1>3. \E k \in SavepointsNamed(n) : \A j \in SavepointsNamed(n) : j <= k
  BY <1>2 DEF SavepointsNamed, Positions
<1>4. SavepointAt(n) \in SavepointsNamed(n)
  BY <1>3 DEF SavepointAt
<1> QED
  BY <1>4 DEF SavepointsNamed

(* RELEASE and ROLLBACK TO drop savepoints from the end.                   *)
LEMMA SavesCut ==
  ASSUME ScopesInv, NEW n \in 0..Len(saves), saves' = SubSeq(saves, 1, n)
  PROVE  saves' \in Seq(Savepoints) /\ Len(saves') <= Len(saves) /\ \A i \in 1..Len(saves') : saves'[i] = saves[i]
<1>1. saves \in Seq(Savepoints)
  BY DEF ScopesInv, TypeOK, DbTypeOK
<1> QED
  BY <1>1

(* The activation of an inner transaction() returns to the one around it.  *)
LEMMA FramesCut ==
  ASSUME ScopesInv, Len(frames) > 1, frames' = Pop(frames)
  PROVE  frames' # <<>> /\ Shrinks(Frames, frames, frames')
<1>1. frames \in Seq(Frames) /\ frames # <<>> /\ Len(frames) \in Nat
  BY EmptySeq DEF ScopesInv, TypeOK, ScopeTypeOK
<1>2. Shrinks(Frames, frames, frames') /\ frames' \in Seq(Frames)
  BY <1>1, PopSeq DEF Shrinks
<1>3. Len(frames') # 0
  BY <1>1, <1>2 DEF Shrinks
<1> QED
  BY <1>2, <1>3, EmptySeq

(* What an activation remembers of its beginning has the type of a frame.  *)
LEMMA FrameType ==
  ASSUME TypeOK, NEW kind \in {"commit", "scope"}, NEW outermost \in BOOLEAN, NEW sp \in Nat
  PROVE  Frame(kind, outermost, sp) \in Frames
  BY NowTypes DEF Frame, Frames

(* The outermost activation is alone, with one checkpoint.                 *)
LEMMA FirstFrame ==
  ASSUME TypeOK, NEW kind \in {"commit", "scope"}, frames = <<>>, checkpoints = <<>>, Open(kind, TRUE, 0)
  PROVE  /\ frames' \in Seq(Frames) /\ Len(frames') = 1 /\ frames'[1] = Frame(kind, TRUE, 0)
         /\ Len(checkpoints') = 1 /\ frames' # <<>>
<1>1. 0 \in Nat /\ TRUE \in BOOLEAN
  OBVIOUS
<1>2. Frame(kind, TRUE, 0) \in Frames
  BY <1>1, FrameType
<1>3. frames' = <<Frame(kind, TRUE, 0)>> /\ Len(checkpoints') = 1
  BY DEF Open
<1>4. PICK x \in Frames : x = Frame(kind, TRUE, 0)
  BY <1>2
<1>5. <<x>> \in Seq(Frames) /\ Len(<<x>>) = 1 /\ <<x>>[1] = x /\ <<x>> # <<>>
  OBVIOUS
<1> QED
  BY <1>3, <1>4, <1>5

(* Whatever a ROLLBACK brings back is a table.                             *)
LEMMA RowsAreTable ==
  ASSUME TypeOK
  PROVE  /\ rows \in Table /\ (base # NoTx => base \in Table)
         /\ \A i \in 1..Len(frames) : frames[i].begin.rows \in Table
         /\ \A i \in 1..Len(saves) : saves[i].rows \in Table /\ saves[i].name \in Nat
<1>1. rows \in Table /\ (base # NoTx => base \in Table)
  BY DEF TypeOK, DbTypeOK
<1>2. ASSUME NEW i \in 1..Len(frames) PROVE frames[i].begin.rows \in Table
  <2>1. frames[i] \in Frames
    BY DEF TypeOK, ScopeTypeOK
  <2> QED
    BY <2>1 DEF Frames, Snapshots
<1>3. ASSUME NEW i \in 1..Len(saves) PROVE saves[i].rows \in Table /\ saves[i].name \in Nat
  <2>1. saves[i] \in Savepoints
    BY ElementOfSeq DEF TypeOK, DbTypeOK
  <2> QED
    BY <2>1 DEF Savepoints
<1> QED
  BY <1>1, <1>2, <1>3

Kinds == \/ Calm \/ \E kind \in {"commit", "scope"} : OpensOutermost(kind)
         \/ OpensInner \/ (Finishes /\ (EndsOutermost \/ EndsInner))
         \/ UnwindsOutermost \/ UnwindsInner

(* track() adds entries to the open checkpoints, never a checkpoint.       *)
LEMMA TrackLen ==
  ASSUME NEW e, NEW o, NEW rec, Track(e, o, rec), TypeOK
  PROVE  Len(checkpoints') = Len(checkpoints)
<1>1. Len(checkpoints) \in Nat
  BY DEF TypeOK, MemoryTypeOK
<1>2. \E f : checkpoints' = [i \in 1..Len(checkpoints) |-> f[i]]
  <2> DEFINE f == checkpoints'
  <2>1. f = [i \in 1..Len(checkpoints) |-> f[i]]
    BY DEF Track, Positions
  <2> QED
    BY <2>1
<1> QED
  BY <1>1, <1>2

(* The outermost scope leaves none behind.                                 *)
LEMMA PopLast ==
  ASSUME NEW S, NEW s \in Seq(S), Len(s) = 1
  PROVE  Pop(s) = <<>>
  BY EmptySeq, PopSeq

(* finish_transaction_scope(): one level less, rollback-only as told, and  *)
(* both fresh at the end of the outermost scope.                           *)
LEMMA ScopeFinished ==
  ASSUME depth \in Nat \ {0}, NEW ro \in BOOLEAN, FinishScope(ro)
  PROVE  /\ depth' = depth - 1 /\ rollbackOnly' \in BOOLEAN
         /\ rollbackOnly' <=> ro /\ depth # 1
         /\ spCounter' = IF depth = 1 THEN 0 ELSE spCounter
<1>1. depth - 1 = 0 <=> depth = 1
  OBVIOUS
<1>2. depth' = depth - 1 /\ spCounter' = IF depth = 1 THEN 0 ELSE spCounter
  BY DEF FinishScope
<1>3. rollbackOnly' = (ro /\ depth - 1 # 0)
  BY DEF FinishScope
<1> QED
  BY <1>1, <1>2, <1>3

(* A step that leaves the scopes alone and writes rows only under a BEGIN  *)
(* or outside every scope is Calm.                                         *)
LEMMA CalmStep ==
  ASSUME ScopesInv, UNCHANGED <<base, saves, frames, txState, innerFailed>>,
         Len(checkpoints') = Len(checkpoints),
         rows' = rows \/ (rows' \in Table /\ (frames = <<>> \/ base # NoTx)),
         pc # "throw" \/ round = 0 \/ (pc' = pc /\ round' = round)
  PROVE  Kinds
  BY DEF ScopesInv, InTransaction, TypeOK, ScopeTypeOK, txState, Kinds, Calm

(* commit() opens a BEGIN of its own, or fails at it and is unwound.       *)
LEMMA CommitOpens ==
  ASSUME ScopesInv, CommitBegins
  PROVE  OpensOutermost("commit")
<1> USE SessionAssumption DEF SessionAssumption
<1>1. /\ frames = <<>> /\ base = NoTx /\ saves = <<>> /\ checkpoints = <<>>
      /\ ~rollbackOnly /\ ~innerFailed /\ depth = 0
  BY Idle DEF CommitBegins, Outermost
<1>2. /\ frames' \in Seq(Frames) /\ Len(frames') = 1 /\ frames'[1] = Frame("commit", TRUE, 0)
      /\ Len(checkpoints') = 1 /\ frames' # <<>>
  BY <1>1, FirstFrame DEF CommitBegins, ScopesInv
<1>3. OpensOutermost("commit")
  BY <1>1, <1>2 DEF CommitBegins, Throw, StartFlush, OpensOutermost, txState
<1> QED
  BY <1>3

(* The outermost transaction() opens a scope once BEGIN has worked, or     *)
(* leaves everything as it was.                                            *)
LEMMA ScopeOpens ==
  ASSUME ScopesInv, ScopeBegins
  PROVE  OpensOutermost("scope") \/ Calm
<1> USE SessionAssumption DEF SessionAssumption
<1>1. /\ frames = <<>> /\ base = NoTx /\ saves = <<>> /\ checkpoints = <<>>
      /\ ~rollbackOnly /\ ~innerFailed /\ depth = 0
  BY Idle DEF ScopeBegins, Outermost
<1>2. CASE Open("scope", TRUE, 0) /\ base' = rows /\ depth' = depth + 1
  <2>1. /\ frames' \in Seq(Frames) /\ Len(frames') = 1 /\ frames'[1] = Frame("scope", TRUE, 0)
        /\ Len(checkpoints') = 1 /\ frames' # <<>>
    BY <1>1, <1>2, FirstFrame DEF ScopesInv
  <2>2. OpensOutermost("scope")
    BY <1>1, <1>2, <2>1 DEF ScopeBegins, OpensOutermost
  <2> QED
    BY <2>2
<1>3. CASE UNCHANGED <<base, obj, uow, idmap, depth, frames, history>>
  <2>1. rollbackOnly' = rollbackOnly
    BY <1>1 DEF ScopeBegins, ScopesInv, TypeOK, ScopeTypeOK
  <2>2. spCounter \in Nat
    BY DEF ScopesInv, TypeOK, ScopeTypeOK
  <2>3. Calm
    BY <1>1, <1>3, <2>1, <2>2 DEF ScopeBegins, uow, history, Calm
  <2> QED
    BY <2>3
<1> QED
  BY <1>2, <1>3 DEF ScopeBegins

(* An inner transaction() opens a scope once its SAVEPOINT has worked, or  *)
(* leaves everything as it was.                                            *)
LEMMA InnerScopeOpens ==
  ASSUME ScopesInv, InnerScopeBegins
  PROVE  OpensInner \/ Calm
<1> USE SessionAssumption DEF SessionAssumption
<1>1. frames # <<>> /\ base # NoTx /\ frames[1].kind # "commit"
  BY Idle DEF InnerScopeBegins, Outermost
<1>2. CASE Open("scope", FALSE, spCounter + 1)
           /\ saves' = Append(saves, [name |-> spCounter + 1, rows |-> rows])
           /\ depth' = depth + 1 /\ UNCHANGED innerFailed
  <2>1. Len(checkpoints') = Len(checkpoints) + 1
    BY <1>2 DEF Open, ScopesInv, TypeOK, MemoryTypeOK
  <2>2. spCounter + 1 \in Nat /\ Frame("scope", FALSE, spCounter + 1) \in Frames
    <3>1. TypeOK /\ spCounter + 1 \in Nat /\ FALSE \in BOOLEAN /\ "scope" \in {"commit", "scope"}
      BY DEF ScopesInv, TypeOK, ScopeTypeOK
    <3> QED
      BY <3>1, FrameType
  <2>3. /\ Grows(Frames, frames, frames') /\ frames'[Len(frames')] = Frame("scope", FALSE, spCounter + 1)
    <3>1. frames' = Append(frames, Frame("scope", FALSE, spCounter + 1)) /\ frames \in Seq(Frames)
      BY <1>2 DEF Open, ScopesInv, TypeOK, ScopeTypeOK
    <3> HIDE DEF SessionAssumption
    <3>2. PICK x \in Frames : x = Frame("scope", FALSE, spCounter + 1)
      BY <2>2
    <3>3. frames' = Append(frames, x)
      BY <3>1, <3>2
    <3>4. /\ frames' \in Seq(Frames) /\ Len(frames') = Len(frames) + 1 /\ frames'[Len(frames) + 1] = x
          /\ \A i \in 1..Len(frames) : frames'[i] = frames[i]
      <4>1. LET t == Append(frames, x) IN
            /\ t \in Seq(Frames) /\ Len(t) = Len(frames) + 1 /\ t[Len(frames) + 1] = x
            /\ \A i \in 1..Len(frames) : t[i] = frames[i]
        BY <3>1, PushSeq
      <4> QED
        BY <3>3, <4>1
    <3> QED
      BY <3>2, <3>4 DEF Grows
  <2>4. [name |-> spCounter + 1, rows |-> rows] \in Savepoints
    BY <2>2 DEF Savepoints, ScopesInv, TypeOK, DbTypeOK
  <2>5. /\ Grows(Savepoints, saves, saves') /\ saves'[Len(saves')] = [name |-> spCounter + 1, rows |-> rows]
    BY <1>2, <2>4, PushSeq DEF Grows, ScopesInv, TypeOK, DbTypeOK
  <2>6. OpensInner
    BY <1>1, <1>2, <2>1, <2>3, <2>5 DEF InnerScopeBegins, OpensInner
  <2> QED
    BY <2>6
<1>3. CASE UNCHANGED <<saves, obj, uow, idmap, depth, frames, history>>
  <2>1. Calm
    BY <1>3 DEF InnerScopeBegins, uow, history, Calm, ScopesInv, TypeOK, ScopeTypeOK
  <2> QED
    BY <2>1
<1> QED
  BY <1>2, <1>3 DEF InnerScopeBegins

(* COMMIT ends the outermost scope, and only of a transaction that is not  *)
(* rollback-only.                                                          *)
LEMMA OutermostEnds ==
  ASSUME ScopesInv, FinishOutermost
  PROVE  Finishes /\ EndsOutermost
<1> USE SessionAssumption DEF SessionAssumption
<1>1. frames # <<>> /\ round = 2
  BY DEF FinishOutermost, ScopesInv, Phases
<1>2. Len(frames) = 1 /\ checkpoints # <<>> /\ Len(checkpoints) = 1
  BY <1>1, TopKnown DEF FinishOutermost
<1>3. frames' = <<>> /\ checkpoints' = <<>>
  <2>1. frames' = Pop(frames) /\ checkpoints' = Pop(checkpoints)
    BY <1>2 DEF FinishOutermost, CommitCheckpoint
  <2> QED
    BY <1>2, <2>1, PopLast DEF ScopesInv, TypeOK, ScopeTypeOK, MemoryTypeOK
<1>4. ~rollbackOnly /\ ~innerFailed
  BY <1>1 DEF FinishOutermost, ScopesInv, Phases, Poisoned
<1>5. depth \in {0, 1} /\ (Top.kind = "commit" => depth = 0) /\ spCounter \in Nat
  BY <1>1, <1>2, TopKnown DEF ScopesInv, TypeOK, ScopeTypeOK
<1>6. depth' = 0 /\ rollbackOnly' = FALSE /\ spCounter' \in Nat
  <2>1. IF Top.kind = "scope" THEN FinishScope(rollbackOnly) ELSE UNCHANGED txState
    BY <1>2 DEF FinishOutermost, CommitCheckpoint
  <2>2. CASE Top.kind = "scope"
    <3>1. depth \in Nat \ {0} /\ depth = 1
      BY <1>1, <1>2, <2>2, TopKnown
    <3> QED
      BY <1>4, <2>1, <2>2, <3>1, ScopeFinished DEF ScopesInv, TypeOK, ScopeTypeOK
  <2>3. CASE Top.kind = "commit"
    BY <1>4, <1>5, <2>1, <2>3 DEF txState, ScopesInv, TypeOK, ScopeTypeOK
  <2>4. Top.kind \in {"scope", "commit"}
    BY <1>1, TopKnown DEF Frames
  <2> QED
    BY <2>2, <2>3, <2>4
<1>7. Finishes /\ EndsOutermost
  BY <1>1, <1>2, <1>3, <1>4, <1>6 DEF FinishOutermost, Finishes, EndsOutermost, history
<1> QED
  BY <1>7

(* RELEASE ends an inner scope, and only of a transaction that is not      *)
(* rollback-only.                                                          *)
LEMMA InnerEnds ==
  ASSUME ScopesInv, FinishInner
  PROVE  Finishes /\ EndsInner
<1> USE SessionAssumption DEF SessionAssumption
<1>1. frames # <<>> /\ round = 2
  BY DEF FinishInner, ScopesInv, Phases
<1>2. /\ Len(frames) > 1 /\ checkpoints # <<>> /\ Top.kind = "scope" /\ depth = Len(frames)
      /\ base # NoTx /\ Len(frames) \in Nat
  BY <1>1, TopKnown DEF FinishInner
<1>3. frames' = Pop(frames) /\ checkpoints' = Pop(checkpoints) /\ FinishScope(rollbackOnly)
  BY <1>2 DEF FinishInner, CommitCheckpoint
<1>4. Len(checkpoints') = Len(checkpoints) - 1
  BY <1>2, <1>3, PopSeq DEF ScopesInv, TypeOK, MemoryTypeOK
<1>5. ~rollbackOnly /\ ~innerFailed
  BY <1>1 DEF FinishInner, ScopesInv, Phases, Poisoned
<1>6. depth' = depth - 1 /\ rollbackOnly' = FALSE /\ spCounter' = spCounter
  <2>1. depth \in Nat \ {0} /\ depth # 1 /\ FALSE \in BOOLEAN
    BY <1>2
  <2>2. rollbackOnly = FALSE
    BY <1>5 DEF ScopesInv, TypeOK, ScopeTypeOK
  <2>3. FinishScope(FALSE)
    BY <1>3, <2>2
  <2> QED
    BY <2>1, <2>3, ScopeFinished
<1>7. SavepointAt(Top.sp) - 1 \in 0..Len(saves)
  BY SavepointRows DEF FinishInner, Positions
<1>8. Finishes /\ EndsInner
  BY <1>1, <1>2, <1>3, <1>4, <1>5, <1>6, <1>7, SavesCut, FramesCut
     DEF FinishInner, Finishes, EndsInner, history
<1> QED
  BY <1>8

(* A commit() that throws brings the rows back to its BEGIN.               *)
LEMMA CommitUndone ==
  ASSUME ScopesInv, CommitUnwinds
  PROVE  UnwindsOutermost
<1> USE SessionAssumption DEF SessionAssumption
<1>1. frames # <<>> /\ round # 0
  BY DEF CommitUnwinds, ScopesInv, Phases
<1>2. Len(frames) = 1 /\ checkpoints # <<>> /\ Len(checkpoints) = 1 /\ Top = frames[1]
  BY <1>1, TopKnown DEF CommitUnwinds, ScopesInv, Nesting
<1>3. frames' = <<>> /\ checkpoints' = <<>>
  <2>1. frames' = Pop(frames) /\ checkpoints' = Pop(checkpoints)
    BY <1>2 DEF CommitUnwinds, Unwind, RollbackCheckpoint
  <2> QED
    BY <1>2, <2>1, PopLast DEF ScopesInv, TypeOK, ScopeTypeOK, MemoryTypeOK
<1>4. base' = NoTx /\ saves' = <<>> /\ rows' = frames[1].begin.rows
  BY <1>1, TopKnown DEF CommitUnwinds, DbRollback
<1>5. innerFailed' = FALSE
  BY <1>2 DEF CommitUnwinds
<1>6. depth' = 0 /\ rollbackOnly' = FALSE /\ spCounter' \in Nat
  <2>1. depth \in {0, 1} /\ (Top.kind = "commit" => depth = 0) /\ spCounter \in Nat
        /\ (depth = 0 => ~rollbackOnly)
    BY <1>1, <1>2, TopKnown DEF ScopesInv, TypeOK, ScopeTypeOK, Poisoned
  <2>2. CASE Top.kind = "commit"
    BY <2>1, <2>2 DEF CommitUnwinds, txState
  <2>3. CASE Top.kind # "commit"
    <3>1. depth \in Nat \ {0} /\ depth = 1 /\ rollbackOnly \in BOOLEAN
      BY <1>1, <1>2, <2>3, TopKnown DEF ScopesInv, TypeOK, ScopeTypeOK
    <3>2. FinishScope(rollbackOnly)
      BY <2>3 DEF CommitUnwinds
    <3> QED
      BY <3>1, <3>2, ScopeFinished
  <2> QED
    BY <2>2, <2>3
<1>7. UnwindsOutermost
  BY <1>2, <1>3, <1>4, <1>5, <1>6 DEF UnwindsOutermost, EndsOutermost
<1> QED
  BY <1>7

(* An outermost transaction() that throws brings the rows back to its      *)
(* BEGIN.                                                                  *)
LEMMA ScopeUndone ==
  ASSUME ScopesInv, ScopeUnwinds
  PROVE  UnwindsOutermost
<1> USE SessionAssumption DEF SessionAssumption
<1>1. frames # <<>> /\ round # 0
  BY DEF ScopeUnwinds, ScopesInv, Phases
<1>2. Len(frames) = 1 /\ checkpoints # <<>> /\ Len(checkpoints) = 1 /\ Top = frames[1]
  BY <1>1, TopKnown DEF ScopeUnwinds
<1>3. frames' = <<>> /\ checkpoints' = <<>>
  <2>1. frames' = Pop(frames) /\ checkpoints' = Pop(checkpoints)
    BY <1>2 DEF ScopeUnwinds, Unwind, RollbackCheckpoint
  <2> QED
    BY <1>2, <2>1, PopLast DEF ScopesInv, TypeOK, ScopeTypeOK, MemoryTypeOK
<1>4. base' = NoTx /\ saves' = <<>> /\ rows' = frames[1].begin.rows
  BY <1>1, TopKnown DEF ScopeUnwinds, DbRollback
<1>5. innerFailed' = FALSE
  BY <1>2 DEF ScopeUnwinds
<1>6. depth' = 0 /\ rollbackOnly' = FALSE /\ spCounter' \in Nat
  <2>1. depth \in {0, 1} /\ (Top.kind = "commit" => depth = 0) /\ spCounter \in Nat
        /\ (depth = 0 => ~rollbackOnly)
    BY <1>1, <1>2, TopKnown DEF ScopesInv, TypeOK, ScopeTypeOK, Poisoned
  <2>2. CASE Top.kind = "commit"
    BY <2>1, <2>2 DEF ScopeUnwinds, txState
  <2>3. CASE Top.kind # "commit"
    <3>1. depth \in Nat \ {0} /\ depth = 1 /\ rollbackOnly \in BOOLEAN
      BY <1>1, <1>2, <2>3, TopKnown DEF ScopesInv, TypeOK, ScopeTypeOK
    <3>2. FinishScope(rollbackOnly)
      BY <2>3 DEF ScopeUnwinds
    <3> QED
      BY <3>1, <3>2, ScopeFinished
  <2> QED
    BY <2>2, <2>3
<1>7. UnwindsOutermost
  BY <1>2, <1>3, <1>4, <1>5, <1>6 DEF UnwindsOutermost, EndsOutermost
<1> QED
  BY <1>7

(* An inner transaction() that throws makes the transaction rollback-only, *)
(* whether or not its ROLLBACK TO has worked.                              *)
LEMMA InnerUndone ==
  ASSUME ScopesInv, InnerScopeUnwinds
  PROVE  UnwindsInner
<1> USE SessionAssumption DEF SessionAssumption
<1>1. frames # <<>> /\ round # 0
  BY DEF InnerScopeUnwinds, ScopesInv, Phases
<1>2. /\ Len(frames) \in Nat /\ Len(frames) > 1 /\ checkpoints # <<>> /\ depth = Len(frames)
      /\ base # NoTx /\ Top = frames[Len(frames)]
  BY <1>1, TopKnown DEF InnerScopeUnwinds
<1>3. frames' = Pop(frames) /\ checkpoints' = Pop(checkpoints) /\ FinishScope(TRUE) /\ innerFailed' = TRUE
  BY <1>2 DEF InnerScopeUnwinds, Unwind, RollbackCheckpoint
<1>4. Len(checkpoints') = Len(checkpoints) - 1
  BY <1>2, <1>3, PopSeq DEF ScopesInv, TypeOK, MemoryTypeOK
<1>5. depth' = depth - 1 /\ rollbackOnly' = TRUE /\ spCounter' = spCounter
  <2>1. depth \in Nat \ {0} /\ depth # 1 /\ TRUE \in BOOLEAN
    BY <1>2
  <2> QED
    BY <1>3, <2>1, ScopeFinished
<1>6. /\ rows' \in {rows, LastOf(frames).begin.rows} /\ base' = base
      /\ saves' \in Seq(Savepoints) /\ Len(saves') <= Len(saves) /\ \A i \in 1..Len(saves') : saves'[i] = saves[i]
  <2>1. CASE SavepointsNamed(Top.sp) # {} /\ rows' = saves[SavepointAt(Top.sp)].rows
             /\ saves' = SubSeq(saves, 1, SavepointAt(Top.sp)) /\ UNCHANGED base
    <3>1. SavepointAt(Top.sp) \in 1..Len(saves) /\ saves[SavepointAt(Top.sp)].name = Top.sp
      BY <2>1, SavepointRows DEF Positions
    <3>2. saves[SavepointAt(Top.sp)].rows = Top.begin.rows
      BY <1>2, <3>1 DEF ScopesInv, SavepointsKnown
    <3>3. SavepointAt(Top.sp) \in 0..Len(saves)
      BY <3>1
    <3> QED
      BY <1>2, <2>1, <3>2, <3>3, SavesCut DEF Top, LastOf
  <2>2. CASE UNCHANGED db
    <3>1. saves \in Seq(Savepoints)
      BY DEF ScopesInv, TypeOK, DbTypeOK
    <3>2. saves' = saves /\ Len(saves) \in Nat
      BY <2>2, <3>1 DEF db
    <3> QED
      BY <2>2, <3>1, <3>2 DEF db
  <2> QED
    BY <2>1, <2>2 DEF InnerScopeUnwinds, DbRollbackTo
<1>7. UnwindsInner
  BY <1>2, <1>3, <1>4, <1>5, <1>6, FramesCut DEF UnwindsInner, EndsInner
<1> QED
  BY <1>7

(* rollback() outside of every callback touches no scope.                  *)
LEMMA RollbackIdle ==
  ASSUME Orderly, ScopesInv, Rollback
  PROVE  frames = <<>> /\ Calm
<1> USE SessionAssumption DEF SessionAssumption
<1>1. frames = <<>>
  BY DEF Rollback, Orderly
<1>2. /\ depth = 0 /\ base = NoTx /\ saves = <<>> /\ checkpoints = <<>> /\ ~rollbackOnly
  BY <1>1, Idle DEF Rollback
<1>3. rollbackOnly = FALSE /\ checkpoints' = <<>> /\ rollbackOnly' = FALSE
  BY <1>2 DEF Rollback, ForgetEverything, ResetTransaction, ScopesInv, TypeOK, ScopeTypeOK
<1>4. Calm
  BY <1>1, <1>2, <1>3
     DEF Rollback, ForgetEverything, ResetTransaction, db, control, history, Calm
<1> QED
  BY <1>1, <1>4

(* clear() outside of every callback touches no scope.                     *)
LEMMA ClearIdle ==
  ASSUME Orderly, ScopesInv, Clear
  PROVE  frames = <<>> /\ Calm
<1> USE SessionAssumption DEF SessionAssumption
<1>1. frames = <<>>
  BY DEF Clear, Orderly
<1>2. /\ depth = 0 /\ base = NoTx /\ saves = <<>> /\ checkpoints = <<>> /\ ~rollbackOnly
  BY <1>1, Idle DEF Clear
<1>3. rollbackOnly = FALSE /\ checkpoints' = <<>> /\ rollbackOnly' = FALSE
  BY <1>2 DEF Clear, ForgetEverything, ResetTransaction, ScopesInv, TypeOK, ScopeTypeOK
<1>4. Calm
  BY <1>1, <1>2, <1>3 DEF Clear, ForgetEverything, ResetTransaction, db, control, history, Calm
<1> QED
  BY <1>1, <1>4

(* Every operation of the session does one of these seven things to the    *)
(* scopes.                                                                 *)
LEMMA EffectOf == Orderly /\ ScopesInv /\ [Next]_vars => Kinds
<1> SUFFICES ASSUME Orderly /\ ScopesInv, [Next]_vars PROVE Kinds
  OBVIOUS
<1> USE SessionAssumption DEF SessionAssumption
<1>1. ASSUME NEW e \in Entities, PersistNew(e)
      PROVE  Kinds
  <2>1. Len(checkpoints') = Len(checkpoints)
    BY <1>1, TrackLen DEF PersistNew, ScopesInv
  <2> QED
    BY <1>1, <2>1, CalmStep
       DEF PersistNew, UserTurn, Track, db, txState, control, history, uow, HookAt
<1>2. ASSUME NEW e \in Entities, PersistRemoved(e)
      PROVE  Kinds
  BY <1>2, CalmStep DEF PersistRemoved, UserTurn, db, txState, control, history, uow, HookAt
<1>3. ASSUME NEW e \in Entities, Remove(e)
      PROVE  Kinds
  BY <1>3, CalmStep DEF Remove, UserTurn, db, txState, control, history, uow, HookAt
<1>4. ASSUME NEW e \in Entities, Raise(e)
      PROVE  Kinds
  BY <1>4, CalmStep DEF Raise, UserTurn, db, uow, txState, control, history, HookAt
<1>5. ASSUME NEW e \in Entities, NEW v \in Vals, Mutate(e, v)
      PROVE  Kinds
  BY <1>5, CalmStep DEF Mutate, UserTurn, db, uow, txState, control, history, HookAt
<1>6. ASSUME NEW e \in Entities, NEW v \in Vals, Allocate(e, v)
      PROVE  Kinds
  BY <1>6, CalmStep DEF Allocate, db, uow, txState, control, history, UserTurn, HookAt
<1>7. ASSUME NEW e \in Entities, NEW k \in Keys, FindRow(e, k)
      PROVE  Kinds
  <2>1. Len(checkpoints') = Len(checkpoints)
    BY <1>7, TrackLen DEF FindRow, ScopesInv
  <2> QED
    BY <1>7, <2>1, CalmStep
       DEF FindRow, Track, db, txState, control, history, uow, UserTurn, HookAt
<1>8. CASE RawFlush
  BY <1>8, CalmStep
     DEF RawFlush, StartFlush, db, uow, txState, history, control, UserTurn, HookAt
<1>9. CASE FlushNext
  BY <1>9, CalmStep DEF FlushNext, db, uow, txState, history, control, UserTurn, HookAt
<1>10. CASE InsertRow
  <2>1. rows' \in Table
    BY <1>10
       DEF InsertRow, Table, Objects, Orderly, Phases, HookAt, ScopesInv, TypeOK, DbTypeOK,
           MemoryTypeOK, ScopeTypeOK, ControlTypeOK
  <2>2. frames = <<>> \/ base # NoTx
    BY <1>10 DEF InsertRow, ScopesInv, InTransaction
  <2> QED
    BY <1>10, <2>1, <2>2, CalmStep
       DEF InsertRow, Executed, txState, history, db, uow, control, UserTurn, HookAt
<1>11. CASE UpdateRow
  <2>1. rows' \in Table
    BY <1>11
       DEF UpdateRow, Table, Objects, Orderly, Phases, HookAt, ScopesInv, TypeOK, DbTypeOK,
           MemoryTypeOK, ScopeTypeOK, ControlTypeOK
  <2>2. frames = <<>> \/ base # NoTx
    BY <1>11 DEF UpdateRow, ScopesInv, InTransaction
  <2> QED
    BY <1>11, <2>1, <2>2, CalmStep
       DEF UpdateRow, Executed, txState, history, db, uow, control, UserTurn, HookAt
<1>12. CASE DeleteRow
  <2>1. rows' \in Table
    BY <1>12
       DEF DeleteRow, Table, Objects, Orderly, Phases, HookAt, ScopesInv, TypeOK, DbTypeOK,
           MemoryTypeOK, ScopeTypeOK, ControlTypeOK
  <2>2. frames = <<>> \/ base # NoTx
    BY <1>12 DEF DeleteRow, ScopesInv, InTransaction
  <2> QED
    BY <1>12, <2>1, <2>2, CalmStep
       DEF DeleteRow, Executed, txState, history, db, uow, control, UserTurn, HookAt
<1>13. CASE FlushFails
  BY <1>13, CalmStep DEF FlushFails, Throw, db, uow, txState, history, control, UserTurn, HookAt
<1>14. CASE AfterHookReturns
  BY <1>14, CalmStep DEF AfterHookReturns, db, uow, txState, history, control, UserTurn, HookAt
<1>15. CASE FlushDone
  BY <1>15, CalmStep
     DEF FlushDone, StartFlush, db, uow, txState, history, control, UserTurn, HookAt
<1>16. CASE CommitBegins
  BY <1>16, CommitOpens DEF Kinds
<1>17. CASE ScopeBegins
  BY <1>17, ScopeOpens DEF Kinds
<1>18. CASE InnerScopeBegins
  BY <1>18, InnerScopeOpens DEF Kinds
<1>19. CASE CallbackReturns
  BY <1>19, CalmStep
     DEF CallbackReturns, StartFlush, Throw, db, uow, txState, history, control, UserTurn,
         HookAt
<1>20. CASE CallbackThrows
  BY <1>20, CalmStep
     DEF CallbackThrows, Throw, db, uow, txState, history, control, UserTurn, HookAt
<1>21. CASE FinishOutermost
  BY <1>21, OutermostEnds DEF Kinds
<1>22. CASE FinishInner
  BY <1>22, InnerEnds DEF Kinds
<1>23. CASE FinishFails
  BY <1>23, CalmStep
     DEF FinishFails, Top, Throw, db, uow, txState, history, control, UserTurn, HookAt
<1>24. CASE RawFlushThrows
  BY <1>24, CalmStep DEF RawFlushThrows, db, uow, txState, history, control, UserTurn, HookAt
<1>25. CASE CommitUnwinds
  BY <1>25, CommitUndone DEF Kinds
<1>26. CASE ScopeUnwinds
  BY <1>26, ScopeUndone DEF Kinds
<1>27. CASE InnerScopeUnwinds
  BY <1>27, InnerUndone DEF Kinds
<1>28. CASE DispatchNext
  BY <1>28, CalmStep DEF DispatchNext, db, uow, txState, control, history, UserTurn, HookAt
<1>29. CASE HandlerThrows
  BY <1>29, CalmStep DEF HandlerThrows, db, uow, txState, control, history, UserTurn, HookAt
<1>30. CASE DispatchDone
  BY <1>30, CalmStep DEF DispatchDone, db, uow, txState, history, control, UserTurn, HookAt
<1>31. CASE Rollback
  BY <1>31, RollbackIdle DEF Kinds
<1>32. CASE Clear
  BY <1>32, ClearIdle DEF Kinds
<1>33. CASE UNCHANGED vars
  BY <1>33, CalmStep DEF vars, db, uow, txState, control, history, UserTurn, HookAt
<1>34. QED
  BY <1>1, <1>2, <1>3, <1>4, <1>5, <1>6, <1>7, <1>8, <1>9, <1>10, <1>11, <1>12, <1>13, <1>14,
     <1>15, <1>16, <1>17, <1>18, <1>19, <1>20, <1>21, <1>22, <1>23, <1>24, <1>25, <1>26, <1>27,
     <1>28, <1>29, <1>30, <1>31, <1>32, <1>33
     DEF Next, UserStep, FlushStep, ScopeStep, FinishStep, ThrowStep, EventStep

(* Calling, flushing, returning and throwing keep the phases: no user code *)
(* runs in a flush, and what is rollback-only throws before COMMIT.        *)
LEMMA PhasesStep == Orderly /\ ScopesInv /\ [Next]_vars => Phases'
<1> SUFFICES ASSUME Orderly /\ ScopesInv, [Next]_vars PROVE Phases'
  OBVIOUS
<1> USE SessionAssumption DEF SessionAssumption
<1>1. ASSUME NEW e \in Entities, PersistNew(e)
      PROVE  Phases'
  BY <1>1
     DEF PersistNew, UserTurn, Track, db, txState, control, history, ScopesInv, Phases,
         InTransaction, HookAt, Nesting
<1>2. ASSUME NEW e \in Entities, PersistRemoved(e)
      PROVE  Phases'
  BY <1>2
     DEF PersistRemoved, UserTurn, db, txState, control, history, ScopesInv, Phases,
         InTransaction, HookAt, Nesting
<1>3. ASSUME NEW e \in Entities, Remove(e)
      PROVE  Phases'
  BY <1>3
     DEF Remove, UserTurn, db, txState, control, history, ScopesInv, Phases, InTransaction,
         HookAt, Nesting
<1>4. ASSUME NEW e \in Entities, Raise(e)
      PROVE  Phases'
  BY <1>4
     DEF Raise, UserTurn, db, uow, txState, control, ScopesInv, Phases, InTransaction, HookAt,
         Nesting
<1>5. ASSUME NEW e \in Entities, NEW v \in Vals, Mutate(e, v)
      PROVE  Phases'
  BY <1>5
     DEF Mutate, UserTurn, db, uow, txState, control, history, ScopesInv, Phases, InTransaction,
         HookAt, Nesting
<1>6. ASSUME NEW e \in Entities, NEW v \in Vals, Allocate(e, v)
      PROVE  Phases'
  BY <1>6
     DEF Allocate, db, uow, txState, control, history, ScopesInv, Phases, InTransaction, HookAt,
         Nesting
<1>7. ASSUME NEW e \in Entities, NEW k \in Keys, FindRow(e, k)
      PROVE  Phases'
  BY <1>7
     DEF FindRow, Track, db, txState, control, history, ScopesInv, Phases, InTransaction,
         HookAt, Nesting
<1>8. CASE RawFlush
  BY <1>8
     DEF RawFlush, StartFlush, db, uow, txState, history, ScopesInv, Phases, InTransaction,
         HookAt, Nesting
<1>9. CASE FlushNext
  BY <1>9
     DEF FlushNext, db, uow, txState, history, ScopesInv, Phases, InTransaction, HookAt, Nesting
<1>10. CASE InsertRow
  BY <1>10
     DEF InsertRow, Executed, txState, history, ScopesInv, Phases, InTransaction, HookAt,
         Nesting
<1>11. CASE UpdateRow
  BY <1>11
     DEF UpdateRow, Executed, txState, history, ScopesInv, Phases, InTransaction, HookAt,
         Nesting
<1>12. CASE DeleteRow
  BY <1>12
     DEF DeleteRow, Executed, txState, history, ScopesInv, Phases, InTransaction, HookAt,
         Nesting
<1>13. CASE FlushFails
  BY <1>13
     DEF FlushFails, Throw, db, uow, txState, history, ScopesInv, Phases, InTransaction, HookAt,
         Nesting
<1>14. CASE AfterHookReturns
  BY <1>14
     DEF AfterHookReturns, db, uow, txState, history, ScopesInv, Phases, InTransaction, HookAt,
         Nesting
<1>15. CASE FlushDone
  BY <1>15
     DEF FlushDone, StartFlush, db, uow, txState, history, ScopesInv, Phases, InTransaction,
         HookAt, Nesting
<1>16. CASE CommitBegins
  <2>1. OpensOutermost("commit") /\ round' = 1 /\ pc' \in {"flush", "throw"}
    BY <1>16, CommitOpens DEF CommitBegins, StartFlush, Throw
  <2>2. Len(frames') = 1 /\ ~rollbackOnly' /\ frames' # <<>>
    BY <2>1 DEF OpensOutermost
  <2> QED
    BY <2>1, <2>2 DEF Phases, HookAt
<1>17. CASE ScopeBegins
  <2>1. pc = "user" /\ pc' = pc /\ round' = round /\ round = 0
    BY <1>17 DEF ScopeBegins, ScopesInv, Phases
  <2>2. frames' # <<>> => frames'[1].kind # "commit"
    <3>1. CASE Calm
      BY <2>1, <3>1, Idle DEF Calm
    <3>2. CASE OpensOutermost("scope")
      BY <3>2 DEF OpensOutermost, Frame
    <3> QED
      BY <1>17, <3>1, <3>2, ScopeOpens
  <2> QED
    BY <2>1, <2>2 DEF Phases, HookAt
<1>18. CASE InnerScopeBegins
  <2>1. pc = "user" /\ pc' = pc /\ round' = round /\ round = 0
    BY <1>18 DEF InnerScopeBegins, ScopesInv, Phases
  <2>2. frames # <<>> /\ frames[1].kind # "commit" /\ frames \in Seq(Frames)
    BY <1>18, Idle DEF InnerScopeBegins, Outermost, ScopesInv, TypeOK, ScopeTypeOK
  <2>3. frames'[1].kind # "commit"
    <3>1. CASE Calm
      BY <2>2, <3>1 DEF Calm
    <3>2. CASE OpensInner
      <4>1. Len(frames) \in Nat \ {0}
        BY <2>2, EmptySeq
      <4>2. 1 \in 1..Len(frames)
        BY <4>1
      <4> QED
        BY <2>2, <3>2, <4>2 DEF OpensInner, Grows
    <3> QED
      BY <1>18, <3>1, <3>2, InnerScopeOpens
  <2> QED
    BY <2>1, <2>3 DEF Phases, HookAt
<1>19. CASE CallbackReturns
  BY <1>19
     DEF CallbackReturns, StartFlush, Throw, db, uow, txState, history, ScopesInv, Phases,
         InTransaction, HookAt, Nesting
<1>20. CASE CallbackThrows
  BY <1>20
     DEF CallbackThrows, Throw, db, uow, txState, history, ScopesInv, Phases, InTransaction,
         HookAt, Nesting
<1>21. CASE FinishOutermost
  <2>1. frames' = <<>>
    BY <1>21, OutermostEnds DEF EndsOutermost
  <2>2. pc' = "dispatch" /\ round' = 0
    <3>1. frames # <<>>
      BY <1>21 DEF FinishOutermost, ScopesInv, Phases
    <3> QED
      BY <1>21, <3>1, TopKnown DEF FinishOutermost, CommitCheckpoint
  <2> QED
    BY <2>1, <2>2 DEF Phases, HookAt
<1>22. CASE FinishInner
  <2>1. Finishes /\ EndsInner
    BY <1>22, InnerEnds
  <2>2. frames # <<>>
    BY <1>22 DEF FinishInner, ScopesInv, Phases
  <2>3. pc' = "user" /\ round' = 0
    BY <1>22, <2>2, TopKnown DEF FinishInner, CommitCheckpoint
  <2>4. frames'[1] = frames[1] /\ frames[1].kind # "commit"
    <3>1. 1 \in 1..(Len(frames) - 1) /\ Len(frames) # 1
      BY <2>1, <2>2, TopKnown DEF EndsInner
    <3> QED
      BY <2>1, <2>2, <3>1 DEF EndsInner, Shrinks, ScopesInv, Phases
  <2> QED
    BY <2>3, <2>4 DEF Phases, HookAt
<1>23. CASE FinishFails
  BY <1>23
     DEF FinishFails, Top, Throw, db, uow, txState, history, ScopesInv, Phases, InTransaction,
         HookAt, Nesting
<1>24. CASE RawFlushThrows
  BY <1>24
     DEF RawFlushThrows, db, uow, txState, history, ScopesInv, Phases, InTransaction, HookAt,
         Nesting
<1>25. CASE CommitUnwinds
  <2>1. frames' = <<>>
    BY <1>25, CommitUndone DEF UnwindsOutermost, EndsOutermost
  <2>2. pc' = "user" /\ round' = 0
    BY <1>25 DEF CommitUnwinds, Unwind
  <2> QED
    BY <2>1, <2>2 DEF Phases, HookAt
<1>26. CASE ScopeUnwinds
  <2>1. frames' = <<>>
    BY <1>26, ScopeUndone DEF UnwindsOutermost, EndsOutermost
  <2>2. pc' = "user" /\ round' = 0
    BY <1>26 DEF ScopeUnwinds, Unwind
  <2> QED
    BY <2>1, <2>2 DEF Phases, HookAt
<1>27. CASE InnerScopeUnwinds
  <2>1. UnwindsInner /\ pc' = "user" /\ round' = 0
    BY <1>27, InnerUndone DEF InnerScopeUnwinds, Unwind
  <2>2. frames # <<>>
    BY <1>27 DEF InnerScopeUnwinds, ScopesInv, Phases
  <2>3. frames'[1] = frames[1] /\ frames[1].kind # "commit"
    <3>1. 1 \in 1..(Len(frames) - 1) /\ Len(frames) # 1
      BY <2>1, <2>2, TopKnown DEF UnwindsInner, EndsInner
    <3> QED
      BY <2>1, <2>2, <3>1 DEF UnwindsInner, EndsInner, Shrinks, ScopesInv, Phases
  <2> QED
    BY <2>1, <2>3 DEF Phases, HookAt
<1>28. CASE DispatchNext
  BY <1>28 DEF DispatchNext, db, uow, txState, ScopesInv, Phases, InTransaction, HookAt, Nesting
<1>29. CASE HandlerThrows
  BY <1>29
     DEF HandlerThrows, db, uow, txState, ScopesInv, Phases, InTransaction, HookAt, Nesting
<1>30. CASE DispatchDone
  BY <1>30
     DEF DispatchDone, db, uow, txState, history, ScopesInv, Phases, InTransaction, HookAt,
         Nesting
<1>31. CASE Rollback
  BY <1>31
     DEF Rollback, control, ResetTransaction, ScopesInv, Phases, InTransaction, HookAt, Nesting
<1>32. CASE Clear
  BY <1>32
     DEF Clear, ForgetEverything, ResetTransaction, db, control, history, ScopesInv, Phases,
         InTransaction, HookAt, Nesting
<1>33. CASE UNCHANGED vars
  BY <1>33
     DEF vars, db, uow, txState, control, history, ScopesInv, Phases, InTransaction, HookAt,
         Nesting
<1>34. QED
  BY <1>1, <1>2, <1>3, <1>4, <1>5, <1>6, <1>7, <1>8, <1>9, <1>10, <1>11, <1>12, <1>13, <1>14,
     <1>15, <1>16, <1>17, <1>18, <1>19, <1>20, <1>21, <1>22, <1>23, <1>24, <1>25, <1>26, <1>27,
     <1>28, <1>29, <1>30, <1>31, <1>32, <1>33
     DEF Next, UserStep, FlushStep, ScopeStep, FinishStep, ThrowStep, EventStep

(* Each scope that opens or ends moves the depth, the activations and the  *)
(* memory checkpoints together.                                            *)
LEMMA NestingStep == Orderly /\ ScopesInv /\ [Next]_vars => Nesting'
<1> SUFFICES ASSUME ScopesInv, Kinds PROVE Nesting'
  BY EffectOf
<1>1. Len(frames) \in Nat /\ (frames = <<>> <=> Len(frames) = 0) /\ frames \in Seq(Frames)
  BY EmptySeq DEF ScopesInv, TypeOK, ScopeTypeOK
<1>2. CASE Calm
  BY <1>2 DEF Calm, ScopesInv, Nesting
<1>3. ASSUME NEW kind \in {"commit", "scope"}, OpensOutermost(kind) PROVE Nesting'
  <2>1. /\ Len(frames') = 1 /\ Len(checkpoints') = 1 /\ frames' # <<>>
        /\ frames'[1].outermost = TRUE /\ frames'[1].kind = kind
    BY <1>3 DEF OpensOutermost, Frame
  <2>2. depth' = IF frames'[1].kind = "commit" THEN 0 ELSE 1
    BY <1>3, <2>1 DEF OpensOutermost
  <2> QED
    BY <2>1, <2>2 DEF Nesting
<1>4. CASE OpensInner
  <2>1. /\ Len(frames') = Len(frames) + 1 /\ frames'[Len(frames) + 1] = Frame("scope", FALSE, spCounter + 1)
        /\ \A i \in 1..Len(frames) : frames'[i] = frames[i]
    BY <1>1, <1>4 DEF OpensInner, Grows
  <2>2. Len(frames) # 0
    BY <1>1, <1>4 DEF OpensInner
  <2> QED
    BY <1>1, <1>4, <2>1, <2>2 DEF OpensInner, Frame, ScopesInv, Nesting
<1>5. CASE EndsOutermost
  BY <1>5, EmptySeq DEF EndsOutermost, Nesting
<1>6. CASE EndsInner
  <2>1. Len(frames') = Len(frames) - 1 /\ \A i \in 1..(Len(frames) - 1) : frames'[i] = frames[i]
    BY <1>1, <1>6 DEF EndsInner, Shrinks
  <2>2. frames' # <<>> /\ frames # <<>>
    BY <1>1, <1>6, <2>1 DEF EndsInner
  <2> QED
    BY <1>1, <1>6, <2>1, <2>2, TopKnown DEF EndsInner, ScopesInv, Nesting
<1> QED
  BY <1>2, <1>3, <1>4, <1>5, <1>6 DEF Kinds, UnwindsOutermost, UnwindsInner

(* BEGIN comes with the outermost scope and ends with it, and the rows     *)
(* from before it are what ROLLBACK brings back.                           *)
LEMMA InTransactionStep == Orderly /\ ScopesInv /\ [Next]_vars => InTransaction'
<1> SUFFICES ASSUME ScopesInv, Kinds PROVE InTransaction'
  BY EffectOf
<1> USE SessionAssumption DEF SessionAssumption
<1>1. Len(frames) \in Nat /\ (frames = <<>> <=> Len(frames) = 0) /\ frames \in Seq(Frames)
  BY EmptySeq DEF ScopesInv, TypeOK, ScopeTypeOK
<1>2. CASE Calm
  BY <1>2 DEF Calm, ScopesInv, InTransaction
<1>3. ASSUME NEW kind \in {"commit", "scope"}, OpensOutermost(kind) PROVE InTransaction'
  <2>1. frames'[1].begin.rows = rows /\ frames'[1].kind = kind /\ frames' # <<>>
    BY <1>3 DEF OpensOutermost, Frame, Snapshot
  <2>2. rows # NoTx
    BY DEF ScopesInv, TypeOK, DbTypeOK, Table
  <2>3. base' # NoTx => base' = rows
    BY <1>3 DEF OpensOutermost
  <2>4. base' = NoTx => kind = "commit" /\ pc' = "throw" /\ round' = 1
    BY <1>3, <2>2 DEF OpensOutermost
  <2>5. saves' = <<>> /\ rows' = rows
    BY <1>3 DEF OpensOutermost
  <2> QED
    BY <2>1, <2>3, <2>4, <2>5 DEF InTransaction
<1>4. CASE OpensInner
  <2>1. frames'[1] = frames[1] /\ frames' # <<>>
    <3>1. 1 \in 1..Len(frames) /\ Len(frames') # 0
      BY <1>1, <1>4 DEF OpensInner, Grows
    <3> QED
      BY <1>4, <3>1 DEF OpensInner, Grows
  <2> QED
    BY <1>4, <2>1 DEF OpensInner, ScopesInv, InTransaction
<1>5. CASE EndsOutermost
  BY <1>5 DEF EndsOutermost, InTransaction
<1>6. CASE EndsInner /\ base # NoTx
  <2>1. frames'[1] = frames[1] /\ frames' # <<>>
    <3>1. 1 \in 1..(Len(frames) - 1)
      BY <1>1, <1>6 DEF EndsInner
    <3> QED
      BY <1>6, <3>1 DEF EndsInner, Shrinks
  <2> QED
    BY <1>6, <2>1 DEF EndsInner, ScopesInv, InTransaction
<1> QED
  BY <1>2, <1>3, <1>4, <1>5, <1>6 DEF Kinds, UnwindsOutermost, UnwindsInner, Finishes

(* begin_transaction_scope() gives every savepoint a name of its own, and  *)
(* the rows it was taken with do not change.                               *)
LEMMA SavepointsStep == Orderly /\ ScopesInv /\ [Next]_vars => SavepointsKnown'
<1> SUFFICES ASSUME ScopesInv, Kinds PROVE SavepointsKnown'
  BY EffectOf
<1>1. /\ Len(frames) \in Nat /\ (frames = <<>> <=> Len(frames) = 0) /\ frames \in Seq(Frames)
      /\ Len(saves) \in Nat /\ spCounter \in Nat /\ saves \in Seq(Savepoints)
  BY EmptySeq DEF ScopesInv, TypeOK, ScopeTypeOK, DbTypeOK
<1>2. /\ \A i \in 1..Len(saves) : saves[i] \in [name : Nat, rows : Table]
      /\ \A i \in 1..Len(frames) : frames[i].sp \in Nat
  <2>1. \A i \in 1..Len(frames) : frames[i] \in Frames
    BY <1>1
  <2> QED
    BY <1>1, <2>1, ElementOfSeq DEF Frames, Savepoints
<1>3. CASE Calm
  <2>1. CASE frames = <<>>
    <3>1. saves' = <<>> /\ frames' = <<>>
      BY <1>3, <2>1 DEF Calm, ScopesInv, InTransaction
    <3> QED
      BY <3>1 DEF SavepointsKnown
  <2>2. CASE frames # <<>>
    <3>1. spCounter <= spCounter' /\ spCounter' \in Nat /\ saves' = saves /\ frames' = frames
      BY <1>3, <2>2 DEF Calm
    <3> QED
      BY <1>1, <1>2, <3>1 DEF ScopesInv, SavepointsKnown
  <2> QED
    BY <2>1, <2>2
<1>4. ASSUME NEW kind \in {"commit", "scope"}, OpensOutermost(kind) PROVE SavepointsKnown'
  BY <1>1, <1>4 DEF OpensOutermost, Frame, SavepointsKnown
<1>5. CASE OpensInner
  <2>1. /\ Len(frames') = Len(frames) + 1 /\ frames'[Len(frames) + 1] = Frame("scope", FALSE, spCounter + 1)
        /\ \A i \in 1..Len(frames) : frames'[i] = frames[i]
        /\ Len(saves') = Len(saves) + 1 /\ saves'[Len(saves) + 1] = [name |-> spCounter + 1, rows |-> rows]
        /\ \A i \in 1..Len(saves) : saves'[i] = saves[i]
    BY <1>1, <1>5 DEF OpensInner, Grows
  <2>2. /\ frames'[Len(frames) + 1].sp = spCounter + 1 /\ frames'[Len(frames) + 1].begin.rows = rows
        /\ saves'[Len(saves) + 1].name = spCounter + 1 /\ saves'[Len(saves) + 1].rows = rows
    BY <2>1 DEF Frame, Snapshot
  <2>3. spCounter' = spCounter + 1
    BY <1>5 DEF OpensInner
  <2>7. /\ \A i \in 1..Len(saves) : saves[i].name \in Nat /\ saves[i].name <= spCounter
        /\ \A i \in 1..Len(saves') : i = Len(saves) + 1 \/ (i \in 1..Len(saves) /\ saves'[i] = saves[i])
    BY <1>1, <1>2, <2>1 DEF ScopesInv, SavepointsKnown
  <2>4. \A i, j \in 1..Len(saves') : saves'[i].name = saves'[j].name => i = j
    <3>1. \A i, j \in 1..Len(saves) : saves[i].name = saves[j].name => i = j
      BY DEF ScopesInv, SavepointsKnown
    <3>2. \A i \in 1..Len(saves) : saves[i].name # spCounter + 1
      BY <1>1, <2>7
    <3> QED
      BY SMTT(60), <2>2, <2>7, <3>1, <3>2
  <2>5. \A j \in 1..Len(saves') : saves'[j].name <= spCounter'
    <3>1. \A i \in 1..Len(saves) : saves[i].name <= spCounter + 1
      BY <1>1, <2>7
    <3> QED
      BY SMTT(60), <1>1, <2>2, <2>3, <2>7, <3>1
  <2>6. ASSUME NEW i \in 1..Len(frames')
        PROVE  /\ frames'[i].sp <= spCounter'
               /\ i # 1 => \A j \in 1..Len(saves') :
                    saves'[j].name = frames'[i].sp => saves'[j].rows = frames'[i].begin.rows
    <3>1. CASE i = Len(frames) + 1
      <4>1. frames'[i].sp = spCounter + 1 /\ frames'[i].begin.rows = rows
        BY <2>2, <3>1
      <4>2. \A j \in 1..Len(saves') : saves'[j].name = spCounter + 1 => saves'[j].rows = rows
        BY <1>1, <2>2, <2>7
      <4> QED
        BY <1>1, <2>3, <4>1, <4>2
    <3>2. CASE i # Len(frames) + 1
      <4>0. i \in 1..Len(frames) /\ frames'[i] = frames[i]
        BY <1>1, <2>1, <3>2
      <4>1. i \in 1..Len(frames) /\ frames'[i] = frames[i] /\ frames[i].sp <= spCounter /\ frames[i].sp \in Nat
        BY <1>2, <4>0 DEF ScopesInv, SavepointsKnown
      <4>2. frames[i].sp <= spCounter'
        BY <1>1, <2>3, <4>1
      <4>3. i # 1 => \A j \in 1..Len(saves) :
              saves[j].name = frames[i].sp => saves[j].rows = frames[i].begin.rows
        BY <4>1 DEF ScopesInv, SavepointsKnown
      <4>4. \A j \in 1..Len(saves') : saves'[j].name = frames[i].sp => j \in 1..Len(saves) /\ saves'[j] = saves[j]
        BY <1>1, <2>2, <2>7, <4>1
      <4> QED
        BY <4>1, <4>2, <4>3, <4>4
    <3> QED
      BY <3>1, <3>2
  <2> QED
    BY <2>4, <2>5, <2>6 DEF SavepointsKnown
<1>6. CASE EndsOutermost
  BY <1>6 DEF EndsOutermost, SavepointsKnown
<1>7. CASE EndsInner
  <2>1. Len(frames') = Len(frames) - 1 /\ \A i \in 1..(Len(frames) - 1) : frames'[i] = frames[i]
    BY <1>1, <1>7 DEF EndsInner, Shrinks
  <2>2. Len(saves') <= Len(saves) /\ \A i \in 1..Len(saves') : saves'[i] = saves[i]
    BY <1>7 DEF EndsInner
  <2>4. spCounter' = spCounter
    BY <1>7 DEF EndsInner
  <2>5. \A i \in 1..Len(frames') : i \in 1..Len(frames) /\ frames'[i] = frames[i]
    BY <1>1, <2>1
  <2>6. \A i \in 1..Len(saves') : i \in 1..Len(saves) /\ saves'[i] = saves[i]
    BY <1>1, <2>2
  <2> QED
    BY SMTT(60), <2>4, <2>5, <2>6 DEF ScopesInv, SavepointsKnown
<1> QED
  BY <1>3, <1>4, <1>5, <1>6, <1>7 DEF Kinds, UnwindsOutermost, UnwindsInner

(* A failed inner scope is remembered until the outermost one ends.        *)
LEMMA PoisonedStep == Orderly /\ ScopesInv /\ [Next]_vars => Poisoned'
<1> SUFFICES ASSUME ScopesInv, Kinds PROVE Poisoned'
  BY EffectOf
<1>1. Len(frames) \in Nat /\ (frames = <<>> <=> Len(frames) = 0) /\ frames \in Seq(Frames)
  BY EmptySeq DEF ScopesInv, TypeOK, ScopeTypeOK
<1>2. CASE Calm
  BY <1>2 DEF Calm, ScopesInv, Poisoned
<1>3. ASSUME NEW kind \in {"commit", "scope"}, OpensOutermost(kind) PROVE Poisoned'
  BY <1>3 DEF OpensOutermost, Poisoned
<1>4. CASE OpensInner
  BY <1>4, TopKnown DEF OpensInner, ScopesInv, Poisoned
<1>5. CASE Finishes /\ (EndsOutermost \/ EndsInner)
  BY <1>5 DEF Finishes, Poisoned
<1>6. CASE UnwindsOutermost
  BY <1>6 DEF UnwindsOutermost, Poisoned
<1>7. CASE UnwindsInner
  <2>1. depth' = Len(frames) - 1 /\ Len(frames) > 1
    BY <1>1, <1>7, TopKnown DEF UnwindsInner, EndsInner
  <2>2. depth' # 0
    <3>1. PICK n \in Nat : n = Len(frames)
      BY <1>1
    <3>2. depth' = n - 1 /\ n > 1
      BY <2>1, <3>1
    <3> QED
      BY <3>2
  <2>3. rollbackOnly'
    BY <1>7 DEF UnwindsInner
  <2> QED
    BY <2>2, <2>3 DEF Poisoned
<1> QED
  BY <1>2, <1>3, <1>4, <1>5, <1>6, <1>7 DEF Kinds

(* The rows stay a table, whoever writes or rolls back.                    *)
LEMMA DbTypeStep == Orderly /\ ScopesInv /\ [Next]_vars => DbTypeOK'
<1> SUFFICES ASSUME ScopesInv, Kinds PROVE DbTypeOK'
  BY EffectOf
<1>1. /\ rows \in Table /\ base \in Table \union {NoTx} /\ saves \in Seq(Savepoints)
      /\ spCounter \in Nat /\ <<>> \in Seq(Savepoints)
  BY EmptySeq DEF ScopesInv, TypeOK, DbTypeOK, ScopeTypeOK
<1>2. CASE Calm
  BY <1>1, <1>2 DEF Calm, DbTypeOK
<1>3. ASSUME NEW kind \in {"commit", "scope"}, OpensOutermost(kind) PROVE DbTypeOK'
  BY <1>1, <1>3 DEF OpensOutermost, DbTypeOK
<1>4. CASE OpensInner
  BY <1>1, <1>4 DEF OpensInner, Grows, DbTypeOK
<1>5. CASE Finishes /\ EndsOutermost
  BY <1>1, <1>5 DEF Finishes, EndsOutermost, DbTypeOK
<1>6. CASE Finishes /\ EndsInner
  BY <1>1, <1>6 DEF Finishes, EndsInner, DbTypeOK
<1>7. CASE UnwindsOutermost
  <2>1. frames[1].begin.rows \in Table
    BY <1>7, RowsAreTable DEF UnwindsOutermost, EndsOutermost, ScopesInv
  <2> QED
    BY <1>1, <1>7, <2>1 DEF UnwindsOutermost, EndsOutermost, DbTypeOK
<1>8. CASE UnwindsInner
  <2>1. LastOf(frames).begin.rows \in Table
    <3>1. frames \in Seq(Frames) /\ frames # <<>>
      BY <1>8, EmptySeq DEF UnwindsInner, EndsInner, ScopesInv, TypeOK, ScopeTypeOK
    <3>2. LastOf(frames) \in Frames
      BY <3>1, PopSeq
    <3> QED
      BY <3>2 DEF Frames, Snapshots
  <2> QED
    BY <1>1, <1>8, <2>1 DEF UnwindsInner, EndsInner, DbTypeOK
<1> QED
  BY <1>2, <1>3, <1>4, <1>5, <1>6, <1>7, <1>8 DEF Kinds

(* The counters of the scopes stay numbers: the depth is not decremented   *)
(* below zero.                                                             *)
LEMMA ScopeTypeStep == Orderly /\ ScopesInv /\ [Next]_vars => ScopeTypeOK'
<1> SUFFICES ASSUME ScopesInv, Kinds PROVE ScopeTypeOK'
  BY EffectOf
<1>1. /\ depth \in Nat /\ rollbackOnly \in BOOLEAN /\ spCounter \in Nat /\ frames \in Seq(Frames)
      /\ innerFailed \in BOOLEAN /\ <<>> \in Seq(Frames)
  BY EmptySeq DEF ScopesInv, TypeOK, ScopeTypeOK
<1>2. CASE Calm
  BY <1>1, <1>2 DEF Calm, ScopeTypeOK
<1>3. ASSUME NEW kind \in {"commit", "scope"}, OpensOutermost(kind) PROVE ScopeTypeOK'
  BY <1>1, <1>3 DEF OpensOutermost, ScopeTypeOK
<1>4. CASE OpensInner
  BY <1>1, <1>4 DEF OpensInner, Grows, ScopeTypeOK
<1>5. ASSUME EndsOutermost, rollbackOnly' \in BOOLEAN, innerFailed' \in BOOLEAN PROVE ScopeTypeOK'
  BY <1>1, <1>5 DEF EndsOutermost, ScopeTypeOK
<1>6. ASSUME EndsInner, rollbackOnly' \in BOOLEAN, innerFailed' \in BOOLEAN PROVE ScopeTypeOK'
  <2>1. depth - 1 \in Nat
    BY <1>1, <1>6, TopKnown DEF EndsInner
  <2> QED
    BY <1>1, <1>6, <2>1 DEF EndsInner, Shrinks, ScopeTypeOK
<1> QED
  BY <1>1, <1>2, <1>3, <1>4, <1>5, <1>6 DEF Kinds, Finishes, UnwindsOutermost, UnwindsInner

(* What a flush has still to do are entities, with their objects and       *)
(* records.                                                                *)
LEMMA TodoKnown ==
  ASSUME TypeOK, todo # <<>>
  PROVE  /\ Head(todo) \in Entities /\ Tail(todo) \in Seq(Entities)
         /\ obj[Head(todo)] \in Objects /\ tracked[Head(todo)] \in Records
         /\ obj[Head(todo)].val \in Vals
<1>1. Head(todo) \in Entities /\ Tail(todo) \in Seq(Entities)
  BY DEF TypeOK, ControlTypeOK
<1>2. obj[Head(todo)] \in Objects /\ tracked[Head(todo)] \in Records
  BY <1>1 DEF TypeOK, MemoryTypeOK
<1> QED
  BY <1>1, <1>2 DEF Objects

(* The domain events of an object are numbers the session has given.       *)
LEMMA EventTypes ==
  ASSUME TypeOK, NEW e \in Entities
  PROVE  /\ obj[e].events \in Seq(Nat)
         /\ \A n \in Positions(obj[e].events) : {obj[e].events[i] : i \in 1..n} \subseteq Nat
         /\ {obj[e].events[i] : i \in Positions(obj[e].events)} \subseteq Nat
<1>1. obj[e].events \in Seq(Nat)
  BY DEF TypeOK, MemoryTypeOK, Objects
<1>2. \A i \in 1..Len(obj[e].events) : obj[e].events[i] \in Nat
  BY <1>1
<1> QED
  BY <1>1, <1>2 DEF Positions

(* What a failed scope voids are events.                                   *)
LEMMA VoidedType ==
  ASSUME TypeOK, NEW f \in Frames, Voids(f)
  PROVE  voided' \subseteq Nat
<1>1. f.begin.next + 1 \in Nat /\ nextEvent \in Nat
  BY DEF TypeOK, ControlTypeOK, Frames, Snapshots
<1>2. (f.begin.next + 1)..nextEvent \subseteq Nat
  BY <1>1
<1> QED
  BY <1>2 DEF TypeOK, ControlTypeOK, Voids

(* The local state of flush and dispatch keeps its type.                   *)
LEMMA ControlTypeStep == Orderly /\ ScopesInv /\ [Next]_vars => ControlTypeOK'
<1> SUFFICES ASSUME Orderly /\ ScopesInv, [Next]_vars PROVE ControlTypeOK'
  OBVIOUS
<1> USE SessionAssumption DEF SessionAssumption
<1>1. ASSUME NEW e \in Entities, PersistNew(e)
      PROVE  ControlTypeOK'
  BY <1>1
     DEF PersistNew, UserTurn, Track, db, txState, control, history, TypeOK, DbTypeOK,
         MemoryTypeOK, ScopeTypeOK, ControlTypeOK, ScopesInv, HookAt, Labels, Positions, Phases
<1>2. ASSUME NEW e \in Entities, PersistRemoved(e)
      PROVE  ControlTypeOK'
  BY <1>2
     DEF PersistRemoved, UserTurn, db, txState, control, history, TypeOK, DbTypeOK,
         MemoryTypeOK, ScopeTypeOK, ControlTypeOK, ScopesInv, HookAt, Labels, Positions, Phases
<1>3. ASSUME NEW e \in Entities, Remove(e)
      PROVE  ControlTypeOK'
  BY <1>3
     DEF Remove, UserTurn, db, txState, control, history, TypeOK, DbTypeOK, MemoryTypeOK,
         ScopeTypeOK, ControlTypeOK, ScopesInv, HookAt, Labels, Positions, Phases
<1>4. ASSUME NEW e \in Entities, Raise(e)
      PROVE  ControlTypeOK'
  BY SMTT(60), <1>4
     DEF Raise, UserTurn, db, uow, txState, control, TypeOK, DbTypeOK, MemoryTypeOK,
         ScopeTypeOK, ControlTypeOK, ScopesInv, HookAt, Labels, Positions, Phases
<1>5. ASSUME NEW e \in Entities, NEW v \in Vals, Mutate(e, v)
      PROVE  ControlTypeOK'
  BY <1>5
     DEF Mutate, UserTurn, db, uow, txState, control, history, TypeOK, DbTypeOK, MemoryTypeOK,
         ScopeTypeOK, ControlTypeOK, ScopesInv, HookAt, Labels, Positions, Phases
<1>6. ASSUME NEW e \in Entities, NEW v \in Vals, Allocate(e, v)
      PROVE  ControlTypeOK'
  BY <1>6
     DEF Allocate, db, uow, txState, control, history, TypeOK, DbTypeOK, MemoryTypeOK,
         ScopeTypeOK, ControlTypeOK, ScopesInv, HookAt, Labels, Positions, Phases
<1>7. ASSUME NEW e \in Entities, NEW k \in Keys, FindRow(e, k)
      PROVE  ControlTypeOK'
  BY <1>7
     DEF FindRow, Track, db, txState, control, history, TypeOK, DbTypeOK, MemoryTypeOK,
         ScopeTypeOK, ControlTypeOK, ScopesInv, HookAt, Labels, Positions, Phases
<1>8. CASE RawFlush
  BY <1>8
     DEF RawFlush, StartFlush, db, uow, txState, history, TypeOK, DbTypeOK, MemoryTypeOK,
         ScopeTypeOK, ControlTypeOK, ScopesInv, HookAt, Labels, Positions, Phases
<1>9. CASE FlushNext
  BY <1>9, TodoKnown DEF FlushNext, history, HookAt, Labels, ScopesInv, TypeOK, ControlTypeOK
<1>10. CASE InsertRow
  BY <1>10
     DEF InsertRow, Executed, txState, history, TypeOK, DbTypeOK, MemoryTypeOK, ScopeTypeOK,
         ControlTypeOK, ScopesInv, HookAt, Labels, Positions, Phases
<1>11. CASE UpdateRow
  BY <1>11
     DEF UpdateRow, Executed, txState, history, TypeOK, DbTypeOK, MemoryTypeOK, ScopeTypeOK,
         ControlTypeOK, ScopesInv, HookAt, Labels, Positions, Phases
<1>12. CASE DeleteRow
  BY <1>12
     DEF DeleteRow, Executed, txState, history, TypeOK, DbTypeOK, MemoryTypeOK, ScopeTypeOK,
         ControlTypeOK, ScopesInv, HookAt, Labels, Positions, Phases
<1>13. CASE FlushFails
  BY <1>13
     DEF FlushFails, Throw, db, uow, txState, history, TypeOK, DbTypeOK, MemoryTypeOK,
         ScopeTypeOK, ControlTypeOK, ScopesInv, HookAt, Labels, Positions, Phases
<1>14. CASE AfterHookReturns
  BY <1>14
     DEF AfterHookReturns, db, uow, txState, history, TypeOK, DbTypeOK, MemoryTypeOK,
         ScopeTypeOK, ControlTypeOK, ScopesInv, HookAt, Labels, Positions, Phases
<1>15. CASE FlushDone
  <2>1. order \in Seq(Entities) /\ 2 \in 0..2
    BY DEF ScopesInv, TypeOK, MemoryTypeOK
  <2> QED
    BY <1>15, <2>1 DEF FlushDone, StartFlush, history, Labels, ScopesInv, TypeOK, ControlTypeOK
<1>16. CASE CommitBegins
  <2>1. order \in Seq(Entities) /\ 1 \in 0..2 /\ <<>> \in Seq(Entities)
    BY EmptySeq DEF ScopesInv, TypeOK, MemoryTypeOK
  <2> QED
    BY <1>16, <2>1
       DEF CommitBegins, Open, StartFlush, Throw, Labels, ScopesInv, TypeOK, ControlTypeOK
<1>17. CASE ScopeBegins
  BY <1>17
     DEF ScopeBegins, Outermost, Open, uow, history, TypeOK, DbTypeOK, MemoryTypeOK,
         ScopeTypeOK, ControlTypeOK, ScopesInv, HookAt, Labels, Positions, Phases
<1>18. CASE InnerScopeBegins
  BY <1>18
     DEF InnerScopeBegins, Outermost, Open, uow, history, TypeOK, DbTypeOK, MemoryTypeOK,
         ScopeTypeOK, ControlTypeOK, ScopesInv, HookAt, Labels, Positions, Phases
<1>19. CASE CallbackReturns
  <2>1. order \in Seq(Entities) /\ 1 \in 0..2 /\ <<>> \in Seq(Entities)
    BY EmptySeq DEF ScopesInv, TypeOK, MemoryTypeOK
  <2> QED
    BY <1>19, <2>1
       DEF CallbackReturns, StartFlush, Throw, history, Labels, ScopesInv, TypeOK, ControlTypeOK
<1>20. CASE CallbackThrows
  BY <1>20
     DEF CallbackThrows, Throw, db, uow, txState, history, TypeOK, DbTypeOK, MemoryTypeOK,
         ScopeTypeOK, ControlTypeOK, ScopesInv, HookAt, Labels, Positions, Phases
<1>21. CASE FinishOutermost
  <2>1. pc' = "dispatch" /\ todo' = order /\ round' = 0 /\ current' = current
    <3>1. frames # <<>>
      BY <1>21 DEF FinishOutermost, ScopesInv, Phases
    <3> QED
      BY <1>21, <3>1, TopKnown DEF FinishOutermost, CommitCheckpoint
  <2>2. order \in Seq(Entities) /\ 0 \in 0..2
    BY DEF ScopesInv, TypeOK, MemoryTypeOK
  <2> QED
    BY <1>21, <2>1, <2>2 DEF FinishOutermost, history, Labels, ScopesInv, TypeOK, ControlTypeOK
<1>22. CASE FinishInner
  <2>1. pc' = "user" /\ todo' = <<>> /\ round' = 0 /\ current' = current
    <3>1. frames # <<>>
      BY <1>22 DEF FinishInner, ScopesInv, Phases
    <3> QED
      BY <1>22, <3>1, TopKnown DEF FinishInner, CommitCheckpoint
  <2>2. <<>> \in Seq(Entities) /\ 0 \in 0..2
    BY EmptySeq
  <2> QED
    BY <1>22, <2>1, <2>2 DEF FinishInner, history, Labels, ScopesInv, TypeOK, ControlTypeOK
<1>23. CASE FinishFails
  BY <1>23
     DEF FinishFails, Top, Throw, db, uow, txState, history, TypeOK, DbTypeOK, MemoryTypeOK,
         ScopeTypeOK, ControlTypeOK, ScopesInv, HookAt, Labels, Positions, Phases
<1>24. CASE RawFlushThrows
  BY <1>24
     DEF RawFlushThrows, db, uow, txState, history, TypeOK, DbTypeOK, MemoryTypeOK, ScopeTypeOK,
         ControlTypeOK, ScopesInv, HookAt, Labels, Positions, Phases
<1>25. CASE CommitUnwinds
  <2>1. Top \in Frames
    BY <1>25, TopKnown DEF CommitUnwinds, ScopesInv, Phases
  <2>2. voided' \subseteq Nat
    BY <1>25, <2>1, VoidedType DEF CommitUnwinds, Unwind, ScopesInv
  <2>3. pc' = "user" /\ round' = 0 /\ UNCHANGED <<todo, current, nextEvent, delivered>>
    BY <1>25 DEF CommitUnwinds, Unwind
  <2> QED
    BY <2>2, <2>3 DEF Labels, ScopesInv, TypeOK, ControlTypeOK
<1>26. CASE ScopeUnwinds
  <2>1. Top \in Frames
    BY <1>26, TopKnown DEF ScopeUnwinds, ScopesInv, Phases
  <2>2. voided' \subseteq Nat
    BY <1>26, <2>1, VoidedType DEF ScopeUnwinds, Unwind, ScopesInv
  <2>3. pc' = "user" /\ round' = 0 /\ UNCHANGED <<todo, current, nextEvent, delivered>>
    BY <1>26 DEF ScopeUnwinds, Unwind
  <2> QED
    BY <2>2, <2>3 DEF Labels, ScopesInv, TypeOK, ControlTypeOK
<1>27. CASE InnerScopeUnwinds
  <2>1. Top \in Frames
    BY <1>27, TopKnown DEF InnerScopeUnwinds, ScopesInv, Phases
  <2>2. voided' \subseteq Nat
    BY <1>27, <2>1, VoidedType DEF InnerScopeUnwinds, Unwind, ScopesInv
  <2>3. pc' = "user" /\ round' = 0 /\ UNCHANGED <<todo, current, nextEvent, delivered>>
    BY <1>27 DEF InnerScopeUnwinds, Unwind
  <2> QED
    BY <2>2, <2>3 DEF Labels, ScopesInv, TypeOK, ControlTypeOK
<1>28. CASE DispatchNext
  <2>1. Tail(todo) \in Seq(Entities)
    BY <1>28, TodoKnown DEF DispatchNext, ScopesInv
  <2>2. delivered' \subseteq Nat
    BY <1>28, TodoKnown, EventTypes DEF DispatchNext, ScopesInv, TypeOK, ControlTypeOK
  <2> QED
    BY <1>28, <2>1, <2>2 DEF DispatchNext, ScopesInv, TypeOK, ControlTypeOK
<1>29. CASE HandlerThrows
  <2>1. <<>> \in Seq(Entities)
    BY EmptySeq
  <2>2. delivered' \subseteq Nat
    BY <1>29, TodoKnown, EventTypes DEF HandlerThrows, ScopesInv, TypeOK, ControlTypeOK
  <2> QED
    BY <1>29, <2>1, <2>2 DEF HandlerThrows, Labels, ScopesInv, TypeOK, ControlTypeOK
<1>30. CASE DispatchDone
  BY <1>30
     DEF DispatchDone, db, uow, txState, history, TypeOK, DbTypeOK, MemoryTypeOK, ScopeTypeOK,
         ControlTypeOK, ScopesInv, HookAt, Labels, Positions, Phases
<1>31. CASE Rollback
  <2>1. voided' = voided
    BY <1>31, RollbackIdle, Idle DEF Rollback, Calm, ScopesInv, Nesting
  <2> QED
    BY <1>31, <2>1 DEF Rollback, control, ScopesInv, TypeOK, ControlTypeOK
<1>32. CASE Clear
  BY <1>32
     DEF Clear, ForgetEverything, ResetTransaction, db, control, history, TypeOK, DbTypeOK,
         MemoryTypeOK, ScopeTypeOK, ControlTypeOK, ScopesInv, HookAt, Labels, Positions, Phases
<1>33. CASE UNCHANGED vars
  BY <1>33
     DEF vars, db, uow, txState, control, history, TypeOK, DbTypeOK, MemoryTypeOK, ScopeTypeOK,
         ControlTypeOK, ScopesInv, HookAt, Labels, Positions, Phases
<1>34. QED
  BY <1>1, <1>2, <1>3, <1>4, <1>5, <1>6, <1>7, <1>8, <1>9, <1>10, <1>11, <1>12, <1>13, <1>14,
     <1>15, <1>16, <1>17, <1>18, <1>19, <1>20, <1>21, <1>22, <1>23, <1>24, <1>25, <1>26, <1>27,
     <1>28, <1>29, <1>30, <1>31, <1>32, <1>33
     DEF Next, UserStep, FlushStep, ScopeStep, FinishStep, ThrowStep, EventStep

(* Updates of one object or of one record keep the types of all.           *)
LEMMA MemoryTypes ==
  ASSUME TypeOK
  PROVE  /\ \A e \in Entities : obj[e] \in Objects /\ tracked[e] \in Records /\ obj[e].val \in Vals
         /\ \A f, e, x : f = [tracked EXCEPT ![e] = x] /\ x \in Records => f \in [Entities -> Records]
         /\ \A f, e, x : f = [obj EXCEPT ![e] = x] /\ x \in Objects => f \in [Entities -> Objects]
  BY DEF TypeOK, MemoryTypeOK, Objects

(* A failed scope leaves objects and records of their types.               *)
LEMMA UnwindTypes ==
  ASSUME TypeOK, checkpoints # <<>>, Unwind
  PROVE  MemoryTypeOK'
<1>1. LastOf(checkpoints) \in Checkpoints /\ Pop(checkpoints) \in Seq(Checkpoints)
  BY PopSeq DEF TypeOK, MemoryTypeOK
<1>2. RestoreFrom(LastOf(checkpoints)) /\ checkpoints' = Pop(checkpoints)
  BY DEF Unwind, RollbackCheckpoint
<1> QED
  BY <1>1, <1>2, RestoreTypes DEF MemoryTypeOK

(* Opening a scope keeps the types of the memory and adds a checkpoint.    *)
LEMMA OpenTypes ==
  ASSUME TypeOK, NEW kind, NEW outermost, NEW sp, Open(kind, outermost, sp)
  PROVE  MemoryTypeOK'
<1>1. Append(checkpoints, NewCheckpoint) \in Seq(Checkpoints)
  BY NowTypes, PushSeq DEF TypeOK, MemoryTypeOK
<1> QED
  BY <1>1 DEF Open, TypeOK, MemoryTypeOK

(* Tracking, flushing and restoring keep the types of the objects, of the  *)
(* records and of the identity map.                                        *)
LEMMA MemoryTypeStep == Orderly /\ ScopesInv /\ [Next]_vars => MemoryTypeOK'
<1> SUFFICES ASSUME Orderly /\ ScopesInv, [Next]_vars PROVE MemoryTypeOK'
  OBVIOUS
<1> USE SessionAssumption DEF SessionAssumption
<1>1. ASSUME NEW e \in Entities, PersistNew(e)
      PROVE  MemoryTypeOK'
  <2>1. \E rec \in Records : Track(e, obj[e], rec)
    <3>1. [status |-> "New", orig |-> NoVal] \in Records
      BY DEF Records
    <3>2. [status |-> "Managed", orig |-> obj[e].val] \in Records
      BY MemoryTypes DEF ScopesInv, Records
    <3> QED
      BY <1>1, <3>1, <3>2 DEF PersistNew
  <2>2. TypeOK /\ obj[e] \in Objects
    BY MemoryTypes DEF ScopesInv
  <2>3. /\ checkpoints' \in Seq(Checkpoints) /\ tracked' \in [Entities -> Records]
        /\ order' \in Seq(Entities) /\ idmap' \in [Keys -> Entities \union {NoEntity}]
    BY <2>1, <2>2, TrackTypes
  <2> QED
    BY <1>1, <2>3 DEF PersistNew, MemoryTypeOK, ScopesInv, TypeOK
<1>2. ASSUME NEW e \in Entities, PersistRemoved(e)
      PROVE  MemoryTypeOK'
  <2>1. tracked[e] \in Records
    BY DEF ScopesInv, TypeOK, MemoryTypeOK
  <2>2. \A s \in {"Removed", "Managed"} : [tracked[e] EXCEPT !.status = s] \in Records
    BY <2>1 DEF Records
  <2> QED
    BY <1>2, <2>2 DEF PersistRemoved, MemoryTypeOK, ScopesInv, TypeOK
<1>3. ASSUME NEW e \in Entities, Remove(e)
      PROVE  MemoryTypeOK'
  <2>1. tracked[e] \in Records
    BY DEF ScopesInv, TypeOK, MemoryTypeOK
  <2>2. \A s \in {"Removed", "Managed"} : [tracked[e] EXCEPT !.status = s] \in Records
    BY <2>1 DEF Records
  <2> QED
    BY <1>3, <2>2 DEF Remove, MemoryTypeOK, ScopesInv, TypeOK
<1>4. ASSUME NEW e \in Entities, Raise(e)
      PROVE  MemoryTypeOK'
  <2>1. obj[e] \in Objects /\ nextEvent + 1 \in Nat
    BY DEF ScopesInv, TypeOK, MemoryTypeOK, ControlTypeOK
  <2>2. [obj[e] EXCEPT !.events = Append(@, nextEvent + 1)] \in Objects
    <3>1. Append(obj[e].events, nextEvent + 1) \in Seq(Nat)
      BY <2>1 DEF Objects
    <3> QED
      BY <2>1, <3>1 DEF Objects
  <2>3. obj' \in [Entities -> Objects]
    BY <1>4, <2>2 DEF Raise, ScopesInv, TypeOK, MemoryTypeOK
  <2> QED
    BY <1>4, <2>3 DEF Raise, uow, MemoryTypeOK, ScopesInv, TypeOK
<1>5. ASSUME NEW e \in Entities, NEW v \in Vals, Mutate(e, v)
      PROVE  MemoryTypeOK'
  <2>1. obj[e] \in Objects
    BY DEF ScopesInv, TypeOK, MemoryTypeOK
  <2>2. [obj[e] EXCEPT !.val = v] \in Objects
    BY <2>1 DEF Objects
  <2>3. obj' \in [Entities -> Objects]
    BY <1>5, <2>2 DEF Mutate, ScopesInv, TypeOK, MemoryTypeOK
  <2> QED
    BY <1>5, <2>3 DEF Mutate, uow, MemoryTypeOK, ScopesInv, TypeOK
<1>6. ASSUME NEW e \in Entities, NEW v \in Vals, Allocate(e, v)
      PROVE  MemoryTypeOK'
  <2>1. [pk |-> NoKey, val |-> v, events |-> <<>>] \in Objects
    BY EmptySeq DEF Objects
  <2>2. obj' \in [Entities -> Objects]
    BY <1>6, <2>1 DEF Allocate, ScopesInv, TypeOK, MemoryTypeOK
  <2> QED
    BY <1>6, <2>2 DEF Allocate, uow, MemoryTypeOK, ScopesInv, TypeOK
<1>7. ASSUME NEW e \in Entities, NEW k \in Keys, FindRow(e, k)
      PROVE  MemoryTypeOK'
  <2> DEFINE o == [pk |-> k, val |-> rows[k], events |-> <<>>]
             rec == [status |-> "Managed", orig |-> rows[k]]
  <2>1. rows[k] \in Vals /\ TypeOK
    BY <1>7 DEF FindRow, ScopesInv, TypeOK, DbTypeOK, Table
  <2>2. o \in Objects /\ rec \in Records
    BY <2>1, EmptySeq DEF Objects, Records
  <2>3. Track(e, o, rec) /\ obj' = [obj EXCEPT ![e] = o]
    BY <1>7 DEF FindRow
  <2>4. /\ checkpoints' \in Seq(Checkpoints) /\ tracked' \in [Entities -> Records]
        /\ order' \in Seq(Entities) /\ idmap' \in [Keys -> Entities \union {NoEntity}]
    BY <2>1, <2>2, <2>3, TrackTypes
  <2> QED
    BY <2>2, <2>3, <2>4 DEF MemoryTypeOK, ScopesInv, TypeOK
<1>8. CASE RawFlush
  BY <1>8
     DEF RawFlush, StartFlush, db, uow, txState, history, TypeOK, DbTypeOK, MemoryTypeOK,
         ScopeTypeOK, ControlTypeOK, ScopesInv, Phases, HookAt
<1>9. CASE FlushNext
  BY <1>9
     DEF FlushNext, db, uow, txState, history, TypeOK, DbTypeOK, MemoryTypeOK, ScopeTypeOK,
         ControlTypeOK, ScopesInv, Phases, HookAt
<1>10. CASE InsertRow
  <2>0. todo # <<>> /\ TypeOK
    BY <1>10 DEF InsertRow, ScopesInv, Phases, HookAt
  <2> DEFINE e == Head(todo)
  <2>1. e \in Entities /\ obj[e] \in Objects /\ obj[e].val \in Vals
    BY <2>0, TodoKnown
  <2> HIDE DEF e
  <2>2. PICK k \in Keys : /\ obj' = [obj EXCEPT ![e].pk = k]
                         /\ tracked' = [tracked EXCEPT ![e] = [status |-> "Managed", orig |-> obj[e].val]]
                         /\ idmap' = [idmap EXCEPT ![k] = e]
    BY <1>10 DEF InsertRow, e
  <2>3. [obj[e] EXCEPT !.pk = k] \in Objects /\ [status |-> "Managed", orig |-> obj[e].val] \in Records
    BY <2>1 DEF Objects, Records
  <2>4. obj' \in [Entities -> Objects]
    BY <2>2, <2>3 DEF ScopesInv, TypeOK, MemoryTypeOK
  <2>5. tracked' \in [Entities -> Records]
    BY <2>2, <2>3 DEF ScopesInv, TypeOK, MemoryTypeOK
  <2>6. idmap' \in [Keys -> Entities \union {NoEntity}]
    BY <2>1, <2>2 DEF ScopesInv, TypeOK, MemoryTypeOK
  <2> QED
    BY <1>10, <2>4, <2>5, <2>6 DEF InsertRow, ScopesInv, TypeOK, MemoryTypeOK
<1>11. CASE UpdateRow
  <2>0. todo # <<>> /\ TypeOK
    BY <1>11 DEF UpdateRow, ScopesInv, Phases, HookAt
  <2> DEFINE e == Head(todo)
  <2>1. e \in Entities /\ tracked[e] \in Records /\ obj[e].val \in Vals
    BY <2>0, TodoKnown
  <2> HIDE DEF e
  <2>2. tracked' = [tracked EXCEPT ![e].orig = obj[e].val]
    BY <1>11 DEF UpdateRow, e
  <2>3. [tracked[e] EXCEPT !.orig = obj[e].val] \in Records
    BY <2>1 DEF Records
  <2>4. tracked' \in [Entities -> Records]
    BY <2>2, <2>3 DEF ScopesInv, TypeOK, MemoryTypeOK
  <2> QED
    BY <1>11, <2>4 DEF UpdateRow, ScopesInv, TypeOK, MemoryTypeOK
<1>12. CASE DeleteRow
  <2>0. todo # <<>> /\ TypeOK
    BY <1>12 DEF DeleteRow, ScopesInv, Phases, HookAt
  <2> DEFINE e == Head(todo)
  <2>1. e \in Entities
    BY <2>0, TodoKnown
  <2> HIDE DEF e
  <2>2. /\ idmap' = [k \in Keys |-> IF k = obj[e].pk THEN NoEntity ELSE idmap[k]]
        /\ tracked' = [tracked EXCEPT ![e] = Untracked] /\ order' = Without(order, e)
    BY <1>12 DEF DeleteRow, e
  <2>3. Untracked \in Records /\ order' \in Seq(Entities)
    BY <2>2, WithoutSeq DEF Records, Untracked, ScopesInv, TypeOK, MemoryTypeOK
  <2>4. tracked' \in [Entities -> Records]
    BY <2>2, <2>3 DEF ScopesInv, TypeOK, MemoryTypeOK
  <2>5. idmap' \in [Keys -> Entities \union {NoEntity}]
    BY <2>2 DEF ScopesInv, TypeOK, MemoryTypeOK
  <2> QED
    BY <1>12, <2>3, <2>4, <2>5 DEF DeleteRow, ScopesInv, TypeOK, MemoryTypeOK
<1>13. CASE FlushFails
  BY <1>13
     DEF FlushFails, Throw, db, uow, txState, history, TypeOK, DbTypeOK, MemoryTypeOK,
         ScopeTypeOK, ControlTypeOK, ScopesInv, Phases, HookAt
<1>14. CASE AfterHookReturns
  BY <1>14
     DEF AfterHookReturns, db, uow, txState, history, TypeOK, DbTypeOK, MemoryTypeOK,
         ScopeTypeOK, ControlTypeOK, ScopesInv, Phases, HookAt
<1>15. CASE FlushDone
  BY <1>15
     DEF FlushDone, StartFlush, db, uow, txState, history, TypeOK, DbTypeOK, MemoryTypeOK,
         ScopeTypeOK, ControlTypeOK, ScopesInv, Phases, HookAt
<1>16. CASE CommitBegins
  BY <1>16, OpenTypes DEF CommitBegins, ScopesInv
<1>17. CASE ScopeBegins
  BY <1>17, OpenTypes DEF ScopeBegins, uow, MemoryTypeOK, ScopesInv, TypeOK
<1>18. CASE InnerScopeBegins
  BY <1>18, OpenTypes DEF InnerScopeBegins, uow, MemoryTypeOK, ScopesInv, TypeOK
<1>19. CASE CallbackReturns
  BY <1>19
     DEF CallbackReturns, StartFlush, Throw, db, uow, txState, history, TypeOK, DbTypeOK,
         MemoryTypeOK, ScopeTypeOK, ControlTypeOK, ScopesInv, Phases, HookAt
<1>20. CASE CallbackThrows
  BY <1>20
     DEF CallbackThrows, Throw, db, uow, txState, history, TypeOK, DbTypeOK, MemoryTypeOK,
         ScopeTypeOK, ControlTypeOK, ScopesInv, Phases, HookAt
<1>21. CASE FinishOutermost
  <2>1. checkpoints # <<>>
    BY <1>21, TopKnown DEF FinishOutermost, ScopesInv, Phases
  <2>2. checkpoints' = Pop(checkpoints) /\ Pop(checkpoints) \in Seq(Checkpoints)
    BY <1>21, <2>1, PopSeq
       DEF FinishOutermost, CommitCheckpoint, ScopesInv, TypeOK, MemoryTypeOK
  <2> QED
    BY <1>21, <2>2 DEF FinishOutermost, ScopesInv, TypeOK, MemoryTypeOK
<1>22. CASE FinishInner
  <2>1. checkpoints # <<>>
    BY <1>22, TopKnown DEF FinishInner, ScopesInv, Phases
  <2>2. checkpoints' = Pop(checkpoints) /\ Pop(checkpoints) \in Seq(Checkpoints)
    BY <1>22, <2>1, PopSeq DEF FinishInner, CommitCheckpoint, ScopesInv, TypeOK, MemoryTypeOK
  <2> QED
    BY <1>22, <2>2 DEF FinishInner, ScopesInv, TypeOK, MemoryTypeOK
<1>23. CASE FinishFails
  BY <1>23
     DEF FinishFails, Top, Throw, db, uow, txState, history, TypeOK, DbTypeOK, MemoryTypeOK,
         ScopeTypeOK, ControlTypeOK, ScopesInv, Phases, HookAt
<1>24. CASE RawFlushThrows
  BY <1>24
     DEF RawFlushThrows, db, uow, txState, history, TypeOK, DbTypeOK, MemoryTypeOK, ScopeTypeOK,
         ControlTypeOK, ScopesInv, Phases, HookAt
<1>25. CASE CommitUnwinds
  <2>1. checkpoints # <<>>
    BY <1>25, TopKnown DEF CommitUnwinds, ScopesInv, Phases
  <2> QED
    BY <1>25, <2>1, UnwindTypes DEF CommitUnwinds, ScopesInv
<1>26. CASE ScopeUnwinds
  <2>1. checkpoints # <<>>
    BY <1>26, TopKnown DEF ScopeUnwinds, ScopesInv, Phases
  <2> QED
    BY <1>26, <2>1, UnwindTypes DEF ScopeUnwinds, ScopesInv
<1>27. CASE InnerScopeUnwinds
  <2>1. checkpoints # <<>>
    BY <1>27, TopKnown DEF InnerScopeUnwinds, ScopesInv, Phases
  <2> QED
    BY <1>27, <2>1, UnwindTypes DEF InnerScopeUnwinds, ScopesInv
<1>28. CASE DispatchNext
  <2>1. todo # <<>> /\ TypeOK
    BY <1>28 DEF DispatchNext, ScopesInv
  <2> DEFINE e == Head(todo)
  <2>2. e \in Entities /\ obj[e] \in Objects
    BY <2>1, TodoKnown
  <2> HIDE DEF e
  <2>3. obj' = [obj EXCEPT ![e].events = <<>>] \/ obj' = obj
    BY <1>28 DEF DispatchNext, e
  <2>4. [obj[e] EXCEPT !.events = <<>>] \in Objects
    BY <2>2, EmptySeq DEF Objects
  <2>5. obj' \in [Entities -> Objects]
    BY <2>3, <2>4 DEF ScopesInv, TypeOK, MemoryTypeOK
  <2> QED
    BY <1>28, <2>5 DEF DispatchNext, uow, ScopesInv, TypeOK, MemoryTypeOK
<1>29. CASE HandlerThrows
  BY <1>29
     DEF HandlerThrows, db, uow, txState, TypeOK, DbTypeOK, MemoryTypeOK, ScopeTypeOK,
         ControlTypeOK, ScopesInv, Phases, HookAt
<1>30. CASE DispatchDone
  BY <1>30
     DEF DispatchDone, db, uow, txState, history, TypeOK, DbTypeOK, MemoryTypeOK, ScopeTypeOK,
         ControlTypeOK, ScopesInv, Phases, HookAt
<1>31. CASE Rollback
  <2>1. ForgetEverything
    BY <1>31, RollbackIdle, Idle DEF Rollback, Calm, ScopesInv, Nesting
  <2>2. Untracked \in Records /\ <<>> \in Seq(Entities) /\ <<>> \in Seq(Checkpoints)
    BY EmptySeq DEF Untracked, Records
  <2> QED
    BY <2>1, <2>2 DEF ForgetEverything, ScopesInv, TypeOK, MemoryTypeOK
<1>32. CASE Clear
  <2>1. ForgetEverything
    BY <1>32, ClearIdle, Idle DEF Clear, Calm, ScopesInv, Nesting
  <2>2. Untracked \in Records /\ <<>> \in Seq(Entities) /\ <<>> \in Seq(Checkpoints)
    BY EmptySeq DEF Untracked, Records
  <2> QED
    BY <2>1, <2>2 DEF ForgetEverything, ScopesInv, TypeOK, MemoryTypeOK
<1>33. CASE UNCHANGED vars
  BY <1>33
     DEF vars, db, uow, txState, control, history, TypeOK, DbTypeOK, MemoryTypeOK, ScopeTypeOK,
         ControlTypeOK, ScopesInv, Phases, HookAt
<1>34. QED
  BY <1>1, <1>2, <1>3, <1>4, <1>5, <1>6, <1>7, <1>8, <1>9, <1>10, <1>11, <1>12, <1>13, <1>14,
     <1>15, <1>16, <1>17, <1>18, <1>19, <1>20, <1>21, <1>22, <1>23, <1>24, <1>25, <1>26, <1>27,
     <1>28, <1>29, <1>30, <1>31, <1>32, <1>33
     DEF Next, UserStep, FlushStep, ScopeStep, FinishStep, ThrowStep, EventStep

(* The invariant is inductive.                                             *)
LEMMA ScopesHold ==
  ASSUME Orderly
  PROVE  (Init => ScopesInv) /\ (ScopesInv /\ [Next]_vars => ScopesInv')
<1> USE SessionAssumption DEF SessionAssumption
<1>1. ASSUME Init PROVE ScopesInv
  <2>1. /\ <<>> \in Seq(Frames) /\ <<>> \in Seq(Checkpoints) /\ <<>> \in Seq(Entities)
        /\ <<>> \in Seq(Savepoints) /\ <<>> \in Seq(Nat) /\ Len(<<>>) = 0
    BY EmptySeq
  <2>2. obj \in [Entities -> Objects]
    BY <1>1, <2>1 DEF Init, Objects
  <2>3. tracked \in [Entities -> Records]
    BY <1>1 DEF Init, Records, Untracked
  <2>4. TypeOK
    <3>1. DbTypeOK
      BY <1>1, <2>1 DEF Init, DbTypeOK, Table
    <3>2. MemoryTypeOK
      BY <1>1, <2>1, <2>2, <2>3 DEF Init, MemoryTypeOK
    <3>3. ScopeTypeOK
      BY <1>1, <2>1 DEF Init, ScopeTypeOK
    <3>4. ControlTypeOK
      BY <1>1, <2>1 DEF Init, ControlTypeOK, Labels
    <3> QED
      BY <3>1, <3>2, <3>3, <3>4 DEF TypeOK
  <2>5. Phases /\ Nesting /\ InTransaction /\ SavepointsKnown /\ Poisoned
    BY <1>1, <2>1 DEF Init, Phases, Nesting, InTransaction, SavepointsKnown, Poisoned, HookAt
  <2> QED
    BY <2>4, <2>5 DEF ScopesInv
<1>2. ASSUME ScopesInv, [Next]_vars PROVE ScopesInv'
  BY <1>2, DbTypeStep, ScopeTypeStep, ControlTypeStep, MemoryTypeStep, PhasesStep, NestingStep,
     InTransactionStep, SavepointsStep, PoisonedStep
     DEF ScopesInv, TypeOK
<1> QED
  BY <1>1, <1>2

(* However transaction() calls nest, return and throw, and whatever the    *)
(* database refuses: activations, checkpoints, depth, savepoints and the   *)
(* open BEGIN keep agreeing, as long as no callback calls rollback() or    *)
(* clear() on the session that runs it.                                    *)
THEOREM SessionScopes ==
  ASSUME Orderly
  PROVE  Spec => []ScopesInv
<1>1. Init => ScopesInv
  BY ScopesHold
<1>2. ScopesInv /\ [Next]_vars => ScopesInv'
  BY ScopesHold
<1> QED
  BY <1>1, <1>2, PTL DEF Spec

(* Depth, activations, checkpoints and the BEGIN agree in each of these    *)
(* states.                                                                 *)
LEMMA DepthCounts ==
  ASSUME ScopesInv
  PROVE  ScopesBalanced
<1>1. frames \in Seq(Frames) /\ Len(frames) \in Nat /\ (frames = <<>> <=> Len(frames) = 0)
  BY EmptySeq DEF ScopesInv, TypeOK, ScopeTypeOK
<1>2. depth = Cardinality({i \in Positions(frames) : frames[i].kind = "scope"})
  <2>1. CASE frames # <<>> /\ frames[1].kind = "commit"
    <3>1. {i \in Positions(frames) : frames[i].kind = "scope"} = {}
      <4>1. Len(frames) = 1
        BY <2>1 DEF ScopesInv, Phases
      <4> QED
        BY <2>1, <4>1 DEF Positions
    <3> QED
      BY <2>1, <3>1, FS_EmptySet DEF ScopesInv, Nesting
  <2>2. CASE ~(frames # <<>> /\ frames[1].kind = "commit")
    <3>1. \A i \in 1..Len(frames) : frames[i] \in Frames
      BY <1>1
    <3>2. \A i \in 1..Len(frames) : frames[i].kind = "scope"
      BY <1>1, <2>2, <3>1 DEF ScopesInv, Nesting, Frames
    <3>3. {i \in Positions(frames) : frames[i].kind = "scope"} = 1..Len(frames)
      BY <3>2 DEF Positions
    <3>4. Cardinality(1..Len(frames)) = Len(frames)
      <4>1. PICK n \in Nat : n = Len(frames)
        BY <1>1
      <4>2. Cardinality(1..n) = IF 1 > n THEN 0 ELSE n - 1 + 1
        BY FS_Interval
      <4> QED
        BY <4>1, <4>2
    <3> QED
      BY <2>2, <3>3, <3>4 DEF ScopesInv, Nesting
  <2> QED
    BY <2>1, <2>2
<1> QED
  BY <1>2 DEF ScopesBalanced, ScopesInv, Nesting, InTransaction

(* transaction_depth_ is the number of transaction() calls that are open,  *)
(* each scope has its memory checkpoint, and a BEGIN is open only as long  *)
(* as a scope is.                                                          *)
THEOREM SessionBalanced ==
  ASSUME Orderly
  PROVE  Spec => []ScopesBalanced
<1>1. ScopesInv => ScopesBalanced
  BY DepthCounts
<1> QED
  BY <1>1, SessionScopes, PTL

(* What survives a crash changes only when no inner scope has failed.      *)
LEMMA OnlyOutermostIsDurable ==
  ASSUME ScopesInv, Kinds
  PROVE  Durable' # Durable => ~innerFailed
<1> USE SessionAssumption DEF SessionAssumption
<1>0. rows # NoTx /\ rows \in Table
  BY DEF ScopesInv, TypeOK, DbTypeOK, Table
<1>1. frames = <<>> => ~innerFailed
  <2>1. frames = <<>> => depth = 0
    BY DEF ScopesInv, Nesting
  <2> QED
    BY <2>1 DEF ScopesInv, Poisoned
<1>2. CASE Calm
  BY <1>1, <1>2 DEF Calm, Durable
<1>3. ASSUME NEW kind \in {"commit", "scope"}, OpensOutermost(kind) PROVE Durable' = Durable
  BY <1>0, <1>3 DEF OpensOutermost, Durable
<1>4. CASE OpensInner
  BY <1>4 DEF OpensInner, Durable
<1>5. CASE Finishes
  BY <1>5 DEF Finishes
<1>6. CASE UnwindsOutermost
  <2>1. frames # <<>>
    BY <1>6 DEF UnwindsOutermost, EndsOutermost
  <2> QED
    BY <1>6, <2>1 DEF UnwindsOutermost, EndsOutermost, ScopesInv, InTransaction, Durable
<1>7. CASE UnwindsInner
  BY <1>7 DEF UnwindsInner, EndsInner, Durable
<1> QED
  BY <1>2, <1>3, <1>4, <1>5, <1>6, <1>7 DEF Kinds

(* Once an inner transaction() has thrown, nothing of the transaction      *)
(* becomes durable, even when the callback around it swallows the          *)
(* exception and returns.                                                  *)
THEOREM SessionDooms ==
  ASSUME Orderly
  PROVE  Spec => DoomedNeverDurable
<1>1. ScopesInv /\ [Next]_vars => [Durable' # Durable => ~innerFailed]_vars
  BY EffectOf, OnlyOutermostIsDurable
<1> QED
  BY <1>1, SessionScopes, PTL DEF Spec, DoomedNeverDurable

(* A stack of one is its only element.                                     *)
LEMMA OnePoint ==
  ASSUME NEW S, NEW s \in Seq(S), Len(s) = 1
  PROVE  s = <<s[1]>> /\ SubSeq(s, 1, Len(s) - 1) = <<>>
<1>1. s[1] \in S
  OBVIOUS
<1>2. <<s[1]>> \in Seq(S) /\ Len(<<s[1]>>) = 1
  BY <1>1
<1>3. s = <<s[1]>>
  BY <1>2, SeqEqual
<1> QED
  BY <1>3, EmptySeq

(* A stack that has grown by x is the old one with x on top.               *)
LEMMA LongerIs ==
  ASSUME NEW S, NEW s \in Seq(S), NEW t \in Seq(S), NEW x \in S, Len(t) = Len(s) + 1,
         t[Len(s) + 1] = x, \A i \in 1..Len(s) : t[i] = s[i]
  PROVE  t = Append(s, x)
<1>1. Append(s, x) \in Seq(S) /\ Len(Append(s, x)) = Len(s) + 1
  OBVIOUS
<1>2. \A i \in 1..Len(t) : t[i] = Append(s, x)[i]
  OBVIOUS
<1> QED
  BY <1>1, <1>2, SeqEqual

(* A stack that has shrunk is the old one without its top.                 *)
LEMMA ShorterIs ==
  ASSUME NEW S, NEW s \in Seq(S), NEW t \in Seq(S), Len(s) # 0, Len(t) = Len(s) - 1,
         \A i \in 1..Len(t) : t[i] = s[i]
  PROVE  t = SubSeq(s, 1, Len(s) - 1)
<1>1. SubSeq(s, 1, Len(s) - 1) \in Seq(S) /\ Len(SubSeq(s, 1, Len(s) - 1)) = Len(s) - 1
  BY PopSeq DEF Pop
<1>2. \A i \in 1..Len(t) : t[i] = SubSeq(s, 1, Len(s) - 1)[i]
  OBVIOUS
<1> QED
  BY <1>1, <1>2, SeqEqual

(* The rows each activation began with are the marks of the contract.      *)
LEMMA BeginViews ==
  ASSUME NEW f \in Seq(Frames)
  PROVE  /\ [i \in Positions(f) |-> f[i].begin.rows] \in Seq(Table)
         /\ Len([i \in Positions(f) |-> f[i].begin.rows]) = Len(f)
<1>1. \A i \in 1..Len(f) : f[i].begin.rows \in Table
  <2>1. \A i \in 1..Len(f) : f[i] \in Frames
    OBVIOUS
  <2> QED
    BY <2>1 DEF Frames, Snapshots
<1>2. [i \in Positions(f) |-> f[i].begin.rows] \in [1..Len(f) -> Table]
  BY <1>1 DEF Positions
<1>3. PICK s \in [1..Len(f) -> Table] : s = [i \in Positions(f) |-> f[i].begin.rows]
  BY <1>2
<1>4. s \in Seq(Table) /\ Len(s) = Len(f)
  OBVIOUS
<1> QED
  BY <1>3, <1>4

(* What a step must do to the rows, to what is durable and to the marks to *)
(* be each of the contract's actions.                                      *)
LEMMA ContractSteps ==
  ASSUME NEW s, s = [i \in Positions(frames) |-> frames[i].begin.rows],
         NEW t, t = [i \in Positions(frames) |-> frames[i].begin.rows]'
  PROVE  /\ /\ t = Append(s, rows) /\ innerFailed' = (innerFailed /\ s # <<>>)
            /\ rows' = rows /\ Durable' = Durable
            => NT!Begin
         /\ /\ rows' \in Table /\ Durable' = (IF s = <<>> THEN rows' ELSE Durable)
            /\ t = s /\ innerFailed' = innerFailed
            => NT!Write
         /\ /\ s # <<>> /\ ~innerFailed /\ t = SubSeq(s, 1, Len(s) - 1)
            /\ Durable' = (IF Len(s) = 1 THEN rows ELSE Durable)
            /\ rows' = rows /\ innerFailed' = innerFailed
            => NT!EndSuccess
         /\ /\ s # <<>> /\ t = SubSeq(s, 1, Len(s) - 1)
            /\ rows' = s[Len(s)] \/ (Len(s) # 1 /\ rows' = rows)
            /\ innerFailed' = (Len(s) # 1) /\ Durable' = Durable
            => NT!EndFailure
         /\ /\ t = s /\ rows' = rows /\ Durable' = Durable /\ innerFailed' = innerFailed
            => UNCHANGED NT!vars
<1>1. /\ t = Append(s, rows) /\ innerFailed' = (innerFailed /\ s # <<>>)
      /\ rows' = rows /\ Durable' = Durable
      => NT!Begin
  BY DEF NT!Begin
<1>2. /\ rows' \in Table /\ Durable' = (IF s = <<>> THEN rows' ELSE Durable)
      /\ t = s /\ innerFailed' = innerFailed
      => NT!Write
  BY DEF NT!Write
<1>3. /\ s # <<>> /\ ~innerFailed /\ t = SubSeq(s, 1, Len(s) - 1)
      /\ Durable' = (IF Len(s) = 1 THEN rows ELSE Durable)
      /\ rows' = rows /\ innerFailed' = innerFailed
      => NT!EndSuccess
  BY DEF NT!EndSuccess, NT!Shorter, NT!Single
<1>4. /\ s # <<>> /\ t = SubSeq(s, 1, Len(s) - 1)
      /\ rows' = s[Len(s)] \/ (Len(s) # 1 /\ rows' = rows)
      /\ innerFailed' = (Len(s) # 1) /\ Durable' = Durable
      => NT!EndFailure
  BY DEF NT!EndFailure, NT!Shorter, NT!Single
<1>5. t = s /\ rows' = rows /\ Durable' = Durable /\ innerFailed' = innerFailed
      => UNCHANGED NT!vars
  BY DEF NT!vars
<1> QED
  BY <1>1, <1>2, <1>3, <1>4, <1>5

(* Every step of the session is one of the contract's, or changes nothing  *)
(* of what it shows.                                                       *)
LEMMA DatabaseView ==
  ASSUME ScopesInv, ScopesInv', Kinds
  PROVE  [NT!Next]_(NT!vars)
<1> USE SessionAssumption DEF SessionAssumption
<1>1. /\ frames \in Seq(Frames) /\ Len(frames) \in Nat /\ (frames = <<>> <=> Len(frames) = 0)
      /\ rows \in Table /\ rows # NoTx
      /\ rows' \in Table /\ frames' \in Seq(Frames)
  BY EmptySeq DEF ScopesInv, TypeOK, ScopeTypeOK, DbTypeOK, Table
<1>2. PICK s \in Seq(Table) : s = [i \in Positions(frames) |-> frames[i].begin.rows]
  BY <1>1, BeginViews
<1>3. PICK t \in Seq(Table) : t = [i \in Positions(frames) |-> frames[i].begin.rows]'
  BY <1>1, BeginViews DEF Positions
<1>4. /\ Len(s) = Len(frames) /\ (s = <<>> <=> frames = <<>>)
      /\ \A i \in 1..Len(frames) : s[i] = frames[i].begin.rows
  BY <1>1, <1>2, BeginViews, EmptySeq DEF Positions
<1>5. Len(t) = Len(frames') /\ \A i \in 1..Len(frames') : t[i] = frames'[i].begin.rows
  BY <1>1, <1>3, BeginViews DEF Positions
<1>6. CASE Calm
  <2>1. t = s /\ innerFailed' = innerFailed
    BY <1>2, <1>3, <1>6 DEF Calm, Positions
  <2>2. CASE rows' = rows
    BY <1>2, <1>3, <1>6, <2>1, <2>2, ContractSteps DEF Calm, Durable
  <2>3. CASE frames = <<>>
    <3>1. base = NoTx /\ base' = NoTx
      BY <1>6, <2>3 DEF Calm, ScopesInv, InTransaction
    <3>2. NT!Write
      BY <1>1, <1>2, <1>3, <1>4, <2>1, <2>3, <3>1, ContractSteps DEF Durable
    <3> QED
      BY <3>2 DEF NT!Next
  <2>4. CASE frames # <<>> /\ base # NoTx
    <3>1. NT!Write
      BY <1>1, <1>2, <1>3, <1>4, <1>6, <2>1, <2>4, ContractSteps DEF Durable, Calm
    <3> QED
      BY <3>1 DEF NT!Next
  <2> QED
    BY <1>6, <2>2, <2>3, <2>4 DEF Calm
<1>7. ASSUME NEW kind \in {"commit", "scope"}, OpensOutermost(kind) PROVE NT!Begin
  <2>1. Len(frames') = 1 /\ frames'[1].begin.rows = rows /\ frames = <<>>
    BY <1>7 DEF OpensOutermost, Frame, Snapshot
  <2>2. t = Append(s, rows)
    BY <1>1, <1>4, <1>5, <2>1, LongerIs, EmptySeq
  <2>3. Durable' = Durable /\ rows' = rows /\ innerFailed' = FALSE
    BY <1>1, <1>7 DEF OpensOutermost, Durable
  <2> QED
    BY <1>2, <1>3, <1>4, <2>1, <2>2, <2>3, ContractSteps
<1>8. CASE OpensInner
  <2>1. /\ Len(frames') = Len(frames) + 1 /\ frames'[Len(frames) + 1].begin.rows = rows
        /\ \A i \in 1..Len(frames) : frames'[i] = frames[i]
    BY <1>8 DEF OpensInner, Grows, Frame, Snapshot
  <2>2. t = Append(s, rows)
    <3>1. Len(s) \in Nat /\ Len(t) = Len(s) + 1 /\ t[Len(s) + 1] = rows
      BY <1>1, <1>4, <1>5, <2>1
    <3>2. ASSUME NEW i \in 1..Len(s) PROVE t[i] = s[i]
      <4>1. i \in 1..Len(frames) /\ i \in 1..Len(frames')
        BY <1>1, <1>4, <2>1
      <4> QED
        BY <1>4, <1>5, <2>1, <4>1
    <3> QED
      BY <1>1, <3>1, <3>2, LongerIs
  <2>3. Durable' = Durable /\ rows' = rows /\ innerFailed' = innerFailed /\ s # <<>>
    BY <1>4, <1>8 DEF OpensInner, Durable
  <2>4. innerFailed \in BOOLEAN
    BY DEF ScopesInv, TypeOK, ScopeTypeOK
  <2>5. NT!Begin
    BY <1>2, <1>3, <2>2, <2>3, <2>4, ContractSteps
  <2> QED
    BY <2>5 DEF NT!Next
<1>9. ASSUME EndsOutermost
      PROVE  t = SubSeq(s, 1, Len(s) - 1) /\ s # <<>> /\ Len(s) = 1
  <2>1. Len(s) = 1 /\ frames' = <<>>
    BY <1>4, <1>9 DEF EndsOutermost
  <2>2. t = <<>>
    BY <1>5, <2>1, EmptySeq
  <2> QED
    BY <2>1, <2>2, OnePoint, EmptySeq
<1>10. ASSUME EndsInner, base # NoTx
       PROVE  t = SubSeq(s, 1, Len(s) - 1) /\ s # <<>> /\ Len(s) # 1 /\ Durable' = Durable
  <2>1. /\ Len(frames') = Len(frames) - 1 /\ Len(frames) > 1
        /\ \A i \in 1..(Len(frames) - 1) : frames'[i] = frames[i]
    BY <1>10 DEF EndsInner, Shrinks
  <2>2. t = SubSeq(s, 1, Len(s) - 1)
    <3>1. ASSUME NEW i \in 1..Len(t) PROVE t[i] = s[i]
      <4>1. i \in 1..Len(frames) /\ i \in 1..(Len(frames) - 1) /\ i \in 1..Len(frames')
        BY <1>1, <1>5, <2>1
      <4> QED
        BY <1>4, <1>5, <2>1, <4>1
    <3> QED
      BY <1>1, <1>4, <1>5, <2>1, <3>1, ShorterIs
  <2>3. Len(s) # 0 /\ Len(s) # 1
    BY <1>1, <1>4, <2>1
  <2>4. s # <<>>
    BY <2>3, EmptySeq
  <2>5. Durable' = Durable
    BY <1>10 DEF EndsInner, Durable
  <2> QED
    BY <2>2, <2>3, <2>4, <2>5
<1>11. CASE Finishes /\ (EndsOutermost \/ EndsInner)
  <2>1. rows' = rows /\ ~innerFailed /\ innerFailed' = innerFailed
    BY <1>11 DEF Finishes, EndsOutermost, EndsInner
  <2>2. CASE EndsOutermost
    <3>1. Durable' = rows
      BY <2>1, <2>2 DEF EndsOutermost, Durable
    <3>2. NT!EndSuccess
      BY <1>2, <1>3, <1>9, <2>1, <2>2, <3>1, ContractSteps
    <3> QED
      BY <3>2 DEF NT!Next
  <2>3. CASE EndsInner
    <3>1. base # NoTx
      BY <1>11 DEF Finishes
    <3>2. NT!EndSuccess
      BY <1>2, <1>3, <1>10, <2>1, <2>3, <3>1, ContractSteps
    <3> QED
      BY <3>2 DEF NT!Next
  <2> QED
    BY <1>11, <2>2, <2>3
<1>12. CASE UnwindsOutermost
  <2>1. Durable' = Durable /\ innerFailed' = FALSE /\ EndsOutermost
    BY <1>12, TopKnown DEF UnwindsOutermost, EndsOutermost, Durable
  <2>2. rows' = s[Len(s)]
    BY <1>1, <1>4, <1>12 DEF UnwindsOutermost, EndsOutermost
  <2> QED
    BY <1>2, <1>3, <1>9, <2>1, <2>2, ContractSteps DEF NT!Next
<1>13. CASE UnwindsInner
  <2>1. rows' = rows \/ rows' = s[Len(s)]
    <3>1. Len(frames) > 1 /\ (rows' = rows \/ rows' = LastOf(frames).begin.rows)
      BY <1>13 DEF UnwindsInner, EndsInner
    <3> QED
      BY <1>1, <1>4, <3>1 DEF LastOf
  <2>2. innerFailed' = TRUE /\ EndsInner
    BY <1>13 DEF UnwindsInner
  <2>3. base # NoTx
    BY <1>13 DEF UnwindsInner
  <2>4. NT!EndFailure
    BY <1>2, <1>3, <1>10, <2>1, <2>2, <2>3, ContractSteps
  <2> QED
    BY <2>4 DEF NT!Next
<1> QED
  BY <1>6, <1>7, <1>8, <1>11, <1>12, <1>13 DEF Kinds, NT!Next

(* transaction() is a nested transaction: the rows are those of a stack of *)
(* nested scopes of which only the outermost, and only if none inside it   *)
(* has failed, makes its writes durable.                                   *)
THEOREM SessionNests ==
  ASSUME Orderly
  PROVE  Spec => ImplementsNestedTransactions
<1>1. Init => NT!Init
  <2>1. Init => [i \in Positions(frames) |-> frames[i].begin.rows] = <<>>
    BY DEF Init, Positions
  <2> QED
    BY <2>1 DEF Init, NT!Init, Durable, Table
<1>2. ScopesInv /\ ScopesInv' /\ [Next]_vars => [NT!Next]_(NT!vars)
  BY EffectOf, DatabaseView
<1> QED
  BY <1>1, <1>2, SessionScopes, PTL DEF Spec, ImplementsNestedTransactions, NT!Spec

=============================================================================
