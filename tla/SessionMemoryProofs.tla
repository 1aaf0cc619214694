------------------------ MODULE SessionMemoryProofs -------------------------
(***************************************************************************)
(* Proofs about the memory of module Session: tracking records, identity   *)
(* map, checkpoints, original snapshots and domain events, and their       *)
(* agreement with the rows.                                                *)
(***************************************************************************)
EXTENDS SessionProofs

-----------------------------------------------------------------------------
(* What these theorems ask of the user's code and of the database: an       *)
(* object that has a key is not persisted as new, and ROLLBACK TO works.    *)
Careful == Orderly /\ "reattach" \notin Calls /\ "rollbackTo" \notin Faults

(* The savepoints of the open scopes are still there, in the order in which *)
(* they were taken.                                                         *)
SavepointsHeld ==
  /\ \A i, j \in 1..Len(saves) : i < j => saves[i].name < saves[j].name
  /\ \A i, j \in 2..Len(frames) : i < j => frames[i].sp < frames[j].sp
  /\ \A i \in 2..Len(frames) : \E j \in 1..Len(saves) : saves[j].name = frames[i].sp

(* The tracking records t of objects o, their order and the identity map im *)
(* agree with each other and with the rows r.                               *)
Known(t, e) == t[e].status # "Untracked"
Listed(t, ord) ==
  /\ \A i, j \in 1..Len(ord) : ord[i] = ord[j] => i = j
  /\ \A e \in Entities : Known(t, e) <=> \E i \in 1..Len(ord) : ord[i] = e
Mapped(r, o, t, im) ==
  /\ \A e \in Entities : ~Known(t, e) => t[e] = Untracked
  /\ \A k \in Keys : im[k] # NoEntity => Known(t, im[k]) /\ o[im[k]].pk = k
  /\ \A e \in Entities : Known(t, e) /\ o[e].pk # NoKey =>
       im[o[e].pk] = e /\ r[o[e].pk] # NoVal
  /\ \A e \in Entities : t[e].status = "New" => o[e].pk = NoKey
MappedNow == Mapped(rows, obj, tracked, idmap) /\ Listed(tracked, order)
MappedAt(f) == /\ Mapped(f.begin.rows, f.begin.obj, f.begin.tracked, f.begin.idmap)
               /\ Listed(f.begin.tracked, f.begin.order)
MappedThen == \A i \in 1..Len(frames) : MappedAt(frames[i])

(* A checkpoint holds what its scope began with, and every entity tracked   *)
(* since.                                                                   *)
CapturedAt(cp, b) ==
  /\ cp.order = b.order
  /\ \A e \in Entities :
       IF Known(b.tracked, e) THEN cp.entries[e] = Entry(TRUE, b.tracked[e], b.obj[e])
       ELSE cp.entries[e] # NoEntry => cp.entries[e].existed = FALSE
Captured == \A i \in 1..Len(frames) : CapturedAt(checkpoints[i], frames[i].begin)
Covers ==
  \A i \in 1..Len(frames) : \A e \in Entities : checkpoints[i].entries[e] = NoEntry =>
    /\ ~IsTracked(e)
    /\ \A j \in 1..Len(frames) : i < j => checkpoints[j].entries[e] = NoEntry

(* A row nobody has in hand was there when each open scope began, and an    *)
(* object that a scope did not find tracked has no key of the scope's own.  *)
OldRows(r, im, n) ==
  \A k \in Keys : r[k] # NoVal /\ im[k] = NoEntity =>
    \A i \in 1..n : frames[i].begin.rows[k] # NoVal
RowsKnown ==
  /\ OldRows(rows, idmap, Len(frames))
  /\ \A j \in 1..Len(frames) : OldRows(frames[j].begin.rows, frames[j].begin.idmap, j)
OldKey(key, b, e) == key \in {NoKey, b.obj[e].pk} \/ b.rows[key] # NoVal
KeyAt(cp, b, o, e) ==
  IF cp.entries[e] = NoEntry THEN OldKey(o[e].pk, b, e)
  ELSE cp.entries[e].existed \/ OldKey(cp.entries[e].obj.pk, b, e)
KeysKnown ==
  \A i \in 1..Len(frames) : \A e \in Entities : KeyAt(checkpoints[i], frames[i].begin, obj, e)

(* What a statement of a flush relies on when its hook has returned.        *)
Writing ==
  /\ pc \in {"beforeInsert", "beforeUpdate", "beforeDelete"} => IsTracked(Head(todo))
  /\ pc = "beforeInsert" => obj[Head(todo)].pk = NoKey
  /\ pc = "beforeUpdate" => current # NoVal

MemoryInv == MappedNow /\ MappedThen /\ Captured /\ Covers /\ RowsKnown /\ KeysKnown
CarefulInv == ScopesInv /\ SavepointsHeld /\ Writing /\ MemoryInv

(* What the steps do to the memory, in nine ways.                          *)
Still ==
  /\ UNCHANGED <<order, idmap, checkpoints, frames>>
  /\ \A e \in Entities :
       /\ obj'[e].pk = obj[e].pk
       /\ Known(tracked', e) <=> Known(tracked, e)
       /\ ~Known(tracked, e) => tracked'[e] = tracked[e]
       /\ tracked'[e].status = "New" => tracked[e].status = "New"
  /\ \A k \in Keys : rows'[k] = NoVal <=> rows[k] = NoVal
Adopts(e, o, rec) ==
  /\ ~IsTracked(e) /\ rec.status # "Untracked"
  /\ obj' = [obj EXCEPT ![e] = o] /\ Track(e, o, rec)
  /\ \/ o.pk = NoKey
     \/ rec.status # "New" /\ idmap[o.pk] = NoEntity /\ rows[o.pk] # NoVal
  /\ UNCHANGED <<rows, frames>>
Allocates(e) ==
  /\ ~IsTracked(e) /\ obj'[e].pk = NoKey
  /\ \A f \in Entities \ {e} : obj'[f] = obj[f]
  /\ UNCHANGED <<rows, tracked, order, idmap, checkpoints, frames>>
Inserts(e, k) ==
  /\ IsTracked(e) /\ obj[e].pk = NoKey /\ rows[k] = NoVal
  /\ rows' = [rows EXCEPT ![k] = obj[e].val]
  /\ obj' = [obj EXCEPT ![e].pk = k]
  /\ tracked' = [tracked EXCEPT ![e] = [status |-> "Managed", orig |-> obj[e].val]]
  /\ idmap' = [idmap EXCEPT ![k] = e]
  /\ UNCHANGED <<order, checkpoints, frames>>
Deletes(e) ==
  /\ IsTracked(e)
  /\ rows' = [k \in Keys |-> IF k = obj[e].pk THEN NoVal ELSE rows[k]]
  /\ idmap' = [k \in Keys |-> IF k = obj[e].pk THEN NoEntity ELSE idmap[k]]
  /\ tracked' = [tracked EXCEPT ![e] = Untracked]
  /\ order' = Without(order, e)
  /\ UNCHANGED <<obj, checkpoints, frames>>
Opens(f) ==
  /\ f.begin = Snapshot /\ frames' = Append(frames, f)
  /\ checkpoints' = Append(checkpoints, NewCheckpoint)
  /\ UNCHANGED <<rows, obj, tracked, order, idmap>>
Closes ==
  /\ frames # <<>> /\ frames' = Pop(frames) /\ checkpoints' = Pop(checkpoints)
  /\ UNCHANGED <<rows, obj, tracked, order, idmap>>
Undoes ==
  /\ frames # <<>> /\ frames' = Pop(frames)
  /\ RestoreFrom(LastOf(checkpoints)) /\ checkpoints' = Pop(checkpoints)
  /\ rows' = LastOf(frames).begin.rows
Forgets ==
  frames = <<>> /\ frames' = <<>> /\ ForgetEverything /\ UNCHANGED rows
Effects ==
  \/ Still \/ Closes \/ Undoes \/ Forgets \/ \E f \in Frames : Opens(f)
  \/ \E e \in Entities : \/ Allocates(e) \/ Deletes(e) \/ \E k \in Keys : Inserts(e, k)
                         \/ \E o \in Objects, rec \in Records : Adopts(e, o, rec)

(* The types, one by one.                                                  *)
LEMMA Shapes ==
  ASSUME ScopesInv
  PROVE  /\ Len(frames) \in Nat /\ Len(checkpoints) = Len(frames)
         /\ \A i \in 1..Len(frames) : checkpoints[i] \in Checkpoints /\ frames[i] \in Frames
         /\ \A i \in 1..Len(frames) : frames[i].begin \in Snapshots
         /\ \A e \in Entities : obj[e] \in Objects /\ tracked[e] \in Records
         /\ \A k \in Keys : idmap[k] \in Entities \union {NoEntity}
         /\ \A e \in Entities : obj[e].pk \in Keys \union {NoKey}
<1>1. /\ Len(frames) \in Nat /\ Len(checkpoints) = Len(frames) /\ frames \in Seq(Frames)
      /\ checkpoints \in Seq(Checkpoints)
  BY DEF ScopesInv, TypeOK, ScopeTypeOK, MemoryTypeOK, Nesting
<1>2. \A i \in 1..Len(frames) : checkpoints[i] \in Checkpoints /\ frames[i] \in Frames
  BY <1>1
<1>3. \A i \in 1..Len(frames) : frames[i].begin \in Snapshots
  BY <1>2 DEF Frames
<1>4. /\ \A e \in Entities : obj[e] \in Objects /\ tracked[e] \in Records
      /\ \A k \in Keys : idmap[k] \in Entities \union {NoEntity}
  BY DEF ScopesInv, TypeOK, MemoryTypeOK
<1>5. \A e \in Entities : obj[e].pk \in Keys \union {NoKey}
  BY <1>4 DEF Objects
<1> QED
  BY <1>1, <1>2, <1>3, <1>4, <1>5

(* Statements and calls that neither track nor forget keep the memory in   *)
(* step.                                                                   *)
LEMMA StillKeeps ==
  ASSUME ScopesInv, MemoryInv, Still
  PROVE  MemoryInv'
<1> USE SessionAssumption DEF SessionAssumption
<1>1. MappedNow'
  <2>1. Mapped(rows', obj', tracked', idmap')
    BY Shapes DEF Still, MemoryInv, MappedNow, Mapped
  <2>2. Listed(tracked', order')
    BY DEF Still, MemoryInv, MappedNow, Listed
  <2> QED
    BY <2>1, <2>2 DEF MappedNow
<1>2. MappedThen' /\ Captured'
  BY DEF Still, MemoryInv, MappedThen, Captured
<1>3. Covers'
  BY DEF Still, MemoryInv, Covers, IsTracked, Known
<1>4. RowsKnown'
  BY DEF Still, MemoryInv, RowsKnown, OldRows
<1>5. KeysKnown'
  BY DEF Still, MemoryInv, KeysKnown, KeyAt
<1> QED
  BY <1>1, <1>2, <1>3, <1>4, <1>5 DEF MemoryInv

(* A new object at the address of one that is gone was tracked by nobody.  *)
LEMMA AllocateKeeps ==
  ASSUME ScopesInv, MemoryInv, NEW e \in Entities, Allocates(e)
  PROVE  MemoryInv'
<1> USE SessionAssumption DEF SessionAssumption
<1>1. MappedNow'
  <2>1. Mapped(rows', obj', tracked', idmap')
    BY Shapes DEF Allocates, MemoryInv, MappedNow, Mapped, IsTracked, Known
  <2> QED
    BY <2>1 DEF Allocates, MemoryInv, MappedNow
<1>2. MappedThen' /\ Captured'
  BY DEF Allocates, MemoryInv, MappedThen, Captured
<1>3. Covers'
  BY DEF Allocates, MemoryInv, Covers, IsTracked
<1>4. RowsKnown'
  BY DEF Allocates, MemoryInv, RowsKnown, OldRows
<1>5. KeysKnown'
  BY ZenonT(90) DEF Allocates, MemoryInv, KeysKnown, KeyAt, OldKey
<1> QED
  BY <1>1, <1>2, <1>3, <1>4, <1>5 DEF MemoryInv

(* track() adds an entity to a checkpoint that has no entry for it, as one *)
(* that was not tracked when the scope began.                              *)
LEMMA TrackCaptures ==
  ASSUME ScopesInv, NEW e \in Entities, NEW o \in Objects, NEW rec \in Records, Track(e, o, rec),
         NEW i \in 1..Len(frames)
  PROVE  /\ checkpoints'[i].order = checkpoints[i].order
         /\ \A f \in Entities \ {e} : checkpoints'[i].entries[f] = checkpoints[i].entries[f]
         /\ checkpoints'[i].entries[e] = IF checkpoints[i].entries[e] = NoEntry
                                         THEN Entry(FALSE, rec, o) ELSE checkpoints[i].entries[e]
<1>1. PICK cp \in Checkpoints : cp = checkpoints[i]
  BY Shapes
<1> DEFINE x == Entry(FALSE, rec, o)
<1>2. checkpoints'[i] = IF cp.entries[e] = NoEntry THEN [cp EXCEPT !.entries[e] = x] ELSE cp
  BY <1>1, Shapes DEF Track, Positions
<1> HIDE DEF x
<1>3. /\ [cp EXCEPT !.entries[e] = x].order = cp.order
      /\ [cp EXCEPT !.entries[e] = x].entries = [cp.entries EXCEPT ![e] = x]
      /\ cp.entries \in [Entities -> Entries \union {NoEntry}]
  BY DEF Checkpoints
<1>4. CASE cp.entries[e] = NoEntry
  <2>1. checkpoints'[i].order = cp.order /\ checkpoints'[i].entries = [cp.entries EXCEPT ![e] = x]
    BY <1>2, <1>3, <1>4
  <2> QED
    BY <1>1, <1>3, <1>4, <2>1 DEF x
<1>5. CASE cp.entries[e] # NoEntry
  BY <1>1, <1>2, <1>5
<1> QED
  BY <1>4, <1>5

(* An entry is none of the others, and tells whether it existed.           *)
LEMMA EntriesDiffer ==
  ASSUME NEW rec \in Records, NEW o \in Objects
  PROVE  /\ Entry(TRUE, rec, o) # NoEntry /\ Entry(TRUE, rec, o).existed = TRUE
         /\ Entry(TRUE, rec, o).rec = rec /\ Entry(TRUE, rec, o).obj = o
         /\ Entry(FALSE, rec, o) # NoEntry /\ Entry(FALSE, rec, o).existed = FALSE
         /\ Entry(FALSE, rec, o).rec = rec /\ Entry(FALSE, rec, o).obj = o
<1> USE SessionAssumption DEF SessionAssumption
<1>1. Entry(TRUE, rec, o) \in Entries /\ Entry(FALSE, rec, o) \in Entries
  BY DEF Entry, Entries
<1>2. NoEntry \notin Entries
  BY DEF Entries, Records, Objects
<1> QED
  BY <1>1, <1>2 DEF Entry

(* find() and persist() track an object under a key that nobody has, or    *)
(* under no key.                                                           *)
LEMMA AdoptKeeps ==
  ASSUME ScopesInv, MemoryInv, NEW e \in Entities, NEW o \in Objects, NEW rec \in Records,
         Adopts(e, o, rec)
  PROVE  MemoryInv'
<1> USE SessionAssumption DEF SessionAssumption
<1>1. /\ tracked' = [tracked EXCEPT ![e] = rec] /\ obj' = [obj EXCEPT ![e] = o]
      /\ tracked'[e] = rec /\ obj'[e] = o
      /\ \A f \in Entities \ {e} : tracked'[f] = tracked[f] /\ obj'[f] = obj[f]
      /\ order' = Append(order, e) /\ ~Known(tracked, e) /\ rec.status # "Untracked"
      /\ UNCHANGED <<rows, frames>> /\ o.pk \in Keys \union {NoKey}
  BY DEF Adopts, Track, IsTracked, Known, ScopesInv, TypeOK, MemoryTypeOK, Objects
<1>2. \/ o.pk = NoKey /\ idmap' = idmap
      \/ /\ o.pk \in Keys /\ idmap' = [idmap EXCEPT ![o.pk] = e] /\ rec.status # "New"
         /\ idmap[o.pk] = NoEntity /\ rows[o.pk] # NoVal
  BY <1>1 DEF Adopts, Track
<1>3. MappedNow'
  <2>1. Mapped(rows, obj, tracked, idmap) /\ Listed(tracked, order)
    BY DEF MemoryInv, MappedNow
  <2>2. Mapped(rows', obj', tracked', idmap')
    <3>1. CASE o.pk = NoKey /\ idmap' = idmap
      BY <1>1, <2>1, <3>1, Shapes DEF Mapped, Known
    <3>2. CASE /\ o.pk \in Keys /\ idmap' = [idmap EXCEPT ![o.pk] = e] /\ rec.status # "New"
               /\ idmap[o.pk] = NoEntity /\ rows[o.pk] # NoVal
      <4>1. \A k \in Keys : idmap'[k] = IF k = o.pk THEN e ELSE idmap[k]
        BY <3>2 DEF ScopesInv, TypeOK, MemoryTypeOK
      <4> QED
        BY <1>1, <2>1, <3>2, <4>1, Shapes DEF Mapped, Known
    <3> QED
      BY <1>2, <3>1, <3>2
  <2>3. Listed(tracked', order')
    <3>1. /\ order \in Seq(Entities) /\ Len(order) \in Nat /\ Len(order') = Len(order) + 1
          /\ order'[Len(order) + 1] = e /\ \A i \in 1..Len(order) : order'[i] = order[i]
      BY <1>1 DEF ScopesInv, TypeOK, MemoryTypeOK
    <3>2. \A i \in 1..Len(order) : order[i] \in Entities /\ order[i] # e
      BY <1>1, <2>1, <3>1 DEF Listed
    <3>3. \A i, j \in 1..Len(order') : order'[i] = order'[j] => i = j
      BY <2>1, <3>1, <3>2 DEF Listed
    <3>4. ASSUME NEW f \in Entities
          PROVE  Known(tracked', f) <=> \E i \in 1..Len(order') : order'[i] = f
      <4>1. CASE f = e
        BY <1>1, <3>1, <4>1 DEF Known
      <4>2. CASE f # e
        <5>1. Known(tracked', f) <=> Known(tracked, f)
          BY <1>1, <4>2 DEF Known
        <5>2. (\E i \in 1..Len(order') : order'[i] = f) <=> \E i \in 1..Len(order) : order[i] = f
          BY <3>1, <4>2
        <5> QED
          BY <2>1, <5>1, <5>2 DEF Listed
      <4> QED
        BY <4>1, <4>2
    <3> QED
      BY <3>3, <3>4 DEF Listed
  <2> QED
    BY <2>2, <2>3 DEF MappedNow
<1>4. MappedThen'
  BY <1>1 DEF MemoryInv, MappedThen
<1>5. \A i \in 1..Len(frames) :
        /\ checkpoints'[i].order = checkpoints[i].order
        /\ \A f \in Entities \ {e} : checkpoints'[i].entries[f] = checkpoints[i].entries[f]
        /\ checkpoints'[i].entries[e] = IF checkpoints[i].entries[e] = NoEntry
                                        THEN Entry(FALSE, rec, o) ELSE checkpoints[i].entries[e]
  BY TrackCaptures DEF Adopts
<1>6. /\ Entry(FALSE, rec, o) # NoEntry /\ Entry(FALSE, rec, o).existed = FALSE
      /\ Entry(FALSE, rec, o).obj = o
  BY ZenonT(60), EntriesDiffer
<1>7. Captured'
  <2>1. ASSUME NEW i \in 1..Len(frames)
        PROVE  CapturedAt(checkpoints'[i], frames[i].begin)
    <3>1. CapturedAt(checkpoints[i], frames[i].begin) /\ frames[i].begin \in Snapshots
      BY Shapes DEF MemoryInv, Captured
    <3>2. Known(frames[i].begin.tracked, e) => checkpoints[i].entries[e] # NoEntry
      <4>1. frames[i].begin.tracked[e] \in Records /\ frames[i].begin.obj[e] \in Objects
        BY <3>1 DEF Snapshots
      <4>2. Entry(TRUE, frames[i].begin.tracked[e], frames[i].begin.obj[e]) # NoEntry
        BY <4>1, EntriesDiffer
      <4> QED
        BY <3>1, <4>2 DEF CapturedAt
    <3>3. ASSUME NEW f \in Entities
          PROVE  IF Known(frames[i].begin.tracked, f)
                 THEN checkpoints'[i].entries[f] =
                        Entry(TRUE, frames[i].begin.tracked[f], frames[i].begin.obj[f])
                 ELSE checkpoints'[i].entries[f] # NoEntry =>
                        checkpoints'[i].entries[f].existed = FALSE
      <4>1. CASE f = e
        BY <1>5, <1>6, <3>1, <3>2, <4>1 DEF CapturedAt
      <4>2. CASE f # e
        BY ZenonT(60), <1>5, <3>1, <4>2 DEF CapturedAt
      <4> QED
        BY <4>1, <4>2
    <3> QED
      BY <1>5, <3>1, <3>3 DEF CapturedAt
  <2> QED
    BY <1>1, <2>1 DEF Captured
<1>8. Covers'
  <2>1. \A i \in 1..Len(frames) : checkpoints'[i].entries[e] # NoEntry
    BY <1>5, <1>6
  <2>2. ASSUME NEW i \in 1..Len(frames), NEW f \in Entities, checkpoints'[i].entries[f] = NoEntry
        PROVE  /\ tracked'[f].status = "Untracked"
               /\ \A j \in 1..Len(frames) : i < j => checkpoints'[j].entries[f] = NoEntry
    <3>1. f # e /\ checkpoints[i].entries[f] = NoEntry
      BY <1>5, <2>1, <2>2
    <3>2. /\ tracked[f].status = "Untracked"
          /\ \A j \in 1..Len(frames) : i < j => checkpoints[j].entries[f] = NoEntry
      BY <3>1 DEF MemoryInv, Covers, IsTracked
    <3> QED
      BY ZenonT(60), <1>1, <1>5, <3>1, <3>2
  <2> QED
    BY <1>1, <2>2 DEF Covers, IsTracked
<1>9. RowsKnown'
  <2>1. \A k \in Keys : idmap'[k] = NoEntity => idmap[k] = NoEntity
    BY <1>2 DEF ScopesInv, TypeOK, MemoryTypeOK
  <2> QED
    BY <1>1, <2>1 DEF MemoryInv, RowsKnown, OldRows
<1>10. KeysKnown'
  <2>1. ASSUME NEW i \in 1..Len(frames), NEW f \in Entities
        PROVE  KeyAt(checkpoints'[i], frames[i].begin, obj', f)
    <3>1. KeyAt(checkpoints[i], frames[i].begin, obj, f)
      BY DEF MemoryInv, KeysKnown
    <3>2. CASE f # e
      BY <1>1, <1>5, <3>1, <3>2 DEF KeyAt
    <3>3. CASE f = e
      <4>1. OldKey(o.pk, frames[i].begin, e)
        BY <1>2 DEF OldKey, MemoryInv, RowsKnown, OldRows
      <4> QED
        BY <1>5, <1>6, <3>1, <3>3, <4>1 DEF KeyAt
    <3> QED
      BY <3>2, <3>3
  <2> QED
    BY <1>1, <2>1 DEF KeysKnown
<1> QED
  BY <1>3, <1>4, <1>7, <1>8, <1>9, <1>10 DEF MemoryInv

(* flush_insert() gives the object the key of a row of its own and maps    *)
(* it.                                                                     *)
LEMMA InsertKeeps ==
  ASSUME ScopesInv, MemoryInv, NEW e \in Entities, NEW k \in Keys, Inserts(e, k)
  PROVE  MemoryInv'
<1> USE SessionAssumption DEF SessionAssumption
<1>1. /\ \A f \in Entities : tracked'[f] = IF f = e THEN [status |-> "Managed", orig |-> obj[e].val]
                                           ELSE tracked[f]
      /\ \A f \in Entities : obj'[f].pk = IF f = e THEN k ELSE obj[f].pk
      /\ \A x \in Keys : idmap'[x] = IF x = k THEN e ELSE idmap[x]
      /\ \A x \in Keys : rows'[x] = IF x = k THEN obj[e].val ELSE rows[x]
      /\ obj[e].val # NoVal /\ Known(tracked, e) /\ rows[k] = NoVal /\ obj[e].pk = NoKey
      /\ UNCHANGED <<order, checkpoints, frames>>
  BY DEF Inserts, IsTracked, Known, ScopesInv, TypeOK, MemoryTypeOK, DbTypeOK, Table, Objects
<1>2. \A f \in Entities : Known(tracked', f) <=> Known(tracked, f)
  BY <1>1 DEF Known
<1>3. MappedNow'
  <2>1. Mapped(rows, obj, tracked, idmap) /\ Listed(tracked, order)
    BY DEF MemoryInv, MappedNow
  <2>2. Mapped(rows', obj', tracked', idmap')
    <3>1. \A f \in Entities : Known(tracked, f) => obj[f].pk # k
      BY <1>1, <2>1 DEF Mapped
    <3>2. \A x \in Keys : idmap'[x] # NoEntity =>
            Known(tracked', idmap'[x]) /\ obj'[idmap'[x]].pk = x
      <4>1. ASSUME NEW x \in Keys, idmap'[x] # NoEntity
            PROVE  Known(tracked', idmap'[x]) /\ obj'[idmap'[x]].pk = x
        <5>1. CASE x = k
          BY <1>1, <1>2, <5>1
        <5>2. CASE x # k
          <6>1. idmap[x] \in Entities /\ Known(tracked, idmap[x]) /\ obj[idmap[x]].pk = x
            BY <1>1, <2>1, <4>1, <5>2, Shapes DEF Mapped
          <6>2. idmap[x] # e
            BY <1>1, <6>1
          <6> QED
            BY <1>1, <1>2, <5>2, <6>1, <6>2
        <5> QED
          BY <5>1, <5>2
      <4> QED
        BY <4>1
    <3>3. \A f \in Entities : Known(tracked', f) /\ obj'[f].pk # NoKey =>
            idmap'[obj'[f].pk] = f /\ rows'[obj'[f].pk] # NoVal
      BY <1>1, <1>2, <2>1, <3>1, Shapes DEF Mapped
    <3>4. /\ \A f \in Entities : ~Known(tracked', f) => tracked'[f] = Untracked
          /\ \A f \in Entities : tracked'[f].status = "New" => obj'[f].pk = NoKey
      BY <1>1, <1>2, <2>1 DEF Mapped
    <3> QED
      BY <3>2, <3>3, <3>4 DEF Mapped
  <2>3. Listed(tracked', order')
    BY <1>1, <1>2, <2>1 DEF Listed
  <2> QED
    BY <2>2, <2>3 DEF MappedNow
<1>4. MappedThen' /\ Captured'
  BY <1>1 DEF MemoryInv, MappedThen, Captured
<1>5. Covers'
  BY <1>1, <1>2 DEF MemoryInv, Covers, IsTracked, Known
<1>6. RowsKnown'
  <2>1. \A x \in Keys : rows'[x] # NoVal /\ idmap'[x] = NoEntity => rows[x] # NoVal /\ idmap[x] = NoEntity
    BY <1>1
  <2> QED
    BY <1>1, <2>1 DEF MemoryInv, RowsKnown, OldRows
<1>7. KeysKnown'
  <2>1. \A i \in 1..Len(frames) : checkpoints[i].entries[e] # NoEntry
    BY <1>1 DEF MemoryInv, Covers, IsTracked, Known
  <2>2. ASSUME NEW i \in 1..Len(frames), NEW f \in Entities
        PROVE  KeyAt(checkpoints[i], frames[i].begin, obj', f)
    <3>1. KeyAt(checkpoints[i], frames[i].begin, obj, f)
      BY DEF MemoryInv, KeysKnown
    <3> QED
      BY <1>1, <2>1, <3>1 DEF KeyAt
  <2> QED
    BY <1>1, <2>2 DEF KeysKnown
<1> QED
  BY <1>3, <1>4, <1>5, <1>6, <1>7 DEF MemoryInv

(* delete_entity() forgets the object, its key and its row together.       *)
LEMMA DeleteKeeps ==
  ASSUME ScopesInv, MemoryInv, NEW e \in Entities, Deletes(e)
  PROVE  MemoryInv'
<1> USE SessionAssumption DEF SessionAssumption
<1>1. /\ \A f \in Entities : tracked'[f] = IF f = e THEN Untracked ELSE tracked[f]
      /\ \A x \in Keys : idmap'[x] = IF x = obj[e].pk THEN NoEntity ELSE idmap[x]
      /\ \A x \in Keys : rows'[x] = IF x = obj[e].pk THEN NoVal ELSE rows[x]
      /\ Known(tracked, e) /\ order' = Without(order, e)
      /\ UNCHANGED <<obj, checkpoints, frames>>
  BY DEF Deletes, IsTracked, Known, ScopesInv, TypeOK, MemoryTypeOK
<1>2. \A f \in Entities : Known(tracked', f) <=> Known(tracked, f) /\ f # e
  BY <1>1 DEF Known, Untracked
<1>3. MappedNow'
  <2>1. Mapped(rows, obj, tracked, idmap) /\ Listed(tracked, order)
    BY DEF MemoryInv, MappedNow
  <2>2. Mapped(rows', obj', tracked', idmap')
    <3>1. \A x \in Keys : idmap'[x] # NoEntity =>
            Known(tracked', idmap'[x]) /\ obj'[idmap'[x]].pk = x
      <4>1. ASSUME NEW x \in Keys, idmap'[x] # NoEntity
            PROVE  Known(tracked', idmap'[x]) /\ obj'[idmap'[x]].pk = x
        <5>1. x # obj[e].pk /\ idmap'[x] = idmap[x]
          BY <1>1, <4>1
        <5>2. idmap[x] \in Entities /\ Known(tracked, idmap[x]) /\ obj[idmap[x]].pk = x
          BY <2>1, <4>1, <5>1, Shapes DEF Mapped
        <5> QED
          BY <1>1, <1>2, <5>1, <5>2
      <4> QED
        BY <4>1
    <3>2. \A f \in Entities : Known(tracked', f) /\ obj'[f].pk # NoKey =>
            idmap'[obj'[f].pk] = f /\ rows'[obj'[f].pk] # NoVal
      BY <1>1, <1>2, <2>1, Shapes DEF Mapped
    <3>3. /\ \A f \in Entities : ~Known(tracked', f) => tracked'[f] = Untracked
          /\ \A f \in Entities : tracked'[f].status = "New" => obj'[f].pk = NoKey
      BY <1>1, <1>2, <2>1 DEF Mapped, Untracked
    <3> QED
      BY <3>1, <3>2, <3>3 DEF Mapped
  <2>3. Listed(tracked', order')
    <3>1. order \in Seq(Entities) /\ order' \in Seq(Entities) /\ Len(order') \in Nat
      BY <1>1, WithoutSeq DEF ScopesInv, TypeOK, MemoryTypeOK
    <3>2. /\ \A i \in 1..Len(order') : \E j \in 1..Len(order) : order[j] = order'[i] /\ order[j] # e
          /\ \A j \in 1..Len(order) : order[j] # e => \E i \in 1..Len(order') : order[j] = order'[i]
          /\ \A i, j \in 1..Len(order') : order'[i] = order'[j] => i = j
      <4>1. \A i, j \in Positions(order) : order[i] = order[j] => i = j
        BY <2>1 DEF Positions, Listed
      <4>2. PICK s \in Seq(Entities) : s = Without(order, e)
        BY <1>1, <3>1
      <4>3. /\ \A i \in Positions(s) : \E j \in Positions(order) : order[j] = s[i] /\ order[j] # e
            /\ \A j \in Positions(order) : order[j] # e => \E i \in Positions(s) : order[j] = s[i]
            /\ \A i, j \in Positions(s) : s[i] = s[j] => i = j
        BY <3>1, <4>1, <4>2, WithoutSeq
      <4> QED
        BY <1>1, <4>2, <4>3 DEF Positions
    <3>3. ASSUME NEW f \in Entities
          PROVE  Known(tracked', f) <=> \E i \in 1..Len(order') : order'[i] = f
      BY <1>2, <2>1, <3>2 DEF Listed
    <3> QED
      BY <3>2, <3>3 DEF Listed
  <2> QED
    BY <2>2, <2>3 DEF MappedNow
<1>4. MappedThen' /\ Captured'
  BY <1>1 DEF MemoryInv, MappedThen, Captured
<1>5. Covers'
  BY <1>1, <1>2 DEF MemoryInv, Covers, IsTracked, Known
<1>6. RowsKnown'
  <2>1. \A x \in Keys : rows'[x] # NoVal /\ idmap'[x] = NoEntity => rows[x] # NoVal /\ idmap[x] = NoEntity
    BY <1>1
  <2> QED
    BY <1>1, <2>1 DEF MemoryInv, RowsKnown, OldRows
<1>7. KeysKnown'
  BY <1>1 DEF MemoryInv, KeysKnown
<1> QED
  BY <1>3, <1>4, <1>5, <1>6, <1>7 DEF MemoryInv

(* commit_memory_checkpoint(): the scope around is left with a checkpoint  *)
(* that captures at least as much.                                         *)
LEMMA CloseKeeps ==
  ASSUME ScopesInv, MemoryInv, Closes
  PROVE  MemoryInv'
<1>1. /\ Len(frames) \in Nat \ {0} /\ Len(frames') = Len(frames) - 1
      /\ \A i \in 1..(Len(frames) - 1) : frames'[i] = frames[i] /\ checkpoints'[i] = checkpoints[i]
      /\ UNCHANGED <<rows, obj, tracked, order, idmap>>
  <2>1. frames # <<>> /\ checkpoints # <<>> /\ Len(checkpoints) = Len(frames)
    BY TopKnown DEF Closes
  <2> QED
    BY <2>1, PopSeq DEF Closes, ScopesInv, TypeOK, ScopeTypeOK, MemoryTypeOK
<1>2. \A i \in 1..Len(frames') : /\ i \in 1..Len(frames)
                                 /\ frames'[i] = frames[i] /\ checkpoints'[i] = checkpoints[i]
  BY <1>1
<1>3. MappedNow' /\ MappedThen' /\ Captured'
  BY <1>1, <1>2 DEF MemoryInv, MappedNow, MappedThen, Captured
<1>4. Covers'
  <2>1. ASSUME NEW i \in 1..Len(frames'), NEW e \in Entities, checkpoints'[i].entries[e] = NoEntry
        PROVE  /\ tracked'[e].status = "Untracked"
               /\ \A j \in 1..Len(frames') : i < j => checkpoints'[j].entries[e] = NoEntry
    <3>1. i \in 1..Len(frames) /\ checkpoints[i].entries[e] = NoEntry
      BY <1>2, <2>1
    <3>2. /\ tracked[e].status = "Untracked"
          /\ \A j \in 1..Len(frames) : i < j => checkpoints[j].entries[e] = NoEntry
      BY <3>1 DEF MemoryInv, Covers, IsTracked
    <3> QED
      BY <1>1, <1>2, <3>2
  <2> QED
    BY <2>1 DEF Covers, IsTracked
<1>5. RowsKnown'
  <2>1. \A j \in 1..Len(frames') : 
          \A k \in Keys : frames'[j].begin.rows[k] # NoVal /\ frames'[j].begin.idmap[k] = NoEntity =>
            \A i \in 1..j : frames'[i].begin.rows[k] # NoVal
    <3>1. ASSUME NEW j \in 1..Len(frames'), NEW k \in Keys,
                 frames[j].begin.rows[k] # NoVal, frames[j].begin.idmap[k] = NoEntity, NEW i \in 1..j
          PROVE  frames'[i].begin.rows[k] # NoVal
      <4>1. i \in 1..Len(frames') /\ j \in 1..Len(frames)
        BY <1>1, <1>2, <3>1
      <4> QED
        BY <1>2, <3>1, <4>1 DEF MemoryInv, RowsKnown, OldRows
    <3> QED
      BY <1>2, <3>1
  <2>2. OldRows(rows, idmap, Len(frames))'
    BY <1>1, <1>2 DEF MemoryInv, RowsKnown, OldRows
  <2> QED
    BY <2>1, <2>2 DEF RowsKnown, OldRows
<1>6. KeysKnown'
  BY <1>1, <1>2 DEF MemoryInv, KeysKnown
<1> QED
  BY <1>3, <1>4, <1>5, <1>6 DEF MemoryInv

(* rollback() and clear() outside of a scope leave nothing tracked.        *)
LEMMA ForgetKeeps ==
  ASSUME ScopesInv, MemoryInv, Forgets
  PROVE  MemoryInv'
<1>1. /\ \A e \in Entities : tracked'[e] = Untracked
      /\ \A k \in Keys : idmap'[k] = NoEntity
      /\ order' = <<>> /\ frames' = <<>> /\ Len(order') = 0 /\ Len(frames') = 0
  BY EmptySeq DEF Forgets, ForgetEverything
<1>2. MappedNow'
  BY <1>1 DEF MappedNow, Mapped, Listed, Known, Untracked
<1>3. MappedThen' /\ Captured' /\ Covers' /\ RowsKnown' /\ KeysKnown'
  BY <1>1 DEF MappedThen, Captured, Covers, RowsKnown, OldRows, KeysKnown
<1> QED
  BY <1>2, <1>3 DEF MemoryInv

(* begin_memory_checkpoint() captures everything that is tracked.          *)
LEMMA OpenKeeps ==
  ASSUME ScopesInv, MemoryInv, NEW f \in Frames, Opens(f)
  PROVE  MemoryInv'
<1> USE SessionAssumption DEF SessionAssumption
<1> DEFINE n == Len(frames)
<1>1. /\ n \in Nat /\ Len(frames') = n + 1 /\ frames'[n + 1] = f
      /\ \A i \in 1..n : frames'[i] = frames[i] /\ checkpoints'[i] = checkpoints[i]
      /\ checkpoints'[n + 1] = NewCheckpoint
      /\ UNCHANGED <<rows, obj, tracked, order, idmap>>
  <2>1. Len(checkpoints) = n /\ NewCheckpoint \in Checkpoints
    BY NowTypes DEF ScopesInv, Nesting
  <2> QED
    BY <2>1, PushSeq DEF Opens, ScopesInv, TypeOK, ScopeTypeOK, MemoryTypeOK
<1>2. /\ f.begin.rows = rows /\ f.begin.obj = obj /\ f.begin.tracked = tracked
      /\ f.begin.order = order /\ f.begin.idmap = idmap
  BY DEF Opens, Snapshot
<1>3. /\ NewCheckpoint.order = order
      /\ \A e \in Entities : NewCheckpoint.entries[e] =
           IF IsTracked(e) THEN Entry(TRUE, tracked[e], obj[e]) ELSE NoEntry
  BY DEF NewCheckpoint
<1>4. \A e \in Entities : Entry(TRUE, tracked[e], obj[e]) # NoEntry
  BY ZenonT(90), Shapes, EntriesDiffer
<1> HIDE DEF n
<1>5. \A i \in 1..(n + 1) : i \in 1..n \/ i = n + 1
  BY <1>1
<1>6. MappedNow'
  BY <1>1 DEF MemoryInv, MappedNow
<1>7. MappedThen'
  <2>1. MappedAt(f)
    BY <1>2 DEF MemoryInv, MappedNow, MappedAt
  <2> QED
    BY <1>1, <1>5, <2>1 DEF MemoryInv, MappedThen, n
<1>8. Captured'
  <2>1. CapturedAt(NewCheckpoint, f.begin)
    BY <1>2, <1>3 DEF CapturedAt, IsTracked, Known
  <2> QED
    BY <1>1, <1>5, <2>1 DEF MemoryInv, Captured, n
<1>9. Covers'
  <2>1. ASSUME NEW i \in 1..(n + 1), NEW e \in Entities, checkpoints'[i].entries[e] = NoEntry
        PROVE  /\ ~IsTracked(e)
               /\ \A j \in 1..(n + 1) : i < j => checkpoints'[j].entries[e] = NoEntry
    <3>1. CASE i = n + 1
      <4>1. ~IsTracked(e)
        BY <1>1, <1>3, <1>4, <2>1, <3>1
      <4>2. \A j \in 1..(n + 1) : ~(i < j)
        BY <1>1, <3>1
      <4> QED
        BY <4>1, <4>2
    <3>2. CASE i \in 1..n
      <4>1. checkpoints[i].entries[e] = NoEntry
        BY <1>1, <2>1, <3>2
      <4>2. ~IsTracked(e) /\ \A j \in 1..n : i < j => checkpoints[j].entries[e] = NoEntry
        BY <3>2, <4>1 DEF MemoryInv, Covers, n
      <4>3. checkpoints'[n + 1].entries[e] = NoEntry
        BY <1>1, <1>3, <4>2
      <4> QED
        BY <1>1, <1>5, <4>2, <4>3
    <3> QED
      BY <1>5, <3>1, <3>2
  <2> QED
    BY <1>1, <2>1 DEF Covers, IsTracked, n
<1>10. RowsKnown'
  <2>1. ASSUME NEW k \in Keys, rows[k] # NoVal, idmap[k] = NoEntity, NEW i \in 1..(n + 1)
        PROVE  frames'[i].begin.rows[k] # NoVal
    <3>1. CASE i = n + 1
      BY <1>1, <1>2, <2>1, <3>1
    <3>2. CASE i \in 1..n
      BY <1>1, <2>1, <3>2 DEF MemoryInv, RowsKnown, OldRows, n
    <3> QED
      BY <1>5, <3>1, <3>2
  <2>2. ASSUME NEW j \in 1..(n + 1), NEW k \in Keys, frames'[j].begin.rows[k] # NoVal,
               frames'[j].begin.idmap[k] = NoEntity, NEW i \in 1..j
        PROVE  frames'[i].begin.rows[k] # NoVal
    <3>1. CASE j = n + 1
      BY <1>1, <1>2, <2>1, <2>2, <3>1
    <3>2. CASE j \in 1..n
      <4>1. i \in 1..n
        BY <1>1, <3>2
      <4> QED
        BY <1>1, <2>2, <3>2, <4>1 DEF MemoryInv, RowsKnown, OldRows, n
    <3> QED
      BY <1>5, <3>1, <3>2
  <2> QED
    BY <1>1, <2>1, <2>2 DEF RowsKnown, OldRows, n
<1>11. KeysKnown'
  <2>1. \A e \in Entities : KeyAt(NewCheckpoint, f.begin, obj, e)
    <3>1. ASSUME NEW e \in Entities PROVE KeyAt(NewCheckpoint, f.begin, obj, e)
      <4>1. CASE IsTracked(e)
        <5>1. NewCheckpoint.entries[e] = Entry(TRUE, tracked[e], obj[e])
          BY <1>3, <4>1
        <5>2. Entry(TRUE, tracked[e], obj[e]).existed = TRUE
          BY Shapes, EntriesDiffer
        <5> QED
          BY <1>4, <5>1, <5>2 DEF KeyAt
      <4>2. CASE ~IsTracked(e)
        BY <1>2, <1>3, <4>2 DEF KeyAt, OldKey
      <4> QED
        BY <4>1, <4>2
    <3> QED
      BY <3>1
  <2> QED
    BY <1>1, <1>5, <2>1 DEF MemoryInv, KeysKnown, n
<1> QED
  BY <1>6, <1>7, <1>8, <1>9, <1>10, <1>11 DEF MemoryInv

(* restore_memory_checkpoint() brings back exactly what was tracked when   *)
(* the scope began, and of any other object a key that no tracked one has. *)
LEMMA RestoredFrom ==
  ASSUME ScopesInv, NEW cp \in Checkpoints, NEW b \in Snapshots, RestoreFrom(cp),
         CapturedAt(cp, b), Mapped(b.rows, b.obj, b.tracked, b.idmap), Listed(b.tracked, b.order),
         \A e \in Entities : ~Known(tracked, e) => tracked[e] = Untracked,
         \A e \in Entities : cp.entries[e] = NoEntry => ~IsTracked(e),
         \A e \in Entities : KeyAt(cp, b, obj, e)
  PROVE  /\ tracked' = b.tracked /\ order' = b.order /\ idmap' = b.idmap
         /\ \A e \in Entities : Known(b.tracked, e) => obj'[e] = b.obj[e]
         /\ \A e \in Entities : ~Known(b.tracked, e) => OldKey(obj'[e].pk, b, e)
         /\ \A e \in Entities : cp.entries[e] = NoEntry => obj'[e] = obj[e]
<1> USE SessionAssumption DEF SessionAssumption
<1>1. /\ b.tracked \in [Entities -> Records] /\ b.obj \in [Entities -> Objects]
      /\ b.order \in Seq(Entities) /\ b.idmap \in [Keys -> Entities \union {NoEntity}]
  BY DEF Snapshots
<1>2. \A e \in Entities : Known(b.tracked, e) =>
        /\ cp.entries[e] # NoEntry /\ cp.entries[e].existed = TRUE
        /\ cp.entries[e].rec = b.tracked[e] /\ cp.entries[e].obj = b.obj[e]
  <2>1. ASSUME NEW e \in Entities, Known(b.tracked, e)
        PROVE  /\ cp.entries[e] # NoEntry /\ cp.entries[e].existed = TRUE
               /\ cp.entries[e].rec = b.tracked[e] /\ cp.entries[e].obj = b.obj[e]
    <3>1. b.tracked[e] \in Records /\ b.obj[e] \in Objects
      BY <1>1
    <3>2. cp.entries[e] = Entry(TRUE, b.tracked[e], b.obj[e])
      BY <2>1 DEF CapturedAt
    <3>3. /\ Entry(TRUE, b.tracked[e], b.obj[e]) # NoEntry
          /\ Entry(TRUE, b.tracked[e], b.obj[e]).existed = TRUE
          /\ Entry(TRUE, b.tracked[e], b.obj[e]).rec = b.tracked[e]
          /\ Entry(TRUE, b.tracked[e], b.obj[e]).obj = b.obj[e]
      BY ZenonT(90), <3>1, EntriesDiffer
    <3> QED
      BY <3>2, <3>3
  <2> QED
    BY <2>1
<1>3. \A e \in Entities : ~Known(b.tracked, e) =>
        cp.entries[e] = NoEntry \/ cp.entries[e].existed = FALSE
  BY DEF CapturedAt
<1>4. \A e \in Entities :
        /\ obj'[e] = IF cp.entries[e] = NoEntry THEN obj[e] ELSE cp.entries[e].obj
        /\ tracked'[e] = IF cp.entries[e] = NoEntry THEN tracked[e]
                         ELSE IF cp.entries[e].existed THEN cp.entries[e].rec ELSE Untracked
  BY DEF RestoreFrom
<1>5. \A e \in Entities : tracked'[e] = b.tracked[e]
  <2>1. \A e \in Entities : ~Known(b.tracked, e) => b.tracked[e] = Untracked
    BY DEF Mapped
  <2>2. \A e \in Entities : cp.entries[e] = NoEntry => tracked[e] = Untracked
    BY DEF IsTracked, Known
  <2> QED
    BY <1>2, <1>3, <1>4, <2>1, <2>2
<1>6. tracked' = b.tracked
  <2>1. tracked' \in [Entities -> Records]
    BY RestoreTypes DEF ScopesInv
  <2> QED
    BY <1>1, <1>5, <2>1
<1>7. order' = b.order
  BY DEF RestoreFrom, CapturedAt
<1>8. \A e \in Entities : Known(b.tracked, e) => obj'[e] = b.obj[e]
  BY <1>2, <1>4
<1>9. idmap' = b.idmap
  <2>1. idmap' = Rebuilt(obj', b.order)
    BY <1>7 DEF RestoreFrom
  <2>2. ASSUME NEW k \in Keys PROVE idmap'[k] = b.idmap[k]
    <3>1. \A i \in 1..Len(b.order) : b.order[i] \in Entities /\ Known(b.tracked, b.order[i])
      BY <1>1 DEF Listed
    <3>2. CASE idmap'[k] = NoEntity /\ \A i \in Positions(b.order) : obj'[b.order[i]].pk # k
      <4>1. ASSUME b.idmap[k] # NoEntity PROVE FALSE
        <5>1. /\ b.idmap[k] \in Entities /\ Known(b.tracked, b.idmap[k])
              /\ b.obj[b.idmap[k]].pk = k
          BY <1>1, <4>1 DEF Mapped
        <5>2. PICK i \in 1..Len(b.order) : b.order[i] = b.idmap[k]
          BY <5>1 DEF Listed
        <5> QED
          BY <1>8, <3>2, <5>1, <5>2 DEF Positions
      <4> QED
        BY <3>2, <4>1
    <3>3. CASE \E i \in Positions(b.order) : idmap'[k] = b.order[i] /\ obj'[b.order[i]].pk = k
      <4>1. PICK i \in 1..Len(b.order) : idmap'[k] = b.order[i] /\ obj'[b.order[i]].pk = k
        BY <3>3 DEF Positions
      <4>2. b.order[i] \in Entities /\ Known(b.tracked, b.order[i]) /\ b.obj[b.order[i]].pk = k
        BY <1>8, <3>1, <4>1
      <4> QED
        BY <4>1, <4>2 DEF Mapped
    <3> QED
      BY <1>1, <2>1, <3>2, <3>3, RebuiltKeys
  <2>3. idmap' \in [Keys -> Entities \union {NoEntity}]
    BY RestoreTypes DEF ScopesInv
  <2> QED
    BY <1>1, <2>2, <2>3
<1>10. \A e \in Entities : ~Known(b.tracked, e) => OldKey(obj'[e].pk, b, e)
  BY <1>3, <1>4 DEF KeyAt
<1> QED
  BY <1>4, <1>6, <1>7, <1>8, <1>9, <1>10

(* A failed scope leaves rows, records, order, identity map and tracked    *)
(* objects as they were when it began.                                     *)
LEMMA UndoneIs ==
  ASSUME ScopesInv, MemoryInv, Undoes, NEW n, n = Len(frames)
  PROVE  /\ n \in Nat \ {0} /\ Len(frames') = n - 1
         /\ \A i \in 1..(n - 1) : frames'[i] = frames[i] /\ checkpoints'[i] = checkpoints[i]
         /\ rows' = frames[n].begin.rows /\ tracked' = frames[n].begin.tracked
         /\ order' = frames[n].begin.order /\ idmap' = frames[n].begin.idmap
         /\ \A e \in Entities : Known(frames[n].begin.tracked, e) => obj'[e] = frames[n].begin.obj[e]
         /\ \A e \in Entities : ~Known(frames[n].begin.tracked, e) =>
              OldKey(obj'[e].pk, frames[n].begin, e)
         /\ \A e \in Entities : checkpoints[n].entries[e] = NoEntry => obj'[e] = obj[e]
<1>1. n \in Nat \ {0} /\ Len(checkpoints) = n /\ checkpoints # <<>>
  BY TopKnown DEF Undoes
<1>2. /\ Len(frames') = n - 1
      /\ \A i \in 1..(n - 1) : frames'[i] = frames[i] /\ checkpoints'[i] = checkpoints[i]
  BY <1>1, PopSeq DEF Undoes, ScopesInv, TypeOK, ScopeTypeOK, MemoryTypeOK
<1>3. /\ LastOf(checkpoints) = checkpoints[n] /\ LastOf(frames) = frames[n]
      /\ checkpoints[n] \in Checkpoints /\ frames[n].begin \in Snapshots
  BY <1>1, Shapes DEF LastOf
<1>4. /\ CapturedAt(checkpoints[n], frames[n].begin) /\ MappedAt(frames[n])
      /\ \A e \in Entities : checkpoints[n].entries[e] = NoEntry => ~IsTracked(e)
      /\ \A e \in Entities : KeyAt(checkpoints[n], frames[n].begin, obj, e)
  BY <1>1 DEF MemoryInv, Captured, MappedThen, Covers, KeysKnown
<1>5. \A e \in Entities : ~Known(tracked, e) => tracked[e] = Untracked
  BY DEF MemoryInv, MappedNow, Mapped
<1>6. RestoreFrom(checkpoints[n]) /\ rows' = frames[n].begin.rows
  BY <1>3 DEF Undoes
<1> QED
  BY <1>1, <1>2, <1>3, <1>4, <1>5, <1>6, RestoredFrom DEF MappedAt

(* What the scopes that remain open rely on survives the failure of one    *)
(* inside them.                                                            *)
LEMMA UndoKeeps ==
  ASSUME ScopesInv, MemoryInv, Undoes
  PROVE  MemoryInv'
<1>1. PICK n : n = Len(frames)
  OBVIOUS
<1>2. PICK b : b = frames[n].begin
  OBVIOUS
<1>3. /\ n \in Nat \ {0} /\ Len(frames') = n - 1
      /\ \A i \in 1..(n - 1) : frames'[i] = frames[i] /\ checkpoints'[i] = checkpoints[i]
      /\ rows' = b.rows /\ tracked' = b.tracked /\ order' = b.order /\ idmap' = b.idmap
      /\ \A e \in Entities : Known(b.tracked, e) => obj'[e] = b.obj[e]
      /\ \A e \in Entities : checkpoints[n].entries[e] = NoEntry => obj'[e] = obj[e]
  BY <1>1, <1>2, UndoneIs
<1>4. /\ CapturedAt(checkpoints[n], b) /\ b \in Snapshots
      /\ Mapped(b.rows, b.obj, b.tracked, b.idmap) /\ Listed(b.tracked, b.order)
  BY <1>1, <1>2, <1>3, Shapes DEF MemoryInv, Captured, MappedThen, MappedAt
<1>5. \A i \in 1..(n - 1) : i \in 1..n
  BY <1>3
<1>6. MappedNow'
  <2>1. \A k \in Keys : b.idmap[k] \in Entities \union {NoEntity}
    BY <1>4 DEF Snapshots
  <2>2. Mapped(rows', obj', tracked', idmap')
    <3>1. \A k \in Keys : b.idmap[k] # NoEntity => Known(b.tracked, b.idmap[k]) /\ obj'[b.idmap[k]].pk = k
      BY <1>3, <1>4, <2>1 DEF Mapped
    <3>2. \A e \in Entities : b.tracked[e].status = "New" => Known(b.tracked, e)
      BY DEF Known
    <3> QED
      BY <1>3, <1>4, <3>1, <3>2 DEF Mapped
  <2> QED
    BY <1>3, <1>4, <2>2 DEF MappedNow
<1>7. MappedThen' /\ Captured'
  BY <1>1, <1>3, <1>5 DEF MemoryInv, MappedThen, Captured
<1>8. Covers'
  <2>1. ASSUME NEW i \in 1..(n - 1), NEW e \in Entities, checkpoints[i].entries[e] = NoEntry
        PROVE  /\ ~Known(b.tracked, e)
               /\ \A j \in 1..(n - 1) : i < j => checkpoints[j].entries[e] = NoEntry
    <3>1. \A j \in 1..n : i < j => checkpoints[j].entries[e] = NoEntry
      BY <1>1, <1>5, <2>1 DEF MemoryInv, Covers
    <3>2. checkpoints[n].entries[e] = NoEntry
      BY <1>3, <3>1
    <3>3. Known(b.tracked, e) => b.tracked[e] \in Records /\ b.obj[e] \in Objects
      BY <1>4 DEF Snapshots
    <3>4. Known(b.tracked, e) => Entry(TRUE, b.tracked[e], b.obj[e]) # NoEntry
      BY <3>3, EntriesDiffer
    <3>5. ~Known(b.tracked, e)
      BY <1>4, <3>2, <3>4 DEF CapturedAt
    <3> QED
      BY <1>5, <3>1, <3>5
  <2> QED
    BY <1>3, <2>1 DEF Covers, IsTracked, Known
<1>9. RowsKnown'
  <2>1. ASSUME NEW j \in 1..n, NEW k \in Keys, frames[j].begin.rows[k] # NoVal,
               frames[j].begin.idmap[k] = NoEntity, NEW i \in 1..j
        PROVE  frames[i].begin.rows[k] # NoVal
    BY <1>1, <2>1 DEF MemoryInv, RowsKnown, OldRows
  <2>2. \A k \in Keys : b.rows[k] # NoVal /\ b.idmap[k] = NoEntity =>
          \A i \in 1..(n - 1) : frames'[i].begin.rows[k] # NoVal
    BY <1>2, <1>3, <1>5, <2>1
  <2>3. ASSUME NEW j \in 1..(n - 1), NEW k \in Keys, frames'[j].begin.rows[k] # NoVal,
               frames'[j].begin.idmap[k] = NoEntity, NEW i \in 1..j
        PROVE  frames'[i].begin.rows[k] # NoVal
    <3>1. i \in 1..(n - 1) /\ j \in 1..n
      BY <1>3
    <3> QED
      BY <1>3, <2>1, <2>3, <3>1
  <2> QED
    BY <1>3, <2>2, <2>3 DEF RowsKnown, OldRows
<1>10. KeysKnown'
  <2>1. ASSUME NEW i \in 1..(n - 1), NEW e \in Entities
        PROVE  KeyAt(checkpoints[i], frames[i].begin, obj', e)
    <3>1. KeyAt(checkpoints[i], frames[i].begin, obj, e)
      BY <1>1, <1>5 DEF MemoryInv, KeysKnown
    <3>2. checkpoints[i].entries[e] = NoEntry => checkpoints[n].entries[e] = NoEntry
      BY <1>1, <1>3, <1>5 DEF MemoryInv, Covers
    <3> QED
      BY <1>3, <3>1, <3>2 DEF KeyAt
  <2> QED
    BY <1>3, <2>1 DEF KeysKnown
<1> QED
  BY <1>6, <1>7, <1>8, <1>9, <1>10 DEF MemoryInv

(* Each of the three ways to fail restores rows and memory to the same     *)
(* point: the BEGIN of commit() and of the outermost transaction(), and    *)
(* the savepoint of an inner one, which is still there.                    *)
LEMMA UnwindingUndoes ==
  ASSUME Careful, CarefulInv, CommitUnwinds \/ ScopeUnwinds \/ InnerScopeUnwinds
  PROVE  Undoes
<1>1. /\ frames # <<>> /\ checkpoints # <<>> /\ Len(frames) \in Nat \ {0}
      /\ Top = frames[Len(frames)] /\ (Top.outermost <=> Len(frames) = 1)
  <2>1. frames # <<>>
    BY DEF CommitUnwinds, ScopeUnwinds, InnerScopeUnwinds, CarefulInv, ScopesInv, Phases
  <2> QED
    BY <2>1, TopKnown DEF CarefulInv
<1>2. CASE CommitUnwinds \/ ScopeUnwinds
  <2>1. Len(frames) = 1 /\ rows' = frames[1].begin.rows
    BY <1>2, CommitUndone, ScopeUndone DEF CarefulInv, UnwindsOutermost, EndsOutermost
  <2> QED
    BY <1>1, <1>2, <2>1
       DEF CommitUnwinds, ScopeUnwinds, Unwind, RollbackCheckpoint, LastOf, Undoes
<1>3. CASE InnerScopeUnwinds
  <2>1. Len(frames) \in 2..Len(frames) /\ Len(frames) \in 1..Len(frames) /\ Len(frames) # 1
    <3>1. Len(frames) # 1
      BY <1>1, <1>3 DEF InnerScopeUnwinds
    <3>2. PICK n \in Nat \ {0} : n = Len(frames)
      BY <1>1
    <3>3. n \in 2..n /\ n \in 1..n
      BY <3>1, <3>2
    <3> QED
      BY <3>1, <3>2, <3>3
  <2>2. SavepointsNamed(Top.sp) # {}
    BY <1>1, <2>1 DEF CarefulInv, SavepointsHeld, SavepointsNamed, Positions
  <2>3. rows' = saves[SavepointAt(Top.sp)].rows
    BY <1>3, <2>2 DEF InnerScopeUnwinds, DbRollbackTo, Careful
  <2>4. rows' = LastOf(frames).begin.rows
    <3>1. /\ SavepointAt(Top.sp) \in 1..Len(saves)
          /\ saves[SavepointAt(Top.sp)].name = frames[Len(frames)].sp
      BY <1>1, <2>2, SavepointRows DEF CarefulInv, Positions
    <3> QED
      BY <2>1, <2>3, <3>1 DEF CarefulInv, ScopesInv, SavepointsKnown, LastOf
  <2> QED
    BY <1>1, <1>3, <2>4 DEF InnerScopeUnwinds, Unwind, RollbackCheckpoint, Undoes
<1> QED
  BY <1>2, <1>3

(* Dropping the savepoints from that of the innermost scope on leaves      *)
(* those of the others.                                                    *)
LEMMA CutHolds ==
  ASSUME ScopesInv, SavepointsHeld, Len(frames) > 1, frames' = Pop(frames), NEW n \in 0..Len(saves),
         saves' = SubSeq(saves, 1, n),
         \A j \in 1..Len(saves) : saves[j].name < frames[Len(frames)].sp => j <= n
  PROVE  SavepointsHeld'
<1>1. /\ Len(frames) \in Nat /\ Len(frames') = Len(frames) - 1
      /\ \A i \in 1..(Len(frames) - 1) : frames'[i] = frames[i]
  <2>1. frames \in Seq(Frames) /\ frames # <<>>
    BY EmptySeq DEF ScopesInv, TypeOK, ScopeTypeOK
  <2> QED
    BY <2>1, PopSeq
<1>2. Len(saves') = n /\ n <= Len(saves) /\ Len(saves) \in Nat /\ \A i \in 1..n : saves'[i] = saves[i]
  BY DEF ScopesInv, TypeOK, DbTypeOK
<1>3. \A i, j \in 1..Len(saves') : i < j => saves'[i].name < saves'[j].name
  BY <1>2 DEF SavepointsHeld
<1>4. \A i \in 2..Len(frames') : i \in 2..Len(frames) /\ i < Len(frames) /\ frames'[i] = frames[i]
  BY <1>1
<1>5. \A i, j \in 2..Len(frames') : i < j => frames'[i].sp < frames'[j].sp
  BY <1>4 DEF SavepointsHeld
<1>6. ASSUME NEW i \in 2..Len(frames') PROVE \E j \in 1..Len(saves') : saves'[j].name = frames'[i].sp
  <2>1. frames[i].sp < frames[Len(frames)].sp
    <3>1. PICK m \in Nat : m = Len(frames) /\ m > 1
      BY <1>1
    <3>2. m \in 2..m /\ i < m /\ i \in 2..m
      BY <1>4, <3>1
    <3> QED
      BY <3>1, <3>2 DEF SavepointsHeld
  <2>2. PICK j \in 1..Len(saves) : saves[j].name = frames[i].sp
    BY <1>4 DEF SavepointsHeld
  <2>3. j \in 1..n
    BY <1>2, <2>1, <2>2
  <2> QED
    BY <1>2, <1>4, <2>2, <2>3
<1> QED
  BY <1>3, <1>5, <1>6 DEF SavepointsHeld

(* Savepoints are named in the order in which they are taken.              *)
LEMMA NamesAscend ==
  ASSUME ScopesInv, SavepointsHeld
  PROVE  \A i, j \in 1..Len(saves) : saves[i].name < saves[j].name => i < j
<1>1. ASSUME NEW i \in 1..Len(saves), NEW j \in 1..Len(saves), saves[i].name < saves[j].name
      PROVE  i < j
  <2>1. saves[i].name \in Nat /\ saves[j].name \in Nat
    BY RowsAreTable DEF ScopesInv
  <2>2. CASE i = j
    BY <1>1, <2>1, <2>2
  <2>3. CASE j < i
    BY <1>1, <2>1, <2>3 DEF SavepointsHeld
  <2> QED
    BY <2>2, <2>3
<1> QED
  BY <1>1

(* The outermost scope needs no savepoint.                                 *)
LEMMA HeldOpeningOutermost ==
  ASSUME ScopesInv, SavepointsHeld, NEW kind \in {"commit", "scope"}, OpensOutermost(kind)
  PROVE  SavepointsHeld'
<1>1. Len(frames') = 1 /\ saves' = <<>> /\ Len(saves') = 0
  BY EmptySeq DEF OpensOutermost
<1> QED
  BY <1>1 DEF SavepointsHeld

(* An inner scope takes one under a name higher than all the others.       *)
LEMMA HeldOpeningInner ==
  ASSUME ScopesInv, SavepointsHeld, OpensInner
  PROVE  SavepointsHeld'
<1> DEFINE n == Len(frames)
           m == Len(saves)
<1>1. /\ n \in Nat /\ m \in Nat /\ spCounter \in Nat
      /\ Len(frames') = n + 1 /\ \A i \in 1..n : frames'[i] = frames[i]
      /\ frames'[n + 1].sp = spCounter + 1
      /\ Len(saves') = m + 1 /\ \A i \in 1..m : saves'[i] = saves[i]
      /\ saves'[m + 1].name = spCounter + 1
  BY DEF OpensInner, Grows, Frame, ScopesInv, TypeOK, DbTypeOK, ScopeTypeOK
<1>2. /\ \A i \in 1..m : saves[i].name \in Nat /\ saves[i].name <= spCounter
      /\ \A i \in 1..n : frames[i].sp \in Nat /\ frames[i].sp <= spCounter
  BY RowsAreTable, Shapes DEF ScopesInv, SavepointsKnown, Frames
<1>3. /\ \A i, j \in 1..m : i < j => saves[i].name < saves[j].name
      /\ \A i, j \in 2..n : i < j => frames[i].sp < frames[j].sp
      /\ \A i \in 2..n : \E j \in 1..m : saves[j].name = frames[i].sp
  BY DEF SavepointsHeld
<1> HIDE DEF n, m
<1>4. ASSUME NEW i \in 1..(m + 1), NEW j \in 1..(m + 1), i < j
      PROVE  saves'[i].name < saves'[j].name
  <2>1. i \in 1..m
    BY <1>1, <1>4
  <2>2. CASE j \in 1..m
    BY <1>1, <1>3, <1>4, <2>1, <2>2
  <2>3. CASE j = m + 1
    BY <1>1, <1>2, <2>1, <2>3
  <2> QED
    BY <1>1, <2>2, <2>3
<1>5. ASSUME NEW i \in 2..(n + 1), NEW j \in 2..(n + 1), i < j
      PROVE  frames'[i].sp < frames'[j].sp
  <2>1. i \in 2..n /\ i \in 1..n
    BY <1>1, <1>5
  <2>2. CASE j \in 2..n
    BY <1>1, <1>3, <1>5, <2>1, <2>2
  <2>3. CASE j = n + 1
    BY <1>1, <1>2, <2>1, <2>3
  <2> QED
    BY <1>1, <2>2, <2>3
<1>6. ASSUME NEW i \in 2..(n + 1)
      PROVE  \E j \in 1..(m + 1) : saves'[j].name = frames'[i].sp
  <2>1. CASE i \in 2..n
    <3>1. PICK j \in 1..m : saves[j].name = frames[i].sp
      BY <1>3, <2>1
    <3>2. i \in 1..n /\ j \in 1..(m + 1)
      BY <1>1, <2>1
    <3> QED
      BY <1>1, <3>1, <3>2
  <2>2. CASE i = n + 1
    <3>1. m + 1 \in 1..(m + 1)
      BY <1>1
    <3> QED
      BY <1>1, <2>2, <3>1
  <2> QED
    BY <1>1, <2>1, <2>2
<1> QED
  BY <1>1, <1>4, <1>5, <1>6 DEF SavepointsHeld

(* No scope is left that would need one.                                   *)
LEMMA HeldEndingOutermost ==
  ASSUME ScopesInv, SavepointsHeld, EndsOutermost
  PROVE  SavepointsHeld'
<1>1. Len(frames') = 0 /\ Len(saves') = 0
  BY EmptySeq DEF EndsOutermost
<1> QED
  BY <1>1 DEF SavepointsHeld

(* RELEASE drops the savepoint of the scope that returns, and those above. *)
LEMMA HeldEndingInner ==
  ASSUME ScopesInv, SavepointsHeld, EndsInner, FinishInner
  PROVE  SavepointsHeld'
<1>1. /\ Len(frames) > 1 /\ Len(frames) \in Nat /\ frames # <<>> /\ checkpoints # <<>>
      /\ Top = frames[Len(frames)]
  BY EmptySeq, TopKnown DEF EndsInner
<1>2. frames' = Pop(frames) /\ saves' = SubSeq(saves, 1, SavepointAt(Top.sp) - 1)
  BY <1>1 DEF FinishInner, CommitCheckpoint
<1>3. SavepointAt(Top.sp) \in 1..Len(saves) /\ saves[SavepointAt(Top.sp)].name = Top.sp
  BY SavepointRows DEF FinishInner, Positions
<1>4. PICK n \in 0..Len(saves) : n = SavepointAt(Top.sp) - 1
  BY <1>3
<1>5. \A j \in 1..Len(saves) : saves[j].name < Top.sp => j <= n
  BY NamesAscend, <1>3, <1>4
<1> QED
  BY <1>1, <1>2, <1>4, <1>5, CutHolds

(* ROLLBACK TO and RELEASE drop the savepoint of the scope that throws,    *)
(* and those above.                                                        *)
LEMMA HeldUnwindingInner ==
  ASSUME ScopesInv, SavepointsHeld, EndsInner, InnerScopeUnwinds
  PROVE  SavepointsHeld'
<1>1. /\ Len(frames) > 1 /\ Len(frames) \in Nat /\ frames # <<>>
      /\ Top = frames[Len(frames)]
  BY EmptySeq, TopKnown DEF EndsInner
<1>2. frames' = Pop(frames)
  BY DEF InnerScopeUnwinds, Unwind
<1>3. CASE /\ SavepointsNamed(Top.sp) # {}
           /\ saves' = SubSeq(saves, 1, SavepointAt(Top.sp))
  <2>1. SavepointAt(Top.sp) \in 1..Len(saves) /\ saves[SavepointAt(Top.sp)].name = Top.sp
    BY <1>3, SavepointRows DEF Positions
  <2>2. PICK n \in 0..Len(saves) : n = SavepointAt(Top.sp)
    BY <2>1
  <2>3. \A j \in 1..Len(saves) : saves[j].name < Top.sp => j <= n
    BY NamesAscend, <2>1, <2>2
  <2> QED
    BY <1>1, <1>2, <1>3, <2>2, <2>3, CutHolds
<1>4. CASE saves' = saves
  <2>1. saves \in Seq(Savepoints) /\ Len(saves) \in 0..Len(saves)
    BY DEF ScopesInv, TypeOK, DbTypeOK
  <2>2. saves' = SubSeq(saves, 1, Len(saves))
    <3>1. SubSeq(saves, 1, Len(saves)) \in Seq(Savepoints)
          /\ Len(SubSeq(saves, 1, Len(saves))) = Len(saves)
      BY <2>1
    <3>2. \A i \in 1..Len(saves) : SubSeq(saves, 1, Len(saves))[i] = saves[i]
      BY <2>1
    <3> QED
      BY <1>4, <2>1, <3>1, <3>2, SeqEqual
  <2> QED
    BY <1>1, <1>2, <2>1, <2>2, CutHolds
<1> QED
  BY <1>3, <1>4 DEF InnerScopeUnwinds, DbRollbackTo, db

(* Every operation of the session does one of these nine things to the     *)
(* memory.                                                                 *)
LEMMA EffectStep == Careful /\ CarefulInv /\ [Next]_vars => Effects
<1> SUFFICES ASSUME Careful /\ CarefulInv, [Next]_vars PROVE Effects
  OBVIOUS
<1> USE SessionAssumption DEF SessionAssumption
<1>1. ASSUME NEW e \in Entities, PersistNew(e)
      PROVE  Effects
  <2>1. obj[e] \in Objects /\ [status |-> "New", orig |-> NoVal] \in Records
    BY Shapes DEF CarefulInv, Records
  <2>2. Adopts(e, obj[e], [status |-> "New", orig |-> NoVal])
    BY <1>1
       DEF PersistNew, Adopts, Careful, CarefulInv, ScopesInv, TypeOK, MemoryTypeOK, db, control
  <2> QED
    BY <2>1, <2>2 DEF Effects
<1>2. ASSUME NEW e \in Entities, PersistRemoved(e)
      PROVE  Effects
  <2>1. Still
    BY <1>2
       DEF PersistRemoved, Still, IsTracked, Known, CarefulInv, ScopesInv, TypeOK, MemoryTypeOK,
           Records, db, control
  <2> QED
    BY <2>1 DEF Effects
<1>3. ASSUME NEW e \in Entities, Remove(e)
      PROVE  Effects
  <2>1. Still
    BY <1>3
       DEF Remove, Still, IsTracked, Known, CarefulInv, ScopesInv, TypeOK, MemoryTypeOK,
           Records, db, control
  <2> QED
    BY <2>1 DEF Effects
<1>4. ASSUME NEW e \in Entities, Raise(e)
      PROVE  Effects
  <2>1. Still
    BY <1>4
       DEF Raise, Still, CarefulInv, ScopesInv, TypeOK, MemoryTypeOK, Objects, db, uow, control
  <2> QED
    BY <2>1 DEF Effects
<1>5. ASSUME NEW e \in Entities, NEW v \in Vals, Mutate(e, v)
      PROVE  Effects
  <2>1. Still
    BY <1>5
       DEF Mutate, Still, CarefulInv, ScopesInv, TypeOK, MemoryTypeOK, Objects, db, uow, control
  <2> QED
    BY <2>1 DEF Effects
<1>6. ASSUME NEW e \in Entities, NEW v \in Vals, Allocate(e, v)
      PROVE  Effects
  <2>1. Allocates(e)
    BY <1>6
       DEF Allocate, Unreferenced, Allocates, CarefulInv, ScopesInv, TypeOK, MemoryTypeOK, db,
           uow, control
  <2> QED
    BY <2>1 DEF Effects
<1>7. ASSUME NEW e \in Entities, NEW k \in Keys, FindRow(e, k)
      PROVE  Effects
  <2>1. PICK o : /\ o = [pk |-> k, val |-> rows[k], events |-> <<>>]
                 /\ obj' = [obj EXCEPT ![e] = o]
                 /\ Track(e, o, [status |-> "Managed", orig |-> rows[k]])
    BY <1>7 DEF FindRow
  <2>2. rows[k] \in Vals /\ idmap[k] = NoEntity /\ rows[k] # NoVal
    BY <1>7 DEF FindRow, CarefulInv, ScopesInv, TypeOK, DbTypeOK, Table
  <2>3. o \in Objects /\ o.pk = k /\ [status |-> "Managed", orig |-> rows[k]] \in Records
    BY <2>1, <2>2, EmptySeq DEF Objects, Records
  <2>4. Adopts(e, o, [status |-> "Managed", orig |-> rows[k]])
    BY <1>7, <2>1, <2>2, <2>3 DEF FindRow, Unreferenced, Adopts, db, control
  <2> QED
    BY <2>3, <2>4 DEF Effects
<1>8. CASE RawFlush
  <2>1. Still
    BY <1>8 DEF RawFlush, StartFlush, db, uow, txState, history, Still
  <2> QED
    BY <2>1 DEF Effects
<1>9. CASE FlushNext
  <2>1. Still
    BY <1>9 DEF FlushNext, db, uow, txState, history, Still
  <2> QED
    BY <2>1 DEF Effects
<1>10. CASE InsertRow
  <2>1. todo # <<>> /\ IsTracked(Head(todo)) /\ Head(todo) \in Entities
    BY <1>10, TodoKnown DEF InsertRow, CarefulInv, ScopesInv, Phases, HookAt, Writing
  <2>2. PICK e \in Entities : e = Head(todo)
    BY <2>1
  <2>3. PICK k \in Keys : /\ rows[k] = NoVal /\ rows' = [rows EXCEPT ![k] = obj[e].val]
                         /\ obj' = [obj EXCEPT ![e].pk = k]
                         /\ tracked' = [tracked EXCEPT ![e] = [status |-> "Managed", orig |-> obj[e].val]]
                         /\ idmap' = [idmap EXCEPT ![k] = e]
    BY <1>10, <2>2 DEF InsertRow
  <2>4. obj[e].pk = NoKey
    BY <1>10, <2>2 DEF InsertRow, CarefulInv, Writing
  <2>5. Inserts(e, k)
    BY <1>10, <2>1, <2>2, <2>3, <2>4 DEF InsertRow, Executed, Inserts
  <2> QED
    BY <2>5 DEF Effects
<1>11. CASE UpdateRow
  <2>1. todo # <<>> /\ IsTracked(Head(todo)) /\ Head(todo) \in Entities
    BY <1>11, TodoKnown DEF UpdateRow, CarefulInv, ScopesInv, Phases, HookAt, Writing
  <2>2. PICK e \in Entities : e = Head(todo)
    BY <2>1
  <2>3. current # NoVal
    BY <1>11 DEF UpdateRow, CarefulInv, Writing
  <2>4. \A k \in Keys : rows'[k] = NoVal <=> rows[k] = NoVal
    BY <1>11, <2>3 DEF UpdateRow
  <2>5. tracked' = [tracked EXCEPT ![e].orig = obj[e].val]
    BY <1>11, <2>2 DEF UpdateRow
  <2>6. \A f \in Entities : /\ tracked'[f].status = tracked[f].status
                           /\ f # e => tracked'[f] = tracked[f]
    BY <2>5 DEF CarefulInv, ScopesInv, TypeOK, MemoryTypeOK, Records
  <2>7. Still
    BY <1>11, <2>1, <2>2, <2>4, <2>6 DEF UpdateRow, Executed, Still, Known, IsTracked
  <2> QED
    BY <2>7 DEF Effects
<1>12. CASE DeleteRow
  <2>1. todo # <<>> /\ IsTracked(Head(todo)) /\ Head(todo) \in Entities
    BY <1>12, TodoKnown DEF DeleteRow, CarefulInv, ScopesInv, Phases, HookAt, Writing
  <2>2. PICK e \in Entities : e = Head(todo)
    BY <2>1
  <2>3. Deletes(e)
    BY <1>12, <2>1, <2>2 DEF DeleteRow, Executed, Deletes
  <2> QED
    BY <2>3 DEF Effects
<1>13. CASE FlushFails
  <2>1. Still
    BY <1>13 DEF FlushFails, Throw, db, uow, txState, history, Still
  <2> QED
    BY <2>1 DEF Effects
<1>14. CASE AfterHookReturns
  <2>1. Still
    BY <1>14 DEF AfterHookReturns, db, uow, txState, history, Still
  <2> QED
    BY <2>1 DEF Effects
<1>15. CASE FlushDone
  <2>1. Still
    BY <1>15 DEF FlushDone, StartFlush, db, uow, txState, history, Still
  <2> QED
    BY <2>1 DEF Effects
<1>16. CASE CommitBegins
  <2>1. Frame("commit", TRUE, 0) \in Frames
    <3>1. 0 \in Nat /\ TRUE \in BOOLEAN /\ "commit" \in {"commit", "scope"} /\ TypeOK
      BY DEF CarefulInv, ScopesInv, TypeOK, ScopeTypeOK
    <3> QED
      BY <3>1, FrameType
  <2>2. CASE Open("commit", TRUE, 0)
    <3>1. Opens(Frame("commit", TRUE, 0))
      BY <1>16, <2>2 DEF CommitBegins, Open, Opens, Frame
    <3> QED
      BY <2>1, <3>1 DEF Effects
  <2> QED
    BY <1>16, <2>2 DEF CommitBegins
<1>17. CASE ScopeBegins
  <2>1. Frame("scope", TRUE, 0) \in Frames
    <3>1. 0 \in Nat /\ TRUE \in BOOLEAN /\ "scope" \in {"commit", "scope"} /\ TypeOK
      BY DEF CarefulInv, ScopesInv, TypeOK, ScopeTypeOK
    <3> QED
      BY <3>1, FrameType
  <2>2. CASE Open("scope", TRUE, 0)
    <3>1. Opens(Frame("scope", TRUE, 0))
      BY <1>17, <2>2 DEF ScopeBegins, Open, Opens, Frame
    <3> QED
      BY <2>1, <3>1 DEF Effects
  <2>3. CASE UNCHANGED <<obj, uow, idmap, frames>>
    <3>1. Still
      BY <1>17, <2>3 DEF ScopeBegins, Still, uow
    <3> QED
      BY <3>1 DEF Effects
  <2> QED
    BY <1>17, <2>2, <2>3 DEF ScopeBegins
<1>18. CASE InnerScopeBegins
  <2>1. Frame("scope", FALSE, spCounter + 1) \in Frames
    <3>1. spCounter + 1 \in Nat /\ FALSE \in BOOLEAN /\ "scope" \in {"commit", "scope"} /\ TypeOK
      BY DEF CarefulInv, ScopesInv, TypeOK, ScopeTypeOK
    <3> QED
      BY <3>1, FrameType
  <2>2. CASE Open("scope", FALSE, spCounter + 1)
    <3>1. Opens(Frame("scope", FALSE, spCounter + 1))
      BY <1>18, <2>2 DEF InnerScopeBegins, Open, Opens, Frame
    <3> QED
      BY <2>1, <3>1 DEF Effects
  <2>3. CASE UNCHANGED <<obj, uow, idmap, frames>>
    <3>1. Still
      BY <1>18, <2>3 DEF InnerScopeBegins, Still, uow
    <3> QED
      BY <3>1 DEF Effects
  <2> QED
    BY <1>18, <2>2, <2>3 DEF InnerScopeBegins
<1>19. CASE CallbackReturns
  <2>1. Still
    BY <1>19 DEF CallbackReturns, StartFlush, Throw, db, uow, txState, history, Still
  <2> QED
    BY <2>1 DEF Effects
<1>20. CASE CallbackThrows
  <2>1. Still
    BY <1>20 DEF CallbackThrows, Throw, db, uow, txState, history, Still
  <2> QED
    BY <2>1 DEF Effects
<1>21. CASE FinishOutermost
  <2>1. frames # <<>> /\ checkpoints # <<>>
    BY <1>21, TopKnown DEF FinishOutermost, CarefulInv, ScopesInv, Phases
  <2>2. Closes
    BY <1>21, <2>1 DEF FinishOutermost, CommitCheckpoint, Closes
  <2> QED
    BY <2>2 DEF Effects
<1>22. CASE FinishInner
  <2>1. frames # <<>> /\ checkpoints # <<>>
    BY <1>22, TopKnown DEF FinishInner, CarefulInv, ScopesInv, Phases
  <2>2. Closes
    BY <1>22, <2>1 DEF FinishInner, CommitCheckpoint, Closes
  <2> QED
    BY <2>2 DEF Effects
<1>23. CASE FinishFails
  <2>1. Still
    BY <1>23 DEF FinishFails, Top, Throw, db, uow, txState, history, Still
  <2> QED
    BY <2>1 DEF Effects
<1>24. CASE RawFlushThrows
  <2>1. Still
    BY <1>24 DEF RawFlushThrows, db, uow, txState, history, Still
  <2> QED
    BY <2>1 DEF Effects
<1>25. CASE CommitUnwinds
  BY <1>25, UnwindingUndoes DEF Effects
<1>26. CASE ScopeUnwinds
  BY <1>26, UnwindingUndoes DEF Effects
<1>27. CASE InnerScopeUnwinds
  BY <1>27, UnwindingUndoes DEF Effects
<1>28. CASE DispatchNext
  <2>1. todo # <<>> /\ Head(todo) \in Entities
    BY <1>28, TodoKnown DEF DispatchNext, CarefulInv, ScopesInv
  <2>2. \A f \in Entities : obj'[f].pk = obj[f].pk
    <3>1. PICK e \in Entities : e = Head(todo)
      BY <2>1
    <3>2. obj' = [obj EXCEPT ![e].events = <<>>] \/ obj' = obj
      BY <1>28, <3>1 DEF DispatchNext
    <3>3. \A f \in Entities : obj[f] \in Objects
      BY DEF CarefulInv, ScopesInv, TypeOK, MemoryTypeOK
    <3>4. ASSUME NEW f \in Entities, obj' = [obj EXCEPT ![e].events = <<>>]
          PROVE  obj'[f].pk = obj[f].pk
      <4>1. obj'[f] = IF f = e THEN [obj[e] EXCEPT !.events = <<>>] ELSE obj[f]
        BY <3>4 DEF CarefulInv, ScopesInv, TypeOK, MemoryTypeOK
      <4> QED
        BY <3>1, <3>3, <4>1 DEF Objects
    <3> QED
      BY <3>2, <3>4
  <2>3. Still
    BY <1>28, <2>2 DEF DispatchNext, Still, db, uow
  <2> QED
    BY <2>3 DEF Effects
<1>29. CASE HandlerThrows
  <2>1. Still
    BY <1>29 DEF HandlerThrows, db, uow, txState, Still
  <2> QED
    BY <2>1 DEF Effects
<1>30. CASE DispatchDone
  <2>1. Still
    BY <1>30 DEF DispatchDone, db, uow, txState, history, Still
  <2> QED
    BY <2>1 DEF Effects
<1>31. CASE Rollback
  <2>1. frames = <<>> /\ Len(frames) = 0
    BY <1>31, RollbackIdle, EmptySeq DEF Careful, CarefulInv
  <2>2. checkpoints = <<>> /\ depth = 0
    BY <2>1, EmptySeq DEF CarefulInv, ScopesInv, Nesting, TypeOK, MemoryTypeOK
  <2>3. Forgets
    BY <1>31, <2>1, <2>2 DEF Rollback, Forgets, db, control
  <2> QED
    BY <2>3 DEF Effects
<1>32. CASE Clear
  <2>1. frames = <<>>
    BY <1>32, ClearIdle DEF Careful, CarefulInv
  <2>2. Forgets
    BY <1>32, <2>1 DEF Clear, Forgets, db, control
  <2> QED
    BY <2>2 DEF Effects
<1>33. CASE UNCHANGED vars
  <2>1. Still
    BY <1>33 DEF vars, db, uow, txState, control, history, Still
  <2> QED
    BY <2>1 DEF Effects
<1>34. QED
  BY <1>1, <1>2, <1>3, <1>4, <1>5, <1>6, <1>7, <1>8, <1>9, <1>10, <1>11, <1>12, <1>13, <1>14,
     <1>15, <1>16, <1>17, <1>18, <1>19, <1>20, <1>21, <1>22, <1>23, <1>24, <1>25, <1>26, <1>27,
     <1>28, <1>29, <1>30, <1>31, <1>32, <1>33
     DEF Next, UserStep, FlushStep, ScopeStep, FinishStep, ThrowStep, EventStep

(* A flush that has called a hook still has the entity it called it for.   *)
LEMMA WritingStep == Careful /\ CarefulInv /\ [Next]_vars => Writing'
<1> SUFFICES ASSUME Careful /\ CarefulInv, [Next]_vars PROVE Writing'
  OBVIOUS
<1> USE SessionAssumption DEF SessionAssumption
<1>1. ASSUME NEW e \in Entities, PersistNew(e)
      PROVE  Writing'
  <2>1. ASSUME pc \in {"beforeInsert", "beforeUpdate", "beforeDelete"}
        PROVE  Head(todo) \in Entities
    BY <2>1, TodoKnown DEF CarefulInv, ScopesInv, Phases, HookAt
  <2>2. \A f \in Entities : Known(tracked, f) => Known(tracked', f)
    BY <1>1 DEF PersistNew, Track, IsTracked, Known, CarefulInv, ScopesInv, TypeOK, MemoryTypeOK
  <2>3. obj' = obj /\ UNCHANGED <<pc, todo, current>>
    BY <1>1 DEF PersistNew, control
  <2> QED
    BY <2>1, <2>2, <2>3 DEF CarefulInv, Writing, IsTracked, Known
<1>2. ASSUME NEW e \in Entities, PersistRemoved(e)
      PROVE  Writing'
  <2>1. ASSUME pc \in {"beforeInsert", "beforeUpdate", "beforeDelete"}
        PROVE  Head(todo) \in Entities
    BY <2>1, TodoKnown DEF CarefulInv, ScopesInv, Phases, HookAt
  <2>2. \A f \in Entities : IsTracked(f) => tracked'[f].status # "Untracked"
    BY <1>2 DEF PersistRemoved, IsTracked, CarefulInv, ScopesInv, TypeOK, MemoryTypeOK, Records
  <2>3. obj' = obj /\ UNCHANGED <<pc, todo, current>>
    BY <1>2 DEF PersistRemoved, control
  <2> QED
    BY <2>1, <2>2, <2>3 DEF CarefulInv, Writing, IsTracked
<1>3. ASSUME NEW e \in Entities, Remove(e)
      PROVE  Writing'
  <2>1. ASSUME pc \in {"beforeInsert", "beforeUpdate", "beforeDelete"}
        PROVE  Head(todo) \in Entities
    BY <2>1, TodoKnown DEF CarefulInv, ScopesInv, Phases, HookAt
  <2>2. \A f \in Entities : IsTracked(f) => tracked'[f].status # "Untracked"
    BY <1>3 DEF Remove, IsTracked, CarefulInv, ScopesInv, TypeOK, MemoryTypeOK, Records
  <2>3. obj' = obj /\ UNCHANGED <<pc, todo, current>>
    BY <1>3 DEF Remove, control
  <2> QED
    BY <2>1, <2>2, <2>3 DEF CarefulInv, Writing, IsTracked
<1>4. ASSUME NEW e \in Entities, Raise(e)
      PROVE  Writing'
  <2>1. ASSUME pc \in {"beforeInsert", "beforeUpdate", "beforeDelete"}
        PROVE  Head(todo) \in Entities
    BY <2>1, TodoKnown DEF CarefulInv, ScopesInv, Phases, HookAt
  <2>2. \A f \in Entities : obj'[f].pk = obj[f].pk
    BY <1>4 DEF Raise, CarefulInv, ScopesInv, TypeOK, MemoryTypeOK, Objects
  <2>3. tracked' = tracked /\ UNCHANGED <<pc, todo, current>>
    BY <1>4 DEF Raise, uow, control
  <2> QED
    BY <2>1, <2>2, <2>3 DEF CarefulInv, Writing, IsTracked
<1>5. ASSUME NEW e \in Entities, NEW v \in Vals, Mutate(e, v)
      PROVE  Writing'
  <2>1. ASSUME pc \in {"beforeInsert", "beforeUpdate", "beforeDelete"}
        PROVE  Head(todo) \in Entities
    BY <2>1, TodoKnown DEF CarefulInv, ScopesInv, Phases, HookAt
  <2>2. \A f \in Entities : obj'[f].pk = obj[f].pk
    BY <1>5 DEF Mutate, CarefulInv, ScopesInv, TypeOK, MemoryTypeOK, Objects
  <2>3. tracked' = tracked /\ UNCHANGED <<pc, todo, current>>
    BY <1>5 DEF Mutate, uow, control
  <2> QED
    BY <2>1, <2>2, <2>3 DEF CarefulInv, Writing, IsTracked
<1>6. ASSUME NEW e \in Entities, NEW v \in Vals, Allocate(e, v)
      PROVE  Writing'
  <2>1. pc' \notin {"beforeInsert", "beforeUpdate", "beforeDelete"}
    BY <1>6 DEF Allocate, control
  <2> QED
    BY <2>1 DEF Writing
<1>7. ASSUME NEW e \in Entities, NEW k \in Keys, FindRow(e, k)
      PROVE  Writing'
  <2>1. pc' \notin {"beforeInsert", "beforeUpdate", "beforeDelete"}
    BY <1>7 DEF FindRow, control
  <2> QED
    BY <2>1 DEF Writing
<1>8. CASE RawFlush
  <2>1. pc' \notin {"beforeInsert", "beforeUpdate", "beforeDelete"}
    BY <1>8 DEF RawFlush, StartFlush
  <2> QED
    BY <2>1 DEF Writing
<1>9. CASE FlushNext
  <2>1. /\ todo # <<>> /\ UNCHANGED <<obj, tracked>>
        /\ Head(todo) \in Entities /\ obj[Head(todo)].val \in Vals
    BY <1>9, TodoKnown DEF FlushNext, uow, CarefulInv, ScopesInv
  <2>2. tracked[Head(todo)].status = "New" => obj[Head(todo)].pk = NoKey
    BY <2>1 DEF CarefulInv, MemoryInv, MappedNow, Mapped
  <2> QED
    BY <1>9, <2>1, <2>2 DEF FlushNext, Writing, IsTracked
<1>10. CASE InsertRow
  <2>1. pc' \notin {"beforeInsert", "beforeUpdate", "beforeDelete"}
    BY <1>10 DEF InsertRow, Executed
  <2> QED
    BY <2>1 DEF Writing
<1>11. CASE UpdateRow
  <2>1. pc' \notin {"beforeInsert", "beforeUpdate", "beforeDelete"}
    BY <1>11 DEF UpdateRow, Executed
  <2> QED
    BY <2>1 DEF Writing
<1>12. CASE DeleteRow
  <2>1. pc' \notin {"beforeInsert", "beforeUpdate", "beforeDelete"}
    BY <1>12 DEF DeleteRow, Executed
  <2> QED
    BY <2>1 DEF Writing
<1>13. CASE FlushFails
  <2>1. pc' \notin {"beforeInsert", "beforeUpdate", "beforeDelete"}
    BY <1>13 DEF FlushFails, Throw
  <2> QED
    BY <2>1 DEF Writing
<1>14. CASE AfterHookReturns
  <2>1. pc' \notin {"beforeInsert", "beforeUpdate", "beforeDelete"}
    BY <1>14 DEF AfterHookReturns
  <2> QED
    BY <2>1 DEF Writing
<1>15. CASE FlushDone
  <2>1. pc' \notin {"beforeInsert", "beforeUpdate", "beforeDelete"}
    BY <1>15 DEF FlushDone, StartFlush
  <2> QED
    BY <2>1 DEF Writing
<1>16. CASE CommitBegins
  <2>1. pc' \notin {"beforeInsert", "beforeUpdate", "beforeDelete"}
    BY <1>16 DEF CommitBegins, StartFlush, Throw
  <2> QED
    BY <2>1 DEF Writing
<1>17. CASE ScopeBegins
  <2>1. pc' \notin {"beforeInsert", "beforeUpdate", "beforeDelete"}
    BY <1>17 DEF ScopeBegins
  <2> QED
    BY <2>1 DEF Writing
<1>18. CASE InnerScopeBegins
  <2>1. pc' \notin {"beforeInsert", "beforeUpdate", "beforeDelete"}
    BY <1>18 DEF InnerScopeBegins
  <2> QED
    BY <2>1 DEF Writing
<1>19. CASE CallbackReturns
  <2>1. pc' \notin {"beforeInsert", "beforeUpdate", "beforeDelete"}
    BY <1>19 DEF CallbackReturns, StartFlush, Throw
  <2> QED
    BY <2>1 DEF Writing
<1>20. CASE CallbackThrows
  <2>1. pc' \notin {"beforeInsert", "beforeUpdate", "beforeDelete"}
    BY <1>20 DEF CallbackThrows, Throw
  <2> QED
    BY <2>1 DEF Writing
<1>21. CASE FinishOutermost
  <2>1. pc' \notin {"beforeInsert", "beforeUpdate", "beforeDelete"}
    BY <1>21 DEF FinishOutermost, CommitCheckpoint, Throw
  <2> QED
    BY <2>1 DEF Writing
<1>22. CASE FinishInner
  <2>1. pc' \notin {"beforeInsert", "beforeUpdate", "beforeDelete"}
    BY <1>22 DEF FinishInner, CommitCheckpoint, Throw
  <2> QED
    BY <2>1 DEF Writing
<1>23. CASE FinishFails
  <2>1. pc' \notin {"beforeInsert", "beforeUpdate", "beforeDelete"}
    BY <1>23 DEF FinishFails, Throw
  <2> QED
    BY <2>1 DEF Writing
<1>24. CASE RawFlushThrows
  <2>1. pc' \notin {"beforeInsert", "beforeUpdate", "beforeDelete"}
    BY <1>24 DEF RawFlushThrows
  <2> QED
    BY <2>1 DEF Writing
<1>25. CASE CommitUnwinds
  <2>1. pc' \notin {"beforeInsert", "beforeUpdate", "beforeDelete"}
    BY <1>25 DEF CommitUnwinds, Unwind
  <2> QED
    BY <2>1 DEF Writing
<1>26. CASE ScopeUnwinds
  <2>1. pc' \notin {"beforeInsert", "beforeUpdate", "beforeDelete"}
    BY <1>26 DEF ScopeUnwinds, Unwind
  <2> QED
    BY <2>1 DEF Writing
<1>27. CASE InnerScopeUnwinds
  <2>1. pc' \notin {"beforeInsert", "beforeUpdate", "beforeDelete"}
    BY <1>27 DEF InnerScopeUnwinds, Unwind
  <2> QED
    BY <2>1 DEF Writing
<1>28. CASE DispatchNext
  <2>1. pc' \notin {"beforeInsert", "beforeUpdate", "beforeDelete"}
    BY <1>28 DEF DispatchNext
  <2> QED
    BY <2>1 DEF Writing
<1>29. CASE HandlerThrows
  <2>1. pc' \notin {"beforeInsert", "beforeUpdate", "beforeDelete"}
    BY <1>29 DEF HandlerThrows
  <2> QED
    BY <2>1 DEF Writing
<1>30. CASE DispatchDone
  <2>1. pc' \notin {"beforeInsert", "beforeUpdate", "beforeDelete"}
    BY <1>30 DEF DispatchDone
  <2> QED
    BY <2>1 DEF Writing
<1>31. CASE Rollback
  <2>1. pc' \notin {"beforeInsert", "beforeUpdate", "beforeDelete"}
    BY <1>31 DEF Rollback, control
  <2> QED
    BY <2>1 DEF Writing
<1>32. CASE Clear
  <2>1. pc' \notin {"beforeInsert", "beforeUpdate", "beforeDelete"}
    BY <1>32 DEF Clear, control
  <2> QED
    BY <2>1 DEF Writing
<1>33. CASE UNCHANGED vars
  BY <1>33 DEF vars, uow, control, CarefulInv, Writing, IsTracked
<1>34. QED
  BY <1>1, <1>2, <1>3, <1>4, <1>5, <1>6, <1>7, <1>8, <1>9, <1>10, <1>11, <1>12, <1>13, <1>14,
     <1>15, <1>16, <1>17, <1>18, <1>19, <1>20, <1>21, <1>22, <1>23, <1>24, <1>25, <1>26, <1>27,
     <1>28, <1>29, <1>30, <1>31, <1>32, <1>33
     DEF Next, UserStep, FlushStep, ScopeStep, FinishStep, ThrowStep, EventStep

(* No operation loses the savepoint of a scope that is open.               *)
LEMMA SavepointsHeldStep == Orderly /\ ScopesInv /\ SavepointsHeld /\ [Next]_vars => SavepointsHeld'
<1> SUFFICES ASSUME Orderly /\ ScopesInv /\ SavepointsHeld, [Next]_vars PROVE SavepointsHeld'
  OBVIOUS
<1>1. ASSUME NEW e \in Entities, PersistNew(e)
      PROVE  SavepointsHeld'
  BY <1>1 DEF PersistNew, db, control, SavepointsHeld
<1>2. ASSUME NEW e \in Entities, PersistRemoved(e)
      PROVE  SavepointsHeld'
  BY <1>2 DEF PersistRemoved, db, control, SavepointsHeld
<1>3. ASSUME NEW e \in Entities, Remove(e)
      PROVE  SavepointsHeld'
  BY <1>3 DEF Remove, db, control, SavepointsHeld
<1>4. ASSUME NEW e \in Entities, Raise(e)
      PROVE  SavepointsHeld'
  BY <1>4 DEF Raise, db, control, SavepointsHeld
<1>5. ASSUME NEW e \in Entities, NEW v \in Vals, Mutate(e, v)
      PROVE  SavepointsHeld'
  BY <1>5 DEF Mutate, db, control, SavepointsHeld
<1>6. ASSUME NEW e \in Entities, NEW v \in Vals, Allocate(e, v)
      PROVE  SavepointsHeld'
  BY <1>6 DEF Allocate, db, control, SavepointsHeld
<1>7. ASSUME NEW e \in Entities, NEW k \in Keys, FindRow(e, k)
      PROVE  SavepointsHeld'
  BY <1>7 DEF FindRow, db, control, SavepointsHeld
<1>8. CASE RawFlush
  BY <1>8 DEF RawFlush, db, SavepointsHeld
<1>9. CASE FlushNext
  BY <1>9 DEF FlushNext, db, SavepointsHeld
<1>10. CASE InsertRow
  BY <1>10 DEF InsertRow, Executed, SavepointsHeld
<1>11. CASE UpdateRow
  BY <1>11 DEF UpdateRow, Executed, SavepointsHeld
<1>12. CASE DeleteRow
  BY <1>12 DEF DeleteRow, Executed, SavepointsHeld
<1>13. CASE FlushFails
  BY <1>13 DEF FlushFails, db, SavepointsHeld
<1>14. CASE AfterHookReturns
  BY <1>14 DEF AfterHookReturns, db, SavepointsHeld
<1>15. CASE FlushDone
  BY <1>15 DEF FlushDone, db, SavepointsHeld
<1>16. CASE CommitBegins
  BY <1>16, CommitOpens, HeldOpeningOutermost
<1>17. CASE ScopeBegins
  <2>1. CASE OpensOutermost("scope")
    BY <2>1, HeldOpeningOutermost
  <2>2. CASE Calm
    BY <2>2 DEF Calm, SavepointsHeld
  <2> QED
    BY <1>17, <2>1, <2>2, ScopeOpens
<1>18. CASE InnerScopeBegins
  <2>1. CASE OpensInner
    BY <2>1, HeldOpeningInner
  <2>2. CASE Calm
    BY <2>2 DEF Calm, SavepointsHeld
  <2> QED
    BY <1>18, <2>1, <2>2, InnerScopeOpens
<1>19. CASE CallbackReturns
  BY <1>19 DEF CallbackReturns, db, SavepointsHeld
<1>20. CASE CallbackThrows
  BY <1>20 DEF CallbackThrows, db, SavepointsHeld
<1>21. CASE FinishOutermost
  BY <1>21, OutermostEnds, HeldEndingOutermost
<1>22. CASE FinishInner
  BY <1>22, InnerEnds, HeldEndingInner
<1>23. CASE FinishFails
  BY <1>23 DEF FinishFails, db, SavepointsHeld
<1>24. CASE RawFlushThrows
  BY <1>24 DEF RawFlushThrows, db, SavepointsHeld
<1>25. CASE CommitUnwinds
  BY <1>25, CommitUndone, HeldEndingOutermost DEF UnwindsOutermost
<1>26. CASE ScopeUnwinds
  BY <1>26, ScopeUndone, HeldEndingOutermost DEF UnwindsOutermost
<1>27. CASE InnerScopeUnwinds
  BY <1>27, InnerUndone, HeldUnwindingInner DEF UnwindsInner
<1>28. CASE DispatchNext
  BY <1>28 DEF DispatchNext, db, SavepointsHeld
<1>29. CASE HandlerThrows
  BY <1>29 DEF HandlerThrows, db, SavepointsHeld
<1>30. CASE DispatchDone
  BY <1>30 DEF DispatchDone, db, SavepointsHeld
<1>31. CASE Rollback
  BY <1>31, RollbackIdle DEF Calm, SavepointsHeld
<1>32. CASE Clear
  BY <1>32, ClearIdle DEF Calm, SavepointsHeld
<1>33. CASE UNCHANGED vars
  BY <1>33 DEF vars, db, control, SavepointsHeld
<1>34. QED
  BY <1>1, <1>2, <1>3, <1>4, <1>5, <1>6, <1>7, <1>8, <1>9, <1>10, <1>11, <1>12, <1>13, <1>14,
     <1>15, <1>16, <1>17, <1>18, <1>19, <1>20, <1>21, <1>22, <1>23, <1>24, <1>25, <1>26, <1>27,
     <1>28, <1>29, <1>30, <1>31, <1>32, <1>33
     DEF Next, UserStep, FlushStep, ScopeStep, FinishStep, ThrowStep, EventStep

(* The invariant is inductive.                                             *)
LEMMA CarefulHolds ==
  ASSUME Careful
  PROVE  (Init => CarefulInv) /\ (CarefulInv /\ [Next]_vars => CarefulInv')
<1> USE SessionAssumption DEF SessionAssumption
<1>1. ASSUME Init PROVE CarefulInv
  <2>1. ScopesInv
    BY <1>1, ScopesHold DEF Careful
  <2>2. Len(<<>>) = 0
    OBVIOUS
  <2>3. SavepointsHeld /\ Writing
    BY <1>1, <2>2 DEF Init, SavepointsHeld, Writing
  <2>4. \A e \in Entities : tracked[e] = Untracked /\ obj[e].pk = NoKey
    BY <1>1 DEF Init
  <2>5. \A k \in Keys : idmap[k] = NoEntity
    BY <1>1 DEF Init
  <2>6. MappedNow
    BY <1>1, <2>2, <2>4, <2>5 DEF Init, MappedNow, Mapped, Listed, Known, Untracked
  <2>7. MappedThen /\ Captured /\ Covers /\ RowsKnown /\ KeysKnown
    BY <1>1, <2>2 DEF Init, MappedThen, Captured, Covers, RowsKnown, OldRows, KeysKnown
  <2> QED
    BY <2>1, <2>3, <2>6, <2>7 DEF CarefulInv, MemoryInv
<1>2. ASSUME CarefulInv, [Next]_vars PROVE CarefulInv'
  <2>1. ScopesInv'
    BY <1>2, ScopesHold DEF Careful, CarefulInv
  <2>2. SavepointsHeld' /\ Writing'
    BY <1>2, SavepointsHeldStep, WritingStep DEF Careful, CarefulInv
  <2>3. Effects
    BY <1>2, EffectStep
  <2>4. MemoryInv'
    BY <1>2, <2>3, StillKeeps, AllocateKeeps, AdoptKeeps, InsertKeeps, DeleteKeeps, OpenKeeps,
       CloseKeeps, UndoKeeps, ForgetKeeps
       DEF Effects, CarefulInv
  <2> QED
    BY <2>1, <2>2, <2>4 DEF CarefulInv
<1> QED
  BY <1>1, <1>2

(* Through every nesting of scopes, flush, failure and restore, tracking   *)
(* records, insertion order, identity map, checkpoints and rows keep in    *)
(* step.                                                                   *)
THEOREM SessionMemory ==
  ASSUME Careful
  PROVE  Spec => []CarefulInv
<1>1. Init => CarefulInv
  BY CarefulHolds
<1>2. CarefulInv /\ [Next]_vars => CarefulInv'
  BY CarefulHolds
<1> QED
  BY <1>1, <1>2, PTL DEF Spec

(* The identity map knows an entity exactly if it is tracked with a key, a *)
(* key is mapped to one that has it, and the insertion order lists what is *)
(* tracked, once.                                                          *)
THEOREM SessionCoherent ==
  ASSUME Careful
  PROVE  Spec => []MemoryCoherent
<1>1. CarefulInv => MemoryCoherent
  <2> SUFFICES ASSUME CarefulInv PROVE MemoryCoherent
    OBVIOUS
  <2>1. Mapped(rows, obj, tracked, idmap) /\ Listed(tracked, order)
    BY DEF CarefulInv, MemoryInv, MappedNow
  <2>2. order \in Seq(Entities) /\ \A i \in 1..Len(order) : order[i] \in Entities
    BY DEF CarefulInv, ScopesInv, TypeOK, MemoryTypeOK
  <2>3. {order[i] : i \in Positions(order)} = {e \in Entities : IsTracked(e)}
    BY <2>1, <2>2 DEF Listed, Known, IsTracked, Positions
  <2> QED
    BY <2>1, <2>3 DEF MemoryCoherent, Mapped, Listed, Known, IsTracked, Positions
<1> QED
  BY <1>1, SessionMemory, PTL

(* Each way to fail leaves what the innermost scope began with.            *)
LEMMA UnwindingRestores ==
  ASSUME Careful, CarefulInv, CommitUnwinds \/ ScopeUnwinds \/ InnerScopeUnwinds
  PROVE  Restored(Top.begin)
<1>1. Undoes
  BY UnwindingUndoes
<1>2. PICK n : n = Len(frames)
  OBVIOUS
<1>3. PICK b : b = frames[n].begin
  OBVIOUS
<1>4. Top.begin = b
  BY <1>1, <1>2, <1>3, TopKnown DEF Undoes, CarefulInv
<1>5. /\ rows' = b.rows /\ tracked' = b.tracked /\ order' = b.order /\ idmap' = b.idmap
      /\ \A e \in Entities : Known(b.tracked, e) => obj'[e] = b.obj[e]
      /\ \A e \in Entities : ~Known(b.tracked, e) => OldKey(obj'[e].pk, b, e)
  BY <1>1, <1>2, <1>3, UndoneIs DEF CarefulInv
<1> QED
  BY <1>4, <1>5 DEF Restored, Known, OldKey

(* A transaction() or commit() that throws leaves the rows, the tracking   *)
(* records, the identity map and the objects tracked when it began as they *)
(* were then.                                                              *)
THEOREM SessionRestores ==
  ASSUME Careful
  PROVE  Spec => ScopeFailureRestores
<1>1. CarefulInv /\ [Next]_vars =>
        [CommitUnwinds \/ ScopeUnwinds \/ InnerScopeUnwinds => Restored(Top.begin)]_vars
  BY UnwindingRestores
<1> QED
  BY <1>1, SessionMemory, PTL DEF Spec, ScopeFailureRestores

(* The rows and the original snapshots.  Here the user's code also leaves   *)
(* the session alone in its hooks and does not persist again what it        *)
(* removed before it ever had a row.                                        *)
Settled == Careful /\ "actInHooks" \notin Calls /\ "reviveNew" \notin Calls

Stored(r, o, t) ==
  \A e \in Entities :
    /\ t[e].orig # NoVal => o[e].pk # NoKey /\ r[o[e].pk] = t[e].orig
    /\ t[e].status = "Managed" => t[e].orig # NoVal
StoredNow == Stored(rows, obj, tracked)
StoredAt(f) == Stored(f.begin.rows, f.begin.obj, f.begin.tracked)
StoredThen == \A i \in 1..Len(frames) : StoredAt(frames[i])
Updating ==
  pc = "beforeUpdate" => current = obj[Head(todo)].val /\ tracked[Head(todo)].orig # NoVal
SettledInv == CarefulInv /\ StoredNow /\ StoredThen /\ Updating

(* What a scope remembers of its beginning is what was stored then.        *)
LEMMA StoredThenStep ==
  ASSUME SettledInv, Effects
  PROVE  StoredThen'
<1>1. CASE frames' = frames
  BY <1>1 DEF SettledInv, StoredThen
<1>2. ASSUME NEW f \in Frames, Opens(f) PROVE StoredThen'
  <2>1. PICK n \in Nat : n = Len(frames)
    BY Shapes DEF SettledInv, CarefulInv
  <2>2. StoredAt(f)
    BY <1>2 DEF Opens, Snapshot, SettledInv, StoredNow, StoredAt
  <2>3. Len(frames') = n + 1 /\ frames'[n + 1] = f /\ \A i \in 1..n : frames'[i] = frames[i]
    BY <1>2, <2>1, PushSeq DEF Opens, SettledInv, CarefulInv, ScopesInv, TypeOK, ScopeTypeOK
  <2>4. \A i \in 1..(n + 1) : i \in 1..n \/ i = n + 1
    OBVIOUS
  <2> QED
    BY <2>1, <2>2, <2>3, <2>4 DEF SettledInv, StoredThen
<1>3. CASE Closes \/ Undoes
  <2>1. frames \in Seq(Frames) /\ frames # <<>> /\ frames' = Pop(frames)
    BY <1>3 DEF Closes, Undoes, SettledInv, CarefulInv, ScopesInv, TypeOK, ScopeTypeOK
  <2>2. PICK n \in Nat \ {0} : n = Len(frames)
    BY <2>1, PopSeq
  <2>3. Len(frames') = n - 1 /\ \A i \in 1..(n - 1) : frames'[i] = frames[i]
    BY <2>1, <2>2, PopSeq
  <2>4. \A i \in 1..(n - 1) : i \in 1..n
    OBVIOUS
  <2> QED
    BY <2>2, <2>3, <2>4 DEF SettledInv, StoredThen
<1>4. CASE Forgets
  <2>1. Len(frames') = 0
    BY <1>4, EmptySeq DEF Forgets
  <2> QED
    BY <2>1 DEF StoredThen
<1> QED
  BY <1>1, <1>2, <1>3, <1>4 DEF Effects, Still, Allocates, Deletes, Inserts, Adopts

(* Only what is tracked has an original snapshot.                          *)
LEMMA NoOriginal ==
  ASSUME SettledInv, NEW e \in Entities, tracked[e].orig # NoVal
  PROVE  Known(tracked, e)
  BY DEF SettledInv, CarefulInv, MemoryInv, MappedNow, Mapped, Untracked

(* Two tracked entities do not have the same row.                          *)
LEMMA OneRowEach ==
  ASSUME SettledInv, NEW e \in Entities, NEW f \in Entities, Known(tracked, e),
         tracked[f].orig # NoVal, obj[e].pk = obj[f].pk
  PROVE  e = f
<1>1. Known(tracked, f) /\ obj[f].pk # NoKey
  BY NoOriginal DEF SettledInv, StoredNow, Stored
<1> QED
  BY <1>1 DEF SettledInv, CarefulInv, MemoryInv, MappedNow, Mapped

(* The rows and the snapshots a failed scope restores are of the same      *)
(* moment.                                                                 *)
LEMMA UnwindingStores ==
  ASSUME Careful, SettledInv, CommitUnwinds \/ ScopeUnwinds \/ InnerScopeUnwinds
  PROVE  StoredNow'
<1>1. Undoes /\ CarefulInv
  BY UnwindingUndoes DEF SettledInv
<1>2. PICK n \in Nat \ {0} : n = Len(frames)
  BY <1>1, UndoneIs DEF CarefulInv
<1>3. PICK b : b = frames[n].begin
  OBVIOUS
<1>4. /\ rows' = b.rows /\ tracked' = b.tracked
      /\ \A e \in Entities : Known(b.tracked, e) => obj'[e] = b.obj[e]
  BY <1>1, <1>2, <1>3, UndoneIs DEF CarefulInv
<1>5. StoredAt(frames[n]) /\ MappedAt(frames[n])
  BY SMTT(60), <1>2 DEF SettledInv, StoredThen, CarefulInv, MemoryInv, MappedThen
<1>6. Stored(b.rows, b.obj, b.tracked) /\ \A e \in Entities : ~Known(b.tracked, e) => b.tracked[e] = Untracked
  BY <1>3, <1>5 DEF StoredAt, MappedAt, Mapped
<1> QED
  BY <1>4, <1>6 DEF StoredNow, Stored, Untracked

(* A step that writes no row, takes no snapshot and makes nothing managed  *)
(* that had none keeps the snapshots those of the rows.                    *)
LEMMA StoredAgain ==
  ASSUME StoredNow, obj' = obj, rows' = rows,
         \A f \in Entities : /\ tracked'[f].orig = tracked[f].orig
                             /\ tracked'[f].status = "Managed" => tracked[f].orig # NoVal
  PROVE  StoredNow'
<1>1. ASSUME NEW f \in Entities, tracked'[f].orig # NoVal
      PROVE  obj'[f].pk # NoKey /\ rows'[obj'[f].pk] = tracked'[f].orig
  <2>1. tracked[f].orig # NoVal /\ tracked'[f].orig = tracked[f].orig
    BY <1>1
  <2>2. obj[f].pk # NoKey /\ rows[obj[f].pk] = tracked[f].orig
    BY <2>1 DEF StoredNow, Stored
  <2> QED
    BY <2>1, <2>2
<1>2. \A f \in Entities : tracked'[f].status = "Managed" => tracked'[f].orig # NoVal
  OBVIOUS
<1> QED
  BY <1>1, <1>2 DEF StoredNow, Stored

(* An INSERT and an UPDATE leave in the original snapshot what they have   *)
(* written, a DELETE leaves none, and find() takes what it has read.       *)
LEMMA StoredStep == Settled /\ SettledInv /\ [Next]_vars => StoredNow'
<1> SUFFICES ASSUME Settled /\ SettledInv, [Next]_vars PROVE StoredNow'
  OBVIOUS
<1> USE SessionAssumption DEF SessionAssumption
<1>1. ASSUME NEW e \in Entities, PersistNew(e)
      PROVE  StoredNow'
  <2>1. obj' = obj /\ rows' = rows
    BY <1>1 DEF PersistNew, db
  <2>2. tracked' = [tracked EXCEPT ![e] = [status |-> "New", orig |-> NoVal]]
    BY <1>1 DEF PersistNew, Track, Settled, Careful
  <2>3. \A f \in Entities : tracked'[f] = IF f = e THEN [status |-> "New", orig |-> NoVal] ELSE tracked[f]
    BY <2>2 DEF SettledInv, CarefulInv, ScopesInv, TypeOK, MemoryTypeOK
  <2> QED
    BY <2>1, <2>3 DEF SettledInv, StoredNow, Stored
<1>2. ASSUME NEW e \in Entities, PersistRemoved(e)
      PROVE  StoredNow'
  <2>1. obj' = obj /\ rows' = rows /\ tracked[e].orig # NoVal
    BY <1>2 DEF PersistRemoved, db, Settled
  <2>2. \A f \in Entities : /\ tracked'[f].orig = tracked[f].orig
                            /\ f # e => tracked'[f] = tracked[f]
    BY <1>2 DEF PersistRemoved, SettledInv, CarefulInv, ScopesInv, TypeOK, MemoryTypeOK, Records
  <2>3. StoredNow
    BY DEF SettledInv
  <2>4. \A f \in Entities : tracked'[f].status = "Managed" => tracked[f].orig # NoVal
    BY <2>1, <2>2, <2>3 DEF StoredNow, Stored
  <2> QED
    BY <2>1, <2>2, <2>3, <2>4, StoredAgain
<1>3. ASSUME NEW e \in Entities, Remove(e)
      PROVE  StoredNow'
  <2>1. obj' = obj /\ rows' = rows
    BY <1>3 DEF Remove, db
  <2>2. \A f \in Entities : /\ tracked'[f].orig = tracked[f].orig
                            /\ tracked'[f].status = "Managed" => tracked[f].status = "Managed"
    BY <1>3 DEF Remove, SettledInv, CarefulInv, ScopesInv, TypeOK, MemoryTypeOK, Records
  <2>3. StoredNow
    BY DEF SettledInv
  <2>4. \A f \in Entities : tracked'[f].status = "Managed" => tracked[f].orig # NoVal
    BY <2>1, <2>2, <2>3 DEF StoredNow, Stored
  <2> QED
    BY <2>1, <2>2, <2>3, <2>4, StoredAgain
<1>4. ASSUME NEW e \in Entities, Raise(e)
      PROVE  StoredNow'
  <2>1. tracked' = tracked /\ rows' = rows
    BY <1>4 DEF Raise, db, uow
  <2>2. \A f \in Entities : obj'[f].pk = obj[f].pk
    BY <1>4 DEF Raise, SettledInv, CarefulInv, ScopesInv, TypeOK, MemoryTypeOK, Objects
  <2> QED
    BY <2>1, <2>2 DEF SettledInv, StoredNow, Stored
<1>5. ASSUME NEW e \in Entities, NEW v \in Vals, Mutate(e, v)
      PROVE  StoredNow'
  <2>1. tracked' = tracked /\ rows' = rows
    BY <1>5 DEF Mutate, db, uow
  <2>2. \A f \in Entities : obj'[f].pk = obj[f].pk
    BY <1>5 DEF Mutate, SettledInv, CarefulInv, ScopesInv, TypeOK, MemoryTypeOK, Objects
  <2> QED
    BY <2>1, <2>2 DEF SettledInv, StoredNow, Stored
<1>6. ASSUME NEW e \in Entities, NEW v \in Vals, Allocate(e, v)
      PROVE  StoredNow'
  <2>1. /\ tracked' = tracked /\ rows' = rows /\ ~Known(tracked, e)
        /\ \A f \in Entities \ {e} : obj'[f] = obj[f]
    BY <1>6
       DEF Allocate, Unreferenced, IsTracked, Known, db, uow, SettledInv, CarefulInv, ScopesInv,
           TypeOK, MemoryTypeOK
  <2>2. tracked[e].orig = NoVal /\ tracked[e].status # "Managed"
    BY <2>1, NoOriginal DEF Known
  <2> QED
    BY <2>1, <2>2 DEF SettledInv, StoredNow, Stored
<1>7. ASSUME NEW e \in Entities, NEW k \in Keys, FindRow(e, k)
      PROVE  StoredNow'
  <2>1. /\ rows' = rows /\ rows[k] # NoVal
        /\ obj' = [obj EXCEPT ![e] = [pk |-> k, val |-> rows[k], events |-> <<>>]]
        /\ tracked' = [tracked EXCEPT ![e] = [status |-> "Managed", orig |-> rows[k]]]
    BY <1>7 DEF FindRow, Track, db
  <2>2. \A f \in Entities :
          IF f = e THEN obj'[f].pk = k /\ tracked'[f] = [status |-> "Managed", orig |-> rows[k]]
          ELSE obj'[f] = obj[f] /\ tracked'[f] = tracked[f]
    BY <2>1 DEF SettledInv, CarefulInv, ScopesInv, TypeOK, MemoryTypeOK
  <2> QED
    BY <2>1, <2>2 DEF SettledInv, StoredNow, Stored
<1>8. CASE RawFlush
  <2>1. UNCHANGED <<rows, tracked>> /\ obj' = obj
    BY <1>8 DEF RawFlush, db, uow
  <2> QED
    BY <2>1 DEF SettledInv, StoredNow
<1>9. CASE FlushNext
  <2>1. UNCHANGED <<rows, tracked>> /\ obj' = obj
    BY <1>9 DEF FlushNext, db, uow
  <2> QED
    BY <2>1 DEF SettledInv, StoredNow
<1>10. CASE InsertRow
  <2>1. todo # <<>> /\ IsTracked(Head(todo)) /\ Head(todo) \in Entities
    BY <1>10, TodoKnown
       DEF InsertRow, SettledInv, CarefulInv, ScopesInv, Phases, HookAt, Writing
  <2>2. PICK e \in Entities : e = Head(todo) /\ Known(tracked, e) /\ obj[e].val \in Vals
    BY <2>1
       DEF IsTracked, Known, SettledInv, CarefulInv, ScopesInv, TypeOK, MemoryTypeOK, Objects
  <2>3. PICK k \in Keys : /\ rows[k] = NoVal /\ rows' = [rows EXCEPT ![k] = obj[e].val]
                         /\ obj' = [obj EXCEPT ![e].pk = k]
                         /\ tracked' = [tracked EXCEPT ![e] = [status |-> "Managed", orig |-> obj[e].val]]
    BY <1>10, <2>2 DEF InsertRow
  <2>4. /\ \A x \in Keys : rows'[x] = IF x = k THEN obj[e].val ELSE rows[x]
        /\ \A f \in Entities :
             IF f = e THEN obj'[f].pk = k /\ tracked'[f] = [status |-> "Managed", orig |-> obj[e].val]
             ELSE obj'[f] = obj[f] /\ tracked'[f] = tracked[f]
    BY <2>3
       DEF SettledInv, CarefulInv, ScopesInv, TypeOK, MemoryTypeOK, DbTypeOK, Table, Objects
  <2>5. \A f \in Entities : tracked[f].orig # NoVal => obj[f].pk \in Keys /\ obj[f].pk # k
    BY <2>3, Shapes DEF SettledInv, CarefulInv, StoredNow, Stored
  <2>6. obj[e].val # NoVal /\ k # NoKey
    BY <2>2
  <2> QED
    BY <2>4, <2>5, <2>6 DEF SettledInv, StoredNow, Stored
<1>11. CASE UpdateRow
  <2>1. todo # <<>> /\ IsTracked(Head(todo)) /\ Head(todo) \in Entities
    BY <1>11, TodoKnown
       DEF UpdateRow, SettledInv, CarefulInv, ScopesInv, Phases, HookAt, Writing
  <2>2. PICK e \in Entities : e = Head(todo) /\ Known(tracked, e) /\ obj[e].val \in Vals
    BY <2>1
       DEF IsTracked, Known, SettledInv, CarefulInv, ScopesInv, TypeOK, MemoryTypeOK, Objects
  <2>3. /\ current = obj[e].val /\ tracked[e].orig # NoVal /\ obj' = obj
        /\ rows' = [k \in Keys |-> IF k = obj[e].pk /\ rows[k] # NoVal THEN current ELSE rows[k]]
        /\ tracked' = [tracked EXCEPT ![e].orig = obj[e].val]
    BY <1>11, <2>2 DEF UpdateRow, SettledInv, Updating
  <2>4. \A f \in Entities : /\ tracked'[f].status = tracked[f].status
                            /\ tracked'[f].orig = IF f = e THEN obj[e].val ELSE tracked[f].orig
    BY <2>3 DEF SettledInv, CarefulInv, ScopesInv, TypeOK, MemoryTypeOK, Records
  <2>5. obj[e].pk \in Keys /\ rows[obj[e].pk] # NoVal /\ rows'[obj[e].pk] = obj[e].val
    BY <2>3, Shapes DEF SettledInv, CarefulInv, StoredNow, Stored
  <2>6. ASSUME NEW f \in Entities, f # e, tracked[f].orig # NoVal
        PROVE  obj[f].pk \in Keys /\ rows'[obj[f].pk] = rows[obj[f].pk]
    <3>1. obj[f].pk # obj[e].pk
      BY <2>2, <2>6, OneRowEach
    <3>2. obj[f].pk \in Keys
      BY <2>6, Shapes DEF SettledInv, CarefulInv, StoredNow, Stored
    <3> QED
      BY <2>3, <3>1, <3>2
  <2>7. obj[e].val # NoVal
    BY <2>2
  <2> QED
    BY <2>3, <2>4, <2>5, <2>6, <2>7 DEF SettledInv, StoredNow, Stored
<1>12. CASE DeleteRow
  <2>1. todo # <<>> /\ IsTracked(Head(todo)) /\ Head(todo) \in Entities
    BY <1>12, TodoKnown
       DEF DeleteRow, SettledInv, CarefulInv, ScopesInv, Phases, HookAt, Writing
  <2>2. PICK e \in Entities : e = Head(todo) /\ Known(tracked, e) /\ obj[e].val \in Vals
    BY <2>1
       DEF IsTracked, Known, SettledInv, CarefulInv, ScopesInv, TypeOK, MemoryTypeOK, Objects
  <2>3. /\ obj' = obj /\ tracked' = [tracked EXCEPT ![e] = Untracked]
        /\ rows' = [k \in Keys |-> IF k = obj[e].pk THEN NoVal ELSE rows[k]]
    BY <1>12, <2>2 DEF DeleteRow
  <2>4. \A f \in Entities : tracked'[f] = IF f = e THEN Untracked ELSE tracked[f]
    BY <2>3 DEF SettledInv, CarefulInv, ScopesInv, TypeOK, MemoryTypeOK
  <2>5. ASSUME NEW f \in Entities, f # e, tracked[f].orig # NoVal
        PROVE  obj[f].pk \in Keys /\ rows'[obj[f].pk] = rows[obj[f].pk]
    <3>1. obj[f].pk # obj[e].pk
      BY <2>2, <2>5, OneRowEach
    <3>2. obj[f].pk \in Keys
      BY <2>5, Shapes DEF SettledInv, CarefulInv, StoredNow, Stored
    <3> QED
      BY <2>3, <3>1, <3>2
  <2> QED
    BY <2>3, <2>4, <2>5 DEF SettledInv, StoredNow, Stored, Untracked
<1>13. CASE FlushFails
  <2>1. UNCHANGED <<rows, tracked>> /\ obj' = obj
    BY <1>13 DEF FlushFails, db, uow
  <2> QED
    BY <2>1 DEF SettledInv, StoredNow
<1>14. CASE AfterHookReturns
  <2>1. UNCHANGED <<rows, tracked>> /\ obj' = obj
    BY <1>14 DEF AfterHookReturns, db, uow
  <2> QED
    BY <2>1 DEF SettledInv, StoredNow
<1>15. CASE FlushDone
  <2>1. UNCHANGED <<rows, tracked>> /\ obj' = obj
    BY <1>15 DEF FlushDone, db, uow
  <2> QED
    BY <2>1 DEF SettledInv, StoredNow
<1>16. CASE CommitBegins
  <2>1. UNCHANGED <<rows, tracked>> /\ obj' = obj
    BY <1>16 DEF CommitBegins, Open, uow
  <2> QED
    BY <2>1 DEF SettledInv, StoredNow
<1>17. CASE ScopeBegins
  <2>1. UNCHANGED <<rows, tracked>> /\ obj' = obj
    BY <1>17 DEF ScopeBegins, Open, uow
  <2> QED
    BY <2>1 DEF SettledInv, StoredNow
<1>18. CASE InnerScopeBegins
  <2>1. UNCHANGED <<rows, tracked>> /\ obj' = obj
    BY <1>18 DEF InnerScopeBegins, Open, uow
  <2> QED
    BY <2>1 DEF SettledInv, StoredNow
<1>19. CASE CallbackReturns
  <2>1. UNCHANGED <<rows, tracked>> /\ obj' = obj
    BY <1>19 DEF CallbackReturns, db, uow
  <2> QED
    BY <2>1 DEF SettledInv, StoredNow
<1>20. CASE CallbackThrows
  <2>1. UNCHANGED <<rows, tracked>> /\ obj' = obj
    BY <1>20 DEF CallbackThrows, db, uow
  <2> QED
    BY <2>1 DEF SettledInv, StoredNow
<1>21. CASE FinishOutermost
  <2>1. UNCHANGED <<rows, tracked>> /\ obj' = obj
    BY <1>21 DEF FinishOutermost
  <2> QED
    BY <2>1 DEF SettledInv, StoredNow
<1>22. CASE FinishInner
  <2>1. UNCHANGED <<rows, tracked>> /\ obj' = obj
    BY <1>22 DEF FinishInner
  <2> QED
    BY <2>1 DEF SettledInv, StoredNow
<1>23. CASE FinishFails
  <2>1. UNCHANGED <<rows, tracked>> /\ obj' = obj
    BY <1>23 DEF FinishFails, db, uow
  <2> QED
    BY <2>1 DEF SettledInv, StoredNow
<1>24. CASE RawFlushThrows
  <2>1. UNCHANGED <<rows, tracked>> /\ obj' = obj
    BY <1>24 DEF RawFlushThrows, db, uow
  <2> QED
    BY <2>1 DEF SettledInv, StoredNow
<1>25. CASE CommitUnwinds
  BY <1>25, UnwindingStores DEF Settled
<1>26. CASE ScopeUnwinds
  BY <1>26, UnwindingStores DEF Settled
<1>27. CASE InnerScopeUnwinds
  BY <1>27, UnwindingStores DEF Settled
<1>28. CASE DispatchNext
  <2>1. todo # <<>> /\ Head(todo) \in Entities /\ UNCHANGED <<tracked, rows>>
    BY <1>28, TodoKnown DEF DispatchNext, db, uow, SettledInv, CarefulInv, ScopesInv
  <2>2. PICK e \in Entities : e = Head(todo)
    BY <2>1
  <2>3. obj' = [obj EXCEPT ![e].events = <<>>] \/ obj' = obj
    BY <1>28, <2>2 DEF DispatchNext
  <2>4. \A f \in Entities : obj[f] \in Objects
    BY DEF SettledInv, CarefulInv, ScopesInv, TypeOK, MemoryTypeOK
  <2>5. ASSUME NEW f \in Entities, obj' = [obj EXCEPT ![e].events = <<>>]
        PROVE  obj'[f].pk = obj[f].pk
    <3>1. obj'[f] = IF f = e THEN [obj[e] EXCEPT !.events = <<>>] ELSE obj[f]
      BY <2>5 DEF SettledInv, CarefulInv, ScopesInv, TypeOK, MemoryTypeOK
    <3> QED
      BY <2>2, <2>4, <3>1 DEF Objects
  <2> QED
    BY <2>1, <2>3, <2>5 DEF SettledInv, StoredNow, Stored
<1>29. CASE HandlerThrows
  <2>1. UNCHANGED <<rows, tracked>> /\ obj' = obj
    BY <1>29 DEF HandlerThrows, db, uow
  <2> QED
    BY <2>1 DEF SettledInv, StoredNow
<1>30. CASE DispatchDone
  <2>1. UNCHANGED <<rows, tracked>> /\ obj' = obj
    BY <1>30 DEF DispatchDone, db, uow
  <2> QED
    BY <2>1 DEF SettledInv, StoredNow
<1>31. CASE Rollback
  <2>1. frames = <<>>
    BY <1>31, RollbackIdle DEF Settled, Careful, SettledInv, CarefulInv
  <2>2. checkpoints = <<>>
    BY <2>1, EmptySeq DEF SettledInv, CarefulInv, ScopesInv, TypeOK, MemoryTypeOK, Nesting
  <2>3. \A f \in Entities : tracked'[f] = Untracked
    BY <1>31, <2>2 DEF Rollback, ForgetEverything
  <2> QED
    BY <2>3 DEF StoredNow, Stored, Untracked
<1>32. CASE Clear
  <2>1. \A f \in Entities : tracked'[f] = Untracked
    BY <1>32 DEF Clear, ForgetEverything
  <2> QED
    BY <2>1 DEF StoredNow, Stored, Untracked
<1>33. CASE UNCHANGED vars
  <2>1. UNCHANGED <<rows, tracked>> /\ obj' = obj
    BY <1>33 DEF vars, db, uow
  <2> QED
    BY <2>1 DEF SettledInv, StoredNow
<1>34. QED
  BY <1>1, <1>2, <1>3, <1>4, <1>5, <1>6, <1>7, <1>8, <1>9, <1>10, <1>11, <1>12, <1>13, <1>14,
     <1>15, <1>16, <1>17, <1>18, <1>19, <1>20, <1>21, <1>22, <1>23, <1>24, <1>25, <1>26, <1>27,
     <1>28, <1>29, <1>30, <1>31, <1>32, <1>33
     DEF Next, UserStep, FlushStep, ScopeStep, FinishStep, ThrowStep, EventStep

(* An UPDATE whose before_update hook has returned writes the values the   *)
(* object has: the hook has not changed them.                              *)
LEMMA UpdatingStep == Settled /\ SettledInv /\ [Next]_vars => Updating'
<1> SUFFICES ASSUME Settled /\ SettledInv, [Next]_vars PROVE Updating'
  OBVIOUS
<1> USE SessionAssumption DEF SessionAssumption
<1>1. ASSUME NEW e \in Entities, PersistNew(e)
      PROVE  Updating'
  <2>1. pc' # "beforeUpdate"
    BY <1>1 DEF PersistNew, UserTurn, Settled, control
  <2> QED
    BY <2>1 DEF Updating
<1>2. ASSUME NEW e \in Entities, PersistRemoved(e)
      PROVE  Updating'
  <2>1. pc' # "beforeUpdate"
    BY <1>2 DEF PersistRemoved, UserTurn, Settled, control
  <2> QED
    BY <2>1 DEF Updating
<1>3. ASSUME NEW e \in Entities, Remove(e)
      PROVE  Updating'
  <2>1. pc' # "beforeUpdate"
    BY <1>3 DEF Remove, UserTurn, Settled, control
  <2> QED
    BY <2>1 DEF Updating
<1>4. ASSUME NEW e \in Entities, Raise(e)
      PROVE  Updating'
  <2>1. pc' # "beforeUpdate"
    BY <1>4 DEF Raise, UserTurn, Settled, control
  <2> QED
    BY <2>1 DEF Updating
<1>5. ASSUME NEW e \in Entities, NEW v \in Vals, Mutate(e, v)
      PROVE  Updating'
  <2>1. pc' # "beforeUpdate"
    BY <1>5 DEF Mutate, UserTurn, Settled, control
  <2> QED
    BY <2>1 DEF Updating
<1>6. ASSUME NEW e \in Entities, NEW v \in Vals, Allocate(e, v)
      PROVE  Updating'
  <2>1. pc' # "beforeUpdate"
    BY <1>6 DEF Allocate, control
  <2> QED
    BY <2>1 DEF Updating
<1>7. ASSUME NEW e \in Entities, NEW k \in Keys, FindRow(e, k)
      PROVE  Updating'
  <2>1. pc' # "beforeUpdate"
    BY <1>7 DEF FindRow, control
  <2> QED
    BY <2>1 DEF Updating
<1>8. CASE RawFlush
  <2>1. pc' # "beforeUpdate"
    BY <1>8 DEF RawFlush, StartFlush
  <2> QED
    BY <2>1 DEF Updating
<1>9. CASE FlushNext
  <2>1. todo # <<>> /\ UNCHANGED <<obj, tracked>> /\ Head(todo) \in Entities
    BY <1>9, TodoKnown DEF FlushNext, uow, SettledInv, CarefulInv, ScopesInv
  <2>2. tracked[Head(todo)].status = "Managed" => tracked[Head(todo)].orig # NoVal
    BY <2>1 DEF SettledInv, StoredNow, Stored
  <2> QED
    BY <1>9, <2>1, <2>2 DEF FlushNext, Updating
<1>10. CASE InsertRow
  <2>1. pc' # "beforeUpdate"
    BY <1>10 DEF InsertRow, Executed
  <2> QED
    BY <2>1 DEF Updating
<1>11. CASE UpdateRow
  <2>1. pc' # "beforeUpdate"
    BY <1>11 DEF UpdateRow, Executed
  <2> QED
    BY <2>1 DEF Updating
<1>12. CASE DeleteRow
  <2>1. pc' # "beforeUpdate"
    BY <1>12 DEF DeleteRow, Executed
  <2> QED
    BY <2>1 DEF Updating
<1>13. CASE FlushFails
  <2>1. pc' # "beforeUpdate"
    BY <1>13 DEF FlushFails, Throw
  <2> QED
    BY <2>1 DEF Updating
<1>14. CASE AfterHookReturns
  <2>1. pc' # "beforeUpdate"
    BY <1>14 DEF AfterHookReturns
  <2> QED
    BY <2>1 DEF Updating
<1>15. CASE FlushDone
  <2>1. pc' # "beforeUpdate"
    BY <1>15 DEF FlushDone, StartFlush
  <2> QED
    BY <2>1 DEF Updating
<1>16. CASE CommitBegins
  <2>1. pc' # "beforeUpdate"
    BY <1>16 DEF CommitBegins, StartFlush, Throw
  <2> QED
    BY <2>1 DEF Updating
<1>17. CASE ScopeBegins
  <2>1. pc' # "beforeUpdate"
    BY <1>17 DEF ScopeBegins
  <2> QED
    BY <2>1 DEF Updating
<1>18. CASE InnerScopeBegins
  <2>1. pc' # "beforeUpdate"
    BY <1>18 DEF InnerScopeBegins
  <2> QED
    BY <2>1 DEF Updating
<1>19. CASE CallbackReturns
  <2>1. pc' # "beforeUpdate"
    BY <1>19 DEF CallbackReturns, StartFlush, Throw
  <2> QED
    BY <2>1 DEF Updating
<1>20. CASE CallbackThrows
  <2>1. pc' # "beforeUpdate"
    BY <1>20 DEF CallbackThrows, Throw
  <2> QED
    BY <2>1 DEF Updating
<1>21. CASE FinishOutermost
  <2>1. pc' # "beforeUpdate"
    BY <1>21 DEF FinishOutermost, CommitCheckpoint, Throw
  <2> QED
    BY <2>1 DEF Updating
<1>22. CASE FinishInner
  <2>1. pc' # "beforeUpdate"
    BY <1>22 DEF FinishInner, CommitCheckpoint, Throw
  <2> QED
    BY <2>1 DEF Updating
<1>23. CASE FinishFails
  <2>1. pc' # "beforeUpdate"
    BY <1>23 DEF FinishFails, Throw
  <2> QED
    BY <2>1 DEF Updating
<1>24. CASE RawFlushThrows
  <2>1. pc' # "beforeUpdate"
    BY <1>24 DEF RawFlushThrows
  <2> QED
    BY <2>1 DEF Updating
<1>25. CASE CommitUnwinds
  <2>1. pc' # "beforeUpdate"
    BY <1>25 DEF CommitUnwinds, Unwind
  <2> QED
    BY <2>1 DEF Updating
<1>26. CASE ScopeUnwinds
  <2>1. pc' # "beforeUpdate"
    BY <1>26 DEF ScopeUnwinds, Unwind
  <2> QED
    BY <2>1 DEF Updating
<1>27. CASE InnerScopeUnwinds
  <2>1. pc' # "beforeUpdate"
    BY <1>27 DEF InnerScopeUnwinds, Unwind
  <2> QED
    BY <2>1 DEF Updating
<1>28. CASE DispatchNext
  <2>1. pc' # "beforeUpdate"
    BY <1>28 DEF DispatchNext
  <2> QED
    BY <2>1 DEF Updating
<1>29. CASE HandlerThrows
  <2>1. pc' # "beforeUpdate"
    BY <1>29 DEF HandlerThrows
  <2> QED
    BY <2>1 DEF Updating
<1>30. CASE DispatchDone
  <2>1. pc' # "beforeUpdate"
    BY <1>30 DEF DispatchDone
  <2> QED
    BY <2>1 DEF Updating
<1>31. CASE Rollback
  <2>1. pc' # "beforeUpdate"
    BY <1>31 DEF Rollback, control
  <2> QED
    BY <2>1 DEF Updating
<1>32. CASE Clear
  <2>1. pc' # "beforeUpdate"
    BY <1>32 DEF Clear, control
  <2> QED
    BY <2>1 DEF Updating
<1>33. CASE UNCHANGED vars
  BY <1>33 DEF vars, uow, control, SettledInv, Updating
<1>34. QED
  BY <1>1, <1>2, <1>3, <1>4, <1>5, <1>6, <1>7, <1>8, <1>9, <1>10, <1>11, <1>12, <1>13, <1>14,
     <1>15, <1>16, <1>17, <1>18, <1>19, <1>20, <1>21, <1>22, <1>23, <1>24, <1>25, <1>26, <1>27,
     <1>28, <1>29, <1>30, <1>31, <1>32, <1>33
     DEF Next, UserStep, FlushStep, ScopeStep, FinishStep, ThrowStep, EventStep

(* What the session takes for the stored state of an entity is its row,    *)
(* through every nesting of scopes, flush, failure and restore.            *)
THEOREM SessionStored ==
  ASSUME Settled
  PROVE  Spec => []SettledInv
<1>1. Init => SettledInv
  <2>1. Init => CarefulInv
    BY CarefulHolds DEF Settled
  <2>2. Init => StoredNow /\ StoredThen /\ Updating
    BY DEF Init, StoredNow, Stored, StoredThen, Updating, Untracked
  <2> QED
    BY <2>1, <2>2 DEF SettledInv
<1>2. SettledInv /\ [Next]_vars => SettledInv'
  <2>1. SettledInv /\ [Next]_vars => CarefulInv'
    BY CarefulHolds DEF Settled, SettledInv
  <2>2. SettledInv /\ [Next]_vars => StoredThen'
    BY EffectStep, StoredThenStep DEF Settled, SettledInv
  <2>3. SettledInv /\ [Next]_vars => StoredNow' /\ Updating'
    BY StoredStep, UpdatingStep
  <2> QED
    BY <2>1, <2>2, <2>3 DEF SettledInv
<1> QED
  BY <1>1, <1>2, PTL DEF Spec

(* The original snapshot of a managed entity, against which its changes    *)
(* are detected, is its row.                                               *)
THEOREM SessionOriginals ==
  ASSUME Settled
  PROVE  Spec => []OriginalIsRow
<1>1. SettledInv => OriginalIsRow
  BY DEF SettledInv, StoredNow, Stored, OriginalIsRow
<1> QED
  BY <1>1, SessionStored, PTL

-----------------------------------------------------------------------------
(* The events of an object, and the object that the checkpoint of scope i   *)
(* would leave.                                                             *)
InQueue(n, o) == \E i \in Positions(o.events) : o.events[i] = n
Undone(i, e) == LET x == checkpoints[i].entries[e] IN IF x = NoEntry THEN obj[e] ELSE x.obj

(* An event is numbered once, and until it is delivered or voided it waits; *)
(* none that is voided waits.                                               *)
Events ==
  /\ voided \intersect delivered = {}
  /\ voided \subseteq 1..nextEvent /\ delivered \subseteq 1..nextEvent
  /\ \A e \in Entities : \A n \in Nat : InQueue(n, obj[e]) => n \in 1..nextEvent /\ n \notin voided
  /\ \A n \in 1..nextEvent : n \notin voided \union delivered => \E e \in Entities : InQueue(n, obj[e])

(* And so it is after any open scope has failed: what waits then was raised *)
(* before that scope began, and everything that did is still waiting.       *)
ScopeEvents ==
  \A i \in 1..Len(frames) : LET next == frames[i].begin.next IN
    /\ next <= nextEvent
    /\ \A j \in 1..i : frames[j].begin.next <= next
    /\ \A n \in delivered : n <= next
    /\ \A e \in Entities : \A n \in Nat : InQueue(n, Undone(i, e)) => n \in 1..next /\ n \notin voided
    /\ \A n \in 1..next : n \notin voided \union delivered => \E e \in Entities : InQueue(n, Undone(i, e))

(* The entity a flush inserts stays tracked while its hook runs.            *)
Inserting == pc = "beforeInsert" => IsTracked(Head(todo))

EventInv == ScopesInv /\ Inserting /\ Covers /\ Events /\ ScopeEvents

(* What the steps do to the events, in seven ways.                         *)
SameEvents == UNCHANGED <<nextEvent, voided, delivered>>
Silent ==
  /\ SameEvents /\ UNCHANGED <<checkpoints, frames>>
  /\ \A e \in Entities : /\ obj'[e].events = obj[e].events
                         /\ Known(tracked', e) => Known(tracked, e)
Renews(e) == obj'[e].events = <<>> /\ Unreferenced(e)
Meets(e) ==
  /\ SameEvents /\ UNCHANGED frames
  /\ ~IsTracked(e) /\ (obj'[e].events = obj[e].events \/ Renews(e))
  /\ \A f \in Entities \ {e} : /\ obj'[f].events = obj[f].events
                               /\ Known(tracked', f) => Known(tracked, f)
  /\ \/ checkpoints' = checkpoints /\ ~Known(tracked', e)
     \/ /\ \E rec \in Records : Track(e, obj'[e], rec)
        /\ obj'[e] \in Objects
Raises(e) ==
  /\ IsTracked(e) /\ nextEvent' = nextEvent + 1 /\ UNCHANGED <<voided, delivered>>
  /\ UNCHANGED <<checkpoints, frames, tracked>>
  /\ obj'[e].events = Append(obj[e].events, nextEvent + 1)
  /\ \A f \in Entities \ {e} : obj'[f].events = obj[f].events
Enters(f) ==
  /\ SameEvents /\ UNCHANGED <<obj, tracked>>
  /\ f.begin = Snapshot /\ frames' = Append(frames, f)
  /\ checkpoints' = Append(checkpoints, NewCheckpoint)
Leaves ==
  /\ SameEvents /\ UNCHANGED <<obj, tracked>>
  /\ frames # <<>> /\ frames' = Pop(frames) /\ checkpoints' = Pop(checkpoints)
Voiding ==
  /\ frames # <<>> /\ frames' = Pop(frames) /\ checkpoints' = Pop(checkpoints)
  /\ RestoreFrom(LastOf(checkpoints)) /\ Voids(Top) /\ UNCHANGED <<nextEvent, delivered>>
Delivers ==
  /\ frames = <<>> /\ frames' = <<>> /\ UNCHANGED <<nextEvent, voided>>
  /\ \E D \in SUBSET Nat : \E e \in Entities :
       /\ delivered' = delivered \union D /\ \A n \in D : InQueue(n, obj[e])
       /\ \A f \in Entities \ {e} : obj'[f].events = obj[f].events
       /\ \/ obj'[e].events = obj[e].events
          \/ obj'[e].events = <<>> /\ \A n \in Nat : InQueue(n, obj[e]) => n \in D
Effected ==
  \/ Silent \/ Leaves \/ Voiding \/ Delivers \/ \E f \in Frames : Enters(f)
  \/ \E e \in Entities : Meets(e) \/ Raises(e)

(* The types of the events, in memory and in the checkpoints.              *)
LEMMA EventShapes ==
  ASSUME ScopesInv
  PROVE  /\ nextEvent \in Nat /\ voided \subseteq Nat /\ delivered \subseteq Nat
         /\ \A e \in Entities : obj[e].events \in Seq(Nat)
         /\ \A i \in 1..Len(frames) : frames[i].begin.next \in Nat
         /\ \A i \in 1..Len(frames), e \in Entities :
              checkpoints[i].entries[e] # NoEntry => checkpoints[i].entries[e].obj.events \in Seq(Nat)
<1>1. \A i \in 1..Len(frames) : checkpoints[i] \in Checkpoints /\ frames[i].begin \in Snapshots
  BY Shapes
<1>2. \A i \in 1..Len(frames), e \in Entities :
        checkpoints[i].entries[e] # NoEntry => checkpoints[i].entries[e].obj \in Objects
  BY <1>1 DEF Checkpoints, Entries
<1>3. \A o \in Objects : o.events \in Seq(Nat)
  BY DEF Objects
<1>4. \A e \in Entities : obj[e] \in Objects
  BY Shapes
<1>5. \A b \in Snapshots : b.next \in Nat
  BY DEF Snapshots
<1>6. nextEvent \in Nat /\ voided \subseteq Nat /\ delivered \subseteq Nat
  BY DEF ScopesInv, TypeOK, ControlTypeOK
<1> QED
  BY <1>1, <1>2, <1>3, <1>4, <1>5, <1>6

(* What raises, delivers and voids no event, tracks nothing and opens and  *)
(* ends no scope changes no queue.                                         *)
LEMMA SilentKeeps ==
  ASSUME EventInv, Silent
  PROVE  Covers' /\ Events' /\ ScopeEvents'
<1>1. \A e \in Entities, n \in Nat : InQueue(n, obj'[e]) <=> InQueue(n, obj[e])
  BY DEF Silent, InQueue
<1>2. \A i \in 1..Len(frames), e \in Entities, n \in Nat : InQueue(n, Undone(i, e)') <=> InQueue(n, Undone(i, e))
  BY <1>1 DEF Silent, Undone
<1>3. Covers'
  BY DEF EventInv, Covers, Silent, IsTracked, Known
<1>4. nextEvent \in Nat /\ \A i \in 1..Len(frames) : frames[i].begin.next \in Nat
  BY EventShapes DEF EventInv
<1>5. Events'
  BY <1>1, <1>4 DEF EventInv, Events, Silent, SameEvents
<1>6. ScopeEvents'
  <2>1. ASSUME NEW i \in 1..Len(frames), NEW n \in 1..frames[i].begin.next, n \notin voided \union delivered
        PROVE  \E e \in Entities : InQueue(n, Undone(i, e)')
    BY <1>2, <1>4, <2>1 DEF EventInv, ScopeEvents
  <2> QED
    BY <1>2, <2>1 DEF EventInv, ScopeEvents, Silent, SameEvents
<1> QED
  BY <1>3, <1>5, <1>6

(* Tracking an object adds it to the open checkpoints with the queue it    *)
(* has; an allocation only takes the place of an object whose events are   *)
(* all delivered.                                                          *)
LEMMA MeetKeeps ==
  ASSUME EventInv, NEW e \in Entities, Meets(e)
  PROVE  Covers' /\ Events' /\ ScopeEvents'
<1>1. nextEvent \in Nat /\ \A i \in 1..Len(frames) : frames[i].begin.next \in Nat
  BY EventShapes DEF EventInv
<1>2. \A n \in Nat : ~InQueue(n, obj'[e]) /\ InQueue(n, obj[e]) => n \in delivered
  <2>1. CASE obj'[e].events = obj[e].events
    BY <2>1 DEF InQueue
  <2>2. CASE Renews(e)
    BY <2>2 DEF Renews, Unreferenced, InQueue, EventInv, Events
  <2> QED
    BY <2>1, <2>2 DEF Meets
<1>3. \A n \in Nat : InQueue(n, obj'[e]) => InQueue(n, obj[e])
  <2>1. Len(<<>>) = 0
    OBVIOUS
  <2> QED
    BY <2>1 DEF Meets, Renews, InQueue, Positions
<1>4. \A f \in Entities \ {e} : \A n \in Nat : InQueue(n, obj'[f]) <=> InQueue(n, obj[f])
  BY DEF Meets, InQueue
<1>5. ASSUME NEW i \in 1..Len(frames)
      PROVE  /\ \A f \in Entities \ {e} : checkpoints'[i].entries[f] = checkpoints[i].entries[f]
             /\ checkpoints[i].entries[e] # NoEntry => checkpoints'[i].entries[e] = checkpoints[i].entries[e]
             /\ checkpoints[i].entries[e] = NoEntry =>
                  \/ checkpoints'[i].entries[e] = NoEntry /\ ~Known(tracked', e)
                  \/ checkpoints'[i].entries[e] # NoEntry /\ checkpoints'[i].entries[e].obj = obj'[e]
  <2>1. CASE checkpoints' = checkpoints /\ ~Known(tracked', e)
    BY <2>1
  <2>2. ASSUME NEW rec \in Records, Track(e, obj'[e], rec), obj'[e] \in Objects
        PROVE  /\ \A f \in Entities \ {e} : checkpoints'[i].entries[f] = checkpoints[i].entries[f]
               /\ checkpoints[i].entries[e] # NoEntry => checkpoints'[i].entries[e] = checkpoints[i].entries[e]
               /\ checkpoints[i].entries[e] = NoEntry =>
                  checkpoints'[i].entries[e] # NoEntry /\ checkpoints'[i].entries[e].obj = obj'[e]
    <3>1. PICK o \in Objects : o = obj'[e]
      BY <2>2
    <3>2. Track(e, o, rec)
      BY <2>2, <3>1
    <3>3. /\ \A f \in Entities \ {e} : checkpoints'[i].entries[f] = checkpoints[i].entries[f]
          /\ checkpoints'[i].entries[e] = IF checkpoints[i].entries[e] = NoEntry
                                          THEN Entry(FALSE, rec, o) ELSE checkpoints[i].entries[e]
      BY <3>2, TrackCaptures DEF EventInv
    <3>4. Entry(FALSE, rec, o) # NoEntry /\ Entry(FALSE, rec, o).obj = o
      BY EntriesDiffer
    <3> QED
      BY <3>1, <3>3, <3>4
  <2> QED
    BY <2>1, <2>2 DEF Meets
<1>6. ASSUME NEW i \in 1..Len(frames), checkpoints[i].entries[e] = NoEntry
      PROVE  \A j \in 1..Len(frames) : i < j => checkpoints[j].entries[e] = NoEntry
  BY <1>6 DEF EventInv, Covers
<1>7. Covers'
  <2>1. ASSUME NEW i \in 1..Len(frames), NEW f \in Entities, checkpoints'[i].entries[f] = NoEntry
        PROVE  /\ ~Known(tracked', f)
               /\ \A j \in 1..Len(frames) : i < j => checkpoints'[j].entries[f] = NoEntry
    <3>1. CASE f # e
      BY <1>5, <2>1, <3>1 DEF EventInv, Covers, Meets, IsTracked, Known
    <3>2. CASE f = e
      <4>1. checkpoints[i].entries[e] = NoEntry
        BY <1>5, <2>1, <3>2
      <4>2. ~Known(tracked', e)
        BY <1>5, <2>1, <3>2, <4>1
      <4>3. ASSUME NEW rec \in Records, Track(e, obj'[e], rec), obj'[e] \in Objects
            PROVE  FALSE
        <5>1. PICK o \in Objects : o = obj'[e]
          BY <4>3
        <5>2. Track(e, o, rec)
          BY <4>3, <5>1
        <5>3. checkpoints'[i].entries[e] = Entry(FALSE, rec, o)
          BY <4>1, <5>2, TrackCaptures DEF EventInv
        <5>4. Entry(FALSE, rec, o) # NoEntry
          BY EntriesDiffer
        <5> QED
          BY <2>1, <3>2, <5>3, <5>4
      <4>4. checkpoints' = checkpoints
        BY <4>3 DEF Meets
      <4> QED
        BY <1>6, <3>2, <4>1, <4>2, <4>4
    <3> QED
      BY <3>1, <3>2
  <2> QED
    BY <2>1 DEF Covers, Meets, IsTracked, Known
<1>8. Events'
  <2>1. ASSUME NEW n \in 1..nextEvent, n \notin voided \union delivered
        PROVE  \E f \in Entities : InQueue(n, obj'[f])
    <3>1. PICK f \in Entities : InQueue(n, obj[f])
      BY <2>1 DEF EventInv, Events
    <3> QED
      BY <1>2, <1>4, <2>1, <3>1
  <2> QED
    BY <1>1, <1>3, <1>4, <2>1 DEF EventInv, Events, Meets, SameEvents
<1>9. ASSUME NEW i \in 1..Len(frames), NEW f \in Entities, NEW n \in Nat
      PROVE  /\ InQueue(n, Undone(i, f)') => InQueue(n, Undone(i, f))
             /\ InQueue(n, Undone(i, f)) /\ n \notin delivered => InQueue(n, Undone(i, f)')
  <2>1. CASE f # e
    BY <1>4, <1>5, <2>1 DEF Undone
  <2>2. CASE f = e /\ checkpoints[i].entries[e] # NoEntry
    BY <1>5, <2>2 DEF Undone
  <2>3. CASE f = e /\ checkpoints[i].entries[e] = NoEntry
    <3>1. Undone(i, f) = obj[e] /\ Undone(i, f)' = obj'[e]
      BY <1>5, <2>3 DEF Undone
    <3> QED
      BY <1>2, <1>3, <3>1
  <2> QED
    BY <2>1, <2>2, <2>3
<1>10. ScopeEvents'
  <2>1. ASSUME NEW i \in 1..Len(frames), NEW n \in 1..frames[i].begin.next, n \notin voided \union delivered
        PROVE  \E f \in Entities : InQueue(n, Undone(i, f)')
    <3>1. PICK f \in Entities : InQueue(n, Undone(i, f))
      BY <2>1 DEF EventInv, ScopeEvents
    <3> QED
      BY <1>1, <1>9, <2>1, <3>1
  <2>2. ASSUME NEW i \in 1..Len(frames)
        PROVE  \A f \in Entities : \A n \in Nat :
                 InQueue(n, Undone(i, f)') => n \in 1..frames[i].begin.next /\ n \notin voided
    BY <1>9 DEF EventInv, ScopeEvents
  <2> QED
    BY <2>1, <2>2 DEF EventInv, ScopeEvents, Meets, SameEvents
<1> QED
  BY <1>7, <1>8, <1>10

(* A new event waits in the queue of a tracked entity, which every open    *)
(* checkpoint has an entry for: no failure brings it back.                 *)
LEMMA RaiseKeeps ==
  ASSUME EventInv, NEW e \in Entities, Raises(e)
  PROVE  Covers' /\ Events' /\ ScopeEvents'
<1>1. /\ nextEvent \in Nat /\ obj[e].events \in Seq(Nat) /\ nextEvent' = nextEvent + 1
      /\ \A i \in 1..Len(frames) : frames[i].begin.next \in Nat
  BY EventShapes DEF EventInv, Raises
<1>2. \A n \in Nat : InQueue(n, obj'[e]) <=> InQueue(n, obj[e]) \/ n = nextEvent + 1
  <2>1. PICK s \in Seq(Nat) : s = obj[e].events
    BY <1>1
  <2>2. PICK x \in Nat : x = nextEvent + 1
    BY <1>1
  <2>3. PICK t : t = Append(s, x) /\ t = obj'[e].events
    BY <2>1, <2>2 DEF Raises
  <2>4. /\ Len(t) = Len(s) + 1 /\ t[Len(s) + 1] = nextEvent + 1 /\ Len(s) \in Nat
        /\ \A i \in 1..Len(s) : t[i] = s[i]
    BY <2>2, <2>3, PushSeq
  <2>5. \A n \in Nat : (\E i \in 1..Len(t) : t[i] = n) <=> (\E i \in 1..Len(s) : s[i] = n) \/ n = nextEvent + 1
    BY <2>4
  <2> QED
    BY <2>1, <2>2, <2>3, <2>5 DEF InQueue, Positions
<1>3. \A f \in Entities \ {e} : \A n \in Nat : InQueue(n, obj'[f]) <=> InQueue(n, obj[f])
  BY DEF Raises, InQueue
<1>4. Covers'
  BY DEF EventInv, Covers, Raises, IsTracked
<1>5. Events'
  <2>1. ASSUME NEW n \in 1..(nextEvent + 1), n \notin voided \union delivered
        PROVE  \E f \in Entities : InQueue(n, obj'[f])
    <3>1. CASE n = nextEvent + 1
      BY <1>1, <1>2, <3>1
    <3>2. CASE n \in 1..nextEvent
      <4>1. PICK f \in Entities : InQueue(n, obj[f])
        BY <2>1, <3>2 DEF EventInv, Events
      <4> QED
        BY <1>2, <1>3, <4>1
    <3> QED
      BY <1>1, <3>1, <3>2
  <2>2. ASSUME NEW f \in Entities, NEW n \in Nat, InQueue(n, obj'[f])
        PROVE  n \in 1..(nextEvent + 1) /\ n \notin voided
    <3>1. CASE InQueue(n, obj[f])
      BY <1>1, <3>1 DEF EventInv, Events
    <3>2. CASE n = nextEvent + 1
      BY <1>1, <3>2 DEF EventInv, Events
    <3> QED
      BY <1>2, <1>3, <2>2, <3>1, <3>2
  <2>3. voided \subseteq 1..(nextEvent + 1) /\ delivered \subseteq 1..(nextEvent + 1)
    BY <1>1 DEF EventInv, Events
  <2> QED
    BY <1>1, <2>1, <2>2, <2>3 DEF EventInv, Events, Raises
<1>6. \A i \in 1..Len(frames), f \in Entities, n \in Nat : InQueue(n, Undone(i, f)') <=> InQueue(n, Undone(i, f))
  <2>1. \A i \in 1..Len(frames) : checkpoints[i].entries[e] # NoEntry
    BY DEF EventInv, Covers, Raises
  <2> QED
    BY <1>3, <2>1 DEF Undone, Raises
<1>7. ScopeEvents'
  <2>1. ASSUME NEW i \in 1..Len(frames), NEW n \in 1..frames[i].begin.next, n \notin voided \union delivered
        PROVE  \E f \in Entities : InQueue(n, Undone(i, f)')
    BY <1>1, <1>6, <2>1 DEF EventInv, ScopeEvents
  <2>2. ASSUME NEW i \in 1..Len(frames)
        PROVE  frames[i].begin.next <= nextEvent + 1
    BY <1>1 DEF EventInv, ScopeEvents
  <2> QED
    BY <1>1, <1>6, <2>1, <2>2 DEF EventInv, ScopeEvents, Raises
<1> QED
  BY <1>4, <1>5, <1>7

(* A scope remembers the queues it begins with, and the number of the last *)
(* event raised.                                                           *)
LEMMA EnterKeeps ==
  ASSUME EventInv, NEW f \in Frames, Enters(f)
  PROVE  Covers' /\ Events' /\ ScopeEvents'
<1>1. PICK n \in Nat : n = Len(frames)
  BY DEF EventInv, ScopesInv, TypeOK, ScopeTypeOK
<1>2. /\ Len(frames') = n + 1 /\ frames'[n + 1] = f
      /\ \A i \in 1..n : frames'[i] = frames[i]
  BY <1>1, PushSeq DEF EventInv, ScopesInv, TypeOK, ScopeTypeOK, Enters
<1>3. /\ checkpoints'[n + 1] = NewCheckpoint
      /\ \A i \in 1..n : checkpoints'[i] = checkpoints[i]
  <2>1. NewCheckpoint \in Checkpoints
    BY NowTypes DEF EventInv, ScopesInv
  <2> QED
    BY <1>1, <2>1, PushSeq DEF EventInv, ScopesInv, Nesting, TypeOK, MemoryTypeOK, Enters
<1>4. \A e \in Entities : /\ NewCheckpoint.entries[e] = NoEntry <=> ~IsTracked(e)
                          /\ IsTracked(e) => NewCheckpoint.entries[e].obj = obj[e]
  <2>1. \A e \in Entities : obj[e] \in Objects /\ tracked[e] \in Records
    BY DEF EventInv, ScopesInv, TypeOK, MemoryTypeOK
  <2>2. \A e \in Entities : /\ Entry(TRUE, tracked[e], obj[e]) # NoEntry
                            /\ Entry(TRUE, tracked[e], obj[e]).obj = obj[e]
    BY ZenonT(60), <2>1, EntriesDiffer
  <2> QED
    BY <2>2 DEF NewCheckpoint
<1>5. f.begin.next = nextEvent /\ nextEvent \in Nat /\ \A i \in 1..n : frames[i].begin.next \in Nat
  BY <1>1, EventShapes DEF EventInv, Enters, Snapshot
<1>6. Covers'
  <2>1. ASSUME NEW i \in 1..(n + 1), NEW e \in Entities, checkpoints'[i].entries[e] = NoEntry
        PROVE  /\ ~IsTracked(e)
               /\ \A j \in 1..(n + 1) : i < j => checkpoints'[j].entries[e] = NoEntry
    <3>1. CASE i = n + 1
      BY <1>1, <1>3, <1>4, <2>1, <3>1
    <3>2. CASE i \in 1..n
      <4>1. ~IsTracked(e) /\ \A j \in 1..n : i < j => checkpoints[j].entries[e] = NoEntry
        BY <1>1, <1>3, <2>1, <3>2 DEF EventInv, Covers
      <4>2. ASSUME NEW j \in 1..(n + 1), i < j PROVE checkpoints'[j].entries[e] = NoEntry
        <5>1. CASE j = n + 1
          BY <1>3, <1>4, <4>1, <5>1
        <5>2. CASE j \in 1..n
          BY <1>3, <4>1, <4>2, <5>2
        <5> QED
          BY <1>1, <5>1, <5>2
      <4> QED
        BY <4>1, <4>2
    <3> QED
      BY <1>1, <3>1, <3>2
  <2>2. tracked' = tracked /\ 1..Len(frames') = 1..(n + 1)
    BY <1>2 DEF Enters
  <2> QED
    BY <2>1, <2>2 DEF Covers, IsTracked
<1>7. Events'
  BY DEF EventInv, Events, Enters, SameEvents
<1>8. \A i \in 1..n, e \in Entities : Undone(i, e)' = Undone(i, e)
  BY <1>3 DEF Undone, Enters
<1>9. \A e \in Entities : Undone(n + 1, e)' = obj[e]
  BY <1>3, <1>4 DEF Undone, Enters
<1>10. ScopeEvents'
  <2>1. ASSUME NEW i \in 1..n
        PROVE  LET next == frames'[i].begin.next IN
                 /\ next <= nextEvent
                 /\ \A j \in 1..i : frames'[j].begin.next <= next
                 /\ \A k \in delivered : k <= next
                 /\ \A e \in Entities : \A k \in Nat : InQueue(k, Undone(i, e)') => k \in 1..next /\ k \notin voided
                 /\ \A k \in 1..next : k \notin voided \union delivered => \E e \in Entities : InQueue(k, Undone(i, e)')
    BY <1>1, <1>2, <1>8 DEF EventInv, ScopeEvents
  <2>2. /\ \A j \in 1..(n + 1) : frames'[j].begin.next <= nextEvent
        /\ \A k \in delivered : k <= nextEvent
        /\ \A e \in Entities : \A k \in Nat : InQueue(k, obj[e]) => k \in 1..nextEvent /\ k \notin voided
        /\ \A k \in 1..nextEvent : k \notin voided \union delivered => \E e \in Entities : InQueue(k, obj[e])
    <3>1. \A j \in 1..(n + 1) : frames'[j].begin.next <= nextEvent
      <4>1. \A j \in 1..n : frames[j].begin.next <= nextEvent
        BY <1>1 DEF EventInv, ScopeEvents
      <4>2. nextEvent <= nextEvent
        BY <1>5
      <4>3. \A j \in 1..(n + 1) : j \in 1..n \/ j = n + 1
        BY <1>1
      <4> QED
        BY <1>2, <1>5, <4>1, <4>2, <4>3
    <3>2. \A k \in delivered : k <= nextEvent
      BY <1>5 DEF EventInv, Events
    <3> QED
      BY <3>1, <3>2 DEF EventInv, Events
  <2>3. LET next == frames'[n + 1].begin.next IN
          /\ next <= nextEvent
          /\ \A j \in 1..(n + 1) : frames'[j].begin.next <= next
          /\ \A k \in delivered : k <= next
          /\ \A e \in Entities : \A k \in Nat : InQueue(k, Undone(n + 1, e)') => k \in 1..next /\ k \notin voided
          /\ \A k \in 1..next : k \notin voided \union delivered => \E e \in Entities : InQueue(k, Undone(n + 1, e)')
    BY <1>2, <1>5, <1>9, <2>2
  <2>4. \A i \in 1..(n + 1) : i \in 1..n \/ i = n + 1
    BY <1>1
  <2> QED
    BY <1>2, <2>1, <2>3, <2>4 DEF ScopeEvents, Enters, SameEvents
<1> QED
  BY <1>6, <1>7, <1>10

(* A scope that succeeds leaves its events to the scope around it.         *)
LEMMA LeaveKeeps ==
  ASSUME EventInv, Leaves
  PROVE  Covers' /\ Events' /\ ScopeEvents'
<1>1. PICK n \in Nat \ {0} : n = Len(frames)
  BY TopKnown DEF EventInv, Leaves
<1>2. Len(frames') = n - 1 /\ \A i \in 1..(n - 1) : frames'[i] = frames[i]
  BY <1>1, PopSeq DEF EventInv, ScopesInv, TypeOK, ScopeTypeOK, Leaves
<1>3. \A i \in 1..(n - 1) : checkpoints'[i] = checkpoints[i]
  BY ZenonT(60), <1>1, PopSeq, TopKnown DEF EventInv, ScopesInv, TypeOK, MemoryTypeOK, Leaves
<1>4. Covers'
  <2>1. ASSUME NEW i \in 1..(n - 1), NEW e \in Entities, checkpoints'[i].entries[e] = NoEntry
        PROVE  ~IsTracked(e) /\ \A j \in 1..(n - 1) : i < j => checkpoints'[j].entries[e] = NoEntry
    BY <1>1, <1>3, <2>1 DEF EventInv, Covers
  <2>2. tracked' = tracked /\ 1..Len(frames') = 1..(n - 1)
    BY <1>2 DEF Leaves
  <2> QED
    BY <2>1, <2>2 DEF Covers, IsTracked
<1>5. Events'
  BY DEF EventInv, Events, Leaves, SameEvents
<1>6. \A i \in 1..(n - 1), e \in Entities : Undone(i, e)' = Undone(i, e)
  BY <1>3 DEF Undone, Leaves
<1>7. ScopeEvents'
  <2>1. /\ 1..Len(frames') = 1..(n - 1)
        /\ \A i \in 1..(n - 1) : frames'[i] = frames[i] /\ \A j \in 1..i : frames'[j] = frames[j]
    BY <1>1, <1>2
  <2>2. UNCHANGED <<nextEvent, voided, delivered>>
    BY DEF Leaves, SameEvents
  <2>3. ASSUME NEW i \in 1..Len(frames')
        PROVE  LET next == frames'[i].begin.next IN
                 /\ next <= nextEvent
                 /\ \A j \in 1..i : frames'[j].begin.next <= next
                 /\ \A k \in delivered : k <= next
                 /\ \A e \in Entities : \A k \in Nat : InQueue(k, Undone(i, e)') => k \in 1..next /\ k \notin voided
                 /\ \A k \in 1..next : k \notin voided \union delivered => \E e \in Entities : InQueue(k, Undone(i, e)')
    <3>1. PICK f : f = frames[i]
      OBVIOUS
    <3>2. i \in 1..(n - 1) /\ frames'[i] = f /\ \A j \in 1..i : frames'[j] = frames[j]
      BY <2>1, <3>1
    <3>3. \A e \in Entities : Undone(i, e)' = Undone(i, e)
      BY <1>6, <3>2
    <3>4. /\ f.begin.next <= nextEvent
          /\ \A j \in 1..i : frames[j].begin.next <= f.begin.next
          /\ \A k \in delivered : k <= f.begin.next
          /\ \A e \in Entities : \A k \in Nat :
               InQueue(k, Undone(i, e)) => k \in 1..f.begin.next /\ k \notin voided
          /\ \A k \in 1..f.begin.next :
               k \notin voided \union delivered => \E e \in Entities : InQueue(k, Undone(i, e))
      <4>1. i \in 1..Len(frames)
        BY <1>1, <3>2
      <4> QED
        BY <3>1, <4>1 DEF EventInv, ScopeEvents
    <3> QED
      BY <3>2, <3>3, <3>4
  <2> QED
    BY <2>2, <2>3 DEF ScopeEvents
<1> QED
  BY <1>4, <1>5, <1>7

(* A scope that fails voids the events raised in it and brings back the    *)
(* queues that it began with, in which all those that are not voided are   *)
(* still waiting.                                                          *)
LEMMA VoidKeeps ==
  ASSUME EventInv, Voiding
  PROVE  Covers' /\ Events' /\ ScopeEvents'
<1>1. PICK n \in Nat \ {0} : n = Len(frames)
  BY TopKnown DEF EventInv, Voiding
<1>2. Len(frames') = n - 1 /\ \A i \in 1..(n - 1) : frames'[i] = frames[i]
  BY <1>1, PopSeq DEF EventInv, ScopesInv, TypeOK, ScopeTypeOK, Voiding
<1>3. \A i \in 1..(n - 1) : checkpoints'[i] = checkpoints[i]
  BY ZenonT(90), <1>1, PopSeq, TopKnown DEF EventInv, ScopesInv, TypeOK, MemoryTypeOK, Voiding
<1>4. LastOf(checkpoints) = checkpoints[n] /\ Top = frames[n]
  BY <1>1, TopKnown DEF EventInv, LastOf
<1>5. PICK b \in Nat : b = frames[n].begin.next
  BY <1>1, EventShapes DEF EventInv
<1>6. /\ nextEvent' = nextEvent /\ delivered' = delivered /\ nextEvent \in Nat
      /\ voided' = voided \union ((b + 1)..nextEvent)
      /\ \A i \in 1..(n - 1) : frames[i].begin.next \in Nat
  BY <1>1, <1>4, <1>5, EventShapes DEF EventInv, Voiding, Voids
<1>7. \A e \in Entities :
        /\ obj'[e] = Undone(n, e)
        /\ checkpoints[n].entries[e] = NoEntry => obj'[e] = obj[e] /\ tracked'[e] = tracked[e]
  BY <1>4 DEF Voiding, RestoreFrom, Undone
<1>8. Covers'
  <2>1. ASSUME NEW i \in 1..(n - 1), NEW e \in Entities, checkpoints[i].entries[e] = NoEntry
        PROVE  tracked'[e] = tracked[e] /\ ~IsTracked(e)
               /\ \A j \in 1..(n - 1) : i < j => checkpoints[j].entries[e] = NoEntry
    <3>1. checkpoints[n].entries[e] = NoEntry
      BY <1>1, <2>1 DEF EventInv, Covers
    <3> QED
      BY <1>1, <1>7, <2>1, <3>1 DEF EventInv, Covers
  <2> QED
    BY SMTT(90), <1>1, <1>2, <1>3, <2>1 DEF Covers, IsTracked
<1>9. /\ b <= nextEvent
      /\ \A k \in delivered : k <= b
      /\ \A e \in Entities : \A k \in Nat : InQueue(k, obj'[e]) => k \in 1..b /\ k \notin voided
      /\ \A k \in 1..b : k \notin voided \union delivered => \E e \in Entities : InQueue(k, obj'[e])
  BY <1>1, <1>5, <1>7 DEF EventInv, ScopeEvents
<1>10. Events'
  <2>1. ASSUME NEW k \in voided'
        PROVE  k \in 1..nextEvent /\ k \notin delivered
    <3>1. CASE k \in voided
      BY <3>1 DEF EventInv, Events
    <3>2. CASE k \in (b + 1)..nextEvent
      <4>1. k \in Nat /\ b < k
        BY <1>5, <3>2
      <4>2. k \notin delivered
        BY <1>9, <4>1, <1>5
      <4> QED
        BY <1>5, <1>6, <3>2, <4>2
    <3> QED
      BY <1>6, <2>1, <3>1, <3>2
  <2>2. delivered \subseteq 1..nextEvent
    BY DEF EventInv, Events
  <2>3. ASSUME NEW e \in Entities, NEW k \in Nat, InQueue(k, obj'[e])
        PROVE  k \in 1..nextEvent /\ k \notin voided'
    <3>1. k \in 1..b /\ k \notin voided
      BY <1>9, <2>3
    <3> QED
      BY <1>5, <1>6, <1>9, <3>1
  <2>4. ASSUME NEW k \in 1..nextEvent, k \notin voided' \union delivered
        PROVE  \E e \in Entities : InQueue(k, obj'[e])
    BY <1>5, <1>6, <1>9, <2>4
  <2> QED
    BY <1>6, <2>1, <2>2, <2>3, <2>4 DEF Events
<1>11. \A i \in 1..(n - 1), e \in Entities : Undone(i, e)' = Undone(i, e)
  <2>1. ASSUME NEW i \in 1..(n - 1), NEW e \in Entities, checkpoints[i].entries[e] = NoEntry
        PROVE  obj'[e] = obj[e]
    BY <1>1, <1>7, <2>1 DEF EventInv, Covers
  <2> QED
    BY <1>3, <2>1 DEF Undone
<1>12. ScopeEvents'
  <2>1. \A i \in 1..(n - 1) : frames[i].begin.next <= b
    BY <1>1, <1>5 DEF EventInv, ScopeEvents
  <2>2. ASSUME NEW i \in 1..(n - 1), NEW e \in Entities, NEW k \in Nat, InQueue(k, Undone(i, e)')
        PROVE  k \in 1..frames[i].begin.next /\ k \notin voided'
    <3>1. k \in 1..frames[i].begin.next /\ k \notin voided
      BY <1>1, <1>11, <2>2 DEF EventInv, ScopeEvents
    <3> QED
      BY <1>5, <1>6, <2>1, <3>1
  <2>3. ASSUME NEW i \in 1..(n - 1), NEW k \in 1..frames[i].begin.next, k \notin voided' \union delivered
        PROVE  \E e \in Entities : InQueue(k, Undone(i, e)')
    <3>1. k \notin voided \union delivered
      BY <1>6, <2>3
    <3>2. PICK e \in Entities : InQueue(k, Undone(i, e))
      BY <1>1, <3>1 DEF EventInv, ScopeEvents
    <3> QED
      BY <1>11, <3>2
  <2>4. \A i \in 1..(n - 1) : /\ frames[i].begin.next <= nextEvent
                              /\ \A j \in 1..i : frames[j].begin.next <= frames[i].begin.next
                              /\ \A k \in delivered : k <= frames[i].begin.next
    BY <1>1 DEF EventInv, ScopeEvents
  <2>5. /\ 1..Len(frames') = 1..(n - 1)
        /\ \A i \in 1..(n - 1) : frames'[i] = frames[i] /\ \A j \in 1..i : frames'[j] = frames[j]
    BY <1>1, <1>2
  <2>6. ASSUME NEW i \in 1..Len(frames')
        PROVE  LET next == frames'[i].begin.next IN
                 /\ next <= nextEvent'
                 /\ \A j \in 1..i : frames'[j].begin.next <= next
                 /\ \A k \in delivered' : k <= next
                 /\ \A e \in Entities : \A k \in Nat : InQueue(k, Undone(i, e)') => k \in 1..next /\ k \notin voided'
                 /\ \A k \in 1..next : k \notin voided' \union delivered' => \E e \in Entities : InQueue(k, Undone(i, e)')
    BY <1>6, <2>2, <2>3, <2>4, <2>5
  <2> QED
    BY <2>6 DEF ScopeEvents
<1> QED
  BY <1>8, <1>10, <1>12

(* Events are delivered outside of every scope, from a queue, and a queue  *)
(* is emptied only of what has been delivered.                             *)
LEMMA DeliverKeeps ==
  ASSUME EventInv, Delivers
  PROVE  Covers' /\ Events' /\ ScopeEvents'
<1>1. PICK D \in SUBSET Nat, e \in Entities :
        /\ delivered' = delivered \union D /\ \A n \in D : InQueue(n, obj[e])
        /\ \A f \in Entities \ {e} : obj'[f].events = obj[f].events
        /\ \/ obj'[e].events = obj[e].events
           \/ obj'[e].events = <<>> /\ \A n \in Nat : InQueue(n, obj[e]) => n \in D
  BY DEF Delivers
<1>2. Len(frames') = 0
  BY DEF Delivers
<1>3. Covers' /\ ScopeEvents'
  BY <1>2 DEF Covers, ScopeEvents
<1>4. Events'
  <2>1. \A n \in D : n \in 1..nextEvent /\ n \notin voided
    BY <1>1 DEF EventInv, Events
  <2>2. \A f \in Entities \ {e} : \A n \in Nat : InQueue(n, obj'[f]) <=> InQueue(n, obj[f])
    BY <1>1 DEF InQueue
  <2>3. Len(<<>>) = 0
    OBVIOUS
  <2>4. \A n \in Nat : /\ InQueue(n, obj'[e]) => InQueue(n, obj[e])
                       /\ InQueue(n, obj[e]) => InQueue(n, obj'[e]) \/ n \in D
    BY <1>1, <2>3 DEF InQueue, Positions
  <2>5. ASSUME NEW n \in 1..nextEvent, n \notin voided \union delivered \union D
        PROVE  \E f \in Entities : InQueue(n, obj'[f])
    <3>1. PICK f \in Entities : InQueue(n, obj[f])
      BY <2>5 DEF EventInv, Events
    <3>2. nextEvent \in Nat
      BY EventShapes DEF EventInv
    <3> QED
      BY <2>2, <2>4, <2>5, <3>1, <3>2
  <2> QED
    BY <1>1, <2>1, <2>2, <2>4, <2>5 DEF EventInv, Events, Delivers
<1> QED
  BY <1>3, <1>4

(* Every operation of the session does one of these seven things to the    *)
(* events.                                                                 *)
LEMMA EffectedStep == Orderly /\ EventInv /\ [Next]_vars => Effected
<1> SUFFICES ASSUME Orderly /\ EventInv, [Next]_vars PROVE Effected
  OBVIOUS
<1> USE SessionAssumption DEF SessionAssumption
<1>1. ASSUME NEW e \in Entities, PersistNew(e)
      PROVE  Effected
  <2>1. obj[e] \in Objects /\ obj[e].val \in Vals
    BY Shapes DEF EventInv, Objects
  <2>2. PICK rec \in Records : Track(e, obj[e], rec)
    BY <1>1, <2>1 DEF PersistNew, Records
  <2>3. obj' = obj /\ tracked' = [tracked EXCEPT ![e] = rec]
    BY <1>1, <2>2 DEF PersistNew, Track
  <2>4. \A f \in Entities \ {e} : tracked'[f] = tracked[f]
    BY <2>3 DEF EventInv, ScopesInv, TypeOK, MemoryTypeOK
  <2>5. Meets(e)
    BY <1>1, <2>1, <2>2, <2>3, <2>4 DEF PersistNew, Meets, SameEvents, history, control, Known
  <2> QED
    BY <2>5 DEF Effected
<1>2. ASSUME NEW e \in Entities, PersistRemoved(e)
      PROVE  Effected
  <2>1. \A f \in Entities : f # e => tracked'[f] = tracked[f]
    BY <1>2 DEF PersistRemoved, EventInv, ScopesInv, TypeOK, MemoryTypeOK
  <2>2. IsTracked(e)
    BY <1>2 DEF PersistRemoved, IsTracked
  <2>3. Silent
    BY <1>2, <2>1, <2>2
       DEF PersistRemoved, Silent, SameEvents, IsTracked, Known, history, control
  <2> QED
    BY <2>3 DEF Effected
<1>3. ASSUME NEW e \in Entities, Remove(e)
      PROVE  Effected
  <2>1. \A f \in Entities : f # e => tracked'[f] = tracked[f]
    BY <1>3 DEF Remove, EventInv, ScopesInv, TypeOK, MemoryTypeOK
  <2>2. IsTracked(e)
    BY <1>3 DEF Remove, IsTracked
  <2>3. Silent
    BY <1>3, <2>1, <2>2 DEF Remove, Silent, SameEvents, IsTracked, Known, history, control
  <2> QED
    BY <2>3 DEF Effected
<1>4. ASSUME NEW e \in Entities, Raise(e)
      PROVE  Effected
  <2>1. /\ obj'[e].events = Append(obj[e].events, nextEvent + 1)
        /\ \A f \in Entities \ {e} : obj'[f].events = obj[f].events
    BY <1>4 DEF Raise, EventInv, ScopesInv, TypeOK, MemoryTypeOK, Objects
  <2>2. Raises(e)
    BY <1>4, <2>1 DEF Raise, Raises, control, uow
  <2> QED
    BY <2>2 DEF Effected
<1>5. ASSUME NEW e \in Entities, NEW v \in Vals, Mutate(e, v)
      PROVE  Effected
  <2>1. \A f \in Entities : obj'[f].events = obj[f].events
    BY <1>5 DEF Mutate, EventInv, ScopesInv, TypeOK, MemoryTypeOK, Objects
  <2>2. Silent
    BY <1>5, <2>1 DEF Mutate, Silent, SameEvents, Known, history, control, uow
  <2> QED
    BY <2>2 DEF Effected
<1>6. ASSUME NEW e \in Entities, NEW v \in Vals, Allocate(e, v)
      PROVE  Effected
  <2>1. obj'[e].events = <<>> /\ \A f \in Entities \ {e} : obj'[f] = obj[f]
    BY <1>6 DEF Allocate, EventInv, ScopesInv, TypeOK, MemoryTypeOK
  <2>2. Meets(e)
    BY <1>6, <2>1
       DEF Allocate, Meets, Renews, Unreferenced, IsTracked, SameEvents, Known, history,
           control, uow
  <2> QED
    BY <2>2 DEF Effected
<1>7. ASSUME NEW e \in Entities, NEW k \in Keys, FindRow(e, k)
      PROVE  Effected
  <2>1. PICK o : /\ o = [pk |-> k, val |-> rows[k], events |-> <<>>]
                 /\ obj' = [obj EXCEPT ![e] = o]
                 /\ Track(e, o, [status |-> "Managed", orig |-> rows[k]])
    BY <1>7 DEF FindRow
  <2>2. rows[k] \in Vals
    BY <1>7 DEF FindRow, EventInv, ScopesInv, TypeOK, DbTypeOK, Table
  <2>3. o \in Objects /\ o.events = <<>> /\ [status |-> "Managed", orig |-> rows[k]] \in Records
    BY <2>1, <2>2, EmptySeq DEF Objects, Records
  <2>4. obj'[e] = o /\ \A f \in Entities \ {e} : obj'[f] = obj[f] /\ tracked'[f] = tracked[f]
    BY <2>1 DEF Track, EventInv, ScopesInv, TypeOK, MemoryTypeOK
  <2>5. Meets(e)
    BY <1>7, <2>1, <2>3, <2>4
       DEF FindRow, Meets, Renews, Unreferenced, SameEvents, Known, history, control
  <2> QED
    BY <2>5 DEF Effected
<1>8. CASE RawFlush
  <2>1. Silent
    BY <1>8 DEF RawFlush, StartFlush, db, uow, txState, history, Silent, SameEvents, Known
  <2> QED
    BY <2>1 DEF Effected
<1>9. CASE FlushNext
  <2>1. Silent
    BY <1>9 DEF FlushNext, db, uow, txState, history, Silent, SameEvents, Known
  <2> QED
    BY <2>1 DEF Effected
<1>10. CASE InsertRow
  <2>1. todo # <<>> /\ Head(todo) \in Entities
    BY <1>10, TodoKnown DEF InsertRow, EventInv, ScopesInv, Phases, HookAt
  <2>2. PICK e \in Entities : e = Head(todo)
    BY <2>1
  <2>3. IsTracked(e)
    BY <1>10, <2>2 DEF InsertRow, EventInv, Inserting
  <2>4. PICK k \in Keys : /\ obj' = [obj EXCEPT ![e].pk = k]
                         /\ tracked' = [tracked EXCEPT ![e] = [status |-> "Managed", orig |-> obj[e].val]]
    BY <1>10, <2>2 DEF InsertRow
  <2>5. \A f \in Entities : obj'[f].events = obj[f].events /\ (f # e => tracked'[f] = tracked[f])
    BY <2>4 DEF EventInv, ScopesInv, TypeOK, MemoryTypeOK, Objects
  <2>6. Silent
    BY <1>10, <2>3, <2>5 DEF InsertRow, Executed, Silent, SameEvents, Known, IsTracked, history
  <2> QED
    BY <2>6 DEF Effected
<1>11. CASE UpdateRow
  <2>1. todo # <<>> /\ Head(todo) \in Entities
    BY <1>11, TodoKnown DEF UpdateRow, EventInv, ScopesInv, Phases, HookAt
  <2>2. PICK e \in Entities : e = Head(todo)
    BY <2>1
  <2>3. tracked' = [tracked EXCEPT ![e].orig = obj[e].val]
    BY <1>11, <2>2 DEF UpdateRow
  <2>4. \A f \in Entities : tracked'[f].status = tracked[f].status
    BY <2>3 DEF EventInv, ScopesInv, TypeOK, MemoryTypeOK, Records
  <2>5. Silent
    BY <1>11, <2>4 DEF UpdateRow, Executed, Silent, SameEvents, Known, history
  <2> QED
    BY <2>5 DEF Effected
<1>12. CASE DeleteRow
  <2>1. todo # <<>> /\ Head(todo) \in Entities
    BY <1>12, TodoKnown DEF DeleteRow, EventInv, ScopesInv, Phases, HookAt
  <2>2. PICK e \in Entities : e = Head(todo)
    BY <2>1
  <2>3. tracked' = [tracked EXCEPT ![e] = Untracked]
    BY <1>12, <2>2 DEF DeleteRow
  <2>4. \A f \in Entities : tracked'[f] = IF f = e THEN Untracked ELSE tracked[f]
    BY <2>3 DEF EventInv, ScopesInv, TypeOK, MemoryTypeOK
  <2>5. Silent
    BY <1>12, <2>4 DEF DeleteRow, Executed, Silent, SameEvents, Known, Untracked, history
  <2> QED
    BY <2>5 DEF Effected
<1>13. CASE FlushFails
  <2>1. Silent
    BY <1>13 DEF FlushFails, Throw, db, uow, txState, history, Silent, SameEvents, Known
  <2> QED
    BY <2>1 DEF Effected
<1>14. CASE AfterHookReturns
  <2>1. Silent
    BY <1>14 DEF AfterHookReturns, db, uow, txState, history, Silent, SameEvents, Known
  <2> QED
    BY <2>1 DEF Effected
<1>15. CASE FlushDone
  <2>1. Silent
    BY <1>15 DEF FlushDone, StartFlush, db, uow, txState, history, Silent, SameEvents, Known
  <2> QED
    BY <2>1 DEF Effected
<1>16. CASE CommitBegins
  <2>1. Frame("commit", TRUE, 0) \in Frames
    <3>1. 0 \in Nat /\ TRUE \in BOOLEAN /\ "commit" \in {"commit", "scope"} /\ TypeOK
      BY DEF EventInv, ScopesInv, TypeOK, ScopeTypeOK
    <3> QED
      BY <3>1, FrameType
  <2>2. CASE Open("commit", TRUE, 0)
    <3>1. Enters(Frame("commit", TRUE, 0))
      BY <1>16, <2>2 DEF CommitBegins, Open, Enters, SameEvents, Frame
    <3> QED
      BY <2>1, <3>1 DEF Effected
  <2> QED
    BY <1>16, <2>2 DEF CommitBegins
<1>17. CASE ScopeBegins
  <2>1. Frame("scope", TRUE, 0) \in Frames
    <3>1. 0 \in Nat /\ TRUE \in BOOLEAN /\ "scope" \in {"commit", "scope"} /\ TypeOK
      BY DEF EventInv, ScopesInv, TypeOK, ScopeTypeOK
    <3> QED
      BY <3>1, FrameType
  <2>2. CASE Open("scope", TRUE, 0)
    <3>1. Enters(Frame("scope", TRUE, 0))
      BY <1>17, <2>2 DEF ScopeBegins, Open, Enters, SameEvents, Frame
    <3> QED
      BY <2>1, <3>1 DEF Effected
  <2>3. CASE UNCHANGED <<obj, uow, idmap, frames, history>>
    <3>1. Silent
      BY <1>17, <2>3 DEF ScopeBegins, Silent, SameEvents, Known, uow, history
    <3> QED
      BY <3>1 DEF Effected
  <2> QED
    BY <1>17, <2>2, <2>3 DEF ScopeBegins
<1>18. CASE InnerScopeBegins
  <2>1. Frame("scope", FALSE, spCounter + 1) \in Frames
    <3>1. spCounter + 1 \in Nat /\ FALSE \in BOOLEAN /\ "scope" \in {"commit", "scope"} /\ TypeOK
      BY DEF EventInv, ScopesInv, TypeOK, ScopeTypeOK
    <3> QED
      BY <3>1, FrameType
  <2>2. CASE Open("scope", FALSE, spCounter + 1)
    <3>1. Enters(Frame("scope", FALSE, spCounter + 1))
      BY <1>18, <2>2 DEF InnerScopeBegins, Open, Enters, SameEvents, Frame
    <3> QED
      BY <2>1, <3>1 DEF Effected
  <2>3. CASE UNCHANGED <<obj, uow, idmap, frames, history>>
    <3>1. Silent
      BY <1>18, <2>3 DEF InnerScopeBegins, Silent, SameEvents, Known, uow, history
    <3> QED
      BY <3>1 DEF Effected
  <2> QED
    BY <1>18, <2>2, <2>3 DEF InnerScopeBegins
<1>19. CASE CallbackReturns
  <2>1. Silent
    BY <1>19
       DEF CallbackReturns, StartFlush, Throw, db, uow, txState, history, Silent, SameEvents,
           Known
  <2> QED
    BY <2>1 DEF Effected
<1>20. CASE CallbackThrows
  <2>1. Silent
    BY <1>20 DEF CallbackThrows, Throw, db, uow, txState, history, Silent, SameEvents, Known
  <2> QED
    BY <2>1 DEF Effected
<1>21. CASE FinishOutermost
  <2>1. frames # <<>> /\ checkpoints # <<>>
    BY <1>21, TopKnown DEF FinishOutermost, EventInv, ScopesInv, Phases
  <2>2. Leaves
    BY <1>21, <2>1 DEF FinishOutermost, CommitCheckpoint, Leaves, SameEvents, history
  <2> QED
    BY <2>2 DEF Effected
<1>22. CASE FinishInner
  <2>1. frames # <<>> /\ checkpoints # <<>>
    BY <1>22, TopKnown DEF FinishInner, EventInv, ScopesInv, Phases
  <2>2. Leaves
    BY <1>22, <2>1 DEF FinishInner, CommitCheckpoint, Leaves, SameEvents, history
  <2> QED
    BY <2>2 DEF Effected
<1>23. CASE FinishFails
  <2>1. Silent
    BY <1>23 DEF FinishFails, Top, Throw, db, uow, txState, history, Silent, SameEvents, Known
  <2> QED
    BY <2>1 DEF Effected
<1>24. CASE RawFlushThrows
  <2>1. Silent
    BY <1>24 DEF RawFlushThrows, db, uow, txState, history, Silent, SameEvents, Known
  <2> QED
    BY <2>1 DEF Effected
<1>25. CASE CommitUnwinds
  <2>1. frames # <<>>
    BY <1>25 DEF CommitUnwinds, EventInv, ScopesInv, Phases
  <2>2. checkpoints # <<>>
    BY <2>1, TopKnown DEF EventInv
  <2>3. Voiding
    BY <1>25, <2>1, <2>2 DEF CommitUnwinds, Unwind, RollbackCheckpoint, Voiding
  <2> QED
    BY <2>3 DEF Effected
<1>26. CASE ScopeUnwinds
  <2>1. frames # <<>>
    BY <1>26 DEF ScopeUnwinds, EventInv, ScopesInv, Phases
  <2>2. checkpoints # <<>>
    BY <2>1, TopKnown DEF EventInv
  <2>3. Voiding
    BY <1>26, <2>1, <2>2 DEF ScopeUnwinds, Unwind, RollbackCheckpoint, Voiding
  <2> QED
    BY <2>3 DEF Effected
<1>27. CASE InnerScopeUnwinds
  <2>1. frames # <<>>
    BY <1>27 DEF InnerScopeUnwinds, EventInv, ScopesInv, Phases
  <2>2. checkpoints # <<>>
    BY <2>1, TopKnown DEF EventInv
  <2>3. Voiding
    BY <1>27, <2>1, <2>2 DEF InnerScopeUnwinds, Unwind, RollbackCheckpoint, Voiding
  <2> QED
    BY <2>3 DEF Effected
<1>28. CASE DispatchNext
  <2>1. todo # <<>> /\ Head(todo) \in Entities /\ frames = <<>>
    BY <1>28, TodoKnown DEF DispatchNext, EventInv, ScopesInv, Phases
  <2>2. PICK e \in Entities : e = Head(todo)
    BY <2>1
  <2>3. CASE ~IsTracked(e)
    <3>1. Silent
      BY <1>28, <2>2, <2>3 DEF DispatchNext, Silent, SameEvents, Known, uow
    <3> QED
      BY <3>1 DEF Effected
  <2>4. CASE IsTracked(e)
    <3>1. PICK D : D = {obj[e].events[i] : i \in Positions(obj[e].events)}
      OBVIOUS
    <3>2. /\ delivered' = delivered \union D /\ obj' = [obj EXCEPT ![e].events = <<>>]
          /\ UNCHANGED <<frames, nextEvent, voided>>
      BY <1>28, <2>2, <2>4, <3>1 DEF DispatchNext
    <3>3. D \in SUBSET Nat
      BY <3>1, EventTypes DEF EventInv, ScopesInv
    <3>4. \A n : n \in D <=> InQueue(n, obj[e])
      BY <3>1 DEF InQueue
    <3>5. /\ obj'[e].events = <<>>
          /\ \A f \in Entities \ {e} : obj'[f].events = obj[f].events
      BY <3>2 DEF EventInv, ScopesInv, TypeOK, MemoryTypeOK, Objects
    <3>6. Delivers
      BY <2>1, <3>2, <3>3, <3>4, <3>5 DEF Delivers
    <3> QED
      BY <3>6 DEF Effected
  <2> QED
    BY <2>3, <2>4
<1>29. CASE HandlerThrows
  <2>1. todo # <<>> /\ Head(todo) \in Entities /\ frames = <<>>
    BY <1>29, TodoKnown DEF HandlerThrows, EventInv, ScopesInv, Phases
  <2>2. PICK e \in Entities : e = Head(todo)
    BY <2>1
  <2>3. PICK n \in Positions(obj[e].events) : delivered' = delivered \union {obj[e].events[i] : i \in 1..n}
    BY <1>29, <2>2 DEF HandlerThrows
  <2>4. PICK D : D = {obj[e].events[i] : i \in 1..n}
    OBVIOUS
  <2>5. D \in SUBSET Nat
    BY <2>4, EventTypes DEF EventInv, ScopesInv
  <2>6. \A m \in D : InQueue(m, obj[e])
    <3>1. Len(obj[e].events) \in Nat
      BY EventTypes DEF EventInv, ScopesInv
    <3>2. 1..n \subseteq Positions(obj[e].events)
      BY <3>1 DEF Positions
    <3> QED
      BY <2>4, <3>2 DEF InQueue
  <2>7. obj' = obj /\ UNCHANGED <<frames, nextEvent, voided>>
    BY <1>29 DEF HandlerThrows
  <2>8. Delivers
    BY <2>1, <2>3, <2>4, <2>5, <2>6, <2>7 DEF Delivers
  <2> QED
    BY <2>8 DEF Effected
<1>30. CASE DispatchDone
  <2>1. Silent
    BY <1>30 DEF DispatchDone, db, uow, txState, history, Silent, SameEvents, Known
  <2> QED
    BY <2>1 DEF Effected
<1>31. CASE Rollback
  <2>1. frames = <<>>
    BY <1>31, RollbackIdle DEF EventInv
  <2>2. checkpoints = <<>>
    BY <2>1, EmptySeq DEF EventInv, ScopesInv, TypeOK, MemoryTypeOK, Nesting
  <2>3. Silent
    BY <1>31, <2>2 DEF Rollback, ForgetEverything, Silent, SameEvents, Known, Untracked, control
  <2> QED
    BY <2>3 DEF Effected
<1>32. CASE Clear
  <2>1. frames = <<>>
    BY <1>32, ClearIdle DEF EventInv
  <2>2. checkpoints = <<>>
    BY <2>1, EmptySeq DEF EventInv, ScopesInv, TypeOK, MemoryTypeOK, Nesting
  <2>3. Silent
    BY <1>32, <2>2
       DEF Clear, ForgetEverything, Silent, SameEvents, Known, Untracked, control, history
  <2> QED
    BY <2>3 DEF Effected
<1>33. CASE UNCHANGED vars
  <2>1. Silent
    BY <1>33 DEF vars, db, uow, txState, control, history, Silent, SameEvents, Known
  <2> QED
    BY <2>1 DEF Effected
<1>34. QED
  BY <1>1, <1>2, <1>3, <1>4, <1>5, <1>6, <1>7, <1>8, <1>9, <1>10, <1>11, <1>12, <1>13, <1>14,
     <1>15, <1>16, <1>17, <1>18, <1>19, <1>20, <1>21, <1>22, <1>23, <1>24, <1>25, <1>26, <1>27,
     <1>28, <1>29, <1>30, <1>31, <1>32, <1>33
     DEF Next, UserStep, FlushStep, ScopeStep, FinishStep, ThrowStep, EventStep

(* No user code that runs in before_insert makes the session forget the    *)
(* entity.                                                                 *)
LEMMA InsertingStep == Orderly /\ EventInv /\ [Next]_vars => Inserting'
<1> SUFFICES ASSUME Orderly /\ EventInv, [Next]_vars PROVE Inserting'
  OBVIOUS
<1> USE SessionAssumption DEF SessionAssumption
<1>1. ASSUME NEW e \in Entities, PersistNew(e)
      PROVE  Inserting'
  <2>1. pc' = pc /\ todo' = todo
    BY <1>1 DEF PersistNew, control
  <2>2. \A f \in Entities : IsTracked(f) => tracked'[f].status # "Untracked"
    BY <1>1 DEF PersistNew, Track, IsTracked, EventInv, ScopesInv, TypeOK, MemoryTypeOK
  <2>3. pc = "beforeInsert" => Head(todo) \in Entities
    BY TodoKnown DEF EventInv, ScopesInv, Phases, HookAt
  <2> QED
    BY <2>1, <2>2, <2>3 DEF Inserting, EventInv, IsTracked
<1>2. ASSUME NEW e \in Entities, PersistRemoved(e)
      PROVE  Inserting'
  <2>1. pc' = pc /\ todo' = todo
    BY <1>2 DEF PersistRemoved, control
  <2>2. \A f \in Entities : IsTracked(f) => tracked'[f].status # "Untracked"
    BY <1>2 DEF PersistRemoved, IsTracked, Records, EventInv, ScopesInv, TypeOK, MemoryTypeOK
  <2>3. pc = "beforeInsert" => Head(todo) \in Entities
    BY TodoKnown DEF EventInv, ScopesInv, Phases, HookAt
  <2> QED
    BY <2>1, <2>2, <2>3 DEF Inserting, EventInv, IsTracked
<1>3. ASSUME NEW e \in Entities, Remove(e)
      PROVE  Inserting'
  <2>1. pc' = pc /\ todo' = todo
    BY <1>3 DEF Remove, control
  <2>2. \A f \in Entities : IsTracked(f) => tracked'[f].status # "Untracked"
    BY <1>3 DEF Remove, IsTracked, Records, EventInv, ScopesInv, TypeOK, MemoryTypeOK
  <2>3. pc = "beforeInsert" => Head(todo) \in Entities
    BY TodoKnown DEF EventInv, ScopesInv, Phases, HookAt
  <2> QED
    BY <2>1, <2>2, <2>3 DEF Inserting, EventInv, IsTracked
<1>4. ASSUME NEW e \in Entities, Raise(e)
      PROVE  Inserting'
  <2>1. pc' = pc /\ todo' = todo
    BY <1>4 DEF Raise, control
  <2>2. \A f \in Entities : IsTracked(f) => tracked'[f].status # "Untracked"
    BY <1>4 DEF Raise, uow, IsTracked, EventInv, ScopesInv, TypeOK, MemoryTypeOK
  <2>3. pc = "beforeInsert" => Head(todo) \in Entities
    BY TodoKnown DEF EventInv, ScopesInv, Phases, HookAt
  <2> QED
    BY <2>1, <2>2, <2>3 DEF Inserting, EventInv, IsTracked
<1>5. ASSUME NEW e \in Entities, NEW v \in Vals, Mutate(e, v)
      PROVE  Inserting'
  <2>1. pc' = pc /\ todo' = todo
    BY <1>5 DEF Mutate, control
  <2>2. \A f \in Entities : IsTracked(f) => tracked'[f].status # "Untracked"
    BY <1>5 DEF Mutate, uow, IsTracked, EventInv, ScopesInv, TypeOK, MemoryTypeOK
  <2>3. pc = "beforeInsert" => Head(todo) \in Entities
    BY TodoKnown DEF EventInv, ScopesInv, Phases, HookAt
  <2> QED
    BY <2>1, <2>2, <2>3 DEF Inserting, EventInv, IsTracked
<1>6. ASSUME NEW e \in Entities, NEW v \in Vals, Allocate(e, v)
      PROVE  Inserting'
  <2>1. pc' # "beforeInsert"
    BY <1>6 DEF Allocate, control
  <2> QED
    BY <2>1 DEF Inserting
<1>7. ASSUME NEW e \in Entities, NEW k \in Keys, FindRow(e, k)
      PROVE  Inserting'
  <2>1. pc' # "beforeInsert"
    BY <1>7 DEF FindRow, control
  <2> QED
    BY <2>1 DEF Inserting
<1>8. CASE RawFlush
  <2>1. pc' # "beforeInsert"
    BY <1>8 DEF RawFlush, StartFlush
  <2> QED
    BY <2>1 DEF Inserting
<1>9. CASE FlushNext
  BY <1>9 DEF FlushNext, uow, EventInv, Inserting, IsTracked
<1>10. CASE InsertRow
  <2>1. pc' # "beforeInsert"
    BY <1>10 DEF InsertRow, Executed
  <2> QED
    BY <2>1 DEF Inserting
<1>11. CASE UpdateRow
  <2>1. pc' # "beforeInsert"
    BY <1>11 DEF UpdateRow, Executed
  <2> QED
    BY <2>1 DEF Inserting
<1>12. CASE DeleteRow
  <2>1. pc' # "beforeInsert"
    BY <1>12 DEF DeleteRow, Executed
  <2> QED
    BY <2>1 DEF Inserting
<1>13. CASE FlushFails
  <2>1. pc' # "beforeInsert"
    BY <1>13 DEF FlushFails, Throw
  <2> QED
    BY <2>1 DEF Inserting
<1>14. CASE AfterHookReturns
  <2>1. pc' # "beforeInsert"
    BY <1>14 DEF AfterHookReturns
  <2> QED
    BY <2>1 DEF Inserting
<1>15. CASE FlushDone
  <2>1. pc' # "beforeInsert"
    BY <1>15 DEF FlushDone, StartFlush
  <2> QED
    BY <2>1 DEF Inserting
<1>16. CASE CommitBegins
  <2>1. pc' # "beforeInsert"
    BY <1>16 DEF CommitBegins, StartFlush, Throw
  <2> QED
    BY <2>1 DEF Inserting
<1>17. CASE ScopeBegins
  <2>1. pc' # "beforeInsert"
    BY <1>17 DEF ScopeBegins
  <2> QED
    BY <2>1 DEF Inserting
<1>18. CASE InnerScopeBegins
  <2>1. pc' # "beforeInsert"
    BY <1>18 DEF InnerScopeBegins
  <2> QED
    BY <2>1 DEF Inserting
<1>19. CASE CallbackReturns
  <2>1. pc' # "beforeInsert"
    BY <1>19 DEF CallbackReturns, StartFlush, Throw
  <2> QED
    BY <2>1 DEF Inserting
<1>20. CASE CallbackThrows
  <2>1. pc' # "beforeInsert"
    BY <1>20 DEF CallbackThrows, Throw
  <2> QED
    BY <2>1 DEF Inserting
<1>21. CASE FinishOutermost
  <2>1. pc' # "beforeInsert"
    BY <1>21 DEF FinishOutermost, CommitCheckpoint, Throw
  <2> QED
    BY <2>1 DEF Inserting
<1>22. CASE FinishInner
  <2>1. pc' # "beforeInsert"
    BY <1>22 DEF FinishInner, CommitCheckpoint, Throw
  <2> QED
    BY <2>1 DEF Inserting
<1>23. CASE FinishFails
  <2>1. pc' # "beforeInsert"
    BY <1>23 DEF FinishFails, Throw
  <2> QED
    BY <2>1 DEF Inserting
<1>24. CASE RawFlushThrows
  <2>1. pc' # "beforeInsert"
    BY <1>24 DEF RawFlushThrows
  <2> QED
    BY <2>1 DEF Inserting
<1>25. CASE CommitUnwinds
  <2>1. pc' # "beforeInsert"
    BY <1>25 DEF CommitUnwinds, Unwind
  <2> QED
    BY <2>1 DEF Inserting
<1>26. CASE ScopeUnwinds
  <2>1. pc' # "beforeInsert"
    BY <1>26 DEF ScopeUnwinds, Unwind
  <2> QED
    BY <2>1 DEF Inserting
<1>27. CASE InnerScopeUnwinds
  <2>1. pc' # "beforeInsert"
    BY <1>27 DEF InnerScopeUnwinds, Unwind
  <2> QED
    BY <2>1 DEF Inserting
<1>28. CASE DispatchNext
  <2>1. pc' # "beforeInsert"
    BY <1>28 DEF DispatchNext
  <2> QED
    BY <2>1 DEF Inserting
<1>29. CASE HandlerThrows
  <2>1. pc' # "beforeInsert"
    BY <1>29 DEF HandlerThrows
  <2> QED
    BY <2>1 DEF Inserting
<1>30. CASE DispatchDone
  <2>1. pc' # "beforeInsert"
    BY <1>30 DEF DispatchDone
  <2> QED
    BY <2>1 DEF Inserting
<1>31. CASE Rollback
  <2>1. pc' # "beforeInsert"
    BY <1>31 DEF Rollback, control
  <2> QED
    BY <2>1 DEF Inserting
<1>32. CASE Clear
  <2>1. pc' # "beforeInsert"
    BY <1>32 DEF Clear, control
  <2> QED
    BY <2>1 DEF Inserting
<1>33. CASE UNCHANGED vars
  BY <1>33 DEF vars, uow, control, EventInv, Inserting, IsTracked
<1>34. QED
  BY <1>1, <1>2, <1>3, <1>4, <1>5, <1>6, <1>7, <1>8, <1>9, <1>10, <1>11, <1>12, <1>13, <1>14,
     <1>15, <1>16, <1>17, <1>18, <1>19, <1>20, <1>21, <1>22, <1>23, <1>24, <1>25, <1>26, <1>27,
     <1>28, <1>29, <1>30, <1>31, <1>32, <1>33
     DEF Next, UserStep, FlushStep, ScopeStep, FinishStep, ThrowStep, EventStep

(* The invariant is inductive.                                             *)
LEMMA EventsHold ==
  ASSUME Orderly
  PROVE  (Init => EventInv) /\ (EventInv /\ [Next]_vars => EventInv')
<1>1. Init => EventInv
  <2> SUFFICES ASSUME Init PROVE EventInv
    OBVIOUS
  <2>1. ScopesInv /\ Len(frames) = 0
    BY ScopesHold, EmptySeq DEF Init
  <2>2. Len(<<>>) = 0
    OBVIOUS
  <2>3. Events
    BY <2>2 DEF Init, Events, InQueue, Positions
  <2> QED
    BY <2>1, <2>3 DEF Init, EventInv, Inserting, Covers, ScopeEvents
<1>2. EventInv /\ [Next]_vars => EventInv'
  <2> SUFFICES ASSUME EventInv, [Next]_vars PROVE EventInv'
    OBVIOUS
  <2>1. ScopesInv'
    BY ScopesHold DEF EventInv
  <2>2. Inserting'
    BY InsertingStep
  <2>3. Effected
    BY EffectedStep
  <2>4. Covers' /\ Events' /\ ScopeEvents'
    BY <2>3, SilentKeeps, MeetKeeps, RaiseKeeps, EnterKeeps, LeaveKeeps, VoidKeeps, DeliverKeeps
       DEF Effected
  <2> QED
    BY <2>1, <2>2, <2>4 DEF EventInv
<1> QED
  BY <1>1, <1>2

(* However scopes nest, fail and succeed, hooks and handlers throw: the    *)
(* queues, those the checkpoints hold, what is voided and what has been    *)
(* delivered account for every event.                                      *)
THEOREM SessionEvents ==
  ASSUME Orderly
  PROVE  Spec => []EventInv
<1> QED
  BY EventsHold, PTL DEF Spec

(* No event of a failed scope is delivered, and none is lost: until it is  *)
(* delivered or voided it waits in the queue of some entity.               *)
THEOREM SessionEventsExact ==
  ASSUME Orderly
  PROVE  Spec => []EventsAreExact
<1>1. EventInv => EventsAreExact
  BY DEF EventInv, Events, EventsAreExact, InQueue
<1> QED
  BY <1>1, SessionEvents, PTL

-----------------------------------------------------------------------------
(* What a flush has written.  Here, too, hooks leave the session alone.     *)
Unhooked == Careful /\ "actInHooks" \notin Calls
Written(e)  == tracked[e].status = "Managed" /\ ~Dirty(e)
Awaits(e, s) == \E i \in 1..Len(s) : s[i] = e
WrittenSoFar ==
  /\ pc \in HookAt \union {"flush", "finish"} =>
       \A e \in Entities : IsTracked(e) => Written(e) \/ Awaits(e, todo)
  /\ pc = "finish" => todo = <<>>
(* Without hooks that act, what is updated is managed.                      *)
UpdatesManaged == pc = "beforeUpdate" => tracked[Head(todo)].status = "Managed"
WritingInv == CarefulInv /\ WrittenSoFar /\ UpdatesManaged

(* flush() starts from the insertion order, in which every tracked entity  *)
(* is.                                                                     *)
LEMMA FlushCovers ==
  ASSUME WritingInv, NEW e \in Entities, IsTracked(e)
  PROVE  Awaits(e, order)
  BY DEF WritingInv, CarefulInv, MemoryInv, MappedNow, Listed, Awaits, IsTracked, Known

(* A flush is done with the entity at its head; the others still wait.     *)
LEMMA HeadDone ==
  ASSUME WritingInv, todo # <<>>, NEW e \in Entities, Awaits(e, todo), e # Head(todo)
  PROVE  Awaits(e, Tail(todo))
<1>1. PICK s \in Seq(Entities) : s = todo
  BY DEF WritingInv, CarefulInv, ScopesInv, TypeOK, ControlTypeOK
<1>2. PICK i \in 1..Len(s) : s[i] = e
  BY <1>1 DEF Awaits
<1>3. i # 1 /\ Len(Tail(s)) = Len(s) - 1 /\ Len(s) \in Nat
  BY <1>1, <1>2
<1>4. i - 1 \in 1..Len(Tail(s)) /\ Tail(s)[i - 1] = s[i]
  BY <1>1, <1>2, <1>3
<1> QED
  BY <1>1, <1>2, <1>4 DEF Awaits

(* Each step of a flush either leaves an entity for later or leaves it     *)
(* written; hooks that leave the session alone cannot undo that.           *)
LEMMA WrittenStep == Unhooked /\ WritingInv /\ [Next]_vars => WrittenSoFar'
<1> SUFFICES ASSUME Unhooked /\ WritingInv, [Next]_vars PROVE WrittenSoFar'
  OBVIOUS
<1> USE SessionAssumption DEF SessionAssumption
<1>1. ASSUME NEW e \in Entities, PersistNew(e)
      PROVE  WrittenSoFar'
  <2>1. pc' \notin HookAt \union {"flush", "finish"}
    BY <1>1 DEF PersistNew, UserTurn, Unhooked, control, HookAt
  <2> QED
    BY <2>1 DEF WrittenSoFar, HookAt
<1>2. ASSUME NEW e \in Entities, PersistRemoved(e)
      PROVE  WrittenSoFar'
  <2>1. pc' \notin HookAt \union {"flush", "finish"}
    BY <1>2 DEF PersistRemoved, UserTurn, Unhooked, control, HookAt
  <2> QED
    BY <2>1 DEF WrittenSoFar, HookAt
<1>3. ASSUME NEW e \in Entities, Remove(e)
      PROVE  WrittenSoFar'
  <2>1. pc' \notin HookAt \union {"flush", "finish"}
    BY <1>3 DEF Remove, UserTurn, Unhooked, control, HookAt
  <2> QED
    BY <2>1 DEF WrittenSoFar, HookAt
<1>4. ASSUME NEW e \in Entities, Raise(e)
      PROVE  WrittenSoFar'
  <2>1. pc' \notin HookAt \union {"flush", "finish"}
    BY <1>4 DEF Raise, UserTurn, Unhooked, control, HookAt
  <2> QED
    BY <2>1 DEF WrittenSoFar, HookAt
<1>5. ASSUME NEW e \in Entities, NEW v \in Vals, Mutate(e, v)
      PROVE  WrittenSoFar'
  <2>1. pc' \notin HookAt \union {"flush", "finish"}
    BY <1>5 DEF Mutate, UserTurn, Unhooked, control, HookAt
  <2> QED
    BY <2>1 DEF WrittenSoFar, HookAt
<1>6. ASSUME NEW e \in Entities, NEW v \in Vals, Allocate(e, v)
      PROVE  WrittenSoFar'
  <2>1. pc' \notin HookAt \union {"flush", "finish"}
    BY <1>6 DEF Allocate, control, HookAt
  <2> QED
    BY <2>1 DEF WrittenSoFar, HookAt
<1>7. ASSUME NEW e \in Entities, NEW k \in Keys, FindRow(e, k)
      PROVE  WrittenSoFar'
  <2>1. pc' \notin HookAt \union {"flush", "finish"}
    BY <1>7 DEF FindRow, control, HookAt
  <2> QED
    BY <2>1 DEF WrittenSoFar, HookAt
<1>8. CASE RawFlush
  <2>1. CASE pc' = "throw"
    BY <2>1 DEF WrittenSoFar, HookAt
  <2>2. CASE pc' = "flush" /\ todo' = order
    BY <1>8, <2>2, FlushCovers DEF RawFlush, uow, WrittenSoFar, Awaits, IsTracked
  <2> QED
    BY <1>8, <2>1, <2>2 DEF RawFlush, StartFlush, Throw
<1>9. CASE FlushNext
  <2>1. UNCHANGED <<obj, tracked>> /\ pc' # "finish" /\ pc = "flush" /\ todo # <<>>
    BY <1>9 DEF FlushNext, uow
  <2>2. CASE todo' = todo
    BY <2>1, <2>2 DEF WritingInv, WrittenSoFar, IsTracked, Written, Dirty, Awaits
  <2>3. CASE /\ todo' = Tail(todo)
             /\ ~IsTracked(Head(todo)) \/ (tracked[Head(todo)].status = "Managed" /\ ~Dirty(Head(todo)))
    <3>1. ASSUME NEW e \in Entities, IsTracked(e) PROVE Written(e) \/ Awaits(e, Tail(todo))
      BY <2>1, <2>3, <3>1, HeadDone DEF WritingInv, WrittenSoFar, Written
    <3> QED
      BY <2>1, <2>3, <3>1 DEF WrittenSoFar, IsTracked, Written, Dirty, Awaits
  <2> QED
    BY <1>9, <2>2, <2>3 DEF FlushNext
<1>10. CASE InsertRow
  <2>1. todo # <<>> /\ IsTracked(Head(todo)) /\ Head(todo) \in Entities
    BY <1>10, TodoKnown
       DEF InsertRow, WritingInv, CarefulInv, ScopesInv, Phases, HookAt, Writing
  <2>2. PICK e \in Entities : e = Head(todo)
    BY <2>1
  <2>3. /\ tracked'[e] = [status |-> "Managed", orig |-> obj[e].val] /\ obj'[e].val = obj[e].val
        /\ \A f \in Entities \ {e} : tracked'[f] = tracked[f] /\ obj'[f] = obj[f]
    <3>1. PICK k \in Keys : /\ obj' = [obj EXCEPT ![e].pk = k]
                            /\ tracked' = [tracked EXCEPT ![e] = [status |-> "Managed", orig |-> obj[e].val]]
      BY <1>10, <2>2 DEF InsertRow
    <3> QED
      BY <3>1 DEF WritingInv, CarefulInv, ScopesInv, TypeOK, MemoryTypeOK, Objects
  <2>4. pc' = "afterHook" /\ todo' = Tail(todo) /\ pc \in HookAt
    BY <1>10 DEF InsertRow, Executed, HookAt
  <2>5. ASSUME NEW f \in Entities, IsTracked(f)' PROVE Written(f)' \/ Awaits(f, todo')
    <3>1. CASE f = e
      BY <2>3, <2>5, <3>1 DEF Written, Dirty, IsTracked, Untracked
    <3>2. CASE f # e
      BY <2>2, <2>3, <2>4, <2>5, <2>1, <3>2, HeadDone
         DEF WritingInv, WrittenSoFar, Written, Dirty, IsTracked
    <3> QED
      BY <3>1, <3>2
  <2> QED
    BY <2>4, <2>5 DEF WrittenSoFar, Awaits
<1>11. CASE UpdateRow
  <2>1. todo # <<>> /\ IsTracked(Head(todo)) /\ Head(todo) \in Entities
    BY <1>11, TodoKnown
       DEF UpdateRow, WritingInv, CarefulInv, ScopesInv, Phases, HookAt, Writing
  <2>2. PICK e \in Entities : e = Head(todo)
    BY <2>1
  <2>3. /\ tracked'[e].status = tracked[e].status /\ tracked'[e].orig = obj[e].val /\ obj'[e].val = obj[e].val
        /\ tracked[e].status = "Managed"
        /\ \A f \in Entities \ {e} : tracked'[f] = tracked[f] /\ obj'[f] = obj[f]
    <3>1. tracked' = [tracked EXCEPT ![e].orig = obj[e].val] /\ obj' = obj
      BY <1>11, <2>2 DEF UpdateRow
    <3>2. tracked[e].status = "Managed"
      BY <1>11, <2>2 DEF UpdateRow, WritingInv, UpdatesManaged
    <3> QED
      BY <3>1, <3>2 DEF WritingInv, CarefulInv, ScopesInv, TypeOK, MemoryTypeOK, Records
  <2>4. pc' = "afterHook" /\ todo' = Tail(todo) /\ pc \in HookAt
    BY <1>11 DEF UpdateRow, Executed, HookAt
  <2>5. ASSUME NEW f \in Entities, IsTracked(f)' PROVE Written(f)' \/ Awaits(f, todo')
    <3>1. CASE f = e
      BY <2>3, <2>5, <3>1 DEF Written, Dirty, IsTracked, Untracked
    <3>2. CASE f # e
      BY <2>2, <2>3, <2>4, <2>5, <2>1, <3>2, HeadDone
         DEF WritingInv, WrittenSoFar, Written, Dirty, IsTracked
    <3> QED
      BY <3>1, <3>2
  <2> QED
    BY <2>4, <2>5 DEF WrittenSoFar, Awaits
<1>12. CASE DeleteRow
  <2>1. todo # <<>> /\ IsTracked(Head(todo)) /\ Head(todo) \in Entities
    BY <1>12, TodoKnown
       DEF DeleteRow, WritingInv, CarefulInv, ScopesInv, Phases, HookAt, Writing
  <2>2. PICK e \in Entities : e = Head(todo)
    BY <2>1
  <2>3. /\ tracked'[e] = Untracked
        /\ \A f \in Entities \ {e} : tracked'[f] = tracked[f] /\ obj'[f] = obj[f]
    <3>1. tracked' = [tracked EXCEPT ![e] = Untracked] /\ obj' = obj
      BY <1>12, <2>2 DEF DeleteRow
    <3> QED
      BY <3>1 DEF WritingInv, CarefulInv, ScopesInv, TypeOK, MemoryTypeOK
  <2>4. pc' = "afterHook" /\ todo' = Tail(todo) /\ pc \in HookAt
    BY <1>12 DEF DeleteRow, Executed, HookAt
  <2>5. ASSUME NEW f \in Entities, IsTracked(f)' PROVE Written(f)' \/ Awaits(f, todo')
    <3>1. CASE f = e
      BY <2>3, <2>5, <3>1 DEF Written, Dirty, IsTracked, Untracked
    <3>2. CASE f # e
      BY <2>2, <2>3, <2>4, <2>5, <2>1, <3>2, HeadDone
         DEF WritingInv, WrittenSoFar, Written, Dirty, IsTracked
    <3> QED
      BY <3>1, <3>2
  <2> QED
    BY <2>4, <2>5 DEF WrittenSoFar, Awaits
<1>13. CASE FlushFails
  <2>1. pc' \notin HookAt \union {"flush", "finish"}
    BY <1>13 DEF FlushFails, Throw, HookAt
  <2> QED
    BY <2>1 DEF WrittenSoFar, HookAt
<1>14. CASE AfterHookReturns
  <2>1. UNCHANGED <<obj, tracked, todo>> /\ pc = "afterHook" /\ pc' = "flush"
    BY <1>14 DEF AfterHookReturns, uow
  <2> QED
    BY <2>1 DEF WritingInv, WrittenSoFar, HookAt, IsTracked, Written, Dirty, Awaits
<1>15. CASE FlushDone
  <2>1. UNCHANGED <<obj, tracked>> /\ pc = "flush" /\ todo = <<>>
    BY <1>15 DEF FlushDone, uow
  <2>2. CASE pc' = "user"
    BY <2>2 DEF WrittenSoFar, HookAt
  <2>3. CASE pc' = "flush" /\ todo' = order
    BY <2>1, <2>3, FlushCovers DEF WrittenSoFar, Awaits, IsTracked
  <2>4. CASE pc' = "finish" /\ todo' = todo
    BY <2>1, <2>4 DEF WritingInv, WrittenSoFar, IsTracked, Written, Dirty, Awaits
  <2> QED
    BY <1>15, <2>2, <2>3, <2>4 DEF FlushDone, StartFlush
<1>16. CASE CommitBegins
  <2>1. CASE pc' = "throw"
    BY <2>1 DEF WrittenSoFar, HookAt
  <2>2. CASE pc' = "flush" /\ todo' = order
    BY <1>16, <2>2, FlushCovers DEF CommitBegins, Open, WrittenSoFar, Awaits, IsTracked
  <2> QED
    BY <1>16, <2>1, <2>2 DEF CommitBegins, StartFlush, Throw
<1>17. CASE ScopeBegins
  <2>1. pc' \notin HookAt \union {"flush", "finish"}
    BY <1>17 DEF ScopeBegins, HookAt
  <2> QED
    BY <2>1 DEF WrittenSoFar, HookAt
<1>18. CASE InnerScopeBegins
  <2>1. pc' \notin HookAt \union {"flush", "finish"}
    BY <1>18 DEF InnerScopeBegins, HookAt
  <2> QED
    BY <2>1 DEF WrittenSoFar, HookAt
<1>19. CASE CallbackReturns
  <2>1. CASE pc' = "throw"
    BY <2>1 DEF WrittenSoFar, HookAt
  <2>2. CASE pc' = "flush" /\ todo' = order
    BY <1>19, <2>2, FlushCovers DEF CallbackReturns, uow, WrittenSoFar, Awaits, IsTracked
  <2> QED
    BY <1>19, <2>1, <2>2 DEF CallbackReturns, StartFlush, Throw
<1>20. CASE CallbackThrows
  <2>1. pc' \notin HookAt \union {"flush", "finish"}
    BY <1>20 DEF CallbackThrows, Throw, HookAt
  <2> QED
    BY <2>1 DEF WrittenSoFar, HookAt
<1>21. CASE FinishOutermost
  <2>1. checkpoints # <<>>
    BY <1>21, TopKnown DEF FinishOutermost, WritingInv, CarefulInv, ScopesInv, Phases
  <2>2. pc' \notin HookAt \union {"flush", "finish"}
    BY <1>21, <2>1 DEF FinishOutermost, CommitCheckpoint, HookAt
  <2> QED
    BY <2>2 DEF WrittenSoFar, HookAt
<1>22. CASE FinishInner
  <2>1. checkpoints # <<>>
    BY <1>22, TopKnown DEF FinishInner, WritingInv, CarefulInv, ScopesInv, Phases
  <2>2. pc' \notin HookAt \union {"flush", "finish"}
    BY <1>22, <2>1 DEF FinishInner, CommitCheckpoint, HookAt
  <2> QED
    BY <2>2 DEF WrittenSoFar, HookAt
<1>23. CASE FinishFails
  <2>1. pc' \notin HookAt \union {"flush", "finish"}
    BY <1>23 DEF FinishFails, Throw, HookAt
  <2> QED
    BY <2>1 DEF WrittenSoFar, HookAt
<1>24. CASE RawFlushThrows
  <2>1. pc' \notin HookAt \union {"flush", "finish"}
    BY <1>24 DEF RawFlushThrows, HookAt
  <2> QED
    BY <2>1 DEF WrittenSoFar, HookAt
<1>25. CASE CommitUnwinds
  <2>1. pc' \notin HookAt \union {"flush", "finish"}
    BY <1>25 DEF CommitUnwinds, Unwind, HookAt
  <2> QED
    BY <2>1 DEF WrittenSoFar, HookAt
<1>26. CASE ScopeUnwinds
  <2>1. pc' \notin HookAt \union {"flush", "finish"}
    BY <1>26 DEF ScopeUnwinds, Unwind, HookAt
  <2> QED
    BY <2>1 DEF WrittenSoFar, HookAt
<1>27. CASE InnerScopeUnwinds
  <2>1. pc' \notin HookAt \union {"flush", "finish"}
    BY <1>27 DEF InnerScopeUnwinds, Unwind, HookAt
  <2> QED
    BY <2>1 DEF WrittenSoFar, HookAt
<1>28. CASE DispatchNext
  <2>1. pc' \notin HookAt \union {"flush", "finish"}
    BY <1>28 DEF DispatchNext, HookAt
  <2> QED
    BY <2>1 DEF WrittenSoFar, HookAt
<1>29. CASE HandlerThrows
  <2>1. pc' \notin HookAt \union {"flush", "finish"}
    BY <1>29 DEF HandlerThrows, HookAt
  <2> QED
    BY <2>1 DEF WrittenSoFar, HookAt
<1>30. CASE DispatchDone
  <2>1. pc' \notin HookAt \union {"flush", "finish"}
    BY <1>30 DEF DispatchDone, HookAt
  <2> QED
    BY <2>1 DEF WrittenSoFar, HookAt
<1>31. CASE Rollback
  <2>1. pc' \notin HookAt \union {"flush", "finish"}
    BY <1>31 DEF Rollback, control, HookAt
  <2> QED
    BY <2>1 DEF WrittenSoFar, HookAt
<1>32. CASE Clear
  <2>1. pc' \notin HookAt \union {"flush", "finish"}
    BY <1>32 DEF Clear, control, HookAt
  <2> QED
    BY <2>1 DEF WrittenSoFar, HookAt
<1>33. CASE UNCHANGED vars
  BY <1>33 DEF vars, uow, control, WritingInv, WrittenSoFar, IsTracked, Written, Dirty, Awaits
<1>34. QED
  BY <1>1, <1>2, <1>3, <1>4, <1>5, <1>6, <1>7, <1>8, <1>9, <1>10, <1>11, <1>12, <1>13, <1>14,
     <1>15, <1>16, <1>17, <1>18, <1>19, <1>20, <1>21, <1>22, <1>23, <1>24, <1>25, <1>26, <1>27,
     <1>28, <1>29, <1>30, <1>31, <1>32, <1>33
     DEF Next, UserStep, FlushStep, ScopeStep, FinishStep, ThrowStep, EventStep

(* The entity before_update is called for is still managed when the hook   *)
(* returns.                                                                *)
LEMMA UpdatesManagedStep == Unhooked /\ WritingInv /\ [Next]_vars => UpdatesManaged'
<1> SUFFICES ASSUME Unhooked /\ WritingInv, [Next]_vars PROVE UpdatesManaged'
  OBVIOUS
<1> USE SessionAssumption DEF SessionAssumption
<1>1. ASSUME NEW e \in Entities, PersistNew(e)
      PROVE  UpdatesManaged'
  <2>1. pc' # "beforeUpdate"
    BY <1>1 DEF PersistNew, UserTurn, Unhooked, control
  <2> QED
    BY <2>1 DEF UpdatesManaged
<1>2. ASSUME NEW e \in Entities, PersistRemoved(e)
      PROVE  UpdatesManaged'
  <2>1. pc' # "beforeUpdate"
    BY <1>2 DEF PersistRemoved, UserTurn, Unhooked, control
  <2> QED
    BY <2>1 DEF UpdatesManaged
<1>3. ASSUME NEW e \in Entities, Remove(e)
      PROVE  UpdatesManaged'
  <2>1. pc' # "beforeUpdate"
    BY <1>3 DEF Remove, UserTurn, Unhooked, control
  <2> QED
    BY <2>1 DEF UpdatesManaged
<1>4. ASSUME NEW e \in Entities, Raise(e)
      PROVE  UpdatesManaged'
  <2>1. pc' # "beforeUpdate"
    BY <1>4 DEF Raise, UserTurn, Unhooked, control
  <2> QED
    BY <2>1 DEF UpdatesManaged
<1>5. ASSUME NEW e \in Entities, NEW v \in Vals, Mutate(e, v)
      PROVE  UpdatesManaged'
  <2>1. pc' # "beforeUpdate"
    BY <1>5 DEF Mutate, UserTurn, Unhooked, control
  <2> QED
    BY <2>1 DEF UpdatesManaged
<1>6. ASSUME NEW e \in Entities, NEW v \in Vals, Allocate(e, v)
      PROVE  UpdatesManaged'
  <2>1. pc' # "beforeUpdate"
    BY <1>6 DEF Allocate, control
  <2> QED
    BY <2>1 DEF UpdatesManaged
<1>7. ASSUME NEW e \in Entities, NEW k \in Keys, FindRow(e, k)
      PROVE  UpdatesManaged'
  <2>1. pc' # "beforeUpdate"
    BY <1>7 DEF FindRow, control
  <2> QED
    BY <2>1 DEF UpdatesManaged
<1>8. CASE RawFlush
  <2>1. pc' # "beforeUpdate"
    BY <1>8 DEF RawFlush, StartFlush
  <2> QED
    BY <2>1 DEF UpdatesManaged
<1>9. CASE FlushNext
  BY <1>9 DEF FlushNext, uow, WritingInv, UpdatesManaged
<1>10. CASE InsertRow
  <2>1. pc' # "beforeUpdate"
    BY <1>10 DEF InsertRow, Executed
  <2> QED
    BY <2>1 DEF UpdatesManaged
<1>11. CASE UpdateRow
  <2>1. pc' # "beforeUpdate"
    BY <1>11 DEF UpdateRow, Executed
  <2> QED
    BY <2>1 DEF UpdatesManaged
<1>12. CASE DeleteRow
  <2>1. pc' # "beforeUpdate"
    BY <1>12 DEF DeleteRow, Executed
  <2> QED
    BY <2>1 DEF UpdatesManaged
<1>13. CASE FlushFails
  <2>1. pc' # "beforeUpdate"
    BY <1>13 DEF FlushFails, Throw
  <2> QED
    BY <2>1 DEF UpdatesManaged
<1>14. CASE AfterHookReturns
  <2>1. pc' # "beforeUpdate"
    BY <1>14 DEF AfterHookReturns
  <2> QED
    BY <2>1 DEF UpdatesManaged
<1>15. CASE FlushDone
  <2>1. pc' # "beforeUpdate"
    BY <1>15 DEF FlushDone, StartFlush
  <2> QED
    BY <2>1 DEF UpdatesManaged
<1>16. CASE CommitBegins
  <2>1. pc' # "beforeUpdate"
    BY <1>16 DEF CommitBegins, StartFlush, Throw
  <2> QED
    BY <2>1 DEF UpdatesManaged
<1>17. CASE ScopeBegins
  <2>1. pc' # "beforeUpdate"
    BY <1>17 DEF ScopeBegins
  <2> QED
    BY <2>1 DEF UpdatesManaged
<1>18. CASE InnerScopeBegins
  <2>1. pc' # "beforeUpdate"
    BY <1>18 DEF InnerScopeBegins
  <2> QED
    BY <2>1 DEF UpdatesManaged
<1>19. CASE CallbackReturns
  <2>1. pc' # "beforeUpdate"
    BY <1>19 DEF CallbackReturns, StartFlush, Throw
  <2> QED
    BY <2>1 DEF UpdatesManaged
<1>20. CASE CallbackThrows
  <2>1. pc' # "beforeUpdate"
    BY <1>20 DEF CallbackThrows, Throw
  <2> QED
    BY <2>1 DEF UpdatesManaged
<1>21. CASE FinishOutermost
  <2>1. pc' # "beforeUpdate"
    BY <1>21 DEF FinishOutermost, CommitCheckpoint, Throw
  <2> QED
    BY <2>1 DEF UpdatesManaged
<1>22. CASE FinishInner
  <2>1. pc' # "beforeUpdate"
    BY <1>22 DEF FinishInner, CommitCheckpoint, Throw
  <2> QED
    BY <2>1 DEF UpdatesManaged
<1>23. CASE FinishFails
  <2>1. pc' # "beforeUpdate"
    BY <1>23 DEF FinishFails, Throw
  <2> QED
    BY <2>1 DEF UpdatesManaged
<1>24. CASE RawFlushThrows
  <2>1. pc' # "beforeUpdate"
    BY <1>24 DEF RawFlushThrows
  <2> QED
    BY <2>1 DEF UpdatesManaged
<1>25. CASE CommitUnwinds
  <2>1. pc' # "beforeUpdate"
    BY <1>25 DEF CommitUnwinds, Unwind
  <2> QED
    BY <2>1 DEF UpdatesManaged
<1>26. CASE ScopeUnwinds
  <2>1. pc' # "beforeUpdate"
    BY <1>26 DEF ScopeUnwinds, Unwind
  <2> QED
    BY <2>1 DEF UpdatesManaged
<1>27. CASE InnerScopeUnwinds
  <2>1. pc' # "beforeUpdate"
    BY <1>27 DEF InnerScopeUnwinds, Unwind
  <2> QED
    BY <2>1 DEF UpdatesManaged
<1>28. CASE DispatchNext
  <2>1. pc' # "beforeUpdate"
    BY <1>28 DEF DispatchNext
  <2> QED
    BY <2>1 DEF UpdatesManaged
<1>29. CASE HandlerThrows
  <2>1. pc' # "beforeUpdate"
    BY <1>29 DEF HandlerThrows
  <2> QED
    BY <2>1 DEF UpdatesManaged
<1>30. CASE DispatchDone
  <2>1. pc' # "beforeUpdate"
    BY <1>30 DEF DispatchDone
  <2> QED
    BY <2>1 DEF UpdatesManaged
<1>31. CASE Rollback
  <2>1. pc' # "beforeUpdate"
    BY <1>31 DEF Rollback, control
  <2> QED
    BY <2>1 DEF UpdatesManaged
<1>32. CASE Clear
  <2>1. pc' # "beforeUpdate"
    BY <1>32 DEF Clear, control
  <2> QED
    BY <2>1 DEF UpdatesManaged
<1>33. CASE UNCHANGED vars
  BY <1>33 DEF vars, uow, control, WritingInv, UpdatesManaged
<1>34. QED
  BY <1>1, <1>2, <1>3, <1>4, <1>5, <1>6, <1>7, <1>8, <1>9, <1>10, <1>11, <1>12, <1>13, <1>14,
     <1>15, <1>16, <1>17, <1>18, <1>19, <1>20, <1>21, <1>22, <1>23, <1>24, <1>25, <1>26, <1>27,
     <1>28, <1>29, <1>30, <1>31, <1>32, <1>33
     DEF Next, UserStep, FlushStep, ScopeStep, FinishStep, ThrowStep, EventStep

(* While it flushes, commit() has written every entity or has it still to  *)
(* do.                                                                     *)
THEOREM SessionFlushes ==
  ASSUME Unhooked
  PROVE  Spec => []WritingInv
<1>1. Init => WritingInv
  <2>1. Init => CarefulInv
    BY CarefulHolds DEF Unhooked
  <2>2. Init => WrittenSoFar /\ UpdatesManaged
    BY DEF Init, WrittenSoFar, UpdatesManaged, HookAt
  <2> QED
    BY <2>1, <2>2 DEF WritingInv
<1>2. WritingInv /\ [Next]_vars => WritingInv'
  BY CarefulHolds, WrittenStep, UpdatesManagedStep DEF Unhooked, WritingInv
<1> QED
  BY <1>1, <1>2, PTL DEF Spec

(* commit() writes everything: once it sends COMMIT every tracked entity   *)
(* is managed and clean.                                                   *)
THEOREM SessionWrites ==
  ASSUME Unhooked
  PROVE  Spec => CommitWritesEverything
<1> DEFINE Step == FinishOutermost => \A e \in Entities : IsTracked(e) => tracked[e].status = "Managed" /\ ~Dirty(e)
<1>1. WritingInv => [Step]_vars
  <2>1. Len(<<>>) = 0
    OBVIOUS
  <2> QED
    BY <2>1 DEF FinishOutermost, WritingInv, WrittenSoFar, Written, Awaits
<1> QED
  BY <1>1, SessionFlushes, PTL DEF CommitWritesEverything

=============================================================================
