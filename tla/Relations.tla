----------------------------- MODULE Relations -----------------------------
(***************************************************************************)
(* Relations of a Session: the wrappers (collection.hpp, reference.hpp,     *)
(* polymorphic.hpp), the hooks and batch loaders orm.hpp binds to them, and *)
(* RelationChangeProcessor.  A parent has kids (has_many, has_one or their  *)
(* morph forms: the kid holds the key), a kid has a cat (belongs_to or      *)
(* morph_to), parents and cats are many_to_many through a pivot table.      *)
(* One thread, and user code between calls only, so every call is one       *)
(* function of the state; a call that throws inside a transaction gives     *)
(* back the state it started from (Session.tla models how).  A row and the  *)
(* object that holds it have one name: the identity map never has two.      *)
(***************************************************************************)
EXTENDS Naturals, Sequences, FiniteSets, SequencesExt

CONSTANTS
  Parents, Kids, Cats,
  Null, Zero,       \* a NULL foreign key; the empty generated key
  Absent,           \* no row, no original snapshot
  NoCat,            \* an empty reference
  Mappings,         \* the annotations explored: records of MappingType
  Stores,           \* the tables explored: [parents, cats, rows, pivot]
  MaxEdits          \* bound: edits in all

Objects == Parents \union Kids \union Cats
MappingType ==
  [kind : {"has_many", "has_one", "morph_many", "morph_one"},
   ref : {"belongs_to", "morph_to"},
   persists : BOOLEAN, removes : BOOLEAN,  \* cascade_mode
   nullable : BOOLEAN,                     \* the kid's two foreign keys
   enforced : BOOLEAN]                     \* FOREIGN KEY constraints in the schema

ASSUME RelationsAssumption ==
  /\ Mappings \subseteq MappingType /\ MaxEdits \in Nat
  /\ Cardinality({Null, Zero, Absent, NoCat}) = 4
  /\ {Null, Zero, Absent, NoCat} \intersect Objects = {}

VARIABLES
  mapping,
  s,        \* the database and the session, see Fresh
  edits,    \* edits so far
  did       \* the last call: "edit" | "commit" | "refused"

vars == <<mapping, s, edits, did>>

Single    == mapping.kind \in {"has_one", "morph_one"}
Morph     == mapping.kind \in {"morph_many", "morph_one"}
Unset     == IF mapping.nullable THEN Null ELSE Zero
Blank     == [up |-> Unset, cat |-> Unset]

(* The state over the given tables, nothing tracked.                        *)
Fresh(parents, cats, rows, pivot) ==
  [parents |-> parents, cats |-> cats, rows |-> rows, pivot |-> pivot, paid |-> {},
   saved |-> {}, kid |-> [k \in Kids |-> Blank],
   status |-> [o \in Objects |-> "Untracked"], orig |-> [k \in Kids |-> Absent], order |-> <<>>,
   items |-> [p \in Parents |-> <<>>], base |-> [p \in Parents |-> <<>>], loaded |-> {},
   tags |-> [p \in Parents |-> <<>>], tagBase |-> [p \in Parents |-> <<>>],
   patched |-> {}, tagsLoaded |-> {},
   ref |-> [k \in Kids |-> NoCat], refBase |-> [k \in Kids |-> NoCat], refLoaded |-> {},
   ok |-> TRUE]

-----------------------------------------------------------------------------
(* The unit of work, without hooks (Session.tla has them).                  *)
Fail(t)         == [t EXCEPT !.ok = FALSE]
Each(F(_, _), t, seq) ==                              \* in turn, up to the first failure
  LET after[n \in 0..Len(seq)] ==
        IF n = 0 THEN t ELSE LET u == after[n - 1] IN IF u.ok THEN F(u, seq[n]) ELSE u
  IN  IF seq = <<>> THEN t ELSE after[Len(seq)]
Tracked(t, o)   == t.status[o] # "Untracked"
Bound(t, o)     == Tracked(t, o) \/ o \in t.saved     \* bind_relation_collections has run
Stored(t, o)    == IF o \in Kids THEN t.rows[o] # Absent ELSE o \in t.parents \union t.cats
KeyOf(t, o)     == IF o \in t.saved THEN o ELSE Zero

Track(t, o, status) ==
  [t EXCEPT !.status[o] = status, !.order = Append(@, o),
            !.orig = IF o \in Kids THEN [@ EXCEPT ![o] = IF status = "New" THEN Absent ELSE t.kid[o]] ELSE @]

(* persist(), remove(), hydrate(): a row the identity map knows is its       *)
(* entity as it is, stale members and all.                                  *)
Persist(t, o) ==
  IF Tracked(t, o) THEN [t EXCEPT !.status[o] = IF @ = "Removed" THEN "Managed" ELSE @]
  ELSE Track(t, o, IF o \in t.saved THEN "Managed" ELSE "New")
MarkRemoved(t, o) == IF Tracked(t, o) THEN [t EXCEPT !.status[o] = "Removed"] ELSE t
Hydrate(t, o) ==
  IF Tracked(t, o) THEN t
  ELSE Track([t EXCEPT !.saved = @ \union {o},
                       !.kid = IF o \in Kids THEN [@ EXCEPT ![o] = t.rows[o]] ELSE @], o, "Managed")

(* What FOREIGN KEY constraints accept: morph columns have none.            *)
Accepts(t, row) ==
  mapping.enforced =>
    /\ Morph \/ row.up \in t.parents \union {Null}
    /\ mapping.ref = "morph_to" \/ row.cat \in t.cats \union {Null}
(* A statement that is refused leaves the unit of work as it was.           *)
WriteRow(t, k, row, written) == IF Accepts(t, row) THEN [written EXCEPT !.rows[k] = row] ELSE Fail(t)

InsertRow(t, o) ==
  LET stored == [t EXCEPT !.saved = @ \union {o}, !.status[o] = "Managed"]
  IN  IF o \in Parents THEN [stored EXCEPT !.parents = @ \union {o}]
      ELSE IF o \in Cats THEN [stored EXCEPT !.cats = @ \union {o}]
      ELSE WriteRow(t, o, t.kid[o], [stored EXCEPT !.orig[o] = t.kid[o]])

(* Only the columns that differ from the original snapshot are written.     *)
UpdateRow(t, k) ==
  LET now == t.kid[k] old == t.orig[k] row == t.rows[k]
      refreshed == [t EXCEPT !.orig[k] = now]
  IN  IF row = Absent THEN refreshed
      ELSE WriteRow(t, k, [c \in DOMAIN row |-> IF old = Absent \/ old[c] # now[c] THEN now[c] ELSE row[c]], refreshed)

Points(t, k, o) == (t.rows[k].up = o /\ ~Morph) \/ (t.rows[k].cat = o /\ mapping.ref = "belongs_to")
Referenced(t, o) ==
  mapping.enforced /\ \/ \E pair \in t.pivot : o \in {pair[1], pair[2]}
                      \/ \E k \in Kids : t.rows[k] # Absent /\ Points(t, k, o)
DeleteRow(t, o) ==
  IF o \in t.saved /\ Referenced(t, o) THEN Fail(t)
  ELSE [t EXCEPT !.parents = @ \ {o}, !.cats = @ \ {o}, !.status[o] = "Untracked",
                 !.order = Remove(@, o),
                 !.rows = IF o \in Kids THEN [@ EXCEPT ![o] = Absent] ELSE @]

FlushOne(t, o) ==
  CASE t.status[o] = "New" -> InsertRow(t, o)
    [] t.status[o] = "Removed" -> DeleteRow(t, o)
    [] t.status[o] = "Managed" /\ o \in Kids -> IF t.orig[o] # t.kid[o] THEN UpdateRow(t, o) ELSE t
    [] OTHER -> t
Flush(t) == Each(FlushOne, t, t.order)

-----------------------------------------------------------------------------
(* The wrappers.  A single reference is a collection of at most one: added  *)
(* and removed are the differences with the baseline in both.               *)
Minus(a, b)     == IF a = b THEN <<>> ELSE SelectSeq(a, LAMBDA x : x \notin ToSet(b))
Added(t, p)     == Minus(t.items[p], t.base[p])
Dropped(t, p)   == Minus(t.base[p], t.items[p])
TagsAdded(t, p) == Minus(t.tags[p], t.tagBase[p])
TagsDropped(t, p) == Minus(t.tagBase[p], t.tags[p])
RefDirty(t, k)  == t.ref[k] # t.refBase[k]

(* attach() / set(): the hook gives the kid the parent's key, which may     *)
(* still be empty.                                                          *)
AttachKid(t, p, k) ==
  [t EXCEPT !.items[p] = IF Single THEN <<k>> ELSE Append(@, k),
            !.loaded = IF Single THEN @ \union {p} ELSE @,
            !.kid[k].up = IF Bound(t, p) THEN KeyOf(t, p) ELSE @]
(* remove() of the first occurrence / reset().                              *)
DetachKid(t, p, k) ==
  [t EXCEPT !.items[p] = IF Single THEN <<>> ELSE RemoveAt(@, CHOOSE i \in DOMAIN @ : @[i] = k
                                                                /\ \A j \in 1..(i - 1) : @[j] # k),
            !.loaded = IF Single THEN @ \union {p} ELSE @]

(* belongs_to writes the key at once when there is one; morph_to waits.     *)
SetRef(t, k, c) ==
  [t EXCEPT !.ref[k] = c, !.refLoaded = @ \union {k},
            !.kid[k].cat = IF Bound(t, k) /\ mapping.ref = "belongs_to" /\ c \in t.saved THEN c ELSE @]
(* reset(): the hook of a key that cannot be NULL throws, when the reference *)
(* is already empty.                                                        *)
ResetRef(t, k) ==
  [t EXCEPT !.ref[k] = NoCat, !.refLoaded = @ \union {k},
            !.kid[k].cat = IF Bound(t, k) /\ mapping.nullable THEN Null ELSE @,
            !.ok = @ /\ (mapping.nullable \/ mapping.ref = "morph_to" \/ ~Bound(t, k))]
(* set(nullptr): no hook of belongs_to runs; morph_to resets.               *)
SetNoRef(t, k) ==
  IF mapping.ref = "morph_to" THEN ResetRef(t, k)
  ELSE [t EXCEPT !.ref[k] = NoCat, !.refLoaded = @ \union {k}]

AttachTag(t, p, c, patch) ==
  [t EXCEPT !.tags[p] = IF c \in ToSet(@) THEN @ ELSE Append(@, c),
            !.patched = IF patch THEN @ \union {<<p, c>>} ELSE @]
DetachTag(t, p, c) == [t EXCEPT !.tags[p] = Remove(@, c)]

(* attach(key): the entity of the identity map, or a stub tracked as        *)
(* Managed without looking at the table.                                    *)
Stub(t, c) == IF Tracked(t, c) THEN t ELSE Track([t EXCEPT !.saved = @ \union {c}], c, "Managed")
AttachTagId(t, p, c, patch) == AttachTag(Stub(t, c), p, c, patch)

(* The loaders: rows whose key matches, hydrated; whatever the wrapper held *)
(* is replaced.  A has_one takes the last row.                              *)
LoadKids(t, p) ==
  LET found == SetToSeq({k \in Kids : t.rows[k] # Absent /\ t.rows[k].up = KeyOf(t, p)})
      kept  == IF Single /\ found # <<>> THEN <<Last(found)>> ELSE found
  IN  [Each(Hydrate, t, found) EXCEPT !.items[p] = kept, !.base[p] = kept, !.loaded = @ \union {p}]
LoadTags(t, p) ==
  LET found == SetToSeq({c \in t.cats : <<KeyOf(t, p), c>> \in t.pivot})
  IN  [Each(Hydrate, t, found) EXCEPT !.tags[p] = found, !.tagBase[p] = found, !.tagsLoaded = @ \union {p},
                                      !.patched = {x \in @ : x[1] # p}]
LoadRef(t, k) ==
  LET c == IF t.kid[k].cat \in t.cats THEN t.kid[k].cat ELSE NoCat
  IN  [(IF c = NoCat THEN t ELSE Hydrate(t, c)) EXCEPT !.ref[k] = c, !.refBase[k] = c,
                                                       !.refLoaded = @ \union {k}]

(* sync_by_ids().                                                           *)
SyncTags(t, p, wanted) ==
  LET loaded == IF p \in t.tagsLoaded THEN t ELSE LoadTags(t, p)
      joined == Each(LAMBDA acc, c : AttachTagId(acc, p, c, FALSE), loaded,
                     SetToSeq(wanted \ ToSet(loaded.tags[p])))
  IN  [joined EXCEPT !.tags[p] = SelectSeq(@, LAMBDA c : c \in wanted \/ c \notin joined.saved)]

-----------------------------------------------------------------------------
(* RelationChangeProcessor.                                                 *)

(* prepare(): cascade persist, until nothing new is tracked; parents reach  *)
(* kids and kids reach cats, so two rounds do.                              *)
PersistAll(t, targets) == Each(LAMBDA acc, o : IF Tracked(acc, o) THEN acc ELSE Persist(acc, o), t, targets)
PrepareOne(t, o) ==
  IF ~mapping.persists THEN t
  ELSE IF o \in Parents THEN PersistAll(PersistAll(t, Added(t, o)), TagsAdded(t, o))
  ELSE IF o \in Kids /\ t.ref[o] # NoCat /\ (RefDirty(t, o) \/ mapping.ref = "morph_to")
  THEN PersistAll(t, <<t.ref[o]>>)
  ELSE t
PrepareRound(t) == Each(PrepareOne, t, t.order)
Prepare(t)      == PrepareRound(PrepareRound(t))

(* refresh_snapshot(): every member becomes the original, written or not.   *)
RefreshSnapshot(t, k) == IF Tracked(t, k) THEN [t EXCEPT !.orig[k] = t.kid[k]] ELSE t

(* The direct UPDATE of has_many and has_one.                               *)
WriteUp(t, k, key) ==
  LET given     == [t EXCEPT !.kid[k].up = key]
      refreshed == RefreshSnapshot(given, k)
  IN  IF t.rows[k] = Absent THEN refreshed ELSE WriteRow(given, k, [t.rows[k] EXCEPT !.up = key], refreshed)

FlushAttached(t, p, k) ==
  IF Morph THEN IF Tracked(t, k) THEN [t EXCEPT !.kid[k].up = p] ELSE Fail(t)
  ELSE IF k \notin t.saved \/ (Single /\ ~Tracked(t, k)) THEN Fail(t)
  ELSE WriteUp(t, k, p)

ForgetsDetached(t, p, k) == t                         \* mutant: removed targets are skipped
FlushDetached(t, p, k) ==
  IF mapping.removes THEN MarkRemoved(t, k)
  ELSE IF ~mapping.nullable THEN Fail(t)
  ELSE IF Morph THEN [t EXCEPT !.kid[k].up = Null]
  ELSE WriteUp(t, k, Null)

FlushKids(t, p) ==
  LET gone == Dropped(t, p)
      more == Added(t, p)
  IN  IF p \notin t.saved /\ (more # <<>> \/ (gone # <<>> /\ ~Single)) THEN Fail(t)
      ELSE Each(LAMBDA acc, k : FlushDetached(acc, p, k),
                Each(LAMBDA acc, k : FlushAttached(acc, p, k), t, more), gone)

(* many_to_many: pivot rows inserted, patched, deleted; the pair is the      *)
(* pivot's primary key, `paid' the rows whose payload column was set.       *)
LinkTag(t, p, c) ==
  IF \/ p \notin t.saved \/ c \notin t.saved \/ <<p, c>> \in t.pivot
     \/ mapping.enforced /\ ~(p \in t.parents /\ c \in t.cats)
  THEN Fail(t)
  ELSE [t EXCEPT !.pivot = @ \union {<<p, c>>}, !.paid = @ \union ({<<p, c>>} \intersect t.patched)]
PatchTag(t, p, c) == [t EXCEPT !.paid = @ \union ({<<p, c>>} \intersect t.patched \intersect t.pivot)]
KeepsPivotRow(t, p, c) == t                           \* mutant: the pivot row stays
UnlinkTag(t, p, c) ==
  LET unlinked == [t EXCEPT !.pivot = @ \ {<<p, c>>}, !.paid = @ \ {<<p, c>>}]
  IN  IF ~mapping.removes THEN unlinked
      ELSE IF Tracked(t, c) THEN MarkRemoved(unlinked, c)
      ELSE IF Referenced(unlinked, c) THEN Fail(t) ELSE [unlinked EXCEPT !.cats = @ \ {c}]
FlushTags(t, p) ==
  LET gone == TagsDropped(t, p)
      more == TagsAdded(t, p)
  IN  IF p \notin t.saved /\ (more # <<>> \/ gone # <<>>) THEN Fail(t)
      ELSE Each(LAMBDA acc, c : UnlinkTag(acc, p, c),
                Each(LAMBDA acc, c : PatchTag(acc, p, c),
                     Each(LAMBDA acc, c : LinkTag(acc, p, c), t, more), Minus(t.tags[p], more)), gone)

(* belongs_to and morph_to copy the key of the target and keep it in the     *)
(* kid's own column; the second flush writes it.                            *)
PointRef(t, k) == IF t.ref[k] \in t.saved THEN [t EXCEPT !.kid[k].cat = t.ref[k]] ELSE Fail(t)
ClearRef(t, k) == IF mapping.nullable THEN [t EXCEPT !.kid[k].cat = Null] ELSE Fail(t)
FlushRef(t, k) ==
  IF ~RefDirty(t, k) THEN t ELSE IF t.ref[k] = NoCat THEN ClearRef(t, k) ELSE PointRef(t, k)

ProcessOne(t, o) ==
  IF ~Tracked(t, o) THEN t
  ELSE IF o \in Parents THEN (LET kids == FlushKids(t, o) IN IF kids.ok THEN FlushTags(kids, o) ELSE kids)
  ELSE IF o \in Kids THEN FlushRef(t, o) ELSE t
Process(t) == Each(ProcessOne, t, t.order)

AcceptsItems(t) ==                                    \* mutant: the other baselines stay
  [t EXCEPT !.base = [p \in Parents |-> IF Tracked(t, p) THEN t.items[p] ELSE @[p]]]
Accept(t) ==
  LET parents == {p \in Parents : Tracked(t, p)}
      kids    == {k \in Kids : Tracked(t, k)}
  IN  [t EXCEPT !.base = [p \in Parents |-> IF p \in parents THEN t.items[p] ELSE @[p]],
                !.tagBase = [p \in Parents |-> IF p \in parents THEN t.tags[p] ELSE @[p]],
                !.patched = {x \in @ : x[1] \notin parents},
                !.refBase = [k \in Kids |-> IF k \in kids THEN t.ref[k] ELSE @[k]]]

(* flush_pipeline() and accept().                                           *)
OneFlush(t) == t                                      \* mutant: no second flush
SecondFlush(t) == IF t.ok THEN Flush(t) ELSE t
Pipeline(t) ==
  LET flushed   == Flush(Prepare(t))
      processed == IF flushed.ok THEN Process(flushed) ELSE flushed
      written   == SecondFlush(processed)
  IN  IF written.ok THEN Accept(written) ELSE written

-----------------------------------------------------------------------------
(* Tables the program can find: a has_one has one kid, constraints hold.    *)
Consistent(t) ==
  /\ Single => \A j, k \in Kids : /\ t.rows[j] # Absent /\ t.rows[k] # Absent
                                   /\ t.rows[j].up = t.rows[k].up /\ t.rows[j].up \in Parents => j = k
  /\ \A k \in Kids : t.rows[k] # Absent =>
       /\ t.rows[k].up \in t.parents \union (IF mapping.nullable THEN {Null} ELSE {})
       /\ t.rows[k].cat \in t.cats \union (IF mapping.nullable THEN {Null} ELSE {})
  /\ t.pivot \subseteq t.parents \X t.cats

(* A session that has queried everything with its relations.                *)
Included(t, rows, Load(_, _)) == Each(Load, Each(Hydrate, t, rows), rows)
WithKids(t) == Included(t, SetToSeq(t.parents), LoadKids)
WithTags(t) == Included(t, SetToSeq(t.parents), LoadTags)
WithRefs(t) == Included(t, SetToSeq({k \in Kids : t.rows[k] # Absent}), LoadRef)
Opened(t)   == WithRefs(WithTags(WithKids(t)))

Init ==
  /\ mapping \in Mappings
  /\ \E t \in Stores :
       /\ Consistent(t)
       /\ LET empty == Fresh(t.parents, t.cats, t.rows, t.pivot) IN s \in {empty, Opened(empty)}
  /\ edits = 0 /\ did = "edit"

-----------------------------------------------------------------------------
(* What the user's code does.                                               *)
Edit(after) ==
  /\ edits < MaxEdits /\ edits' = edits + 1
  /\ \E t \in {after} : t.ok /\ t # s /\ s' = t
  /\ did' = "edit" /\ UNCHANGED mapping

Find(o)            == Stored(s, o) /\ Edit(Hydrate(s, o))
UserPersists(o)    == (Stored(s, o) => o \in s.saved) /\ Edit(Persist(s, o))
UserRemoves(o)     == Edit(MarkRemoved(s, o))
Usable(o)          == Stored(s, o) => o \in s.saved   \* the program holds the object
UserAttaches(p, k) == Usable(p) /\ Usable(k) /\ Edit(AttachKid(s, p, k))
UserDetaches(p, k) == (k \in ToSet(s.items[p]) \/ (Single /\ Usable(p))) /\ Edit(DetachKid(s, p, k))
UserLoads(p)       == Bound(s, p) /\ p \notin s.loaded /\ Edit(LoadKids(s, p))
UserSets(k, c)     == Usable(k) /\ Usable(c) /\ Edit(SetRef(s, k, c))
(* What a reset() that throws has done stays when the program goes on.      *)
UserResets(k)      == Usable(k) /\ Edit([ResetRef(s, k) EXCEPT !.ok = TRUE])
UserSetsNone(k)    == Usable(k) /\ Edit(SetNoRef(s, k))
UserLoadsRef(k)    == Bound(s, k) /\ k \notin s.refLoaded /\ Edit(LoadRef(s, k))
UserTags(p, c)     == Usable(p) /\ Usable(c) /\ \E patch \in BOOLEAN : Edit(AttachTag(s, p, c, patch))
UserTagsById(p, c) == Bound(s, p) /\ Stored(s, c) /\ Edit(AttachTagId(s, p, c, FALSE))
UserUntags(p, c)   == c \in ToSet(s.tags[p]) /\ Edit(DetachTag(s, p, c))
UserLoadsTags(p)   == Bound(s, p) /\ p \notin s.tagsLoaded /\ Edit(LoadTags(s, p))
UserSyncs(p, cs)   == Bound(s, p) /\ Edit(SyncTags(s, p, cs))

(* query().include<...>().all(): every row's relation, loaded or not.       *)
IncludeKids == Edit(WithKids(s))
IncludeTags == Edit(WithTags(s))
IncludeRefs == Edit(WithRefs(s))

(* commit(), or transaction() around the edits.                             *)
Commit ==
  /\ did = "edit" /\ UNCHANGED <<mapping, edits>>
  /\ \E t \in {Pipeline(s)} :
       \/ t.ok /\ s' = t /\ did' = "commit"
       \/ ~t.ok /\ s' = s /\ did' = "refused"

Next ==
  \/ \E o \in Objects : Find(o) \/ UserPersists(o) \/ UserRemoves(o)
  \/ \E p \in Parents, k \in Kids : UserAttaches(p, k) \/ UserDetaches(p, k)
  \/ \E k \in Kids, c \in Cats : UserSets(k, c)
  \/ \E p \in Parents, c \in Cats : UserTags(p, c) \/ UserTagsById(p, c) \/ UserUntags(p, c)
  \/ \E p \in Parents, cs \in SUBSET s.cats : UserSyncs(p, cs)
  \/ \E p \in Parents : UserLoads(p) \/ UserLoadsTags(p)
  \/ \E k \in Kids : UserResets(k) \/ UserSetsNone(k) \/ UserLoadsRef(k)
  \/ IncludeKids \/ IncludeTags \/ IncludeRefs
  \/ Commit

Spec == Init /\ [][Next]_vars

-----------------------------------------------------------------------------
(* Properties.  `s' is the session as the user left it, s' as the commit    *)
(* leaves it.                                                              *)

(* A commit of edits made before it, not of a graph saved in it.            *)
Committed == did' = "commit" /\ edits' = edits
Wants(p, k)  == k \in ToSet(Added(s, p))
Drops(p, k)  == k \in ToSet(Dropped(s, p))
Alive(k)     == s'.rows[k] # Absent

(* Two collections that both change their mind about a kid in one commit    *)
(* are applied in tracking order: the last one wins.                        *)
Contested(p, k) == \E q \in Parents \ {p} : Tracked(s, q) /\ (Wants(q, k) \/ Drops(q, k))

(* A kid attached to a parent has, after the commit, a row with that        *)
(* parent's key, and one taken away has a row without it or none, unless    *)
(* another collection disputes it.                                          *)
AttachmentsArrive ==
  [][Committed => \A p \in Parents, k \in Kids : Tracked(s', p) /\ ~Contested(p, k) =>
       /\ Wants(p, k) /\ Alive(k) => s'.rows[k].up = p
       /\ Drops(p, k) /\ Alive(k) => s'.rows[k].up # p]_vars

(* After a commit the pivot rows of a parent are its collection, when it    *)
(* was loaded, and in any case contain it with the patches given.           *)
PivotIsTheCollection ==
  [][Committed => \A p \in Parents : Tracked(s', p) =>
       LET linked == {c \in s'.cats : <<p, c>> \in s'.pivot}
           held   == ToSet(s'.tags[p]) \intersect s'.cats
       IN  /\ held \subseteq linked
           /\ p \in s.tagsLoaded => linked = held
           /\ \A c \in ToSet(s.tags[p]) : <<p, c>> \in s.patched => <<p, c>> \in s'.paid]_vars

(* refresh_snapshot() covers a reference whose key came with this commit.   *)
Hidden(k) == ~Morph /\ RefDirty(s, k) /\ \E p \in Parents : Wants(p, k) \/ Drops(p, k)
InStep(k) == s.orig[k] \in {Absent, s.rows[k]}

(* After a commit the row of a tracked kid whose snapshot was its row says   *)
(* what the object says.                                                    *)
NoWriteIsLost ==
  [][Committed => \A k \in Kids : s'.status[k] = "Managed" /\ Alive(k) /\ InStep(k) /\ ~Hidden(k) =>
                    s'.rows[k] = s'.kid[k]]_vars

(* A commit leaves nothing behind: another one would write nothing new.      *)
Database(t) == <<t.parents, t.cats, t.rows, t.pivot, t.paid>>
CommitSettles == [][Committed => \E again \in {Pipeline(s')} :
                                   again.ok /\ Database(again) = Database(s')]_vars

=============================================================================
