------------------------------- MODULE Graph -------------------------------
(***************************************************************************)
(* Graph persistence (include/metal/graph_persistence.hpp): a payload names *)
(* a root, the entities hanging from it and what becomes of the relations,  *)
(* and save_graph() or update_graph() turns it into entities, wrapper       *)
(* operations and flushes of the session modelled in Relations.  Payloads   *)
(* are of a parent, with kids that may name a cat.                          *)
(***************************************************************************)
EXTENDS Relations

CONSTANTS
  Payloads,         \* the payloads explored: records of PayloadType
  NoPayload

CatInputs == {[how |-> "none"], [how |-> "clear"]}
             \union [how : {"payload", "id"}, cat : Cats]
ItemType  ==                            \* add(payload), add(entity), add_id()
  [how : {"payload", "entity", "id"}, of : Kids \union Cats,
   keyed : BOOLEAN,                     \* set<primary key> was called
   posts : BOOLEAN]                     \* has relations that need its own key
KidInput  == [item : ItemType, cat : CatInputs]
TagInput  == [item : ItemType, pivot : BOOLEAN]       \* with a pivot_patch
PayloadType ==
  [root : Parents, keyed : BOOLEAN,
   kids : Seq(KidInput), clears : BOOLEAN,
   tags : Seq(TagInput),
   prune : BOOLEAN]                    \* prune_missing

VARIABLE graph      \* the payload of the last save that was committed

graphVars == <<vars, graph>>

-----------------------------------------------------------------------------
(* find_by_key(): the identity map, else the row.                           *)
Finds(t, o)     == Tracked(t, o) \/ Stored(t, o)

(* A new object; a primary key in the payload is copied into it.            *)
NewObject(t, o, keyed) ==
  [t EXCEPT !.saved = IF keyed THEN @ \union {o} ELSE @,
            !.kid = IF o \in Kids THEN [@ EXCEPT ![o] = Blank] ELSE @,
            !.ref = IF o \in Kids THEN [@ EXCEPT ![o] = NoCat] ELSE @,
            !.refBase = IF o \in Kids THEN [@ EXCEPT ![o] = NoCat] ELSE @]
Entity(t, o, keyed) == IF keyed /\ Finds(t, o) THEN Hydrate(t, o) ELSE NewObject(t, o, keyed)

Then(t, F(_))   == IF t.ok THEN F(t) ELSE t

(* materialize(): the entity is found or made and given what must exist     *)
(* before it, then it is persisted, and flushed when the rest needs its key. *)
KeyFlush(t, o, hasPost) == IF hasPost /\ t.status[o] = "New" THEN Flush(t) ELSE t
Materialize(t, o, hasPost) ==
  IF ~t.ok THEN t ELSE KeyFlush(IF Tracked(t, o) THEN t ELSE Persist(t, o), o, hasPost)

(* apply_single_payload / apply_single_key / clear_single of the kid's cat. *)
PointAt(t, k, c) == SetRef([t EXCEPT !.kid[k].cat = c], k, c)
CatPayload(t, k, c) ==
  LET cat      == Materialize(Entity(t, c, Finds(t, c)), c, FALSE)
      keyed(u) == IF c \in u.saved THEN u ELSE Flush(u)
      point(u) == IF c \in u.saved THEN PointAt(u, k, c) ELSE Fail(u)
  IN  Then(Then(cat, keyed), point)
CatKey(t, k, c) == PointAt(IF Finds(t, c) THEN Hydrate(t, c) ELSE [t EXCEPT !.saved = @ \union {c}], k, c)
CatCleared(t, k) ==
  LET gone == IF mapping.removes /\ mapping.ref = "belongs_to" /\ t.ref[k] # NoCat
              THEN MarkRemoved(t, t.ref[k]) ELSE t
  IN  IF mapping.nullable THEN ResetRef([gone EXCEPT !.kid[k].cat = Null], k) ELSE Fail(gone)
ApplyCat(t, k, input) ==
  CASE input.how = "none"    -> t
    [] input.how = "payload" -> CatPayload(t, k, input.cat)
    [] input.how = "id"      -> CatKey(t, k, input.cat)
    [] input.how = "clear"   -> CatCleared(t, k)

(* The entity an item names: a payload, an object of the program, or a key  *)
(* (stub_by_key() tracks a stub when there is no row).                      *)
ItemKid(t, input) ==
  LET item == input.item k == item.of
  IN  CASE item.how = "payload" -> Materialize(ApplyCat(Entity(t, k, item.keyed), k, input.cat), k, item.posts)
        [] item.how = "entity"  -> IF Tracked(t, k) THEN t ELSE Persist(t, k)
        [] item.how = "id"      -> IF Finds(t, k) THEN Hydrate(t, k) ELSE Persist(NewObject(t, k, TRUE), k)
ItemTag(t, item) ==
  CASE item.how = "payload" -> Materialize(Entity(t, item.of, item.keyed), item.of, item.posts)
    [] item.how = "entity"  -> IF Tracked(t, item.of) THEN t ELSE Persist(t, item.of)
    [] item.how = "id"      -> Stub(t, item.of)

(* has_one and morph_one: the reference is set without being loaded.        *)
ApplySingle(t, p, input) ==
  LET k == input.item.of
      set(u) == AttachKid([u EXCEPT !.kid[k].up = KeyOf(u, p)], p, k)
  IN  Then(ItemKid(t, input), set)

(* clear_single() asks the database who is there.                           *)
ClearSingle(t, p) ==
  LET rows == SetToSeq({k \in Kids : t.rows[k] # Absent /\ t.rows[k].up = KeyOf(t, p)})
      k    == Head(rows)
      found == Hydrate(t, k)
      gone == IF rows = <<>> THEN t
              ELSE IF mapping.removes THEN MarkRemoved(found, k)
              ELSE IF mapping.nullable THEN Persist([found EXCEPT !.kid[k].up = Null], k)
              ELSE Fail(found)
      reset(u) == [u EXCEPT !.items[p] = <<>>, !.loaded = @ \union {p}]
  IN  Then(gone, reset)

(* apply_collection(): load, attach what is not there, prune what was not   *)
(* named.  Two objects with one key are one object here.                    *)
LoadedKids(t, p) == IF p \in t.loaded THEN t ELSE LoadKids(t, p)
LoadedTags(t, p) == IF p \in t.tagsLoaded THEN t ELSE LoadTags(t, p)
PrunesNothing(t, p, seen) == t                        \* mutant: prune_missing is ignored
PruneKids(t, p, seen) ==
  Each(LAMBDA acc, k : IF k \in seen \/ k \notin acc.saved THEN acc ELSE DetachKid(acc, p, k), t, t.items[p])
PruneTags(t, p, seen) == [t EXCEPT !.tags[p] = SelectSeq(@, LAMBDA c : c \in seen \/ c \notin t.saved)]

(* The items in turn; remember() sees the targets that have a key by then.  *)
Collected(t, inputs, Attach(_, _)) ==
  FoldLeft(LAMBDA acc, input :
             LET u == IF acc.t.ok THEN Attach(acc.t, input) ELSE acc.t
             IN  [t |-> u, seen |-> acc.seen \union ({input.item.of} \intersect u.saved)],
           [t |-> t, seen |-> {}], inputs)
CollectKids(t, p, inputs, prune) ==
  LET attach(u, input) ==
        LET join(v) == IF input.item.of \in ToSet(v.items[p]) THEN v ELSE AttachKid(v, p, input.item.of)
        IN  Then(ItemKid(u, input), join)
      added == Collected(LoadedKids(t, p), inputs, attach)
  IN  IF prune /\ added.t.ok THEN PruneKids(added.t, p, added.seen) ELSE added.t
CollectTags(t, p, inputs, prune) ==
  LET attach(u, input) ==
        LET join(v) == AttachTag(v, p, input.item.of, input.pivot) IN Then(ItemTag(u, input.item), join)
      added == Collected(LoadedTags(t, p), inputs, attach)
  IN  IF prune /\ added.t.ok THEN PruneTags(added.t, p, added.seen) ELSE added.t

(* The relations of the payload, in the order they were given.              *)
ApplyKids(t, g) ==
  IF Single THEN IF g.clears THEN ClearSingle(t, g.root)
                 ELSE Each(LAMBDA u, input : ApplySingle(u, g.root, input), t, g.kids)
  ELSE CollectKids(t, g.root, g.kids, g.prune)
ApplyPost(t, g) ==
  LET tags(u) == CollectTags(u, g.root, g.tags, g.prune)
  IN  Then(ApplyKids(t, g), tags)

Saved(t, g)   == LET post(u) == ApplyPost(u, g)
                 IN  Then(Materialize(Entity(t, g.root, g.keyed), g.root, TRUE), post)
Updated(t, g) == IF Finds(t, g.root) THEN ApplyPost(Hydrate(t, g.root), g) ELSE t

-----------------------------------------------------------------------------
(* A payload without a key makes a new object; an entity is one the program *)
(* has.                                                                     *)
KeyKnown(o)   == o \in s.saved \/ ~Tracked(s, o)
New(o)        == ~Tracked(s, o) /\ o \notin s.saved /\ ~Stored(s, o)
Possible(item) ==
  /\ item.how = "payload" => IF item.keyed THEN KeyKnown(item.of) ELSE New(item.of)
  /\ item.how = "entity" => Usable(item.of)
  /\ item.how = "id" => KeyKnown(item.of)
Meaningful(g) ==
  /\ IF g.keyed THEN KeyKnown(g.root) ELSE New(g.root)
  /\ \A i \in DOMAIN g.kids : LET cat == g.kids[i].cat IN
       /\ Possible(g.kids[i].item)
       /\ cat.how = "id" => mapping.ref = "belongs_to"
       /\ cat.how = "payload" => KeyKnown(cat.cat)
  /\ \A i \in DOMAIN g.tags : Possible(g.tags[i].item)
  /\ g.clears => Single
  /\ Single => Len(g.kids) <= 1

(* save_graph() and update_graph() in a transaction of their own.           *)
InTransaction(t, g) ==
  LET done == Then(t, Pipeline)
  IN  \/ done.ok /\ s' = done /\ did' = "commit" /\ graph' = g
      \/ ~done.ok /\ s' = s /\ did' = "refused" /\ UNCHANGED graph
(* Not transactional: what was done stays done when the call throws.        *)
Bare(t) == s' = [t EXCEPT !.ok = TRUE] /\ did' = "edit" /\ graph' = NoPayload

Call(after, g) ==
  /\ edits < MaxEdits /\ edits' = edits + 1 /\ UNCHANGED mapping
  /\ \E t \in {after} : \/ InTransaction(t, g)
                        \/ \E u \in {t, Then(t, Flush)} : Bare(u)

SaveGraph   == \E g \in Payloads : Meaningful(g) /\ Call(Saved(s, g), g)
UpdateGraph == \E g \in Payloads : g.keyed /\ Meaningful(g) /\ Call(Updated(s, g), g)

GraphInit == Init /\ graph = NoPayload
GraphNext == (Next /\ graph' = NoPayload) \/ SaveGraph \/ UpdateGraph
GraphSpec == GraphInit /\ [][GraphNext]_graphVars

-----------------------------------------------------------------------------
(* Properties.                                                             *)
Named(g)  == {g.kids[i].item.of : i \in DOMAIN g.kids}
Tagged(g) == {g.tags[i].item.of : i \in DOMAIN g.tags}
RowsOf(t, p) == {k \in Kids : t.rows[k] # Absent /\ t.rows[k].up = p}
LinksOf(t, p) == {c \in t.cats : <<p, c>> \in t.pivot}
Undisputed(p) == \A q \in Parents \ {p} : Tracked(s, q) => Added(s, q) = <<>> /\ Dropped(s, q) = <<>>
ByHand(p)     == Added(s, p) # <<>> \/ TagsAdded(s, p) # <<>>
Unedited(p)   == \A k \in Kids : s.status[k] # "Removed" /\ ~Drops(p, k)
Saving(g)     == did' = "commit" /\ graph' = g /\ ~g.clears /\ g.root \in s'.parents

(* A collection loaded before another one took a kid away still holds it,   *)
(* and a kid attached and taken back keeps the key attach() gave it.        *)
Strayed(k)    == IF s.rows[k] = Absent THEN s.kid[k].up # Unset
                 ELSE Tracked(s, k) /\ s.kid[k].up # s.rows[k].up
Current(p)    == /\ p \in s.loaded => ToSet(s.base[p]) = RowsOf(s, p)
                 /\ \A k \in Kids : Strayed(k) => Wants(p, k)

(* A tag without a key at its turn that a later item's flush gives one: it   *)
(* was not remembered, so prune_missing takes it away.                      *)
Keyless(item)   == ~item.posts /\ CASE item.how = "payload" -> ~item.keyed
                                     [] item.how = "entity" -> item.of \notin s.saved
                                     [] item.how = "id" -> FALSE
Flushes(item)   == item.how = "payload" /\ item.posts /\ ~item.keyed
Overtaken(g)    == {g.tags[i].item.of : i \in {i \in DOMAIN g.tags :
                      g.prune /\ Keyless(g.tags[i].item) /\ \E j \in DOMAIN g.tags : i < j /\ Flushes(g.tags[j].item)}}

(* A graph that was saved is in the database: the kids it names have the    *)
(* root's key and the tags are linked, with the patches given, overtaken     *)
(* ones apart; with prune_missing nothing else is, what was attached by hand *)
(* before apart, and without it nothing is gone.  A stale collection is not  *)
(* repaired: its kids are taken for attached.                               *)
GraphIsWritten ==
  [][\A g \in Payloads : Saving(g) /\ Undisputed(g.root) /\ Current(g.root) =>
       LET kids == RowsOf(s', g.root) IN
         /\ \A k \in Named(g) : Alive(k) => k \in kids
         /\ (Tagged(g) \ Overtaken(g)) \intersect s'.cats \subseteq LinksOf(s', g.root)
         /\ \A i \in DOMAIN g.tags : LET link == <<g.root, g.tags[i].item.of>> IN
              g.tags[i].pivot /\ link \in s'.pivot => link \in s'.paid
         /\ g.prune => /\ Single \/ kids \subseteq Named(g) \union ToSet(Added(s, g.root))
                       /\ LinksOf(s', g.root) \subseteq Tagged(g) \union ToSet(TagsAdded(s, g.root))
         /\ ~g.prune /\ ~Single /\ Unedited(g.root) => RowsOf(s, g.root) \subseteq kids]_graphVars

(* A kid that was deleted with an empty reference whose key cannot be NULL:  *)
(* no commit takes it back.                                                 *)
Emptied(k) == ~mapping.nullable /\ mapping.ref = "belongs_to" /\ s'.ref[k] = NoCat /\ RefDirty(s', k)

(* Saving the same graph again, with the keys it was given, is accepted and *)
(* writes nothing new, unless it prunes what was attached by hand and had   *)
(* no key the first time, or an item that was overtaken.                    *)
Keyed(inputs) == [i \in DOMAIN inputs |-> [inputs[i] EXCEPT !.item.keyed = TRUE]]
WithKeys(g)   == [g EXCEPT !.keyed = TRUE, !.kids = Keyed(@), !.tags = Keyed(@)]
SavingAgainChangesNothing ==
  [][\A g \in Payloads :
       /\ Saving(g) /\ Undisputed(g.root) /\ Current(g.root)
       /\ ~(g.prune /\ ByHand(g.root)) /\ Overtaken(g) = {}
       /\ \A k \in Named(g) : ~Emptied(k)
       => \E again \in {Then(Saved(s', WithKeys(g)), Pipeline)} :
            again.ok /\ Database(again) = Database(s')]_graphVars
=============================================================================
