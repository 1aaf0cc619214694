------------------------------ MODULE MCGraph ------------------------------
(* Small instances of Relations and Graph for TLC.                           *)
EXTENDS Graph

CONSTANTS p1, p2, k1, k2, c1, c2

TwoParents == {p1, p2}
TwoKids    == {k1, k2}
TwoCats    == {c1, c2}

Mapping(kind, ref, persists, removes, nullable, enforced) ==
  [kind |-> kind, ref |-> ref, persists |-> persists, removes |-> removes,
   nullable |-> nullable, enforced |-> enforced]
Annotations ==
  {Mapping("has_many", "belongs_to", TRUE, TRUE, FALSE, FALSE),
   Mapping("has_one", "belongs_to", FALSE, FALSE, TRUE, TRUE),
   Mapping("morph_many", "morph_to", FALSE, FALSE, TRUE, TRUE),
   Mapping("morph_one", "morph_to", TRUE, TRUE, TRUE, FALSE)}

Row(up, cat) == [up |-> up, cat |-> cat]
Rows(one, two) == [k \in TwoKids |-> IF k = k1 THEN one ELSE two]
Store(parents, cats, rows, pivot) == [parents |-> parents, cats |-> cats, rows |-> rows, pivot |-> pivot]
Tables ==
  {Store({}, {}, Rows(Absent, Absent), {}),
   Store({p1, p2}, {c1}, Rows(Row(p1, c1), Absent), {<<p1, c1>>}),
   Store({p1}, {}, Rows(Row(p1, Null), Row(Null, Null)), {})}

Item(how, o, keyed, posts) == [how |-> how, of |-> o, keyed |-> keyed, posts |-> posts]
Kid(item, cat)   == [item |-> item, cat |-> cat]
Tag(item, pivot) == [item |-> item, pivot |-> pivot]
None      == [how |-> "none"]
Clear     == [how |-> "clear"]
Cat(how)  == [how |-> how, cat |-> c1]
Old(o)    == Item("payload", o, TRUE, FALSE)
Made(o) == Item("payload", o, FALSE, FALSE)
Flushed(o) == Item("payload", o, FALSE, TRUE)
Object(o) == Item("entity", o, FALSE, FALSE)
Id(o)     == Item("id", o, FALSE, FALSE)
Payload(root, keyed, kids, clears, tags, prune) ==
  [root |-> root, keyed |-> keyed, kids |-> kids, clears |-> clears, tags |-> tags, prune |-> prune]
Graphs ==
  {Payload(p1, TRUE, <<Kid(Old(k1), None), Kid(Made(k2), Cat("payload"))>>, FALSE, <<Tag(Id(c1), FALSE)>>, TRUE),
   Payload(p1, TRUE, <<Kid(Id(k2), None)>>, FALSE, <<Tag(Made(c2), TRUE)>>, TRUE),
   Payload(p2, FALSE, <<Kid(Made(k2), Cat("payload"))>>, FALSE, <<Tag(Old(c2), FALSE)>>, FALSE),
   Payload(p1, FALSE, <<Kid(Made(k1), None), Kid(Flushed(k2), None)>>, FALSE,
           <<Tag(Made(c1), TRUE), Tag(Flushed(c2), FALSE)>>, TRUE),
   Payload(p2, TRUE, <<Kid(Object(k1), None)>>, FALSE, <<Tag(Object(c2), FALSE), Tag(Id(c1), TRUE)>>, TRUE),
   Payload(p2, TRUE, <<Kid(Old(k1), Clear)>>, FALSE, <<>>, FALSE),
   Payload(p1, TRUE, <<Kid(Old(k2), Cat("id"))>>, FALSE, <<>>, FALSE),
   Payload(p1, TRUE, <<>>, TRUE, <<>>, FALSE)}
=============================================================================
