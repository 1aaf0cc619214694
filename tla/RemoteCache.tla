----------------------------- MODULE RemoteCache -----------------------------
(***************************************************************************)
(* The query cache over RedisCacheAdapter, shared by several processes.     *)
(* Every call of the backend is a step of its own: a fill is a GET, a SET    *)
(* and an SADD for each tag, an invalidation an SMEMBERS for each tag and a  *)
(* DEL for each key, and any of them may throw, before or after the server   *)
(* has acted.  A process that dies is one whose call throws.                 *)
(*                                                                         *)
(* A value is abstracted to the tags whose rows have been updated since it  *)
(* was read.  delete_keys() is the backend's default, one delete_key() each; *)
(* an override that deletes the batch at once has fewer behaviours.         *)
(***************************************************************************)
EXTENDS FiniteSets

CONSTANTS
  Processes,  \* callers of get_or_execute() and of the invalidations
  Keys,       \* cache keys, tenant prefix included
  NoKey,      \* of a call that is about no single key
  Tags,       \* non-empty tags
  Prefixes    \* what a prefix matches: [keys, tags], entries and tag sets

ASSUME PrefixAssumption == Prefixes \subseteq [keys : SUBSET Keys, tags : SUBSET Tags]

VARIABLES
  value,      \* of each key: "absent", "stored", or "corrupt" (it does not decode)
  members,    \* of the set of each tag
  pc,         \* the backend call each process makes next
  job,        \* the arguments and locals of each process's call
  reach,      \* history: what an invalidation owes to the value of each key
  owed        \* history: tags updated since the last invalidation that returned

vars == <<value, members, pc, job, reach, owed>>

(* tags: those the value was stored with, less those that have lost it;      *)
(* stale: those whose update it has missed, less those whose invalidation    *)
(* came while it was being filled.                                           *)
Reach(T, S) == [tags |-> T, stale |-> S]
(* todo: tags to register, or whose members to read; sets, found: what to    *)
(* delete; covers (history): tags not updated since the call began.          *)
Call(k, T, todo, covers) ==
  [key |-> k, tags |-> T, stale |-> {}, todo |-> todo, sets |-> {}, found |-> {}, covers |-> covers]

Live(k)        == value[k] = "stored"
Missing(k)     == {t \in reach[k].tags : k \notin members[t]}
Goto(p, step)  == pc' = [pc EXCEPT ![p] = step]
Return(p)      == Goto(p, "idle") /\ job' = [job EXCEPT ![p] = Call(NoKey, {}, {}, {})]
Becomes(k, v)  == /\ value' = [value EXCEPT ![k] = v]
                  /\ reach' = [reach EXCEPT ![k] = Reach({}, {})]
Lose(T(_))     == reach' = [k \in Keys |-> Reach(reach[k].tags \ T(k), reach[k].stale \ T(k))]

Init ==
  /\ value = [k \in Keys |-> "absent"] /\ members = [t \in Tags |-> {}]
  /\ pc = [p \in Processes |-> "idle"]
  /\ job = [p \in Processes |-> Call(NoKey, {}, {}, {})]
  /\ reach = [k \in Keys |-> Reach({}, {})] /\ owed = {}

-----------------------------------------------------------------------------
(* get_or_execute().  A hit changes nothing.                                *)
Get(p, k, T) ==
  /\ pc[p] = "idle" /\ ~Live(k)
  /\ Goto(p, IF value[k] = "corrupt" THEN "evict" ELSE "execute")
  /\ job' = [job EXCEPT ![p] = Call(k, T, {}, {})]
  /\ UNCHANGED <<value, members, reach, owed>>

(* decode_or_evict(): what the key holds by now goes, or the call fails and  *)
(* the failure is swallowed; either way it is a miss.                        *)
Evict(p) ==
  /\ pc[p] = "evict" /\ Goto(p, "execute")
  /\ Becomes(job[p].key, "absent") \/ UNCHANGED <<value, reach>>
  /\ UNCHANGED <<members, job, owed>>

Execute(p) ==
  /\ pc[p] = "execute" /\ Goto(p, "store")
  /\ UNCHANGED <<value, members, job, reach, owed>>
(* The executor throws, or should_cache() refuses; a get() by itself.       *)
ExecuteUncached(p) ==
  /\ pc[p] = "execute" /\ Return(p) /\ UNCHANGED <<value, members, reach, owed>>

Store(p) ==
  LET j == job[p] IN
  /\ pc[p] = "store"
  /\ value' = [value EXCEPT ![j.key] = "stored"]
  /\ reach' = [reach EXCEPT ![j.key] = Reach(j.tags, j.stale)]
  /\ IF j.tags = {} THEN Return(p)
     ELSE Goto(p, "register") /\ job' = [job EXCEPT ![p] = Call(j.key, {}, j.tags, {})]
  /\ UNCHANGED <<members, owed>>

(* register_tags(): one SADD for each tag.  A set that another call has     *)
(* listed and is about to delete takes the key with it.                      *)
AfterTag(p, left) ==
  IF left = {} THEN Return(p) ELSE job' = [job EXCEPT ![p].todo = left] /\ UNCHANGED pc
FirstTagOnly(p, left) == Return(p)          \* mutant: all tags but the first are forgotten
Registered(p, left) == AfterTag(p, left)
RegisterTag(p, t) ==
  LET k == job[p].key IN
  /\ pc[p] = "register" /\ t \in job[p].todo
  /\ members' = [members EXCEPT ![t] = @ \union {k}]
  /\ Lose(LAMBDA x : IF x = k /\ \E q \in Processes : t \in job[q].sets THEN {t} ELSE {})
  /\ Registered(p, job[p].todo \ {t})
  /\ UNCHANGED <<value, owed>>

-----------------------------------------------------------------------------
(* The application updates rows of T: values read before are stale, and an   *)
(* invalidation under way does not count for it.                             *)
Update(T) ==
  /\ reach' = [k \in Keys |-> [reach[k] EXCEPT !.stale = @ \union (T \intersect reach[k].tags)]]
  /\ job' = [p \in Processes |->
               [job[p] EXCEPT !.stale = IF pc[p] = "store" THEN @ \union (T \intersect job[p].tags) ELSE @,
                              !.covers = @ \ T]]
  /\ owed' = owed \union T
  /\ UNCHANGED <<value, members, pc>>

InvalidateTags(p, T) ==
  /\ pc[p] = "idle" /\ Goto(p, "collect")
  /\ job' = [job EXCEPT ![p] = Call(NoKey, {}, T, T)]
  /\ UNCHANGED <<value, members, reach, owed>>

(* SMEMBERS.  A fill that has read its rows and not yet registered t races.  *)
OnlyMembers(found, t) == members[t]         \* mutant: the keys of one tag replace those of another
AlsoMembers(found, t) == found \union members[t]
Filling(k, t) == \E q \in Processes : pc[q] = "register" /\ job[q].key = k /\ t \in job[q].todo
Collect(p, t) ==
  LET left == job[p].todo \ {t} IN
  /\ pc[p] = "collect" /\ t \in job[p].todo
  /\ Goto(p, IF left = {} THEN "drop" ELSE "collect")
  /\ job' = [q \in Processes |->
               IF q = p THEN [job[p] EXCEPT !.todo = left, !.sets = @ \union {t}, !.found = AlsoMembers(@, t)]
               ELSE [job[q] EXCEPT !.stale = @ \ {t}]]
  /\ reach' = [k \in Keys |-> IF Filling(k, t) THEN [reach[k] EXCEPT !.stale = @ \ {t}] ELSE reach[k]]
  /\ UNCHANGED <<value, members, owed>>

(* delete_keys() of the tag sets, then of the keys; of a prefix, in any       *)
(* order, and the set of a tag may match while its keys do not.               *)
Dropping(p) == pc[p] \in {"drop", "purge"}
DropSet(p, t) ==
  /\ Dropping(p) /\ t \in job[p].sets
  /\ members' = [members EXCEPT ![t] = {}]
  /\ job' = [job EXCEPT ![p].sets = @ \ {t}]
  /\ Lose(LAMBDA k : IF pc[p] = "purge" /\ k \in members[t] \ job[p].found THEN {t} ELSE {})
  /\ UNCHANGED <<value, pc, owed>>
DropKey(p, k) ==
  /\ Dropping(p) /\ k \in job[p].found /\ (pc[p] = "drop" => job[p].sets = {})
  /\ Becomes(k, "absent")
  /\ job' = [job EXCEPT ![p].found = @ \ {k}]
  /\ UNCHANGED <<members, pc, owed>>
Returns(p) ==
  /\ Dropping(p) /\ job[p].sets = {} /\ job[p].found = {}
  /\ owed' = owed \ job[p].covers
  /\ Return(p) /\ UNCHANGED <<value, members, reach>>

InvalidatePrefix(p, prefix) ==
  /\ pc[p] = "idle" /\ Goto(p, "purge")
  /\ job' = [job EXCEPT ![p] = [Call(NoKey, {}, {}, {}) EXCEPT
                                  !.found = {k \in prefix.keys : value[k] # "absent"},
                                  !.sets = {t \in prefix.tags : members[t] # {}}]]
  /\ UNCHANGED <<value, members, reach, owed>>
DeleteKey(k) == Becomes(k, "absent") /\ UNCHANGED <<members, pc, job, owed>>

(* A backend call throws and so does the adapter's: what it had still to do   *)
(* is not done, and nobody knows.  A failed SADD or DEL leaves a value that   *)
(* is in none of its sets.                                                   *)
Throw(p) ==
  /\ pc[p] \in {"store", "register", "collect", "drop", "purge"}
  /\ Lose(LAMBDA k : IF pc[p] = "register" THEN IF k = job[p].key THEN job[p].todo ELSE {}
                     ELSE IF k \in job[p].found THEN Missing(k) ELSE {})
  /\ Return(p)
  /\ UNCHANGED <<value, members, owed>>

-----------------------------------------------------------------------------
(* The server: a TTL runs out; a value was written by another version.       *)
Expire(k)  == DeleteKey(k)
Corrupt(k) == Live(k) /\ Becomes(k, "corrupt") /\ UNCHANGED <<members, pc, job, owed>>

Fill(p)       == Evict(p) \/ Execute(p) \/ ExecuteUncached(p) \/ Store(p) \/ \E t \in Tags : RegisterTag(p, t)
Invalidate(p) == \/ \E t \in Tags : Collect(p, t) \/ DropSet(p, t)
                 \/ \E k \in Keys : DropKey(p, k)
                 \/ Returns(p)
Next ==
  \/ \E p \in Processes :
       \/ Fill(p) \/ Invalidate(p) \/ Throw(p)
       \/ \E k \in Keys, T \in SUBSET Tags : Get(p, k, T)
       \/ \E T \in SUBSET Tags \ {{}} : InvalidateTags(p, T)
       \/ \E prefix \in Prefixes : InvalidatePrefix(p, prefix)
  \/ \E T \in SUBSET Tags \ {{}} : Update(T)
  \/ \E k \in Keys : Expire(k) \/ Corrupt(k)

Spec == Init /\ [][Next]_vars

-----------------------------------------------------------------------------
(* Properties.                                                             *)

Doomed(k) == \E p \in Processes : Dropping(p) /\ k \in job[p].found

(* A value stored with tags is in the set of each of them, or is about to be, *)
(* or about to be deleted.  It is out of a tag's reach for good only when a   *)
(* call of the backend threw between its SET and its last SADD, or between    *)
(* the DEL of its sets and its own, when its SADD fell between another        *)
(* process's SMEMBERS and DEL, or when a prefix took the set and not the key. *)
TagsReachValues ==
  \A k \in Keys : Live(k) => \A t \in Missing(k) : Filling(k, t) \/ Doomed(k)

(* Once an invalidation that began after the last update has returned, no     *)
(* stale value is left under its tag, but one whose fill had read its rows    *)
(* before and registered the tag after the invalidation looked, one that      *)
(* another call is deleting, or one out of the tag's reach.                   *)
InvalidationReaches ==
  \A k \in Keys : Live(k) => \A t \in reach[k].stale : t \in owed \/ Doomed(k)
=============================================================================
