-------------------------------- MODULE Cache --------------------------------
(* The query cache: QueryCacheManager::get_or_execute and the invalidation    *)
(* calls over MemoryCacheAdapter, called by several threads at once.          *)
(*                                                                            *)
(* The adapter keeps two structures, each under a mutex of its own: storage_, *)
(* and the TagIndex with its two maps.  No call holds both mutexes, so a call *)
(* is a sequence of steps, one per critical section, and the calls of other   *)
(* threads run between them.                                                  *)
(*                                                                            *)
(* A cached value is abstracted to whether the rows it was read from have     *)
(* been updated since.  Time is abstracted to an entry becoming due at any    *)
(* moment; one that never does has no TTL.  A cache hit, stats() and the      *)
(* lookups of the index change no state and are no actions.                   *)
EXTENDS FiniteSets

CONSTANTS
    Threads,    \* callers of one QueryCacheManager
    Keys,       \* cache keys, tenant prefix included
    Tags        \* non-empty tags

VARIABLES
    storage,    \* storage_: an Entry, or Absent, per key
    tagToKeys,  \* TagIndex::tag_to_keys_
    keyToTags,  \* TagIndex::key_to_tags_
    pc,         \* the critical section each thread enters next
    job,        \* the arguments and locals of each thread's call
    origin      \* history: how the entry last stored under each key was filled

cache == <<storage, tagToKeys, keyToTags>>
vars  == <<storage, tagToKeys, keyToTags, pc, job, origin>>

Absent == [stale |-> FALSE, due |-> FALSE, present |-> FALSE]
Entry  == [stale : BOOLEAN, due : BOOLEAN, present : BOOLEAN]

Steps == {"idle", "unregister", "execute", "store", "register",
          "invalidate", "erase", "purge", "wipe"}

(* key, tags: the options of a fill, or the tags to invalidate.  keys: the    *)
(* keys a call still has to erase.  next: where the thread goes once the      *)
(* index has forgotten the key.  stale: of the result a fill holds.  raced    *)
(* (history): an invalidation of the tags has run while it held it.           *)
Jobs == [key : Keys, tags : SUBSET Tags, keys : SUBSET Keys,
         next : {"idle", "execute", "purge"}, stale : BOOLEAN, raced : BOOLEAN]

(* tags: those of the fill.  raced: see Jobs.  orphaned: the key was removed  *)
(* from the index while the entry was stored, and has not been registered     *)
(* under these tags since.                                                    *)
Origins == [tags : SUBSET Tags, raced : BOOLEAN, orphaned : BOOLEAN]

Live(k) == storage[k].present

(* The job of a call on key k with these tags and keys.                       *)
Call(k, T, K, then) == [key |-> k, tags |-> T, keys |-> K, next |-> then,
                        stale |-> FALSE, raced |-> FALSE]

Goto(th, step) == pc' = [pc EXCEPT ![th] = step]

(* The call returns, and its locals are gone.                                 *)
Return(th) ==
    /\ Goto(th, "idle")
    /\ job' = [job EXCEPT ![th] = Call(@.key, {}, {}, "idle")]

(* The ranges of the variables.  A thread that is to delete another key of    *)
(* its list has one left.                                                     *)
TypeOK ==
    /\ storage \in [Keys -> Entry]
    /\ tagToKeys \in [Tags -> SUBSET Keys]
    /\ keyToTags \in [Keys -> SUBSET Tags]
    /\ pc \in [Threads -> Steps]
    /\ job \in [Threads -> Jobs]
    /\ origin \in [Keys -> Origins]
    /\ \A th \in Threads : pc[th] = "purge" => job[th].keys # {}

Init ==
    /\ storage = [k \in Keys |-> Absent]
    /\ tagToKeys = [t \in Tags |-> {}]
    /\ keyToTags = [k \in Keys |-> {}]
    /\ pc = [th \in Threads |-> "idle"]
    /\ \E k \in Keys : job = [th \in Threads |-> Call(k, {}, {}, "idle")]
    /\ origin = [k \in Keys |->
                    [tags |-> {}, raced |-> FALSE, orphaned |-> FALSE]]

-----------------------------------------------------------------------------
(* The critical sections of TagIndex.                                         *)

(* unregister_locked for every key of K: the key leaves the set of each tag   *)
(* it is registered under, then loses its own entry.                          *)
Unregistered(K) ==
    /\ tagToKeys' = [t \in Tags |->
                        tagToKeys[t] \ {k \in K : t \in keyToTags[k]}]
    /\ keyToTags' = [k \in Keys |-> IF k \in K THEN {} ELSE keyToTags[k]]

(* History: the entries stored under K at that moment are out of the reach of *)
(* their tags.                                                                *)
Orphaned(K) ==
    origin' = [k \in Keys |-> IF k \in K /\ Live(k)
                              THEN [origin[k] EXCEPT !.orphaned = TRUE]
                              ELSE origin[k]]

Registered(key, T) ==
    /\ tagToKeys' = [t \in Tags |-> IF t \in T THEN tagToKeys[t] \union {key}
                                               ELSE tagToKeys[t]]
    /\ keyToTags' = [keyToTags EXCEPT ![key] = @ \union T]

(* The keys registered under some tag of T.                                   *)
KeysOfEvery(T) ==  \* mutant: under every tag of T
    {k \in Keys : \A t \in T : k \in tagToKeys[t]}

KeysOf(T) == UNION {tagToKeys[t] : t \in T}

-----------------------------------------------------------------------------
(* get_or_execute(options, executor).                                         *)

(* provider_->get: nothing stored under the key.                              *)
Miss(th, k, T) ==
    /\ pc[th] = "idle"
    /\ ~Live(k)
    /\ Goto(th, "execute")
    /\ job' = [job EXCEPT ![th] = Call(k, T, {}, "execute")]
    /\ UNCHANGED <<cache, origin>>

(* provider_->get: the entry has expired.  It is erased under the storage     *)
(* mutex; the index is told in a critical section of its own.  A has() or     *)
(* get() called on the provider directly does the same and fills nothing.     *)
Expired(th, k, T, then) ==
    /\ pc[th] = "idle"
    /\ Live(k) /\ storage[k].due
    /\ storage' = [storage EXCEPT ![k] = Absent]
    /\ Goto(th, "unregister")
    /\ job' = [job EXCEPT ![th] = Call(k, T, {}, then)]
    /\ UNCHANGED <<tagToKeys, keyToTags, origin>>

(* TagIndex::unregister, called by get() and by delete_key().                 *)
Unregister(th) ==
    /\ pc[th] = "unregister"
    /\ Unregistered({job[th].key})
    /\ Orphaned({job[th].key})
    /\ IF job[th].next = "idle" \/ (job[th].next = "purge" /\ job[th].keys = {})
       THEN Return(th)
       ELSE Goto(th, job[th].next) /\ UNCHANGED job
    /\ UNCHANGED storage

(* executor() reads the rows and should_cache accepts the result.             *)
Execute(th) ==
    /\ pc[th] = "execute"
    /\ Goto(th, "store")
    /\ job' = [job EXCEPT ![th].stale = FALSE, ![th].raced = FALSE]
    /\ UNCHANGED <<cache, origin>>

(* executor() throws, or should_cache refuses the result.                     *)
ExecuteUncached(th) ==
    /\ pc[th] = "execute"
    /\ Return(th)
    /\ UNCHANGED <<cache, origin>>

(* provider_->set replaces whatever the key holds.  The tags come after.      *)
Store(th) ==
    LET k == job[th].key IN
    /\ pc[th] = "store"
    /\ storage' = [storage EXCEPT
                     ![k] = [stale |-> job[th].stale, due |-> FALSE,
                             present |-> TRUE]]
    /\ origin' = [origin EXCEPT
                     ![k] = [tags |-> job[th].tags, raced |-> job[th].raced,
                             orphaned |-> FALSE]]
    /\ IF job[th].tags = {} THEN Return(th)
       ELSE Goto(th, "register") /\ UNCHANGED job
    /\ UNCHANGED <<tagToKeys, keyToTags>>

(* register_tags, through CacheTagRegistrar.                                  *)
Register(th) ==
    LET k == job[th].key IN
    /\ pc[th] = "register"
    /\ Registered(k, job[th].tags)
    /\ origin' = [origin EXCEPT ![k].orphaned =
                     @ /\ ~(origin[k].tags \subseteq keyToTags'[k])]
    /\ Return(th)
    /\ UNCHANGED storage

-----------------------------------------------------------------------------
(* The invalidation calls.                                                    *)

(* The application updates the rows the tags T stand for, and goes on to      *)
(* invalidate them.                                                           *)
Update(th, T) ==
    /\ pc[th] = "idle"
    /\ Goto(th, "invalidate")
    /\ storage' = [k \in Keys |->
                     IF Live(k) /\ origin[k].tags \intersect T # {}
                     THEN [storage[k] EXCEPT !.stale = TRUE] ELSE storage[k]]
    /\ job' = [u \in Threads |->
                 IF u = th THEN [job[th] EXCEPT !.tags = T]
                 ELSE IF pc[u] = "store" /\ job[u].tags \intersect T # {}
                      THEN [job[u] EXCEPT !.stale = TRUE] ELSE job[u]]
    /\ UNCHANGED <<tagToKeys, keyToTags, origin>>

(* A fill that has read rows tagged by T and not yet registered them, or an   *)
(* entry that has lost its tags, races with the invalidation of T.            *)
Races(k, T) ==
    /\ Live(k)
    /\ origin[k].tags \intersect T # {}
    /\ \/ origin[k].orphaned
       \/ \E u \in Threads : /\ pc[u] = "register" /\ job[u].key = k
                             /\ job[u].tags = origin[k].tags

(* invalidate_tags, first half: the index forgets every key under a tag of T. *)
InvalidateTags(th, T) ==
    /\ \/ pc[th] = "idle"
       \/ pc[th] = "invalidate" /\ T = job[th].tags
    /\ Unregistered(KeysOf(T))
    /\ Goto(th, "erase")
    /\ job' = [u \in Threads |->
                 IF u = th THEN [job[th] EXCEPT !.keys = KeysOf(T), !.tags = T]
                 ELSE IF pc[u] = "store" /\ job[u].tags \intersect T # {}
                      THEN [job[u] EXCEPT !.raced = TRUE] ELSE job[u]]
    /\ origin' = [k \in Keys |-> IF Races(k, T)
                                 THEN [origin[k] EXCEPT !.raced = TRUE]
                                 ELSE origin[k]]
    /\ UNCHANGED storage

(* invalidate_tags, second half: the keys it found leave the storage.         *)
EraseKeysStillIndexed(th) ==  \* mutant: looks the keys up after the fact
    /\ pc[th] = "erase"
    /\ storage' = [k \in Keys |-> IF k \in KeysOf(job[th].tags) THEN Absent
                                                               ELSE storage[k]]
    /\ Return(th)
    /\ UNCHANGED <<tagToKeys, keyToTags, origin>>

EraseKeys(th) ==
    /\ pc[th] = "erase"
    /\ storage' = [k \in Keys |-> IF k \in job[th].keys THEN Absent
                                                        ELSE storage[k]]
    /\ Return(th)
    /\ UNCHANGED <<tagToKeys, keyToTags, origin>>

(* delete_key, first half; invalidate and invalidate_key are the same call.   *)
DeleteKey(th, k) ==
    /\ \/ pc[th] = "idle" /\ job' = [job EXCEPT ![th] = Call(k, {}, {}, "purge")]
       \/ /\ pc[th] = "purge" /\ k \in job[th].keys
          /\ job' = [job EXCEPT ![th].key = k, ![th].keys = @ \ {k}]
    /\ storage' = [storage EXCEPT ![k] = Absent]
    /\ Goto(th, "unregister")
    /\ UNCHANGED <<tagToKeys, keyToTags, origin>>

(* invalidate_prefix: the stored keys with the prefix, K among them, are      *)
(* listed under the mutex and deleted one by one without it.                  *)
InvalidatePrefix(th, K) ==
    /\ pc[th] = "idle"
    /\ \E k \in K : Live(k)
    /\ Goto(th, "purge")
    /\ job' = [job EXCEPT ![th].keys = {k \in K : Live(k)}, ![th].next = "purge"]
    /\ UNCHANGED <<cache, origin>>

(* clear_cache and dispose: first the storage, then the index.                *)
ClearStorage(th) ==
    /\ pc[th] = "idle"
    /\ storage' = [k \in Keys |-> Absent]
    /\ Goto(th, "wipe")
    /\ UNCHANGED <<tagToKeys, keyToTags, job, origin>>

ClearIndex(th) ==
    /\ pc[th] = "wipe"
    /\ tagToKeys' = [t \in Tags |-> {}]
    /\ keyToTags' = [k \in Keys |-> {}]
    /\ Orphaned(Keys)
    /\ Return(th)
    /\ UNCHANGED storage

(* The TTL of an entry runs out.                                              *)
Elapse(k) ==
    /\ Live(k)
    /\ storage' = [storage EXCEPT ![k].due = TRUE]
    /\ UNCHANGED <<tagToKeys, keyToTags, pc, job, origin>>

-----------------------------------------------------------------------------
Fill(th) == Execute(th) \/ ExecuteUncached(th) \/ Store(th) \/ Register(th)

Next ==
    \/ \E th \in Threads, k \in Keys :
          \/ \E T \in SUBSET Tags :
                \/ Miss(th, k, T)
                \/ Expired(th, k, T, "execute")
          \/ Expired(th, k, {}, "idle")
          \/ DeleteKey(th, k)
    \/ \E th \in Threads :
          \/ Unregister(th) \/ Fill(th) \/ EraseKeys(th)
          \/ ClearStorage(th) \/ ClearIndex(th)
          \/ \E T \in SUBSET Tags \ {{}} : Update(th, T) \/ InvalidateTags(th, T)
          \/ \E K \in SUBSET Keys : InvalidatePrefix(th, K)
    \/ \E k \in Keys : Elapse(k)

Spec == Init /\ [][Next]_vars

-----------------------------------------------------------------------------
(* The two maps of the index are converses: unregister_locked, which walks    *)
(* key_to_tags_ only, can leave no key behind in tag_to_keys_.                *)
IndexConverse ==
    \A k \in Keys, t \in Tags : k \in tagToKeys[t] <=> t \in keyToTags[k]

(* A call that has the key in hand and has yet to erase or register it.       *)
Pending(k) ==
    \/ \E th \in Threads : pc[th] = "erase" /\ k \in job[th].keys
    \/ \E th \in Threads : /\ pc[th] = "register" /\ job[th].key = k
                            /\ job[th].tags = origin[k].tags

(* Tag invalidation reaches every entry that was stored with tags, whichever  *)
(* calls overlapped, with one exception: a call that dropped the key had      *)
(* erased an older entry, and unregistered the key once this one was stored.  *)
EntriesStayTagged ==
    \A k \in Keys :
        Live(k) => \/ origin[k].tags \subseteq keyToTags[k]
                   \/ origin[k].orphaned
                   \/ Pending(k)

(* When no call is at work on it, an entry older than the last update of its  *)
(* rows is one whose fill was under way when the update was invalidated, or   *)
(* one already out of reach of its tags then: an update that invalidates its  *)
(* tags otherwise leaves no stale entry behind.                               *)
StaleOnlyIfRaced ==
    \A k \in Keys :
        Live(k) /\ storage[k].stale =>
            \/ origin[k].raced
            \/ \E th \in Threads :
                  \/ /\ pc[th] = "invalidate"
                     /\ job[th].tags \intersect origin[k].tags # {}
                  \/ pc[th] = "erase" /\ k \in job[th].keys

(* CHANGELOG.md:30 and README.md:234: a thread-safe adapter whose index holds *)
(* the tags of its entries.  When every call has returned, each entry stored  *)
(* with tags is registered under them.                                        *)
EveryEntryTagged ==
    (\A th \in Threads : pc[th] = "idle") =>
        \A k \in Keys : Live(k) => origin[k].tags \subseteq keyToTags[k]
=============================================================================
