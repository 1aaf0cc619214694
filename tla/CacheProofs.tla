----------------------------- MODULE CacheProofs -----------------------------
(***************************************************************************)
(* Proofs about module Cache, for every set of threads, keys and tags.     *)
(***************************************************************************)
EXTENDS Cache, TLAPS

(* The shape of a job, and of a job one of whose locals has changed.       *)
LEMMA CallType ==
  ASSUME NEW k \in Keys, NEW T \in SUBSET Tags, NEW K \in SUBSET Keys,
         NEW n \in {"idle", "execute", "purge"}
  PROVE  Call(k, T, K, n) \in Jobs
  BY DEF Call, Jobs

LEMMA ReturnType ==
  ASSUME TypeOK, NEW th \in Threads, Return(th)
  PROVE  /\ pc' \in [Threads -> Steps] /\ job' \in [Threads -> Jobs]
         /\ pc'[th] = "idle" /\ job'[th].keys = {}
         /\ \A u \in Threads \ {th} : pc'[u] = pc[u] /\ job'[u] = job[u]
<1>1. job[th].key \in Keys
  BY DEF TypeOK, Jobs
<1>2. Call(job[th].key, {}, {}, "idle") \in Jobs
  BY <1>1, CallType
<1>3. QED
  BY <1>2 DEF TypeOK, Return, Goto, Steps, Call

-----------------------------------------------------------------------------
(* Each variable stays in its range.                                       *)
LEMMA TypeStep == TypeOK /\ [Next]_vars => TypeOK'
<1> SUFFICES ASSUME TypeOK, [Next]_vars PROVE TypeOK'
  OBVIOUS
<1>1. ASSUME NEW th \in Threads, NEW k \in Keys, NEW T \in SUBSET Tags, Miss(th, k, T)
      PROVE  TypeOK'
  <2>1. Call(k, T, {}, "execute") \in Jobs
    BY CallType
  <2>2. QED
    BY <1>1, <2>1 DEF TypeOK, Miss, Goto, Steps, cache
<1>2. ASSUME NEW th \in Threads, NEW k \in Keys, NEW T \in SUBSET Tags,
             NEW n \in {"idle", "execute"}, Expired(th, k, T, n)
      PROVE  TypeOK'
  <2>1. Call(k, T, {}, n) \in Jobs
    BY CallType
  <2>2. Absent \in Entry
    BY DEF Absent, Entry
  <2>3. QED
    BY <1>2, <2>1, <2>2 DEF TypeOK, Expired, Goto, Steps
<1>3. ASSUME NEW th \in Threads, NEW k \in Keys, DeleteKey(th, k)
      PROVE  TypeOK'
  <2>1. Call(k, {}, {}, "purge") \in Jobs
    BY CallType
  <2>2. [job[th] EXCEPT !.key = k, !.keys = @ \ {k}] \in Jobs
    BY DEF TypeOK, Jobs
  <2>3. job' \in [Threads -> Jobs] /\ \A u \in Threads \ {th} : job'[u] = job[u]
    BY <1>3, <2>1, <2>2 DEF TypeOK, DeleteKey
  <2>4. Absent \in Entry
    BY DEF Absent, Entry
  <2>5. QED
    BY <1>3, <2>3, <2>4 DEF TypeOK, DeleteKey, Goto, Steps
<1>4. ASSUME NEW th \in Threads, Unregister(th)
      PROVE  TypeOK'
  <2>1. /\ tagToKeys' \in [Tags -> SUBSET Keys] /\ keyToTags' \in [Keys -> SUBSET Tags]
    BY <1>4 DEF TypeOK, Unregister, Unregistered
  <2>2. origin' \in [Keys -> Origins]
    <3>1. \A k \in Keys : [origin[k] EXCEPT !.orphaned = TRUE] \in Origins
      BY DEF TypeOK, Origins
    <3>2. QED
      BY <1>4, <3>1 DEF TypeOK, Unregister, Orphaned
  <2>3. CASE Return(th)
    BY <1>4, <2>1, <2>2, <2>3, ReturnType DEF TypeOK, Unregister
  <2>4. CASE Goto(th, job[th].next) /\ UNCHANGED job /\ ~Return(th)
    <3>1. job[th].next \in {"execute", "purge"} /\ (job[th].next = "purge" => job[th].keys # {})
      BY <1>4, <2>4 DEF TypeOK, Unregister, Jobs
    <3>2. QED
      BY <1>4, <2>1, <2>2, <2>4, <3>1 DEF TypeOK, Unregister, Goto, Steps
  <2>5. QED
    BY <1>4, <2>3, <2>4 DEF Unregister
<1>5. ASSUME NEW th \in Threads, Execute(th)
      PROVE  TypeOK'
  <2>1. [job[th] EXCEPT !.stale = FALSE, !.raced = FALSE] \in Jobs
    BY DEF TypeOK, Jobs
  <2>2. QED
    BY <1>5, <2>1 DEF TypeOK, Execute, Goto, Steps, cache
<1>6. ASSUME NEW th \in Threads, ExecuteUncached(th)
      PROVE  TypeOK'
  BY <1>6, ReturnType DEF TypeOK, ExecuteUncached, cache
<1>7. ASSUME NEW th \in Threads, Store(th)
      PROVE  TypeOK'
  <2>1. /\ job[th].key \in Keys /\ job[th].tags \in SUBSET Tags
        /\ job[th].stale \in BOOLEAN /\ job[th].raced \in BOOLEAN
    BY DEF TypeOK, Jobs
  <2>2. storage' \in [Keys -> Entry] /\ origin' \in [Keys -> Origins]
    BY <1>7, <2>1 DEF TypeOK, Store, Entry, Origins
  <2>3. CASE Return(th)
    BY <1>7, <2>2, <2>3, ReturnType DEF TypeOK, Store
  <2>4. CASE Goto(th, "register") /\ UNCHANGED job
    BY <1>7, <2>2, <2>4 DEF TypeOK, Store, Goto, Steps
  <2>5. QED
    BY <1>7, <2>3, <2>4 DEF Store
<1>8. ASSUME NEW th \in Threads, Register(th)
      PROVE  TypeOK'
  <2>1. job[th].key \in Keys /\ job[th].tags \in SUBSET Tags
    BY DEF TypeOK, Jobs
  <2>2. tagToKeys' \in [Tags -> SUBSET Keys] /\ keyToTags' \in [Keys -> SUBSET Tags]
    BY <1>8, <2>1 DEF TypeOK, Register, Registered
  <2>3. \A b \in BOOLEAN : [origin[job[th].key] EXCEPT !.orphaned = b] \in Origins
    BY <2>1 DEF TypeOK, Origins
  <2>4. origin' \in [Keys -> Origins]
    BY <1>8, <2>1, <2>3 DEF TypeOK, Register, Origins
  <2>5. QED
    BY <1>8, <2>2, <2>4, ReturnType DEF TypeOK, Register
<1>9. ASSUME NEW th \in Threads, NEW T \in SUBSET Tags, Update(th, T)
      PROVE  TypeOK'
  <2>1. \A k \in Keys : [storage[k] EXCEPT !.stale = TRUE] \in Entry
    BY DEF TypeOK, Entry
  <2>2. \A u \in Threads : /\ [job[u] EXCEPT !.stale = TRUE] \in Jobs
                           /\ [job[u] EXCEPT !.stale = TRUE].keys = job[u].keys
                           /\ [job[u] EXCEPT !.tags = T] \in Jobs
    BY DEF TypeOK, Jobs
  <2>3. storage' \in [Keys -> Entry] /\ job' \in [Threads -> Jobs]
    BY <1>9, <2>1, <2>2 DEF TypeOK, Update
  <2>4. \A u \in Threads : pc'[u] = "purge" => pc[u] = "purge" /\ job'[u] = job[u]
    BY <1>9 DEF TypeOK, Update, Goto
  <2>5. QED
    BY <1>9, <2>3, <2>4 DEF TypeOK, Update, Goto, Steps
<1>10. ASSUME NEW th \in Threads, NEW T \in SUBSET Tags, InvalidateTags(th, T)
       PROVE  TypeOK'
  <2>1. KeysOf(T) \in SUBSET Keys
    BY DEF TypeOK, KeysOf
  <2>2. \A u \in Threads : /\ [job[u] EXCEPT !.raced = TRUE] \in Jobs
                           /\ [job[u] EXCEPT !.keys = KeysOf(T), !.tags = T] \in Jobs
    BY ZenonT(60), <2>1 DEF TypeOK, Jobs
  <2>3. \A k \in Keys : [origin[k] EXCEPT !.raced = TRUE] \in Origins
    BY DEF TypeOK, Origins
  <2>4. job' \in [Threads -> Jobs] /\ origin' \in [Keys -> Origins]
    BY <1>10, <2>2, <2>3 DEF TypeOK, InvalidateTags
  <2>5. tagToKeys' \in [Tags -> SUBSET Keys] /\ keyToTags' \in [Keys -> SUBSET Tags]
    BY <1>10 DEF TypeOK, InvalidateTags, Unregistered
  <2>6. \A u \in Threads : pc'[u] = "purge" => pc[u] = "purge" /\ job'[u] = job[u]
    BY <1>10 DEF TypeOK, InvalidateTags, Goto
  <2>7. QED
    BY <1>10, <2>4, <2>5, <2>6 DEF TypeOK, InvalidateTags, Goto, Steps
<1>11. ASSUME NEW th \in Threads, EraseKeys(th)
       PROVE  TypeOK'
  <2>1. Absent \in Entry
    BY DEF Absent, Entry
  <2>2. QED
    BY <1>11, <2>1, ReturnType DEF TypeOK, EraseKeys
<1>12. ASSUME NEW th \in Threads, NEW K \in SUBSET Keys, InvalidatePrefix(th, K)
       PROVE  TypeOK'
  <2>1. [job[th] EXCEPT !.keys = {k \in K : Live(k)}, !.next = "purge"] \in Jobs
    BY DEF TypeOK, Jobs
  <2>2. QED
    BY <1>12, <2>1 DEF TypeOK, InvalidatePrefix, Goto, Steps, cache, Jobs
<1>13. ASSUME NEW th \in Threads, ClearStorage(th)
       PROVE  TypeOK'
  <2>1. Absent \in Entry
    BY DEF Absent, Entry
  <2>2. QED
    BY <1>13, <2>1 DEF TypeOK, ClearStorage, Goto, Steps
<1>14. ASSUME NEW th \in Threads, ClearIndex(th)
       PROVE  TypeOK'
  <2>1. \A k \in Keys : [origin[k] EXCEPT !.orphaned = TRUE] \in Origins
    BY DEF TypeOK, Origins
  <2>2. QED
    BY <1>14, <2>1, ReturnType DEF TypeOK, ClearIndex, Orphaned
<1>15. ASSUME NEW k \in Keys, Elapse(k)
       PROVE  TypeOK'
  <2>1. [storage[k] EXCEPT !.due = TRUE] \in Entry
    BY ZenonT(60) DEF TypeOK, Entry
  <2>2. QED
    BY <1>15, <2>1 DEF TypeOK, Elapse
<1>16. CASE UNCHANGED vars
  BY <1>16 DEF TypeOK, vars
<1>17. QED
  BY <1>1, <1>2, <1>3, <1>4, <1>5, <1>6, <1>7, <1>8, <1>9, <1>10, <1>11, <1>12, <1>13,
     <1>14, <1>15, <1>16 DEF Next, Fill

-----------------------------------------------------------------------------
(* unregister_locked keeps the maps converse, for any keys at once.        *)
LEMMA UnregisteredConverse ==
  ASSUME TypeOK, IndexConverse, NEW K \in SUBSET Keys, Unregistered(K)
  PROVE  IndexConverse'
  BY DEF TypeOK, IndexConverse, Unregistered

LEMMA ConverseStep == TypeOK /\ IndexConverse /\ [Next]_vars => IndexConverse'
<1> SUFFICES ASSUME TypeOK, IndexConverse, [Next]_vars PROVE IndexConverse'
  OBVIOUS
<1>1. CASE UNCHANGED <<tagToKeys, keyToTags>>
  BY <1>1 DEF IndexConverse
<1>2. ASSUME NEW th \in Threads, Unregister(th)
      PROVE  IndexConverse'
  <2>1. job[th].key \in Keys
    BY DEF TypeOK, Jobs
  <2>2. QED
    BY <1>2, <2>1, UnregisteredConverse DEF Unregister
<1>3. ASSUME NEW th \in Threads, Register(th)
      PROVE  IndexConverse'
  <2>1. job[th].key \in Keys
    BY DEF TypeOK, Jobs
  <2>2. QED
    BY <1>3, <2>1 DEF TypeOK, IndexConverse, Register, Registered
<1>4. ASSUME NEW th \in Threads, NEW T \in SUBSET Tags, InvalidateTags(th, T)
      PROVE  IndexConverse'
  <2>1. KeysOf(T) \in SUBSET Keys
    BY DEF TypeOK, KeysOf
  <2>2. QED
    BY <1>4, <2>1, UnregisteredConverse DEF InvalidateTags
<1>5. ASSUME NEW th \in Threads, ClearIndex(th)
      PROVE  IndexConverse'
  BY <1>5 DEF IndexConverse, ClearIndex
<1>6. QED
  BY ZenonT(60), <1>1, <1>2, <1>3, <1>4, <1>5
     DEF Next, Fill, vars, cache, Miss, Expired, DeleteKey, Execute, ExecuteUncached,
         Store, EraseKeys, ClearStorage, Update, InvalidatePrefix, Elapse

-----------------------------------------------------------------------------
(* Why an entry may be out of the index: EntriesStayTagged for one key.    *)
Tagged(k) == \/ origin[k].tags \subseteq keyToTags[k]
             \/ origin[k].orphaned
             \/ Pending(k)

(* A step of thread th that leaves the index, the origins and the other    *)
(* threads alone, and was not the one to erase or register k.              *)
LEMMA TaggedMove ==
  ASSUME TypeOK, NEW k \in Keys, NEW th \in Threads, Tagged(k),
         pc[th] \notin {"erase", "register"} \/ (pc[th] = "erase" /\ k \notin job[th].keys),
         UNCHANGED <<keyToTags, origin>>,
         \A u \in Threads \ {th} : /\ pc'[u] = pc[u]
                                   /\ job'[u].keys = job[u].keys
                                   /\ job'[u].key = job[u].key
                                   /\ pc[u] = "register" => job'[u].tags = job[u].tags
  PROVE  Tagged(k)'
  BY DEF Tagged, Pending

LEMMA TaggedStep == TypeOK /\ EntriesStayTagged /\ [Next]_vars => EntriesStayTagged'
<1> SUFFICES ASSUME TypeOK, EntriesStayTagged, [Next]_vars, NEW k \in Keys, Live(k)'
             PROVE  Tagged(k)'
  BY DEF EntriesStayTagged, Tagged
<1>1. Live(k) => Tagged(k)
  BY DEF EntriesStayTagged, Tagged
<1>2. ASSUME NEW th \in Threads, NEW j \in Keys, NEW T \in SUBSET Tags,
             Miss(th, j, T) \/ Expired(th, j, T, "execute") \/ Expired(th, j, T, "idle")
             \/ DeleteKey(th, j)
      PROVE  Tagged(k)'
  <2>1. Live(k) /\ UNCHANGED <<keyToTags, origin>> /\ pc[th] \in {"idle", "purge"}
    BY <1>2 DEF TypeOK, Miss, Expired, DeleteKey, Live, Absent, cache
  <2>2. \A u \in Threads \ {th} : pc'[u] = pc[u] /\ job'[u] = job[u]
    BY <1>2 DEF TypeOK, Miss, Expired, DeleteKey, Goto
  <2>3. QED
    BY <1>1, <2>1, <2>2, TaggedMove
<1>3. ASSUME NEW th \in Threads, Unregister(th)
      PROVE  Tagged(k)'
  <2>1. Live(k) /\ pc[th] = "unregister"
    BY <1>3 DEF Unregister, Live
  <2>2. CASE k = job[th].key
    BY <1>3, <2>1, <2>2 DEF TypeOK, Origins, Unregister, Orphaned, Tagged
  <2>3. CASE k # job[th].key
    <3>1. keyToTags'[k] = keyToTags[k] /\ origin'[k] = origin[k]
      BY <1>3, <2>3 DEF Unregister, Unregistered, Orphaned
    <3>2. \A u \in Threads \ {th} : pc'[u] = pc[u] /\ job'[u] = job[u]
      BY <1>3, ReturnType DEF TypeOK, Unregister, Goto
    <3>3. QED
      BY <1>1, <2>1, <3>1, <3>2 DEF Tagged, Pending
  <2>4. QED
    BY <2>2, <2>3
<1>4. ASSUME NEW th \in Threads, Execute(th) \/ ExecuteUncached(th)
      PROVE  Tagged(k)'
  <2>1. Live(k) /\ UNCHANGED <<keyToTags, origin>> /\ pc[th] = "execute"
    BY <1>4 DEF Execute, ExecuteUncached, Live, cache
  <2>2. \A u \in Threads \ {th} : pc'[u] = pc[u] /\ job'[u] = job[u]
    BY <1>4, ReturnType DEF TypeOK, Execute, ExecuteUncached, Goto
  <2>3. QED
    BY <1>1, <2>1, <2>2, TaggedMove
<1>5. ASSUME NEW th \in Threads, Store(th)
      PROVE  Tagged(k)'
  <2>1. \A u \in Threads \ {th} : pc'[u] = pc[u] /\ job'[u] = job[u]
    BY <1>5, ReturnType DEF TypeOK, Store, Goto
  <2>2. CASE k = job[th].key
    <3>1. origin'[k].tags = job[th].tags
      BY <1>5, <2>2 DEF TypeOK, Store
    <3>2. CASE job[th].tags = {}
      BY <3>1, <3>2 DEF Tagged
    <3>3. CASE job[th].tags # {}
      BY <1>5, <2>2, <3>1, <3>3 DEF TypeOK, Store, Goto, Tagged, Pending
    <3>4. QED
      BY <3>2, <3>3
  <2>3. CASE k # job[th].key
    <3>1. /\ Live(k) /\ origin'[k] = origin[k] /\ keyToTags'[k] = keyToTags[k]
          /\ pc[th] = "store"
      BY <1>5, <2>3 DEF TypeOK, Store, Live
    <3>2. QED
      BY <1>1, <2>1, <3>1 DEF Tagged, Pending
  <2>4. QED
    BY <2>2, <2>3
<1>6. ASSUME NEW th \in Threads, Register(th)
      PROVE  Tagged(k)'
  <2>1. Live(k) /\ pc[th] = "register"
    BY <1>6 DEF Register, Live
  <2>2. \A u \in Threads \ {th} : pc'[u] = pc[u] /\ job'[u] = job[u]
    BY <1>6, ReturnType DEF Register
  <2>3. origin'[k].tags = origin[k].tags /\ keyToTags[k] \subseteq keyToTags'[k]
    BY <1>6 DEF TypeOK, Origins, Register, Registered
  <2>4. origin[k].orphaned => origin'[k].orphaned \/ origin'[k].tags \subseteq keyToTags'[k]
    BY <1>6 DEF TypeOK, Origins, Register, Registered
  <2>5. CASE job[th].key = k /\ job[th].tags = origin[k].tags
    BY <1>6, <2>3, <2>5 DEF TypeOK, Register, Registered, Tagged
  <2>6. CASE ~(job[th].key = k /\ job[th].tags = origin[k].tags)
    BY <1>1, <2>1, <2>2, <2>3, <2>4, <2>6 DEF Tagged, Pending
  <2>7. QED
    BY <2>5, <2>6
<1>7. ASSUME NEW th \in Threads, NEW T \in SUBSET Tags, Update(th, T)
      PROVE  Tagged(k)'
  <2>1. Live(k) /\ UNCHANGED <<keyToTags, origin>> /\ pc[th] = "idle"
    BY <1>7 DEF TypeOK, Entry, Update, Live
  <2>2. \A u \in Threads \ {th} : /\ pc'[u] = pc[u]
                                  /\ job'[u].keys = job[u].keys
                                  /\ job'[u].key = job[u].key
                                  /\ job'[u].tags = job[u].tags
    BY <1>7 DEF TypeOK, Jobs, Update, Goto
  <2>3. QED
    BY <1>1, <2>1, <2>2, TaggedMove
<1>8. ASSUME NEW th \in Threads, NEW T \in SUBSET Tags, InvalidateTags(th, T)
      PROVE  Tagged(k)'
  <2>1. Live(k) /\ pc[th] \in {"idle", "invalidate"}
    BY <1>8 DEF InvalidateTags, Live
  <2>2. \A u \in Threads \ {th} : /\ pc'[u] = pc[u]
                                  /\ job'[u].keys = job[u].keys
                                  /\ job'[u].key = job[u].key
                                  /\ job'[u].tags = job[u].tags
    BY <1>8 DEF TypeOK, Jobs, InvalidateTags, Goto
  <2>3. /\ origin'[k].tags = origin[k].tags
        /\ origin'[k].orphaned = origin[k].orphaned
    BY <1>8 DEF TypeOK, Origins, InvalidateTags
  <2>4. CASE k \in KeysOf(T)
    <3>1. pc'[th] = "erase" /\ k \in job'[th].keys
      BY <1>8, <2>4 DEF TypeOK, Jobs, InvalidateTags, Goto
    <3>2. QED
      BY <3>1 DEF Tagged, Pending
  <2>5. CASE k \notin KeysOf(T)
    <3>1. keyToTags'[k] = keyToTags[k]
      BY <1>8, <2>5 DEF InvalidateTags, Unregistered
    <3>2. QED
      BY <1>1, <2>1, <2>2, <2>3, <3>1 DEF Tagged, Pending
  <2>6. QED
    BY <2>4, <2>5
<1>9. ASSUME NEW th \in Threads, EraseKeys(th)
      PROVE  Tagged(k)'
  <2>1. Live(k) /\ k \notin job[th].keys /\ UNCHANGED <<keyToTags, origin>>
    BY <1>9 DEF EraseKeys, Live, Absent
  <2>2. pc[th] = "erase" /\ \A u \in Threads \ {th} : pc'[u] = pc[u] /\ job'[u] = job[u]
    BY <1>9, ReturnType DEF EraseKeys
  <2>3. QED
    BY <1>1, <2>1, <2>2, TaggedMove
<1>10. ASSUME NEW th \in Threads, NEW K \in SUBSET Keys, InvalidatePrefix(th, K)
       PROVE  Tagged(k)'
  <2>1. Live(k) /\ UNCHANGED <<keyToTags, origin>> /\ pc[th] = "idle"
    BY <1>10 DEF InvalidatePrefix, Live, cache
  <2>2. \A u \in Threads \ {th} : pc'[u] = pc[u] /\ job'[u] = job[u]
    BY <1>10 DEF TypeOK, InvalidatePrefix, Goto
  <2>3. QED
    BY <1>1, <2>1, <2>2, TaggedMove
<1>11. ASSUME NEW th \in Threads, ClearStorage(th)
       PROVE  FALSE
  BY <1>11 DEF ClearStorage, Live, Absent
<1>12. ASSUME NEW th \in Threads, ClearIndex(th)
       PROVE  Tagged(k)'
  BY <1>12 DEF TypeOK, Origins, ClearIndex, Orphaned, Live, Tagged
<1>13. ASSUME NEW j \in Keys, Elapse(j)
       PROVE  Tagged(k)'
  <2>1. Live(k) /\ UNCHANGED <<keyToTags, origin, pc, job>>
    BY <1>13 DEF TypeOK, Entry, Elapse, Live
  <2>2. QED
    BY <1>1, <2>1 DEF Tagged, Pending
<1>14. CASE UNCHANGED vars
  BY <1>1, <1>14 DEF vars, Live, Tagged, Pending
<1>15. QED
  BY <1>2, <1>3, <1>4, <1>5, <1>6, <1>7, <1>8, <1>9, <1>10, <1>11, <1>12, <1>13, <1>14
     DEF Next, Fill

-----------------------------------------------------------------------------
(* A result that a fill still holds and whose rows have been updated since *)
(* is to be met by the invalidation, or has been: the state of a value     *)
(* before it is stored, which StaleOnlyIfRaced does not see.               *)
StaleFill ==
    \A u \in Threads :
        pc[u] = "store" /\ job[u].stale =>
            \/ job[u].raced
            \/ \E th \in Threads : /\ pc[th] = "invalidate"
                                    /\ job[th].tags \intersect job[u].tags # {}

(* StaleOnlyIfRaced for one key.                                           *)
Excused(k) ==
    \/ origin[k].raced
    \/ \E th \in Threads :
          \/ /\ pc[th] = "invalidate"
             /\ job[th].tags \intersect origin[k].tags # {}
          \/ pc[th] = "erase" /\ k \in job[th].keys

StaleInv == StaleFill /\ StaleOnlyIfRaced

(* A step of thread th that reads and updates no rows, stores nothing, and *)
(* is neither an invalidation nor the second half of one.                  *)
LEMMA StaleMove ==
  ASSUME TypeOK, StaleInv, NEW th \in Threads,
         pc[th] \notin {"invalidate", "erase"}, pc'[th] # "store",
         \A u \in Threads \ {th} : pc'[u] = pc[u] /\ job'[u] = job[u],
         \A k \in Keys : /\ Live(k)' => Live(k) /\ storage'[k].stale = storage[k].stale
                         /\ origin'[k].raced = origin[k].raced
                         /\ origin'[k].tags = origin[k].tags
  PROVE  StaleInv'
<1>1. StaleFill'
  BY DEF StaleInv, StaleFill
<1>2. StaleOnlyIfRaced'
  BY DEF StaleInv, StaleOnlyIfRaced
<1>3. QED
  BY <1>1, <1>2 DEF StaleInv

LEMMA StaleStep ==
  TypeOK /\ IndexConverse /\ EntriesStayTagged /\ StaleInv /\ [Next]_vars => StaleInv'
<1> SUFFICES ASSUME TypeOK, IndexConverse, EntriesStayTagged, StaleInv, [Next]_vars
             PROVE  StaleInv'
  OBVIOUS
<1>1. ASSUME NEW th \in Threads, NEW j \in Keys, NEW T \in SUBSET Tags,
             Miss(th, j, T) \/ Expired(th, j, T, "execute") \/ Expired(th, j, T, "idle")
             \/ DeleteKey(th, j)
      PROVE  StaleInv'
  <2>1. /\ UNCHANGED origin /\ pc[th] \in {"idle", "purge"} /\ pc'[th] # "store"
        /\ \A k \in Keys : Live(k)' => Live(k) /\ storage'[k] = storage[k]
    BY <1>1 DEF TypeOK, Miss, Expired, DeleteKey, Live, Absent, cache, Goto
  <2>2. \A u \in Threads \ {th} : pc'[u] = pc[u] /\ job'[u] = job[u]
    BY <1>1 DEF TypeOK, Miss, Expired, DeleteKey, Goto
  <2>3. QED
    BY <2>1, <2>2, StaleMove
<1>2. ASSUME NEW th \in Threads, Unregister(th) \/ ExecuteUncached(th) \/ Register(th)
      PROVE  StaleInv'
  <2>1. pc[th] \notin {"invalidate", "erase"} /\ pc'[th] # "store" /\ UNCHANGED storage
    BY <1>2, ReturnType
       DEF TypeOK, Jobs, Unregister, ExecuteUncached, Register, Goto, cache
  <2>2. \A u \in Threads \ {th} : pc'[u] = pc[u] /\ job'[u] = job[u]
    BY <1>2, ReturnType DEF TypeOK, Unregister, ExecuteUncached, Register, Goto
  <2>3. \A k \in Keys : origin'[k].raced = origin[k].raced /\ origin'[k].tags = origin[k].tags
    BY <1>2 DEF TypeOK, Origins, Unregister, Orphaned, ExecuteUncached, Register
  <2>4. QED
    BY <2>1, <2>2, <2>3, StaleMove DEF Live
<1>3. ASSUME NEW th \in Threads, Execute(th)
      PROVE  StaleInv'
  <2>1. /\ pc[th] = "execute" /\ pc'[th] = "store" /\ ~job'[th].stale
        /\ UNCHANGED <<storage, origin>>
    BY <1>3 DEF TypeOK, Jobs, Execute, Goto, cache
  <2>2. \A u \in Threads \ {th} : pc'[u] = pc[u] /\ job'[u] = job[u]
    BY <1>3 DEF TypeOK, Execute, Goto
  <2>3. StaleFill'
    BY <2>1, <2>2 DEF StaleInv, StaleFill
  <2>4. StaleOnlyIfRaced'
    BY <2>1, <2>2 DEF StaleInv, StaleOnlyIfRaced, Live
  <2>5. QED
    BY <2>3, <2>4 DEF StaleInv
<1>4. ASSUME NEW th \in Threads, Store(th)
      PROVE  StaleInv'
  <2>1. \A u \in Threads \ {th} : pc'[u] = pc[u] /\ job'[u] = job[u]
    BY <1>4, ReturnType DEF TypeOK, Store, Goto
  <2>2. pc[th] = "store" /\ pc'[th] \in {"idle", "register"}
    BY <1>4, ReturnType DEF TypeOK, Store, Goto
  <2>3. StaleFill'
    BY <2>1, <2>2 DEF StaleInv, StaleFill
  <2>4. ASSUME NEW k \in Keys, Live(k)', storage'[k].stale
        PROVE  Excused(k)'
    <3>1. CASE k = job[th].key
      <4>1. /\ origin'[k].tags = job[th].tags /\ origin'[k].raced = job[th].raced
            /\ storage'[k].stale = job[th].stale
        BY <1>4, <3>1 DEF TypeOK, Store
      <4>2. QED
        BY <2>1, <2>2, <2>4, <4>1 DEF StaleInv, StaleFill, Excused
    <3>2. CASE k # job[th].key
      <4>1. storage'[k] = storage[k] /\ origin'[k] = origin[k]
        BY <1>4, <3>2 DEF TypeOK, Store
      <4>2. QED
        BY <2>1, <2>2, <2>4, <4>1 DEF StaleInv, StaleOnlyIfRaced, Excused, Live
    <3>3. QED
      BY <3>1, <3>2
  <2>5. QED
    BY <2>3, <2>4 DEF StaleInv, StaleOnlyIfRaced, Excused
<1>5. ASSUME NEW th \in Threads, NEW T \in SUBSET Tags, Update(th, T)
      PROVE  StaleInv'
  <2>1. /\ pc[th] = "idle" /\ pc'[th] = "invalidate" /\ job'[th].tags = T
        /\ UNCHANGED origin
    BY <1>5 DEF TypeOK, Jobs, Update, Goto
  <2>2. \A u \in Threads \ {th} : /\ pc'[u] = pc[u] /\ job'[u].tags = job[u].tags
                                  /\ job'[u].keys = job[u].keys
                                  /\ job'[u].raced = job[u].raced
    BY <1>5 DEF TypeOK, Jobs, Update, Goto
  <2>3. \A u \in Threads \ {th} : pc[u] = "store" /\ job'[u].stale =>
                                  job[u].stale \/ job[u].tags \intersect T # {}
    BY <1>5 DEF TypeOK, Jobs, Update
  <2>4. \A k \in Keys : /\ Live(k)' => Live(k)
                        /\ storage'[k].stale =>
                             storage[k].stale \/ origin[k].tags \intersect T # {}
    BY <1>5 DEF TypeOK, Entry, Update, Live
  <2>5. StaleFill'
    BY <2>1, <2>2, <2>3 DEF StaleInv, StaleFill
  <2>6. ASSUME NEW k \in Keys, Live(k)', storage'[k].stale
        PROVE  Excused(k)'
    BY <2>1, <2>2, <2>4, <2>6 DEF StaleInv, StaleOnlyIfRaced, Excused
  <2>7. QED
    BY <2>5, <2>6 DEF StaleInv, StaleOnlyIfRaced, Excused
<1>6. ASSUME NEW th \in Threads, NEW T \in SUBSET Tags, InvalidateTags(th, T)
      PROVE  StaleInv'
  <2>1. /\ pc[th] = "idle" \/ (pc[th] = "invalidate" /\ T = job[th].tags)
        /\ pc'[th] = "erase" /\ job'[th].keys = KeysOf(T) /\ UNCHANGED storage
    BY <1>6 DEF TypeOK, Jobs, InvalidateTags, Goto
  <2>2. \A u \in Threads \ {th} : /\ pc'[u] = pc[u] /\ job'[u].tags = job[u].tags
                                  /\ job'[u].keys = job[u].keys
                                  /\ job'[u].stale = job[u].stale
                                  /\ job[u].raced => job'[u].raced
    BY <1>6 DEF TypeOK, Jobs, InvalidateTags, Goto
  <2>3. \A u \in Threads \ {th} : pc[u] = "store" /\ job[u].tags \intersect T # {} =>
                                  job'[u].raced
    BY <1>6 DEF TypeOK, Jobs, InvalidateTags
  <2>4. \A k \in Keys : /\ origin'[k].tags = origin[k].tags
                        /\ origin[k].raced \/ Races(k, T) => origin'[k].raced
    BY <1>6 DEF TypeOK, Origins, InvalidateTags
  <2>5. StaleFill'
    BY <2>1, <2>2, <2>3 DEF StaleInv, StaleFill
  <2>6. ASSUME NEW k \in Keys, Live(k)', storage'[k].stale
        PROVE  Excused(k)'
    <3>1. Live(k) /\ storage[k].stale
      BY <2>1, <2>6 DEF Live
    <3>2. CASE k \in KeysOf(T)
      BY <2>1, <3>2 DEF Excused
    <3>3. CASE k \notin KeysOf(T) /\ origin[k].tags \intersect T # {}
      <4>1. ~(origin[k].tags \subseteq keyToTags[k])
        BY <3>3 DEF TypeOK, IndexConverse, KeysOf, Origins
      <4>2. origin[k].orphaned \/ Pending(k)
        BY <3>1, <4>1 DEF EntriesStayTagged
      <4>3. Races(k, T) \/ \E u \in Threads : pc[u] = "erase" /\ k \in job[u].keys
        BY <3>1, <3>3, <4>2 DEF Races, Pending
      <4>4. QED
        BY <2>1, <2>2, <2>4, <4>3 DEF Excused
    <3>4. CASE origin[k].tags \intersect T = {}
      <4>1. origin[k].raced \/ \E u \in Threads \ {th} :
                \/ pc[u] = "invalidate" /\ job[u].tags \intersect origin[k].tags # {}
                \/ pc[u] = "erase" /\ k \in job[u].keys
        BY <2>1, <3>1, <3>4 DEF StaleInv, StaleOnlyIfRaced
      <4>2. QED
        BY <2>2, <2>4, <4>1 DEF Excused
    <3>5. QED
      BY <3>2, <3>3, <3>4
  <2>7. QED
    BY <2>5, <2>6 DEF StaleInv, StaleOnlyIfRaced, Excused
<1>7. ASSUME NEW th \in Threads, EraseKeys(th)
      PROVE  StaleInv'
  <2>1. /\ pc[th] = "erase" /\ pc'[th] = "idle" /\ UNCHANGED origin
        /\ \A u \in Threads \ {th} : pc'[u] = pc[u] /\ job'[u] = job[u]
    BY <1>7, ReturnType DEF EraseKeys
  <2>2. \A k \in Keys : Live(k)' => Live(k) /\ storage'[k] = storage[k] /\ k \notin job[th].keys
    BY <1>7 DEF EraseKeys, Live, Absent
  <2>3. StaleFill'
    BY <2>1 DEF StaleInv, StaleFill
  <2>4. StaleOnlyIfRaced'
    BY <2>1, <2>2 DEF StaleInv, StaleOnlyIfRaced
  <2>5. QED
    BY <2>3, <2>4 DEF StaleInv
<1>8. ASSUME NEW th \in Threads, NEW K \in SUBSET Keys,
             InvalidatePrefix(th, K) \/ ClearStorage(th) \/ ClearIndex(th)
      PROVE  StaleInv'
  <2>1. pc[th] \in {"idle", "wipe"} /\ pc'[th] # "store"
    BY <1>8, ReturnType DEF TypeOK, InvalidatePrefix, ClearStorage, ClearIndex, Goto
  <2>2. \A u \in Threads \ {th} : pc'[u] = pc[u] /\ job'[u] = job[u]
    BY <1>8, ReturnType DEF TypeOK, InvalidatePrefix, ClearStorage, ClearIndex, Goto
  <2>3. \A k \in Keys : /\ Live(k)' => Live(k) /\ storage'[k].stale = storage[k].stale
                        /\ origin'[k].raced = origin[k].raced
                        /\ origin'[k].tags = origin[k].tags
    BY <1>8 DEF TypeOK, Origins, InvalidatePrefix, ClearStorage, ClearIndex, Orphaned,
                Live, Absent, cache
  <2>4. QED
    BY <2>1, <2>2, <2>3, StaleMove
<1>9. ASSUME NEW j \in Keys, Elapse(j)
      PROVE  StaleInv'
  <2>1. UNCHANGED <<origin, pc, job>>
    BY <1>9 DEF Elapse
  <2>2. \A k \in Keys : storage'[k].stale = storage[k].stale /\ (Live(k)' => Live(k))
    BY <1>9 DEF TypeOK, Entry, Elapse, Live
  <2>3. QED
    BY <2>1, <2>2 DEF StaleInv, StaleFill, StaleOnlyIfRaced
<1>10. CASE UNCHANGED vars
  BY <1>10 DEF vars, StaleInv, StaleFill, StaleOnlyIfRaced, Live
<1>11. QED
  BY <1>1, <1>2, <1>3, <1>4, <1>5, <1>6, <1>7, <1>8, <1>9, <1>10 DEF Next, Fill

-----------------------------------------------------------------------------
(* The inductive invariant: a stale entry is excused because invalidation  *)
(* reaches what is tagged, the tagged is where both maps say it is, and    *)
(* the race is remembered from the moment a fill has read its rows.        *)
IInv == TypeOK /\ IndexConverse /\ EntriesStayTagged /\ StaleInv

LEMMA InitHolds == Init => IInv
<1> SUFFICES ASSUME Init PROVE IInv
  OBVIOUS
<1>1. PICK k \in Keys : job = [th \in Threads |-> Call(k, {}, {}, "idle")]
  BY DEF Init
<1>2. Call(k, {}, {}, "idle") \in Jobs
  BY CallType
<1>3. TypeOK
  BY <1>1, <1>2 DEF Init, TypeOK, Absent, Entry, Steps, Origins
<1>4. IndexConverse /\ EntriesStayTagged /\ StaleInv
  BY DEF Init, IndexConverse, EntriesStayTagged, StaleInv, StaleFill, StaleOnlyIfRaced,
         Live, Absent
<1>5. QED
  BY <1>3, <1>4 DEF IInv

(* The inductive invariant holds in every reachable state.                 *)
THEOREM CacheInvariant == Spec => []IInv
<1>1. IInv /\ [Next]_vars => IInv'
  BY TypeStep, ConverseStep, TaggedStep, StaleStep DEF IInv
<1>2. QED
  BY <1>1, InitHolds, PTL DEF Spec

(* TagIndex::tag_to_keys_ and key_to_tags_ are converses for any number of *)
(* threads, keys and tags.                                                 *)
THEOREM CacheIndexConverse == Spec => []IndexConverse
<1>1. IInv => IndexConverse
  BY DEF IInv
<1>2. QED
  BY <1>1, CacheInvariant, PTL

(* invalidate_tags reaches every entry stored with tags, unless a call     *)
(* that had erased an older entry unregistered the key afterwards.         *)
THEOREM CacheEntriesStayTagged == Spec => []EntriesStayTagged
<1>1. IInv => EntriesStayTagged
  BY DEF IInv
<1>2. QED
  BY <1>1, CacheInvariant, PTL

(* An update followed by invalidate_tags leaves no stale entry but one     *)
(* whose fill raced with it.                                               *)
THEOREM CacheStaleOnlyIfRaced == Spec => []StaleOnlyIfRaced
<1>1. IInv => StaleOnlyIfRaced
  BY DEF IInv, StaleInv
<1>2. QED
  BY <1>1, CacheInvariant, PTL
=============================================================================
