------------------------- MODULE RemoteCacheProofs --------------------------
(***************************************************************************)
(* Proofs about module RemoteCache, for every set of processes, keys, tags *)
(* and prefixes.                                                           *)
(***************************************************************************)
EXTENDS RemoteCache, TLAPS

-----------------------------------------------------------------------------
(* The inductive invariant.                                                *)

Steps == {"idle", "evict", "execute", "store", "register", "collect", "drop", "purge"}
Jobs  == [key : Keys \union {NoKey}, tags : SUBSET Tags, stale : SUBSET Tags, todo : SUBSET Tags,
          sets : SUBSET Tags, found : SUBSET Keys, covers : SUBSET Tags]

TypeOK ==
  /\ value \in [Keys -> {"absent", "stored", "corrupt"}] /\ members \in [Tags -> SUBSET Keys]
  /\ pc \in [Processes -> Steps] /\ job \in [Processes -> Jobs]
  /\ reach \in [Keys -> [tags : SUBSET Tags, stale : SUBSET Tags]] /\ owed \in SUBSET Tags

(* What a call carries at each of its steps.                               *)
Carries ==
  \A p \in Processes :
    /\ pc[p] \in {"evict", "execute", "store", "register"} => job[p].key \in Keys
    /\ pc[p] # "store" => job[p].stale = {}
    /\ job[p].covers # {} => pc[p] \in {"collect", "drop"}
    /\ Dropping(p) => job[p].todo = {}

(* A key that is in none of a value's sets is being registered or deleted.  *)
Held == \A k \in Keys : \A t \in Missing(k) : Filling(k, t) \/ Doomed(k)

(* A tag set that an invalidation has listed gained no key that it does not *)
(* know of, but one still being registered or one the set has lost.         *)
Listed ==
  \A p \in Processes : pc[p] \in {"collect", "drop"} =>
    \A t \in job[p].sets : \A k \in members[t] :
      t \in reach[k].tags => k \in job[p].found \/ Filling(k, t)

(* No SADD will put the key back into the set.                             *)
OutOfReach(k, t) == k \notin members[t] /\ ~Filling(k, t)

(* A value is stale only under its tags, and only until the next            *)
(* invalidation has returned, or it is out of the tag's reach.              *)
StaleOwed ==
  /\ \A k \in Keys : \A t \in reach[k].stale : t \in reach[k].tags /\ (t \in owed \/ OutOfReach(k, t))
  /\ \A p \in Processes : job[p].stale \subseteq job[p].tags /\ job[p].stale \subseteq owed

(* What an invalidation has listed since the last update: no fill holds rows *)
(* from before, and a value that is stale is one it will delete.             *)
Covered ==
  \A p \in Processes : \A t \in job[p].covers \ job[p].todo :
    /\ \A q \in Processes : t \notin job[q].stale
    /\ \A k \in Keys : t \in reach[k].stale => k \in job[p].found \/ OutOfReach(k, t)

IInv == TypeOK /\ Carries /\ Held /\ Listed /\ StaleOwed /\ Covered

-----------------------------------------------------------------------------
(* A job one of whose locals has changed.                                  *)
LEMMA FieldType ==
  ASSUME NEW j \in Jobs, NEW T \in SUBSET Tags, NEW S \in SUBSET Tags, NEW K \in SUBSET Keys
  PROVE  /\ [j EXCEPT !.todo = T] \in Jobs /\ [j EXCEPT !.sets = T] \in Jobs
         /\ [j EXCEPT !.found = K] \in Jobs /\ [j EXCEPT !.stale = T] \in Jobs
         /\ [j EXCEPT !.todo = T, !.sets = S, !.found = K] \in Jobs
  BY DEF Jobs

(* The ranges of the locals, one by one.                                   *)
LEMMA JobFields ==
  ASSUME TypeOK, NEW p \in Processes
  PROVE  /\ job[p] \in Jobs /\ job[p].key \in Keys \union {NoKey} /\ job[p].tags \in SUBSET Tags
         /\ job[p].stale \in SUBSET Tags /\ job[p].todo \in SUBSET Tags
         /\ job[p].sets \in SUBSET Tags /\ job[p].found \in SUBSET Keys
         /\ job[p].covers \in SUBSET Tags
  BY DEF TypeOK, Jobs

(* The effect of the three steps that rebuild records, field by field.     *)
LEMMA StoreEffect ==
  ASSUME IInv, NEW p \in Processes, Store(p)
  PROVE  /\ pc[p] = "store" /\ job[p].key \in Keys
         /\ value' = [value EXCEPT ![job[p].key] = "stored"]
         /\ reach'[job[p].key] = [tags |-> job[p].tags, stale |-> job[p].stale]
         /\ \A x \in Keys \ {job[p].key} : reach'[x] = reach[x]
         /\ \A q \in Processes \ {p} : pc'[q] = pc[q] /\ job'[q] = job[q]
         /\ \/ job[p].tags = {} /\ pc'[p] = "idle" /\ job'[p] = Call(NoKey, {}, {}, {})
            \/ pc'[p] = "register" /\ job'[p] = Call(job[p].key, {}, job[p].tags, {})
  BY DEF IInv, TypeOK, Carries, Store, Return, Goto, Reach

(* The SADD of register_tags(): the key is in the set, and what the set    *)
(* had lost of it is no longer owed, or no invalidation has listed the     *)
(* set.                                                                    *)
LEMMA RegisterEffect ==
  ASSUME IInv, NEW p \in Processes, NEW t \in Tags, RegisterTag(p, t)
  PROVE  /\ pc[p] = "register" /\ job[p].key \in Keys /\ t \in job[p].todo
         /\ members'[t] = members[t] \union {job[p].key}
         /\ \A s \in Tags \ {t} : members'[s] = members[s]
         /\ \A x \in Keys \ {job[p].key} : reach'[x] = reach[x]
         /\ \/ /\ reach'[job[p].key].tags = reach[job[p].key].tags \ {t}
               /\ reach'[job[p].key].stale = reach[job[p].key].stale \ {t}
            \/ /\ reach'[job[p].key] = reach[job[p].key]
               /\ \A q \in Processes : t \notin job[q].sets
         /\ \A q \in Processes \ {p} : pc'[q] = pc[q] /\ job'[q] = job[q]
         /\ \/ job[p].todo = {t} /\ pc'[p] = "idle" /\ job'[p] = Call(NoKey, {}, {}, {})
            \/ /\ job[p].todo # {t} /\ pc'[p] = "register"
               /\ job'[p] = [job[p] EXCEPT !.todo = job[p].todo \ {t}]
<1>1. job[p].key \in Keys /\ t \in job[p].todo /\ pc[p] = "register"
  BY DEF IInv, Carries, RegisterTag
<1>2. \A x \in Keys : reach[x] = [tags |-> reach[x].tags \ {}, stale |-> reach[x].stale \ {}]
  BY DEF IInv, TypeOK
<1>3. /\ \A x \in Keys \ {job[p].key} : reach'[x] = reach[x]
      /\ \/ /\ reach'[job[p].key].tags = reach[job[p].key].tags \ {t}
            /\ reach'[job[p].key].stale = reach[job[p].key].stale \ {t}
         \/ /\ reach'[job[p].key] = reach[job[p].key]
            /\ \A q \in Processes : t \notin job[q].sets
  BY <1>1, <1>2 DEF RegisterTag, Lose, Reach
<1>4. /\ members'[t] = members[t] \union {job[p].key}
      /\ \A s \in Tags \ {t} : members'[s] = members[s]
  BY DEF IInv, TypeOK, RegisterTag
<1>5. CASE job[p].todo \ {t} = {}
  <2>1. job[p].todo = {t}
    BY <1>1, <1>5
  <2>2. QED
    BY ZenonT(60), <1>1, <1>3, <1>4, <1>5, <2>1
       DEF IInv, TypeOK, RegisterTag, Registered, AfterTag, Return, Goto
<1>6. CASE job[p].todo \ {t} # {}
  <2>1. job[p].todo # {t}
    BY <1>6
  <2>2. QED
    BY <1>1, <1>3, <1>4, <1>6, <2>1 DEF IInv, TypeOK, RegisterTag, Registered, AfterTag
<1>7. QED
  BY <1>5, <1>6

(* An application's write to the tables behind the tags T: the values      *)
(* under them miss it, the fills that have read before it will, and no     *)
(* invalidation under way answers for it.                                  *)
LEMMA UpdateEffect ==
  ASSUME IInv, NEW T \in SUBSET Tags, Update(T)
  PROVE  /\ \A k \in Keys : /\ reach'[k] \in [tags : SUBSET Tags, stale : SUBSET Tags]
                            /\ reach'[k].tags = reach[k].tags
                            /\ reach'[k].stale = reach[k].stale \union (T \intersect reach[k].tags)
         /\ \A p \in Processes :
              /\ job'[p] \in Jobs
              /\ job'[p].key = job[p].key /\ job'[p].tags = job[p].tags /\ job'[p].todo = job[p].todo
              /\ job'[p].sets = job[p].sets /\ job'[p].found = job[p].found
              /\ job'[p].covers = job[p].covers \ T
              /\ job'[p].stale \subseteq job[p].stale \union (T \intersect job[p].tags)
              /\ pc[p] # "store" => job'[p].stale = job[p].stale
         /\ owed' = owed \union T /\ UNCHANGED <<value, members, pc>>
<1>1. TypeOK
  BY DEF IInv
<1>2. ASSUME NEW k \in Keys
      PROVE  /\ reach'[k] \in [tags : SUBSET Tags, stale : SUBSET Tags]
             /\ reach'[k].tags = reach[k].tags
             /\ reach'[k].stale = reach[k].stale \union (T \intersect reach[k].tags)
  <2>1. reach[k] \in [tags : SUBSET Tags, stale : SUBSET Tags]
    BY <1>1 DEF TypeOK
  <2>2. reach'[k] = [reach[k] EXCEPT !.stale = @ \union (T \intersect reach[k].tags)]
    BY DEF Update
  <2>3. QED
    BY <2>1, <2>2
<1>3. ASSUME NEW p \in Processes
      PROVE  /\ job'[p] \in Jobs
             /\ job'[p].key = job[p].key /\ job'[p].tags = job[p].tags /\ job'[p].todo = job[p].todo
             /\ job'[p].sets = job[p].sets /\ job'[p].found = job[p].found
             /\ job'[p].covers = job[p].covers \ T
             /\ job'[p].stale \subseteq job[p].stale \union (T \intersect job[p].tags)
             /\ pc[p] # "store" => job'[p].stale = job[p].stale
  <2>1. job[p] \in Jobs
    BY <1>1, JobFields
  <2> DEFINE st == IF pc[p] = "store" THEN job[p].stale \union (T \intersect job[p].tags) ELSE job[p].stale
             co == job[p].covers \ T
  <2>2. job'[p] = [job[p] EXCEPT !.stale = st, !.covers = co]
    BY DEF Update
  <2>3. st \in SUBSET Tags /\ co \in SUBSET Tags
    BY <1>1, JobFields
  <2>4. /\ st \subseteq job[p].stale \union (T \intersect job[p].tags)
        /\ pc[p] # "store" => st = job[p].stale
    OBVIOUS
  <2> HIDE DEF st, co
  <2>5. [job[p] EXCEPT !.stale = st, !.covers = co] \in Jobs
    BY <2>1, <2>3 DEF Jobs
  <2>6. QED
    BY <2>1, <2>2, <2>4, <2>5 DEF Jobs, co
<1>4. owed' = owed \union T /\ UNCHANGED <<value, members, pc>>
  BY DEF Update
<1>5. QED
  BY <1>2, <1>3, <1>4, Zenon

(* Each variable stays in its range.                                       *)
LEMMA TypeStep == IInv /\ [Next]_vars => TypeOK'
<1> SUFFICES ASSUME IInv, [Next]_vars PROVE TypeOK'
  OBVIOUS
<1> USE PrefixAssumption DEF IInv
<1>1. ASSUME NEW p \in Processes, NEW k \in Keys, NEW T \in SUBSET Tags, Get(p, k, T)
      PROVE  TypeOK'
  BY <1>1 DEF Get, Goto, Call, TypeOK, Jobs, Steps
<1>2. ASSUME NEW p \in Processes, Evict(p)
      PROVE  TypeOK'
  BY <1>2 DEF Evict, Goto, Becomes, Reach, TypeOK, Steps
<1>3. ASSUME NEW p \in Processes, Execute(p)
      PROVE  TypeOK'
  BY <1>3 DEF Execute, Goto, TypeOK, Carries, Steps
<1>4. ASSUME NEW p \in Processes, ExecuteUncached(p)
      PROVE  TypeOK'
  BY <1>4 DEF ExecuteUncached, Return, Goto, Call, TypeOK, Jobs, Steps
<1>5. ASSUME NEW p \in Processes, Store(p)
      PROVE  TypeOK'
  <2>1. job[p].tags \in SUBSET Tags /\ job[p].stale \in SUBSET Tags
    BY DEF TypeOK, Jobs
  <2>2. Call(job[p].key, {}, job[p].tags, {}) \in Jobs /\ Call(NoKey, {}, {}, {}) \in Jobs
    BY <1>5, <2>1, StoreEffect DEF Call, Jobs
  <2>3. reach' \in [Keys -> [tags : SUBSET Tags, stale : SUBSET Tags]]
    BY <1>5, <2>1, StoreEffect DEF TypeOK, Store, Reach
  <2>4. pc' \in [Processes -> Steps] /\ job' \in [Processes -> Jobs]
    BY <1>5, <2>2 DEF TypeOK, Store, Return, Goto, Steps
  <2>5. QED
    BY <1>5, <2>3, <2>4 DEF TypeOK, Store
<1>6. ASSUME NEW p \in Processes, NEW t \in Tags, RegisterTag(p, t)
      PROVE  TypeOK'
  <2>1. Call(NoKey, {}, {}, {}) \in Jobs
    BY DEF Call, Jobs
  <2>2. [job[p] EXCEPT !.todo = job[p].todo \ {t}] \in Jobs
    <3>1. job[p].todo \ {t} \in SUBSET Tags
      BY JobFields
    <3>2. QED
      BY <3>1, JobFields, FieldType
  <2>3. pc' \in [Processes -> Steps] /\ job' \in [Processes -> Jobs]
    BY <1>6, <2>1, <2>2 DEF TypeOK, RegisterTag, Registered, AfterTag, Return, Goto, Steps
  <2>4. reach' \in [Keys -> [tags : SUBSET Tags, stale : SUBSET Tags]]
    BY <1>6 DEF TypeOK, RegisterTag, Lose, Reach
  <2>5. members' \in [Tags -> SUBSET Keys]
    <3>1. job[p].key \in Keys
      BY <1>6 DEF RegisterTag, Carries
    <3>2. QED
      BY <1>6, <3>1 DEF TypeOK, RegisterTag
  <2>6. QED
    BY <1>6, <2>3, <2>4, <2>5 DEF TypeOK, RegisterTag
<1>7. ASSUME NEW p \in Processes, NEW t \in Tags, Collect(p, t)
      PROVE  TypeOK'
  <2>1. \A q \in Processes : [job[q] EXCEPT !.stale = @ \ {t}] \in Jobs
    BY ZenonT(90) DEF TypeOK, Jobs
  <2>2. members[t] \in SUBSET Keys
    BY DEF TypeOK
  <2>3. [job[p] EXCEPT !.todo = job[p].todo \ {t}, !.sets = @ \union {t}, !.found = AlsoMembers(@, t)] \in Jobs
    <3>1. /\ job[p].todo \ {t} \in SUBSET Tags /\ job[p].sets \union {t} \in SUBSET Tags
          /\ AlsoMembers(job[p].found, t) \in SUBSET Keys
      BY <2>2, JobFields DEF AlsoMembers
    <3>2. QED
      BY <3>1, JobFields, FieldType
  <2>4. \A k \in Keys : [reach[k] EXCEPT !.stale = @ \ {t}] \in [tags : SUBSET Tags, stale : SUBSET Tags]
    BY DEF TypeOK
  <2>5. job' \in [Processes -> Jobs]
    BY <1>7, <2>1, <2>3 DEF Collect
  <2>6. reach' \in [Keys -> [tags : SUBSET Tags, stale : SUBSET Tags]]
    BY <1>7, <2>4 DEF TypeOK, Collect
  <2>7. QED
    BY <1>7, <2>5, <2>6 DEF TypeOK, Collect, Goto, Steps
<1>8. ASSUME NEW p \in Processes, NEW t \in Tags, DropSet(p, t)
      PROVE  TypeOK'
  <2>1. [job[p] EXCEPT !.sets = @ \ {t}] \in Jobs
    <3>1. job[p].sets \ {t} \in SUBSET Tags
      BY JobFields
    <3>2. QED
      BY <3>1, JobFields, FieldType
  <2>2. reach' \in [Keys -> [tags : SUBSET Tags, stale : SUBSET Tags]]
    BY <1>8 DEF TypeOK, DropSet, Lose, Reach
  <2>3. job' \in [Processes -> Jobs]
    BY <1>8, <2>1 DEF TypeOK, DropSet
  <2>4. QED
    BY <1>8, <2>2, <2>3 DEF TypeOK, DropSet
<1>9. ASSUME NEW p \in Processes, NEW k \in Keys, DropKey(p, k)
      PROVE  TypeOK'
  <2>1. [job[p] EXCEPT !.found = @ \ {k}] \in Jobs
    <3>1. job[p].found \ {k} \in SUBSET Keys
      BY JobFields
    <3>2. QED
      BY <3>1, JobFields, FieldType
  <2>2. reach' \in [Keys -> [tags : SUBSET Tags, stale : SUBSET Tags]]
    BY <1>9 DEF TypeOK, DropKey, Becomes, Reach
  <2>3. job' \in [Processes -> Jobs]
    BY <1>9, <2>1 DEF TypeOK, DropKey
  <2>4. QED
    BY <1>9, <2>2, <2>3 DEF TypeOK, DropKey, Becomes
<1>10. ASSUME NEW p \in Processes, Returns(p)
      PROVE  TypeOK'
  BY <1>10 DEF Returns, Return, Goto, Call, TypeOK, Jobs, Steps
<1>11. ASSUME NEW p \in Processes, Throw(p)
      PROVE  TypeOK'
  BY <1>11 DEF Throw, Lose, Return, Goto, Call, Reach, TypeOK, Jobs, Steps
<1>12. ASSUME NEW p \in Processes, NEW T \in SUBSET Tags, InvalidateTags(p, T)
      PROVE  TypeOK'
  BY <1>12 DEF InvalidateTags, Goto, Call, TypeOK, Jobs, Steps
<1>13. ASSUME NEW p \in Processes, NEW prefix \in Prefixes, InvalidatePrefix(p, prefix)
      PROVE  TypeOK'
  BY ZenonT(60), <1>13 DEF InvalidatePrefix, Goto, Call, TypeOK, Jobs, Steps
<1>14. ASSUME NEW T \in SUBSET Tags, Update(T)
      PROVE  TypeOK'
  <2>1. reach' \in [Keys -> [tags : SUBSET Tags, stale : SUBSET Tags]]
    BY ZenonT(60), <1>14, UpdateEffect DEF Update
  <2>2. job' \in [Processes -> Jobs]
    BY <1>14, UpdateEffect DEF Update
  <2>3. QED
    BY <1>14, <2>1, <2>2 DEF TypeOK, Update
<1>15. ASSUME NEW k \in Keys, Expire(k)
      PROVE  TypeOK'
  BY <1>15 DEF Expire, DeleteKey, Becomes, Reach, TypeOK
<1>16. ASSUME NEW k \in Keys, Corrupt(k)
      PROVE  TypeOK'
  BY <1>16 DEF Corrupt, Becomes, Reach, TypeOK
<1>17. CASE UNCHANGED vars
  BY <1>17 DEF vars, TypeOK, Carries
<1>18. QED
  BY <1>1, <1>2, <1>3, <1>4, <1>5, <1>6, <1>7, <1>8, <1>9, <1>10, <1>11, <1>12, <1>13, <1>14,
     <1>15, <1>16, <1>17
     DEF Next, Fill, Invalidate

(* Every step that ends a phase resets what the next one must not see.      *)
LEMMA CarriesStep == IInv /\ [Next]_vars => Carries'
<1> SUFFICES ASSUME IInv, [Next]_vars PROVE Carries'
  OBVIOUS
<1> USE PrefixAssumption DEF IInv
<1>1. ASSUME NEW p \in Processes, NEW k \in Keys, NEW T \in SUBSET Tags, Get(p, k, T)
      PROVE  Carries'
  BY <1>1 DEF Get, Goto, Call, TypeOK, Carries, Dropping
<1>2. ASSUME NEW p \in Processes, Evict(p)
      PROVE  Carries'
  BY <1>2 DEF Evict, Goto, Becomes, Carries, Dropping
<1>3. ASSUME NEW p \in Processes, Execute(p)
      PROVE  Carries'
  BY <1>3 DEF Execute, Goto, TypeOK, Carries, Dropping
<1>4. ASSUME NEW p \in Processes, ExecuteUncached(p)
      PROVE  Carries'
  BY <1>4 DEF ExecuteUncached, Return, Goto, Call, TypeOK, Carries, Dropping
<1>5. ASSUME NEW p \in Processes, Store(p)
      PROVE  Carries'
  BY <1>5 DEF Store, Return, Goto, Call, TypeOK, Carries, Dropping
<1>6. ASSUME NEW p \in Processes, NEW t \in Tags, RegisterTag(p, t)
      PROVE  Carries'
  <2>1. /\ pc[p] = "register" /\ job[p].key \in Keys
        /\ \A q \in Processes \ {p} : pc'[q] = pc[q] /\ job'[q] = job[q]
        /\ \/ pc'[p] = "idle" /\ job'[p] = Call(NoKey, {}, {}, {})
           \/ pc'[p] = "register" /\ job'[p] = [job[p] EXCEPT !.todo = job[p].todo \ {t}]
    BY <1>6, RegisterEffect
  <2>2. job[p] \in Jobs
    BY JobFields
  <2>3. QED
    BY <2>1, <2>2 DEF Carries, Jobs, Call, Dropping
<1>7. ASSUME NEW p \in Processes, NEW t \in Tags, Collect(p, t)
      PROVE  Carries'
  BY <1>7 DEF Collect, Goto, AlsoMembers, Carries, Dropping
<1>8. ASSUME NEW p \in Processes, NEW t \in Tags, DropSet(p, t)
      PROVE  Carries'
  BY <1>8 DEF DropSet, Lose, Reach, Carries, Dropping
<1>9. ASSUME NEW p \in Processes, NEW k \in Keys, DropKey(p, k)
      PROVE  Carries'
  BY <1>9 DEF DropKey, Becomes, Carries, Dropping
<1>10. ASSUME NEW p \in Processes, Returns(p)
      PROVE  Carries'
  BY <1>10 DEF Returns, Return, Goto, Call, TypeOK, Carries, Dropping
<1>11. ASSUME NEW p \in Processes, Throw(p)
      PROVE  Carries'
  BY <1>11 DEF Throw, Lose, Return, Goto, Call, TypeOK, Carries, Dropping
<1>12. ASSUME NEW p \in Processes, NEW T \in SUBSET Tags, InvalidateTags(p, T)
      PROVE  Carries'
  BY <1>12 DEF InvalidateTags, Goto, Call, TypeOK, Carries, Dropping
<1>13. ASSUME NEW p \in Processes, NEW prefix \in Prefixes, InvalidatePrefix(p, prefix)
      PROVE  Carries'
  BY <1>13 DEF InvalidatePrefix, Goto, Call, TypeOK, Carries, Dropping
<1>14. ASSUME NEW T \in SUBSET Tags, Update(T)
      PROVE  Carries'
  <2>1. /\ \A q \in Processes : /\ job'[q].key = job[q].key /\ job'[q].todo = job[q].todo
                                /\ job'[q].covers = job[q].covers \ T
                                /\ pc[q] # "store" => job'[q].stale = job[q].stale
        /\ pc' = pc
    BY <1>14, UpdateEffect
  <2>2. QED
    BY <2>1 DEF Carries, Dropping
<1>15. ASSUME NEW k \in Keys, Expire(k)
      PROVE  Carries'
  BY <1>15 DEF Expire, DeleteKey, Becomes, Carries, Dropping
<1>16. ASSUME NEW k \in Keys, Corrupt(k)
      PROVE  Carries'
  BY <1>16 DEF Corrupt, Becomes, Carries, Dropping
<1>17. CASE UNCHANGED vars
  BY <1>17 DEF vars, TypeOK, Carries, Dropping
<1>18. QED
  BY <1>1, <1>2, <1>3, <1>4, <1>5, <1>6, <1>7, <1>8, <1>9, <1>10, <1>11, <1>12, <1>13, <1>14,
     <1>15, <1>16, <1>17
     DEF Next, Fill, Invalidate

(* What would take a key out of a set, or end the fill or the deletion that *)
(* stands in for it, deletes the key or puts it out of the tag's reach.      *)
LEMMA HeldStep == IInv /\ [Next]_vars => Held'
<1> SUFFICES ASSUME IInv, [Next]_vars PROVE Held'
  OBVIOUS
<1> USE PrefixAssumption DEF IInv
<1>1. ASSUME NEW p \in Processes, NEW k \in Keys, NEW T \in SUBSET Tags, Get(p, k, T)
      PROVE  Held'
  BY <1>1 DEF Get, Goto, Call, Dropping, Held, Missing, Filling, Doomed
<1>2. ASSUME NEW p \in Processes, Evict(p)
      PROVE  Held'
  <2> SUFFICES ASSUME NEW k \in Keys, NEW s \in reach'[k].tags, k \notin members'[s]
               PROVE  Filling(k, s)' \/ Doomed(k)'
    BY DEF Held, Missing
  <2>1. reach'[k] = reach[k]
    BY <1>2 DEF Evict, Becomes, Reach, TypeOK
  <2>2. PICK q \in Processes : \/ pc[q] = "register" /\ job[q].key = k /\ s \in job[q].todo
                               \/ Dropping(q) /\ k \in job[q].found
    BY <1>2, <2>1 DEF Evict, Held, Missing, Filling, Doomed
  <2>3. QED
    BY <1>2, <2>2 DEF Evict, Goto, Filling, Doomed, Dropping
<1>3. ASSUME NEW p \in Processes, Execute(p)
      PROVE  Held'
  BY <1>3 DEF Execute, Goto, TypeOK, Dropping, Held, Missing, Filling, Doomed
<1>4. ASSUME NEW p \in Processes, ExecuteUncached(p)
      PROVE  Held'
  BY <1>4 DEF ExecuteUncached, Return, Goto, Call, Dropping, Held, Missing, Filling, Doomed
<1>5. ASSUME NEW p \in Processes, Store(p)
      PROVE  Held'
  <2> SUFFICES ASSUME NEW k \in Keys, NEW s \in reach'[k].tags, k \notin members'[s]
               PROVE  Filling(k, s)' \/ Doomed(k)'
    BY DEF Held, Missing
  <2>1. /\ pc[p] = "store"
        /\ reach'[job[p].key] = [tags |-> job[p].tags, stale |-> job[p].stale]
        /\ \A x \in Keys \ {job[p].key} : reach'[x] = reach[x]
        /\ \A q \in Processes \ {p} : pc'[q] = pc[q] /\ job'[q] = job[q]
        /\ \/ job[p].tags = {}
           \/ pc'[p] = "register" /\ job'[p] = Call(job[p].key, {}, job[p].tags, {})
    BY <1>5, StoreEffect
  <2>2. CASE k = job[p].key
    BY <2>1, <2>2 DEF Filling, Call
  <2>3. CASE k # job[p].key
    <3>1. s \in Missing(k)
      BY <1>5, <2>1, <2>3 DEF Missing, Store
    <3>2. PICK q \in Processes : \/ pc[q] = "register" /\ job[q].key = k /\ s \in job[q].todo
                                 \/ Dropping(q) /\ k \in job[q].found
      BY <3>1 DEF Held, Filling, Doomed
    <3>3. QED
      BY <2>1, <3>2 DEF Filling, Doomed, Dropping
  <2>4. QED
    BY <2>2, <2>3
<1>6. ASSUME NEW p \in Processes, NEW t \in Tags, RegisterTag(p, t)
      PROVE  Held'
  <2> SUFFICES ASSUME NEW k \in Keys, NEW u \in reach'[k].tags, k \notin members'[u]
               PROVE  Filling(k, u)' \/ Doomed(k)'
    BY DEF Held, Missing
  <2>1. /\ pc[p] = "register" /\ job[p] \in Jobs
        /\ members'[t] = members[t] \union {job[p].key}
        /\ \A x \in Tags \ {t} : members'[x] = members[x]
        /\ \A q \in Processes \ {p} : pc'[q] = pc[q] /\ job'[q] = job[q]
        /\ \/ job[p].todo = {t}
           \/ pc'[p] = "register" /\ job'[p] = [job[p] EXCEPT !.todo = job[p].todo \ {t}]
        /\ k = job[p].key => reach'[k] = reach[k] \/ reach'[k].tags = reach[k].tags \ {t}
        /\ k # job[p].key => reach'[k] = reach[k]
    BY <1>6, RegisterEffect, JobFields
  <2>2. u \in Tags /\ u \in Missing(k)
    BY <2>1 DEF Missing, TypeOK
  <2>3. PICK q \in Processes : \/ pc[q] = "register" /\ job[q].key = k /\ u \in job[q].todo
                               \/ Dropping(q) /\ k \in job[q].found
    BY <2>2 DEF Held, Filling, Doomed
  <2>4. q = p => u # t /\ job[p].key = k
    BY <2>1, <2>3 DEF Dropping
  <2>5. QED
    BY <2>1, <2>3, <2>4 DEF Filling, Doomed, Dropping, Jobs
<1>7. ASSUME NEW p \in Processes, NEW t \in Tags, Collect(p, t)
      PROVE  Held'
  <2> SUFFICES ASSUME NEW k \in Keys, NEW u \in reach'[k].tags, k \notin members'[u]
               PROVE  Filling(k, u)' \/ Doomed(k)'
    BY DEF Held, Missing
  <2>1. /\ pc[p] = "collect" /\ \A q \in Processes \ {p} : pc'[q] = pc[q]
        /\ \A q \in Processes \ {p} : /\ job'[q].key = job[q].key /\ job'[q].todo = job[q].todo
                                      /\ job'[q].found = job[q].found
    BY <1>7 DEF Collect, Goto, TypeOK, Jobs
  <2>2. u \in Missing(k)
    BY <1>7 DEF Collect, Missing, TypeOK
  <2>3. PICK q \in Processes : \/ pc[q] = "register" /\ job[q].key = k /\ u \in job[q].todo
                               \/ Dropping(q) /\ k \in job[q].found
    BY <2>2 DEF Held, Filling, Doomed
  <2>4. QED
    BY <2>1, <2>3 DEF Filling, Doomed, Dropping
<1>8. ASSUME NEW p \in Processes, NEW t \in Tags, DropSet(p, t)
      PROVE  Held'
  <2> SUFFICES ASSUME NEW k \in Keys, NEW u \in reach'[k].tags, k \notin members'[u]
               PROVE  Filling(k, u)' \/ Doomed(k)'
    BY DEF Held, Missing
  <2>1. /\ pc' = pc /\ Dropping(p)
        /\ \A q \in Processes : /\ job'[q].key = job[q].key /\ job'[q].todo = job[q].todo
                                /\ job'[q].found = job[q].found
    <3>1. /\ pc' = pc /\ Dropping(p)
          /\ job' = [job EXCEPT ![p].sets = @ \ {t}]
      BY <1>8 DEF DropSet
    <3>2. QED
      BY <3>1 DEF TypeOK, Jobs
  <2>2. u \in reach[k].tags /\ u \in Tags
    BY <1>8 DEF DropSet, Lose, Reach, TypeOK
  <2>3. CASE k \notin members[u]
    <3>1. Filling(k, u) \/ Doomed(k)
      BY <2>2, <2>3 DEF Held, Missing
    <3>2. QED
      BY <2>1, <3>1 DEF Filling, Doomed, Dropping
  <2>4. CASE k \in members[u]
    <3>1. u = t /\ t \in job[p].sets
      <4>1. members' = [members EXCEPT ![t] = {}] /\ t \in job[p].sets
        BY <1>8 DEF DropSet
      <4>2. QED
        BY <2>2, <2>4, <4>1 DEF TypeOK
    <3>2. CASE pc[p] = "purge"
      <4>1. k \in job[p].found
        BY <1>8, <2>4, <3>1, <3>2 DEF DropSet, Lose, Reach
      <4>2. QED
        BY <2>1, <4>1 DEF Doomed, Dropping
    <3>3. CASE pc[p] = "drop"
      <4>1. k \in job[p].found \/ Filling(k, t)
        BY <2>2, <2>4, <3>1, <3>3 DEF Listed
      <4>2. QED
        BY <2>1, <3>1, <4>1 DEF Doomed, Dropping, Filling
    <3>4. QED
      BY <2>1, <3>2, <3>3 DEF Dropping
  <2>5. QED
    BY <2>3, <2>4
<1>9. ASSUME NEW p \in Processes, NEW k \in Keys, DropKey(p, k)
      PROVE  Held'
  <2> SUFFICES ASSUME NEW x \in Keys, NEW s \in reach'[x].tags, x \notin members'[s]
               PROVE  Filling(x, s)' \/ Doomed(x)'
    BY DEF Held, Missing
  <2>1. /\ Dropping(p) /\ UNCHANGED <<pc, members>>
        /\ reach'[k] = [tags |-> {}, stale |-> {}] /\ \A y \in Keys \ {k} : reach'[y] = reach[y]
        /\ \A q \in Processes : /\ job'[q].key = job[q].key /\ job'[q].todo = job[q].todo
                                /\ job[q].found \ {k} \subseteq job'[q].found
    BY <1>9 DEF DropKey, Becomes, Reach, TypeOK
  <2>2. x # k /\ (Filling(x, s) \/ Doomed(x))
    BY <2>1 DEF Held, Missing
  <2>3. QED
    BY <2>1, <2>2 DEF Filling, Doomed, Dropping
<1>10. ASSUME NEW p \in Processes, Returns(p)
      PROVE  Held'
  BY <1>10 DEF Returns, Return, Goto, Call, Dropping, Held, Missing, Filling, Doomed
<1>11. ASSUME NEW p \in Processes, Throw(p)
      PROVE  Held'
  BY <1>11 DEF Throw, Lose, Return, Goto, Call, Reach, Missing, Dropping, Held, Filling, Doomed
<1>12. ASSUME NEW p \in Processes, NEW T \in SUBSET Tags, InvalidateTags(p, T)
      PROVE  Held'
  BY <1>12 DEF InvalidateTags, Goto, Call, Dropping, Held, Missing, Filling, Doomed
<1>13. ASSUME NEW p \in Processes, NEW prefix \in Prefixes, InvalidatePrefix(p, prefix)
      PROVE  Held'
  BY <1>13 DEF InvalidatePrefix, Goto, Call, Dropping, Held, Missing, Filling, Doomed
<1>14. ASSUME NEW T \in SUBSET Tags, Update(T)
      PROVE  Held'
  <2> SUFFICES ASSUME NEW k \in Keys, NEW s \in reach'[k].tags, k \notin members'[s]
               PROVE  Filling(k, s)' \/ Doomed(k)'
    BY DEF Held, Missing
  <2>1. /\ UNCHANGED <<pc, members>> /\ reach'[k].tags = reach[k].tags
        /\ \A q \in Processes : /\ job'[q].key = job[q].key /\ job'[q].todo = job[q].todo
                                /\ job'[q].found = job[q].found
    BY <1>14, UpdateEffect
  <2>2. Filling(k, s) \/ Doomed(k)
    BY <2>1 DEF Held, Missing
  <2>3. QED
    BY <2>1, <2>2 DEF Filling, Doomed, Dropping
<1>15. ASSUME NEW k \in Keys, Expire(k)
      PROVE  Held'
  BY <1>15 DEF Expire, DeleteKey, Becomes, Reach, Dropping, Held, Missing, Filling, Doomed
<1>16. ASSUME NEW k \in Keys, Corrupt(k)
      PROVE  Held'
  BY <1>16 DEF Corrupt, Becomes, Reach, Dropping, Held, Missing, Filling, Doomed
<1>17. CASE UNCHANGED vars
  BY <1>17 DEF vars, TypeOK, Dropping, Held, Missing, Filling, Doomed
<1>18. QED
  BY <1>1, <1>2, <1>3, <1>4, <1>5, <1>6, <1>7, <1>8, <1>9, <1>10, <1>11, <1>12, <1>13, <1>14,
     <1>15, <1>16, <1>17
     DEF Next, Fill, Invalidate

(* A set that has been listed gains a key by an SADD only, which is noticed. *)
LEMMA ListedStep == IInv /\ [Next]_vars => Listed'
<1> SUFFICES ASSUME IInv, [Next]_vars PROVE Listed'
  OBVIOUS
<1> USE PrefixAssumption DEF IInv
<1>1. ASSUME NEW p \in Processes, NEW k \in Keys, NEW T \in SUBSET Tags, Get(p, k, T)
      PROVE  Listed'
  BY <1>1 DEF Get, Goto, Call, Listed, Filling
<1>2. ASSUME NEW p \in Processes, Evict(p)
      PROVE  Listed'
  BY SMTT(60), <1>2
     DEF Evict, Goto, Becomes, Reach, TypeOK, Carries, Jobs, Steps, Dropping, Listed, Filling
<1>3. ASSUME NEW p \in Processes, Execute(p)
      PROVE  Listed'
  BY <1>3 DEF Execute, Goto, TypeOK, Listed, Filling
<1>4. ASSUME NEW p \in Processes, ExecuteUncached(p)
      PROVE  Listed'
  BY <1>4 DEF ExecuteUncached, Return, Goto, Call, Listed, Filling
<1>5. ASSUME NEW p \in Processes, Store(p)
      PROVE  Listed'
  <2> SUFFICES ASSUME NEW r \in Processes, pc'[r] \in {"collect", "drop"}, NEW u \in job'[r].sets,
                      NEW k \in members'[u], u \in reach'[k].tags
               PROVE  k \in job'[r].found \/ Filling(k, u)'
    BY DEF Listed
  <2>1. /\ pc[p] = "store" /\ job[p].key \in Keys /\ UNCHANGED <<members, owed>>
        /\ reach'[job[p].key] = [tags |-> job[p].tags, stale |-> job[p].stale]
        /\ \A x \in Keys \ {job[p].key} : reach'[x] = reach[x]
        /\ \A q \in Processes \ {p} : pc'[q] = pc[q] /\ job'[q] = job[q]
        /\ \/ job[p].tags = {} /\ pc'[p] = "idle" /\ job'[p] = Call(NoKey, {}, {}, {})
           \/ pc'[p] = "register" /\ job'[p] = Call(job[p].key, {}, job[p].tags, {})
    BY <1>5, StoreEffect DEF Store
  <2>2. r # p /\ u \in Tags
    BY <2>1, JobFields
  <2>3. k \in Keys
    BY <2>1, <2>2 DEF TypeOK
  <2>4. CASE k = job[p].key
    BY <2>1, <2>4 DEF Filling, Call
  <2>5. CASE k # job[p].key
    <3>1. k \in job[r].found \/ Filling(k, u)
      BY <2>1, <2>2, <2>3, <2>5 DEF Listed
    <3>2. QED
      BY <2>1, <2>2, <3>1 DEF Filling
  <2>6. QED
    BY <2>4, <2>5
<1>6. ASSUME NEW p \in Processes, NEW t \in Tags, RegisterTag(p, t)
      PROVE  Listed'
  <2> SUFFICES ASSUME NEW r \in Processes, pc'[r] \in {"collect", "drop"}, NEW u \in job'[r].sets,
                      NEW k \in members'[u], u \in reach'[k].tags
               PROVE  k \in job'[r].found \/ Filling(k, u)'
    BY DEF Listed
  <2>1. /\ pc[p] = "register" /\ job[p].key \in Keys /\ job[p] \in Jobs /\ t \in job[p].todo
        /\ members'[t] = members[t] \union {job[p].key}
        /\ \A x \in Tags \ {t} : members'[x] = members[x]
        /\ \A q \in Processes \ {p} : pc'[q] = pc[q] /\ job'[q] = job[q]
        /\ \/ job[p].todo = {t} /\ pc'[p] = "idle" /\ job'[p] = Call(NoKey, {}, {}, {})
           \/ pc'[p] = "register" /\ job'[p] = [job[p] EXCEPT !.todo = job[p].todo \ {t}]
        /\ \/ /\ reach'[job[p].key].tags = reach[job[p].key].tags \ {t}
              /\ reach'[job[p].key].stale = reach[job[p].key].stale \ {t}
           \/ /\ reach'[job[p].key] = reach[job[p].key]
              /\ \A q \in Processes : t \notin job[q].sets
        /\ \A x \in Keys \ {job[p].key} : reach'[x] = reach[x]
        /\ owed' = owed
    <3>1. owed' = owed
      BY <1>6 DEF RegisterTag
    <3>2. job[p] \in Jobs
      BY JobFields
    <3>3. QED
      BY <1>6, <3>1, <3>2, RegisterEffect
  <2>2. r # p /\ u \in Tags
    BY <2>1, JobFields
  <2>3. k \in Keys
    BY <2>1, <2>2 DEF TypeOK
  <2>4. u = t => k # job[p].key
    BY <2>1, <2>2
  <2>5. k \in members[u] /\ u \in reach[k].tags
    BY <2>1, <2>2, <2>3, <2>4
  <2>6. k \in job[r].found \/ Filling(k, u)
    BY <2>1, <2>2, <2>5 DEF Listed
  <2>7. QED
    BY <2>1, <2>2, <2>4, <2>6 DEF Filling, Jobs
<1>7. ASSUME NEW p \in Processes, NEW t \in Tags, Collect(p, t)
      PROVE  Listed'
  BY <1>7 DEF Collect, Goto, AlsoMembers, TypeOK, Jobs, Steps, Dropping, Listed, Filling
<1>8. ASSUME NEW p \in Processes, NEW t \in Tags, DropSet(p, t)
      PROVE  Listed'
  BY <1>8 DEF DropSet, Lose, Reach, TypeOK, Jobs, Listed, Filling
<1>9. ASSUME NEW p \in Processes, NEW k \in Keys, DropKey(p, k)
      PROVE  Listed'
  BY <1>9 DEF DropKey, Becomes, Reach, Dropping, Listed, Filling
<1>10. ASSUME NEW p \in Processes, Returns(p)
      PROVE  Listed'
  BY <1>10 DEF Returns, Return, Goto, Call, Dropping, Listed, Filling
<1>11. ASSUME NEW p \in Processes, Throw(p)
      PROVE  Listed'
  BY <1>11 DEF Throw, Lose, Return, Goto, Reach, TypeOK, Jobs, Listed, Filling
<1>12. ASSUME NEW p \in Processes, NEW T \in SUBSET Tags, InvalidateTags(p, T)
      PROVE  Listed'
  BY <1>12 DEF InvalidateTags, Goto, Call, TypeOK, Listed, Filling
<1>13. ASSUME NEW p \in Processes, NEW prefix \in Prefixes, InvalidatePrefix(p, prefix)
      PROVE  Listed'
  BY <1>13 DEF InvalidatePrefix, Goto, Call, Listed, Filling
<1>14. ASSUME NEW T \in SUBSET Tags, Update(T)
      PROVE  Listed'
  <2> SUFFICES ASSUME NEW r \in Processes, pc'[r] \in {"collect", "drop"}, NEW u \in job'[r].sets,
                      NEW k \in members'[u], u \in reach'[k].tags
               PROVE  k \in job'[r].found \/ Filling(k, u)'
    BY DEF Listed
  <2>1. /\ \A x \in Keys : /\ reach'[x].tags = reach[x].tags
                          /\ reach'[x].stale = reach[x].stale \union (T \intersect reach[x].tags)
        /\ \A q \in Processes :
             /\ job'[q].key = job[q].key /\ job'[q].tags = job[q].tags /\ job'[q].todo = job[q].todo
             /\ job'[q].sets = job[q].sets /\ job'[q].found = job[q].found
             /\ job'[q].covers = job[q].covers \ T
             /\ job'[q].stale \subseteq job[q].stale \union (T \intersect job[q].tags)
        /\ owed' = owed \union T /\ UNCHANGED <<value, members, pc>>
    BY <1>14, UpdateEffect
  <2>2. u \in Tags
    BY <2>1, JobFields
  <2>3. k \in Keys
    BY <2>1, <2>2 DEF TypeOK
  <2>4. k \in job[r].found \/ Filling(k, u)
    BY <2>1, <2>2, <2>3 DEF Listed
  <2>5. QED
    BY <2>1, <2>4 DEF Filling
<1>15. ASSUME NEW k \in Keys, Expire(k)
      PROVE  Listed'
  BY <1>15 DEF Expire, DeleteKey, Becomes, Reach, Listed, Filling
<1>16. ASSUME NEW k \in Keys, Corrupt(k)
      PROVE  Listed'
  BY <1>16 DEF Corrupt, Becomes, Reach, Listed, Filling
<1>17. CASE UNCHANGED vars
  BY <1>17 DEF vars, TypeOK, Listed, Filling
<1>18. QED
  BY <1>1, <1>2, <1>3, <1>4, <1>5, <1>6, <1>7, <1>8, <1>9, <1>10, <1>11, <1>12, <1>13, <1>14,
     <1>15, <1>16, <1>17
     DEF Next, Fill, Invalidate

(* What is updated is owed until an invalidation that has seen it returns.  *)
LEMMA StaleOwedStep == IInv /\ [Next]_vars => StaleOwed'
<1> SUFFICES ASSUME IInv, [Next]_vars PROVE StaleOwed'
  OBVIOUS
<1> USE PrefixAssumption DEF IInv
<1>1. ASSUME NEW p \in Processes, NEW k \in Keys, NEW T \in SUBSET Tags, Get(p, k, T)
      PROVE  StaleOwed'
  BY <1>1 DEF Get, Goto, Call, TypeOK, StaleOwed, OutOfReach, Filling
<1>2. ASSUME NEW p \in Processes, Evict(p)
      PROVE  StaleOwed'
  <2>1. /\ pc[p] = "evict" /\ pc' = [pc EXCEPT ![p] = "execute"] /\ UNCHANGED <<members, job, owed>>
        /\ \A x \in Keys : reach'[x] = reach[x] \/ reach'[x].stale = {}
    BY <1>2 DEF Evict, Goto, Becomes, Reach, TypeOK
  <2>a. ASSUME NEW k \in Keys, NEW s \in reach'[k].stale
        PROVE  s \in reach'[k].tags /\ (s \in owed' \/ OutOfReach(k, s)')
    <3>1. s \in reach'[k].tags /\ (s \in owed \/ OutOfReach(k, s))
      BY <2>1, <2>a DEF StaleOwed
    <3>2. QED
      BY <2>1, <3>1 DEF OutOfReach, Filling
  <2>b. ASSUME NEW r \in Processes
        PROVE  job'[r].stale \subseteq job'[r].tags /\ job'[r].stale \subseteq owed'
    BY <2>1 DEF StaleOwed
  <2> QED
    BY <2>a, <2>b DEF StaleOwed
<1>3. ASSUME NEW p \in Processes, Execute(p)
      PROVE  StaleOwed'
  BY <1>3 DEF Execute, Goto, TypeOK, StaleOwed, OutOfReach, Filling
<1>4. ASSUME NEW p \in Processes, ExecuteUncached(p)
      PROVE  StaleOwed'
  BY <1>4 DEF ExecuteUncached, Return, Goto, Call, StaleOwed, OutOfReach, Filling
<1>5. ASSUME NEW p \in Processes, Store(p)
      PROVE  StaleOwed'
  <2>1. /\ pc[p] = "store" /\ job[p].key \in Keys /\ UNCHANGED <<members, owed>>
        /\ reach'[job[p].key] = [tags |-> job[p].tags, stale |-> job[p].stale]
        /\ \A x \in Keys \ {job[p].key} : reach'[x] = reach[x]
        /\ \A q \in Processes \ {p} : pc'[q] = pc[q] /\ job'[q] = job[q]
        /\ \/ job[p].tags = {} /\ pc'[p] = "idle" /\ job'[p] = Call(NoKey, {}, {}, {})
           \/ pc'[p] = "register" /\ job'[p] = Call(job[p].key, {}, job[p].tags, {})
    BY <1>5, StoreEffect DEF Store
  <2>a. ASSUME NEW k \in Keys, NEW s \in reach'[k].stale
        PROVE  s \in reach'[k].tags /\ (s \in owed' \/ OutOfReach(k, s)')
    <3>1. CASE k = job[p].key
      BY <2>1, <2>a, <3>1 DEF StaleOwed
    <3>2. CASE k # job[p].key
      <4>1. s \in reach[k].tags /\ (s \in owed \/ OutOfReach(k, s))
        BY <2>1, <2>a, <3>2 DEF StaleOwed
      <4>2. QED
        BY <2>1, <3>2, <4>1 DEF OutOfReach, Filling, Call
    <3>3. QED
      BY <3>1, <3>2
  <2>b. ASSUME NEW r \in Processes
        PROVE  job'[r].stale \subseteq job'[r].tags /\ job'[r].stale \subseteq owed'
    BY <2>1 DEF StaleOwed, Call
  <2> QED
    BY <2>a, <2>b DEF StaleOwed
<1>6. ASSUME NEW p \in Processes, NEW t \in Tags, RegisterTag(p, t)
      PROVE  StaleOwed'
  <2>1. /\ pc[p] = "register" /\ job[p].key \in Keys /\ job[p] \in Jobs /\ t \in job[p].todo
        /\ members'[t] = members[t] \union {job[p].key}
        /\ \A x \in Tags \ {t} : members'[x] = members[x]
        /\ \A q \in Processes \ {p} : pc'[q] = pc[q] /\ job'[q] = job[q]
        /\ \/ job[p].todo = {t} /\ pc'[p] = "idle" /\ job'[p] = Call(NoKey, {}, {}, {})
           \/ pc'[p] = "register" /\ job'[p] = [job[p] EXCEPT !.todo = job[p].todo \ {t}]
        /\ \/ /\ reach'[job[p].key].tags = reach[job[p].key].tags \ {t}
              /\ reach'[job[p].key].stale = reach[job[p].key].stale \ {t}
           \/ /\ reach'[job[p].key] = reach[job[p].key]
              /\ \A q \in Processes : t \notin job[q].sets
        /\ \A x \in Keys \ {job[p].key} : reach'[x] = reach[x]
        /\ owed' = owed
    <3>1. owed' = owed
      BY <1>6 DEF RegisterTag
    <3>2. job[p] \in Jobs
      BY JobFields
    <3>3. QED
      BY <1>6, <3>1, <3>2, RegisterEffect
  <2>a. ASSUME NEW k \in Keys, NEW s \in reach'[k].stale
        PROVE  s \in reach'[k].tags /\ (s \in owed' \/ OutOfReach(k, s)')
    <3>1. s \in reach[k].stale
      BY <2>1, <2>a
    <3>2. s \in reach[k].tags /\ (s \in owed \/ OutOfReach(k, s)) /\ s \in Tags
      BY <3>1 DEF StaleOwed, TypeOK
    <3>3. s \in reach'[k].tags
      BY <2>1, <2>a, <3>2
    <3>4. OutOfReach(k, s) => OutOfReach(k, s)'
      BY <2>1, <3>2 DEF OutOfReach, Filling, Jobs
    <3>5. QED
      BY <2>1, <3>2, <3>3, <3>4
  <2>b. ASSUME NEW r \in Processes
        PROVE  job'[r].stale \subseteq job'[r].tags /\ job'[r].stale \subseteq owed'
    BY <2>1 DEF StaleOwed, Call, Jobs
  <2> QED
    BY <2>a, <2>b DEF StaleOwed
<1>7. ASSUME NEW p \in Processes, NEW t \in Tags, Collect(p, t)
      PROVE  StaleOwed'
  BY <1>7 DEF Collect, Goto, AlsoMembers, StaleOwed, OutOfReach, Filling
<1>8. ASSUME NEW p \in Processes, NEW t \in Tags, DropSet(p, t)
      PROVE  StaleOwed'
  BY <1>8 DEF DropSet, Lose, Reach, StaleOwed, OutOfReach, Filling
<1>9. ASSUME NEW p \in Processes, NEW k \in Keys, DropKey(p, k)
      PROVE  StaleOwed'
  BY <1>9 DEF DropKey, Becomes, Reach, StaleOwed, OutOfReach, Filling
<1>10. ASSUME NEW p \in Processes, Returns(p)
      PROVE  StaleOwed'
  BY <1>10 DEF Returns, Return, Goto, Call, Carries, StaleOwed, Covered, OutOfReach, Filling
<1>11. ASSUME NEW p \in Processes, Throw(p)
      PROVE  StaleOwed'
  BY <1>11 DEF Throw, Lose, Return, Goto, Call, Reach, StaleOwed, OutOfReach, Filling
<1>12. ASSUME NEW p \in Processes, NEW T \in SUBSET Tags, InvalidateTags(p, T)
      PROVE  StaleOwed'
  BY <1>12 DEF InvalidateTags, Goto, Call, TypeOK, StaleOwed, OutOfReach, Filling
<1>13. ASSUME NEW p \in Processes, NEW prefix \in Prefixes, InvalidatePrefix(p, prefix)
      PROVE  StaleOwed'
  BY <1>13 DEF InvalidatePrefix, Goto, Call, TypeOK, StaleOwed, OutOfReach, Filling
<1>14. ASSUME NEW T \in SUBSET Tags, Update(T)
      PROVE  StaleOwed'
  <2>1. /\ \A x \in Keys : /\ reach'[x].tags = reach[x].tags
                          /\ reach'[x].stale = reach[x].stale \union (T \intersect reach[x].tags)
        /\ \A q \in Processes :
             /\ job'[q].key = job[q].key /\ job'[q].tags = job[q].tags /\ job'[q].todo = job[q].todo
             /\ job'[q].sets = job[q].sets /\ job'[q].found = job[q].found
             /\ job'[q].covers = job[q].covers \ T
             /\ job'[q].stale \subseteq job[q].stale \union (T \intersect job[q].tags)
        /\ owed' = owed \union T /\ UNCHANGED <<value, members, pc>>
    BY <1>14, UpdateEffect
  <2>a. ASSUME NEW k \in Keys, NEW s \in reach'[k].stale
        PROVE  s \in reach'[k].tags /\ (s \in owed' \/ OutOfReach(k, s)')
    <3>1. OutOfReach(k, s)' <=> OutOfReach(k, s)
      BY <2>1 DEF OutOfReach, Filling
    <3>2. QED
      BY <2>1, <2>a, <3>1 DEF StaleOwed
  <2>b. ASSUME NEW r \in Processes
        PROVE  job'[r].stale \subseteq job'[r].tags /\ job'[r].stale \subseteq owed'
    BY <2>1 DEF StaleOwed
  <2> QED
    BY <2>a, <2>b DEF StaleOwed
<1>15. ASSUME NEW k \in Keys, Expire(k)
      PROVE  StaleOwed'
  BY <1>15 DEF Expire, DeleteKey, Becomes, Reach, StaleOwed, OutOfReach, Filling
<1>16. ASSUME NEW k \in Keys, Corrupt(k)
      PROVE  StaleOwed'
  BY <1>16 DEF Corrupt, Becomes, Reach, StaleOwed, OutOfReach, Filling
<1>17. CASE UNCHANGED vars
  BY <1>17 DEF vars, TypeOK, StaleOwed, OutOfReach, Filling
<1>18. QED
  BY <1>1, <1>2, <1>3, <1>4, <1>5, <1>6, <1>7, <1>8, <1>9, <1>10, <1>11, <1>12, <1>13, <1>14,
     <1>15, <1>16, <1>17
     DEF Next, Fill, Invalidate

(* SMEMBERS finds what is stale, or the fill that has yet to register.      *)
LEMMA CoveredStep == IInv /\ [Next]_vars => Covered'
<1> SUFFICES ASSUME IInv, [Next]_vars PROVE Covered'
  OBVIOUS
<1> USE PrefixAssumption DEF IInv
<1>1. ASSUME NEW p \in Processes, NEW k \in Keys, NEW T \in SUBSET Tags, Get(p, k, T)
      PROVE  Covered'
  BY <1>1 DEF Get, Goto, Call, TypeOK, Covered, OutOfReach, Filling
<1>2. ASSUME NEW p \in Processes, Evict(p)
      PROVE  Covered'
  BY <1>2
     DEF Evict, Goto, Becomes, Reach, TypeOK, Carries, Steps, Dropping, StaleOwed, Covered,
         OutOfReach, Filling
<1>3. ASSUME NEW p \in Processes, Execute(p)
      PROVE  Covered'
  BY <1>3 DEF Execute, Goto, TypeOK, Covered, OutOfReach, Filling
<1>4. ASSUME NEW p \in Processes, ExecuteUncached(p)
      PROVE  Covered'
  BY <1>4 DEF ExecuteUncached, Return, Goto, Call, Covered, OutOfReach, Filling
<1>5. ASSUME NEW p \in Processes, Store(p)
      PROVE  Covered'
  <2> SUFFICES ASSUME NEW r \in Processes, NEW u \in job'[r].covers \ job'[r].todo
               PROVE  /\ \A q \in Processes : u \notin job'[q].stale
                      /\ \A k \in Keys : u \in reach'[k].stale => k \in job'[r].found \/ OutOfReach(k, u)'
    BY DEF Covered
  <2>1. /\ pc[p] = "store" /\ job[p].key \in Keys /\ UNCHANGED <<members, owed>>
        /\ reach'[job[p].key] = [tags |-> job[p].tags, stale |-> job[p].stale]
        /\ \A x \in Keys \ {job[p].key} : reach'[x] = reach[x]
        /\ \A q \in Processes \ {p} : pc'[q] = pc[q] /\ job'[q] = job[q]
        /\ \/ job[p].tags = {} /\ pc'[p] = "idle" /\ job'[p] = Call(NoKey, {}, {}, {})
           \/ pc'[p] = "register" /\ job'[p] = Call(job[p].key, {}, job[p].tags, {})
    BY <1>5, StoreEffect DEF Store
  <2>2. r # p /\ u \in Tags
    BY <2>1, JobFields DEF Call
  <2>3. /\ \A q \in Processes : u \notin job[q].stale
        /\ \A k \in Keys : u \in reach[k].stale => k \in job[r].found \/ OutOfReach(k, u)
    BY <2>1, <2>2 DEF Covered
  <2>4. \A q \in Processes : u \notin job'[q].stale
    BY <2>1, <2>3 DEF Call
  <2>5. ASSUME NEW k \in Keys, u \in reach'[k].stale
        PROVE  k \in job'[r].found \/ OutOfReach(k, u)'
    <3>1. k # job[p].key
      BY <2>1, <2>3, <2>5
    <3>2. QED
      BY <2>1, <2>2, <2>3, <2>5, <3>1 DEF OutOfReach, Filling, Call
  <2>6. QED
    BY <2>4, <2>5
<1>6. ASSUME NEW p \in Processes, NEW t \in Tags, RegisterTag(p, t)
      PROVE  Covered'
  <2> SUFFICES ASSUME NEW r \in Processes, NEW u \in job'[r].covers \ job'[r].todo
               PROVE  /\ \A q \in Processes : u \notin job'[q].stale
                      /\ \A k \in Keys : u \in reach'[k].stale => k \in job'[r].found \/ OutOfReach(k, u)'
    BY DEF Covered
  <2>1. /\ pc[p] = "register" /\ job[p].key \in Keys /\ job[p] \in Jobs /\ t \in job[p].todo
        /\ members'[t] = members[t] \union {job[p].key}
        /\ \A x \in Tags \ {t} : members'[x] = members[x]
        /\ \A q \in Processes \ {p} : pc'[q] = pc[q] /\ job'[q] = job[q]
        /\ \/ job[p].todo = {t} /\ pc'[p] = "idle" /\ job'[p] = Call(NoKey, {}, {}, {})
           \/ pc'[p] = "register" /\ job'[p] = [job[p] EXCEPT !.todo = job[p].todo \ {t}]
        /\ \/ /\ reach'[job[p].key].tags = reach[job[p].key].tags \ {t}
              /\ reach'[job[p].key].stale = reach[job[p].key].stale \ {t}
           \/ /\ reach'[job[p].key] = reach[job[p].key]
              /\ \A q \in Processes : t \notin job[q].sets
        /\ \A x \in Keys \ {job[p].key} : reach'[x] = reach[x]
        /\ owed' = owed
    <3>1. owed' = owed
      BY <1>6 DEF RegisterTag
    <3>2. job[p] \in Jobs
      BY JobFields
    <3>3. QED
      BY <1>6, <3>1, <3>2, RegisterEffect
  <2>2. r # p /\ u \in Tags
    BY <2>1, JobFields DEF Call, Carries, Jobs
  <2>3. /\ \A q \in Processes : u \notin job[q].stale
        /\ \A k \in Keys : u \in reach[k].stale => k \in job[r].found \/ OutOfReach(k, u)
    BY <2>1, <2>2 DEF Covered
  <2>4. \A q \in Processes : u \notin job'[q].stale
    BY <2>1, <2>3 DEF Call, Jobs
  <2>5. ASSUME NEW k \in Keys, u \in reach'[k].stale
        PROVE  k \in job'[r].found \/ OutOfReach(k, u)'
    <3>1. u \in reach[k].stale
      BY <2>1, <2>5
    <3>2. OutOfReach(k, u) => OutOfReach(k, u)'
      BY <2>1, <2>2 DEF OutOfReach, Filling, Jobs
    <3>3. QED
      BY <2>1, <2>2, <2>3, <3>1, <3>2
  <2>6. QED
    BY <2>4, <2>5
<1>7. ASSUME NEW p \in Processes, NEW t \in Tags, Collect(p, t)
      PROVE  Covered'
  BY <1>7 DEF Collect, Goto, AlsoMembers, TypeOK, Carries, Steps, Covered, OutOfReach, Filling
<1>8. ASSUME NEW p \in Processes, NEW t \in Tags, DropSet(p, t)
      PROVE  Covered'
  BY <1>8 DEF DropSet, Lose, Reach, Covered, OutOfReach, Filling
<1>9. ASSUME NEW p \in Processes, NEW k \in Keys, DropKey(p, k)
      PROVE  Covered'
  BY <1>9 DEF DropKey, Becomes, Reach, TypeOK, Covered, OutOfReach, Filling
<1>10. ASSUME NEW p \in Processes, Returns(p)
      PROVE  Covered'
  BY <1>10 DEF Returns, Return, Goto, Call, Covered, OutOfReach, Filling
<1>11. ASSUME NEW p \in Processes, Throw(p)
      PROVE  Covered'
  BY <1>11 DEF Throw, Lose, Return, Goto, Call, Reach, Covered, OutOfReach, Filling
<1>12. ASSUME NEW p \in Processes, NEW T \in SUBSET Tags, InvalidateTags(p, T)
      PROVE  Covered'
  BY <1>12 DEF InvalidateTags, Goto, Call, TypeOK, Covered, OutOfReach, Filling
<1>13. ASSUME NEW p \in Processes, NEW prefix \in Prefixes, InvalidatePrefix(p, prefix)
      PROVE  Covered'
  BY <1>13 DEF InvalidatePrefix, Goto, Call, TypeOK, Covered, OutOfReach, Filling
<1>14. ASSUME NEW T \in SUBSET Tags, Update(T)
      PROVE  Covered'
  <2> SUFFICES ASSUME NEW r \in Processes, NEW u \in job'[r].covers \ job'[r].todo
               PROVE  /\ \A q \in Processes : u \notin job'[q].stale
                      /\ \A k \in Keys : u \in reach'[k].stale => k \in job'[r].found \/ OutOfReach(k, u)'
    BY DEF Covered
  <2>1. /\ \A x \in Keys : /\ reach'[x].tags = reach[x].tags
                          /\ reach'[x].stale = reach[x].stale \union (T \intersect reach[x].tags)
        /\ \A q \in Processes :
             /\ job'[q].key = job[q].key /\ job'[q].tags = job[q].tags /\ job'[q].todo = job[q].todo
             /\ job'[q].sets = job[q].sets /\ job'[q].found = job[q].found
             /\ job'[q].covers = job[q].covers \ T
             /\ job'[q].stale \subseteq job[q].stale \union (T \intersect job[q].tags)
        /\ owed' = owed \union T /\ UNCHANGED <<value, members, pc>>
    BY <1>14, UpdateEffect
  <2>2. u \in job[r].covers \ job[r].todo /\ u \notin T
    BY <2>1
  <2>3. /\ \A q \in Processes : u \notin job[q].stale
        /\ \A k \in Keys : u \in reach[k].stale => k \in job[r].found \/ OutOfReach(k, u)
    BY <2>2 DEF Covered
  <2>4. \A k \in Keys : OutOfReach(k, u)' <=> OutOfReach(k, u)
    BY <2>1 DEF OutOfReach, Filling
  <2>5. QED
    BY <2>1, <2>2, <2>3, <2>4
<1>15. ASSUME NEW k \in Keys, Expire(k)
      PROVE  Covered'
  BY <1>15 DEF Expire, DeleteKey, Becomes, Reach, Covered, OutOfReach, Filling
<1>16. ASSUME NEW k \in Keys, Corrupt(k)
      PROVE  Covered'
  BY <1>16 DEF Corrupt, Becomes, Reach, Covered, OutOfReach, Filling
<1>17. CASE UNCHANGED vars
  BY <1>17 DEF vars, TypeOK, Covered, OutOfReach, Filling
<1>18. QED
  BY <1>1, <1>2, <1>3, <1>4, <1>5, <1>6, <1>7, <1>8, <1>9, <1>10, <1>11, <1>12, <1>13, <1>14,
     <1>15, <1>16, <1>17
     DEF Next, Fill, Invalidate

-----------------------------------------------------------------------------
(* The invariant is inductive.                                              *)
LEMMA InitHolds == Init => IInv
  BY DEF Init, IInv, TypeOK, Jobs, Steps, Call, Reach, Carries, Held, Listed, StaleOwed,
         Covered, Missing, Dropping

(* Every call of the backend keeps the invariant.                          *)
LEMMA StepHolds == IInv /\ [Next]_vars => IInv'
  BY TypeStep, CarriesStep, HeldStep, ListedStep, StaleOwedStep, CoveredStep DEF IInv

(* However the calls of the processes interleave, throw and die: the fills  *)
(* and invalidations of RedisCacheAdapter keep the invariant.                *)
THEOREM RemoteCacheInvariant == Spec => []IInv
  BY InitHolds, StepHolds, PTL DEF Spec

(* A value set() has stored stays in the set of each of its tags, or is on   *)
(* its way in or out, unless register_tags() or delete_keys() threw between  *)
(* two calls or ran between two of another process's.                        *)
THEOREM ValuesReachable == Spec => []TagsReachValues
<1>1. IInv => TagsReachValues
  BY DEF IInv, Held, TagsReachValues
<1>2. QED
  BY <1>1, RemoteCacheInvariant, PTL

(* After an invalidate_tags() that began after the last update has returned, *)
(* a stale value is being deleted or is out of its tag's reach.              *)
THEOREM InvalidationsReach == Spec => []InvalidationReaches
<1>1. IInv => InvalidationReaches
  <2> SUFFICES ASSUME IInv, NEW k \in Keys, NEW t \in reach[k].stale, t \notin owed
               PROVE  Doomed(k)
    BY DEF InvalidationReaches
  <2>1. t \in reach[k].tags /\ OutOfReach(k, t)
    BY DEF IInv, StaleOwed
  <2>2. QED
    BY <2>1 DEF IInv, Held, Missing, OutOfReach
<1>2. QED
  BY <1>1, RemoteCacheInvariant, PTL

=============================================================================
