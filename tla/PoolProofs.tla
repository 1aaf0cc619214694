----------------------------- MODULE PoolProofs -----------------------------
(***************************************************************************)
(* Proofs about module Pool, for every set of threads and resources and    *)
(* every max and min.                                                      *)
(***************************************************************************)
EXTENDS Pool, FiniteSetTheorems, SequenceTheorems, TLAPS

Labels == CarriesAt \union EmptyAt

(* The three counters never miss a thread because of what happens after    *)
(* the mutex is unlocked: notifying keeps a thread on its side of the      *)
(* LeasedAt and CarriesAt borders, destroying makes it empty-handed.       *)
LEMMA AfterUnlock ==
  /\ \A l \in NotifyAllAt \union NotifyOneAt :
       /\ AfterNotify(l) \in Labels
       /\ l \in LeasedAt <=> AfterNotify(l) \in LeasedAt
       /\ AfterNotify(l) \in CarriesAt => l \in CarriesAt
       /\ l # "creating" /\ AfterNotify(l) # "creating"
  /\ \A l \in DestroyAt :
       /\ AfterDestroy(l) \in EmptyAt /\ AfterDestroyThrows(l) \in EmptyAt
       /\ l \notin LeasedAt
       /\ l # "creating"
       /\ AfterDestroy(l) # "creating" /\ AfterDestroyThrows(l) # "creating"
  BY DEF NotifyAllAt, NotifyOneAt, DestroyAt, AfterNotify, AfterDestroy, AfterDestroyThrows,
         Labels, LeasedAt, HoldingAt, CarriesAt, EmptyAt

(* What the labels say of the counters: a thread that has nothing in hand  *)
(* is not counted in `leased' and carries no resource.                     *)
LEMMA Borders ==
  \A l \in EmptyAt : l \notin LeasedAt /\ l \notin CarriesAt
  BY DEF LeasedAt, HoldingAt, CarriesAt, EmptyAt

(* One thread moves from label f[t] to label l: the number of threads at   *)
(* a set A of labels changes by what t contributes.                        *)
NumberAt(f, A) == Cardinality({u \in Threads : f[u] \in A})

LEMMA CountMove ==
  ASSUME NEW f \in [Threads -> Labels], NEW t \in Threads, NEW l \in Labels, NEW A,
         NEW g \in [Threads -> Labels], g[t] = l, \A u \in Threads \ {t} : g[u] = f[u]
  PROVE  /\ NumberAt(f, A) \in Nat /\ NumberAt(g, A) \in Nat
         /\ f[t] \in A => NumberAt(f, A) > 0
         /\ (f[t] \in A <=> l \in A) => NumberAt(g, A) = NumberAt(f, A)
         /\ f[t] \in A /\ l \notin A => NumberAt(g, A) = NumberAt(f, A) - 1
         /\ f[t] \notin A /\ l \in A => NumberAt(g, A) = NumberAt(f, A) + 1
<1> DEFINE F == {u \in Threads : f[u] \in A}
           G == {u \in Threads : g[u] \in A}
<1>1. IsFiniteSet(F) /\ IsFiniteSet(G)
  BY PoolAssumption, FS_Subset
<1>2. Cardinality(F) \in Nat /\ Cardinality(G) \in Nat
  BY <1>1, FS_CardinalityType
<1>3. t \in F <=> f[t] \in A
  OBVIOUS
<1>4. t \in G <=> l \in A
  OBVIOUS
<1>5. G = IF l \in A THEN F \union {t} ELSE F \ {t}
  OBVIOUS
<1>6. Cardinality(F \union {t}) = IF t \in F THEN Cardinality(F) ELSE Cardinality(F) + 1
  BY <1>1, FS_AddElement
<1>7. Cardinality(F \ {t}) = IF t \in F THEN Cardinality(F) - 1 ELSE Cardinality(F)
  BY <1>1, FS_RemoveElement
<1>8. t \in F => Cardinality(F) > 0
  BY <1>1, <1>2, FS_EmptySet
<1> HIDE DEF F, G, NumberAt
<1>9. QED
  BY <1>2, <1>3, <1>4, <1>5, <1>6, <1>7, <1>8 DEF F, G, NumberAt

-----------------------------------------------------------------------------
(* The inductive invariant.  The counters alone are not inductive: giving  *)
(* a resource back needs to know that the thread owns one, and the pool    *)
(* must not be closed while the constructor is still filling it.           *)
Carrying  == \A t \in Threads : pc[t] \in CarriesAt => res[t] \in Resources
WarmFirst == warm # "done" => ~destroyed

IInv == /\ TypeOK /\ Carrying /\ WarmFirst
        /\ CountersExact /\ CapacityRespected /\ DeadPoolStaysEmpty

(* A thread moves to label l and adjusts the counters for what it leaves   *)
(* and what it enters.                                                     *)
LEMMA CountersFollow ==
  ASSUME TypeOK, CountersExact, NEW t \in Threads, NEW l \in Labels,
         Goto(t, l), warm' = warm,
         leased' = leased + (IF l \in LeasedAt THEN 1 ELSE 0)
                          - (IF pc[t] \in LeasedAt THEN 1 ELSE 0),
         creating' = creating + (IF l = "creating" THEN 1 ELSE 0)
                              - (IF pc[t] = "creating" THEN 1 ELSE 0)
  PROVE  CountersExact' /\ leased' \in Nat /\ creating' \in Nat
<1>1. /\ pc \in [Threads -> Labels] /\ pc' \in [Threads -> Labels]
      /\ pc'[t] = l /\ \A u \in Threads \ {t} : pc'[u] = pc[u]
  BY DEF TypeOK, Labels, Goto
<1>2. leased \in Nat /\ creating \in Nat
  BY DEF TypeOK
<1>3. leased = CountAt(LeasedAt)
  BY DEF CountersExact
<1>4. creating = CountAt({"creating"}) + (IF warm = "create" THEN 1 ELSE 0)
  BY DEF CountersExact
<1>5. \A A : /\ CountAt(A) = NumberAt(pc, A) /\ CountAt(A)' = NumberAt(pc', A)
  BY DEF CountAt, NumberAt
<1>6. CountAt(LeasedAt)' = leased' /\ leased' \in Nat
  <2>1. /\ NumberAt(pc, LeasedAt) \in Nat /\ NumberAt(pc', LeasedAt) \in Nat
        /\ (pc[t] \in LeasedAt <=> l \in LeasedAt)
              => NumberAt(pc', LeasedAt) = NumberAt(pc, LeasedAt)
        /\ pc[t] \in LeasedAt /\ l \notin LeasedAt
              => NumberAt(pc', LeasedAt) = NumberAt(pc, LeasedAt) - 1
        /\ pc[t] \notin LeasedAt /\ l \in LeasedAt
              => NumberAt(pc', LeasedAt) = NumberAt(pc, LeasedAt) + 1
    BY <1>1, CountMove
  <2>2. QED
    BY <1>2, <1>3, <1>5, <2>1
<1>7. /\ CountAt({"creating"})' = CountAt({"creating"})
            + (IF l = "creating" THEN 1 ELSE 0) - (IF pc[t] = "creating" THEN 1 ELSE 0)
      /\ CountAt({"creating"}) \in Nat /\ CountAt({"creating"})' \in Nat
  <2> DEFINE C == {"creating"}
  <2>1. /\ NumberAt(pc, C) \in Nat /\ NumberAt(pc', C) \in Nat
        /\ (pc[t] \in C <=> l \in C) => NumberAt(pc', C) = NumberAt(pc, C)
        /\ pc[t] \in C /\ l \notin C => NumberAt(pc', C) = NumberAt(pc, C) - 1
        /\ pc[t] \notin C /\ l \in C => NumberAt(pc', C) = NumberAt(pc, C) + 1
    BY <1>1, CountMove
  <2>2. \A m : m \in C <=> m = "creating"
    OBVIOUS
  <2>3. CountAt(C) = NumberAt(pc, C) /\ CountAt(C)' = NumberAt(pc', C)
    BY <1>5
  <2> HIDE DEF C
  <2>4. /\ CountAt(C)' = CountAt(C)
            + (IF l = "creating" THEN 1 ELSE 0) - (IF pc[t] = "creating" THEN 1 ELSE 0)
        /\ CountAt(C) \in Nat /\ CountAt(C)' \in Nat
    BY <2>1, <2>2, <2>3
  <2>5. QED
    BY <2>4 DEF C
<1>8. QED
  BY <1>2, <1>4, <1>6, <1>7 DEF CountersExact

(* Taking entries out of the deque `idle', at the back as acquire() does   *)
(* or at the front as the reaper does, leaves a shorter deque of resources.*)
LEMMA Shorten ==
  ASSUME NEW s \in Seq(Resources)
  PROVE  /\ s # <<>> => /\ s[Len(s)] \in Resources
                        /\ SubSeq(s, 1, Len(s) - 1) \in Seq(Resources)
                        /\ Len(SubSeq(s, 1, Len(s) - 1)) = Len(s) - 1
         /\ \A n \in 1..Len(s) : /\ SubSeq(s, n + 1, Len(s)) \in Seq(Resources)
                                 /\ Len(SubSeq(s, n + 1, Len(s))) = Len(s) - n
<1>1. /\ Len(s) \in Nat /\ \A i \in 1..Len(s) : s[i] \in Resources
      /\ s # <<>> => Len(s) > 0
  OBVIOUS
<1>2. ASSUME NEW m \in 1..(Len(s) + 1), NEW k \in 0..Len(s)
      PROVE  /\ SubSeq(s, m, k) \in Seq(Resources)
             /\ Len(SubSeq(s, m, k)) = IF m <= k THEN k - m + 1 ELSE 0
  <2>1. m \in Int /\ k \in Int /\ \A i \in m..k : s[i] \in Resources
    BY <1>1
  <2>2. QED
    BY <2>1, SubSeqProperties
<1>3. ASSUME s # <<>>
      PROVE  /\ s[Len(s)] \in Resources
             /\ SubSeq(s, 1, Len(s) - 1) \in Seq(Resources)
             /\ Len(SubSeq(s, 1, Len(s) - 1)) = Len(s) - 1
  <2> DEFINE k == Len(s) - 1
  <2>1. 1 \in 1..(Len(s) + 1) /\ k \in 0..Len(s) /\ Len(s) \in 1..Len(s)
    BY <1>1, <1>3
  <2>2. k \in Nat
    BY <1>1, <1>3
  <2> HIDE DEF k
  <2>3. SubSeq(s, 1, k) \in Seq(Resources) /\ Len(SubSeq(s, 1, k)) = k
    BY <1>2, <2>1, <2>2
  <2>4. QED
    BY <1>1, <2>1, <2>3 DEF k
<1>4. ASSUME NEW n \in 1..Len(s)
      PROVE  /\ SubSeq(s, n + 1, Len(s)) \in Seq(Resources)
             /\ Len(SubSeq(s, n + 1, Len(s))) = Len(s) - n
  <2>1. n + 1 \in 1..(Len(s) + 1) /\ Len(s) \in 0..Len(s)
    BY <1>1
  <2>2. QED
    BY <1>1, <1>2, <2>1
<1>5. QED
  BY <1>3, <1>4

(* A step of one thread that leaves the shared counters alone.             *)
LEMMA QuietMove ==
  ASSUME IInv, NEW t \in Threads, NEW l \in Labels,
         Goto(t, l), UNCHANGED <<counters, background>>,
         l \in LeasedAt <=> pc[t] \in LeasedAt,
         l # "creating", pc[t] # "creating",
         l \in CarriesAt => pc[t] \in CarriesAt /\ res'[t] = res[t],
         waiting' \subseteq Threads, live' \subseteq Resources,
         res' \in [Threads -> Resources \union {None}],
         \A u \in Threads \ {t} : res'[u] = res[u]
  PROVE  IInv'
<1>1. TypeOK /\ Carrying /\ WarmFirst /\ CountersExact /\ CapacityRespected /\ DeadPoolStaysEmpty
  BY DEF IInv
<1>2. /\ warm' = warm /\ leased' = leased /\ creating' = creating /\ idle' = idle
      /\ destroyed' = destroyed
  BY DEF counters, background
<1>3. leased \in Nat /\ creating \in Nat
  BY <1>1 DEF TypeOK
<1>4. CountersExact'
  BY <1>1, <1>2, <1>3, CountersFollow
<1>5. TypeOK'
  BY <1>1 DEF TypeOK, Goto, counters, background, Labels
<1>6. Carrying'
  BY <1>1 DEF Carrying, TypeOK, Goto
<1>7. WarmFirst' /\ CapacityRespected' /\ DeadPoolStaysEmpty'
  BY <1>1, <1>2 DEF WarmFirst, CapacityRespected, TotalLive, DeadPoolStaysEmpty
<1>8. QED
  BY <1>4, <1>5, <1>6, <1>7 DEF IInv

-----------------------------------------------------------------------------
(* A pool that has just been constructed is empty, and nobody is inside.   *)
LEMMA InitHolds == Init => IInv
<1> SUFFICES ASSUME Init PROVE IInv
  OBVIOUS
<1>2. pc \in [Threads -> {"out"}] /\ \A t \in Threads : pc[t] = "out"
  BY DEF Init
<1>3. {t \in Threads : pc[t] \in LeasedAt} = {} /\ {t \in Threads : pc[t] \in {"creating"}} = {}
  BY <1>2 DEF LeasedAt, HoldingAt
<1>4. CountersExact
  <2>1. CountAt(LeasedAt) = 0 /\ CountAt({"creating"}) = 0
    BY <1>3, FS_EmptySet, Zenon DEF CountAt
  <2>2. QED
    BY <2>1 DEF CountersExact, Init
<1>5. TypeOK
  <2>1. pc \in [Threads -> CarriesAt \union EmptyAt]
    BY <1>2 DEF EmptyAt
  <2>2. res \in [Threads -> Resources \union {None}]
    BY DEF Init
  <2>3. reaper \in {"sleeping", "destroying", "exited"}
    BY PoolAssumption DEF Init
  <2>4. idle \in Seq(Resources)
    BY DEF Init
  <2>5. QED
    BY <2>1, <2>2, <2>3, <2>4 DEF Init, TypeOK
<1>6. Carrying
  BY <1>2 DEF Carrying, CarriesAt, LeasedAt, HoldingAt
<1>7. WarmFirst /\ DeadPoolStaysEmpty
  BY DEF Init, WarmFirst, DeadPoolStaysEmpty
<1>8. CapacityRespected
  BY PoolAssumption DEF Init, CapacityRespected, TotalLive
<1>9. QED
  BY <1>4, <1>5, <1>6, <1>7, <1>8 DEF IInv

(* The steps of a thread that change no counter.                           *)
LEMMA QuietSteps ==
  ASSUME IInv, NEW t \in Threads,
         \/ AcquireRejected(t) \/ AcquireWait(t) \/ WakeUp(t) \/ SpuriousWakeUp(t)
         \/ DeadlinePasses(t) \/ TimedOut(t) \/ NotifyAll(t) \/ NotifyOne(t)
         \/ DestroyOne(t)
  PROVE  IInv'
<1> USE DEF Labels, LeasedAt, HoldingAt, CarriesAt, EmptyAt
<1>1. TypeOK /\ pc \in [Threads -> Labels] /\ res \in [Threads -> Resources \union {None}]
      /\ waiting \subseteq Threads /\ live \subseteq Resources
  BY DEF IInv, TypeOK
<1>2. CASE AcquireRejected(t)
  <2>1. /\ Goto(t, "out") /\ pc[t] \in {"out", "acquire"}
        /\ UNCHANGED <<counters, background, waiting, live, res>>
    BY <1>2 DEF AcquireRejected, AtLoopHead
  <2>2. QED
    BY <1>1, <2>1, QuietMove
<1>3. CASE AcquireWait(t)
  <2>1. /\ Goto(t, "waiting") /\ pc[t] \in {"out", "acquire"}
        /\ UNCHANGED <<counters, background, live, res>> /\ waiting' \subseteq Threads
    BY <1>1, <1>3 DEF AcquireWait, AtLoopHead
  <2>2. QED
    BY <1>1, <2>1, QuietMove
<1>4. CASE WakeUp(t)
  <2>1. /\ Goto(t, "acquire") \/ Goto(t, "waiting")
        /\ pc[t] = "waiting"
        /\ UNCHANGED <<counters, background, live, res>> /\ waiting' \subseteq Threads
    BY <1>1, <1>4 DEF WakeUp, Goto
  <2>2. QED
    BY <1>1, <2>1, QuietMove
<1>5. CASE SpuriousWakeUp(t)
  <2>1. /\ UNCHANGED <<counters, background, pc, res, live>> /\ waiting' \subseteq Threads
    BY <1>1, <1>5 DEF SpuriousWakeUp
  <2>2. QED
    BY <1>1, <2>1
       DEF IInv, TypeOK, Carrying, WarmFirst, CountersExact, CountAt, CapacityRespected,
           TotalLive, DeadPoolStaysEmpty, counters, background
<1>6. CASE DeadlinePasses(t)
  <2>1. /\ Goto(t, "timedOut") /\ pc[t] = "waiting"
        /\ UNCHANGED <<counters, background, live, res>> /\ waiting' \subseteq Threads
    BY <1>1, <1>6 DEF DeadlinePasses
  <2>2. QED
    BY <1>1, <2>1, QuietMove
<1>7. CASE TimedOut(t)
  <2>1. /\ Goto(t, "acquire") \/ Goto(t, "out")
        /\ pc[t] = "timedOut"
        /\ UNCHANGED <<counters, background, waiting, live, res>>
    BY <1>7 DEF TimedOut
  <2>2. QED
    BY <1>1, <2>1, QuietMove
<1>8. CASE NotifyAll(t) \/ NotifyOne(t)
  <2>1. /\ Goto(t, AfterNotify(pc[t])) /\ pc[t] \in NotifyAllAt \union NotifyOneAt
        /\ UNCHANGED <<counters, background, live, res>> /\ waiting' \subseteq Threads
    BY <1>1, <1>8 DEF NotifyAll, NotifyOne
  <2>2. QED
    BY <1>1, <2>1, QuietMove, AfterUnlock
<1>9. CASE DestroyOne(t)
  <2>1. PICK l \in EmptyAt : Goto(t, l) /\ l # "creating"
    BY <1>9, AfterUnlock DEF DestroyOne
  <2>2. /\ pc[t] \in DestroyAt
        /\ UNCHANGED <<counters, background, waiting>> /\ live' \subseteq Resources
        /\ res' \in [Threads -> Resources \union {None}]
        /\ \A u \in Threads \ {t} : res'[u] = res[u]
    BY <1>1, <1>9 DEF DestroyOne, Own
  <2>3. l \notin LeasedAt /\ l \notin CarriesAt /\ l \in Labels
        /\ pc[t] \notin LeasedAt /\ pc[t] # "creating"
    BY <2>1, <2>2, AfterUnlock, Borders
  <2>4. QED
    BY <1>1, <2>1, <2>2, <2>3, QuietMove
<1>10. QED
  BY <1>2, <1>3, <1>4, <1>5, <1>6, <1>7, <1>8, <1>9

(* A step of one thread that adjusts the counters.                         *)
LEMMA CountingMove ==
  ASSUME IInv, NEW t \in Threads, NEW l \in Labels,
         Goto(t, l), UNCHANGED <<background, destroyed, waiting>>,
         leased' = leased + (IF l \in LeasedAt THEN 1 ELSE 0)
                          - (IF pc[t] \in LeasedAt THEN 1 ELSE 0),
         creating' = creating + (IF l = "creating" THEN 1 ELSE 0)
                              - (IF pc[t] = "creating" THEN 1 ELSE 0),
         idle' \in Seq(Resources), destroyed => idle' = <<>>,
         Len(idle') + leased' + creating' <= Max,
         live' \subseteq Resources,
         res' \in [Threads -> Resources \union {None}],
         l \in CarriesAt => res'[t] \in Resources,
         \A u \in Threads \ {t} : res'[u] = res[u]
  PROVE  IInv'
<1>1. TypeOK /\ Carrying /\ WarmFirst /\ CountersExact /\ CapacityRespected /\ DeadPoolStaysEmpty
  BY DEF IInv
<1>2. warm' = warm /\ destroyed' = destroyed
  BY DEF background
<1>3. CountersExact' /\ leased' \in Nat /\ creating' \in Nat
  BY <1>1, <1>2, CountersFollow
<1>4. TypeOK'
  BY <1>1, <1>3 DEF TypeOK, Goto, background, Labels
<1>5. Carrying'
  BY <1>1 DEF Carrying, TypeOK, Goto
<1>6. WarmFirst' /\ CapacityRespected' /\ DeadPoolStaysEmpty'
  BY <1>1, <1>2 DEF WarmFirst, CapacityRespected, TotalLive, DeadPoolStaysEmpty
<1>7. QED
  BY <1>3, <1>4, <1>5, <1>6 DEF IInv

(* The critical sections of acquire(), release() and destroy() that adjust *)
(* `leased' or `creating'.                                                 *)
LEMMA CountingSteps ==
  ASSUME IInv, NEW t \in Threads,
         \/ AcquireIdle(t) \/ AcquireCreate(t) \/ ValidateOk(t) \/ ValidateFails(t)
         \/ CreateOk(t) \/ CreateFails(t) \/ Release(t) \/ DropLease(t)
  PROVE  IInv'
<1> USE DEF Labels, LeasedAt, HoldingAt, CarriesAt, EmptyAt
<1>1. /\ pc \in [Threads -> Labels] /\ res \in [Threads -> Resources \union {None}]
      /\ idle \in Seq(Resources) /\ Len(idle) \in Nat
      /\ leased \in Nat /\ creating \in Nat
      /\ waiting \subseteq Threads /\ live \subseteq Resources
      /\ destroyed => idle = <<>>
      /\ Len(idle) + leased + creating <= Max /\ Max \in Nat
      /\ \A u \in Threads : pc[u] \in CarriesAt => res[u] \in Resources
  BY PoolAssumption DEF IInv, TypeOK, DeadPoolStaysEmpty, CapacityRespected, TotalLive, Carrying
<1>2. CASE AcquireIdle(t)
  <2>1. /\ Goto(t, "validating") /\ pc[t] \in {"out", "acquire"} /\ ~destroyed
        /\ leased' = leased + 1 /\ creating' = creating
        /\ res' = [res EXCEPT ![t] = idle[Len(idle)]]
        /\ UNCHANGED <<background, destroyed, waiting, live>>
    BY <1>2 DEF AcquireIdle, AtLoopHead, Own
  <2>2. idle # <<>> /\ idle' = SubSeq(idle, 1, Len(idle) - 1)
    BY <1>2 DEF AcquireIdle
  <2>3. /\ idle[Len(idle)] \in Resources
        /\ idle' \in Seq(Resources) /\ Len(idle') = Len(idle) - 1
    BY <1>1, <2>2, Shorten
  <2>4. Len(idle') + leased' + creating' <= Max
    BY <1>1, <2>1, <2>3
  <2>5. res' \in [Threads -> Resources \union {None}] /\ res'[t] \in Resources
        /\ \A u \in Threads \ {t} : res'[u] = res[u]
    BY <1>1, <2>1, <2>3
  <2>6. QED
    BY <1>1, <2>1, <2>3, <2>4, <2>5, CountingMove
<1>3. CASE AcquireCreate(t)
  <2>1. /\ Goto(t, "creating") /\ pc[t] \in {"out", "acquire"}
        /\ Len(idle) + leased + creating < Max
        /\ creating' = creating + 1
        /\ UNCHANGED <<background, idle, leased, destroyed, waiting, res, live>>
    BY <1>3 DEF AcquireCreate, AtLoopHead, TotalLive
  <2>2. Len(idle') + leased' + creating' <= Max
    BY <1>1, <2>1
  <2>3. QED
    BY <1>1, <2>1, <2>2, CountingMove
<1>4. CASE ValidateOk(t)
  <2>1. CASE destroyed
    <3>1. /\ Goto(t, "lateNotify") /\ pc[t] = "validating" /\ leased' = leased - 1
          /\ UNCHANGED <<background, idle, creating, destroyed, waiting, res, live>>
      BY <1>4, <2>1 DEF ValidateOk
    <3>2. Len(idle') + leased' + creating' <= Max
      BY <1>1, <3>1
    <3>3. QED
      BY <1>1, <3>1, <3>2, CountingMove
  <2>2. CASE ~destroyed
    <3>1. /\ Goto(t, "holding") /\ pc[t] = "validating"
          /\ UNCHANGED <<background, idle, leased, creating, destroyed, waiting, res, live>>
      BY <1>4, <2>2 DEF ValidateOk
    <3>2. QED
      BY <1>1, <3>1, CountingMove
  <2>3. QED
    BY <2>1, <2>2
<1>5. CASE ValidateFails(t)
  <2>1. /\ Goto(t, "invalidNotify") \/ Goto(t, "threwDestroy")
        /\ pc[t] = "validating" /\ leased' = leased - 1
        /\ UNCHANGED <<background, idle, creating, destroyed, waiting, res, live>>
    BY <1>5 DEF ValidateFails
  <2>2. Len(idle') + leased' + creating' <= Max
    BY <1>1, <2>1
  <2>3. QED
    BY <1>1, <2>1, <2>2, CountingMove
<1>6. CASE CreateOk(t)
  <2>1. PICK r \in Resources : Own(t, r) /\ live' = live \union {r}
    BY <1>6 DEF CreateOk
  <2>2. res' \in [Threads -> Resources \union {None}] /\ res'[t] \in Resources
        /\ \A u \in Threads \ {t} : res'[u] = res[u]
    BY <1>1, <2>1 DEF Own
  <2>3. CASE destroyed
    <3>1. /\ Goto(t, "lateNotify") /\ pc[t] = "creating" /\ creating' = creating - 1
          /\ UNCHANGED <<background, idle, leased, destroyed, waiting>>
      BY <1>6, <2>3 DEF CreateOk
    <3>2. Len(idle') + leased' + creating' <= Max
      BY <1>1, <3>1
    <3>3. QED
      BY <1>1, <2>1, <2>2, <3>1, <3>2, CountingMove
  <2>4. CASE ~destroyed
    <3>1. /\ Goto(t, "createdNotify") /\ pc[t] = "creating" /\ creating' = creating - 1
          /\ leased' = leased + 1
          /\ UNCHANGED <<background, idle, destroyed, waiting>>
      BY <1>6, <2>4 DEF CreateOk
    <3>2. Len(idle') + leased' + creating' <= Max
      BY <1>1, <3>1
    <3>3. QED
      BY <1>1, <2>1, <2>2, <3>1, <3>2, CountingMove
  <2>5. QED
    BY <2>3, <2>4
<1>7. CASE CreateFails(t)
  <2>1. /\ Goto(t, "createFailed") /\ pc[t] = "creating" /\ creating' = creating - 1
        /\ UNCHANGED <<background, idle, leased, destroyed, waiting, res, live>>
    BY <1>7 DEF CreateFails
  <2>2. Len(idle') + leased' + creating' <= Max
    BY <1>1, <2>1
  <2>3. QED
    BY <1>1, <2>1, <2>2, CountingMove
<1>8. CASE Release(t)
  <2>1. pc[t] = "holding" /\ leased' = leased - 1
        /\ UNCHANGED <<background, creating, destroyed, waiting, live>>
    BY <1>8 DEF Release
  <2>2. CASE destroyed
    <3>1. Goto(t, "releaseDestroy") /\ UNCHANGED <<idle, res>>
      BY <1>8, <2>2 DEF Release
    <3>2. Len(idle') + leased' + creating' <= Max
      BY <1>1, <2>1, <3>1
    <3>3. QED
      BY <1>1, <2>1, <3>1, <3>2, CountingMove
  <2>3. CASE ~destroyed
    <3>1. /\ Goto(t, "releaseNotify") /\ idle' = Append(idle, res[t])
          /\ res' = [res EXCEPT ![t] = None]
      BY <1>8, <2>3 DEF Release, Own
    <3>2. res[t] \in Resources
      BY <1>1, <2>1
    <3>3. idle' \in Seq(Resources) /\ Len(idle') = Len(idle) + 1
      BY <1>1, <3>1, <3>2, AppendProperties
    <3>4. Len(idle') + leased' + creating' <= Max
      BY <1>1, <2>1, <3>3
    <3>5. res' \in [Threads -> Resources \union {None}]
          /\ \A u \in Threads \ {t} : res'[u] = res[u]
      BY <1>1, <3>1
    <3>6. QED
      BY <1>1, <2>1, <2>3, <3>1, <3>3, <3>4, <3>5, CountingMove
  <2>4. QED
    BY <2>2, <2>3
<1>9. CASE DropLease(t)
  <2>1. /\ Goto(t, "dropDestroy") /\ pc[t] = "holding" /\ leased' = leased - 1
        /\ UNCHANGED <<background, idle, creating, destroyed, waiting, res, live>>
    BY <1>9 DEF DropLease
  <2>2. Len(idle') + leased' + creating' <= Max
    BY <1>1, <2>1
  <2>3. QED
    BY <1>1, <2>1, <2>2, CountingMove
<1>10. QED
  BY <1>2, <1>3, <1>4, <1>5, <1>6, <1>7, <1>8, <1>9

(* A step of the constructor, the reaper or destroy(): no thread moves.    *)
LEMMA BackgroundMove ==
  ASSUME IInv, UNCHANGED <<pc, res, leased>>,
         warm' \in {"check", "create", "done"},
         reaper' \in {"sleeping", "destroying", "exited"},
         closer' \in {"open", "notify", "join", "destroy"},
         creating' \in Nat, destroyed' \in BOOLEAN,
         creating' - (IF warm' = "create" THEN 1 ELSE 0)
           = creating - (IF warm = "create" THEN 1 ELSE 0),
         idle' \in Seq(Resources), destroyed' => idle' = <<>>,
         warm' # "done" => ~destroyed',
         Len(idle') + leased' + creating' <= Max,
         waiting' \subseteq Threads, live' \subseteq Resources,
         expired' \subseteq Resources, doomed' \subseteq Resources
  PROVE  IInv'
<1>1. TypeOK /\ Carrying /\ WarmFirst /\ CountersExact
  BY DEF IInv
<1>2. TypeOK'
  BY <1>1 DEF TypeOK
<1>3. Carrying' /\ WarmFirst' /\ CapacityRespected' /\ DeadPoolStaysEmpty'
  BY <1>1 DEF Carrying, WarmFirst, CapacityRespected, TotalLive, DeadPoolStaysEmpty
<1>4. \A A : CountAt(A)' = CountAt(A)
  BY DEF CountAt
<1>5. CountAt({"creating"}) \in Nat
  <2>1. CountAt({"creating"}) = creating - (IF warm = "create" THEN 1 ELSE 0)
        /\ CountAt({"creating"}) \in Nat
    <3>1. IsFiniteSet({t \in Threads : pc[t] \in {"creating"}})
      BY PoolAssumption, FS_Subset
    <3>2. CountAt({"creating"}) \in Nat
      BY <3>1, FS_CardinalityType DEF CountAt
    <3>3. QED
      BY <1>1, <3>2 DEF CountersExact
  <2>2. QED
    BY <2>1
<1>6. CountersExact'
  <2>1. leased' = CountAt(LeasedAt)'
    BY <1>1, <1>4 DEF CountersExact
  <2>2. CountAt({"creating"})' = CountAt({"creating"})
    BY <1>4
  <2>3. creating = CountAt({"creating"}) + (IF warm = "create" THEN 1 ELSE 0)
        /\ creating \in Nat
    BY <1>1 DEF CountersExact, TypeOK
  <2>4. creating' = CountAt({"creating"})' + (IF warm' = "create" THEN 1 ELSE 0)
    BY <2>2, <2>3, <1>5
  <2>5. QED
    BY <2>1, <2>4 DEF CountersExact
<1>7. QED
  BY <1>2, <1>3, <1>6 DEF IInv

(* The steps of warm_minimum(), the reaper thread and Pool::destroy().     *)
LEMMA BackgroundSteps ==
  ASSUME IInv, Warm \/ ClosePool \/ Closing \/ Reap \/ Reaping
  PROVE  IInv'
<1>1. /\ idle \in Seq(Resources) /\ Len(idle) \in Nat
      /\ leased \in Nat /\ creating \in Nat /\ destroyed \in BOOLEAN
      /\ waiting \subseteq Threads /\ live \subseteq Resources
      /\ expired \subseteq Resources /\ doomed \subseteq Resources
      /\ warm \in {"check", "create", "done"}
      /\ reaper \in {"sleeping", "destroying", "exited"}
      /\ closer \in {"open", "notify", "join", "destroy"}
      /\ destroyed => idle = <<>>
      /\ warm # "done" => ~destroyed
      /\ Len(idle) + leased + creating <= Max /\ Max \in Nat
  BY PoolAssumption
     DEF IInv, TypeOK, DeadPoolStaysEmpty, CapacityRespected, TotalLive, WarmFirst
<1>2. warm = "create" => creating > 0
  <2>1. IsFiniteSet({t \in Threads : pc[t] \in {"creating"}})
    BY PoolAssumption, FS_Subset
  <2>2. CountAt({"creating"}) \in Nat
    BY <2>1, FS_CardinalityType DEF CountAt
  <2>3. QED
    BY <2>2 DEF IInv, CountersExact
<1>3. CASE WarmReserve
  <2>1. UNCHANGED <<pc, res, leased, idle, destroyed, waiting, reaper, expired, closer, doomed, live>>
    BY <1>3 DEF WarmReserve
  <2>2. CASE Len(idle) >= MinIdle \/ TotalLive >= Max
    <3>1. warm' = "done" /\ warm = "check" /\ creating' = creating
      BY <1>3, <2>2 DEF WarmReserve
    <3>2. QED
      BY <1>1, <2>1, <3>1, BackgroundMove
  <2>3. CASE ~(Len(idle) >= MinIdle \/ TotalLive >= Max)
    <3>1. warm' = "create" /\ warm = "check" /\ creating' = creating + 1
          /\ Len(idle) + leased + creating < Max
      BY <1>1, <1>3, <2>3 DEF WarmReserve, TotalLive
    <3>2. Len(idle') + leased' + creating' <= Max
      BY <1>1, <2>1, <3>1
    <3>3. QED
      BY <1>1, <2>1, <3>1, <3>2, BackgroundMove
  <2>4. QED
    BY <2>2, <2>3
<1>4. CASE WarmCreate
  <2>1. /\ UNCHANGED <<pc, res, leased, destroyed, waiting, reaper, expired, closer, doomed>>
        /\ warm = "create" /\ creating' = creating - 1
    BY <1>4 DEF WarmCreate
  <2>2. ASSUME NEW r \in Resources, live' = live \union {r}, idle' = Append(idle, r),
               warm' = "check"
        PROVE  IInv'
    <3>1. idle' \in Seq(Resources) /\ Len(idle') = Len(idle) + 1
      BY <1>1, <2>2, AppendProperties
    <3>2. Len(idle') + leased' + creating' <= Max /\ creating' \in Nat
      BY <1>1, <1>2, <2>1, <3>1
    <3>3. ~destroyed'
      BY <1>1, <2>1
    <3>4. live' \subseteq Resources
      BY <1>1, <2>2
    <3>5. creating' - (IF warm' = "create" THEN 1 ELSE 0)
            = creating - (IF warm = "create" THEN 1 ELSE 0)
      BY <1>1, <2>1, <2>2
    <3>6. QED
      BY <1>1, <2>1, <2>2, <3>1, <3>2, <3>3, <3>4, <3>5, BackgroundMove
  <2>3. ASSUME warm' = "done", UNCHANGED <<live, idle>>
        PROVE  IInv'
    <3>1. Len(idle') + leased' + creating' <= Max /\ creating' \in Nat
      BY <1>1, <1>2, <2>1, <2>3
    <3>2. creating' - (IF warm' = "create" THEN 1 ELSE 0)
            = creating - (IF warm = "create" THEN 1 ELSE 0)
      BY <1>1, <2>1, <2>3
    <3>3. QED
      BY <1>1, <2>1, <2>3, <3>1, <3>2, BackgroundMove
  <2>4. QED
    BY <1>4, <2>2, <2>3 DEF WarmCreate
<1>5. CASE ClosePool
  <2>1. /\ UNCHANGED <<pc, res, leased, creating, waiting, warm, reaper, expired, live>>
        /\ warm = "done" /\ destroyed' = TRUE /\ idle' = <<>> /\ closer' = "notify"
        /\ doomed' = {idle[i] : i \in 1..Len(idle)}
    BY <1>5 DEF ClosePool
  <2>2. doomed' \subseteq Resources
    BY <1>1, <2>1
  <2>3. idle' \in Seq(Resources) /\ Len(idle') + leased' + creating' <= Max
    BY <1>1, <2>1
  <2>4. QED
    BY <1>1, <2>1, <2>2, <2>3, BackgroundMove
<1>6. CASE Closing
  <2>1. /\ UNCHANGED <<pc, res, leased, creating, destroyed, idle, warm, reaper, expired>>
        /\ waiting' \subseteq Threads /\ live' \subseteq Resources
        /\ doomed' \subseteq Resources
        /\ closer' \in {"open", "notify", "join", "destroy"}
    BY <1>1, <1>6 DEF Closing, CloseNotify, CloseJoin, CloseDestroyOne, counters
  <2>2. QED
    BY <1>1, <2>1, BackgroundMove
<1>7. CASE Reap
  <2>1. /\ UNCHANGED <<pc, res, leased, creating, destroyed, waiting, warm, closer, doomed, live>>
        /\ reaper' = "destroying" /\ ~destroyed
    BY <1>7 DEF Reap
  <2>2. PICK n \in 1..Removable : /\ expired' = {idle[i] : i \in 1..n}
                                  /\ idle' = SubSeq(idle, n + 1, Len(idle))
    BY <1>7 DEF Reap
  <2>3. n \in 1..Len(idle)
    BY <1>1, PoolAssumption DEF Removable, MinIdle
  <2>4. idle' \in Seq(Resources) /\ Len(idle') = Len(idle) - n
    BY <1>1, <2>2, <2>3, Shorten
  <2>5. Len(idle') + leased' + creating' <= Max
    BY <1>1, <2>1, <2>3, <2>4
  <2>6. expired' \subseteq Resources
    BY <1>1, <2>2, <2>3
  <2>7. QED
    BY <1>1, <2>1, <2>4, <2>5, <2>6, BackgroundMove
<1>8. CASE Reaping
  <2>1. /\ UNCHANGED <<pc, res, leased, creating, destroyed, idle, warm, closer, doomed>>
        /\ waiting' \subseteq Threads /\ live' \subseteq Resources
        /\ expired' \subseteq Resources
        /\ reaper' \in {"sleeping", "destroying", "exited"}
    BY <1>1, <1>8 DEF Reaping, ReapDestroyOne, ReapNotify, ReaperExits, counters
  <2>2. QED
    BY <1>1, <2>1, BackgroundMove
<1>9. QED
  BY <1>3, <1>4, <1>5, <1>6, <1>7, <1>8 DEF Warm

-----------------------------------------------------------------------------
(* The inductive invariant holds in every reachable state.                 *)
THEOREM PoolInvariant == Spec => []IInv
<1>1. ASSUME IInv, [Next]_vars PROVE IInv'
  <2>1. CASE Next
    <3>1. CASE Warm \/ ClosePool \/ Closing \/ Reap \/ Reaping
      BY <1>1, <3>1, BackgroundSteps
    <3>2. ASSUME NEW t \in Threads,
                 \/ Acquire(t) \/ Blocked(t) \/ Validate(t) \/ Create(t) \/ Finish(t)
                 \/ SpuriousWakeUp(t) \/ DeadlinePasses(t) \/ Release(t) \/ DropLease(t)
          PROVE  IInv'
      BY <1>1, <3>2, QuietSteps, CountingSteps DEF Acquire, Blocked, Validate, Create, Finish
    <3>3. QED
      BY <2>1, <3>1, <3>2 DEF Next
  <2>2. CASE UNCHANGED vars
    BY <1>1, <2>2
       DEF IInv, vars, TypeOK, Carrying, WarmFirst, CountersExact, CountAt, CapacityRespected,
           TotalLive, DeadPoolStaysEmpty
  <2>3. QED
    BY <1>1, <2>1, <2>2
<1>2. QED
  BY <1>1, InitHolds, PTL DEF Spec

(* Every variable of the pool stays in its range: the unsigned counters    *)
(* `leased' and `creating' are never decremented below zero, and a thread  *)
(* that is about to give a resource back really has one.                   *)
THEOREM PoolTypeOK == Spec => []TypeOK
<1>1. IInv => TypeOK
  BY DEF IInv
<1>2. QED
  BY <1>1, PoolInvariant, PTL

(* The counters are exact for any number of threads, whatever fails.       *)
THEOREM PoolCountersExact == Spec => []CountersExact
<1>1. IInv => CountersExact
  BY DEF IInv
<1>2. QED
  BY <1>1, PoolInvariant, PTL

(* "max: maximum live resources, counting idle, leased and currently being *)
(* created resources" (docs/POOLING.md), for every max.                    *)
THEOREM PoolCapacityRespected == Spec => []CapacityRespected
<1>1. IInv => CapacityRespected
  BY DEF IInv
<1>2. QED
  BY <1>1, PoolInvariant, PTL

(* Nothing is reinserted into a dead pool.                                 *)
THEOREM PoolDeadPoolStaysEmpty == Spec => []DeadPoolStaysEmpty
<1>1. IInv => DeadPoolStaysEmpty
  BY DEF IInv
<1>2. QED
  BY <1>1, PoolInvariant, PTL
-----------------------------------------------------------------------------
(* Who owns a resource.  A thread's unique_ptr is empty unless its label    *)
(* says otherwise, and the reaper and destroy() start from an empty vector. *)
EmptyHanded ==
  /\ \A t \in Threads : pc[t] \in EmptyAt => res[t] = None
  /\ reaper # "destroying" => expired = {}
  /\ ~destroyed => doomed = {}

(* No resource is twice in idle, in two hands, or in idle and in a hand.    *)
Apart ==
  /\ \A i, j \in 1..Len(idle) : idle[i] = idle[j] => i = j
  /\ \A t, u \in Threads : res[t] = res[u] /\ res[t] # None => t = u
  /\ \A i \in 1..Len(idle) : idle[i] \notin expired \union doomed
                             /\ \A t \in Threads : res[t] # idle[i]
  /\ \A t \in Threads : res[t] \notin expired \union doomed
  /\ expired \intersect doomed = {}

(* What exists is owned, and what is owned exists.                         *)
Owned(r) == \/ \E i \in 1..Len(idle) : idle[i] = r
            \/ \E t \in Threads : res[t] = r
            \/ r \in expired \union doomed
Accounted == \A r \in Resources : r \in live <=> Owned(r)

Linear == EmptyHanded /\ Apart /\ Accounted

(* What happens to the entries of the deque.                               *)
LEMMA PopFront ==
  ASSUME NEW s \in Seq(Resources), NEW n \in 1..Len(s)
  PROVE  /\ Len(SubSeq(s, n + 1, Len(s))) = Len(s) - n /\ Len(s) \in Nat
         /\ \A i \in 1..(Len(s) - n) : SubSeq(s, n + 1, Len(s))[i] = s[n + i]
  OBVIOUS

(* idle_.push_back(): the resource is the last of the deque.               *)
LEMMA PushBack ==
  ASSUME NEW s \in Seq(Resources), NEW r \in Resources
  PROVE  /\ Len(Append(s, r)) = Len(s) + 1 /\ Append(s, r)[Len(s) + 1] = r /\ Len(s) \in Nat
         /\ \A i \in 1..Len(s) : Append(s, r)[i] = s[i]
  OBVIOUS

(* Wherever a thread goes without a resource, its unique_ptr has been      *)
(* moved from or destroyed, and the reaper and destroy() leave their       *)
(* vectors empty.                                                          *)
LEMMA EmptyHandedStep == IInv /\ Linear /\ [Next]_vars => EmptyHanded'
<1> SUFFICES ASSUME IInv /\ Linear, [Next]_vars PROVE EmptyHanded'
  OBVIOUS
<1> USE PoolAssumption DEF IInv, Linear
<1>1. CASE WarmReserve
  BY <1>1 DEF WarmReserve, EmptyHanded, TypeOK, EmptyAt
<1>2. CASE WarmCreate
  BY <1>2 DEF WarmCreate, EmptyHanded, TypeOK, EmptyAt
<1>3. CASE ClosePool
  BY <1>3 DEF ClosePool, EmptyHanded, TypeOK, EmptyAt
<1>4. CASE CloseNotify
  BY <1>4 DEF CloseNotify, counters, EmptyHanded, TypeOK, EmptyAt
<1>5. CASE CloseJoin
  BY <1>5 DEF CloseJoin, counters, EmptyHanded, TypeOK, EmptyAt
<1>6. CASE CloseDestroyOne
  BY <1>6 DEF CloseDestroyOne, counters, EmptyHanded, TypeOK, EmptyAt
<1>7. CASE Reap
  BY <1>7 DEF Reap, EmptyHanded, TypeOK, EmptyAt
<1>8. CASE ReapDestroyOne
  BY <1>8 DEF ReapDestroyOne, counters, EmptyHanded, TypeOK, EmptyAt
<1>9. CASE ReapNotify
  BY <1>9 DEF ReapNotify, counters, EmptyHanded, TypeOK, EmptyAt
<1>10. CASE ReaperExits
  BY <1>10 DEF ReaperExits, counters, EmptyHanded, TypeOK, EmptyAt
<1>11. ASSUME NEW t \in Threads, AcquireRejected(t)
      PROVE  EmptyHanded'
  BY <1>11
     DEF AcquireRejected, AtLoopHead, counters, Goto, background, EmptyHanded, TypeOK, EmptyAt
<1>12. ASSUME NEW t \in Threads, AcquireIdle(t)
      PROVE  EmptyHanded'
  BY <1>12 DEF AcquireIdle, AtLoopHead, Own, Goto, background, EmptyHanded, TypeOK, EmptyAt
<1>13. ASSUME NEW t \in Threads, AcquireCreate(t)
      PROVE  EmptyHanded'
  BY <1>13 DEF AcquireCreate, AtLoopHead, Goto, background, EmptyHanded, TypeOK, EmptyAt
<1>14. ASSUME NEW t \in Threads, AcquireWait(t)
      PROVE  EmptyHanded'
  BY <1>14 DEF AcquireWait, AtLoopHead, Goto, counters, background, EmptyHanded, TypeOK, EmptyAt
<1>15. ASSUME NEW t \in Threads, WakeUp(t)
      PROVE  EmptyHanded'
  BY <1>15 DEF WakeUp, Goto, counters, background, EmptyHanded, TypeOK, EmptyAt
<1>16. ASSUME NEW t \in Threads, SpuriousWakeUp(t)
      PROVE  EmptyHanded'
  BY <1>16 DEF SpuriousWakeUp, counters, background, EmptyHanded, TypeOK, EmptyAt
<1>17. ASSUME NEW t \in Threads, DeadlinePasses(t)
      PROVE  EmptyHanded'
  BY <1>17 DEF DeadlinePasses, Goto, counters, background, EmptyHanded, TypeOK, EmptyAt
<1>18. ASSUME NEW t \in Threads, TimedOut(t)
      PROVE  EmptyHanded'
  BY <1>18 DEF TimedOut, Goto, counters, background, EmptyHanded, TypeOK, EmptyAt
<1>19. ASSUME NEW t \in Threads, ValidateOk(t)
      PROVE  EmptyHanded'
  BY <1>19 DEF ValidateOk, Goto, background, EmptyHanded, TypeOK, EmptyAt
<1>20. ASSUME NEW t \in Threads, ValidateFails(t)
      PROVE  EmptyHanded'
  BY <1>20 DEF ValidateFails, Goto, background, EmptyHanded, TypeOK, EmptyAt
<1>21. ASSUME NEW t \in Threads, CreateOk(t)
      PROVE  EmptyHanded'
  BY <1>21 DEF CreateOk, Goto, Own, background, EmptyHanded, TypeOK, EmptyAt
<1>22. ASSUME NEW t \in Threads, CreateFails(t)
      PROVE  EmptyHanded'
  BY <1>22 DEF CreateFails, Goto, background, EmptyHanded, TypeOK, EmptyAt
<1>23. ASSUME NEW t \in Threads, NotifyAll(t)
      PROVE  EmptyHanded'
  BY <1>23
     DEF NotifyAll, Goto, counters, background, NotifyAllAt, AfterNotify, EmptyHanded, TypeOK,
         EmptyAt
<1>24. ASSUME NEW t \in Threads, NotifyOne(t)
      PROVE  EmptyHanded'
  BY <1>24
     DEF NotifyOne, Goto, counters, background, NotifyOneAt, AfterNotify, EmptyHanded, TypeOK,
         EmptyAt
<1>25. ASSUME NEW t \in Threads, DestroyOne(t)
      PROVE  EmptyHanded'
  BY <1>25
     DEF DestroyOne, Goto, Own, counters, background, DestroyAt, EmptyHanded, TypeOK, EmptyAt
<1>26. ASSUME NEW t \in Threads, Release(t)
      PROVE  EmptyHanded'
  BY <1>26 DEF Release, Goto, Own, background, EmptyHanded, TypeOK, EmptyAt
<1>27. ASSUME NEW t \in Threads, DropLease(t)
      PROVE  EmptyHanded'
  BY <1>27 DEF DropLease, Goto, background, EmptyHanded, TypeOK, EmptyAt
<1>28. CASE UNCHANGED vars
  BY <1>28 DEF vars, EmptyHanded, TypeOK, EmptyAt
<1>29. QED
  BY <1>1, <1>2, <1>3, <1>4, <1>5, <1>6, <1>7, <1>8, <1>9, <1>10, <1>11, <1>12, <1>13, <1>14,
     <1>15, <1>16, <1>17, <1>18, <1>19, <1>20, <1>21, <1>22, <1>23, <1>24, <1>25, <1>26, <1>27,
     <1>28
     DEF Next, Warm, Closing, Reaping, Acquire, Blocked, Validate, Create, Finish

(* acquire() takes out of the deque what it hands out, give_back() and     *)
(* warm_up() put in what was moved out of a hand, and reap_idle() moves    *)
(* the expired ones out together: nothing is ever in two places.           *)
LEMMA ApartStep == IInv /\ Linear /\ [Next]_vars => Apart'
<1> SUFFICES ASSUME IInv /\ Linear, [Next]_vars PROVE Apart'
  OBVIOUS
<1> USE PoolAssumption DEF IInv, Linear
<1>1. CASE WarmReserve
  BY <1>1
     DEF WarmReserve, EmptyHanded, Apart, TypeOK, Carrying, CarriesAt, LeasedAt, HoldingAt,
         EmptyAt
<1>2. CASE WarmCreate
  <2>1. UNCHANGED <<res, expired, doomed>> /\ idle \in Seq(Resources)
    BY <1>2 DEF WarmCreate, TypeOK
  <2>2. CASE UNCHANGED idle
    BY <2>1, <2>2 DEF Apart
  <2>3. ASSUME NEW r \in Resources \ live, idle' = Append(idle, r)
        PROVE  Apart'
    <3>1. /\ \A i \in 1..Len(idle) : idle[i] # r /\ \A t \in Threads : res[t] # r
          /\ r \notin expired \union doomed
      BY <2>1 DEF Accounted, Owned
    <3>2. /\ Len(idle') = Len(idle) + 1 /\ idle'[Len(idle) + 1] = r /\ Len(idle) \in Nat
          /\ \A i \in 1..Len(idle) : idle'[i] = idle[i]
      BY <2>1, <2>3, PushBack
    <3>3. \A t \in Threads : res[t] # r
      BY DEF Accounted, Owned
    <3>4. QED
      BY <2>1, <3>1, <3>2, <3>3 DEF Apart
  <2>4. QED
    BY <1>2, <2>2, <2>3 DEF WarmCreate
<1>3. CASE ClosePool
  BY <1>3
     DEF ClosePool, EmptyHanded, Apart, TypeOK, Carrying, CarriesAt, LeasedAt, HoldingAt,
         EmptyAt
<1>4. CASE CloseNotify
  BY <1>4
     DEF CloseNotify, counters, EmptyHanded, Apart, TypeOK, Carrying, CarriesAt, LeasedAt,
         HoldingAt, EmptyAt
<1>5. CASE CloseJoin
  BY <1>5
     DEF CloseJoin, counters, EmptyHanded, Apart, TypeOK, Carrying, CarriesAt, LeasedAt,
         HoldingAt, EmptyAt
<1>6. CASE CloseDestroyOne
  BY <1>6
     DEF CloseDestroyOne, counters, EmptyHanded, Apart, TypeOK, Carrying, CarriesAt, LeasedAt,
         HoldingAt, EmptyAt
<1>7. CASE Reap
  <2>1. PICK n \in 1..Removable : /\ expired' = {idle[i] : i \in 1..n}
                                  /\ idle' = SubSeq(idle, n + 1, Len(idle))
    BY <1>7 DEF Reap
  <2>2. UNCHANGED <<res, doomed, live>> /\ expired = {} /\ idle \in Seq(Resources)
    BY <1>7 DEF Reap, EmptyHanded, TypeOK
  <2>3. n \in 1..Len(idle)
    BY <2>2 DEF Removable, MinIdle
  <2>4. /\ Len(idle') = Len(idle) - n /\ Len(idle) \in Nat
        /\ \A i \in 1..(Len(idle) - n) : idle'[i] = idle[n + i]
    BY <2>1, <2>2, <2>3, PopFront
  <2>5. \A i, j \in 1..Len(idle') : idle'[i] = idle'[j] => i = j
    BY <2>3, <2>4 DEF Apart
  <2>6. ASSUME NEW i \in 1..Len(idle')
        PROVE  /\ idle'[i] \notin expired' \union doomed'
               /\ \A t \in Threads : res'[t] # idle'[i]
    <3>1. n + i \in 1..Len(idle) /\ n + i \notin 1..n /\ idle'[i] = idle[n + i]
      BY <2>3, <2>4
    <3>2. \A j \in 1..n : j \in 1..Len(idle) /\ idle[j] # idle[n + i]
      BY <2>3, <2>4, <3>1 DEF Apart
    <3>3. /\ idle[n + i] \notin doomed /\ \A t \in Threads : res[t] # idle[n + i]
      BY <3>1 DEF Apart
    <3>4. QED
      BY <2>1, <2>2, <3>1, <3>2, <3>3
  <2>7. ASSUME NEW t \in Threads PROVE res'[t] \notin expired' \union doomed'
    <3>1. \A j \in 1..n : j \in 1..Len(idle)
      BY <2>3, <2>4
    <3>2. res[t] \notin doomed /\ \A j \in 1..Len(idle) : res[t] # idle[j]
      BY DEF Apart
    <3>3. QED
      BY <2>1, <2>2, <3>1, <3>2
  <2>8. expired' \intersect doomed' = {}
    BY <2>1, <2>2, <2>3 DEF Apart
  <2>9. QED
    BY <2>2, <2>5, <2>6, <2>7, <2>8 DEF Apart
<1>8. CASE ReapDestroyOne
  BY <1>8
     DEF ReapDestroyOne, counters, EmptyHanded, Apart, TypeOK, Carrying, CarriesAt, LeasedAt,
         HoldingAt, EmptyAt
<1>9. CASE ReapNotify
  BY <1>9
     DEF ReapNotify, counters, EmptyHanded, Apart, TypeOK, Carrying, CarriesAt, LeasedAt,
         HoldingAt, EmptyAt
<1>10. CASE ReaperExits
  BY <1>10
     DEF ReaperExits, counters, EmptyHanded, Apart, TypeOK, Carrying, CarriesAt, LeasedAt,
         HoldingAt, EmptyAt
<1>11. ASSUME NEW t \in Threads, AcquireRejected(t)
      PROVE  Apart'
  BY <1>11
     DEF AcquireRejected, AtLoopHead, counters, Goto, background, EmptyHanded, Apart, TypeOK,
         Carrying, CarriesAt, LeasedAt, HoldingAt, EmptyAt
<1>12. ASSUME NEW t \in Threads, AcquireIdle(t)
      PROVE  Apart'
  BY SMTT(60), <1>12
     DEF AcquireIdle, AtLoopHead, Own, Goto, background, EmptyHanded, Apart, TypeOK, Carrying,
         CarriesAt, LeasedAt, HoldingAt, EmptyAt
<1>13. ASSUME NEW t \in Threads, AcquireCreate(t)
      PROVE  Apart'
  BY <1>13
     DEF AcquireCreate, AtLoopHead, Goto, background, EmptyHanded, Apart, TypeOK, Carrying,
         CarriesAt, LeasedAt, HoldingAt, EmptyAt
<1>14. ASSUME NEW t \in Threads, AcquireWait(t)
      PROVE  Apart'
  BY <1>14
     DEF AcquireWait, AtLoopHead, Goto, counters, background, EmptyHanded, Apart, TypeOK,
         Carrying, CarriesAt, LeasedAt, HoldingAt, EmptyAt
<1>15. ASSUME NEW t \in Threads, WakeUp(t)
      PROVE  Apart'
  BY <1>15
     DEF WakeUp, Goto, counters, background, EmptyHanded, Apart, TypeOK, Carrying, CarriesAt,
         LeasedAt, HoldingAt, EmptyAt
<1>16. ASSUME NEW t \in Threads, SpuriousWakeUp(t)
      PROVE  Apart'
  BY <1>16
     DEF SpuriousWakeUp, counters, background, EmptyHanded, Apart, TypeOK, Carrying, CarriesAt,
         LeasedAt, HoldingAt, EmptyAt
<1>17. ASSUME NEW t \in Threads, DeadlinePasses(t)
      PROVE  Apart'
  BY <1>17
     DEF DeadlinePasses, Goto, counters, background, EmptyHanded, Apart, TypeOK, Carrying,
         CarriesAt, LeasedAt, HoldingAt, EmptyAt
<1>18. ASSUME NEW t \in Threads, TimedOut(t)
      PROVE  Apart'
  BY <1>18
     DEF TimedOut, Goto, counters, background, EmptyHanded, Apart, TypeOK, Carrying, CarriesAt,
         LeasedAt, HoldingAt, EmptyAt
<1>19. ASSUME NEW t \in Threads, ValidateOk(t)
      PROVE  Apart'
  BY <1>19
     DEF ValidateOk, Goto, background, EmptyHanded, Apart, TypeOK, Carrying, CarriesAt,
         LeasedAt, HoldingAt, EmptyAt
<1>20. ASSUME NEW t \in Threads, ValidateFails(t)
      PROVE  Apart'
  BY <1>20
     DEF ValidateFails, Goto, background, EmptyHanded, Apart, TypeOK, Carrying, CarriesAt,
         LeasedAt, HoldingAt, EmptyAt
<1>21. ASSUME NEW t \in Threads, CreateOk(t)
      PROVE  Apart'
  <2>1. PICK r \in Resources \ live : Own(t, r) /\ live' = live \union {r}
    BY <1>21 DEF CreateOk
  <2>2. UNCHANGED <<idle, expired, doomed>>
    BY <1>21 DEF CreateOk, background
  <2>3. /\ \A i \in 1..Len(idle) : idle[i] # r
        /\ \A u \in Threads : res[u] # r
        /\ r \notin expired \union doomed
    BY DEF Accounted, Owned
  <2>4. /\ res'[t] = r /\ \A u \in Threads \ {t} : res'[u] = res[u]
    BY <2>1 DEF Own, TypeOK
  <2>5. QED
    BY <2>2, <2>3, <2>4 DEF Apart
<1>22. ASSUME NEW t \in Threads, CreateFails(t)
      PROVE  Apart'
  BY <1>22
     DEF CreateFails, Goto, background, EmptyHanded, Apart, TypeOK, Carrying, CarriesAt,
         LeasedAt, HoldingAt, EmptyAt
<1>23. ASSUME NEW t \in Threads, NotifyAll(t)
      PROVE  Apart'
  BY <1>23
     DEF NotifyAll, Goto, counters, background, NotifyAllAt, AfterNotify, EmptyHanded, Apart,
         TypeOK, Carrying, CarriesAt, LeasedAt, HoldingAt, EmptyAt
<1>24. ASSUME NEW t \in Threads, NotifyOne(t)
      PROVE  Apart'
  BY <1>24
     DEF NotifyOne, Goto, counters, background, NotifyOneAt, AfterNotify, EmptyHanded, Apart,
         TypeOK, Carrying, CarriesAt, LeasedAt, HoldingAt, EmptyAt
<1>25. ASSUME NEW t \in Threads, DestroyOne(t)
      PROVE  Apart'
  BY <1>25
     DEF DestroyOne, Goto, Own, counters, background, DestroyAt, EmptyHanded, Apart, TypeOK,
         Carrying, CarriesAt, LeasedAt, HoldingAt, EmptyAt
<1>26. ASSUME NEW t \in Threads, Release(t)
      PROVE  Apart'
  BY SMTT(60), <1>26
     DEF Release, Goto, Own, background, EmptyHanded, Apart, TypeOK, Carrying, CarriesAt,
         LeasedAt, HoldingAt, EmptyAt
<1>27. ASSUME NEW t \in Threads, DropLease(t)
      PROVE  Apart'
  BY <1>27
     DEF DropLease, Goto, background, EmptyHanded, Apart, TypeOK, Carrying, CarriesAt, LeasedAt,
         HoldingAt, EmptyAt
<1>28. CASE UNCHANGED vars
  BY <1>28
     DEF vars, EmptyHanded, Apart, TypeOK, Carrying, CarriesAt, LeasedAt, HoldingAt, EmptyAt
<1>29. QED
  BY <1>1, <1>2, <1>3, <1>4, <1>5, <1>6, <1>7, <1>8, <1>9, <1>10, <1>11, <1>12, <1>13, <1>14,
     <1>15, <1>16, <1>17, <1>18, <1>19, <1>20, <1>21, <1>22, <1>23, <1>24, <1>25, <1>26, <1>27,
     <1>28
     DEF Next, Warm, Closing, Reaping, Acquire, Blocked, Validate, Create, Finish

(* What create() has made lies in the deque, a hand or a vector of what is *)
(* to be destroyed, until destroying it ends it.                           *)
LEMMA AccountedStep == IInv /\ Linear /\ [Next]_vars => Accounted'
<1> SUFFICES ASSUME IInv /\ Linear, [Next]_vars PROVE Accounted'
  OBVIOUS
<1> USE PoolAssumption DEF IInv, Linear
<1>1. CASE WarmReserve
  BY <1>1
     DEF WarmReserve, EmptyHanded, Apart, Accounted, Owned, TypeOK, Carrying, CarriesAt,
         LeasedAt, HoldingAt, EmptyAt
<1>2. CASE WarmCreate
  BY SMTT(60), <1>2
     DEF WarmCreate, EmptyHanded, Apart, Accounted, Owned, TypeOK, Carrying, CarriesAt,
         LeasedAt, HoldingAt, EmptyAt
<1>3. CASE ClosePool
  BY <1>3
     DEF ClosePool, EmptyHanded, Apart, Accounted, Owned, TypeOK, Carrying, CarriesAt, LeasedAt,
         HoldingAt, EmptyAt
<1>4. CASE CloseNotify
  BY <1>4
     DEF CloseNotify, counters, EmptyHanded, Apart, Accounted, Owned, TypeOK, Carrying,
         CarriesAt, LeasedAt, HoldingAt, EmptyAt
<1>5. CASE CloseJoin
  BY <1>5
     DEF CloseJoin, counters, EmptyHanded, Apart, Accounted, Owned, TypeOK, Carrying, CarriesAt,
         LeasedAt, HoldingAt, EmptyAt
<1>6. CASE CloseDestroyOne
  BY <1>6
     DEF CloseDestroyOne, counters, EmptyHanded, Apart, Accounted, Owned, TypeOK, Carrying,
         CarriesAt, LeasedAt, HoldingAt, EmptyAt
<1>7. CASE Reap
  <2>1. PICK n \in 1..Removable : /\ expired' = {idle[i] : i \in 1..n}
                                  /\ idle' = SubSeq(idle, n + 1, Len(idle))
    BY <1>7 DEF Reap
  <2>2. UNCHANGED <<res, doomed, live>> /\ expired = {} /\ idle \in Seq(Resources)
    BY <1>7 DEF Reap, EmptyHanded, TypeOK
  <2>3. n \in 1..Len(idle)
    BY <2>2 DEF Removable, MinIdle
  <2>4. /\ Len(idle') = Len(idle) - n /\ Len(idle) \in Nat
        /\ \A i \in 1..(Len(idle) - n) : idle'[i] = idle[n + i]
    BY <2>1, <2>2, <2>3, PopFront
  <2>5. \A r : (\E i \in 1..Len(idle) : idle[i] = r) <=> (\E i \in 1..Len(idle') : idle'[i] = r) \/ r \in expired'
    <3>1. ASSUME NEW i \in 1..Len(idle) PROVE idle[i] \in expired' \/ \E j \in 1..Len(idle') : idle'[j] = idle[i]
      <4>1. CASE i \in 1..n
        BY <2>1, <4>1
      <4>2. CASE i \notin 1..n
        <5>1. i - n \in 1..(Len(idle) - n) /\ n + (i - n) = i
          BY <2>3, <2>4, <4>2
        <5>2. QED
          BY <2>4, <5>1
      <4>3. QED
        BY <4>1, <4>2
    <3>2. \A i \in 1..Len(idle') : n + i \in 1..Len(idle) /\ idle'[i] = idle[n + i]
      BY <2>3, <2>4
    <3>3. \A i \in 1..n : i \in 1..Len(idle)
      BY <2>3, <2>4
    <3>4. QED
      BY ZenonT(90), <2>1, <3>1, <3>2, <3>3
  <2>6. QED
    BY <2>2, <2>5 DEF Accounted, Owned
<1>8. CASE ReapDestroyOne
  BY <1>8
     DEF ReapDestroyOne, counters, EmptyHanded, Apart, Accounted, Owned, TypeOK, Carrying,
         CarriesAt, LeasedAt, HoldingAt, EmptyAt
<1>9. CASE ReapNotify
  BY <1>9
     DEF ReapNotify, counters, EmptyHanded, Apart, Accounted, Owned, TypeOK, Carrying,
         CarriesAt, LeasedAt, HoldingAt, EmptyAt
<1>10. CASE ReaperExits
  BY <1>10
     DEF ReaperExits, counters, EmptyHanded, Apart, Accounted, Owned, TypeOK, Carrying,
         CarriesAt, LeasedAt, HoldingAt, EmptyAt
<1>11. ASSUME NEW t \in Threads, AcquireRejected(t)
      PROVE  Accounted'
  BY <1>11
     DEF AcquireRejected, AtLoopHead, counters, Goto, background, EmptyHanded, Apart, Accounted,
         Owned, TypeOK, Carrying, CarriesAt, LeasedAt, HoldingAt, EmptyAt
<1>12. ASSUME NEW t \in Threads, AcquireIdle(t)
      PROVE  Accounted'
  BY <1>12
     DEF AcquireIdle, AtLoopHead, Own, Goto, background, EmptyHanded, Apart, Accounted, Owned,
         TypeOK, Carrying, CarriesAt, LeasedAt, HoldingAt, EmptyAt
<1>13. ASSUME NEW t \in Threads, AcquireCreate(t)
      PROVE  Accounted'
  BY <1>13
     DEF AcquireCreate, AtLoopHead, Goto, background, EmptyHanded, Apart, Accounted, Owned,
         TypeOK, Carrying, CarriesAt, LeasedAt, HoldingAt, EmptyAt
<1>14. ASSUME NEW t \in Threads, AcquireWait(t)
      PROVE  Accounted'
  BY <1>14
     DEF AcquireWait, AtLoopHead, Goto, counters, background, EmptyHanded, Apart, Accounted,
         Owned, TypeOK, Carrying, CarriesAt, LeasedAt, HoldingAt, EmptyAt
<1>15. ASSUME NEW t \in Threads, WakeUp(t)
      PROVE  Accounted'
  BY <1>15
     DEF WakeUp, Goto, counters, background, EmptyHanded, Apart, Accounted, Owned, TypeOK,
         Carrying, CarriesAt, LeasedAt, HoldingAt, EmptyAt
<1>16. ASSUME NEW t \in Threads, SpuriousWakeUp(t)
      PROVE  Accounted'
  BY <1>16
     DEF SpuriousWakeUp, counters, background, EmptyHanded, Apart, Accounted, Owned, TypeOK,
         Carrying, CarriesAt, LeasedAt, HoldingAt, EmptyAt
<1>17. ASSUME NEW t \in Threads, DeadlinePasses(t)
      PROVE  Accounted'
  BY <1>17
     DEF DeadlinePasses, Goto, counters, background, EmptyHanded, Apart, Accounted, Owned,
         TypeOK, Carrying, CarriesAt, LeasedAt, HoldingAt, EmptyAt
<1>18. ASSUME NEW t \in Threads, TimedOut(t)
      PROVE  Accounted'
  BY <1>18
     DEF TimedOut, Goto, counters, background, EmptyHanded, Apart, Accounted, Owned, TypeOK,
         Carrying, CarriesAt, LeasedAt, HoldingAt, EmptyAt
<1>19. ASSUME NEW t \in Threads, ValidateOk(t)
      PROVE  Accounted'
  BY <1>19
     DEF ValidateOk, Goto, background, EmptyHanded, Apart, Accounted, Owned, TypeOK, Carrying,
         CarriesAt, LeasedAt, HoldingAt, EmptyAt
<1>20. ASSUME NEW t \in Threads, ValidateFails(t)
      PROVE  Accounted'
  BY <1>20
     DEF ValidateFails, Goto, background, EmptyHanded, Apart, Accounted, Owned, TypeOK,
         Carrying, CarriesAt, LeasedAt, HoldingAt, EmptyAt
<1>21. ASSUME NEW t \in Threads, CreateOk(t)
      PROVE  Accounted'
  BY <1>21
     DEF CreateOk, Goto, Own, background, EmptyHanded, Apart, Accounted, Owned, TypeOK,
         Carrying, CarriesAt, LeasedAt, HoldingAt, EmptyAt
<1>22. ASSUME NEW t \in Threads, CreateFails(t)
      PROVE  Accounted'
  BY <1>22
     DEF CreateFails, Goto, background, EmptyHanded, Apart, Accounted, Owned, TypeOK, Carrying,
         CarriesAt, LeasedAt, HoldingAt, EmptyAt
<1>23. ASSUME NEW t \in Threads, NotifyAll(t)
      PROVE  Accounted'
  BY <1>23
     DEF NotifyAll, Goto, counters, background, NotifyAllAt, AfterNotify, EmptyHanded, Apart,
         Accounted, Owned, TypeOK, Carrying, CarriesAt, LeasedAt, HoldingAt, EmptyAt
<1>24. ASSUME NEW t \in Threads, NotifyOne(t)
      PROVE  Accounted'
  BY <1>24
     DEF NotifyOne, Goto, counters, background, NotifyOneAt, AfterNotify, EmptyHanded, Apart,
         Accounted, Owned, TypeOK, Carrying, CarriesAt, LeasedAt, HoldingAt, EmptyAt
<1>25. ASSUME NEW t \in Threads, DestroyOne(t)
      PROVE  Accounted'
  BY <1>25
     DEF DestroyOne, Goto, Own, counters, background, DestroyAt, EmptyHanded, Apart, Accounted,
         Owned, TypeOK, Carrying, CarriesAt, LeasedAt, HoldingAt, EmptyAt
<1>26. ASSUME NEW t \in Threads, Release(t)
      PROVE  Accounted'
  <2>1. UNCHANGED <<live, expired, doomed>> /\ idle \in Seq(Resources) /\ res[t] \in Resources
    BY <1>26 DEF Release, background, TypeOK, Carrying, CarriesAt, LeasedAt, HoldingAt
  <2>2. CASE destroyed
    BY <1>26, <2>1, <2>2 DEF Release, Accounted, Owned
  <2>3. CASE ~destroyed
    <3>1. idle' = Append(idle, res[t]) /\ res' = [res EXCEPT ![t] = None]
      BY <1>26, <2>3 DEF Release, Own
    <3>2. /\ Len(idle') = Len(idle) + 1 /\ idle'[Len(idle) + 1] = res[t] /\ Len(idle) \in Nat
          /\ \A i \in 1..Len(idle) : idle'[i] = idle[i]
      BY <2>1, <3>1, PushBack
    <3>3. /\ res'[t] = None /\ \A u \in Threads \ {t} : res'[u] = res[u]
      BY <3>1 DEF TypeOK
    <3>4. \A r \in Resources : (\E u \in Threads : res[u] = r) <=> (\E u \in Threads : res'[u] = r) \/ r = res[t]
      BY <3>3
    <3>5. \A r : (\E i \in 1..Len(idle') : idle'[i] = r) <=> (\E i \in 1..Len(idle) : idle[i] = r) \/ r = res[t]
      BY <3>2
    <3>6. QED
      BY <2>1, <3>4, <3>5 DEF Accounted, Owned
  <2>4. QED
    BY <2>2, <2>3
<1>27. ASSUME NEW t \in Threads, DropLease(t)
      PROVE  Accounted'
  BY <1>27
     DEF DropLease, Goto, background, EmptyHanded, Apart, Accounted, Owned, TypeOK, Carrying,
         CarriesAt, LeasedAt, HoldingAt, EmptyAt
<1>28. CASE UNCHANGED vars
  BY <1>28
     DEF vars, EmptyHanded, Apart, Accounted, Owned, TypeOK, Carrying, CarriesAt, LeasedAt,
         HoldingAt, EmptyAt
<1>29. QED
  BY <1>1, <1>2, <1>3, <1>4, <1>5, <1>6, <1>7, <1>8, <1>9, <1>10, <1>11, <1>12, <1>13, <1>14,
     <1>15, <1>16, <1>17, <1>18, <1>19, <1>20, <1>21, <1>22, <1>23, <1>24, <1>25, <1>26, <1>27,
     <1>28
     DEF Next, Warm, Closing, Reaping, Acquire, Blocked, Validate, Create, Finish

-----------------------------------------------------------------------------

(* Every connection the pool has made has exactly one owner at every point *)
(* between two operations of the mutex, whichever threads acquire, give    *)
(* back, warm up, reap or destroy.                                         *)
THEOREM PoolOwnership == Spec => []Linear
<1>1. Init => Linear
  BY PoolAssumption DEF Init, Linear, EmptyHanded, Apart, Accounted, Owned
<1>2. IInv /\ Linear /\ [Next]_vars => Linear'
  BY EmptyHandedStep, ApartStep, AccountedStep DEF Linear
<1>3. QED
  BY <1>1, <1>2, PoolInvariant, PTL DEF Spec

(* With one owner each, the places of a resource number one as long as it  *)
(* exists, and none after.                                                 *)
LEMMA OneOwner == TypeOK /\ Linear => OnePlaceEach
<1> SUFFICES ASSUME TypeOK, Linear, NEW r \in Resources
    PROVE  Cardinality(Places(r)) = IF r \in live THEN 1 ELSE 0
  BY DEF OnePlaceEach
<1> USE DEF Linear, Places
<1>1. r # None
  BY PoolAssumption
<1>2. CASE r \notin live
  <2>1. Places(r) = {}
    BY <1>2 DEF Accounted, Owned
  <2>2. QED
    BY <1>2, <2>1, FS_EmptySet
<1>3. CASE \E i \in 1..Len(idle) : idle[i] = r
  <2>1. PICK i \in 1..Len(idle) : idle[i] = r
    BY <1>3
  <2>2. /\ \A j \in 1..Len(idle) : idle[j] = r => j = i
        /\ \A t \in Threads : res[t] # r
        /\ r \notin expired /\ r \notin doomed
    BY <2>1 DEF Apart
  <2>3. Places(r) = {<<"idle", i>>} /\ r \in live
    BY <2>1, <2>2 DEF Accounted, Owned
  <2>4. QED
    BY <2>3, FS_Singleton
<1>4. CASE \E t \in Threads : res[t] = r
  <2>1. PICK t \in Threads : res[t] = r
    BY <1>4
  <2>2. /\ \A u \in Threads : res[u] = r => u = t
        /\ \A j \in 1..Len(idle) : idle[j] # r
        /\ r \notin expired /\ r \notin doomed
    BY <1>1, <2>1 DEF Apart
  <2>3. Places(r) = {<<"thread", t>>} /\ r \in live
    BY <2>1, <2>2 DEF Accounted, Owned
  <2>4. QED
    BY <2>3, FS_Singleton
<1>5. CASE r \in expired
  <2>1. Places(r) = {<<"reaper", 0>>} /\ r \in live
    BY <1>1, <1>5 DEF Accounted, Owned, Apart
  <2>2. QED
    BY <2>1, FS_Singleton
<1>6. CASE r \in doomed
  <2>1. Places(r) = {<<"closer", 0>>} /\ r \in live
    BY <1>1, <1>6 DEF Accounted, Owned, Apart
  <2>2. QED
    BY <2>1, FS_Singleton
<1>7. QED
  BY <1>2, <1>3, <1>4, <1>5, <1>6 DEF Accounted, Owned

(* No connection is leaked and none is lent twice: a resource that exists  *)
(* is in one place, and one that does not is in none.                      *)
THEOREM PoolOnePlaceEach == Spec => []OnePlaceEach
<1>1. QED
  BY OneOwner, PoolTypeOK, PoolOwnership, PTL

-----------------------------------------------------------------------------
Lent == [t \in Threads |-> IF pc[t] \in HoldingAt THEN res[t] ELSE None]

(* The contract's module has its own copy of the library of finite sets.   *)
LEMMA SameCardinality == \A S : Contract!Cardinality(S) = Cardinality(S)
  BY DEF Contract!Cardinality, Cardinality

(* acquire() that returns a lease is the contract's grant.                 *)
LEMMA ContractGrant ==
  ASSUME NEW h \in Threads, NEW r \in Resources, ~destroyed, Lent[h] = None,
         \A other \in Threads : Lent[other] # r, Cardinality(Contract!Leased) < Max,
         Lent' = [Lent EXCEPT ![h] = r], UNCHANGED destroyed
  PROVE  Contract!Next
<1>1. Contract!Grant(h, r)
  BY SameCardinality, Zenon DEF Contract!Grant, Lent
<1>2. QED
  BY <1>1 DEF Contract!Next

(* A lease whose destructor has given its resource back is the contract's  *)
(* return.                                                                 *)
LEMMA ContractReturn ==
  ASSUME NEW h \in Threads, Lent[h] # None, Lent' = [Lent EXCEPT ![h] = None], UNCHANGED destroyed
  PROVE  Contract!Next
<1>1. Contract!Return(h)
  BY Zenon DEF Contract!Return, Lent
<1>2. QED
  BY <1>1 DEF Contract!Next

(* A thread that is validating or creating a resource has been counted in  *)
(* `leased' and holds no lease yet: there is room for it.                  *)
LEMMA LentCount ==
  ASSUME IInv, NEW t \in Threads, pc[t] \in {"validating", "creating"}
  PROVE  Cardinality(Contract!Leased) < Max
<1> DEFINE H == {u \in Threads : pc[u] \in HoldingAt}
           L == {u \in Threads : pc[u] \in LeasedAt}
           C == {u \in Threads : pc[u] \in {"creating"}}
<1>1. Contract!Leased \subseteq H
  BY DEF Contract!Leased
<1>2. IsFiniteSet(H) /\ IsFiniteSet(L) /\ IsFiniteSet(C) /\ IsFiniteSet(Contract!Leased)
  <2>1. H \subseteq Threads /\ L \subseteq Threads /\ C \subseteq Threads
    OBVIOUS
  <2>2. QED
    BY <1>1, <2>1, PoolAssumption, FS_Subset
<1>3. Cardinality(Contract!Leased) <= Cardinality(H) /\ Cardinality(Contract!Leased) \in Nat
  BY <1>1, <1>2, FS_Subset, FS_CardinalityType
<1>4. Cardinality(H) \in Nat /\ Cardinality(L) \in Nat /\ Cardinality(C) \in Nat
  BY <1>2, FS_CardinalityType
<1>5. leased = Cardinality(L) /\ Cardinality(C) <= creating
  BY <1>4 DEF IInv, CountersExact, CountAt
<1>6. leased + creating <= Max /\ creating \in Nat /\ Max \in Nat
  BY PoolAssumption DEF IInv, CapacityRespected, TotalLive, TypeOK
<1>7. H \subseteq L
  BY DEF LeasedAt, HoldingAt
<1>8. CASE pc[t] = "validating"
  <2>1. t \in L /\ t \notin H
    BY <1>8 DEF LeasedAt, HoldingAt
  <2>2. Cardinality(H) < Cardinality(L)
    BY <1>2, <1>4, <1>7, <2>1, FS_Subset
  <2>3. QED
    BY <1>3, <1>4, <1>5, <1>6, <2>2
<1>9. CASE pc[t] = "creating"
  <2>1. t \in C
    BY <1>9
  <2>2. Cardinality(C) # 0
    BY <1>2, <2>1, FS_EmptySet
  <2>3. Cardinality(H) <= Cardinality(L)
    BY <1>2, <1>7, FS_Subset
  <2>4. QED
    BY <1>3, <1>4, <1>5, <1>6, <2>2, <2>3
<1>10. QED
  BY <1>8, <1>9

(* Every step of the pool is a grant or a return of a lease, its           *)
(* destruction, or changes no lease.                                       *)
LEMMA ContractStep == IInv /\ Linear /\ [Next]_vars => [Contract!Next]_(Contract!vars)
<1> SUFFICES ASSUME IInv, Linear, [Next]_vars PROVE [Contract!Next]_(Contract!vars)
  OBVIOUS
<1>1. ASSUME Lent' = Lent, UNCHANGED destroyed PROVE [Contract!Next]_(Contract!vars)
  BY <1>1 DEF Contract!vars, Lent
<1>2. TypeOK /\ Carrying
  BY DEF IInv
<1>3. ASSUME NEW t \in Threads, NEW l \in CarriesAt \union EmptyAt, Goto(t, l), UNCHANGED destroyed,
             pc[t] \notin HoldingAt, l \notin HoldingAt, \A u \in Threads \ {t} : res'[u] = res[u]
      PROVE  [Contract!Next]_(Contract!vars)
  <2>1. Lent' = Lent
    BY <1>2, <1>3 DEF Lent, Goto, TypeOK
  <2>2. QED
    BY <1>1, <1>3, <2>1
<1>4. ASSUME NEW t \in Threads, NEW l \in CarriesAt \union EmptyAt, Goto(t, l), UNCHANGED destroyed,
             pc[t] = "holding", l \notin HoldingAt, \A u \in Threads \ {t} : res'[u] = res[u]
      PROVE  Contract!Next
  <2>1. Lent[t] # None
    BY <1>2, <1>4, PoolAssumption DEF Lent, Carrying, CarriesAt, LeasedAt, HoldingAt
  <2>2. Lent' = [Lent EXCEPT ![t] = None]
    BY <1>2, <1>4 DEF Lent, Goto, TypeOK
  <2>3. QED
    BY <1>4, <2>1, <2>2, ContractReturn
<1>5. ASSUME NEW t \in Threads, NEW l \in HoldingAt, NEW r \in Resources, Goto(t, l), UNCHANGED destroyed,
             pc[t] \in {"validating", "creating"}, ~destroyed, res'[t] = r,
             \A u \in Threads \ {t} : res'[u] = res[u] /\ res[u] # r
      PROVE  Contract!Next
  <2>1. Lent[t] = None /\ \A u \in Threads : Lent[u] # r
    BY <1>5, PoolAssumption DEF Lent, HoldingAt
  <2>2. Lent' = [Lent EXCEPT ![t] = r]
    BY <1>2, <1>5 DEF Lent, Goto, TypeOK
  <2>3. Cardinality(Contract!Leased) < Max
    BY <1>5, LentCount
  <2>4. QED
    BY <1>5, <2>1, <2>2, <2>3, ContractGrant
<1> USE DEF CarriesAt, LeasedAt, HoldingAt, EmptyAt
<1>6. ASSUME NEW t \in Threads,
             \/ AcquireRejected(t) \/ AcquireCreate(t) \/ AcquireWait(t) \/ DeadlinePasses(t)
             \/ TimedOut(t) \/ ValidateFails(t) \/ CreateFails(t)
      PROVE  [Contract!Next]_(Contract!vars)
  <2>1. PICK l \in EmptyAt \union {"invalidNotify", "threwDestroy"} :
          Goto(t, l) /\ pc[t] \notin HoldingAt /\ UNCHANGED <<destroyed, res>>
    BY <1>6
       DEF AcquireRejected, AcquireCreate, AcquireWait, AtLoopHead, DeadlinePasses, TimedOut,
           ValidateFails, CreateFails, counters
  <2>2. QED
    BY <1>3, <2>1
<1>7. ASSUME NEW t \in Threads, WakeUp(t) \/ SpuriousWakeUp(t)
      PROVE  [Contract!Next]_(Contract!vars)
  <2>1. UNCHANGED <<destroyed, res>> /\ ((Goto(t, "acquire") /\ pc[t] = "waiting") \/ UNCHANGED pc)
    BY <1>7 DEF WakeUp, SpuriousWakeUp, counters
  <2>2. QED
    BY <1>1, <1>3, <2>1 DEF Lent
<1>8. ASSUME NEW t \in Threads, AcquireIdle(t)
      PROVE  [Contract!Next]_(Contract!vars)
  <2>1. /\ Goto(t, "validating") /\ pc[t] \notin HoldingAt /\ UNCHANGED destroyed
        /\ \A u \in Threads \ {t} : res'[u] = res[u]
    BY <1>2, <1>8 DEF AcquireIdle, AtLoopHead, Own, TypeOK
  <2>2. QED
    BY <1>3, <2>1
<1>9. ASSUME NEW t \in Threads, ValidateOk(t)
      PROVE  [Contract!Next]_(Contract!vars)
  <2>1. pc[t] = "validating" /\ UNCHANGED <<destroyed, res>> /\ res[t] \in Resources
    BY <1>2, <1>9 DEF ValidateOk, Carrying
  <2>2. CASE destroyed
    BY <1>3, <1>9, <2>1, <2>2 DEF ValidateOk
  <2>3. CASE ~destroyed
    <3>1. \A u \in Threads \ {t} : res[u] # res[t]
      BY <2>1, PoolAssumption DEF Linear, Apart
    <3>2. Goto(t, "holding")
      BY <1>9, <2>3 DEF ValidateOk
    <3>3. QED
      BY <1>5, <2>1, <2>3, <3>1, <3>2
  <2>4. QED
    BY <2>2, <2>3
<1>10. ASSUME NEW t \in Threads, CreateOk(t)
       PROVE  [Contract!Next]_(Contract!vars)
  <2>1. PICK r \in Resources \ live : Own(t, r)
    BY <1>10 DEF CreateOk
  <2>2. /\ pc[t] = "creating" /\ UNCHANGED destroyed /\ res'[t] = r
        /\ \A u \in Threads \ {t} : res'[u] = res[u]
    BY <1>2, <1>10, <2>1 DEF CreateOk, Own, TypeOK
  <2>3. CASE destroyed
    BY <1>3, <1>10, <2>2, <2>3 DEF CreateOk
  <2>4. CASE ~destroyed
    <3>1. \A u \in Threads : res[u] # r
      BY DEF Linear, Accounted, Owned
    <3>2. Goto(t, "createdNotify")
      BY <1>10, <2>4 DEF CreateOk
    <3>3. QED
      BY <1>5, <2>2, <2>4, <3>1, <3>2
  <2>5. QED
    BY <2>3, <2>4
<1>11. ASSUME NEW t \in Threads, NotifyAll(t) \/ NotifyOne(t)
       PROVE  [Contract!Next]_(Contract!vars)
  <2>1. /\ Goto(t, AfterNotify(pc[t])) /\ UNCHANGED <<destroyed, res>>
        /\ pc[t] \in NotifyAllAt \union NotifyOneAt
    BY <1>11 DEF NotifyAll, NotifyOne, counters
  <2>2. pc[t] \in HoldingAt <=> AfterNotify(pc[t]) \in HoldingAt
    BY <2>1 DEF NotifyAllAt, NotifyOneAt, AfterNotify
  <2>3. Lent' = Lent
    BY <1>2, <2>1, <2>2 DEF Lent, Goto, TypeOK
  <2>4. QED
    BY <1>1, <2>1, <2>3
<1>12. ASSUME NEW t \in Threads, DestroyOne(t)
       PROVE  [Contract!Next]_(Contract!vars)
  <2>1. PICK l \in EmptyAt : Goto(t, l)
    BY <1>12, AfterUnlock DEF DestroyOne
  <2>2. /\ pc[t] \notin HoldingAt /\ UNCHANGED destroyed
        /\ \A u \in Threads \ {t} : res'[u] = res[u]
    BY <1>2, <1>12 DEF DestroyOne, DestroyAt, Own, counters, TypeOK
  <2>3. QED
    BY <1>3, <2>1, <2>2
<1>13. ASSUME NEW t \in Threads, Release(t) \/ DropLease(t)
       PROVE  Contract!Next
  <2>1. PICK l \in {"releaseDestroy", "releaseNotify", "dropDestroy"} : Goto(t, l)
    BY <1>13 DEF Release, DropLease
  <2>2. /\ pc[t] = "holding" /\ UNCHANGED destroyed
        /\ \A u \in Threads \ {t} : res'[u] = res[u]
    BY <1>2, <1>13 DEF Release, DropLease, Own, TypeOK
  <2>3. QED
    BY <1>4, <2>1, <2>2
<1>14. CASE ClosePool
  <2>1. destroyed' = TRUE /\ UNCHANGED <<pc, res>>
    BY <1>14 DEF ClosePool
  <2>2. QED
    BY <2>1 DEF Contract!Next, Contract!Close
<1>15. CASE Warm \/ Closing \/ Reap \/ Reaping \/ UNCHANGED vars
  <2>1. UNCHANGED <<pc, res, destroyed>>
    BY <1>15
       DEF Warm, WarmReserve, WarmCreate, Closing, CloseNotify, CloseJoin, CloseDestroyOne,
           Reap, Reaping, ReapDestroyOne, ReapNotify, ReaperExits, vars, counters
  <2>2. QED
    BY <1>1, <2>1 DEF Lent
<1>16. QED
  BY <1>6, <1>7, <1>8, <1>9, <1>10, <1>11, <1>12, <1>13, <1>14, <1>15, Zenon
     DEF Next, Acquire, Blocked, Validate, Create, Finish

(* Pool keeps its contract: at most max leases at a time, each of a        *)
(* resource of its own, and none granted after destroy().                  *)
THEOREM PoolImplementsBoundedLeases == Spec => ImplementsBoundedLeases
<1>1. Init => Contract!Init
  BY DEF Init, Contract!Init, HoldingAt
<1>2. QED
  BY <1>1, ContractStep, PoolInvariant, PoolOwnership, PTL
     DEF Spec, ImplementsBoundedLeases, Contract!Spec

(* No two leases of the pool are of the same resource, whatever max is and *)
(* however many threads acquire.                                           *)
THEOREM PoolExclusive == Spec => []Contract!Exclusive
<1>1. IInv /\ Linear => Contract!Exclusive
  <2> SUFFICES ASSUME IInv, Linear PROVE Contract!Exclusive
    OBVIOUS
  <2>1. \A g, h \in Threads : Lent[g] = Lent[h] /\ Lent[g] # None => g = h
    BY DEF Lent, Linear, Apart
  <2> DEFINE L == {u \in Threads : pc[u] \in LeasedAt}
  <2>2. Contract!Leased \subseteq L /\ IsFiniteSet(L)
    <3>1. L \subseteq Threads
      OBVIOUS
    <3>2. Contract!Leased \subseteq {u \in Threads : pc[u] \in HoldingAt}
      BY DEF Contract!Leased
    <3>3. Contract!Leased \subseteq L
      BY <3>2 DEF LeasedAt, HoldingAt
    <3>4. QED
      BY <3>1, <3>3, PoolAssumption, FS_Subset
  <2>3. Cardinality(Contract!Leased) <= leased
    BY <2>2, FS_Subset DEF IInv, CountersExact, CountAt
  <2>4. leased <= Max
    BY PoolAssumption DEF IInv, CapacityRespected, TotalLive, TypeOK
  <2>5. Cardinality(Contract!Leased) \in Nat
    BY <2>2, FS_Subset, FS_CardinalityType
  <2>6. Contract!Cardinality(Contract!Leased) <= Max
    BY <2>3, <2>4, <2>5, SameCardinality, PoolAssumption DEF IInv, TypeOK
  <2>7. QED
    BY <2>1, <2>6 DEF Contract!Exclusive, Lent
<1>2. QED
  BY <1>1, PoolInvariant, PoolOwnership, PTL
=============================================================================
