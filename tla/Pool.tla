-------------------------------- MODULE Pool --------------------------------
(***************************************************************************)
(* metal::Pool<TResource> (include/metal/pool.hpp): a mutex-protected      *)
(* resource pool with a blocking acquire(), move-only leases, a reaper     *)
(* thread and destroy().  A step is one critical section of the mutex      *)
(* together with the thread-local work that leads to it; what the code     *)
(* does after it unlocks (adapter.destroy, cv.notify_one, cv.notify_all)   *)
(* is a step of its own, because other threads run in between.             *)
(***************************************************************************)
EXTENDS Naturals, Sequences, FiniteSets

CONSTANTS Threads,    \* callers of acquire() and owners of leases
          Resources,  \* identities of the physical resources
          None,       \* an empty unique_ptr
          Max, Min,   \* PoolOptions::max and PoolOptions::min
          HasTimeout, \* acquire_timeout > 0
          HasReaper,  \* idle_timeout > 0
          Faults      \* which adapter callbacks may fail

(* "drop" is adapter.destroy throwing inside Lease::destroy(), "destroy"   *)
(* the same anywhere else.                                                 *)
AdapterFaults == {"create", "invalid", "validate", "destroy", "drop"}

ASSUME PoolAssumption ==
  /\ IsFiniteSet(Threads)
  /\ None \notin Resources
  /\ Max \in Nat \ {0} /\ Min \in Nat
  /\ HasTimeout \in BOOLEAN /\ HasReaper \in BOOLEAN
  /\ Faults \subseteq AdapterFaults

VARIABLES
  idle,       \* State::idle, the most recently returned resource last
  creating,   \* State::creating
  leased,     \* State::leased
  destroyed,  \* State::destroyed
  waiting,    \* the threads blocked on State::cv
  pc,         \* where each thread is inside acquire(), release() or destroy()
  res,        \* the unique_ptr each thread owns
  warm,       \* progress of warm_minimum() in the constructor
  reaper,     \* progress of the reaper thread
  expired,    \* the resources the reaper has taken out of idle
  closer,     \* progress of Pool::destroy()
  doomed,     \* the resources Pool::destroy() has taken out of idle
  live        \* the resources that exist: created, not yet destroyed

vars == <<idle, creating, leased, destroyed, waiting, pc, res,
          warm, reaper, expired, closer, doomed, live>>

counters   == <<idle, creating, leased, destroyed>>
background == <<warm, reaper, expired, closer, doomed>>

-----------------------------------------------------------------------------
(* normalize_options(): the warm floor never exceeds max.                  *)
MinIdle == IF Min > Max THEN Max ELSE Min

TotalWithoutCreating == Len(idle) + leased   \* mutant: `creating' forgotten
TotalLive == Len(idle) + leased + creating

(* The predicate acquire() waits for.                                      *)
Ready == destroyed \/ idle # <<>> \/ TotalLive < Max

(* Where a thread is when it must still notify or call adapter.destroy,    *)
(* and what follows.  A destroy that throws skips the rest of the function *)
(* except where a catch block surrounds it.                                *)
NotifyAllAt == {"lateNotify", "createdNotify", "createFailed"}
NotifyOneAt == {"invalidNotify", "threwNotify", "releaseNotify", "dropNotify"}
DestroyAt   == {"lateDestroy", "invalidDestroy", "threwDestroy", "releaseDestroy",
                "dropDestroy"}

AfterNotify(l) ==
  CASE l = "lateNotify"    -> "lateDestroy"
    [] l = "createdNotify" -> "holding"
    [] l = "invalidNotify" -> "invalidDestroy"
    [] OTHER               -> "out"
(* Mutants: Lease::destroy() forgets notify_one; Lease::release() keeps    *)
(* the lease when adapter.destroy throws.                                  *)
AfterDestroySilent(l) ==
  CASE l = "invalidDestroy" -> "acquire"
    [] l = "threwDestroy"   -> "threwNotify"
    [] l = "releaseDestroy" -> "releaseNotify"
    [] OTHER                -> "out"
ThrowKeepsLease(l) ==
  CASE l = "threwDestroy" -> "threwNotify" [] l = "releaseDestroy" -> "holding" [] OTHER -> "out"

AfterDestroy(l) ==
  CASE l = "invalidDestroy" -> "acquire"
    [] l = "threwDestroy"   -> "threwNotify"
    [] l = "releaseDestroy" -> "releaseNotify"
    [] l = "dropDestroy"    -> "dropNotify"
    [] OTHER                -> "out"
AfterDestroyThrows(l) == IF l = "threwDestroy" THEN "threwNotify" ELSE "out"

Goto(t, l)  == pc' = [pc EXCEPT ![t] = l]
Own(t, r)   == res' = [res EXCEPT ![t] = r]

Init ==
  /\ idle = <<>> /\ creating = 0 /\ leased = 0 /\ destroyed = FALSE
  /\ waiting = {}
  /\ pc = [t \in Threads |-> "out"]
  /\ res = [t \in Threads |-> None]
  /\ warm = "check"
  /\ reaper = IF HasReaper THEN "sleeping" ELSE "exited"
  /\ expired = {} /\ closer = "open" /\ doomed = {} /\ live = {}

-----------------------------------------------------------------------------
(* Construction: warm_minimum() runs before the pool is shared.            *)
WarmReserve ==
  /\ warm = "check"
  /\ IF Len(idle) >= MinIdle \/ TotalLive >= Max
       THEN warm' = "done" /\ UNCHANGED creating
       ELSE warm' = "create" /\ creating' = creating + 1
  /\ UNCHANGED <<idle, leased, destroyed, waiting, pc, res,
                 reaper, expired, closer, doomed, live>>

WarmCreate ==
  /\ warm = "create"
  /\ creating' = creating - 1
  /\ \/ \E r \in Resources \ live :
          /\ live' = live \union {r}
          /\ idle' = Append(idle, r)
          /\ warm' = "check"
     \/ /\ "create" \in Faults
        /\ warm' = "done"
        /\ UNCHANGED <<live, idle>>
  /\ UNCHANGED <<leased, destroyed, waiting, pc, res, reaper, expired, closer, doomed>>

-----------------------------------------------------------------------------
(* acquire(): the first critical section of the loop body.                 *)
AtLoopHead(t) == warm = "done" /\ pc[t] \in {"out", "acquire"}

AcquireRejected(t) ==
  /\ AtLoopHead(t) /\ destroyed
  /\ Goto(t, "out")
  /\ UNCHANGED <<counters, waiting, res, background, live>>

(* Mutant: back() is taken but front() is popped.                          *)
AcquireIdlePopsFront(t) ==
  /\ AtLoopHead(t) /\ ~destroyed /\ idle # <<>>
  /\ Own(t, idle[Len(idle)]) /\ idle' = Tail(idle)
  /\ leased' = leased + 1 /\ Goto(t, "validating")
  /\ UNCHANGED <<creating, destroyed, waiting, background, live>>

AcquireIdle(t) ==
  /\ AtLoopHead(t) /\ ~destroyed
  /\ idle # <<>>
  /\ Own(t, idle[Len(idle)])
  /\ idle' = SubSeq(idle, 1, Len(idle) - 1)
  /\ leased' = leased + 1
  /\ Goto(t, "validating")
  /\ UNCHANGED <<creating, destroyed, waiting, background, live>>

AcquireCreate(t) ==
  /\ AtLoopHead(t) /\ ~destroyed
  /\ idle = <<>> /\ TotalLive < Max
  /\ creating' = creating + 1
  /\ Goto(t, "creating")
  /\ UNCHANGED <<idle, leased, destroyed, waiting, res, background, live>>

AcquireWait(t) ==
  /\ AtLoopHead(t) /\ ~Ready
  /\ waiting' = waiting \union {t}
  /\ Goto(t, "waiting")
  /\ UNCHANGED <<counters, res, background, live>>

(* A woken thread takes the mutex back and tests the predicate.            *)
WakeUp(t) ==
  /\ pc[t] = "waiting" /\ t \notin waiting
  /\ IF Ready
       THEN Goto(t, "acquire") /\ UNCHANGED waiting
       ELSE waiting' = waiting \union {t} /\ UNCHANGED pc
  /\ UNCHANGED <<counters, res, background, live>>

(* The cv may wake a thread that nobody notified.                          *)
SpuriousWakeUp(t) ==
  /\ t \in waiting
  /\ waiting' = waiting \ {t}
  /\ UNCHANGED <<counters, pc, res, background, live>>

(* The deadline passes; the predicate is evaluated a last time.            *)
DeadlinePasses(t) ==
  /\ HasTimeout /\ pc[t] = "waiting"
  /\ waiting' = waiting \ {t}
  /\ Goto(t, "timedOut")
  /\ UNCHANGED <<counters, res, background, live>>

TimedOut(t) ==
  /\ pc[t] = "timedOut"
  /\ Goto(t, IF Ready THEN "acquire" ELSE "out")
  /\ UNCHANGED <<counters, waiting, res, background, live>>

-----------------------------------------------------------------------------
(* Mutant: `destroyed' is not looked at again after adapter.validate.      *)
ValidateIgnoresDestroy(t) ==
  /\ pc[t] = "validating" /\ Goto(t, "holding")
  /\ UNCHANGED <<counters, waiting, res, background, live>>

(* acquire(): adapter.validate and the critical section after it.          *)
ValidateOk(t) ==
  /\ pc[t] = "validating"
  /\ IF destroyed
       THEN leased' = leased - 1 /\ Goto(t, "lateNotify")
       ELSE Goto(t, "holding") /\ UNCHANGED leased
  /\ UNCHANGED <<idle, creating, destroyed, waiting, res, background, live>>

ValidateFails(t) ==
  /\ pc[t] = "validating"
  /\ leased' = leased - 1
  /\ \/ "invalid" \in Faults /\ Goto(t, "invalidNotify")
     \/ "validate" \in Faults /\ Goto(t, "threwDestroy")
  /\ UNCHANGED <<idle, creating, destroyed, waiting, res, background, live>>

(* acquire(): adapter.create and the critical section after it.            *)
CreateOk(t) ==
  /\ pc[t] = "creating"
  /\ creating' = creating - 1
  /\ \E r \in Resources \ live : Own(t, r) /\ live' = live \union {r}
  /\ IF destroyed
       THEN Goto(t, "lateNotify") /\ UNCHANGED leased
       ELSE leased' = leased + 1 /\ Goto(t, "createdNotify")
  /\ UNCHANGED <<idle, destroyed, waiting, background>>

(* Mutant: the catch block forgets --creating.                             *)
CreateFailsUncounted(t) ==
  /\ pc[t] = "creating" /\ "create" \in Faults
  /\ Goto(t, "createFailed")
  /\ UNCHANGED <<counters, waiting, res, background, live>>

CreateFails(t) ==
  /\ pc[t] = "creating" /\ "create" \in Faults
  /\ creating' = creating - 1
  /\ Goto(t, "createFailed")
  /\ UNCHANGED <<idle, leased, destroyed, waiting, res, background, live>>

-----------------------------------------------------------------------------
(* What happens after the mutex is unlocked.                               *)
NotifyAll(t) ==
  /\ pc[t] \in NotifyAllAt
  /\ waiting' = {}
  /\ Goto(t, AfterNotify(pc[t]))
  /\ UNCHANGED <<counters, res, background, live>>

NotifyOne(t) ==
  /\ pc[t] \in NotifyOneAt
  /\ \/ waiting = {} /\ UNCHANGED waiting
     \/ \E w \in waiting : waiting' = waiting \ {w}
  /\ Goto(t, AfterNotify(pc[t]))
  /\ UNCHANGED <<counters, res, background, live>>

DestroyOne(t) ==
  /\ pc[t] \in DestroyAt
  /\ live' = live \ {res[t]}
  /\ Own(t, None)
  /\ \/ Goto(t, AfterDestroy(pc[t]))
     \/ /\ (IF pc[t] = "dropDestroy" THEN "drop" ELSE "destroy") \in Faults
        /\ Goto(t, AfterDestroyThrows(pc[t]))
  /\ UNCHANGED <<counters, waiting, background>>

-----------------------------------------------------------------------------
(* Mutant: a dead pool takes the resource back.                            *)
ReleaseToDeadPool(t) ==
  /\ pc[t] = "holding" /\ leased' = leased - 1
  /\ idle' = Append(idle, res[t]) /\ Own(t, None) /\ Goto(t, "releaseNotify")
  /\ UNCHANGED <<creating, destroyed, waiting, background, live>>

(* Lease::release(), also run by the lease's destructor.                   *)
Release(t) ==
  /\ pc[t] = "holding"
  /\ leased' = leased - 1
  /\ IF destroyed
       THEN Goto(t, "releaseDestroy") /\ UNCHANGED <<idle, res>>
       ELSE /\ idle' = Append(idle, res[t])
            /\ Own(t, None)
            /\ Goto(t, "releaseNotify")
  /\ UNCHANGED <<creating, destroyed, waiting, background, live>>

(* Lease::destroy().                                                       *)
DropLease(t) ==
  /\ pc[t] = "holding"
  /\ leased' = leased - 1
  /\ Goto(t, "dropDestroy")
  /\ UNCHANGED <<idle, creating, destroyed, waiting, res, background, live>>

-----------------------------------------------------------------------------
(* Pool::destroy(); a second call returns at once.                         *)
ClosePool ==
  /\ warm = "done" /\ ~destroyed
  /\ destroyed' = TRUE
  /\ doomed' = {idle[i] : i \in 1..Len(idle)}
  /\ idle' = <<>>
  /\ closer' = "notify"
  /\ UNCHANGED <<creating, leased, waiting, pc, res, warm, reaper, expired, live>>

(* Mutant: cv.notify_all is left out of destroy().                         *)
CloseSilently ==
  /\ closer = "notify" /\ closer' = "join"
  /\ UNCHANGED <<counters, waiting, pc, res, warm, reaper, expired, doomed, live>>

CloseNotify ==
  /\ closer = "notify"
  /\ waiting' = {}
  /\ closer' = "join"
  /\ UNCHANGED <<counters, pc, res, warm, reaper, expired, doomed, live>>

CloseJoin ==
  /\ closer = "join" /\ reaper = "exited"
  /\ closer' = "destroy"
  /\ UNCHANGED <<counters, waiting, pc, res, warm, reaper, expired, doomed, live>>

CloseDestroyOne ==
  /\ closer = "destroy"
  /\ \E r \in doomed : doomed' = doomed \ {r} /\ live' = live \ {r}
  /\ UNCHANGED <<counters, waiting, pc, res, warm, reaper, expired, closer>>

-----------------------------------------------------------------------------
(* The reaper thread.  Entries enter idle at the back, stamped under the   *)
(* mutex, so the expired ones are a prefix of idle.                        *)
Removable == IF Len(idle) > MinIdle THEN Len(idle) - MinIdle ELSE 0

Reap ==
  /\ warm = "done" /\ reaper = "sleeping" /\ ~destroyed
  /\ \E n \in 1..Removable :
       /\ expired' = {idle[i] : i \in 1..n}
       /\ idle' = SubSeq(idle, n + 1, Len(idle))
  /\ reaper' = "destroying"
  /\ UNCHANGED <<creating, leased, destroyed, waiting, pc, res, warm, closer, doomed, live>>

ReapDestroyOne ==
  /\ reaper = "destroying"
  /\ \E r \in expired : expired' = expired \ {r} /\ live' = live \ {r}
  /\ UNCHANGED <<counters, waiting, pc, res, warm, reaper, closer, doomed>>

ReapNotify ==
  /\ reaper = "destroying" /\ expired = {}
  /\ waiting' = {}
  /\ reaper' = "sleeping"
  /\ UNCHANGED <<counters, pc, res, warm, expired, closer, doomed, live>>

ReaperExits ==
  /\ reaper = "sleeping" /\ destroyed
  /\ reaper' = "exited"
  /\ UNCHANGED <<counters, waiting, pc, res, warm, expired, closer, doomed, live>>

-----------------------------------------------------------------------------
Acquire(t)  == AcquireRejected(t) \/ AcquireIdle(t) \/ AcquireCreate(t) \/ AcquireWait(t)
Blocked(t)  == WakeUp(t) \/ TimedOut(t)
Validate(t) == ValidateOk(t) \/ ValidateFails(t)
Create(t)   == CreateOk(t) \/ CreateFails(t)
Finish(t)   == NotifyAll(t) \/ NotifyOne(t) \/ DestroyOne(t)
Warm        == WarmReserve \/ WarmCreate
Closing     == CloseNotify \/ CloseJoin \/ CloseDestroyOne
Reaping     == ReapDestroyOne \/ ReapNotify \/ ReaperExits

Next ==
  \/ Warm \/ ClosePool \/ Closing \/ Reap \/ Reaping
  \/ \E t \in Threads :
       \/ Acquire(t) \/ Blocked(t) \/ Validate(t) \/ Create(t) \/ Finish(t)
       \/ SpuriousWakeUp(t) \/ DeadlinePasses(t) \/ Release(t) \/ DropLease(t)

Spec == Init /\ [][Next]_vars

(* Every thread that is inside a pool operation keeps running; nobody is   *)
(* obliged to call acquire() or destroy(), to give a lease back, to reap   *)
(* or to wake up without being notified.                                   *)
Fairness ==
  /\ WF_vars(Warm) /\ WF_vars(Closing) /\ WF_vars(Reaping)
  /\ \A t \in Threads :
       /\ WF_vars(pc[t] = "acquire" /\ Acquire(t))
       /\ WF_vars(Blocked(t)) /\ WF_vars(Validate(t))
       /\ WF_vars(Create(t)) /\ WF_vars(Finish(t))

FairSpec == Spec /\ Fairness

-----------------------------------------------------------------------------
(* Properties.                                                             *)
HoldingAt == {"holding", "createdNotify"}
LeasedAt == {"validating", "holding", "createdNotify"}
CarriesAt == LeasedAt \union {"lateNotify", "lateDestroy", "invalidNotify",
  "invalidDestroy", "threwDestroy", "releaseDestroy", "dropDestroy"}
EmptyAt == {"out", "acquire", "waiting", "timedOut", "creating", "createFailed",
  "threwNotify", "releaseNotify", "dropNotify"}

(* Every variable stays in its C++ type's range.                           *)
TypeOK ==
  /\ idle \in Seq(Resources)
  /\ creating \in Nat /\ leased \in Nat /\ destroyed \in BOOLEAN
  /\ waiting \subseteq Threads
  /\ pc \in [Threads -> CarriesAt \union EmptyAt]
  /\ res \in [Threads -> Resources \union {None}]
  /\ warm \in {"check", "create", "done"}
  /\ reaper \in {"sleeping", "destroying", "exited"}
  /\ closer \in {"open", "notify", "join", "destroy"}
  /\ expired \subseteq Resources /\ doomed \subseteq Resources
  /\ live \subseteq Resources

(* The bookkeeping counters are exact in every interleaving: leased counts *)
(* the threads that own a resource the pool has promised to take back,     *)
(* creating the calls of adapter.create in progress.  Each exit of         *)
(* acquire() (early return, throw, late destroy) must undo its own count.  *)
CountAt(A) == Cardinality({t \in Threads : pc[t] \in A})

CountersExact ==
  /\ leased = CountAt(LeasedAt)
  /\ creating = CountAt({"creating"}) + (IF warm = "create" THEN 1 ELSE 0)

(* "max: maximum live resources, counting idle, leased and currently being *)
(* created resources" (docs/POOLING.md).                                   *)
CapacityRespected == TotalLive <= Max

(* Ownership is linear: a resource that exists is in exactly one place, so *)
(* no connection is leased twice, leaked or destroyed twice.               *)
Places(r) == {<<"idle", i>> : i \in {j \in 1..Len(idle) : idle[j] = r}}
             \union {<<"thread", t>> : t \in {u \in Threads : res[u] = r}}
             \union {<<"reaper", 0>> : x \in expired \intersect {r}}
             \union {<<"closer", 0>> : x \in doomed \intersect {r}}

OnePlaceEach == \A r \in Resources :
  Cardinality(Places(r)) = IF r \in live THEN 1 ELSE 0

(* A dead pool is never refilled, whatever was in flight when it died:     *)
(* leases, validations, creations (docs/POOLING.md, "rather than being     *)
(* reinserted into a dead pool").                                          *)
DeadPoolStaysEmpty == destroyed => idle = <<>>

(* What callers may rely on.  A lease is granted in the critical section   *)
(* that sees the pool still open, so a resource whose validation or        *)
(* creation outlives destroy() is never handed out.                        *)
Contract == INSTANCE BoundedLeases WITH
  Holders <- Threads,
  held    <- [t \in Threads |-> IF pc[t] \in HoldingAt THEN res[t] ELSE None],
  closed  <- destroyed
ImplementsBoundedLeases == Contract!Spec

(* A thread does not sleep for ever while capacity stays available to it.  *)
NoForgottenWaiter == \A t \in Threads :
  (t \in waiting /\ Ready) ~> ~(t \in waiting /\ Ready)

(* Closing the pool empties it: every sleeper returns, and every resource  *)
(* is destroyed except those still leased out.                             *)
ShutdownCompletes ==
  destroyed ~> /\ waiting = {}
               /\ \A r \in live : \E t \in Threads : pc[t] = "holding" /\ res[t] = r
=============================================================================
