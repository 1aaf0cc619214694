--------------------------- MODULE PooledExecutor ---------------------------
(***************************************************************************)
(* metal::PooledExecutor (include/metal/pooling.hpp, src/pooled_executor   *)
(* .cpp): executors that borrow connections from one pool.  A session-mode *)
(* executor borrows one for each statement and pins one for a transaction; *)
(* a sticky one keeps its connection between calls.  The pool itself is    *)
(* taken at its word, the contract of module BoundedLeases, which module   *)
(* Pool is checked to implement.  Each executor has a mutex, so a step is  *)
(* one call into the pool or into the connection.                          *)
(***************************************************************************)
EXTENDS Naturals, FiniteSets

CONSTANTS Callers,        \* threads that call executors
          Executors,
          Sticky,         \* the executors in sticky mode
          Conns,          \* physical connections
          None,
          Max,            \* PoolOptions::max
          MaxStatements,  \* bound: statements counted in one transaction
          Faults          \* which calls may throw: a subset of CallFaults

CallFaults == {"acquire", "execute", "begin", "finish"}

ASSUME PooledExecutorAssumption ==
  /\ Callers \intersect Executors = {} /\ Sticky \subseteq Executors
  /\ None \notin Conns \union Executors \union Callers
  /\ Max \in Nat \ {0} /\ MaxStatements \in Nat
  /\ Faults \subseteq CallFaults

VARIABLES
  lease,      \* lease_ of each executor
  active,     \* transaction_active_ of each executor
  local,      \* the lease on each caller's stack: `lease' or `completed'
  pc, at,     \* where each caller is, and in which executor
  alive,      \* the executors that have been created and not destroyed
  closed,     \* the pool has been destroyed
  conn,       \* state of each connection: [tx, pending]
  sent        \* history: statements each executor ran since it began

vars == <<lease, active, local, pc, at, alive, closed, conn, sent>>

Ops   == {"execute", "savepoint", "begin", "commit", "rollback"}
Fresh == [tx |-> None, pending |-> 0]

Init ==
  /\ lease = [x \in Executors |-> None] /\ active = [x \in Executors |-> FALSE]
  /\ local = [c \in Callers |-> None]
  /\ pc = [c \in Callers |-> "out"] /\ at = [c \in Callers |-> None]
  /\ alive = {} /\ closed = FALSE
  /\ conn = [r \in Conns |-> Fresh] /\ sent = [x \in Executors |-> 0]

-----------------------------------------------------------------------------
(* Helpers.                                                                *)
LockedAt  == Ops \union {"giveBack"}
NoMutex(x) == FALSE                           \* mutant: the lock is left out
Locked(x) == \E c \in Callers : at[c] = x /\ pc[c] \in LockedAt

HeldConns   == {lease[x] : x \in Executors} \union {local[c] : c \in Callers}
LeasesOut   == {x \in Executors : lease[x] # None} \union {c \in Callers : local[c] # None}
Grantable(r) == ~closed /\ r \notin HeldConns /\ Cardinality(LeasesOut) < Max

Leave(c) == pc' = [pc EXCEPT ![c] = "out"] /\ at' = [at EXCEPT ![c] = None]

(* Lease::destroy closes the connection, and so does Lease::release when   *)
(* the pool is dead; a closed connection's identity may be used again.     *)
Drop(r)     == conn' = [conn EXCEPT ![r] = Fresh]
GiveBack(r) == IF closed THEN Drop(r) ELSE UNCHANGED conn

Pinned(x) == active[x] /\ lease[x] # None

-----------------------------------------------------------------------------
(* A caller takes the executor's mutex.                                    *)
Enter(c, x, op) ==
  /\ pc[c] = "out" /\ x \in alive /\ ~Locked(x)
  /\ pc' = [pc EXCEPT ![c] = op] /\ at' = [at EXCEPT ![c] = x]
  /\ UNCHANGED <<lease, active, local, alive, closed, conn, sent>>

(* The guards at the top of the operations throw; rollback_transaction     *)
(* just returns.                                                           *)
Rejected(c) ==
  /\ \/ pc[c] = "begin" /\ active[at[c]]
     \/ pc[c] \in {"commit", "rollback", "savepoint"} /\ ~Pinned(at[c])
  /\ Leave(c)
  /\ UNCHANGED <<lease, active, local, alive, closed, conn, sent>>

(* Who needs a connection: ensure_persistent_executor_locked() for itself, *)
(* execute() in session mode for this one call.                            *)
NeedsPinned(c) ==
  /\ \/ pc[c] = "begin" /\ ~active[at[c]]
     \/ pc[c] = "execute" /\ at[c] \in Sticky
  /\ lease[at[c]] = None
NeedsLocal(c) ==
  /\ pc[c] = "execute" /\ at[c] \notin Sticky
  /\ lease[at[c]] = None /\ local[c] = None

AcquirePinned(c) ==
  /\ NeedsPinned(c)
  /\ \E r \in Conns : Grantable(r) /\ lease' = [lease EXCEPT ![at[c]] = r]
  /\ UNCHANGED <<active, local, pc, at, alive, closed, conn, sent>>

AcquireLocal(c) ==
  /\ NeedsLocal(c)
  /\ \E r \in Conns : Grantable(r) /\ local' = [local EXCEPT ![c] = r]
  /\ UNCHANGED <<lease, active, pc, at, alive, closed, conn, sent>>

AcquireThrows(c) ==
  /\ NeedsPinned(c) \/ NeedsLocal(c)
  /\ closed \/ "acquire" \in Faults
  /\ Leave(c)
  /\ UNCHANGED <<lease, active, local, alive, closed, conn, sent>>

-----------------------------------------------------------------------------
(* One statement on the chosen connection.                                 *)
Chosen(c) == IF local[c] # None THEN local[c] ELSE lease[at[c]]

CanRun(c) ==
  /\ \/ pc[c] = "execute" /\ Chosen(c) # None
     \/ pc[c] = "savepoint" /\ Pinned(at[c])

(* execute() returns or throws; the temporary lease is given back first.   *)
StatementEnds(c) ==
  IF local[c] = None THEN Leave(c)
                     ELSE pc' = [pc EXCEPT ![c] = "giveBack"] /\ UNCHANGED at

StatementRuns(c) ==
  /\ CanRun(c)
  /\ LET r == Chosen(c)
         x == at[c] IN
     /\ conn[r].pending < MaxStatements /\ sent[x] < MaxStatements
     /\ conn' = IF conn[r].tx = None THEN conn
                ELSE [conn EXCEPT ![r].pending = @ + 1]
     /\ sent' = IF active[x] THEN [sent EXCEPT ![x] = @ + 1] ELSE sent
  /\ StatementEnds(c)
  /\ UNCHANGED <<lease, active, local, alive, closed>>

(* Mutant: a statement that fails costs the executor its connection.       *)
FailureDropsLease(c) ==
  /\ CanRun(c) /\ "execute" \in Faults /\ local[c] = None
  /\ Drop(lease[at[c]]) /\ lease' = [lease EXCEPT ![at[c]] = None]
  /\ active' = [active EXCEPT ![at[c]] = FALSE] /\ sent' = [sent EXCEPT ![at[c]] = 0]
  /\ Leave(c) /\ UNCHANGED <<local, alive, closed>>

StatementThrows(c) ==
  /\ CanRun(c) /\ "execute" \in Faults
  /\ StatementEnds(c)
  /\ UNCHANGED <<lease, active, local, alive, closed, conn, sent>>

(* The lease on the stack goes back: the temporary one of execute(), with  *)
(* the mutex held, or `completed', after the mutex was released.           *)
ReturnLocal(c) ==
  /\ pc[c] \in {"giveBack", "completed"}
  /\ GiveBack(local[c])
  /\ local' = [local EXCEPT ![c] = None]
  /\ Leave(c)
  /\ UNCHANGED <<lease, active, alive, closed, sent>>

-----------------------------------------------------------------------------
(* Transactions.                                                           *)
AtBegin(c) == pc[c] = "begin" /\ ~active[at[c]] /\ lease[at[c]] # None

BeginTransaction(c) ==
  LET x == at[c] IN
  /\ AtBegin(c)
  /\ conn[lease[x]].tx = None
  /\ conn' = [conn EXCEPT ![lease[x]] = [tx |-> x, pending |-> 0]]
  /\ active' = [active EXCEPT ![x] = TRUE]
  /\ sent' = [sent EXCEPT ![x] = 0]
  /\ Leave(c)
  /\ UNCHANGED <<lease, local, alive, closed>>

(* Mutant: the connection is released instead of destroyed.                *)
ReleasePinned(x) ==
  /\ GiveBack(lease[x]) /\ lease' = [lease EXCEPT ![x] = None]
  /\ active' = [active EXCEPT ![x] = FALSE] /\ sent' = [sent EXCEPT ![x] = 0]

(* destroy_persistent_lease_locked().                                      *)
DestroyPinned(x) ==
  /\ Drop(lease[x])
  /\ lease' = [lease EXCEPT ![x] = None]
  /\ active' = [active EXCEPT ![x] = FALSE]
  /\ sent' = [sent EXCEPT ![x] = 0]

BeginThrows(c) ==
  /\ AtBegin(c)
  /\ "begin" \in Faults \/ conn[lease[at[c]]].tx # None
  /\ DestroyPinned(at[c])
  /\ Leave(c)
  /\ UNCHANGED <<local, alive, closed>>

AtFinish(c) == pc[c] \in {"commit", "rollback"} /\ Pinned(at[c])

(* Mutant: lease_ is not reset after it was moved from.                    *)
FinishKeepsLease(c) ==
  LET x == at[c] IN
  /\ AtFinish(c)
  /\ conn' = [conn EXCEPT ![lease[x]] = Fresh]
  /\ active' = [active EXCEPT ![x] = FALSE] /\ sent' = [sent EXCEPT ![x] = 0]
  /\ local' = [local EXCEPT ![c] = lease[x]]
  /\ pc' = [pc EXCEPT ![c] = "completed"]
  /\ UNCHANGED <<lease, at, alive, closed>>

(* COMMIT or ROLLBACK succeeds and the lease moves to the caller's stack.  *)
FinishTransaction(c) ==
  LET x == at[c] IN
  /\ AtFinish(c)
  /\ conn' = [conn EXCEPT ![lease[x]] = Fresh]
  /\ active' = [active EXCEPT ![x] = FALSE]
  /\ sent' = [sent EXCEPT ![x] = 0]
  /\ local' = [local EXCEPT ![c] = lease[x]]
  /\ lease' = [lease EXCEPT ![x] = None]
  /\ pc' = [pc EXCEPT ![c] = "completed"]
  /\ UNCHANGED <<at, alive, closed>>

FinishThrows(c) ==
  /\ AtFinish(c) /\ "finish" \in Faults
  /\ DestroyPinned(at[c])
  /\ Leave(c)
  /\ UNCHANGED <<local, alive, closed>>

-----------------------------------------------------------------------------
(* ~PooledExecutor(); nobody may be inside the object any more.            *)
Dispose(x) ==
  /\ x \in alive
  /\ \A c \in Callers : at[c] # x
  /\ alive' = alive \ {x}
  /\ lease' = [lease EXCEPT ![x] = None]
  /\ active' = [active EXCEPT ![x] = FALSE]
  /\ sent' = [sent EXCEPT ![x] = 0]
  /\ IF lease[x] = None THEN UNCHANGED conn
     ELSE IF active[x] THEN Drop(lease[x])   \* rolled back, or destroyed
     ELSE GiveBack(lease[x])
  /\ UNCHANGED <<local, pc, at, closed>>

(* PooledExecutorFactory::create_executor(), create_transactional_executor(). *)
CreateExecutor(x) ==
  /\ x \notin alive
  /\ alive' = alive \union {x}
  /\ UNCHANGED <<lease, active, local, pc, at, closed, conn, sent>>

(* PooledExecutorFactory::destroy().                                       *)
ClosePool ==
  /\ ~closed /\ closed' = TRUE
  /\ UNCHANGED <<lease, active, local, pc, at, alive, conn, sent>>

-----------------------------------------------------------------------------
Call(c)      == \E x \in Executors, op \in Ops : Enter(c, x, op)
Acquire(c)   == AcquirePinned(c) \/ AcquireLocal(c) \/ AcquireThrows(c)
Statement(c) == StatementRuns(c) \/ StatementThrows(c) \/ ReturnLocal(c)
Transact(c)  == BeginTransaction(c) \/ BeginThrows(c)
                \/ FinishTransaction(c) \/ FinishThrows(c)

Next ==
  \/ \E c \in Callers :
       Call(c) \/ Rejected(c) \/ Acquire(c) \/ Statement(c) \/ Transact(c)
  \/ \E x \in Executors : CreateExecutor(x) \/ Dispose(x)
  \/ ClosePool

Spec == Init /\ [][Next]_vars

-----------------------------------------------------------------------------
(* Properties.                                                             *)

(* Every variable stays in its range.                                      *)
TypeOK ==
  /\ lease \in [Executors -> Conns \union {None}] /\ active \in [Executors -> BOOLEAN]
  /\ local \in [Callers -> Conns \union {None}]
  /\ pc \in [Callers -> Ops \union {"out", "giveBack", "completed"}]
  /\ at \in [Callers -> Executors \union {None}]
  /\ alive \subseteq Executors /\ closed \in BOOLEAN
  /\ conn \in [Conns -> [tx : Executors \union {None}, pending : 0..MaxStatements]]
  /\ sent \in [Executors -> 0..MaxStatements]

(* A connection has a transaction open exactly while the executor that     *)
(* began it has the connection pinned and believes it is in a transaction:  *)
(* two executors never share one, none goes back to the pool with one open  *)
(* ("a failed begin/commit/rollback destroys the pinned connection instead *)
(* of returning an unknown transaction state to the pool", docs/POOLING.md), *)
(* and apart from sticky ones an executor keeps a connection only for a     *)
(* transaction or a call, however its last operation failed.               *)
LeasesFollowTransactions == \A x \in Executors :
  /\ active[x] => lease[x] # None /\ conn[lease[x]].tx = x
  /\ \A r \in Conns : conn[r].tx = x => active[x] /\ lease[x] = r
  /\ lease[x] # None => x \in alive /\ (x \in Sticky \/ active[x] \/ Locked(x))

(* "every query/savepoint inside that transaction uses the same underlying *)
(* connection": what a commit makes durable is all the executor ran since  *)
(* it began, and nothing another executor ran.                             *)
TransactionIsWhole ==
  \A x \in Executors : active[x] => conn[lease[x]].pending = sent[x]

(* "It retains one lease across calls until commit, rollback or executor   *)
(* destruction": no other step takes a sticky executor's connection away,  *)
(* apart from a BEGIN that fails.                                          *)
StickyKeepsLease ==
  [][\A x \in Sticky : lease[x] # None /\ lease'[x] # lease[x] =>
       \/ x \notin alive'
       \/ \E c \in Callers : at[c] = x /\ pc[c] \in {"begin", "commit", "rollback"}]_vars

(* The executors use the pool as its contract allows.                      *)
Contract == INSTANCE BoundedLeases WITH
  Holders   <- Executors \union Callers,
  Resources <- Conns,
  held      <- [h \in Executors \union Callers |-> IF h \in Executors THEN lease[h] ELSE local[h]]
UsesBoundedLeases == Contract!Spec
=============================================================================
