------------------------ MODULE PooledExecutorProofs ------------------------
(***************************************************************************)
(* Proofs about module PooledExecutor, for every set of threads, executors *)
(* and connections, every size of the pool and every set of faults.        *)
(***************************************************************************)
EXTENDS PooledExecutor, TLAPS

(* Who is inside an executor, and with what in hand.  A session-mode        *)
(* execute() that borrows a connection does so because its executor has     *)
(* none, and the mutex keeps it that way.                                   *)
Inside ==
  \A c \in Callers :
    /\ at[c] = None <=> pc[c] = "out"
    /\ at[c] # None => at[c] \in alive
    /\ pc[c] \in {"giveBack", "completed"} => local[c] # None
    /\ local[c] # None => pc[c] \in {"execute", "giveBack", "completed"}
    /\ pc[c] = "execute" /\ local[c] # None => lease[at[c]] = None /\ at[c] \notin Sticky

(* The mutex.                                                              *)
OneInside ==
  \A c, d \in Callers : at[c] = at[d] /\ pc[c] \in LockedAt /\ pc[d] \in LockedAt => c = d

(* A connection has one holder.                                            *)
OneHolder ==
  /\ \A x, y \in Executors : lease[x] # None /\ lease[x] = lease[y] => x = y
  /\ \A c, d \in Callers : local[c] # None /\ local[c] = local[d] => c = d
  /\ \A x \in Executors, c \in Callers : lease[x] # None => lease[x] # local[c]

(* An executor keeps a connection for a transaction, because it is sticky,  *)
(* or between the acquire() and the BEGIN of a begin_transaction() that has *)
(* the mutex; and it keeps none once it is destroyed.                       *)
Reasons ==
  \A x \in Executors : lease[x] # None =>
     /\ x \in alive
     /\ x \in Sticky \/ active[x] \/ \E c \in Callers : at[c] = x /\ pc[c] = "begin"

(* The transaction that is open on a connection is its holder's.            *)
Owned ==
  \A x \in Executors :
    /\ active[x] => lease[x] # None /\ conn[lease[x]].tx = x
    /\ \A r \in Conns : conn[r].tx = x => active[x] /\ lease[x] = r

IInv == TypeOK /\ Inside /\ OneInside /\ OneHolder /\ Reasons /\ Owned
        /\ TransactionIsWhole

-----------------------------------------------------------------------------
(* Each variable stays in its range.                                       *)
LEMMA TypeStep == IInv /\ [Next]_vars => TypeOK'
<1> SUFFICES ASSUME IInv, [Next]_vars PROVE TypeOK'
  OBVIOUS
<1> USE PooledExecutorAssumption DEF IInv
<1>1. ASSUME NEW c \in Callers, Call(c) PROVE TypeOK'
  BY <1>1 DEF TypeOK, Call, Enter
<1>2. ASSUME NEW c \in Callers, Rejected(c) PROVE TypeOK'
  BY <1>2 DEF TypeOK, Rejected, Leave
<1>3. ASSUME NEW c \in Callers, AcquirePinned(c) PROVE TypeOK'
  BY <1>3 DEF TypeOK, Inside, AcquirePinned, NeedsPinned
<1>4. ASSUME NEW c \in Callers, AcquireLocal(c) PROVE TypeOK'
  BY <1>4 DEF TypeOK, AcquireLocal
<1>5. ASSUME NEW c \in Callers, AcquireThrows(c) PROVE TypeOK'
  BY <1>5 DEF TypeOK, AcquireThrows, Leave
<1>6. ASSUME NEW c \in Callers, StatementRuns(c) PROVE TypeOK'
  <2>1. Chosen(c) \in Conns
    BY <1>6 DEF StatementRuns, CanRun, Chosen, Pinned, TypeOK, Inside
  <2>2. conn[Chosen(c)].pending + 1 \in 0..MaxStatements
    BY <1>6, <2>1 DEF StatementRuns, TypeOK
  <2>3. [conn[Chosen(c)] EXCEPT !.pending = @ + 1]
          \in [tx : Executors \union {None}, pending : 0..MaxStatements]
    BY <2>1, <2>2 DEF TypeOK
  <2>4. conn' \in [Conns -> [tx : Executors \union {None}, pending : 0..MaxStatements]]
    BY <1>6, <2>1, <2>3 DEF StatementRuns, TypeOK
  <2>5. sent' \in [Executors -> 0..MaxStatements]
    <3>1. at[c] \in Executors
      BY <1>6 DEF StatementRuns, CanRun, Pinned, TypeOK, Inside
    <3>2. sent[at[c]] + 1 \in 0..MaxStatements
      BY <1>6, <3>1 DEF StatementRuns, TypeOK
    <3>3. QED
      BY <1>6, <3>1, <3>2 DEF StatementRuns, TypeOK
  <2>6. pc' \in [Callers -> Ops \union {"out", "giveBack", "completed"}]
        /\ at' \in [Callers -> Executors \union {None}]
    BY <1>6 DEF StatementRuns, StatementEnds, Leave, TypeOK
  <2>7. QED
    BY <1>6, <2>4, <2>5, <2>6 DEF TypeOK, StatementRuns
<1>7. ASSUME NEW c \in Callers, StatementThrows(c) PROVE TypeOK'
  BY <1>7 DEF TypeOK, StatementThrows, StatementEnds, Leave
<1>8. ASSUME NEW c \in Callers, ReturnLocal(c) PROVE TypeOK'
  <2>1. Fresh \in [tx : Executors \union {None}, pending : 0..MaxStatements]
    BY DEF Fresh
  <2>2. QED
    BY <1>8, <2>1 DEF TypeOK, Inside, ReturnLocal, GiveBack, Drop, Leave
<1>9. ASSUME NEW c \in Callers, BeginTransaction(c) PROVE TypeOK'
  <2>1. at[c] \in Executors /\ lease[at[c]] \in Conns
    BY <1>9 DEF BeginTransaction, AtBegin, TypeOK, Inside
  <2>2. [tx |-> at[c], pending |-> 0] \in [tx : Executors \union {None}, pending : 0..MaxStatements]
    BY <2>1
  <2>3. QED
    BY <1>9, <2>1, <2>2 DEF BeginTransaction, Leave, TypeOK
<1>10. ASSUME NEW c \in Callers, BeginThrows(c) PROVE TypeOK'
  <2>1. Fresh \in [tx : Executors \union {None}, pending : 0..MaxStatements]
    BY DEF Fresh
  <2>2. QED
    BY <1>10, <2>1 DEF TypeOK, Inside, BeginThrows, AtBegin, DestroyPinned, Drop, Leave
<1>11. ASSUME NEW c \in Callers, FinishTransaction(c) PROVE TypeOK'
  <2>1. Fresh \in [tx : Executors \union {None}, pending : 0..MaxStatements]
    BY DEF Fresh
  <2>2. QED
    BY <1>11, <2>1 DEF TypeOK, Inside, FinishTransaction, AtFinish, Pinned
<1>12. ASSUME NEW c \in Callers, FinishThrows(c) PROVE TypeOK'
  <2>1. Fresh \in [tx : Executors \union {None}, pending : 0..MaxStatements]
    BY DEF Fresh
  <2>2. QED
    BY <1>12, <2>1 DEF TypeOK, Inside, FinishThrows, AtFinish, Pinned, DestroyPinned, Drop,
                       Leave
<1>13. ASSUME NEW x \in Executors, CreateExecutor(x) PROVE TypeOK'
  BY <1>13 DEF TypeOK, CreateExecutor
<1>14. ASSUME NEW x \in Executors, Dispose(x) PROVE TypeOK'
  <2>1. Fresh \in [tx : Executors \union {None}, pending : 0..MaxStatements]
    BY DEF Fresh
  <2>2. QED
    BY <1>14, <2>1 DEF TypeOK, Inside, Dispose, Drop, GiveBack
<1>15. CASE ClosePool
  BY <1>15 DEF TypeOK, ClosePool
<1>16. CASE UNCHANGED vars
  BY <1>16 DEF TypeOK, vars
<1>17. QED
  BY <1>1, <1>2, <1>3, <1>4, <1>5, <1>6, <1>7, <1>8, <1>9, <1>10, <1>11, <1>12, <1>13,
     <1>14, <1>15, <1>16
     DEF Next, Acquire, Statement, Transact

(* An executor that has somebody inside is not destroyed, and the lease on  *)
(* a caller's stack is there only while execute() or a finished             *)
(* transaction needs it.                                                    *)
LEMMA InsideStep == IInv /\ [Next]_vars => Inside'
<1> SUFFICES ASSUME IInv, [Next]_vars PROVE Inside'
  OBVIOUS
<1> USE PooledExecutorAssumption DEF IInv
<1>1. ASSUME NEW c \in Callers, Call(c) PROVE Inside'
  BY <1>1 DEF TypeOK, Inside, Ops, Call, Enter
<1>2. ASSUME NEW c \in Callers, Rejected(c) PROVE Inside'
  BY <1>2 DEF TypeOK, Inside, Rejected, Leave
<1>3. ASSUME NEW c \in Callers, AcquirePinned(c) PROVE Inside'
  BY <1>3 DEF Inside, OneInside, LockedAt, Ops, AcquirePinned, NeedsPinned
<1>4. ASSUME NEW c \in Callers, AcquireLocal(c) PROVE Inside'
  BY <1>4 DEF Inside, AcquireLocal, NeedsLocal
<1>5. ASSUME NEW c \in Callers, AcquireThrows(c) PROVE Inside'
  BY <1>5 DEF TypeOK, Inside, AcquireThrows, Leave, NeedsPinned, NeedsLocal
<1>6. ASSUME NEW c \in Callers, StatementRuns(c) PROVE Inside'
  BY <1>6 DEF TypeOK, Inside, StatementRuns, StatementEnds, Leave
<1>7. ASSUME NEW c \in Callers, StatementThrows(c) PROVE Inside'
  BY <1>7 DEF TypeOK, Inside, StatementThrows, StatementEnds, Leave
<1>8. ASSUME NEW c \in Callers, ReturnLocal(c) PROVE Inside'
  BY <1>8 DEF TypeOK, Inside, ReturnLocal, Leave
<1>9. ASSUME NEW c \in Callers, BeginTransaction(c) PROVE Inside'
  BY <1>9 DEF TypeOK, Inside, BeginTransaction, AtBegin, Leave
<1>10. ASSUME NEW c \in Callers, BeginThrows(c) PROVE Inside'
  BY <1>10 DEF TypeOK, Inside, BeginThrows, AtBegin, DestroyPinned, Leave
<1>11. ASSUME NEW c \in Callers, FinishTransaction(c) PROVE Inside'
  BY <1>11 DEF TypeOK, Inside, FinishTransaction, AtFinish, Pinned
<1>12. ASSUME NEW c \in Callers, FinishThrows(c) PROVE Inside'
  BY <1>12 DEF TypeOK, Inside, FinishThrows, AtFinish, DestroyPinned, Leave
<1>13. ASSUME NEW x \in Executors, CreateExecutor(x) PROVE Inside'
  BY <1>13 DEF Inside, CreateExecutor
<1>14. ASSUME NEW x \in Executors, Dispose(x) PROVE Inside'
  BY <1>14 DEF Inside, Dispose
<1>15. CASE ClosePool
  BY <1>15 DEF Inside, ClosePool
<1>16. CASE UNCHANGED vars
  BY <1>16 DEF Inside, vars
<1>17. QED
  BY <1>1, <1>2, <1>3, <1>4, <1>5, <1>6, <1>7, <1>8, <1>9, <1>10, <1>11, <1>12, <1>13,
     <1>14, <1>15, <1>16
     DEF Next, Acquire, Statement, Transact

(* Locking the mutex is the only way into an executor.                      *)
LEMMA OneInsideStep == IInv /\ [Next]_vars => OneInside'
<1> SUFFICES ASSUME IInv, [Next]_vars PROVE OneInside'
  OBVIOUS
<1> USE PooledExecutorAssumption DEF IInv
<1>1. ASSUME NEW c \in Callers, Call(c) PROVE OneInside'
  BY <1>1 DEF Inside, OneInside, Locked, Call, Enter
<1>2. ASSUME NEW c \in Callers, Rejected(c) PROVE OneInside'
  BY <1>2 DEF Inside, OneInside, LockedAt, Ops, Rejected, Leave
<1>3. ASSUME NEW c \in Callers, AcquirePinned(c) PROVE OneInside'
  BY <1>3 DEF OneInside, AcquirePinned
<1>4. ASSUME NEW c \in Callers, AcquireLocal(c) PROVE OneInside'
  BY <1>4 DEF OneInside, AcquireLocal
<1>5. ASSUME NEW c \in Callers, AcquireThrows(c) PROVE OneInside'
  BY <1>5 DEF Inside, OneInside, LockedAt, Ops, AcquireThrows, Leave
<1>6. ASSUME NEW c \in Callers, StatementRuns(c) PROVE OneInside'
  BY <1>6 DEF TypeOK, OneInside, LockedAt, Ops, StatementRuns, StatementEnds, CanRun, Leave
<1>7. ASSUME NEW c \in Callers, StatementThrows(c) PROVE OneInside'
  BY <1>7 DEF TypeOK, OneInside, LockedAt, Ops, StatementThrows, StatementEnds, CanRun, Leave
<1>8. ASSUME NEW c \in Callers, ReturnLocal(c) PROVE OneInside'
  BY <1>8 DEF Inside, OneInside, LockedAt, Ops, ReturnLocal, Leave
<1>9. ASSUME NEW c \in Callers, BeginTransaction(c) PROVE OneInside'
  BY <1>9 DEF Inside, OneInside, LockedAt, Ops, BeginTransaction, Leave
<1>10. ASSUME NEW c \in Callers, BeginThrows(c) PROVE OneInside'
  BY <1>10 DEF Inside, OneInside, LockedAt, Ops, BeginThrows, Leave
<1>11. ASSUME NEW c \in Callers, FinishTransaction(c) PROVE OneInside'
  BY <1>11 DEF OneInside, LockedAt, Ops, FinishTransaction
<1>12. ASSUME NEW c \in Callers, FinishThrows(c) PROVE OneInside'
  BY <1>12 DEF Inside, OneInside, LockedAt, Ops, FinishThrows, Leave
<1>13. ASSUME NEW x \in Executors, CreateExecutor(x) PROVE OneInside'
  BY <1>13 DEF OneInside, CreateExecutor
<1>14. ASSUME NEW x \in Executors, Dispose(x) PROVE OneInside'
  BY <1>14 DEF OneInside, Dispose
<1>15. CASE ClosePool
  BY <1>15 DEF OneInside, ClosePool
<1>16. CASE UNCHANGED vars
  BY <1>16 DEF OneInside, vars
<1>17. QED
  BY <1>1, <1>2, <1>3, <1>4, <1>5, <1>6, <1>7, <1>8, <1>9, <1>10, <1>11, <1>12, <1>13,
     <1>14, <1>15, <1>16
     DEF Next, Acquire, Statement, Transact

(* A lease that moves is never copied, and acquire() grants what nobody has. *)
LEMMA OneHolderStep == IInv /\ [Next]_vars => OneHolder'
<1> SUFFICES ASSUME IInv, [Next]_vars PROVE OneHolder'
  OBVIOUS
<1> USE PooledExecutorAssumption DEF IInv
<1>1. ASSUME NEW c \in Callers, Call(c) PROVE OneHolder'
  BY <1>1 DEF OneHolder, Call, Enter
<1>2. ASSUME NEW c \in Callers, Rejected(c) PROVE OneHolder'
  BY <1>2 DEF OneHolder, Rejected
<1>3. ASSUME NEW c \in Callers, AcquirePinned(c) PROVE OneHolder'
  BY <1>3 DEF OneHolder, Grantable, HeldConns, AcquirePinned
<1>4. ASSUME NEW c \in Callers, AcquireLocal(c) PROVE OneHolder'
  BY <1>4 DEF OneHolder, Grantable, HeldConns, AcquireLocal
<1>5. ASSUME NEW c \in Callers, AcquireThrows(c) PROVE OneHolder'
  BY <1>5 DEF OneHolder, AcquireThrows
<1>6. ASSUME NEW c \in Callers, StatementRuns(c) PROVE OneHolder'
  BY <1>6 DEF OneHolder, StatementRuns
<1>7. ASSUME NEW c \in Callers, StatementThrows(c) PROVE OneHolder'
  BY <1>7 DEF OneHolder, StatementThrows
<1>8. ASSUME NEW c \in Callers, ReturnLocal(c) PROVE OneHolder'
  BY <1>8 DEF OneHolder, ReturnLocal
<1>9. ASSUME NEW c \in Callers, BeginTransaction(c) PROVE OneHolder'
  BY <1>9 DEF OneHolder, BeginTransaction
<1>10. ASSUME NEW c \in Callers, BeginThrows(c) PROVE OneHolder'
  BY <1>10 DEF OneHolder, BeginThrows, DestroyPinned
<1>11. ASSUME NEW c \in Callers, FinishTransaction(c) PROVE OneHolder'
  BY <1>11 DEF TypeOK, Inside, OneHolder, FinishTransaction, AtFinish
<1>12. ASSUME NEW c \in Callers, FinishThrows(c) PROVE OneHolder'
  BY <1>12 DEF OneHolder, FinishThrows, DestroyPinned
<1>13. ASSUME NEW x \in Executors, CreateExecutor(x) PROVE OneHolder'
  BY <1>13 DEF OneHolder, CreateExecutor
<1>14. ASSUME NEW x \in Executors, Dispose(x) PROVE OneHolder'
  BY <1>14 DEF OneHolder, Dispose
<1>15. CASE ClosePool
  BY <1>15 DEF OneHolder, ClosePool
<1>16. CASE UNCHANGED vars
  BY <1>16 DEF OneHolder, vars
<1>17. QED
  BY <1>1, <1>2, <1>3, <1>4, <1>5, <1>6, <1>7, <1>8, <1>9, <1>10, <1>11, <1>12, <1>13,
     <1>14, <1>15, <1>16
     DEF Next, Acquire, Statement, Transact

(* Every way an operation ends either leaves a reason to keep the connection *)
(* or gives it away.                                                        *)
LEMMA ReasonsStep == IInv /\ [Next]_vars => Reasons'
<1> SUFFICES ASSUME IInv, [Next]_vars PROVE Reasons'
  OBVIOUS
<1> USE PooledExecutorAssumption DEF IInv
<1>1. ASSUME NEW c \in Callers, Call(c) PROVE Reasons'
  BY <1>1 DEF Reasons, Call, Enter
<1>2. ASSUME NEW c \in Callers, Rejected(c) PROVE Reasons'
  BY <1>2 DEF Reasons, Rejected, Leave
<1>3. ASSUME NEW c \in Callers, AcquirePinned(c) PROVE Reasons'
  BY <1>3 DEF Inside, Reasons, AcquirePinned, NeedsPinned
<1>4. ASSUME NEW c \in Callers, AcquireLocal(c) PROVE Reasons'
  BY <1>4 DEF Reasons, AcquireLocal
<1>5. ASSUME NEW c \in Callers, AcquireThrows(c) PROVE Reasons'
  BY <1>5 DEF Reasons, AcquireThrows, Leave, NeedsPinned, NeedsLocal
<1>6. ASSUME NEW c \in Callers, StatementRuns(c) PROVE Reasons'
  BY <1>6 DEF TypeOK, Reasons, StatementRuns, StatementEnds, CanRun, Leave
<1>7. ASSUME NEW c \in Callers, StatementThrows(c) PROVE Reasons'
  BY <1>7 DEF TypeOK, Reasons, StatementThrows, StatementEnds, CanRun, Leave
<1>8. ASSUME NEW c \in Callers, ReturnLocal(c) PROVE Reasons'
  BY <1>8 DEF Reasons, ReturnLocal, Leave
<1>9. ASSUME NEW c \in Callers, BeginTransaction(c) PROVE Reasons'
  BY <1>9 DEF TypeOK, Reasons, BeginTransaction, Leave
<1>10. ASSUME NEW c \in Callers, BeginThrows(c) PROVE Reasons'
  BY <1>10 DEF TypeOK, Reasons, BeginThrows, DestroyPinned, Leave
<1>11. ASSUME NEW c \in Callers, FinishTransaction(c) PROVE Reasons'
  BY <1>11 DEF TypeOK, Reasons, FinishTransaction
<1>12. ASSUME NEW c \in Callers, FinishThrows(c) PROVE Reasons'
  BY <1>12 DEF TypeOK, Reasons, FinishThrows, DestroyPinned, Leave
<1>13. ASSUME NEW x \in Executors, CreateExecutor(x) PROVE Reasons'
  BY <1>13 DEF Reasons, CreateExecutor
<1>14. ASSUME NEW x \in Executors, Dispose(x) PROVE Reasons'
  BY <1>14 DEF TypeOK, Reasons, Dispose
<1>15. CASE ClosePool
  BY <1>15 DEF Reasons, ClosePool
<1>16. CASE UNCHANGED vars
  BY <1>16 DEF Reasons, vars
<1>17. QED
  BY <1>1, <1>2, <1>3, <1>4, <1>5, <1>6, <1>7, <1>8, <1>9, <1>10, <1>11, <1>12, <1>13,
     <1>14, <1>15, <1>16
     DEF Next, Acquire, Statement, Transact

(* BEGIN, COMMIT and ROLLBACK on a connection come with its becoming and    *)
(* ceasing to be the pinned one.                                            *)
LEMMA OwnedStep == IInv /\ [Next]_vars => Owned'
<1> SUFFICES ASSUME IInv, [Next]_vars PROVE Owned'
  OBVIOUS
<1> USE PooledExecutorAssumption DEF IInv
<1>1. ASSUME NEW c \in Callers, Call(c) PROVE Owned'
  BY <1>1 DEF Owned, Call, Enter
<1>2. ASSUME NEW c \in Callers, Rejected(c) PROVE Owned'
  BY <1>2 DEF Owned, Rejected
<1>3. ASSUME NEW c \in Callers, AcquirePinned(c) PROVE Owned'
  BY <1>3 DEF Owned, AcquirePinned, NeedsPinned
<1>4. ASSUME NEW c \in Callers, AcquireLocal(c) PROVE Owned'
  BY <1>4 DEF Owned, AcquireLocal
<1>5. ASSUME NEW c \in Callers, AcquireThrows(c) PROVE Owned'
  BY <1>5 DEF Owned, AcquireThrows
<1>6. ASSUME NEW c \in Callers, StatementRuns(c) PROVE Owned'
  BY <1>6 DEF Owned, StatementRuns
<1>7. ASSUME NEW c \in Callers, StatementThrows(c) PROVE Owned'
  BY <1>7 DEF Owned, StatementThrows
<1>8. ASSUME NEW c \in Callers, ReturnLocal(c) PROVE Owned'
  BY <1>8 DEF TypeOK, Inside, OneHolder, Owned, Fresh, ReturnLocal, GiveBack, Drop
<1>9. ASSUME NEW c \in Callers, BeginTransaction(c) PROVE Owned'
  BY <1>9 DEF TypeOK, Owned, BeginTransaction, AtBegin
<1>10. ASSUME NEW c \in Callers, BeginThrows(c) PROVE Owned'
  BY <1>10 DEF TypeOK, Inside, OneHolder, Owned, Fresh, BeginThrows, AtBegin, DestroyPinned,
               Drop
<1>11. ASSUME NEW c \in Callers, FinishTransaction(c) PROVE Owned'
  BY <1>11 DEF TypeOK, Inside, Owned, Fresh, Pinned, FinishTransaction, AtFinish, Pinned
<1>12. ASSUME NEW c \in Callers, FinishThrows(c) PROVE Owned'
  BY <1>12 DEF TypeOK, Inside, Owned, Fresh, Pinned, FinishThrows, AtFinish, Pinned,
               DestroyPinned, Drop
<1>13. ASSUME NEW x \in Executors, CreateExecutor(x) PROVE Owned'
  BY <1>13 DEF Owned, CreateExecutor
<1>14. ASSUME NEW x \in Executors, Dispose(x) PROVE Owned'
  BY <1>14 DEF TypeOK, OneHolder, Owned, Fresh, Dispose, Drop, GiveBack
<1>15. CASE ClosePool
  BY <1>15 DEF Owned, ClosePool
<1>16. CASE UNCHANGED vars
  BY <1>16 DEF Owned, vars
<1>17. QED
  BY <1>1, <1>2, <1>3, <1>4, <1>5, <1>6, <1>7, <1>8, <1>9, <1>10, <1>11, <1>12, <1>13,
     <1>14, <1>15, <1>16
     DEF Next, Acquire, Statement, Transact

(* What an active executor runs goes to its pinned connection and nobody    *)
(* else's statements do.                                                    *)
LEMMA WholeStep == IInv /\ [Next]_vars => TransactionIsWhole'
<1> SUFFICES ASSUME IInv, [Next]_vars PROVE TransactionIsWhole'
  OBVIOUS
<1> USE PooledExecutorAssumption DEF IInv
<1>1. ASSUME NEW c \in Callers, Call(c) PROVE TransactionIsWhole'
  BY <1>1 DEF TransactionIsWhole, Call, Enter
<1>2. ASSUME NEW c \in Callers, Rejected(c) PROVE TransactionIsWhole'
  BY <1>2 DEF TransactionIsWhole, Rejected
<1>3. ASSUME NEW c \in Callers, AcquirePinned(c) PROVE TransactionIsWhole'
  BY <1>3 DEF Owned, TransactionIsWhole, AcquirePinned, NeedsPinned
<1>4. ASSUME NEW c \in Callers, AcquireLocal(c) PROVE TransactionIsWhole'
  BY <1>4 DEF TransactionIsWhole, AcquireLocal
<1>5. ASSUME NEW c \in Callers, AcquireThrows(c) PROVE TransactionIsWhole'
  BY <1>5 DEF TransactionIsWhole, AcquireThrows
<1>6. ASSUME NEW c \in Callers, StatementRuns(c) PROVE TransactionIsWhole'
  BY <1>6 DEF TypeOK, Inside, OneHolder, Owned, TransactionIsWhole, Chosen, StatementRuns,
              CanRun
<1>7. ASSUME NEW c \in Callers, StatementThrows(c) PROVE TransactionIsWhole'
  BY <1>7 DEF TransactionIsWhole, StatementThrows
<1>8. ASSUME NEW c \in Callers, ReturnLocal(c) PROVE TransactionIsWhole'
  BY <1>8 DEF TypeOK, OneHolder, Owned, TransactionIsWhole, ReturnLocal, GiveBack, Drop
<1>9. ASSUME NEW c \in Callers, BeginTransaction(c) PROVE TransactionIsWhole'
  BY <1>9 DEF TypeOK, Owned, TransactionIsWhole, BeginTransaction, AtBegin
<1>10. ASSUME NEW c \in Callers, BeginThrows(c) PROVE TransactionIsWhole'
  BY <1>10 DEF TypeOK, Inside, OneHolder, TransactionIsWhole, BeginThrows, AtBegin,
               DestroyPinned, Drop
<1>11. ASSUME NEW c \in Callers, FinishTransaction(c) PROVE TransactionIsWhole'
  BY <1>11 DEF TypeOK, Inside, Owned, TransactionIsWhole, Pinned, FinishTransaction, AtFinish,
               Pinned
<1>12. ASSUME NEW c \in Callers, FinishThrows(c) PROVE TransactionIsWhole'
  BY <1>12 DEF TypeOK, Inside, Owned, TransactionIsWhole, FinishThrows, AtFinish, Pinned,
               DestroyPinned, Drop
<1>13. ASSUME NEW x \in Executors, CreateExecutor(x) PROVE TransactionIsWhole'
  BY <1>13 DEF TransactionIsWhole, CreateExecutor
<1>14. ASSUME NEW x \in Executors, Dispose(x) PROVE TransactionIsWhole'
  BY <1>14 DEF TypeOK, OneHolder, Owned, TransactionIsWhole, Dispose, Drop, GiveBack
<1>15. CASE ClosePool
  BY <1>15 DEF TransactionIsWhole, ClosePool
<1>16. CASE UNCHANGED vars
  BY <1>16 DEF TransactionIsWhole, vars
<1>17. QED
  BY <1>1, <1>2, <1>3, <1>4, <1>5, <1>6, <1>7, <1>8, <1>9, <1>10, <1>11, <1>12, <1>13,
     <1>14, <1>15, <1>16
     DEF Next, Acquire, Statement, Transact

-----------------------------------------------------------------------------
(* Nobody is inside an executor that does not exist yet.                   *)
LEMMA InitHolds == Init => IInv
<1> SUFFICES ASSUME Init PROVE IInv
  OBVIOUS
<1>1. TypeOK
  <2>1. Fresh \in [tx : Executors \union {None}, pending : 0..MaxStatements]
    BY PooledExecutorAssumption DEF Fresh
  <2>2. conn \in [Conns -> [tx : Executors \union {None}, pending : 0..MaxStatements]]
    BY <2>1 DEF Init
  <2>3. 0 \in 0..MaxStatements
    BY PooledExecutorAssumption
  <2>4. QED
    BY <2>2, <2>3 DEF Init, TypeOK
<1>2. Inside /\ OneInside /\ OneHolder /\ Reasons
  BY DEF Init, Inside, OneInside, OneHolder, Reasons, LockedAt, Ops
<1>3. Owned /\ TransactionIsWhole
  BY PooledExecutorAssumption DEF Init, Owned, TransactionIsWhole, Fresh
<1>4. QED
  BY <1>1, <1>2, <1>3 DEF IInv

(* The inductive invariant holds in every reachable state.                 *)
THEOREM ExecutorInvariant == Spec => []IInv
<1>1. IInv /\ [Next]_vars => IInv'
  BY TypeStep, InsideStep, OneInsideStep, OneHolderStep, ReasonsStep, OwnedStep, WholeStep
     DEF IInv
<1>2. QED
  BY <1>1, InitHolds, PTL DEF Spec

(* For any number of threads, executors and connections: a connection has  *)
(* a transaction open exactly while the executor that began it has it      *)
(* pinned, and an executor keeps a connection only for a reason.           *)
THEOREM ExecutorLeasesFollowTransactions == Spec => []LeasesFollowTransactions
<1>1. IInv => LeasesFollowTransactions
  <2> SUFFICES ASSUME IInv, NEW x \in Executors, lease[x] # None
               PROVE x \in Sticky \/ active[x] \/ Locked(x)
    BY DEF IInv, Owned, Reasons, LeasesFollowTransactions
  <2>1. CASE \E c \in Callers : at[c] = x /\ pc[c] = "begin"
    BY <2>1 DEF Locked, LockedAt, Ops
  <2>2. QED
    BY <2>1 DEF IInv, Reasons
<1>2. QED
  BY <1>1, ExecutorInvariant, PTL

(* What a commit makes durable is all the executor ran since it began.     *)
THEOREM ExecutorTransactionIsWhole == Spec => []TransactionIsWhole
<1>1. IInv => TransactionIsWhole
  BY DEF IInv
<1>2. QED
  BY <1>1, ExecutorInvariant, PTL

(* A sticky executor loses its connection only with the executor, or in an *)
(* operation that began or ends a transaction.                             *)
THEOREM ExecutorStickyKeepsLease == Spec => StickyKeepsLease
<1>1. IInv /\ [Next]_vars =>
        [\A x \in Sticky : lease[x] # None /\ lease'[x] # lease[x] =>
           \/ x \notin alive'
           \/ \E c \in Callers : at[c] = x /\ pc[c] \in {"begin", "commit", "rollback"}]_vars
  <2> SUFFICES ASSUME IInv, Next, NEW x \in Sticky, lease[x] # None, lease'[x] # lease[x]
               PROVE \/ x \notin alive'
                     \/ \E c \in Callers : at[c] = x /\ pc[c] \in {"begin", "commit", "rollback"}
    OBVIOUS
  <2> x \in Executors
    BY PooledExecutorAssumption
  <2>1. ASSUME NEW c \in Callers, AcquirePinned(c) PROVE FALSE
    BY <2>1 DEF IInv, TypeOK, AcquirePinned, NeedsPinned
  <2>2. ASSUME NEW c \in Callers, Transact(c)
        PROVE at[c] = x /\ pc[c] \in {"begin", "commit", "rollback"}
    BY <2>2 DEF IInv, TypeOK, Transact, BeginTransaction, BeginThrows, FinishTransaction,
                FinishThrows,
                AtBegin, AtFinish, DestroyPinned
  <2>3. ASSUME NEW y \in Executors, Dispose(y) PROVE x \notin alive'
    BY <2>3 DEF IInv, TypeOK, Dispose
  <2>4. CASE UNCHANGED lease
    BY <2>4
  <2>5. QED
    BY <2>1, <2>2, <2>3, <2>4
       DEF Next, Call, Enter, Rejected, Acquire, AcquireLocal, AcquireThrows, Statement, StatementRuns,
           StatementThrows, ReturnLocal, CreateExecutor, ClosePool
<1>2. QED
  BY <1>1, ExecutorInvariant, PTL DEF Spec, StickyKeepsLease

-----------------------------------------------------------------------------
(* The leases as the contract sees them.                                   *)
Holders == Executors \union Callers
Held    == [h \in Holders |-> IF h \in Executors THEN lease[h] ELSE local[h]]

(* The contract sees the leases as they are.                               *)
LEMMA HeldValues ==
  ASSUME IInv
  PROVE  /\ \A x \in Executors : Held[x] = lease[x]
         /\ \A c \in Callers : Held[c] = local[c]
         /\ Contract!Leased = LeasesOut
  BY PooledExecutorAssumption DEF Held, Holders, Contract!Leased, LeasesOut

(* A lease that changes in one place changes there in Held.                *)
LEMMA HeldOfCaller ==
  ASSUME TypeOK, NEW c \in Callers, NEW r, local' = [local EXCEPT ![c] = r], UNCHANGED lease
  PROVE  Held' = [Held EXCEPT ![c] = r]
  BY PooledExecutorAssumption DEF Held, Holders, TypeOK

LEMMA HeldOfExecutor ==
  ASSUME TypeOK, NEW x \in Executors, NEW r, lease' = [lease EXCEPT ![x] = r], UNCHANGED local
  PROVE  Held' = [Held EXCEPT ![x] = r]
  BY PooledExecutorAssumption DEF Held, Holders, TypeOK

(* The contract counts as the executors do.                                *)
LEMMA SameCardinality == \A S : Contract!Cardinality(S) = Cardinality(S)
  BY DEF Contract!Cardinality, Cardinality

(* The steps of the contract, in terms of Held: a lease that is granted.   *)
LEMMA ContractGrant ==
  ASSUME NEW h \in Holders, NEW r \in Conns, ~closed, Held[h] = None,
         \A other \in Holders : Held[other] # r, Cardinality(Contract!Leased) < Max,
         Held' = [Held EXCEPT ![h] = r], UNCHANGED closed
  PROVE  Contract!Next
<1>1. Contract!Grant(h, r)
  BY SameCardinality, Zenon DEF Contract!Grant, Held, Holders
<1>2. QED
  BY <1>1 DEF Contract!Next, Holders

(* A lease that comes back.                                                *)
LEMMA ContractReturn ==
  ASSUME NEW h \in Holders, Held[h] # None, Held' = [Held EXCEPT ![h] = None], UNCHANGED closed
  PROVE  Contract!Next
<1>1. Contract!Return(h)
  BY Zenon DEF Contract!Return, Held, Holders
<1>2. QED
  BY <1>1 DEF Contract!Next, Holders

(* A lease that changes hands.                                             *)
LEMMA ContractMove ==
  ASSUME NEW g \in Holders, NEW h \in Holders, Held[g] # None, Held[h] = None,
         Held' = [Held EXCEPT ![h] = Held[g], ![g] = None], UNCHANGED closed
  PROVE  Contract!Next
<1>1. Contract!Move(g, h)
  BY Zenon DEF Contract!Move, Held, Holders
<1>2. QED
  BY <1>1 DEF Contract!Next, Holders

(* A connection that acquire() grants an executor or a call.               *)
LEMMA GrantStep ==
  ASSUME IInv, NEW h \in Holders, NEW r \in Conns, Grantable(r), Held[h] = None,
         Held' = [Held EXCEPT ![h] = r], UNCHANGED closed
  PROVE  Contract!Next
<1>1. \A other \in Holders : Held[other] # r
  BY PooledExecutorAssumption DEF Grantable, HeldConns, Held, Holders
<1>2. ~closed /\ Cardinality(Contract!Leased) < Max
  BY HeldValues DEF Grantable
<1>3. QED
  BY <1>1, <1>2, ContractGrant

(* Each way a lease moves is a step of the contract.                       *)
LEMMA ContractStep == IInv /\ [Next]_vars => [Contract!Next]_(Contract!vars)
<1> SUFFICES ASSUME IInv, [Next]_vars PROVE [Contract!Next]_(Contract!vars)
  OBVIOUS
<1> USE PooledExecutorAssumption
<1>1. CASE UNCHANGED <<lease, local, closed>>
  BY <1>1 DEF Contract!vars
<1>2. ASSUME NEW c \in Callers, AcquireLocal(c) PROVE Contract!Next
  <2>1. PICK r \in Conns : Grantable(r) /\ local' = [local EXCEPT ![c] = r]
    BY <1>2 DEF AcquireLocal
  <2>2. Held' = [Held EXCEPT ![c] = r] /\ Held[c] = None
    BY <1>2, <2>1, HeldOfCaller, HeldValues DEF AcquireLocal, NeedsLocal, IInv
  <2>3. QED
    BY <1>2, <2>1, <2>2, GrantStep DEF AcquireLocal, Holders
<1>3. ASSUME NEW c \in Callers, AcquirePinned(c) PROVE Contract!Next
  <2>1. PICK r \in Conns : Grantable(r) /\ lease' = [lease EXCEPT ![at[c]] = r]
    BY <1>3 DEF AcquirePinned
  <2>2. at[c] \in Executors
    BY <1>3 DEF AcquirePinned, NeedsPinned, IInv, Inside, TypeOK
  <2>3. Held' = [Held EXCEPT ![at[c]] = r] /\ Held[at[c]] = None
    BY <1>3, <2>1, <2>2, HeldOfExecutor, HeldValues DEF AcquirePinned, NeedsPinned, IInv
  <2>4. QED
    BY <1>3, <2>1, <2>2, <2>3, GrantStep DEF AcquirePinned, Holders
<1>4. ASSUME NEW c \in Callers, ReturnLocal(c) PROVE Contract!Next
  <2>1. Held' = [Held EXCEPT ![c] = None] /\ Held[c] # None
    BY <1>4, HeldOfCaller, HeldValues DEF ReturnLocal, IInv, Inside
  <2>2. QED
    BY <1>4, <2>1, ContractReturn DEF ReturnLocal, Holders
<1>5. ASSUME NEW x \in Executors, lease[x] # None,
             lease' = [lease EXCEPT ![x] = None], UNCHANGED <<local, closed>>
      PROVE  Contract!Next
  <2>1. Held' = [Held EXCEPT ![x] = None] /\ Held[x] # None
    BY <1>5, HeldOfExecutor, HeldValues DEF IInv
  <2>2. QED
    BY <1>5, <2>1, ContractReturn DEF Holders
<1>6. ASSUME NEW c \in Callers, BeginThrows(c) \/ FinishThrows(c) PROVE Contract!Next
  <2>1. at[c] \in Executors
    BY <1>6 DEF BeginThrows, FinishThrows, AtBegin, AtFinish, IInv, Inside, TypeOK
  <2>2. QED
    BY <1>5, <1>6, <2>1 DEF BeginThrows, FinishThrows, AtBegin, AtFinish, Pinned, DestroyPinned
<1>7. ASSUME NEW c \in Callers, FinishTransaction(c) PROVE Contract!Next
  <2>1. at[c] \in Executors /\ lease[at[c]] # None /\ local[c] = None
    BY <1>7 DEF FinishTransaction, AtFinish, Pinned, IInv, Inside, TypeOK
  <2>2. Held[at[c]] = lease[at[c]] /\ Held[c] = None
    BY <2>1, HeldValues
  <2>3. Held' = [Held EXCEPT ![c] = Held[at[c]], ![at[c]] = None]
    BY ZenonT(60), <1>7, <2>1, <2>2 DEF FinishTransaction, Held, Holders, IInv, TypeOK
  <2>4. QED
    BY <1>7, <2>1, <2>2, <2>3, ContractMove DEF FinishTransaction, Holders
<1>8. ASSUME NEW x \in Executors, Dispose(x) PROVE [Contract!Next]_(Contract!vars)
  <2>1. CASE lease[x] = None
    BY <1>1, <1>8, <2>1 DEF Dispose, IInv, TypeOK
  <2>2. CASE lease[x] # None
    BY <1>5, <1>8, <2>2 DEF Dispose
  <2>3. QED
    BY <2>1, <2>2
<1>9. CASE ClosePool
  BY <1>9 DEF ClosePool, Contract!Next, Contract!Close
<1>10. ASSUME NEW c \in Callers,
              Call(c) \/ Rejected(c) \/ AcquireThrows(c) \/ StatementRuns(c) \/ StatementThrows(c)
              \/ BeginTransaction(c)
       PROVE  UNCHANGED <<lease, local, closed>>
  BY <1>10 DEF Call, Enter, Rejected, AcquireThrows, StatementRuns, StatementThrows,
               BeginTransaction
<1>11. ASSUME NEW x \in Executors, CreateExecutor(x) PROVE UNCHANGED <<lease, local, closed>>
  BY <1>11 DEF CreateExecutor
<1>12. CASE UNCHANGED vars
  BY <1>1, <1>12 DEF vars
<1>13. CASE Next
  BY <1>1, <1>2, <1>3, <1>4, <1>6, <1>7, <1>8, <1>9, <1>10, <1>11, <1>13, Zenon
     DEF Next, Acquire, Statement, Transact
<1>14. QED
  BY <1>12, <1>13

(* Whatever the executors do, they ask of the pool only what its contract  *)
(* grants: each lease has one owner, and moves or comes back once.         *)
THEOREM ExecutorUsesBoundedLeases == Spec => UsesBoundedLeases
<1>1. Init => Contract!Init
  BY DEF Init, Contract!Init
<1>2. QED
  BY <1>1, ContractStep, ExecutorInvariant, PTL DEF Spec, UsesBoundedLeases, Contract!Spec
=============================================================================
