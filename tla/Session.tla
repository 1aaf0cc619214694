------------------------------- MODULE Session -------------------------------
(***************************************************************************)
(* metal::Session (include/metal/orm.hpp) with its unit of work, identity  *)
(* map, checkpoints and domain events, over one database connection.       *)
(* Everything runs on one thread: the user's code calls the session, the   *)
(* session calls hooks and event handlers, which are user's code again,    *)
(* and every database statement, hook and handler may throw.  Entities are *)
(* rows of one mapped table with a generated key and one data column.      *)
(***************************************************************************)
EXTENDS Naturals, Sequences, FiniteSets

CONSTANTS
  Entities,     \* C++ objects the user's code can hold
  Keys, NoKey,  \* primary keys; NoKey is the empty generated key (0)
  Vals, NoVal,  \* values of the data column; NoVal: no original snapshot
  NoEntity, NoEntry, NoTx,
  MaxDepth,     \* bound: nesting of transaction() callbacks
  MaxSavepoints,\* bound: savepoints taken inside one outermost scope
  MaxEvents,    \* bound: domain events raised
  Faults,       \* what may fail: a subset of FaultKinds
  Calls         \* optional user calls: a subset of CallKinds

FaultKinds == {"begin", "savepoint", "rollbackTo", "statement", "commit", "hook", "handler"}
CallKinds  == {"actInHooks", "reviveNew", "reattach",
               "rollback", "rollbackInScope", "clear", "clearInScope"}

ASSUME SessionAssumption ==
  /\ NoKey \notin Keys /\ NoVal \notin Vals /\ NoEntity \notin Entities
  /\ NoTx \notin [Keys -> Vals \union {NoVal}]
  /\ NoEntry \notin [existed : BOOLEAN,
                     rec : [status : {"Untracked", "New", "Managed", "Removed"}, orig : Vals \union {NoVal}],
                     obj : [pk : Keys \union {NoKey}, val : Vals, events : Seq(Nat)]]
  /\ MaxDepth \in Nat /\ MaxSavepoints \in Nat /\ MaxEvents \in Nat
  /\ Faults \subseteq FaultKinds /\ Calls \subseteq CallKinds

VARIABLES
  rows,         \* the table as this connection sees it: key -> value or NoVal
  base,         \* the table when the open transaction began, or NoTx
  saves,        \* the open savepoints: sequence of [name, rows]
  obj,          \* the entities' members: [pk, val, events]
  tracked,      \* UnitOfWork::tracked_: [status, orig]
  order,        \* UnitOfWork::tracked_order_
  checkpoints,  \* UnitOfWork::checkpoints_: sequence of [entries, order]
  idmap,        \* Session::identity_map_
  depth, rollbackOnly, spCounter,  \* the session's transaction members
  frames,       \* C++ activations of transaction() and commit()
  pc, todo, round, current,        \* the flush or dispatch in progress
  nextEvent,    \* events raised so far
  voided,       \* history: events raised in scopes that were rolled back
  delivered,    \* history: events passed to a handler
  innerFailed   \* history: an inner scope of the running transaction failed

db      == <<rows, base, saves>>
uow     == <<tracked, order, checkpoints>>
txState == <<depth, rollbackOnly, spCounter>>
control == <<frames, pc, todo, round, current>>
history == <<nextEvent, voided, delivered, innerFailed>>
vars    == <<db, obj, uow, idmap, txState, control, history>>

-----------------------------------------------------------------------------
(* Helpers.                                                                *)
Untracked == [status |-> "Untracked", orig |-> NoVal]
IsTracked(e) == tracked[e].status # "Untracked"
Positions(s) == 1..Len(s)
LastOf(s)    == s[Len(s)]
Pop(s)       == SubSeq(s, 1, Len(s) - 1)
(* std::erase: what is left of s, read from the front.                     *)
Without(s, e) ==
  LET kept[n \in 0..Len(s)] ==
        IF n = 0 THEN <<>>
        ELSE IF s[n] = e THEN kept[n - 1] ELSE Append(kept[n - 1], s[n])
  IN kept[Len(s)]
Outermost    == depth = 0

(* capture_entry(): the tracking record, the columns and the event queue.  *)
(* Mutant: the current values are captured as the original snapshot.       *)
EntryOfNow(existed, rec, o) ==
  [existed |-> existed, rec |-> [rec EXCEPT !.orig = o.val], obj |-> o]

Entry(existed, rec, o) == [existed |-> existed, rec |-> rec, obj |-> o]

(* begin_checkpoint().                                                     *)
NewCheckpoint ==
  [entries |-> [e \in Entities |-> IF IsTracked(e) THEN Entry(TRUE, tracked[e], obj[e])
                                                   ELSE NoEntry],
   order   |-> order]

NotRebuilt(o, ord) == idmap                   \* mutant: no rebuild_identity_map()
(* rebuild_identity_map(): the last entity in the order wins its key.      *)
Rebuilt(o, ord) ==
  [k \in Keys |->
     LET at == {i \in Positions(ord) : o[ord[i]].pk = k}
     IN IF at = {} THEN NoEntity
        ELSE ord[CHOOSE i \in at : \A j \in at : j <= i]]

(* What is remembered, for the properties only, when a scope opens.        *)
Snapshot == [rows |-> rows, obj |-> obj, tracked |-> tracked, order |-> order,
             idmap |-> idmap, next |-> nextEvent]

Frame(kind, outermost, sp) ==
  [kind |-> kind, outermost |-> outermost, sp |-> sp, begin |-> Snapshot]

(* Where user code runs: between session calls, and inside hooks.          *)
HookAt == {"beforeInsert", "beforeUpdate", "beforeDelete", "afterHook"}
UserTurn == pc = "user" \/ (pc \in HookAt /\ "actInHooks" \in Calls)

Init ==
  /\ rows \in [Keys -> Vals \union {NoVal}]
  /\ base = NoTx /\ saves = <<>>
  /\ obj \in [Entities -> [pk : {NoKey}, val : Vals, events : {<<>>}]]
  /\ tracked = [e \in Entities |-> Untracked]
  /\ order = <<>> /\ checkpoints = <<>>
  /\ idmap = [k \in Keys |-> NoEntity]
  /\ depth = 0 /\ rollbackOnly = FALSE /\ spCounter = 0
  /\ frames = <<>> /\ pc = "user" /\ todo = <<>> /\ round = 0 /\ current = NoVal
  /\ nextEvent = 0 /\ voided = {} /\ delivered = {} /\ innerFailed = FALSE

-----------------------------------------------------------------------------
(* Mutant: open checkpoints do not learn of the new entity.                *)
TrackUnseen(e, o, rec) ==
  /\ tracked' = [tracked EXCEPT ![e] = rec]
  /\ order' = IF IsTracked(e) THEN order ELSE Append(order, e)
  /\ idmap' = IF o.pk = NoKey THEN idmap ELSE [idmap EXCEPT ![o.pk] = e]
  /\ UNCHANGED checkpoints

(* track(): captured into every open checkpoint as not existing before.    *)
Track(e, o, rec) ==
  /\ checkpoints' = [i \in Positions(checkpoints) |->
       IF checkpoints[i].entries[e] = NoEntry
         THEN [checkpoints[i] EXCEPT !.entries[e] = Entry(FALSE, rec, o)]
         ELSE checkpoints[i]]
  /\ tracked' = [tracked EXCEPT ![e] = rec]
  /\ order' = IF IsTracked(e) THEN order ELSE Append(order, e)
  /\ idmap' = IF o.pk = NoKey THEN idmap ELSE [idmap EXCEPT ![o.pk] = e]

(* persist().                                                              *)
PersistNew(e) ==
  /\ UserTurn /\ ~IsTracked(e)
  /\ IF obj[e].pk = NoKey
       THEN Track(e, obj[e], [status |-> "New", orig |-> NoVal])
       ELSE "reattach" \in Calls
            /\ Track(e, obj[e], [status |-> "Managed", orig |-> obj[e].val])
  /\ UNCHANGED <<db, obj, txState, control, history>>

PersistRemoved(e) ==
  /\ UserTurn /\ tracked[e].status = "Removed"
  /\ tracked[e].orig # NoVal \/ "reviveNew" \in Calls
  /\ tracked' = [tracked EXCEPT ![e].status = "Managed"]
  /\ UNCHANGED <<db, obj, order, checkpoints, idmap, txState, control, history>>

(* remove().                                                               *)
Remove(e) ==
  /\ UserTurn /\ IsTracked(e)
  /\ tracked' = [tracked EXCEPT ![e].status = "Removed"]
  /\ UNCHANGED <<db, obj, order, checkpoints, idmap, txState, control, history>>

(* The user's code assigns a member or raises an event on an entity.  The  *)
(* session looks at no other object; those vary by Init and Allocate.      *)
Mutate(e, v) ==
  /\ UserTurn /\ IsTracked(e)
  /\ obj' = [obj EXCEPT ![e].val = v]
  /\ UNCHANGED <<db, uow, idmap, txState, control, history>>

Raise(e) ==
  /\ UserTurn /\ IsTracked(e) /\ nextEvent < MaxEvents
  /\ nextEvent' = nextEvent + 1
  /\ obj' = [obj EXCEPT ![e].events = Append(@, nextEvent + 1)]
  /\ UNCHANGED <<db, uow, idmap, txState, control, voided, delivered, innerFailed>>

(* An object nobody refers to any more can be a new allocation.            *)
Unreferenced(e) ==
  /\ ~IsTracked(e)
  /\ \A i \in Positions(checkpoints) : checkpoints[i].entries[e] = NoEntry
  /\ \A i \in Positions(obj[e].events) : obj[e].events[i] \in delivered \union voided

(* find() of a key whose entity is not in the identity map: hydrate().     *)
FindRow(e, k) ==
  /\ pc = "user" /\ Unreferenced(e)
  /\ idmap[k] = NoEntity /\ rows[k] # NoVal
  /\ LET o == [pk |-> k, val |-> rows[k], events |-> <<>>] IN
       /\ obj' = [obj EXCEPT ![e] = o]
       /\ Track(e, o, [status |-> "Managed", orig |-> rows[k]])
  /\ UNCHANGED <<db, txState, control, history>>

Allocate(e, v) ==
  /\ pc = "user" /\ Unreferenced(e) /\ obj[e].pk # NoKey
  /\ obj' = [obj EXCEPT ![e] = [pk |-> NoKey, val |-> v, events |-> <<>>]]
  /\ UNCHANGED <<db, uow, idmap, txState, control, history>>

-----------------------------------------------------------------------------
(* UnitOfWork::flush(): one pass over the keys tracked when it starts.     *)
(* Mutant: the first key is skipped.                                       *)
FlushSkipsFirst(r) ==
  pc' = "flush" /\ todo' = (IF order = <<>> THEN order ELSE Tail(order)) /\ round' = r

StartFlush(r) == pc' = "flush" /\ todo' = order /\ round' = r

RawFlush ==
  /\ pc = "user"
  /\ StartFlush(0)
  /\ UNCHANGED <<db, obj, uow, idmap, txState, frames, current, history>>

Dirty(e) == tracked[e].orig # obj[e].val

FlushNext ==
  /\ pc = "flush" /\ todo # <<>>
  /\ LET e == Head(todo) IN
     \/ /\ tracked[e].status = "New"
        /\ pc' = "beforeInsert" /\ UNCHANGED <<todo, current>>
     \/ /\ tracked[e].status = "Managed" /\ Dirty(e)
        /\ pc' = "beforeUpdate" /\ current' = obj[e].val /\ UNCHANGED todo
     \/ /\ tracked[e].status = "Removed"
        /\ pc' = "beforeDelete" /\ UNCHANGED <<todo, current>>
     \/ /\ ~IsTracked(e) \/ (tracked[e].status = "Managed" /\ ~Dirty(e))
        /\ todo' = Tail(todo) /\ UNCHANGED <<pc, current>>
  /\ UNCHANGED <<db, obj, uow, idmap, txState, frames, round, history>>

(* The statement has run: the after-hook is next.                          *)
Executed == pc' = "afterHook" /\ todo' = Tail(todo) /\ current' = NoVal
            /\ UNCHANGED <<frames, round>>

InsertRow ==
  /\ pc = "beforeInsert"
  /\ LET e == Head(todo) IN
     \E k \in {x \in Keys : rows[x] = NoVal} :
       /\ rows' = [rows EXCEPT ![k] = obj[e].val]
       /\ obj' = [obj EXCEPT ![e].pk = k]
       /\ tracked' = [tracked EXCEPT ![e] = [status |-> "Managed", orig |-> obj[e].val]]
       /\ idmap' = [idmap EXCEPT ![k] = e]
  /\ Executed
  /\ UNCHANGED <<base, saves, order, checkpoints, txState, history>>

(* The columns written were compared before before_update ran; the new     *)
(* original snapshot is taken afterwards.                                  *)
UpdateRow ==
  /\ pc = "beforeUpdate"
  /\ LET e == Head(todo) IN
       /\ rows' = [k \in Keys |-> IF k = obj[e].pk /\ rows[k] # NoVal THEN current
                                  ELSE rows[k]]
       /\ tracked' = [tracked EXCEPT ![e].orig = obj[e].val]
  /\ Executed
  /\ UNCHANGED <<base, saves, obj, order, checkpoints, idmap, txState, history>>

DeleteRow ==
  /\ pc = "beforeDelete"
  /\ LET e == Head(todo) IN
       /\ rows' = [k \in Keys |-> IF k = obj[e].pk THEN NoVal ELSE rows[k]]
       /\ idmap' = [k \in Keys |-> IF k = obj[e].pk THEN NoEntity ELSE idmap[k]]
       /\ tracked' = [tracked EXCEPT ![e] = Untracked]
       /\ order' = Without(order, e)
  /\ Executed
  /\ UNCHANGED <<base, saves, obj, checkpoints, txState, history>>

Throw == pc' = "throw" /\ todo' = <<>> /\ current' = NoVal

FlushFails ==
  /\ \/ pc \in HookAt /\ "hook" \in Faults
     \/ pc \in HookAt \ {"afterHook"} /\ "statement" \in Faults
  /\ Throw
  /\ UNCHANGED <<db, obj, uow, idmap, txState, frames, round, history>>

AfterHookReturns ==
  /\ pc = "afterHook"
  /\ pc' = "flush"
  /\ UNCHANGED <<db, obj, uow, idmap, txState, frames, todo, round, current, history>>

(* A raw flush returns to its caller; flush_pipeline() makes two passes.   *)
FlushDone ==
  /\ pc = "flush" /\ todo = <<>>
  /\ \/ round = 0 /\ pc' = "user" /\ UNCHANGED <<todo, round>>
     \/ round = 1 /\ StartFlush(2)
     \/ round = 2 /\ pc' = "finish" /\ UNCHANGED <<todo, round>>
  /\ UNCHANGED <<db, obj, uow, idmap, txState, frames, current, history>>

-----------------------------------------------------------------------------
(* Opening a scope.                                                        *)
Open(kind, outermost, sp) ==
  /\ checkpoints' = Append(checkpoints, NewCheckpoint)
  /\ frames' = Append(frames, Frame(kind, outermost, sp))
  /\ UNCHANGED <<obj, tracked, order, idmap, nextEvent, voided, delivered>>

(* commit(); inside a scope it throws before it changes anything.          *)
CommitBegins ==
  /\ pc = "user" /\ Outermost /\ Len(frames) < MaxDepth
  /\ Open("commit", TRUE, 0)
  /\ \/ base = NoTx /\ base' = rows /\ StartFlush(1) /\ UNCHANGED current
     \/ (base # NoTx \/ "begin" \in Faults) /\ Throw /\ round' = 1 /\ UNCHANGED base
  /\ innerFailed' = IF frames = <<>> THEN FALSE ELSE innerFailed
  /\ UNCHANGED <<rows, saves, txState>>

(* transaction(), outermost: BEGIN.                                        *)
ScopeBegins ==
  /\ pc = "user" /\ Outermost /\ Len(frames) < MaxDepth
  /\ rollbackOnly' = FALSE
  /\ \/ /\ base = NoTx /\ base' = rows
        /\ Open("scope", TRUE, 0)
        /\ depth' = depth + 1
        /\ innerFailed' = IF frames = <<>> THEN FALSE ELSE innerFailed
     \/ /\ base # NoTx \/ "begin" \in Faults
        /\ UNCHANGED <<base, obj, uow, idmap, depth, frames, history>>
  /\ UNCHANGED <<rows, saves, spCounter, pc, todo, round, current>>

(* transaction(), nested: SAVEPOINT metalorm_sp_N.                         *)
InnerScopeBegins ==
  /\ pc = "user" /\ ~Outermost
  /\ Len(frames) < MaxDepth /\ spCounter < MaxSavepoints
  /\ spCounter' = spCounter + 1
  /\ \/ /\ saves' = Append(saves, [name |-> spCounter + 1, rows |-> rows])
        /\ Open("scope", FALSE, spCounter + 1)
        /\ depth' = depth + 1
        /\ UNCHANGED innerFailed
     \/ /\ "savepoint" \in Faults
        /\ UNCHANGED <<saves, obj, uow, idmap, depth, frames, history>>
  /\ UNCHANGED <<rows, base, rollbackOnly, pc, todo, round, current>>

(* Mutant: throw_if_rollback_only() is left out.                           *)
ReturnsUnchecked ==
  /\ pc = "user" /\ frames # <<>>
  /\ StartFlush(1) /\ UNCHANGED current
  /\ UNCHANGED <<db, obj, uow, idmap, txState, frames, history>>

(* The callback returns, or an exception leaves it.                        *)
CallbackReturns ==
  /\ pc = "user" /\ frames # <<>>
  /\ IF rollbackOnly THEN Throw /\ round' = 1 ELSE StartFlush(1) /\ UNCHANGED current
  /\ UNCHANGED <<db, obj, uow, idmap, txState, frames, history>>

CallbackThrows ==
  /\ pc = "user" /\ frames # <<>>
  /\ Throw /\ round' = 1
  /\ UNCHANGED <<db, obj, uow, idmap, txState, frames, history>>

-----------------------------------------------------------------------------
(* Closing a scope that succeeds.                                          *)
Top == LastOf(frames)

(* Mutant: the outer scope is not marked rollback-only.                    *)
FinishUnpoisoned(ro) ==
  LET d == IF depth = 0 THEN 0 ELSE depth - 1 IN
  /\ depth' = d /\ rollbackOnly' = (rollbackOnly /\ d # 0)
  /\ spCounter' = IF d = 0 THEN 0 ELSE spCounter

FinishScope(ro) ==
  LET d == IF depth = 0 THEN 0 ELSE depth - 1 IN
  /\ depth' = d
  /\ rollbackOnly' = (ro /\ d # 0)
  /\ spCounter' = IF d = 0 THEN 0 ELSE spCounter

(* What the connection does with a savepoint name: the most recent one.    *)
SavepointsNamed(n) == {i \in Positions(saves) : saves[i].name = n}
SavepointAt(n) == CHOOSE i \in SavepointsNamed(n) : \A j \in SavepointsNamed(n) : j <= i

(* commit_checkpoint() throws when there is no checkpoint left.            *)
CommitCheckpoint(next) ==
  IF checkpoints = <<>>
    THEN /\ Throw
         /\ UNCHANGED <<checkpoints, frames, txState, round>>
    ELSE /\ checkpoints' = Pop(checkpoints)
         /\ frames' = Pop(frames)
         /\ IF Top.kind = "scope" THEN FinishScope(rollbackOnly) ELSE UNCHANGED txState
         /\ pc' = next /\ todo' = (IF next = "dispatch" THEN order ELSE <<>>)
         /\ round' = 0 /\ UNCHANGED current

FinishOutermost ==
  /\ pc = "finish" /\ Top.outermost
  /\ base # NoTx
  /\ base' = NoTx /\ saves' = <<>>
  /\ CommitCheckpoint("dispatch")
  /\ UNCHANGED <<rows, obj, tracked, order, idmap, history>>

(* Mutant: events are dispatched when a savepoint is released.             *)
InnerDispatches ==
  /\ pc = "finish" /\ ~Top.outermost /\ SavepointsNamed(Top.sp) # {}
  /\ saves' = SubSeq(saves, 1, SavepointAt(Top.sp) - 1)
  /\ CommitCheckpoint("dispatch")
  /\ UNCHANGED <<rows, base, obj, tracked, order, idmap, history>>

FinishInner ==
  /\ pc = "finish" /\ ~Top.outermost
  /\ SavepointsNamed(Top.sp) # {}
  /\ saves' = SubSeq(saves, 1, SavepointAt(Top.sp) - 1)
  /\ CommitCheckpoint("user")
  /\ UNCHANGED <<rows, base, obj, tracked, order, idmap, history>>

(* COMMIT or RELEASE fails, or an after_flush interceptor throws.          *)
FinishFails ==
  /\ pc = "finish"
  /\ \/ Top.outermost /\ (base = NoTx \/ "commit" \in Faults)
     \/ ~Top.outermost /\ (SavepointsNamed(Top.sp) = {} \/ "savepoint" \in Faults)
     \/ "hook" \in Faults
  /\ Throw
  /\ UNCHANGED <<db, obj, uow, idmap, txState, frames, round, history>>

-----------------------------------------------------------------------------
(* An exception.  One that leaves a raw flush reaches the user's code.     *)
RawFlushThrows ==
  /\ pc = "throw" /\ round = 0
  /\ pc' = "user"
  /\ UNCHANGED <<db, obj, uow, idmap, txState, frames, todo, round, current, history>>

DbRollback == /\ rows' = IF base = NoTx THEN rows ELSE base
              /\ base' = NoTx /\ saves' = <<>>

(* ROLLBACK TO keeps the savepoint itself open.                            *)
DbRollbackTo(n) ==
  \/ /\ SavepointsNamed(n) # {}
     /\ rows' = saves[SavepointAt(n)].rows
     /\ saves' = SubSeq(saves, 1, SavepointAt(n))
     /\ UNCHANGED base
  \/ /\ SavepointsNamed(n) = {} \/ "rollbackTo" \in Faults
     /\ UNCHANGED db

(* rollback_checkpoint(), if there is one, then rebuild_identity_map().    *)
RestoreFrom(cp) ==
  LET Kept(e) == cp.entries[e] = NoEntry IN
  /\ obj' = [e \in Entities |-> IF Kept(e) THEN obj[e] ELSE cp.entries[e].obj]
  /\ tracked' = [e \in Entities |->
       IF Kept(e) THEN tracked[e]
       ELSE IF cp.entries[e].existed THEN cp.entries[e].rec ELSE Untracked]
  /\ order' = cp.order
  /\ idmap' = Rebuilt(obj', order')

(* Mutant: the checkpoint is restored but not removed.                     *)
RollbackKeepsCheckpoint ==
  IF checkpoints = <<>>
    THEN idmap' = Rebuilt(obj, order) /\ UNCHANGED <<obj, uow>>
    ELSE RestoreFrom(LastOf(checkpoints)) /\ UNCHANGED checkpoints

RollbackCheckpoint ==
  IF checkpoints = <<>>
    THEN /\ idmap' = Rebuilt(obj, order)
         /\ UNCHANGED <<obj, uow>>
    ELSE /\ RestoreFrom(LastOf(checkpoints))
         /\ checkpoints' = Pop(checkpoints)

Voids(frame) == voided' = voided \union ((frame.begin.next + 1)..nextEvent)

Unwind ==
  /\ frames' = Pop(frames) /\ pc' = "user" /\ round' = 0
  /\ RollbackCheckpoint
  /\ Voids(Top)
  /\ UNCHANGED <<todo, current, nextEvent, delivered>>

(* The catch block of commit().                                            *)
CommitUnwinds ==
  /\ pc = "throw" /\ round # 0 /\ Top.kind = "commit"
  /\ DbRollback /\ Unwind
  /\ innerFailed' = IF Len(frames) = 1 THEN FALSE ELSE innerFailed
  /\ UNCHANGED txState

(* rollback_transaction_scope().                                           *)
ScopeUnwinds ==
  /\ pc = "throw" /\ round # 0 /\ Top.kind = "scope" /\ Top.outermost
  /\ DbRollback /\ Unwind
  /\ FinishScope(rollbackOnly)
  /\ innerFailed' = IF Len(frames) = 1 THEN FALSE ELSE innerFailed

InnerScopeUnwinds ==
  /\ pc = "throw" /\ round # 0 /\ Top.kind = "scope" /\ ~Top.outermost
  /\ DbRollbackTo(Top.sp) /\ Unwind
  /\ FinishScope(TRUE)
  /\ innerFailed' = TRUE

-----------------------------------------------------------------------------
(* dispatch_domain_events(): entity by entity, in tracking order.          *)
DispatchNext ==
  /\ pc = "dispatch" /\ todo # <<>>
  /\ LET e == Head(todo) IN
     IF IsTracked(e)
       THEN /\ delivered' = delivered \union {obj[e].events[i] : i \in Positions(obj[e].events)}
            /\ obj' = [obj EXCEPT ![e].events = <<>>]
       ELSE UNCHANGED <<delivered, obj>>
  /\ todo' = Tail(todo)
  /\ UNCHANGED <<db, uow, idmap, txState, frames, pc, round, current,
                 nextEvent, voided, innerFailed>>

(* Mutant: the queue is cleared although a handler threw.                  *)
HandlerThrowsAndClears ==
  /\ pc = "dispatch" /\ todo # <<>> /\ "handler" \in Faults
  /\ \E n \in Positions(obj[Head(todo)].events) :
       delivered' = delivered \union {obj[Head(todo)].events[i] : i \in 1..n}
  /\ obj' = [obj EXCEPT ![Head(todo)].events = <<>>]
  /\ pc' = "user" /\ todo' = <<>>
  /\ UNCHANGED <<db, uow, idmap, txState, frames, round, current,
                 nextEvent, voided, innerFailed>>

(* A handler throws: the queue it was serving stays as it is.              *)
HandlerThrows ==
  /\ pc = "dispatch" /\ todo # <<>> /\ "handler" \in Faults
  /\ LET e == Head(todo) IN
     /\ IsTracked(e)
     /\ \E n \in Positions(obj[e].events) :
          delivered' = delivered \union {obj[e].events[i] : i \in 1..n}
  /\ pc' = "user" /\ todo' = <<>>
  /\ UNCHANGED <<db, obj, uow, idmap, txState, frames, round, current,
                 nextEvent, voided, innerFailed>>

DispatchDone ==
  /\ pc = "dispatch" /\ todo = <<>>
  /\ pc' = "user"
  /\ UNCHANGED <<db, obj, uow, idmap, txState, frames, todo, round, current, history>>

-----------------------------------------------------------------------------
ResetTransaction == depth' = 0 /\ spCounter' = 0 /\ rollbackOnly' = FALSE

ForgetEverything ==
  /\ tracked' = [e \in Entities |-> Untracked]
  /\ order' = <<>> /\ checkpoints' = <<>>
  /\ idmap' = [k \in Keys |-> NoEntity]
  /\ UNCHANGED obj

(* Session::rollback(); rollback_all_checkpoints() ends with the oldest    *)
(* checkpoint, whose entries cover those of the later ones.                *)
Rollback ==
  /\ pc = "user"
  /\ (IF frames = <<>> THEN "rollback" ELSE "rollbackInScope") \in Calls
  /\ IF depth # 0 THEN DbRollback ELSE UNCHANGED db
  /\ IF checkpoints # <<>>
       THEN /\ RestoreFrom(checkpoints[1]) /\ checkpoints' = <<>>
            /\ Voids(frames[1])
       ELSE ForgetEverything /\ UNCHANGED voided
  /\ ResetTransaction
  /\ UNCHANGED <<control, nextEvent, delivered, innerFailed>>

(* Session::clear().                                                       *)
Clear ==
  /\ pc = "user"
  /\ (IF frames = <<>> THEN "clear" ELSE "clearInScope") \in Calls
  /\ ForgetEverything
  /\ ResetTransaction
  /\ UNCHANGED <<db, control, history>>

-----------------------------------------------------------------------------
UserStep == \E e \in Entities :
  \/ PersistNew(e) \/ PersistRemoved(e) \/ Remove(e) \/ Raise(e)
  \/ \E v \in Vals : Mutate(e, v) \/ Allocate(e, v)
  \/ \E k \in Keys : FindRow(e, k)
FlushStep  == FlushNext \/ InsertRow \/ UpdateRow \/ DeleteRow \/ FlushFails
              \/ AfterHookReturns \/ FlushDone
ScopeStep  == CommitBegins \/ ScopeBegins \/ InnerScopeBegins
              \/ CallbackReturns \/ CallbackThrows
FinishStep == FinishOutermost \/ FinishInner \/ FinishFails
ThrowStep  == RawFlushThrows \/ CommitUnwinds \/ ScopeUnwinds \/ InnerScopeUnwinds
EventStep  == DispatchNext \/ HandlerThrows \/ DispatchDone

Next == UserStep \/ RawFlush \/ FlushStep \/ ScopeStep \/ FinishStep \/ ThrowStep
        \/ EventStep \/ Rollback \/ Clear

Spec == Init /\ [][Next]_vars

-----------------------------------------------------------------------------
(* Properties.                                                             *)
Durable == IF base = NoTx THEN rows ELSE base
Table == [Keys -> Vals \union {NoVal}]

(* The unit of work knows what is stored: the original snapshot of every   *)
(* entity that should have a row is that row, as this connection sees it,  *)
(* through flushes that stop half way, nested scopes and every rollback.   *)
(* Dirty checking is only right while this holds.                          *)
OriginalIsRow ==
  \A e \in Entities : tracked[e].status = "Managed" =>
    /\ obj[e].pk # NoKey
    /\ rows[obj[e].pk] = tracked[e].orig

(* Nothing becomes durable while an inner failure is pending: what a scope  *)
(* wrote whose ROLLBACK TO failed as well cannot survive the outer one.     *)
DoomedNeverDurable == [][Durable' # Durable => ~innerFailed]_vars

(* The three views of what is tracked agree.  A lookup never returns an      *)
(* object that is no longer tracked, and two live objects never stand for   *)
(* one row ("Rebuild the Identity Map", CHANGELOG.md); tracked_order_ lists *)
(* the tracked entities once each, or a flush would skip one or write it    *)
(* twice.                                                                   *)
MemoryCoherent ==
  /\ \A k \in Keys : idmap[k] # NoEntity => IsTracked(idmap[k]) /\ obj[idmap[k]].pk = k
  /\ \A e \in Entities : IsTracked(e) /\ obj[e].pk # NoKey => idmap[obj[e].pk] = e
  /\ \A i, j \in Positions(order) : order[i] = order[j] => i = j
  /\ {order[i] : i \in Positions(order)} = {e \in Entities : IsTracked(e)}

(* One checkpoint per open scope, one level of depth per transaction().    *)
ScopesBalanced ==
  /\ Len(checkpoints) = Len(frames)
  /\ depth = Cardinality({i \in Positions(frames) : frames[i].kind = "scope"})
  /\ (base # NoTx => frames # <<>>)

(* A scope that fails leaves no trace: the tracking records, their order,  *)
(* the identity map and the members of every entity that was tracked are   *)
(* what they were when it opened; so are the rows, and a key invented by   *)
(* an INSERT is taken off its object again, unless ROLLBACK TO itself fails *)
(* (the session swallows that error).                                      *)
RollbackToFails == InnerScopeUnwinds /\ "rollbackTo" \in Faults /\ rows' = rows
Restored(b) ==
  /\ rows' = b.rows \/ RollbackToFails
  /\ tracked' = b.tracked /\ order' = b.order /\ idmap' = b.idmap
  /\ \A e \in Entities :
       IF b.tracked[e].status # "Untracked" THEN obj'[e] = b.obj[e]
       ELSE \/ obj'[e].pk \in {NoKey, b.obj[e].pk}
            \/ rows'[obj'[e].pk] # NoVal \/ RollbackToFails

ScopeFailureRestores ==
  [][CommitUnwinds \/ ScopeUnwinds \/ InnerScopeUnwinds => Restored(Top.begin)]_vars

(* A successful commit has written everything: no entity is left new,      *)
(* dirty or marked for removal.                                            *)
CommitWritesEverything ==
  [][FinishOutermost => \A e \in Entities : IsTracked(e) =>
        tracked[e].status = "Managed" /\ ~Dirty(e)]_vars

(* "Roll back events raised inside failed transactions/savepoints ... so   *)
(* stale events cannot leak into a later commit" (CHANGELOG.md), and no     *)
(* event is lost by a rollback it does not belong to: until it is delivered *)
(* or voided it waits in the queue of some entity.                         *)
EventsAreExact ==
  /\ voided \intersect delivered = {}
  /\ \A n \in 1..nextEvent : n \notin voided \union delivered =>
       \E e \in Entities : \E i \in Positions(obj[e].events) : obj[e].events[i] = n

(* What a nested transaction promises about the database.                  *)
NT == INSTANCE NestedTransactions WITH
        Tables   <- Table,
        view     <- rows,
        durable  <- Durable,
        stack    <- [i \in Positions(frames) |-> frames[i].begin.rows],
        poisoned <- innerFailed
ImplementsNestedTransactions == NT!Spec
=============================================================================
