# A TLA+ verification of MetalORM for C++

MetalORM (`src/include/metal`, `src/src`) is a header-mostly C++26 object-relational
mapper: reflected entities, a unit of work with an identity map, nested transactions,
pooled connections, caches, tree and bulk operations, and a schema differ. This directory
holds the models of its stateful parts, the TLC instances that check them and the TLAPS
proofs about them.

## Inventory

| Component | State it keeps | Operations | What is hard about it |
|---|---|---|---|
| `Pool<T>` (`pool.hpp`) | `idle` deque, `leased`, `creating`, `destroyed`, a mutex, two condition variables, a reaper thread | `acquire`, `Lease::release`, `Lease::destroy`, `destroy`, reaping | adapter callbacks run without the mutex and may throw; waiting with a deadline; a pool that dies while leases, validations and creations are in flight |
| `PooledExecutor` (`pooling.hpp`, `pooled_executor.cpp`) | `lease_`, `transaction_active_`, a mutex | `execute`, `begin/commit/rollback_transaction`, savepoints, destructor | which connection a statement runs on; connections whose transaction state is unknown |
| `Session` (`orm.hpp`) with `UnitOfWork`, `IdentityMap`, `TrackedEntity`, `DomainEventBus` | tracked entities with status and original snapshot, tracking order, checkpoints, identity map, transaction depth, rollback-only flag, savepoint counter, event queues | `persist`, `remove`, `find`, `flush`, `commit`, `transaction`, `rollback`, `clear`, hooks, interceptors, handlers | memory and table must change together although every statement and callback can throw, in nested scopes whose exceptions may be caught |
| Relation wrappers, `RelationChangeProcessor` | per relation: loaded flag, current targets, baseline | attach, detach, set, reset, load, include, sync; prepare, process, accept | direct `UPDATE`s beside the unit of work, between its two flushes; several relations that change one row; baselines that must be renewed exactly when the rows are |
| `graph_persistence.hpp` | none of its own | save, update, patch an entity graph | applied over collections that were loaded, edited or stale; pruning |
| Cache: `MemoryCacheAdapter`, `TagIndex`, `QueryCacheManager` | storage with expiry, two-way tag index | read-through fill, invalidate by key, tag, prefix, clear | several locks per operation; stale fills |
| `RedisCacheAdapter`, codec | none: keys and tag sets on a server other processes use | the same, as round trips | every call may throw between two of another process |
| `tree.hpp` (nested sets) | `lft`/`rght`/`parent`/`depth` columns | insert, move, remove, delete, recover, validate | several range `UPDATE`s per operation without a transaction, stale node bounds |
| `bulk.hpp`, `dml.hpp` | failed flag, next chunk, outcomes | insert, update, delete, upsert in chunks, with worker threads | first failure wins, partial progress, callbacks that throw |
| Keyset and offset pagination | none: the caller keeps the cursor | next page | |
| Schema diff, constraints, DDL, introspection | the catalogue, the declared schema | introspect, diff, plan, execute | a plan is not a transaction; what the catalogue prints is not what was declared |
| Query builders, dialects, DML, procedures | an expression tree | compile to SQL and parameters | parameter order |
| Reflection, mapping, values, DTO, OpenAPI, generators | none at run time | compile time or offline text | |

How they interact. The user's code calls a `Session` on one thread. The session calls its
executor, the user's table hooks, interceptors and event handlers, all of which may throw;
hooks may call the session again. The executor may be a `PooledExecutor`, which takes
connections from a `Pool` shared by many threads. Relation wrappers hang on entities and
are driven by the session's flush pipeline; graph persistence drives wrappers and session.
Caches, tree, bulk and schema operations sit on a session's executor beside the unit of
work.

`PROJECT.json` lists, under `hazards`, where each of these is exposed, at its line.

## Modules

| Module | Models | Kind |
|---|---|---|
| `BoundedLeases` | what a pool promises | abstract specification |
| `Pool` | `pool.hpp` | detailed; implements `BoundedLeases` |
| `PoolProofs` | | theorems about `Pool` |
| `PooledExecutor` | `pooled_executor.cpp`, `pooling.hpp` | detailed; uses `BoundedLeases` |
| `PooledExecutorProofs` | | theorems about `PooledExecutor` |
| `NestedTransactions` | what nested scopes promise about the database | abstract specification |
| `Session` | the transactional core of `orm.hpp`, `unit_of_work.hpp`, `identity_map.hpp`, `domain_events.hpp`, and the connection of `sqlite_executor.cpp` | detailed; implements `NestedTransactions` |
| `SessionProofs` | | theorems about the scopes of `Session` |
| `SessionMemoryProofs` | | theorems about its memory, its events and its flush |
| `Cache` | `query_cache_manager.hpp` over `cache_memory.hpp` and `cache_tag_index.hpp` | detailed |
| `CacheProofs` | | theorems about `Cache` |
| `RemoteCache` | the manager over `cache_remote.hpp`'s Redis adapter | detailed |
| `RemoteCacheProofs` | | theorems about `RemoteCache` |
| `OrderedForest` | what editing a tree promises | abstract specification |
| `Tree` | `tree.hpp` | detailed; implements `OrderedForest` |
| `TreeProofs` | | theorems about `Tree` |
| `Bulk` | `bulk.hpp` and the statements of `dml.hpp` it runs | detailed |
| `BulkProofs` | | theorems about `Bulk` |
| `Relations` | `collection.hpp`, `reference.hpp`, `polymorphic.hpp`, the hooks and loaders of `orm.hpp`, `relation_change_processor.hpp` | functions of a session's state |
| `Graph` | `graph_persistence.hpp` | composed with `Relations` |
| `SchemaSync` | `schema_diff.hpp`, `schema_expected.hpp`, introspection | detailed, over an external catalogue |
| `MC...` | | small instances for TLC |

Definitions named "mutant" in a comment are plausible bugs: each is a variant of the
definition that follows it. They are not part of any specification; replacing the real
definition by the variant makes TLC report a violated property.

### Pool

One step is one critical section of `State::mutex` together with the thread-local work
before it. Everything the code does after it unlocks is a step of its own: `cv.notify_one`,
`cv.notify_all` and `adapter.destroy`, in the order the code calls them (the tables
`AfterNotify` and `AfterDestroy` say what follows, `AfterDestroyThrows` where an exception
leads). `pc[t]` is the place of a thread in the code, `res[t]` its `unique_ptr`, `waiting`
the threads inside `cv.wait`. The predicate overload of `wait` is modelled as the loop it
is: a thread removed from `waiting` tests `Ready` and goes on or sleeps again; a thread may
also wake spuriously or pass its deadline. The adapter's `create`, `validate` and `destroy`
succeed or fail as `Faults` allows. `live` is the set of resources that physically exist.
The reaper may run at any time and takes any expired prefix: entries enter `idle` at its
back with increasing time stamps, so the expired ones are a prefix. `destroy()` sets the
flag, wakes everybody, joins the reaper and then destroys what was idle. A resource counts
as destroyed also when `adapter.destroy` throws, because its `unique_ptr` was moved there.

The pool's own destructor is `destroy()`; using a pool from another thread after that is
outside C++ and not modelled.

### PooledExecutor

Each executor has a mutex, so a step is one call made under it: into the pool, or into the
connection. `Enter` takes the mutex, `Locked` says who has it. Waiting for a connection
while holding the mutex is the absence of an enabled `AcquirePinned`/`AcquireLocal`.
`conn[r]` is what the database thinks of a connection: the executor whose transaction is
open there, and how many statements that transaction holds. The pool is its contract, not
its code; `Pool` is checked to implement it. Not modelled: a user who sends `BEGIN` as a
plain statement, and SQLite rolling a transaction back by itself.

### Session

One thread, so there is no interleaving, but there is re-entrance and failure. `pc` says
who runs: user code, a flush, the end of a scope, an exception on its way up, the delivery
of events. `frames` are the C++ activations of `transaction()` and `commit()`; the code's
own `transaction_depth_`, `rollback_only_` and checkpoints are separate variables, because
`clear()` and `rollback()` change them under the feet of a running activation. A flush
walks the keys it copied at its start (`todo`) and stops in front of every statement for
the hook; `UserTurn` lets the user's code act there (`actInHooks`). The connection is
SQLite's: `rows` is what it sees, `base` the table when the transaction began, `saves` the
stack of named savepoints; `ROLLBACK TO` leaves its savepoint open, and a name denotes the
most recent savepoint. Entities are rows of one table with a generated key and one data
column; a table of several types adds nothing to the control. `frames[i].begin`, `voided`,
`delivered` and `innerFailed` are history: no guard reads them; `delivered` is a set, so a
dispatch that is retried after a throwing handler is not told from a first one.

`flush_pipeline` is two passes of the flush; the relation processor between them has
nothing to do for entities without relations, and is what `Relations` models. Interceptors,
as hooks, can only throw.

`Calls` selects calls that the documentation does not forbid but that a reader should see
apart: `reviveNew` (persist an entity that was new and removed), `reattach` (persist an
object that already has a key), and `rollback` and `clear` inside and outside a callback.
No run admits the first two, with which `OriginalIsRow` and `MemoryCoherent` do not hold,
nor `clear()` inside a callback: it resets `rollback_only_` (`orm.hpp:266-273`), a
transaction in which an inner scope failed is then committed, and `DoomedNeverDurable` does
not hold.

### Cache

`MemoryCacheAdapter` guards its storage with one mutex and `TagIndex` its two maps with
another, and no call holds both. `pc[th]` is the critical section a thread enters next:
`get_or_execute` is `Miss` or `Expired`, then `Unregister` after an expiry, `Execute` (or
`ExecuteUncached` when the executor throws or `should_cache` refuses), `Store`, `Register`;
`invalidate_tags` is `InvalidateTags` then `EraseKeys`; `delete_key` is `DeleteKey` then
`Unregister`, and `invalidate_prefix` a list of those; `clear_cache` is `ClearStorage` then
`ClearIndex`. A hit changes nothing and is no action. A cached value is abstracted to
whether its rows have been updated since they were read (`stale`), which needs no bound:
`Update` is the application writing rows and going on to invalidate their tags. Which tags
an entry was stored with, whether an invalidation overtook its fill (`raced`) and whether
its key was unregistered while it was stored (`orphaned`) are history in `origin`. An
absent key of a map is the empty set. A set of keys stands for a prefix.

### RemoteCache

A step is one call of the backend. `job[p]` is what a process has still to do: the tags to
register, the sets to list, the sets and keys to delete; the order in which an invalidation
lists its tags, and in which a server deletes the keys of one call, is left open. `value[k]`
is the key on the server ("corrupt" is what the codec refuses: `decode_or_evict` then
deletes the key, and swallows a failure to), `members[t]` a tag's set. Any call may throw,
which ends the operation where it is (`Throw`). Two histories say what the properties need:
`reach[k]` has for a stored value the tags it was stored with, those it is out of reach of
for good, and those whose update it predates; `owed` the tags updated since the last
invalidation that covers them.

### Tree

Every operation of `TreeManager` is a sequence of statements (`Shift`, `MoveRange`, `Adopt`,
`Assign`, `DropRange`, `NewRow`) computed from one read of the table and from the
`TreeNodeResult` the caller got from `get_node()` earlier (`held`), perhaps before somebody
else's operation. No operation opens a transaction: `Statement` executes one statement, so
those of two clients alternate, and `StatementFails` leaves the rest out. `raced` is
history: the scopes in which operations overlapped, used a node that had changed, or
failed; nothing is claimed for these until `recover()` has run alone. `OrderedForest` is a
forest of ordered children and its edits: insert last, move below, slide, remove one node
and promote its children, drop a subtree, reorder by recovery. `ByLeft` and `ByKey` are the
`ORDER BY` of the queries; `Recovered` is `traverse()`, whose recursive calls are one
function per level, and `Threaded` keeps the stack of open rows of `to_threaded()`.

### Bulk

`worker[w]` is the place of a worker in `run_chunks`: read the failed flag, claim a chunk
by `fetch_add`, execute its statements, report (the callback and the outcome), and on an
exception first store the error under its mutex, then raise the flag. A sequential call is
a team of one. What a statement does to the table is `dml.hpp`'s: the columns of an
`INSERT` are those of its first row (a later row without one is refused, a column only
later rows have is dropped), `ON CONFLICT` updates what the first row of the *call* has.
`Finish` is `maybe_transaction`: commit, or roll back to `before`.

### Relations and Graph

Here every call of the user is one function of the state `s` of session and tables,
because nothing runs between its steps; a call that throws inside a transaction gives back
the state it started from, which is what `Session` is checked for, and one that throws
outside it leaves what it had done: `reset()` has emptied a reference before it says that
its key cannot be NULL (`ResetRef`), and `set(nullptr)` empties it without asking
(`SetNoRef`). A statement the database refuses leaves the unit of work as it was
(`WriteRow`).

A parent has kids (`has_many`, `has_one` or a morph form; the kid has the key), a kid has a
cat (`belongs_to` or `morph_to`), parents and cats are `many_to_many`. `mapping` is the
annotation: kinds, cascades, nullability, constraints in the schema. `Pipeline` is
`Prepare` (cascade persist), `Flush`, `Process` (relations write their keys, in tracking
order), `Flush` again, `Accept`. A row and the object for it have one name.

`Graph` adds `save_graph`, `update_graph` and `patch_graph` of payloads to the edits of
`Relations` and is checked with them: payloads meet collections that are unloaded, loaded,
edited and stale. An item of a collection is a payload, an object of the program or a key
(`ItemType`), of a tag with or without a pivot patch; `keyed` and `posts` say whether a
payload brings its key and whether it has relations that need one, so that `materialize()`
flushes. `Collected` takes the items in turn and remembers, as `remember()` does, the
targets that have a key by then.

The properties say of whom they speak. `Contested`: two collections change their mind
about one kid in one commit; they are applied in tracking order and the last wins.
`Hidden` is the fault of finding 4. `InStep`: the kid's original snapshot was its row; an
object another session's row was changed behind is written column by column. `Current`: no
collection of the root is stale, because a kid that another collection took away meanwhile
is taken for one that is already there. `ByHand`: what was attached by hand and has no key
yet cannot be compared with a payload, and is pruned only by the next call. `Overtaken` are
the tags of finding 7. `Emptied`: a kid that is saved again after its reference was emptied
although its key cannot be NULL; no commit accepts it.

### SchemaSync

`db` is the catalogue: tables with columns, constraints and indexes. The database is
external: it names unnamed constraints, refuses what others depend on, prints expressions
in its own spelling (`Printed`). The code is `Introspect`, `Diff` for either family and the
statements of the plan, executed one by one with no transaction around them
(`execute_schema_plan`), each of which may fail. `Deploy` is a new version of the program.

Introspection lists a table's checks in the order of their names (`Precedes`, over the parts
names are made of in the order `Collation`), and the diff gives a declared check the first
free one that matches; a `nextval()` default is read as an identity.

`Recognised` names the schemas whose constraints are found again where they were declared:
a column's check mentions that column, an unnamed table check several and in PostgreSQL's
spelling (`Placed`), no unnamed check has a named twin that is listed first (`Twins`), no
column with an identity is added to an existing table (`GainsIdentity`: `ADD COLUMN` says
nothing of identity), and no index has the name of one on another table (`NameIsTaken`:
`CREATE INDEX IF NOT EXISTS` is then silent). For these a finished synchronisation
converges, and what a second one would do restores the catalogue, with no constraint
duplicated or lost and no statement refused. `Regular` adds that every text is in
PostgreSQL's spelling and no default is a `nextval()` (`Verbatim`): then the second one has
nothing to do. Findings 8 and 9 are what `Twins`, `Placed` and `Verbatim` leave out.

## Runs

| Run | Instance | Question |
|---|---|---|
| `pool_safety` | 3 threads, `max` 2, `min` 1, reaper, timeouts, every fault | bookkeeping, ownership, the dead pool, the contract |
| `pool_live` | 3 threads, 3 resources, `max` 1, reaper, timeouts, fair, every fault but a throwing `Lease::destroy` | is anybody forgotten; does `destroy()` finish and empty the pool |
| `executors` | 3 callers, 2 session-mode executors and a sticky one, pool of 2 | which connection runs what |
| `session_flush` | 2 entities, 2 keys, 2 values, no nesting, `rollback()` and `clear()` outside scopes | partial flushes and failing commits; the three views of what is tracked |
| `session_nested` | 1 entity, 1 key, 2 values, depth 2, 1 savepoint, 2 events, hooks that act, `ROLLBACK TO` fails too | failing scopes leave no trace; delivery of domain events; doomed transactions |
| `cache_tags` | 2 threads, 2 keys, 2 tags, every call | what the index can lose, which stale entries remain |
| `cache_delete` | 2 threads, 1 key, 1 tag, every call | **violated**: see findings |
| `cache_remote` | 2 processes, 1 key, 2 tags, every call and fault | which values a tag's set does not name, what an invalidation leaves behind |
| `tree` | 2 clients, 2 scopes, 3 rows in any shape, 1 more to insert, 2 operations | is an operation one edit of the forest; do range queries answer for the parent links |
| `bulk` | every operation, 3 rows (distinct, repeated, ragged, without a key), chunks of 1 and 2, 1 to 3 workers | what a call that returns has done, what one that throws leaves, that it comes back |
| `graph` | 2 parents, 2 kids, 2 cats, 4 annotations, 3 stores, 8 payloads, 3 edits | do commits and graphs arrive, and does repeating them change anything |
| `schema` | both families, 8 versions of 3 tables, 2 deployments, 1 failing statement, every mode | what a plan may lose, whether it is settled, complete and resumable |

### Bounds

`Threads` and `Max`: a third thread is what it takes for a notification to go to the wrong
waiter and for a resource to change hands while a second is being created; `Max` is below
the number of threads so that waiting happens, and `Min` below `Max` so that the reaper has
a floor and something above it. `pool_safety` has as many resources as can exist
at once: each thread can carry one that is no longer counted, beside a full pool.
`pool_live` has one fewer: where two leases and an expired resource are being destroyed at
the same time, a creation waits for the first of these destructions, which fairness brings.

`Keys`: as many as entities, or one more, so that `INSERT` finds a key; where it may not,
the instance lets statements fail, so the session goes on. `MaxDepth` bounds the nesting of
callbacks: 2 is an outermost and an inner scope, whose exception may be caught. `MaxSavepoints` bounds the scopes opened in one transaction; 2 lets a
second inner scope follow, or lie in, a failed first; 0 forbids inner scopes; the run uses
one. `MaxEvents` 2 gives one event inside and one outside a scope. `MaxStatements` bounds
how many statements a transaction counts.

`Cache` has no counters, so only its sets are bounded. Each race is between two calls;
two keys let `invalidate_tags` and `invalidate_prefix` handle several, two tags let fills
and invalidations overlap in some of their tags. `CacheProofs` removes the bounds.

`MemoryCoherent` is checked where two entities matter; the single-entity run goes deeper
into nesting.

`RemoteCache`: a race is between two processes; one key shows the order of its `SET`,
`SADD`, `SMEMBERS` and `DEL`, two tags let a key be in some of its sets. The same
properties hold for two keys (2.1 million states) and for three processes (2.7 million),
which take too long for a routine run. `RemoteCacheProofs` removes the bounds.

`Tree`: three rows take every shape of a forest of at most three levels, and the fourth key
is a row inserted under any of them. `MaxOps` 2 is one operation and another that overlaps
it, runs after it on a stale node, repairs it, or works in the other scope; the last is
what the scope column in every `WHERE` is for. `Temp` only has to be far from every bound.

`Bulk`: three chunks of one row and two of unequal length, claimed by up to three workers,
are what it takes for a middle chunk to fail while its neighbours are under way. Both
invariants hold for every number of rows, chunks and workers (`BulkProofs`).

`Graph`: `MaxEdits` counts edits and graph calls; three are a load or an edit, another that
disputes it, and a graph over both, each followed by a commit or not. Four annotations take
every kind of relation with and without cascades, nullability and constraints, not every
combination. The eight payloads have items of every form, two in one collection with the
one that flushes after the one without a key, tags with a patch, and every form of the
kid's reference.

`SchemaSync`: two tables, the second of which refers to the first, and a third whose
unnamed check sorts after the named one; the eight versions add, change and drop a column, a type, a
default, `NOT NULL`, a unique constraint and its name, checks named, unnamed, twins in
either order and spelled unlike PostgreSQL, a `nextval()` default, a foreign key and its
actions, an index, a primary key and a table. Any can follow any other twice, with one
failure. An unnamed table check in another spelling is not among them: each
synchronisation adds it once more (finding 9).

`CHECK_DEADLOCK FALSE` where the system stops: a bulk call has returned, and `tree`,
`graph` and `schema` have used up their operations, edits or deployments. In the other runs
user code can always do something, and a pool whose caller never gives a lease back can
still be destroyed, or its threads wake spuriously.

### Fairness

`FairSpec` of `Pool` makes every thread that is *inside* a pool operation go on, and the
constructor, `destroy()` and the reaper finish what they started; that is what an operating
system's scheduler and a callback that returns provide. Nothing obliges a caller to call
`acquire()`, give a lease back, or destroy the pool, the reaper to find anything expired,
or the condition variable to wake anyone who was not notified.

`FairSpec` of `Bulk` makes every worker go on until its loop ends, and the caller join and
finish: the workers are threads, statements and callbacks return or throw.

## Findings

Finding 3 is a run that is violated. The others show in models that allow what leads to
them; the passing runs named exclude exactly that, by a constant or a premise with a name,
so that their properties say what holds otherwise.

1. `pool_live` (`DropReturns` among its faults): `Lease::destroy()` calls `adapter.destroy`
   between decrementing `leased` and `cv.notify_one` (`pool.hpp:312-319`). When it throws, a
   thread blocked in `acquire()` without a timeout is not woken although a slot is free.
2. `session_nested` (no `rollback()` in a callback): it consumes the checkpoints of the
   scopes that are still running (`orm.hpp:248-264`); when the scope fails afterwards, what
   the callback did after `rollback()` stays in the session.
3. `cache_delete` (a run that is violated): `delete_key()`, `get()` of an expired entry and
   `clear_cache()` remove an entry from the storage and tell the tag index in a second
   critical section (`cache_memory.hpp:30-48, 67-74, 103-109`). A fill of the same key in
   between is stored with its tags, and then loses them: `invalidate_tags()` no longer
   reaches it.
4. `graph` (premise `Hidden`): `flush_has_many` and `flush_has_one` update one column and
   then take the whole object for its row (`relation_change_processor.hpp:235, 286`). A key
   that the kid's own `belongs_to` has just copied into another column is then never
   written.
5. `cache_remote` (`Lose`): `invalidate_tags()` deletes the tag sets before the keys
   (`cache_remote.hpp:260-266`). If the second call throws, the entries stay and no retry
   finds them; a key added to a set between `SMEMBERS` and `DEL` is forgotten without any
   error.
6. `graph` (`IncludeRefs`): a comment (`reference.hpp:35`) says that `set()` keeps a
   reference dirty until the unit of work accepts it; `include()` of the same relation
   renews its baseline before that.
7. `graph` (premise `Overtaken`): `remember()` skips a target without a key at its turn
   (`graph_persistence.hpp:580`). When a later item makes `materialize()` flush (line 396),
   the target has a key when `prune_missing` runs and is removed although it was named
   (lines 627-634). A link of a tag is never inserted, and saving the graph again with its
   keys inserts it; a kid keeps its row and leaves the collection in memory.
8. `schema` (premise `Twins`): of an unnamed and a named check with one expression, the
   first free match of `schema_diff.hpp:704-715` gives the unnamed one the constraint whose
   name sorts first. When that is the named one's, every later plan holds a `RENAME
   CONSTRAINT` to a name that is taken, which PostgreSQL refuses.
9. `schema` (premises `Placed`, `Verbatim`): expressions are compared after trimming
   (`schema_diff.hpp:50-60`), and PostgreSQL prints them with parentheses of its own. The
   examples of `docs/PHYSICAL_CONSTRAINTS.md` are therefore never recognised: a column's or
   a named check is dropped and added again by every synchronisation, an unnamed table
   check is added once more each time, and one over a single column is read as the
   column's. A `nextval()` default is read as an identity and plans `DROP IDENTITY` each
   time.

Behaviour worth knowing that no document contradicts: `attach()` followed by `remove()` is
not a no-op, the kid keeps the key `attach()` gave it; saving a graph whose explicit key
has no row tracks the entity as managed and never inserts it (`graph_persistence.hpp:386`);
`attach(key)` tracks a blank stub (`orm.hpp:630`); a column that only later rows of a bulk
insert have is dropped silently (`dml.hpp:238`); a "safe" plan that replaces a check or a
foreign key drops it first, so a failing `ADD` leaves it off until the next call.

## Proofs

The theorems hold for every value of the constants that satisfies the assumption of the
module they are about; each rests on an inductive invariant, because none of the properties
is inductive by itself. TLC checked every inductive invariant on the instances of the runs
(in `EffectInv`, with the script computed by `RowByRow` instead of chosen).

| Component | Proved for every instance | Only model-checked |
|---|---|---|
| `Pool` | ranges, counters, capacity, dead pool, one place for each resource, the contract | `NoForgottenWaiter`, `ShutdownCompletes` |
| `PooledExecutor` | all its properties | |
| `Session` | all its properties, under the conditions below | the instances outside those conditions |
| `Cache` | both invariants (and `IndexConverse`, which no run repeats) | |
| `RemoteCache` | both invariants | |
| `Bulk` | each row once, both invariants | `CallReturns` |
| `Tree` | the numbering of the bounds; the queries against the parent links | `ImplementsOrderedForest` |
| `Relations`, `Graph`, `SchemaSync` | | everything |

### Pool

For every set of threads and resources, every `Max`, `Min` and set of faults
(`PoolAssumption`: finitely many threads, `Max > 0`):

- `PoolTypeOK`: the unsigned counters never go below zero, and who carries what;
- `PoolCountersExact`: `leased` and `creating` are the exact number of threads that owe or
  are owed a resource;
- `PoolCapacityRespected`: the accounted total never exceeds `max`;
- `PoolDeadPoolStaysEmpty`: nothing is put back into a dead pool;
- `PoolOnePlaceEach`: a resource that exists is in exactly one place, and one that does not
  is in none;
- `PoolImplementsBoundedLeases`: the pool is `BoundedLeases`, and therefore
  (`PoolExclusive`) never lends a resource twice.

The invariant is `IInv`, the conjunction of the first four with two strengthenings:
`Carrying` (a thread that the counters count has a resource in hand; otherwise a `Release`
could append an empty pointer, and `TypeOK` is not inductive) and `WarmFirst` (no thread is
inside the pool and it is not destroyed while the constructor warms it up; otherwise
`warm_minimum` could fill a dead pool). Steps fall into four groups, with one lemma for
the shape of a step and one that puts the actions into that shape: a thread's step that
leaves the counters alone (`QuietMove`, `QuietSteps`), a thread's step that adjusts them
(`CountingMove`, `CountingSteps`, over the cardinality lemma `CountMove`), and a step of
the background (`BackgroundMove`, `BackgroundSteps`).

Ownership is a second invariant on top of it, `Linear`: whoever holds nothing at his place
in the code has an empty pointer (`EmptyHanded`), no two of the deque's entries, the
threads' pointers and the background's lists are the same resource (`Apart`), and the
resources that have an owner are those that exist (`Accounted`). `OnePlaceEach` counts
places, `Linear` compares them pairwise; the count comes last. For the contract, a step
that grants or returns a lease changes the lent resource of one thread, every other step
none; that the resource granted is free is `Apart`.

### Cache

For every set of threads, keys and tags and with no assumption:

- `CacheIndexConverse`: the two maps of `TagIndex` are converses;
- `CacheEntriesStayTagged`: an entry stored with tags is registered under them, about to
  be registered or erased, or orphaned by the race of finding 3;
- `CacheStaleOnlyIfRaced`: a stale entry whose update has been invalidated is one whose
  fill was in flight during that invalidation, or was orphaned then.

Its `IInv` is these with `TypeOK` and `StaleFill`, which says of a result that a fill holds
what `StaleOnlyIfRaced` says of a stored one; without it `Store` could bring in a stale
value from nowhere. The invalidation step needs the other two: an entry that is tagged is
found because the maps are converses, and one that is not has an excuse.

### RemoteCache

For every set of processes, keys and tags, with any calls in flight
(`PrefixAssumption`: a prefix is a set of keys and tags):

- `ValuesReachable`: a live value is in the set of each of its tags, on its way in or
  about to be deleted, but for the tags that a failed or overtaken call has lost it;
- `InvalidationsReach`: once an invalidation that began after the last update has returned,
  a stale value is being deleted or out of reach for one of those reasons.

Its `IInv` says what a job in progress knows: which locals a process has at each of its
places (`Carries`), that a key missing from the set of one of its tags is being registered
there or is about to be deleted (`Held`),
what an invalidation has collected from the sets it has listed (`Listed`), that a stale
value's tag is owed an invalidation or being covered by one (`StaleOwed`), and that a tag
an invalidation has already listed has no stale value it did not collect (`Covered`). The
last two are what makes `InvalidationReaches` follow when `owed` is cleared: the property
speaks of returned invalidations only, the proof of those half-way.

### Pooled executor

For every set of threads and executors, sticky or not, and every set of connections and
faults:

- `ExecutorLeasesFollowTransactions`: a connection has a transaction open exactly while
  the executor that began it has it pinned, and an executor keeps one only for a reason;
- `ExecutorTransactionIsWhole`: what a commit makes durable is what its executor ran;
- `ExecutorStickyKeepsLease`: which steps may take a sticky executor's connection away;
- `ExecutorUsesBoundedLeases`: each step is a step of the pool's contract, or none of it.

Its `IInv` says beside these two who is inside (`Inside`), that the mutex admits one
(`OneInside`), that a connection has one holder (`OneHolder`) and why it is held
(`Reasons`). The last needs the mutex: between its `acquire()` and its `BEGIN`,
`begin_transaction()` has a connection without a transaction, and nobody else may end an
operation on that executor then. The refinement goes through `Held`, the leases as one
function; a small lemma identifies the `Cardinality` the contract's instance carries with
the executor's own.

### Session

For every set of entities, keys and values, any depth of nesting, and faults at every
statement, hook and handler. The theorems name what the application keeps to:

| Condition | Excludes | Theorems |
|---|---|---|
| `Orderly` | `rollback()` and `clear()` from inside a callback (finding 2, and `orm.hpp:266`) | `SessionBalanced`, `SessionDooms`, `SessionNests`, `SessionEventsExact` |
| `Careful` | also tracking an object that already has a key (`orm.hpp:517`), and a `ROLLBACK TO` that fails | `SessionCoherent`, `SessionRestores` |
| `Unhooked` | also hooks that call the session | `SessionWrites` |
| `Settled` | also `persist()` of an entity that was new and removed (`orm.hpp:103`) | `SessionOriginals` |

`session_flush` satisfies all four, `session_nested` the first; each thing excluded is
there because the property does not hold with it. `rollback()` in a callback consumes the
checkpoints of the scopes around it; a second object with the key of a tracked one takes
its place in the identity map; a `ROLLBACK TO` that fails leaves rows which the memory no
longer knows, because the session swallows that error; a hook of one entity that changes
another which the flush has already passed leaves it dirty at `COMMIT`, and what a
`before_update` hook changes in its own entity is in the new snapshot but not in the
statement (`unit_of_work.hpp:254`). That a failing `ROLLBACK TO` leaves no other trace is
checked by `session_nested` (`RollbackToFails`), not proved.

- `ScopesInv` (scopes, `SessionScopes`): where the code may be for a stack of activations
  (`Phases`), what each activation and each checkpoint was opened by (`Nesting`), that a
  `BEGIN` is open (`InTransaction`), that the savepoint an activation names is on the
  connection's stack, above those of the activations around it (`SavepointsKnown`), and
  that a failed inner scope has left the transaction rollback-only (`Poisoned`). `ScopesBalanced` says the same of
  the lengths only; it is not inductive because what `finish_transaction_scope()` and a
  `ROLLBACK TO` do depends on every element of the stack. For the refinement, each step
  opens one scope, ends one, writes, or changes nothing of the database (`Calm`).
- `CarefulInv` (memory, `SessionMemory`): identity map, insertion order and tracking
  records agree now (`MappedNow`) and in every checkpoint (`MappedThen`), for a restore
  reinstates an older state and the coherence of that state is not implied by the present
  one; each checkpoint has captured what the next restore will need (`Captured`), including
  the entities tracked since it was made (`Covers`); the savepoints of
  open scopes are all held (`SavepointsHeld`); what a statement relies on when its hook has
  returned still holds (`Writing`); and keys that are mapped have rows
  where they should (`RowsKnown`, `KeysKnown`). The actions are first put into one of nine
  effects on the memory (`Effects`), and each conjunct is proved of effects.
- `SettledInv` adds that the original snapshots are the rows, now and in what each scope
  remembers of its beginning; `WritingInv` that, during a flush, what is not written is
  still in `todo`.
- `EventInv` accounts for every event: its queue, the queue a checkpoint would bring back,
  voided or delivered; an event in a queue that a checkpoint does not know was raised in
  the scope of that checkpoint. As before the actions are put into effects first, seven.

`Without`, the one recursive definition of `Session` (the insertion order less an entity),
is a recursive function; that it is what its equation says, and that it keeps the other
entities without repeating one, is proved from a least counterexample
(`KeptExists`, `WithoutSeq`).

### Bulk

For every call (any number and kind of rows, chunk size, number of workers, failures):

- `BulkRunsOnce`: no row's statement runs twice;
- `BulkSucceedsWhole`: a call that returns has executed every row, and where `Comparable`
  says so the table and the returned rows are those of one statement per row, in the order
  of the input (`SuccessIsWhole`);
- `BulkFailsClean`: a call that throws has rolled back, or has stopped between chunks (rows,
  for `bulk_update`) with the effect of those that ran (`FailureIsClean`);
- `BulkRunsEveryRow`, `BulkWholeChunks`, `BulkRollsBack`: the parts of these two that hold
  of calls that are not `Comparable` as well;
- `BulkInvariant`, `BulkEffect`: the inductive invariants behind them.

*The rows.* `BulkInv` says that a claimed chunk has one worker and lies below the counter
(`Claims`), what has run of it (`Progress`), and why a worker has left (`Stops`): the counter
alone does not say that a chunk below it has run. Arithmetic is apart: chunks of `size` rows,
rounded up, cover the rows and do not overlap (`Tiles`, `TilesApart`, `Chunking`).

*One statement.* `Value(c, i, v)` is what row `i` makes of the value `v` of its key. A
statement of several rows does what its rows do one at a time (`Leads`): an `INSERT` that is
accepted has distinct new keys (`InsertLeads`), `ON CONFLICT` goes through its rows in order
(`UpsertLeads`, where `UpdatesVal` reads the first row of the call and `Uniform` makes it the
column set of all), a `DELETE` of several keys is one of each
(`DeleteLeads`), and `bulk_update` runs a statement for each row (`UpdateLeads`).

*The call.* The script of a call, `Ref`, is the loop of `RowByRow` over all its rows, entry by
entry. With several workers the table is in general no entry of the script, because chunks
run in any order. `EffectInv` says what is true instead: for each key the rows of that key
that have run are a prefix of them in input order, and the key has the value the script gives
it after that prefix (`Fits`); what a worker holds and what a finished chunk has reported
is the stretch of the script's returned rows between its ends (`Holds`, `Reported`). A
statement may run when its rows are the next of their keys (`Due`): with distinct keys they
always are, and a worker alone takes the chunks in order (`Sole`, `InOrder`). At the end
every prefix is all the rows, and the outcomes in chunk order add up to the script's
(`AddsUp`). When a call fails the rows that ran need not be a prefix of the input;
`FitsIsLoop` shows the table is still the one `RowByRow` makes of them.

*Conditions.* The rows of `updateWhere` (keys that all get one value) and `deleteWhere` (a
predicate) are not statements of their own, and there is no script to compare with. Calls that are not
`Comparable` are left out because the comparison can fail for them: repeated keys race when
there are several workers, and what becomes of ragged rows depends on where chunks begin.

*Recursion.* The loops of `Upserted`, `Aggregated` and `RowByRow` are recursive functions;
they are shown to exist, and induction is over a set of numbers (`Upwards`).

### Tree

For every set of clients and of scopes, every forest to start from and any number of rows
and operations (`TreeAssumption`; the constant 10000000 must exceed four times the number
of rows):

- `NumberingIsSound`: the bounds of a settled scope are `1..2n`, each used once;
- `QueriesAreRight`: in a settled scope descendants, path, leaves, depth, child count and
  the threaded tree agree with the parent links, and `validate()` has nothing to report;
- `TreeInvariant`: the inductive invariant behind both.

*One operation.* `Forests(t, m)` says what a sound table of one scope is: bounds within
`1..m` that use every number (`Filled`), any two rows apart or one inside the other
(`Laminar`), and for each row its parent the innermost row around it and its depth one more
(`Linked`). `InsertKeeps`, `MoveKeeps`, `SwapKeeps`, `RemoveKeeps` and `DeleteKeeps` prove
that an operation, taken as a single change of the bounds, leads from such a table to
another; `MoveLeads` and its like prove that its list of statements makes that change
(`Leads`). This is where the isolated range matters: while a subtree is out of the way no
shift may touch it.

*Recovery.* Nothing is assumed about the bounds `recover()` finds. By induction on the
levels left, `traverse()` numbers the rows a root leads to (`Way`) within the interval it is
given and as the parent links say (`Patch`, `Lists`; `LoopNumbers` for the children of one
node, `LayerNumbers` for one level, `RecoveredLists` for the whole); if every row was
reached the result is `Forests` (`Renumbered`). `Init` uses the same numbering.

*The invariant.* `NumberingSound` speaks of scopes at rest and is silent about an operation
under way, so it is far from inductive. `TInv` adds `Busy`: a running operation that is
trusted (nobody raced it, or it is a `recover()` that has the scope to itself) is the only
one of its scope, and *the statements it has left lead to a sound table*, whatever key an
insertion gets. A statement consumes the head of that list (`LeadsOn`); a last statement
leaves a sound table at rest (`Rest`); a start must establish it from what the operation
read (`InsertGood`, `MoveGood`, `SlideGood`, `RemoveGood`, `DeleteGood`, `RecoverGood`).
`Table`, `Works`, `Room` and `Holds` say what rows, statements, keys and held nodes look
like.

*The queries.* In a sound table the descendants by parent links are the rows inside
(`BelowIsInside`), the depth counts the rows around (`DepthCounts`), and a row is twice its
descendants plus one wide (`InsideCounts`). For `to_threaded()` the invariant of its loop
(`Open`, `Hangs`) says that the stack is exactly the rows around the last one, innermost
first.

*Recursion.* The recursive functions are shown to exist (`InTurnLoops`, `RecoveredBuilds`,
`BelowSpreads`, `ThreadedLoops`), and induction is over a set of numbers rather than a
predicate (`Upwards`, from a least counterexample).

### Not proved

Liveness (`NoForgottenWaiter`, `ShutdownCompletes`, `CallReturns`) is out of reach of the
prover. `Relations`, `Graph` and `SchemaSync` are built from traversals and folds
(`Pipeline`, `FlattenSeq`), and what they promise is about the values of these. Of `Tree`,
`ImplementsOrderedForest` stays with TLC: that an operation is one edit compares sequences
of siblings before and after it, and in `TInv` only the bounds are followed.

## What is left

- **PostgreSQL connection** under `Session`: a transaction the server has aborted
  (`postgres_executor.cpp:190`), reached when user code swallows a failed statement.
- **Proofs**: that a plan without `allow_destructive` keeps every table and column
  (`SafeKeepsData`, its first half); that `Tree` implements `OrderedForest`;
  `ScopeFailureRestores` when `ROLLBACK TO` fails.
- **Instances** with two kinds of entity in `Session`, and payloads of more levels in
  `Graph`.

## Not modelled

SQL text: builders, expressions and dialects compile immutable trees; there is no state and
no order of events, and the unit tests compare the text. The same goes for pagination (one
query per page from a cursor the caller keeps), procedures, DDL parsing, OpenAPI and the
code generators. Compile-time reflection and DTO shapes keep no state. The bytes of the
cache codec. Hooks, interceptors and event handlers that open scopes, commit or roll back
themselves, and handlers that raise events on the queue that is being walked. Executors
without transactions, for which `commit()` is a flush. Nested include paths. `components`
in `PROJECT.json` lists every part with its status.
