-------------------------------- MODULE Bulk --------------------------------
(***************************************************************************)
(* Bulk operations (include/metal/bulk.hpp): the rows are cut into chunks,  *)
(* up to `concurrency' workers claim chunks by an atomic counter, each      *)
(* chunk is one statement (one per row for bulk_update), a callback follows *)
(* it, and the first failure stops the others from claiming more.  The      *)
(* whole call may run inside a transaction of the session.  Statements are  *)
(* what dml.hpp compiles, executed one at a time by the executor.           *)
(***************************************************************************)
EXTENDS Naturals, FiniteSets, Sequences, SequencesExt

CONSTANTS
  Keys, Vals,
  Null, Absent,     \* a NULL data column; no row with this key
  Missing,          \* a column a bulk row does not assign
  Calls,            \* the calls explored: records of CallType
  Tables,           \* the tables they start from
  Workers,          \* 1..n
  Idle

Ops == {"insert", "update", "updateWhere", "delete", "deleteWhere", "upsert"}
BulkRows == [key : Keys \union {Missing}, val : Vals \union {Missing}]
CallType == [op : Ops, rows : Seq(BulkRows), size : Nat, concurrency : Nat,
             transactional : BOOLEAN, callback : BOOLEAN, where : SUBSET (Vals \union {Null})]

ASSUME BulkAssumption ==
  /\ Null \notin Vals /\ Absent \notin Vals \union {Null} /\ Missing \notin Keys \union Vals
  /\ Tables \subseteq [Keys -> Vals \union {Null, Absent}]
  /\ Calls \subseteq CallType
  /\ \A c \in Calls : /\ c.rows # <<>>
                      /\ \A i \in DOMAIN c.rows :       \* no empty row; inserts name their key
                           \/ c.rows[i].key # Missing
                           \/ c.op \notin {"insert", "upsert"} /\ c.rows[i].val # Missing
  /\ Workers # {} /\ IsFiniteSet(Workers) /\ Workers = 1..Cardinality(Workers)

VARIABLES
  call, table,
  before,           \* the table when the call began: what a rollback restores
  phase,            \* "running" | "joined" | "done"
  next, failed, error,
  worker,           \* worker -> [at, chunk, row]
  outcomes,         \* chunk -> [rows, returning] or Idle
  result,           \* what the call returns or Idle
  applied           \* history: the rows whose statement has run

vars == <<call, table, before, phase, next, failed, error, worker, outcomes, result, applied>>

-----------------------------------------------------------------------------
(* Statements: dml.hpp's builders and what the database does with them.     *)
(* Each gives [ok, table, returning].                                      *)
Cols(r)       == {c \in {"key", "val"} : r[c] # Missing}
Refused(t)    == [ok |-> FALSE, table |-> t, returning |-> <<>>]
Matches(t, k, W) == t[k] \in W

(* INSERT: the columns are those of the first row; a row without one of     *)
(* them is refused and a column only later rows have is dropped.            *)
ValueIn(chunk, i) == IF "val" \in Cols(chunk[1]) THEN chunk[i].val ELSE Null
Compiles(chunk)   == \A i \in DOMAIN chunk : Cols(chunk[1]) \subseteq Cols(chunk[i])

Inserted(t, chunk) ==
  LET keys == {chunk[i].key : i \in DOMAIN chunk}
      row(k) == CHOOSE i \in DOMAIN chunk : chunk[i].key = k
  IN  IF /\ Compiles(chunk)
         /\ Cardinality(keys) = Len(chunk)
         /\ \A k \in keys : t[k] = Absent
      THEN [ok |-> TRUE, returning |-> [i \in DOMAIN chunk |-> chunk[i].key],
            table |-> [k \in Keys |-> IF k \in keys THEN ValueIn(chunk, row(k)) ELSE t[k]]]
      ELSE Refused(t)

(* ON CONFLICT (key): DO NOTHING without update columns, else DO UPDATE SET  *)
(* val = excluded.val; rows one after the other.                           *)
UpsertRow(acc, chunk, i, updates) ==
  LET k == chunk[i].key
  IN  IF acc.table[k] # Absent /\ ~updates THEN acc
      ELSE [acc EXCEPT !.table[k] = ValueIn(chunk, i), !.returning = Append(@, k)]
Upserted(t, chunk, updates) ==
  LET upto[n \in 0..Len(chunk)] ==
        IF n = 0 THEN [ok |-> TRUE, table |-> t, returning |-> <<>>]
        ELSE UpsertRow(upto[n - 1], chunk, n, updates)
  IN  IF Compiles(chunk) THEN upto[Len(chunk)] ELSE Refused(t)

(* UPDATE ... WHERE key = ? (or IN ...) AND the extra predicate.             *)
Set(t, keys, v, W) ==
  LET hit == {k \in Keys : k \in ToSet(keys) /\ Matches(t, k, W)}
  IN  [ok |-> TRUE, table |-> [k \in Keys |-> IF k \in hit THEN v ELSE t[k]],
       returning |-> SetToSeq(hit)]

Deleted(t, keys, W) ==
  [ok |-> TRUE, returning |-> <<>>,
   table |-> [k \in Keys |-> IF k \in ToSet(keys) /\ Matches(t, k, W) THEN Absent ELSE t[k]]]

-----------------------------------------------------------------------------
(* One step of a chunk: the whole chunk, or one row of bulk_update.         *)
PerRow(c)     == c.op = "update"
Chunks(c)     == IF c.op = "deleteWhere" THEN 1 ELSE (Len(c.rows) + c.size - 1) \div c.size
First(c, n)   == (n - 1) * c.size + 1
LastRow(c, n) == IF n * c.size < Len(c.rows) THEN n * c.size ELSE Len(c.rows)
ChunkRows(c, n)   == IF c.op = "deleteWhere" THEN c.rows ELSE SubSeq(c.rows, First(c, n), LastRow(c, n))
KeysOf(chunk)     == [i \in DOMAIN chunk |-> chunk[i].key]

(* bulk_upsert takes the columns to update from the first row of the call.  *)
UpdatesVal(c) == "val" \in Cols(c.rows[1])

(* bulk_delete takes the chunk's keys, bulk_delete_where only its predicate. *)
DeletesRows(c, t, chunk) ==
  Deleted(t, IF c.op = "deleteWhere" THEN SetToSeq(Keys) ELSE KeysOf(chunk), c.where)

Executed(c, t, chunk, r) ==
  CASE c.op = "insert"      -> Inserted(t, chunk)
    [] c.op = "upsert"      -> Upserted(t, chunk, UpdatesVal(c))
    [] c.op = "updateWhere" -> Set(t, KeysOf(chunk), c.rows[1].val, c.where)
    [] c.op \in {"delete", "deleteWhere"} -> DeletesRows(c, t, chunk)
    [] c.op = "update"      -> IF chunk[r].key = Missing THEN Refused(t)
                               ELSE IF chunk[r].val = Missing
                               THEN [ok |-> TRUE, table |-> t, returning |-> <<>>]
                               ELSE Set(t, <<chunk[r].key>>, chunk[r].val, c.where)

WorkerCount == IF call.concurrency = 1 \/ Chunks(call) = 1 THEN 1
               ELSE IF call.concurrency < Chunks(call) THEN call.concurrency ELSE Chunks(call)
Team        == {w \in Workers : w <= WorkerCount}
Looping     == [at |-> "check", chunk |-> 0, row |-> 0, returning |-> <<>>]
Off         == [Looping EXCEPT !.at = "exit"]

(* validate_base_options() and the checks the operations start with.        *)
Valid(c) == /\ c.size >= 1 /\ c.concurrency >= 1
            /\ c.op = "updateWhere" => c.rows[1].val # Missing

Init ==
  /\ call \in Calls /\ table \in Tables
  /\ before = table
  /\ phase = "running"
  /\ next = 1 /\ failed = FALSE /\ error = FALSE
  /\ worker = [w \in Workers |-> IF Valid(call) /\ w \in Team THEN Looping ELSE Off]
  /\ outcomes = [n \in 1..(IF Valid(call) THEN Chunks(call) ELSE 0) |-> Idle]
  /\ result = Idle /\ applied = {}

At(w, place)   == worker[w].at = place
Go(w, place)   == worker' = [worker EXCEPT ![w].at = place]

(* while (!failed.load()).                                                 *)
Check(w) ==
  /\ At(w, "check")
  /\ Go(w, IF failed THEN "exit" ELSE "claim")
  /\ UNCHANGED <<call, table, before, phase, next, failed, error, outcomes, result, applied>>

(* next.fetch_add(1).                                                      *)
Claim(w) ==
  /\ At(w, "claim")
  /\ worker' = [worker EXCEPT ![w] = IF next > Chunks(call) THEN Off
                    ELSE [at |-> "execute", chunk |-> next, row |-> 1, returning |-> <<>>]]
  /\ next' = next + 1
  /\ UNCHANGED <<call, table, before, phase, failed, error, outcomes, result, applied>>

(* One statement of the chunk.                                             *)
RowsRun(w) == IF PerRow(call) THEN {First(call, worker[w].chunk) + worker[w].row - 1}
              ELSE IF call.op = "deleteWhere" THEN DOMAIN call.rows
              ELSE First(call, worker[w].chunk)..LastRow(call, worker[w].chunk)

Execute(w) ==
  /\ At(w, "execute")
  /\ LET chunk == ChunkRows(call, worker[w].chunk)
         done  == Executed(call, table, chunk, worker[w].row)
         last  == ~PerRow(call) \/ worker[w].row = Len(chunk)
     IN  /\ done.ok
         /\ table' = done.table
         /\ worker' = [worker EXCEPT ![w].at = IF last THEN "report" ELSE "execute",
                                     ![w].row = @ + 1,
                                     ![w].returning = @ \o done.returning]
  /\ applied' = applied \union RowsRun(w)
  /\ UNCHANGED <<call, before, phase, next, failed, error, outcomes, result>>

(* The statement is refused by the builder or by the database, or the      *)
(* executor throws.                                                        *)
ExecuteFails(w) ==
  /\ At(w, "execute")
  /\ Go(w, "catch")
  /\ UNCHANGED <<call, table, before, phase, next, failed, error, outcomes, result, applied>>

(* on_chunk_complete and the outcome of the chunk.                         *)
FirstFreeSlot(w) == CHOOSE n \in DOMAIN outcomes :     \* mutant: outcomes in order of completion
                      outcomes[n] = Idle /\ \A m \in DOMAIN outcomes : outcomes[m] = Idle => m >= n
OutcomeSlot(w) == worker[w].chunk
Report(w) ==
  /\ At(w, "report")
  /\ outcomes' = [outcomes EXCEPT ![OutcomeSlot(w)] =
                    [rows |-> IF call.op = "deleteWhere" THEN 0 ELSE Len(ChunkRows(call, worker[w].chunk)),
                     returning |-> worker[w].returning]]
  /\ Go(w, "check")
  /\ UNCHANGED <<call, table, before, phase, next, failed, error, result, applied>>

CallbackThrows(w) ==
  /\ At(w, "report") /\ call.callback
  /\ Go(w, "catch")
  /\ UNCHANGED <<call, table, before, phase, next, failed, error, outcomes, result, applied>>

(* The handler keeps the first error, then publishes the flag.             *)
Catch(w) ==
  /\ At(w, "catch")
  /\ error' = TRUE
  /\ Go(w, "publish")
  /\ UNCHANGED <<call, table, before, phase, next, failed, outcomes, result, applied>>

Publish(w) ==
  /\ At(w, "publish")
  /\ failed' = TRUE
  /\ Go(w, "exit")
  /\ UNCHANGED <<call, table, before, phase, next, error, outcomes, result, applied>>

(* The jthreads are joined before the error is looked at.                  *)
FirstError  == failed \/ \A w \in Workers : At(w, "exit")    \* mutant: the caller leaves at the first error
AllReported == \A n \in DOMAIN outcomes : outcomes[n] # Idle  \* mutant: a latch counts completed chunks
AllJoined   == \A w \in Workers : At(w, "exit")
Join ==
  /\ phase = "running" /\ AllJoined
  /\ phase' = "joined"
  /\ UNCHANGED <<call, table, before, next, failed, error, worker, outcomes, result, applied>>

Failure     == [ok |-> FALSE, processed |-> 0, chunks |-> 0, returning |-> <<>>]
WithOutcome(acc, o) ==
  [ok |-> TRUE, processed |-> acc.processed + o.rows, chunks |-> acc.chunks + 1,
   returning |-> acc.returning \o o.returning]
Aggregated  ==
  LET upto[n \in 0..Len(outcomes)] ==
        IF n = 0 THEN [ok |-> TRUE, processed |-> 0, chunks |-> 0, returning |-> <<>>]
        ELSE WithOutcome(upto[n - 1], outcomes[n])
  IN  upto[Len(outcomes)]

(* maybe_transaction(): the scope commits or rolls back.                    *)
Finish ==
  /\ phase = "joined"
  /\ phase' = "done"
  /\ \/ ~error /\ Valid(call) /\ result' = Aggregated /\ UNCHANGED table
     \/ /\ error \/ ~Valid(call) \/ call.transactional        \* the last: COMMIT fails
        /\ result' = Failure
        /\ table' = IF call.transactional THEN before ELSE table
  /\ UNCHANGED <<call, before, next, failed, error, worker, outcomes, applied>>

Step(w) == \/ Check(w) \/ Claim(w) \/ Execute(w) \/ ExecuteFails(w)
           \/ Report(w) \/ CallbackThrows(w) \/ Catch(w) \/ Publish(w)
Next == (\E w \in Workers : Step(w)) \/ Join \/ Finish
Spec == Init /\ [][Next]_vars

(* The workers are threads, the caller waits for them; callbacks and       *)
(* statements return or throw.                                             *)
FairSpec == Spec /\ (\A w \in Workers : WF_vars(Step(w))) /\ WF_vars(Join) /\ WF_vars(Finish)

-----------------------------------------------------------------------------
(* Properties.                                                             *)

(* What the rows in `some' do to a table one statement per row, in order.   *)
Alone(c, i) == [c EXCEPT !.rows = <<c.rows[i]>>, !.size = 1]
Also(acc, c, i) ==
  LET o == Executed(Alone(c, i), acc.table, <<c.rows[i]>>, 1)
  IN  [table |-> o.table, returning |-> acc.returning \o o.returning]
RowByRow(c, t, some) ==
  LET upto[n \in 0..Len(c.rows)] ==
        IF n = 0 THEN [table |-> t, returning |-> <<>>]
        ELSE IF n \in some THEN Also(upto[n - 1], c, n) ELSE upto[n - 1]
  IN  upto[Len(c.rows)]

Uniform(c)  == \A i \in DOMAIN c.rows : Cols(c.rows[i]) = Cols(c.rows[1])
Distinct(c) == \A i, j \in DOMAIN c.rows : c.rows[i].key = c.rows[j].key => i = j
Comparable(c) == Valid(c) /\ Uniform(c) /\ (Distinct(c) \/ WorkerCount = 1)

(* A call that returns has executed every row once, with the effect and the *)
(* RETURNING rows of one statement per row in the order of the input,       *)
(* whatever the chunk size and the number of workers.                      *)
EveryRowRuns == phase = "done" /\ result.ok => applied = DOMAIN call.rows
SuccessIsWhole ==
  /\ EveryRowRuns
  /\ phase = "done" /\ result.ok =>
       /\ call.op # "deleteWhere" => result.processed = Len(call.rows)
       /\ Comparable(call) /\ call.op \notin {"updateWhere", "deleteWhere"} =>
            LET whole == RowByRow(call, before, DOMAIN call.rows)
            IN  table = whole.table /\ result.returning = whole.returning

(* A call that throws leaves the table as it was when it is transactional,  *)
(* and otherwise with exactly the chunks (for bulk_update: the rows) whose   *)
(* statement ran.                                                          *)
RollsBack == phase = "done" /\ ~result.ok /\ call.transactional => table = before
WholeChunks ==
  Valid(call) /\ ~PerRow(call) =>
    \A n \in 1..Chunks(call) :
      LET rowsOf == First(call, n)..LastRow(call, n)
      IN  rowsOf \subseteq applied \/ rowsOf \intersect applied = {}
FailureIsClean ==
  /\ RollsBack /\ WholeChunks
  /\ /\ phase = "done" /\ ~result.ok /\ ~call.transactional
     /\ Comparable(call) /\ call.op \notin {"updateWhere", "deleteWhere"}
     => table = RowByRow(call, before, applied).table

(* Whatever fails, the call comes back: no worker waits for another.        *)
CallReturns == <>(phase = "done")
=============================================================================
