---------------------------- MODULE BulkProofs ------------------------------
(***************************************************************************)
(* Proofs about module Bulk, for every call, chunk size, number of workers *)
(* and failure: each row runs once, a call that returns has run them all   *)
(* with the effect of one statement per row, and one that fails has rolled *)
(* back or stopped between chunks with the effect of those that ran.       *)
(***************************************************************************)
EXTENDS Bulk, Integers, FiniteSetTheorems, SequenceTheorems, NaturalsInduction,
        WellFoundedInduction, TLAPS

(* Counting up: what holds of 0 and of the successor of each number it      *)
(* holds of, holds of all the numbers up to n.                              *)
LEMMA Upwards ==
  ASSUME NEW n \in Nat, NEW S, 0 \in S, \A m \in 0..(n - 1) : m \in S => m + 1 \in S
  PROVE  \A m \in 0..n : m \in S
<1> DEFINE T == (0..n) \ S
<1> SUFFICES ASSUME T # {} PROVE FALSE
  OBVIOUS
<1>1. T \subseteq Nat
  OBVIOUS
<1>2. PICK x \in T : \A y \in T : ~(<<y, x>> \in OpToRel(<, Nat))
  BY <1>1, NatLessThanWellFounded, WFMin
<1>3. x \in 1..n /\ x - 1 \notin S
  OBVIOUS
<1>4. x - 1 \in T
  BY <1>3
<1>5. x - 1 \in Nat /\ x \in Nat /\ x - 1 < x
  BY <1>3
<1>6. <<x - 1, x>> \in OpToRel(<, Nat)
  BY <1>5 DEF OpToRel
<1> QED
  BY <1>2, <1>4, <1>6

(* A run of the loop of RowByRow.                                           *)
Start(t) == [table |-> t, returning |-> <<>>]
Turn(acc, c, some, n) == IF n \in some THEN Also(acc, c, n) ELSE acc
Reading(g, c, t, some) ==
  [n \in 0..Len(c.rows) |-> IF n = 0 THEN Start(t) ELSE Turn(g[n - 1], c, some, n)]
Reads(g, c, t, some, n) ==
  DOMAIN g = 0..n /\ g[0] = Start(t) /\ \A k \in 1..n : g[k] = Turn(g[k - 1], c, some, k)

(* The recursive function of RowByRow exists.                               *)
LEMMA RowByRowLoops ==
  ASSUME NEW c, NEW t, NEW some, Len(c.rows) \in Nat
  PROVE  \E g : Reads(g, c, t, some, Len(c.rows)) /\ RowByRow(c, t, some) = g[Len(c.rows)]
<1> DEFINE N == Len(c.rows)
<1> DEFINE T(h, n) == h = [x \in DOMAIN h |-> h[x]] /\ Reads(h, c, t, some, n)
<1> DEFINE S == {n \in 0..N : \E h : T(h, n)}
<1>1. N \in Nat
  OBVIOUS
<1>2. 0 \in S
  <2> DEFINE h == [n \in 0..0 |-> Start(t)]
  <2>1. T(h, 0)
    BY DEF Reads
  <2> QED
    BY <1>1, <2>1
<1>3. \A m \in 0..(N - 1) : m \in S => m + 1 \in S
  <2> SUFFICES ASSUME NEW m \in 0..(N - 1), m \in S PROVE \E h : T(h, m + 1)
    BY <1>1
  <2>1. PICK g : T(g, m)
    OBVIOUS
  <2> DEFINE h == [n \in 0..(m + 1) |-> IF n = m + 1 THEN Turn(g[m], c, some, m + 1) ELSE g[n]]
  <2>2. DOMAIN h = 0..(m + 1) /\ h[0] = g[0] /\ h[m + 1] = Turn(g[m], c, some, m + 1)
        /\ \A n \in 0..m : h[n] = g[n]
    BY <1>1
  <2>3. h = [x \in DOMAIN h |-> h[x]]
    OBVIOUS
  <2> HIDE DEF h
  <2>4. ASSUME NEW k \in 1..(m + 1) PROVE h[k] = Turn(h[k - 1], c, some, k)
    <3>1. CASE k = m + 1
      <4>1. k - 1 = m /\ m \in 0..m
        BY <1>1, <3>1
      <4>2. h[k - 1] = g[m]
        BY <2>2, <4>1
      <4> QED
        BY <2>2, <3>1, <4>2
    <3>2. CASE k # m + 1
      <4>1. k \in 1..m /\ k - 1 \in 0..m /\ k \in 0..m
        BY <1>1, <3>2
      <4> QED
        BY <2>1, <2>2, <4>1 DEF Reads
    <3> QED
      BY <3>1, <3>2
  <2>5. T(h, m + 1)
    BY <2>1, <2>2, <2>3, <2>4 DEF Reads
  <2> QED
    BY <2>5
<1>4. N \in S
  <2> HIDE DEF S, N
  <2>1. \A m \in 0..N : m \in S
    BY <1>1, <1>2, <1>3, Upwards
  <2> QED
    BY <1>1, <2>1
<1>5. PICK h : T(h, N)
  BY <1>4
<1>6. h = Reading(h, c, t, some)
  <2>1. DOMAIN h = 0..N /\ \A n \in 0..N : h[n] = Reading(h, c, t, some)[n]
    BY <1>5 DEF Reads, Reading
  <2>2. Reading(h, c, t, some) = [n \in 0..N |-> Reading(h, c, t, some)[n]]
    BY DEF Reading
  <2> QED
    BY <1>5, <2>1, <2>2
<1> DEFINE k == CHOOSE g : g = Reading(g, c, t, some)
<1>7. k = Reading(k, c, t, some)
  BY <1>6
<1>8. RowByRow(c, t, some) = k[N]
  BY DEF RowByRow, Reading, Start, Turn
<1> HIDE DEF k
<1>9. Reads(k, c, t, some, N)
  <2>1. DOMAIN k = 0..N
    BY <1>7 DEF Reading
  <2>2. \A n \in 0..N : k[n] = IF n = 0 THEN Start(t) ELSE Turn(k[n - 1], c, some, n)
    BY <1>7 DEF Reading
  <2>3. 0 \in 0..N /\ \A n \in 1..N : n \in 0..N /\ n # 0
    BY <1>1
  <2>4. k[0] = Start(t) /\ \A n \in 1..N : k[n] = Turn(k[n - 1], c, some, n)
    BY <2>2, <2>3
  <2> QED
    BY <2>1, <2>4 DEF Reads
<1> QED
  BY <1>8, <1>9

(* A run of the loop over the rows of an upsert.                            *)
Unchanged(t) == [ok |-> TRUE, table |-> t, returning |-> <<>>]
Putting(g, t, chunk, updates) ==
  [n \in 0..Len(chunk) |-> IF n = 0 THEN Unchanged(t) ELSE UpsertRow(g[n - 1], chunk, n, updates)]
Puts(g, t, chunk, updates, n) ==
  /\ DOMAIN g = 0..n /\ g[0] = Unchanged(t)
  /\ \A k \in 1..n : g[k] = UpsertRow(g[k - 1], chunk, k, updates)

(* The recursive function of Upserted exists.                               *)
LEMMA UpsertedLoops ==
  ASSUME NEW t, NEW chunk, NEW updates, Len(chunk) \in Nat, Compiles(chunk)
  PROVE  \E g : Puts(g, t, chunk, updates, Len(chunk)) /\ Upserted(t, chunk, updates) = g[Len(chunk)]
<1> DEFINE N == Len(chunk)
<1> DEFINE T(h, n) == h = [x \in DOMAIN h |-> h[x]] /\ Puts(h, t, chunk, updates, n)
<1> DEFINE S == {n \in 0..N : \E h : T(h, n)}
<1>1. N \in Nat
  OBVIOUS
<1>2. 0 \in S
  <2> DEFINE h == [n \in 0..0 |-> Unchanged(t)]
  <2>1. T(h, 0)
    BY DEF Puts
  <2> QED
    BY <1>1, <2>1
<1>3. \A m \in 0..(N - 1) : m \in S => m + 1 \in S
  <2> SUFFICES ASSUME NEW m \in 0..(N - 1), m \in S PROVE \E h : T(h, m + 1)
    BY <1>1
  <2>1. PICK g : T(g, m)
    OBVIOUS
  <2> DEFINE h == [n \in 0..(m + 1) |-> IF n = m + 1 THEN UpsertRow(g[m], chunk, m + 1, updates) ELSE g[n]]
  <2>2. DOMAIN h = 0..(m + 1) /\ h[0] = g[0] /\ h[m + 1] = UpsertRow(g[m], chunk, m + 1, updates)
        /\ \A n \in 0..m : h[n] = g[n]
    BY <1>1
  <2>3. h = [x \in DOMAIN h |-> h[x]]
    OBVIOUS
  <2> HIDE DEF h
  <2>4. ASSUME NEW k \in 1..(m + 1) PROVE h[k] = UpsertRow(h[k - 1], chunk, k, updates)
    <3>1. CASE k = m + 1
      <4>1. k - 1 = m /\ m \in 0..m
        BY <1>1, <3>1
      <4>2. h[k - 1] = g[m]
        BY <2>2, <4>1
      <4> QED
        BY <2>2, <3>1, <4>2
    <3>2. CASE k # m + 1
      <4>1. k \in 1..m /\ k - 1 \in 0..m /\ k \in 0..m
        BY <1>1, <3>2
      <4> QED
        BY <2>1, <2>2, <4>1 DEF Puts
    <3> QED
      BY <3>1, <3>2
  <2>5. T(h, m + 1)
    BY <2>1, <2>2, <2>3, <2>4 DEF Puts
  <2> QED
    BY <2>5
<1>4. N \in S
  <2> HIDE DEF S, N
  <2>1. \A m \in 0..N : m \in S
    BY <1>1, <1>2, <1>3, Upwards
  <2> QED
    BY <1>1, <2>1
<1>5. PICK h : T(h, N)
  BY <1>4
<1>6. h = Putting(h, t, chunk, updates)
  <2>1. DOMAIN h = 0..N /\ \A n \in 0..N : h[n] = Putting(h, t, chunk, updates)[n]
    BY <1>5 DEF Puts, Putting
  <2>2. Putting(h, t, chunk, updates) = [n \in 0..N |-> Putting(h, t, chunk, updates)[n]]
    BY DEF Putting
  <2> QED
    BY <1>5, <2>1, <2>2
<1> DEFINE k == CHOOSE g : g = Putting(g, t, chunk, updates)
<1>7. k = Putting(k, t, chunk, updates)
  BY <1>6
<1>8. Upserted(t, chunk, updates) = k[N]
  BY DEF Upserted, Putting, Unchanged
<1> HIDE DEF k
<1>9. Puts(k, t, chunk, updates, N)
  <2>1. DOMAIN k = 0..N
    BY <1>7 DEF Putting
  <2>2. \A n \in 0..N : k[n] = IF n = 0 THEN Unchanged(t) ELSE UpsertRow(k[n - 1], chunk, n, updates)
    BY <1>7 DEF Putting
  <2>3. 0 \in 0..N /\ \A n \in 1..N : n \in 0..N /\ n # 0
    BY <1>1
  <2>4. k[0] = Unchanged(t) /\ \A n \in 1..N : k[n] = UpsertRow(k[n - 1], chunk, n, updates)
    BY <2>2, <2>3
  <2> QED
    BY <2>1, <2>4 DEF Puts
<1> QED
  BY <1>8, <1>9

(* A run of the loop of aggregate().                                        *)
Nothing == [ok |-> TRUE, processed |-> 0, chunks |-> 0, returning |-> <<>>]
Summing(g, all) ==
  [n \in 0..Len(all) |-> IF n = 0 THEN Nothing ELSE WithOutcome(g[n - 1], all[n])]
Sums(g, all, n) ==
  DOMAIN g = 0..n /\ g[0] = Nothing /\ \A k \in 1..n : g[k] = WithOutcome(g[k - 1], all[k])

(* The recursive function of Aggregated exists.                             *)
LEMMA AggregatedLoops ==
  ASSUME NEW all, all = outcomes, Len(all) \in Nat
  PROVE  \E g : Sums(g, all, Len(all)) /\ Aggregated = g[Len(all)]
<1> DEFINE N == Len(all)
<1> DEFINE T(h, n) == h = [x \in DOMAIN h |-> h[x]] /\ Sums(h, all, n)
<1> DEFINE S == {n \in 0..N : \E h : T(h, n)}
<1>1. N \in Nat
  OBVIOUS
<1>2. 0 \in S
  <2> DEFINE h == [n \in 0..0 |-> Nothing]
  <2>1. T(h, 0)
    BY DEF Sums
  <2> QED
    BY <1>1, <2>1
<1>3. \A m \in 0..(N - 1) : m \in S => m + 1 \in S
  <2> SUFFICES ASSUME NEW m \in 0..(N - 1), m \in S PROVE \E h : T(h, m + 1)
    BY <1>1
  <2>1. PICK g : T(g, m)
    OBVIOUS
  <2> DEFINE h == [n \in 0..(m + 1) |-> IF n = m + 1 THEN WithOutcome(g[m], all[m + 1]) ELSE g[n]]
  <2>2. DOMAIN h = 0..(m + 1) /\ h[0] = g[0] /\ h[m + 1] = WithOutcome(g[m], all[m + 1])
        /\ \A n \in 0..m : h[n] = g[n]
    BY <1>1
  <2>3. h = [x \in DOMAIN h |-> h[x]]
    OBVIOUS
  <2> HIDE DEF h
  <2>4. ASSUME NEW k \in 1..(m + 1) PROVE h[k] = WithOutcome(h[k - 1], all[k])
    <3>1. CASE k = m + 1
      <4>1. k - 1 = m /\ m \in 0..m
        BY <1>1, <3>1
      <4>2. h[k - 1] = g[m]
        BY <2>2, <4>1
      <4> QED
        BY <2>2, <3>1, <4>2
    <3>2. CASE k # m + 1
      <4>1. k \in 1..m /\ k - 1 \in 0..m /\ k \in 0..m
        BY <1>1, <3>2
      <4> QED
        BY <2>1, <2>2, <4>1 DEF Sums
    <3> QED
      BY <3>1, <3>2
  <2>5. T(h, m + 1)
    BY <2>1, <2>2, <2>3, <2>4 DEF Sums
  <2> QED
    BY <2>5
<1>4. N \in S
  <2> HIDE DEF S, N
  <2>1. \A m \in 0..N : m \in S
    BY <1>1, <1>2, <1>3, Upwards
  <2> QED
    BY <1>1, <2>1
<1>5. PICK h : T(h, N)
  BY <1>4
<1>6. h = Summing(h, all)
  <2>1. DOMAIN h = 0..N /\ \A n \in 0..N : h[n] = Summing(h, all)[n]
    BY <1>5 DEF Sums, Summing
  <2>2. Summing(h, all) = [n \in 0..N |-> Summing(h, all)[n]]
    BY DEF Summing
  <2> QED
    BY <1>5, <2>1, <2>2
<1> DEFINE k == CHOOSE g : g = Summing(g, all)
<1>7. k = Summing(k, all)
  BY <1>6
<1>8. Aggregated = k[N]
  BY DEF Aggregated, Summing, Nothing
<1> HIDE DEF k
<1>9. Sums(k, all, N)
  <2>1. DOMAIN k = 0..N
    BY <1>7 DEF Summing
  <2>2. \A n \in 0..N : k[n] = IF n = 0 THEN Nothing ELSE WithOutcome(k[n - 1], all[n])
    BY <1>7 DEF Summing
  <2>3. 0 \in 0..N /\ \A n \in 1..N : n \in 0..N /\ n # 0
    BY <1>1
  <2>4. k[0] = Nothing /\ \A n \in 1..N : k[n] = WithOutcome(k[n - 1], all[n])
    BY <2>2, <2>3
  <2> QED
    BY <2>1, <2>4 DEF Sums
<1> QED
  BY <1>8, <1>9

-----------------------------------------------------------------------------
(* total_chunks is row_count / chunk_size rounded up: the chunks cover the *)
(* rows and the last one is not empty.                                     *)
LEMMA Tiles ==
  ASSUME NEW L \in Nat \ {0}, NEW s \in Nat \ {0}
  PROVE  LET K == (L + s - 1) \div s IN
         /\ K \in Nat \ {0} /\ (K - 1) * s < L /\ L <= K * s
         /\ \A i \in 1..L : \E n \in 1..K : (n - 1) * s < i /\ i <= n * s
<1> DEFINE K == (L + s - 1) \div s
<1>1. K \in Int /\ K * s <= L + s - 1 /\ L + s - 1 < K * s + s
  BY SMT
<1>2. K \in Nat \ {0}
  <2> SUFFICES ASSUME K <= 0 PROVE FALSE
    BY <1>1
  <2>1. K * s <= 0
    BY <1>1
  <2> QED
    BY <1>1, <2>1
<1>3. (K - 1) * s = K * s - s
  BY <1>1
<1>4. ASSUME NEW i \in 1..L
      PROVE  \E n \in 1..K : (n - 1) * s < i /\ i <= n * s
  <2> DEFINE n == (i + s - 1) \div s
  <2>1. n \in Int /\ n * s <= i + s - 1 /\ i + s - 1 < n * s + s
    BY SMT
  <2>2. (n - 1) * s = n * s - s
    BY <2>1
  <2>3. n >= 1
    <3> SUFFICES ASSUME n <= 0 PROVE FALSE
      BY <2>1
    <3>1. n * s <= 0
      BY <2>1
    <3> QED
      BY <2>1, <3>1
  <2>4. n <= K
    <3> SUFFICES ASSUME n >= K + 1 PROVE FALSE
      BY <1>1, <2>1
    <3>1. n * s >= K * s + s
      BY <1>1, <2>1
    <3> QED
      BY <1>1, <2>1, <3>1
  <2> HIDE DEF n, K
  <2>5. n \in 1..K
    BY <1>1, <2>1, <2>3, <2>4
  <2>6. (n - 1) * s < i /\ i <= n * s
    BY <2>1, <2>2
  <2> QED
    BY <2>5, <2>6
<1>5. (K - 1) * s < L /\ L <= K * s
  BY <1>1, <1>3
<1> HIDE DEF K
<1>6. K \in Nat \ {0} /\ (K - 1) * s < L /\ L <= K * s
      /\ \A i \in 1..L : \E n \in 1..K : (n - 1) * s < i /\ i <= n * s
  BY <1>2, <1>4, <1>5
<1> QED
  BY <1>6 DEF K

(* A chunk ends where the next begins.                                     *)
LEMMA TilesApart ==
  ASSUME NEW s \in Nat, NEW n \in Nat, NEW m \in Nat, n < m
  PROVE  n * s <= (m - 1) * s
<1> DEFINE k == m - 1 - n
<1>1. k \in Nat /\ m - 1 = n + k
  OBVIOUS
<1> HIDE DEF k
<1>2. k * s \in Nat /\ n * s \in Nat
  BY <1>1
<1>3. (n + k) * s = n * s + k * s
  BY <1>1
<1> QED
  BY <1>1, <1>2, <1>3

(* The rows of a chunk, as positions.                                      *)
RowsOf(n) == First(call, n)..LastRow(call, n)

(* begin and end of a chunk of a valid call lie among its rows, every row  *)
(* is in a chunk, and no row is in two.                                    *)
LEMMA Chunking ==
  ASSUME call \in Calls, Valid(call)
  PROVE  /\ Chunks(call) \in Nat \ {0}
         /\ \A n \in 1..Chunks(call) :
              /\ First(call, n) \in 1..Len(call.rows) /\ LastRow(call, n) \in 1..Len(call.rows)
              /\ First(call, n) <= LastRow(call, n)
              /\ call.op # "deleteWhere" =>
                   /\ Len(ChunkRows(call, n)) = LastRow(call, n) - First(call, n) + 1
         /\ call.op # "deleteWhere" =>
              \A i \in DOMAIN call.rows : \E n \in 1..Chunks(call) : i \in RowsOf(n)
         /\ \A n, m \in 1..Chunks(call) : n # m => RowsOf(n) \intersect RowsOf(m) = {}
<1> DEFINE L == Len(call.rows)
           s == call.size
           K == (L + s - 1) \div s
<1>1. call.rows \in Seq(BulkRows) /\ call.rows # <<>> /\ s \in Nat \ {0}
  BY BulkAssumption DEF BulkAssumption, CallType, Valid
<1>2. L \in Nat \ {0} /\ DOMAIN call.rows = 1..L
  BY <1>1
<1>3. /\ K \in Nat \ {0} /\ (K - 1) * s < L /\ L <= K * s
      /\ \A i \in 1..L : \E n \in 1..K : (n - 1) * s < i /\ i <= n * s
  BY <1>1, <1>2, Tiles
<1>4. Chunks(call) = IF call.op = "deleteWhere" THEN 1 ELSE K
  BY DEF Chunks
<1> HIDE DEF L, s, K
<1>5. ASSUME NEW n \in 1..Chunks(call)
      PROVE  /\ n \in Nat \ {0} /\ (n - 1) * s \in Nat /\ n * s = (n - 1) * s + s /\ (n - 1) * s < L
             /\ First(call, n) = (n - 1) * s + 1
             /\ LastRow(call, n) = IF n * s < L THEN n * s ELSE L
  <2>1. n \in Nat \ {0} /\ n \in 1..K
    BY <1>3, <1>4
  <2>2. (n - 1) * s \in Nat /\ n * s = (n - 1) * s + s
    BY <2>1, <1>1
  <2>3. (n - 1) * s <= (K - 1) * s
    <3>1. CASE n = K
      BY <3>1, <1>3, <1>1
    <3>2. CASE n < K
      <4>1. n * s <= (K - 1) * s
        BY <3>2, <2>1, <1>1, <1>3, TilesApart
      <4> QED
        BY <4>1, <2>2, <1>1, <1>3
    <3> QED
      BY <2>1, <1>3, <3>1, <3>2
  <2>4. (n - 1) * s < L
    BY <2>2, <2>3, <1>1, <1>2, <1>3
  <2> QED
    BY <2>1, <2>2, <2>4 DEF First, LastRow, L, s
<1>6. ASSUME NEW n \in 1..Chunks(call)
      PROVE  /\ First(call, n) \in 1..L /\ LastRow(call, n) \in 1..L
             /\ First(call, n) <= LastRow(call, n)
  BY <1>5, <1>1, <1>2
<1>7. ASSUME NEW n \in 1..Chunks(call), call.op # "deleteWhere"
      PROVE  Len(ChunkRows(call, n)) = LastRow(call, n) - First(call, n) + 1
  <2>1. ChunkRows(call, n) = SubSeq(call.rows, First(call, n), LastRow(call, n))
    BY <1>7 DEF ChunkRows
  <2> QED
    BY <2>1, <1>6, <1>1, <1>2 DEF L
<1>8. ASSUME NEW i \in DOMAIN call.rows, call.op # "deleteWhere"
      PROVE  \E n \in 1..Chunks(call) : i \in RowsOf(n)
  <2>1. PICK n \in 1..K : (n - 1) * s < i /\ i <= n * s
    BY <1>2, <1>3, <1>8
  <2>2. n \in 1..Chunks(call) /\ i \in Nat /\ i <= L
    BY <2>1, <1>2, <1>4, <1>8
  <2> QED
    BY <2>1, <2>2, <1>5, <1>1, <1>2 DEF RowsOf
<1>9. ASSUME NEW n \in 1..Chunks(call), NEW m \in 1..Chunks(call), n < m
      PROVE  RowsOf(n) \intersect RowsOf(m) = {}
  <2>1. n * s <= (m - 1) * s
    BY <1>5, <1>9, <1>1, TilesApart
  <2>2. LastRow(call, n) < First(call, m)
    <3>1. PICK x \in Nat, y \in Nat : x = n * s /\ y = (m - 1) * s
      <4>1. (m - 1) * s \in Nat /\ (n - 1) * s \in Nat /\ n * s = (n - 1) * s + s
        BY <1>5
      <4>2. n * s \in Nat
        BY ONLY <4>1, <1>1
      <4> QED
        BY ONLY <4>1, <4>2
    <3>2. LastRow(call, n) = (IF x < L THEN x ELSE L) /\ First(call, m) = y + 1 /\ x <= y
      <4>1. LastRow(call, n) = (IF n * s < L THEN n * s ELSE L) /\ First(call, m) = (m - 1) * s + 1
        BY <1>5
      <4> QED
        BY ONLY <4>1, <3>1, <2>1
    <3> QED
      BY ONLY <3>2, <1>1, <1>2, x \in Nat, y \in Nat
  <2> QED
    BY <2>2, <1>6, <1>2 DEF RowsOf
<1>10. ASSUME NEW n \in 1..Chunks(call), NEW m \in 1..Chunks(call), n # m
       PROVE  RowsOf(n) \intersect RowsOf(m) = {}
  <2>1. n < m \/ m < n
    BY <1>10, <1>5
  <2> QED
    BY <2>1, <1>9
<1>11. Chunks(call) \in Nat \ {0}
  BY <1>3, <1>4
<1> QED
  BY <1>6, <1>7, <1>8, <1>10, <1>11 DEF L

-----------------------------------------------------------------------------
Places  == {"check", "claim", "execute", "report", "catch", "publish", "exit"}
Busy(w) == worker[w].at \in {"execute", "report", "catch", "publish"}
(* What a chunk has to do.                                                 *)
Task(n) == IF call.op = "deleteWhere" THEN DOMAIN call.rows ELSE RowsOf(n)
(* The rows of its chunk a worker has written so far.                       *)
Written(w) ==
  IF PerRow(call) THEN First(call, worker[w].chunk)..(First(call, worker[w].chunk) + worker[w].row - 2) ELSE {}

TypeOK ==
  /\ call \in Calls /\ next \in Nat \ {0} /\ failed \in BOOLEAN /\ error \in BOOLEAN
  /\ phase \in {"running", "joined", "done"}
  /\ worker = [w \in Workers |-> [at |-> worker[w].at, chunk |-> worker[w].chunk,
                                  row |-> worker[w].row, returning |-> worker[w].returning]]
  /\ \A w \in Workers : worker[w].at \in Places /\ worker[w].chunk \in Nat /\ worker[w].row \in Nat
(* A worker that has a chunk is the only one that has it.                  *)
Claims ==
  /\ \A w \in Workers : Busy(w) =>
       /\ Valid(call) /\ worker[w].chunk \in 1..Chunks(call) /\ worker[w].chunk < next
       /\ \A v \in Workers \ {w} : Busy(v) => worker[v].chunk # worker[w].chunk
  /\ \A w \in Workers : ~At(w, "exit") => Valid(call) /\ phase = "running"
  /\ \A w \in Workers : At(w, "execute") /\ PerRow(call) =>
       worker[w].row \in 1..Len(ChunkRows(call, worker[w].chunk))
(* What has run of the chunks claimed, and nothing of the others.          *)
Progress ==
  /\ applied \subseteq DOMAIN call.rows
  /\ \A w \in Workers : At(w, "execute") => Task(worker[w].chunk) \intersect applied = Written(w)
  /\ \A w \in Workers : At(w, "report") => Task(worker[w].chunk) \subseteq applied
  /\ Valid(call) => \A n \in 1..Chunks(call) :
       /\ n >= next => Task(n) \intersect applied = {}
       /\ n < next => \/ Task(n) \subseteq applied \/ error
                      \/ \E w \in Workers : Busy(w) /\ worker[w].chunk = n
       /\ ~PerRow(call) => Task(n) \subseteq applied \/ Task(n) \intersect applied = {}
(* The flag follows the error; a worker leaves for a reason.               *)
Stops ==
  /\ failed => error
  /\ \A w \in Workers : At(w, "publish") => error
  /\ Valid(call) => \A w \in Team : At(w, "exit") => failed \/ next > Chunks(call)
(* How the call ends.                                                      *)
Ends ==
  /\ outcomes = [n \in 1..(IF Valid(call) THEN Chunks(call) ELSE 0) |-> outcomes[n]]
  /\ phase = "done" /\ result.ok => ~error /\ Valid(call)
  /\ RollsBack
(* The inductive invariant.                                                *)
BulkInv == TypeOK /\ Claims /\ Progress /\ Stops /\ Ends

(* The rows a chunk stands for, bulk_delete_where's only chunk included:   *)
(* some of the call's, not another chunk's, and all of them together.      *)
LEMMA Tasks ==
  ASSUME call \in Calls, Valid(call)
  PROVE  /\ Chunks(call) \in Nat \ {0}
         /\ \A n \in 1..Chunks(call) :
              /\ Task(n) # {} /\ Task(n) \subseteq DOMAIN call.rows /\ RowsOf(n) \subseteq Task(n)
              /\ \A m \in 1..Chunks(call) \ {n} : Task(n) \intersect Task(m) = {}
         /\ \A i \in DOMAIN call.rows : \E n \in 1..Chunks(call) : i \in Task(n)
<1>1. call.rows \in Seq(BulkRows) /\ call.rows # <<>>
  BY BulkAssumption DEF BulkAssumption, CallType
<1>2. DOMAIN call.rows = 1..Len(call.rows) /\ Len(call.rows) \in Nat \ {0}
  BY <1>1
<1>3. CASE call.op = "deleteWhere"
  <2>1. Chunks(call) = 1
    BY <1>3 DEF Chunks
  <2> QED
    BY <1>2, <1>3, <2>1, Chunking DEF Task, RowsOf
<1>4. CASE call.op # "deleteWhere"
  <2>1. \A n : Task(n) = RowsOf(n)
    BY <1>4 DEF Task
  <2>2. ASSUME NEW n \in 1..Chunks(call)
        PROVE  RowsOf(n) # {} /\ RowsOf(n) \subseteq DOMAIN call.rows
    BY <1>2, Chunking DEF RowsOf
  <2>3. ASSUME NEW n \in 1..Chunks(call), NEW m \in 1..Chunks(call) \ {n}
        PROVE  RowsOf(n) \intersect RowsOf(m) = {}
    BY Chunking
  <2>4. Chunks(call) \in Nat \ {0} /\ \A i \in DOMAIN call.rows : \E n \in 1..Chunks(call) : i \in RowsOf(n)
    BY <1>4, Chunking
  <2> QED
    BY <2>1, <2>2, <2>3, <2>4
<1> QED
  BY <1>3, <1>4

(* At least one worker runs.                                               *)
LEMMA TeamStarts ==
  ASSUME call \in Calls, Valid(call)
  PROVE  1 \in Team
<1>1. Cardinality(Workers) \in Nat /\ Workers # {} /\ Workers = 1..Cardinality(Workers)
  BY BulkAssumption, FS_CardinalityType DEF BulkAssumption
<1>2. 1 \in Workers
  BY <1>1
<1>3. call.concurrency \in Nat \ {0} /\ Chunks(call) \in Nat \ {0}
  BY Tasks, BulkAssumption DEF BulkAssumption, CallType, Valid
<1>4. WorkerCount \in {1, call.concurrency, Chunks(call)}
  BY Zenon DEF WorkerCount
<1>5. 1 <= WorkerCount
  <2>1. PICK W : W = WorkerCount
    OBVIOUS
  <2>2. W \in Nat \ {0}
    BY ONLY <2>1, <1>3, <1>4
  <2> QED
    BY ONLY <2>1, <2>2
<1> QED
  BY ONLY <1>2, <1>5 DEF Team

(* A step of one worker.                                                   *)
LEMMA Goes ==
  ASSUME TypeOK, NEW w \in Workers, NEW place \in Places, Go(w, place)
  PROVE  /\ worker' = [v \in Workers |-> [at |-> worker'[v].at, chunk |-> worker'[v].chunk,
                                          row |-> worker'[v].row, returning |-> worker'[v].returning]]
         /\ worker'[w].at = place
         /\ \A v \in Workers : /\ worker'[v].chunk = worker[v].chunk /\ worker'[v].row = worker[v].row
                               /\ v # w => worker'[v].at = worker[v].at
         /\ \A v \in Workers : worker'[v].at \in Places /\ worker'[v].chunk \in Nat /\ worker'[v].row \in Nat
<1>1. \A v \in Workers : /\ worker[v] = [at |-> worker[v].at, chunk |-> worker[v].chunk,
                                         row |-> worker[v].row, returning |-> worker[v].returning]
                         /\ worker[v].at \in Places /\ worker[v].chunk \in Nat /\ worker[v].row \in Nat
  BY DEF TypeOK
<1>2. DOMAIN worker = Workers
  BY DEF TypeOK
<1>3. PICK r : r = [worker[w] EXCEPT !.at = place]
  OBVIOUS
<1>4. worker' = [v \in Workers |-> IF v = w THEN r ELSE worker[v]]
  BY <1>2, <1>3 DEF Go
<1>5. r = [at |-> place, chunk |-> worker[w].chunk, row |-> worker[w].row, returning |-> worker[w].returning]
  <2>1. PICK a, n, m, q : /\ worker[w] = [at |-> a, chunk |-> n, row |-> m, returning |-> q]
                          /\ n = worker[w].chunk /\ m = worker[w].row /\ q = worker[w].returning
    BY ONLY <1>1, w \in Workers
  <2>2. r = [at |-> place, chunk |-> n, row |-> m, returning |-> q]
    BY ONLY <1>3, <2>1
  <2> QED
    BY ONLY <2>1, <2>2
<1>6. worker'[w] = r /\ \A v \in Workers \ {w} : worker'[v] = worker[v]
  BY ONLY <1>4, w \in Workers
<1>7. r.at = place /\ r.chunk = worker[w].chunk /\ r.row = worker[w].row
  BY ONLY <1>5
<1>8. \A v \in Workers : /\ worker'[v] = [at |-> worker'[v].at, chunk |-> worker'[v].chunk,
                                          row |-> worker'[v].row, returning |-> worker'[v].returning]
                         /\ worker'[v].at \in Places /\ worker'[v].chunk \in Nat /\ worker'[v].row \in Nat
  <2>1. worker'[w] = [at |-> worker'[w].at, chunk |-> worker'[w].chunk,
                      row |-> worker'[w].row, returning |-> worker'[w].returning]
    BY ONLY <1>5, <1>6
  <2> QED
    BY ONLY <1>1, <1>6, <1>7, <2>1, place \in Places, w \in Workers
<1>9. worker' = [v \in Workers |-> [at |-> worker'[v].at, chunk |-> worker'[v].chunk,
                                    row |-> worker'[v].row, returning |-> worker'[v].returning]]
  BY ONLY <1>4, <1>8
<1>10. \A v \in Workers : /\ worker'[v].chunk = worker[v].chunk /\ worker'[v].row = worker[v].row
                          /\ v # w => worker'[v].at = worker[v].at
  BY ONLY <1>6, <1>7
<1> QED
  BY ONLY <1>6, <1>7, <1>8, <1>9, <1>10

(* A step that changes nothing but where a worker is and what it reports.   *)
LEMMA Turns ==
  ASSUME TypeOK, Claims, Progress, NEW w \in Workers, NEW place \in {"check", "catch", "publish", "exit", "claim"},
         ~At(w, "exit"), Go(w, place), UNCHANGED <<call, phase, next, applied>>,
         error => error', error' \in BOOLEAN, failed' \in BOOLEAN,
         place \in {"catch", "publish"} => Busy(w),
         Busy(w) => place \in {"catch", "publish"} \/ error' \/ At(w, "report")
  PROVE  TypeOK' /\ Claims' /\ Progress'
<1>1. /\ worker' = [v \in Workers |-> [at |-> worker'[v].at, chunk |-> worker'[v].chunk,
                                       row |-> worker'[v].row, returning |-> worker'[v].returning]]
      /\ worker'[w].at = place
      /\ \A v \in Workers : /\ worker'[v].chunk = worker[v].chunk /\ worker'[v].row = worker[v].row
                            /\ v # w => worker'[v].at = worker[v].at
      /\ \A v \in Workers : worker'[v].at \in Places /\ worker'[v].chunk \in Nat /\ worker'[v].row \in Nat
  BY Goes DEF Places
<1>2. TypeOK'
  BY <1>1 DEF TypeOK
<1>3. \A v \in Workers : Busy(v)' => Busy(v)
  BY <1>1 DEF Busy
<1>4. \A v \in Workers : worker'[v].at \in {"execute", "report"} => worker[v].at = worker'[v].at
  BY <1>1
<1>5. Claims'
  <2>1. /\ Valid(call)' = Valid(call) /\ Chunks(call)' = Chunks(call) /\ PerRow(call)' = PerRow(call)
        /\ \A n : ChunkRows(call, n)' = ChunkRows(call, n)
    BY DEF PerRow, ChunkRows, Valid, Chunks, First, LastRow
  <2>2. ASSUME NEW v \in Workers, Busy(v)'
        PROVE  /\ Valid(call) /\ worker'[v].chunk \in 1..Chunks(call) /\ worker'[v].chunk < next
               /\ \A u \in Workers \ {v} : Busy(u)' => worker'[u].chunk # worker'[v].chunk
    <3>1. Busy(v) /\ \A u \in Workers \ {v} : Busy(u)' => Busy(u)
      BY <2>2, <1>3
    <3> QED
      BY <3>1, <1>1 DEF Claims
  <2>3. ASSUME NEW v \in Workers, worker'[v].at # "exit"
        PROVE  Valid(call) /\ phase = "running"
    BY <2>3, <1>1 DEF Claims, At
  <2>4. ASSUME NEW v \in Workers, worker'[v].at = "execute", PerRow(call)
        PROVE  worker'[v].row \in 1..Len(ChunkRows(call, worker'[v].chunk))
    BY <2>4, <1>1, <1>4 DEF Claims, At
  <2> QED
    BY <2>1, <2>2, <2>3, <2>4 DEF Claims, At
<1>6. Progress'
  <2>1. \A n : Task(n)' = Task(n)
    BY DEF Task, RowsOf, First, LastRow
  <2>2. \A v \in Workers : Written(v)' = Written(v)
    BY <1>1 DEF Written, PerRow, First
  <2>3. ASSUME NEW n \in 1..Chunks(call), Valid(call), n < next
        PROVE  \/ Task(n) \subseteq applied \/ error'
               \/ \E v \in Workers : Busy(v)' /\ worker'[v].chunk = n
    <3>1. CASE \E v \in Workers : Busy(v) /\ worker[v].chunk = n
      <4>1. PICK v \in Workers : Busy(v) /\ worker[v].chunk = n
        BY <3>1
      <4>2. CASE v # w
        BY <4>1, <4>2, <1>1 DEF Busy
      <4>3. CASE v = w
        BY <4>1, <4>3, <1>1 DEF Busy, Progress
      <4> QED
        BY <4>2, <4>3
    <3> QED
      BY <2>3, <3>1 DEF Progress
  <2> QED
    BY <2>1, <2>2, <2>3, <1>1, <1>4 DEF Progress, At, Valid, Chunks, PerRow
<1> QED
  BY <1>2, <1>5, <1>6

(* What depends on the options of the call alone does not change.          *)
LEMMA Same ==
  ASSUME UNCHANGED call
  PROVE  /\ Valid(call)' = Valid(call) /\ Chunks(call)' = Chunks(call) /\ PerRow(call)' = PerRow(call)
         /\ Team' = Team
         /\ \A n : /\ ChunkRows(call, n)' = ChunkRows(call, n) /\ Task(n)' = Task(n)
                  /\ First(call, n)' = First(call, n) /\ RowsOf(n)' = RowsOf(n)
                  /\ LastRow(call, n)' = LastRow(call, n)
  BY DEF Valid, Chunks, PerRow, Team, WorkerCount, ChunkRows, Task, First, RowsOf, LastRow

(* The loop test, failures, reports and the handler keep the invariant.    *)
LEMMA TurnsHold ==
  ASSUME BulkInv, NEW w \in Workers,
         Check(w) \/ ExecuteFails(w) \/ Report(w) \/ CallbackThrows(w) \/ Catch(w) \/ Publish(w)
  PROVE  BulkInv'
<1>1. ~At(w, "exit") /\ phase = "running"
  BY DEF BulkInv, Claims, Check, ExecuteFails, Report, CallbackThrows, Catch, Publish, At
<1>2. phase' = "running" /\ UNCHANGED <<call, next, applied>>
  BY <1>1 DEF Check, ExecuteFails, Report, CallbackThrows, Catch, Publish
<1>4. Valid(call)' = Valid(call) /\ Chunks(call)' = Chunks(call) /\ Team' = Team
  BY <1>2, Same
<1>3. Ends'
  <2>1. outcomes = [n \in 1..(IF Valid(call) THEN Chunks(call) ELSE 0) |-> outcomes[n]]
    BY DEF BulkInv, Ends
  <2>2. \/ UNCHANGED outcomes
        \/ \E slot, o : outcomes' = [outcomes EXCEPT ![slot] = o]
    BY DEF Check, ExecuteFails, Report, CallbackThrows, Catch, Publish
  <2>3. outcomes' = [n \in 1..(IF Valid(call) THEN Chunks(call) ELSE 0) |-> outcomes'[n]]
    BY <2>1, <2>2
  <2> QED
    BY <1>2, <1>4, <2>3 DEF Ends, RollsBack
<1>5. CASE Check(w) /\ ~failed
  <2>1. Go(w, "claim") /\ UNCHANGED <<call, phase, next, applied, failed, error>> /\ ~Busy(w)
    BY <1>5 DEF Check, Busy, At
  <2>2. TypeOK' /\ Claims' /\ Progress'
    BY <2>1, <1>1, Turns DEF BulkInv, TypeOK
  <2>3. \A v \in Workers : worker'[v].at \in {"exit", "publish"} => worker[v].at = worker'[v].at
    BY <2>1, Goes DEF BulkInv, Places
  <2>4. Stops'
    BY <2>1, <2>3, <1>4 DEF BulkInv, Stops, At, Team
  <2> QED
    BY <2>2, <2>4, <1>3 DEF BulkInv
<1>6. CASE Check(w) /\ failed
  <2>1. Go(w, "exit") /\ UNCHANGED <<call, phase, next, applied, failed, error>> /\ ~Busy(w)
    BY <1>6 DEF Check, Busy, At
  <2>2. TypeOK' /\ Claims' /\ Progress'
    BY <2>1, <1>1, Turns DEF BulkInv, TypeOK
  <2>3. \A v \in Workers : worker'[v].at = "publish" => worker[v].at = "publish"
    BY <2>1, Goes DEF BulkInv, Places
  <2>4. Stops'
    BY <2>1, <2>3, <1>6 DEF BulkInv, Stops, At
  <2> QED
    BY <2>2, <2>4, <1>3 DEF BulkInv
<1>7. CASE ExecuteFails(w) \/ CallbackThrows(w)
  <2>1. Go(w, "catch") /\ UNCHANGED <<call, phase, next, applied, failed, error>> /\ Busy(w)
    BY <1>7 DEF ExecuteFails, CallbackThrows, Busy, At
  <2>2. TypeOK' /\ Claims' /\ Progress'
    BY <2>1, <1>1, Turns DEF BulkInv, TypeOK
  <2>3. \A v \in Workers : worker'[v].at \in {"exit", "publish"} => worker[v].at = worker'[v].at
    BY <2>1, Goes DEF BulkInv, Places
  <2>4. Stops'
    BY <2>1, <2>3, <1>4 DEF BulkInv, Stops, At, Team
  <2> QED
    BY <2>2, <2>4, <1>3 DEF BulkInv
<1>8. CASE Report(w)
  <2>1. Go(w, "check") /\ UNCHANGED <<call, phase, next, applied, failed, error>> /\ At(w, "report")
    BY <1>8 DEF Report
  <2>2. TypeOK' /\ Claims' /\ Progress'
    BY <2>1, <1>1, Turns DEF BulkInv, TypeOK
  <2>3. \A v \in Workers : worker'[v].at \in {"exit", "publish"} => worker[v].at = worker'[v].at
    BY <2>1, Goes DEF BulkInv, Places
  <2>4. Stops'
    BY <2>1, <2>3, <1>4 DEF BulkInv, Stops, At, Team
  <2> QED
    BY <2>2, <2>4, <1>3 DEF BulkInv
<1>9. CASE Catch(w)
  <2>1. Go(w, "publish") /\ UNCHANGED <<call, phase, next, applied, failed>> /\ error' /\ error' \in BOOLEAN
        /\ Busy(w)
    BY <1>9 DEF Catch, Busy, At
  <2>2. TypeOK' /\ Claims' /\ Progress'
    BY <2>1, <1>1, Turns DEF BulkInv, TypeOK
  <2>3. \A v \in Workers : worker'[v].at = "exit" => worker[v].at = "exit"
    BY <2>1, Goes DEF BulkInv, Places
  <2>4. Stops'
    BY <2>1, <2>3, <1>4 DEF BulkInv, Stops, At, Team
  <2> QED
    BY <2>2, <2>4, <1>3 DEF BulkInv
<1>10. CASE Publish(w)
  <2>1. Go(w, "exit") /\ UNCHANGED <<call, phase, next, applied, error>> /\ failed' /\ failed' \in BOOLEAN
    BY <1>10 DEF Publish
  <2>2. error
    BY <1>10 DEF BulkInv, Stops, Publish
  <2>3. TypeOK' /\ Claims' /\ Progress'
    BY <2>1, <2>2, <1>1, Turns DEF BulkInv, TypeOK
  <2>4. Stops'
    BY <2>1, <2>2 DEF Stops
  <2> QED
    BY <2>3, <2>4, <1>3 DEF BulkInv
<1> QED
  BY <1>5, <1>6, <1>7, <1>8, <1>9, <1>10 DEF Check

(* fetch_add: the chunk claimed is one no other worker has or had.         *)
LEMMA ClaimHolds ==
  ASSUME BulkInv, NEW w \in Workers, Claim(w)
  PROVE  BulkInv'
<1> DEFINE mine == next <= Chunks(call)
<1>1. /\ ~At(w, "exit") /\ ~Busy(w) /\ Valid(call) /\ phase = "running" /\ next \in Nat \ {0}
      /\ UNCHANGED <<call, phase, failed, error, applied>> /\ next' = next + 1
  BY DEF BulkInv, Claims, TypeOK, Claim, At, Busy
<1>2. Chunks(call) \in Nat \ {0}
  BY <1>1, Tasks DEF BulkInv, TypeOK
<1>3. /\ worker' = [v \in Workers |-> [at |-> worker'[v].at, chunk |-> worker'[v].chunk,
                                       row |-> worker'[v].row, returning |-> worker'[v].returning]]
      /\ \A v \in Workers : worker'[v].at \in Places /\ worker'[v].chunk \in Nat /\ worker'[v].row \in Nat
      /\ \A v \in Workers \ {w} : worker'[v] = worker[v]
      /\ mine => worker'[w].at = "execute" /\ worker'[w].chunk = next /\ worker'[w].row = 1
      /\ ~mine => worker'[w].at = "exit"
  <2>1. PICK r : /\ worker' = [worker EXCEPT ![w] = r]
                 /\ r = IF next > Chunks(call) THEN Off
                        ELSE [at |-> "execute", chunk |-> next, row |-> 1, returning |-> <<>>]
    BY DEF Claim
  <2>2. Off = [at |-> "exit", chunk |-> 0, row |-> 0, returning |-> <<>>]
    BY DEF Off, Looping
  <2>3. /\ r = [at |-> r.at, chunk |-> r.chunk, row |-> r.row, returning |-> r.returning]
        /\ r.at \in Places /\ r.chunk \in Nat /\ r.row \in Nat
        /\ mine => r.at = "execute" /\ r.chunk = next /\ r.row = 1
        /\ ~mine => r.at = "exit"
    <3>1. CASE mine
      <4>1. r = [at |-> "execute", chunk |-> next, row |-> 1, returning |-> <<>>]
        BY <3>1, <2>1, <1>1, <1>2
      <4> QED
        BY <4>1, <3>1, <1>1 DEF Places
    <3>2. CASE ~mine
      <4>1. r = [at |-> "exit", chunk |-> 0, row |-> 0, returning |-> <<>>]
        BY <3>2, <2>1, <2>2, <1>1, <1>2
      <4> QED
        BY <4>1, <3>2 DEF Places
    <3> QED
      BY <3>1, <3>2
  <2> HIDE DEF mine
  <2> QED
    BY <2>1, <2>3 DEF BulkInv, TypeOK
<1>4. TypeOK'
  BY <1>1, <1>3 DEF BulkInv, TypeOK
<1>5. Ends'
  <2>1. UNCHANGED outcomes /\ Valid(call)' = Valid(call) /\ Chunks(call)' = Chunks(call)
    BY <1>1, Same DEF Claim
  <2> QED
    BY <1>1, <2>1 DEF BulkInv, Ends, RollsBack
<1>6. /\ Valid(call)' /\ Chunks(call)' = Chunks(call) /\ PerRow(call)' = PerRow(call) /\ Team' = Team
      /\ \A n : ChunkRows(call, n)' = ChunkRows(call, n) /\ Task(n)' = Task(n) /\ First(call, n)' = First(call, n)
  BY <1>1, Same
<1>7. Claims'
  <2>1. ASSUME NEW v \in Workers, Busy(v)'
        PROVE  /\ worker'[v].chunk \in 1..Chunks(call) /\ worker'[v].chunk < next + 1
               /\ \A u \in Workers \ {v} : Busy(u)' => worker'[u].chunk # worker'[v].chunk
    <3>1. \A u \in Workers : Busy(u)' => IF u = w THEN mine /\ worker'[u].chunk = next
                                         ELSE /\ Busy(u) /\ worker'[u].chunk = worker[u].chunk
                                              /\ worker[u].chunk \in 1..Chunks(call) /\ worker[u].chunk < next
      BY <1>3 DEF Busy, BulkInv, Claims
    <3>2. worker'[v].chunk \in 1..Chunks(call) /\ worker'[v].chunk < next + 1
      BY <2>1, <3>1, <1>1, <1>2
    <3>3. ASSUME NEW u \in Workers \ {v}, Busy(u)'
          PROVE  worker'[u].chunk # worker'[v].chunk
      <4>1. CASE u # w /\ v # w
        BY <4>1, <3>1, <3>3, <2>1 DEF BulkInv, Claims
      <4>2. CASE u = w \/ v = w
        BY <4>2, <3>1, <3>3, <2>1, <1>1, <1>2
      <4> QED
        BY <4>1, <4>2
    <3> QED
      BY <3>2, <3>3
  <2>2. ASSUME NEW v \in Workers, worker'[v].at = "execute", PerRow(call)
        PROVE  worker'[v].row \in 1..Len(ChunkRows(call, worker'[v].chunk))
    <3>1. CASE v = w
      <4>1. worker'[v].row = 1 /\ next \in 1..Chunks(call) /\ worker'[v].chunk = next
        BY <3>1, <2>2, <1>1, <1>2, <1>3
      <4>2. call.op # "deleteWhere"
        BY <2>2 DEF PerRow
      <4>3. Len(ChunkRows(call, next)) \in Nat \ {0}
        BY <4>1, <4>2, <1>1, Chunking DEF BulkInv, TypeOK
      <4> QED
        BY <4>1, <4>3
    <3>2. CASE v # w
      BY <3>2, <2>2, <1>3 DEF BulkInv, Claims, At
    <3> QED
      BY <3>1, <3>2
  <2> QED
    BY <2>1, <2>2, <1>1, <1>6 DEF Claims, At
<1>8. Progress'
  <2>1. ASSUME NEW v \in Workers, worker'[v].at = "execute"
        PROVE  Task(worker'[v].chunk) \intersect applied = Written(v)'
    <3>1. CASE v = w
      <4>1. worker'[v].row = 1 /\ next \in 1..Chunks(call) /\ worker'[v].chunk = next
        BY <3>1, <2>1, <1>1, <1>2, <1>3
      <4>2. Task(next) \intersect applied = {}
        BY <4>1, <1>1 DEF BulkInv, Progress
      <4>3. First(call, next) \in Nat
        BY <4>1, <1>1, Chunking DEF BulkInv, TypeOK
      <4>4. Written(v)' = {}
        BY <4>1, <4>3, <1>6 DEF Written
      <4> QED
        BY <4>1, <4>2, <4>4
    <3>2. CASE v # w
      BY <3>2, <2>1, <1>3, <1>6 DEF BulkInv, Progress, At, Written
    <3> QED
      BY <3>1, <3>2
  <2>2. ASSUME NEW v \in Workers, worker'[v].at = "report"
        PROVE  Task(worker'[v].chunk) \subseteq applied
    BY <2>2, <1>3 DEF BulkInv, Progress, At
  <2>3. ASSUME NEW n \in 1..Chunks(call)
        PROVE  /\ n >= next + 1 => Task(n) \intersect applied = {}
               /\ n < next + 1 => \/ Task(n) \subseteq applied \/ error
                                  \/ \E v \in Workers : Busy(v)' /\ worker'[v].chunk = n
               /\ ~PerRow(call) => Task(n) \subseteq applied \/ Task(n) \intersect applied = {}
    <3>1. CASE n = next
      BY <3>1, <1>1, <1>2, <1>3 DEF BulkInv, Progress, Busy
    <3>2. CASE n # next
      <4>1. \A v \in Workers : Busy(v) => Busy(v)' /\ worker'[v].chunk = worker[v].chunk
        BY <1>1, <1>3 DEF Busy
      <4>2. (n >= next + 1 => n >= next) /\ (n < next + 1 => n < next)
        BY <3>2, <1>1, <1>2
      <4> QED
        BY <4>1, <4>2, <1>1 DEF BulkInv, Progress
    <3> QED
      BY <3>1, <3>2
  <2> QED
    BY <2>1, <2>2, <2>3, <1>1, <1>6 DEF Progress, BulkInv, At
<1>9. Stops'
  <2>1. \A v \in Workers : worker'[v].at = "publish" => worker[v].at = "publish"
    BY <1>3
  <2>2. ASSUME NEW v \in Team, worker'[v].at = "exit"
        PROVE  failed \/ next + 1 > Chunks(call)
    <3>1. v \in Workers
      BY DEF Team
    <3> QED
      BY <3>1, <2>2, <1>1, <1>2, <1>3 DEF BulkInv, Stops, At
  <2> QED
    BY <2>1, <2>2, <1>1, <1>6 DEF BulkInv, Stops, At
<1> QED
  BY <1>4, <1>5, <1>7, <1>8, <1>9 DEF BulkInv

(* The statement a worker is at runs rows of its own chunk that have not   *)
(* run, the whole chunk or, in bulk_update, the next row.                  *)
LEMMA StatementRows ==
  ASSUME BulkInv, NEW w \in Workers, At(w, "execute")
  PROVE  /\ Valid(call) /\ worker[w].chunk \in 1..Chunks(call)
         /\ RowsRun(w) \subseteq Task(worker[w].chunk) /\ RowsRun(w) \intersect applied = {}
         /\ ~PerRow(call) => RowsRun(w) = Task(worker[w].chunk)
         /\ PerRow(call) =>
              LET last == worker[w].row = Len(ChunkRows(call, worker[w].chunk))
              IN  Written(w) \union RowsRun(w) =
                    IF last THEN Task(worker[w].chunk)
                    ELSE First(call, worker[w].chunk)..(First(call, worker[w].chunk) + worker[w].row - 1)
<1>1. Valid(call) /\ worker[w].chunk \in 1..Chunks(call)
  BY DEF BulkInv, Claims, Busy, At
<1>2. PICK n \in 1..Chunks(call) : n = worker[w].chunk
  BY <1>1
<1>3. Task(n) # {} /\ Task(n) \intersect applied = Written(w)
  BY <1>1, <1>2, Tasks DEF BulkInv, TypeOK, Progress
<1>4. CASE PerRow(call)
  <2>1. call.op = "update"
    BY <1>4 DEF PerRow
  <2>2. PICK f \in Nat, l \in Nat, r \in Nat : f = First(call, n) /\ l = LastRow(call, n) /\ r = worker[w].row
    BY <1>1, <1>2, Chunking DEF BulkInv, TypeOK
  <2>3. /\ f <= l /\ Len(ChunkRows(call, n)) = l - f + 1 /\ r \in 1..(l - f + 1)
    BY <1>1, <1>2, <1>4, <2>1, <2>2, Chunking DEF BulkInv, TypeOK, Claims
  <2>4. Task(n) = f..l /\ RowsRun(w) = {f + r - 1} /\ Written(w) = f..(f + r - 2)
    BY <1>2, <1>4, <2>1, <2>2 DEF Task, RowsOf, RowsRun, Written
  <2>5. f + r - 1 \in f..l /\ f + r - 1 \notin f..(f + r - 2)
    BY <2>3
  <2>6. (f..(f + r - 2)) \union {f + r - 1} = f..(f + r - 1)
    BY <2>3
  <2>7. r = l - f + 1 => f + r - 1 = l
    BY <2>3
  <2> QED
    BY SMTT(60), <1>1, <1>2, <1>3, <1>4, <2>2, <2>3, <2>4, <2>5, <2>6, <2>7
<1>5. CASE ~PerRow(call)
  <2>1. RowsRun(w) = Task(n) /\ Written(w) = {}
    BY <1>2, <1>5 DEF RowsRun, Task, RowsOf, Written
  <2> QED
    BY <1>1, <1>2, <1>3, <1>5, <2>1
<1> QED
  BY <1>4, <1>5

(* A statement that works keeps the invariant.                             *)
LEMMA ExecuteHolds ==
  ASSUME BulkInv, NEW w \in Workers, Execute(w)
  PROVE  BulkInv'
<1> DEFINE last == ~PerRow(call) \/ worker[w].row = Len(ChunkRows(call, worker[w].chunk))
           c    == worker[w].chunk
<1>1. /\ At(w, "execute") /\ UNCHANGED <<call, phase, failed, error, next>>
      /\ applied' = applied \union RowsRun(w)
  BY SMTT(60) DEF Execute
<1>2. /\ Valid(call) /\ phase = "running" /\ next \in Nat \ {0} /\ Busy(w)
      /\ c \in 1..Chunks(call) /\ c < next
  BY SMTT(60), <1>1 DEF BulkInv, Claims, TypeOK, Busy, At
<1>3. /\ worker' = [v \in Workers |-> [at |-> worker'[v].at, chunk |-> worker'[v].chunk,
                                       row |-> worker'[v].row, returning |-> worker'[v].returning]]
      /\ \A v \in Workers : worker'[v].at \in Places /\ worker'[v].chunk \in Nat /\ worker'[v].row \in Nat
      /\ \A v \in Workers \ {w} : worker'[v] = worker[v]
      /\ worker'[w].at = (IF last THEN "report" ELSE "execute")
      /\ worker'[w].chunk = c /\ worker'[w].row = worker[w].row + 1
  <2>1. PICK place, more : /\ worker' = [worker EXCEPT ![w].at = place, ![w].row = @ + 1, ![w].returning = more]
                           /\ place = IF last THEN "report" ELSE "execute"
    <3>1. PICK more : worker' = [worker EXCEPT ![w].at = IF last THEN "report" ELSE "execute",
                                               ![w].row = @ + 1, ![w].returning = more]
      <4>1. PICK done : worker' = [worker EXCEPT ![w].at = IF last THEN "report" ELSE "execute",
                                                 ![w].row = @ + 1,
                                                 ![w].returning = @ \o done.returning]
        BY ZenonT(60) DEF Execute
      <4> QED
        BY ONLY <4>1, Zenon
    <3> QED
      BY ONLY <3>1, Zenon
  <2>2. place \in Places /\ worker[w].row + 1 \in Nat
    <3>1. worker[w].row \in Nat
      BY DEF BulkInv, TypeOK
    <3>2. place = "report" \/ place = "execute"
      BY ONLY <2>1, Zenon
    <3>3. place \in Places
      BY ONLY <3>2 DEF Places
    <3> QED
      BY ONLY <3>1, <3>3
  <2> HIDE DEF last
  <2>3. worker[w] = [at |-> worker[w].at, chunk |-> c, row |-> worker[w].row, returning |-> worker[w].returning]
    BY DEF BulkInv, TypeOK
  <2>4. DOMAIN worker = Workers /\ DOMAIN worker' = Workers /\ \A v \in Workers \ {w} : worker'[v] = worker[v]
    BY <2>1 DEF BulkInv, TypeOK
  <2>5. worker'[w] = [worker[w] EXCEPT !.at = place, !.row = @ + 1, !.returning = more]
    BY <2>1, <2>4
  <2>6. worker'[w] = [at |-> place, chunk |-> c, row |-> worker[w].row + 1, returning |-> more]
    BY <2>3, <2>5
  <2>7. worker' = [worker EXCEPT ![w] = [at |-> place, chunk |-> c, row |-> worker[w].row + 1, returning |-> more]]
    BY <2>1, <2>4, <2>6 DEF BulkInv, TypeOK
  <2>8. PICK r : /\ worker' = [worker EXCEPT ![w] = r]
                 /\ r = [at |-> place, chunk |-> c, row |-> worker[w].row + 1, returning |-> more]
    BY <2>7
  <2>9. /\ r = [at |-> r.at, chunk |-> r.chunk, row |-> r.row, returning |-> r.returning]
        /\ r.at = (IF last THEN "report" ELSE "execute") /\ r.chunk = c /\ r.row = worker[w].row + 1
        /\ r.at \in Places /\ r.chunk \in Nat /\ r.row \in Nat
    BY <2>1, <2>2, <2>8 DEF BulkInv, TypeOK
  <2>10. worker' = [worker EXCEPT ![w] = r]
    BY <2>8
  <2>11. \A v \in Workers : /\ worker[v] = [at |-> worker[v].at, chunk |-> worker[v].chunk,
                                              row |-> worker[v].row, returning |-> worker[v].returning]
                             /\ worker[v].at \in Places /\ worker[v].chunk \in Nat /\ worker[v].row \in Nat
    BY DEF BulkInv, TypeOK
  <2>12. DOMAIN worker = Workers
    BY DEF BulkInv, TypeOK
  <2>13. worker'[w] = r /\ worker' = [v \in Workers |-> IF v = w THEN r ELSE worker[v]]
    BY ONLY <2>10, <2>12, w \in Workers
  <2>14. \A v \in Workers \ {w} : worker'[v] = worker[v]
    BY ONLY <2>13, w \in Workers
  <2>15. \A v \in Workers : /\ worker'[v] = [at |-> worker'[v].at, chunk |-> worker'[v].chunk,
                                               row |-> worker'[v].row, returning |-> worker'[v].returning]
                             /\ worker'[v].at \in Places /\ worker'[v].chunk \in Nat /\ worker'[v].row \in Nat
    BY ONLY <2>9, <2>11, <2>13, <2>14
  <2>16. worker' = [v \in Workers |-> [at |-> worker'[v].at, chunk |-> worker'[v].chunk,
                                       row |-> worker'[v].row, returning |-> worker'[v].returning]]
    BY ONLY <2>13, <2>15
  <2> QED
    BY ONLY <2>9, <2>13, <2>14, <2>15, <2>16
<1> HIDE DEF last
<1>4. TypeOK'
  BY <1>1, <1>3 DEF BulkInv, TypeOK
<1>5. Ends'
  <2>1. UNCHANGED outcomes /\ Valid(call)' = Valid(call) /\ Chunks(call)' = Chunks(call)
    BY <1>1, Same DEF Execute
  <2> QED
    BY <1>1, <1>2, <2>1 DEF BulkInv, Ends, RollsBack
<1>6. /\ Valid(call)' /\ Chunks(call)' = Chunks(call) /\ PerRow(call)' = PerRow(call) /\ Team' = Team
      /\ \A n : ChunkRows(call, n)' = ChunkRows(call, n) /\ Task(n)' = Task(n) /\ First(call, n)' = First(call, n)
  BY <1>1, <1>2, Same
<1>7. \A v \in Workers : (Busy(v)' <=> Busy(v)) /\ worker'[v].chunk = worker[v].chunk
  BY <1>2, <1>3 DEF Busy
<1>8. Claims'
  <2>1. ASSUME NEW v \in Workers, worker'[v].at = "execute", PerRow(call)
        PROVE  worker'[v].row \in 1..Len(ChunkRows(call, worker'[v].chunk))
    <3>1. CASE v = w
      <4>1. PICK len \in Nat : len = Len(ChunkRows(call, c))
        BY <1>2, <2>1, Chunking DEF BulkInv, TypeOK, PerRow
      <4>2. worker[w].row \in 1..len /\ worker[w].row # len
        BY <4>1, <3>1, <2>1, <1>1, <1>3 DEF BulkInv, Claims, last
      <4> QED
        BY <4>1, <4>2, <3>1, <1>3
    <3>2. CASE v # w
      BY <3>2, <2>1, <1>3 DEF BulkInv, Claims, At
    <3> QED
      BY <3>1, <3>2
  <2>2. \A v \in Workers : worker'[v].at # "exit" => Valid(call) /\ phase = "running"
    BY <1>2
  <2>3. ASSUME NEW v \in Workers, Busy(v)'
        PROVE  /\ worker'[v].chunk \in 1..Chunks(call) /\ worker'[v].chunk < next
               /\ \A u \in Workers \ {v} : Busy(u)' => worker'[u].chunk # worker'[v].chunk
    BY <2>3, <1>7 DEF BulkInv, Claims
  <2> QED
    BY <2>1, <2>2, <2>3, <1>1, <1>6 DEF Claims, At
<1>9. Progress'
  <2>1. applied' \subseteq DOMAIN call.rows
    BY ZenonT(60), <1>1, <1>2, StatementRows, Tasks DEF BulkInv, TypeOK, Progress
  <2>2. ASSUME NEW v \in Workers \ {w}, Busy(v)
        PROVE  Task(worker[v].chunk) \intersect applied' = Task(worker[v].chunk) \intersect applied
    <3>1. worker[v].chunk \in 1..Chunks(call) \ {c}
      BY <2>2, <1>2 DEF BulkInv, Claims
    <3>2. Task(worker[v].chunk) \intersect Task(c) = {}
      BY <3>1, <1>2, Tasks DEF BulkInv, TypeOK
    <3> QED
      BY <3>2, <1>1, StatementRows
  <2>3. ASSUME NEW v \in Workers, worker'[v].at = "execute"
        PROVE  Task(worker'[v].chunk) \intersect applied' = Written(v)'
    <3>1. CASE v = w
      <4>1. ~last /\ PerRow(call)
        BY <3>1, <2>3, <1>3 DEF last
      <4>2. PICK f \in Nat, r \in Nat : f = First(call, c) /\ r = worker[w].row
        BY <1>2, Chunking DEF BulkInv, TypeOK
      <4>3. Written(w)' = f..(f + (r + 1) - 2)
        BY <4>1, <4>2, <1>3, <1>6 DEF Written
      <4>4. f + (r + 1) - 2 = f + r - 1
        OBVIOUS
      <4>5. Written(w) \union RowsRun(w) = f..(f + r - 1)
        BY <4>1, <4>2, <1>1, StatementRows DEF last
      <4>6. Task(c) \intersect applied = Written(w) /\ RowsRun(w) \subseteq Task(c)
        BY <1>1, StatementRows DEF BulkInv, Progress
      <4> QED
        BY <4>3, <4>4, <4>5, <4>6, <3>1, <1>1, <1>3
    <3>2. CASE v # w
      <4>1. At(v, "execute") /\ Busy(v) /\ worker'[v] = worker[v]
        BY <3>2, <2>3, <1>3 DEF At, Busy
      <4>2. Written(v)' = Written(v)
        BY <4>1, <1>6 DEF Written
      <4> QED
        BY <4>1, <4>2, <3>2, <2>2 DEF BulkInv, Progress
    <3> QED
      BY <3>1, <3>2
  <2>4. last => Task(c) \subseteq applied'
    <3> SUFFICES ASSUME last PROVE Task(c) \subseteq applied'
      OBVIOUS
    <3>1. Task(c) = RowsRun(w) \/ Task(c) = Written(w) \union RowsRun(w)
      BY <1>1, StatementRows DEF last
    <3>2. Written(w) \subseteq applied
      BY <1>1 DEF BulkInv, Progress
    <3> QED
      BY <3>1, <3>2, <1>1
  <2>5. ASSUME NEW v \in Workers, worker'[v].at = "report"
        PROVE  Task(worker'[v].chunk) \subseteq applied'
    <3>1. CASE v = w
      BY <3>1, <2>4, <2>5, <1>3
    <3>2. CASE v # w
      BY <3>2, <2>5, <1>1, <1>3 DEF BulkInv, Progress, At
    <3> QED
      BY <3>1, <3>2
  <2>6. ASSUME NEW n \in 1..Chunks(call)
        PROVE  /\ n >= next => Task(n) \intersect applied' = {}
               /\ n < next => \/ Task(n) \subseteq applied' \/ error
                              \/ \E v \in Workers : Busy(v)' /\ worker'[v].chunk = n
               /\ ~PerRow(call) => Task(n) \subseteq applied' \/ Task(n) \intersect applied' = {}
    <3>1. n # c => Task(n) \intersect applied' = Task(n) \intersect applied
      <4>1. n # c => Task(n) \intersect Task(c) = {}
        BY <1>2, Tasks DEF BulkInv, TypeOK
      <4> QED
        BY <4>1, <1>1, StatementRows
    <3>2. n >= next => n # c
      BY <1>2
    <3>3. n >= next => Task(n) \intersect applied' = {}
      BY <3>1, <3>2, <1>2 DEF BulkInv, Progress
    <3>4. n < next => \/ Task(n) \subseteq applied' \/ error
                      \/ \E v \in Workers : Busy(v)' /\ worker'[v].chunk = n
      BY <1>1, <1>2, <1>7 DEF BulkInv, Progress
    <3>5. ~PerRow(call) => Task(n) \subseteq applied' \/ Task(n) \intersect applied' = {}
      BY <3>1, <2>4, <1>1, <1>2 DEF BulkInv, Progress, last
    <3> QED
      BY <3>3, <3>4, <3>5
  <2> QED
    BY <2>1, <2>3, <2>5, <2>6, <1>1, <1>6 DEF Progress, At
<1>10. Stops'
  <2>1. \A v \in Workers : worker'[v].at \in {"publish", "exit"} => worker[v].at = worker'[v].at
    BY <1>3
  <2> QED
    BY <2>1, <1>1, <1>6 DEF BulkInv, Stops, At, Team
<1> QED
  BY <1>4, <1>5, <1>8, <1>9, <1>10 DEF BulkInv

(* The call begins in the invariant: nothing claimed, nothing run.         *)
LEMMA BulkStarts == Init => BulkInv
<1> SUFFICES ASSUME Init PROVE BulkInv
  OBVIOUS
<1>1. /\ call \in Calls /\ phase = "running" /\ next = 1 /\ ~failed /\ ~error /\ applied = {}
      /\ failed \in BOOLEAN /\ error \in BOOLEAN
      /\ worker = [w \in Workers |-> IF Valid(call) /\ w \in Team THEN Looping ELSE Off]
  BY DEF Init
<1>2. Off = [at |-> "exit", chunk |-> 0, row |-> 0, returning |-> <<>>]
  BY DEF Off, Looping
<1>3. TypeOK /\ \A w \in Workers : worker[w].at = IF Valid(call) /\ w \in Team THEN "check" ELSE "exit"
  BY <1>1, <1>2 DEF TypeOK, Looping, Places
<1>4. Claims
  BY <1>1, <1>3 DEF Claims, Busy, At
<1>5. Progress
  <2>1. Valid(call) => Chunks(call) \in Nat \ {0}
    BY <1>1, Tasks
  <2> QED
    BY <2>1, <1>1, <1>3 DEF Progress, At
<1>6. Stops
  BY <1>1, <1>3 DEF Stops, At, Team
<1>7. Ends
  <2>1. outcomes = [n \in 1..(IF Valid(call) THEN Chunks(call) ELSE 0) |-> Idle]
    BY DEF Init
  <2> QED
    BY <1>1, <2>1 DEF Ends, RollsBack
<1> QED
  BY <1>3, <1>4, <1>5, <1>6, <1>7 DEF BulkInv

(* The aggregated result is a success.                                     *)
LEMMA AggregatedOk ==
  ASSUME BulkInv, Valid(call)
  PROVE  Aggregated.ok
<1>1. Chunks(call) \in Nat /\ outcomes = [n \in 1..Chunks(call) |-> outcomes[n]]
  BY Tasks DEF BulkInv, TypeOK, Ends
<1>2. PICK N \in Nat : N = Chunks(call)
  BY <1>1
<1>3. Len(outcomes) = N /\ Len(outcomes) \in Nat
  BY <1>1, <1>2
<1>4. PICK all : all = outcomes
  OBVIOUS
<1>5. PICK g : Sums(g, all, N) /\ Aggregated = g[N]
  BY <1>3, <1>4, AggregatedLoops
<1> DEFINE S == {n \in 0..N : g[n] = [ok |-> TRUE, processed |-> g[n].processed, chunks |-> g[n].chunks,
                                      returning |-> g[n].returning]}
<1>6. 0 \in S
  BY <1>2, <1>5 DEF Sums, Nothing
<1>7. \A m \in 0..(N - 1) : m \in S => m + 1 \in S
  <2> SUFFICES ASSUME NEW m \in 0..(N - 1), m \in S PROVE m + 1 \in S
    OBVIOUS
  <2>1. g[m + 1] = WithOutcome(g[m], all[m + 1])
    <3>1. m + 1 \in 1..N /\ (m + 1) - 1 = m
      BY <1>2
    <3> QED
      BY <1>5, <3>1 DEF Sums
  <2>4. m + 1 \in 0..N
    BY <1>2
  <2>5. g[m + 1] = [ok |-> TRUE, processed |-> g[m + 1].processed, chunks |-> g[m + 1].chunks,
                    returning |-> g[m + 1].returning]
    BY <2>1 DEF WithOutcome
  <2> QED
    BY <2>4, <2>5
<1> HIDE DEF S
<1>8. N \in S
  BY <1>2, <1>6, <1>7, Upwards
<1> QED
  BY <1>5, <1>8 DEF S

(* The join, which needs every worker back, and the end of the transaction *)
(* keep the invariant.                                                     *)
LEMMA ClosingHolds ==
  ASSUME BulkInv, Join \/ Finish
  PROVE  BulkInv'
<1>1. UNCHANGED <<call, next, failed, error, worker, applied>> /\ phase' \in {"joined", "done"}
  BY DEF Join, Finish
<1>2. AllJoined
  <2>1. CASE Join
    BY <2>1 DEF Join
  <2>2. CASE Finish
    BY <2>2 DEF Finish, BulkInv, Claims, AllJoined
  <2> QED
    BY <2>1, <2>2
<1>3. /\ Valid(call)' = Valid(call) /\ Chunks(call)' = Chunks(call) /\ PerRow(call)' = PerRow(call) /\ Team' = Team
      /\ \A n : ChunkRows(call, n)' = ChunkRows(call, n) /\ Task(n)' = Task(n) /\ First(call, n)' = First(call, n)
  BY <1>1, Same
<1>4. TypeOK'
  BY <1>1 DEF BulkInv, TypeOK
<1>5. \A w \in Workers : worker[w].at = "exit" /\ worker'[w].at = "exit"
  BY <1>1, <1>2 DEF AllJoined, At
<1>6. Claims'
  BY <1>5 DEF Claims, Busy, At
<1>7. Progress'
  BY <1>1, <1>3, <1>5 DEF BulkInv, Progress, At, Busy
<1>8. Stops'
  BY <1>1, <1>3, <1>5 DEF BulkInv, Stops, At
<1>9. Ends'
  <2>1. UNCHANGED outcomes
    BY DEF Join, Finish
  <2>2. outcomes' = [n \in 1..(IF Valid(call)' THEN Chunks(call)' ELSE 0) |-> outcomes'[n]]
    BY <1>3, <2>1 DEF BulkInv, Ends
  <2>3. (phase' = "done" /\ result'.ok => ~error' /\ Valid(call)') /\ RollsBack'
    <3>1. CASE Join
      BY <3>1 DEF Join, RollsBack
    <3>2. CASE Finish /\ ~error /\ Valid(call) /\ result' = Aggregated
      BY <3>2, <1>1, <1>3, AggregatedOk DEF BulkInv, TypeOK, RollsBack
    <3>3. CASE Finish /\ result' = Failure /\ table' = IF call.transactional THEN before ELSE table
      <4>1. ~result'.ok
        BY <3>3 DEF Failure
      <4> QED
        BY <4>1, <3>3, <1>1 DEF Finish, RollsBack
    <3> QED
      BY <3>1, <3>2, <3>3 DEF Finish
  <2> QED
    BY <2>2, <2>3 DEF Ends
<1> QED
  BY <1>4, <1>6, <1>7, <1>8, <1>9 DEF BulkInv

(* The invariant is inductive.                                             *)
LEMMA BulkSteps == BulkInv /\ [Next]_vars => BulkInv'
<1> SUFFICES ASSUME BulkInv, [Next]_vars PROVE BulkInv'
  OBVIOUS
<1>1. ASSUME NEW w \in Workers, Step(w)
      PROVE  BulkInv'
  BY <1>1, TurnsHold, ClaimHolds, ExecuteHolds DEF Step
<1>2. CASE UNCHANGED vars
  <2>1. \A n : Task(n)' = Task(n)
    BY <1>2, Same DEF vars
  <2>2. /\ Valid(call)' = Valid(call) /\ Chunks(call)' = Chunks(call) /\ PerRow(call)' = PerRow(call)
        /\ Team' = Team /\ \A n : ChunkRows(call, n)' = ChunkRows(call, n) /\ First(call, n)' = First(call, n)
    BY <1>2, Same DEF vars
  <2>3. TypeOK' /\ Ends'
    <3>1. TypeOK'
      BY <1>2, <2>2 DEF vars, BulkInv, TypeOK
    <3>2. Ends'
      BY <1>2, <2>2 DEF vars, BulkInv, Ends, RollsBack
    <3> QED
      BY <3>1, <3>2
  <2>4. Claims'
    BY <1>2, <2>2 DEF vars, BulkInv, Claims, Busy, At
  <2>5. Progress'
    BY <1>2, <2>1, <2>2 DEF vars, BulkInv, Progress, Busy, At, Written
  <2>6. Stops'
    BY <1>2, <2>2 DEF vars, BulkInv, Stops, At
  <2> QED
    BY <2>3, <2>4, <2>5, <2>6 DEF BulkInv
<1> QED
  BY <1>1, <1>2, ClosingHolds DEF Next

(* Whatever the number of rows, the chunk size, the number of workers and  *)
(* the failures: a claimed chunk belongs to one worker, and a chunk below  *)
(* the counter has run, is being run, or an error is recorded.             *)
THEOREM BulkInvariant == Spec => []BulkInv
<1> QED
  BY BulkStarts, BulkSteps, PTL DEF Spec

-----------------------------------------------------------------------------
(* The statement a worker runs is of rows whose statement has not run.      *)
RunsOnce == \A w \in Workers : Execute(w) => RowsRun(w) \intersect applied = {}

(* No row's statement runs twice, whoever executes it.                     *)
THEOREM BulkRunsOnce == Spec => [][RunsOnce]_vars
<1>1. BulkInv => RunsOnce
  BY StatementRows DEF RunsOnce, Execute
<1> QED
  BY <1>1, BulkInvariant, PTL

(* A bulk call that returns has executed every row of its input.           *)
THEOREM BulkRunsEveryRow == Spec => []EveryRowRuns
<1>1. BulkInv => EveryRowRuns
  <2> SUFFICES ASSUME BulkInv, phase = "done", result.ok PROVE applied = DOMAIN call.rows
    BY DEF EveryRowRuns
  <2>1. Valid(call) /\ ~error /\ call \in Calls /\ next \in Nat
    BY DEF BulkInv, Ends, TypeOK
  <2>2. \A w \in Workers : At(w, "exit") /\ ~Busy(w)
    BY DEF BulkInv, Claims, At, Busy
  <2>3. next > Chunks(call)
    <3>1. 1 \in Team /\ 1 \in Workers
      BY <2>1, TeamStarts DEF Team
    <3>2. ~failed
      BY <2>1 DEF BulkInv, Stops
    <3> QED
      BY <2>1, <2>2, <3>1, <3>2 DEF BulkInv, Stops
  <2>4. ASSUME NEW i \in DOMAIN call.rows
        PROVE  i \in applied
    <3>1. PICK n \in 1..Chunks(call) : i \in Task(n)
      BY <2>1, Tasks
    <3>2. n < next
      BY <2>1, <2>3, Tasks
    <3> QED
      BY <2>1, <2>2, <3>1, <3>2 DEF BulkInv, Progress
  <2> QED
    BY <2>4 DEF BulkInv, Progress
<1> QED
  BY <1>1, BulkInvariant, PTL

(* A transactional bulk call that throws leaves the table it found.        *)
THEOREM BulkRollsBack == Spec => []RollsBack
<1>1. BulkInv => RollsBack
  BY DEF BulkInv, Ends
<1> QED
  BY <1>1, BulkInvariant, PTL

(* A chunk's statement runs for all its rows or for none: nothing stops in *)
(* the middle of a chunk but bulk_update, whose chunks are one statement   *)
(* per row.                                                                *)
THEOREM BulkWholeChunks == Spec => []WholeChunks
<1>1. BulkInv => WholeChunks
  BY Tasks DEF BulkInv, TypeOK, Progress, WholeChunks, RowsOf
<1> QED
  BY <1>1, BulkInvariant, PTL

-----------------------------------------------------------------------------
(* What a row does to the value of its key, and what it returns: for the    *)
(* operations whose rows are statements of their own.                       *)
Statements == {"insert", "update", "delete", "upsert"}
KeyOf(c, i) == c.rows[i].key
New(c, i)   == IF "val" \in Cols(c.rows[i]) THEN c.rows[i].val ELSE Null
Value(c, i, v) ==
  IF c.op = "insert" THEN IF v = Absent THEN New(c, i) ELSE v
  ELSE IF c.op = "upsert" THEN IF v # Absent /\ "val" \notin Cols(c.rows[i]) THEN v ELSE New(c, i)
  ELSE IF c.op = "update" THEN IF c.rows[i].val # Missing /\ v \in c.where THEN c.rows[i].val ELSE v
  ELSE IF v \in c.where THEN Absent ELSE v
Reply(c, i, v) ==
  IF c.op = "insert" THEN IF v = Absent THEN <<KeyOf(c, i)>> ELSE <<>>
  ELSE IF c.op = "upsert" THEN IF v # Absent /\ "val" \notin Cols(c.rows[i]) THEN <<>> ELSE <<KeyOf(c, i)>>
  ELSE IF c.op = "update" THEN IF c.rows[i].val = Missing THEN <<>>
                               ELSE SetToSeq(IF v \in c.where THEN {KeyOf(c, i)} ELSE {})
  ELSE <<>>
IsTable(t) == t = [k \in Keys |-> t[k]]
After(c, i, t) == [k \in Keys |-> IF k = KeyOf(c, i) THEN Value(c, i, t[k]) ELSE t[k]]
Said(c, i, t)  == IF KeyOf(c, i) \in Keys THEN Reply(c, i, t[KeyOf(c, i)]) ELSE <<>>

(* The call of one row.                                                     *)
LEMMA AloneIs ==
  ASSUME NEW c \in Calls, NEW i \in DOMAIN c.rows
  PROVE  /\ Alone(c, i).op = c.op /\ Alone(c, i).where = c.where
         /\ Alone(c, i).rows = <<c.rows[i]>> /\ Alone(c, i).rows[1] = c.rows[i]
         /\ c.rows[i] \in BulkRows
<1>1. c \in CallType
  BY BulkAssumption DEF BulkAssumption
<1>2. c = [op |-> c.op, rows |-> c.rows, size |-> c.size, concurrency |-> c.concurrency,
           transactional |-> c.transactional, callback |-> c.callback, where |-> c.where]
  BY <1>1 DEF CallType
<1>3. c.rows \in Seq(BulkRows)
  BY <1>1 DEF CallType
<1>4. c.rows[i] \in BulkRows
  BY <1>3
<1>5. Alone(c, i) = [c EXCEPT !.rows = <<c.rows[i]>>, !.size = 1]
  BY DEF Alone
<1> QED
  BY <1>2, <1>4, <1>5

(* What an INSERT that works does: its keys are distinct and new.           *)
Inserting(q, t) ==
  /\ Compiles(q) /\ Cardinality({q[i].key : i \in DOMAIN q}) = Len(q)
  /\ \A k \in {q[i].key : i \in DOMAIN q} : t[k] = Absent
Stores(q, t, f) ==
  /\ \A k \in Keys : (\A i \in DOMAIN q : q[i].key # k) => f[k] = t[k]
  /\ \A k \in Keys, i \in DOMAIN q : (\A j \in DOMAIN q : q[j].key = k <=> j = i) => f[k] = ValueIn(q, i)

(* Inserted either stores the rows or refuses them.                         *)
LEMMA InsertedIs ==
  ASSUME NEW t, NEW q, NEW o, o = Inserted(t, q)
  PROVE  /\ ~Inserting(q, t) => o = Refused(t)
         /\ Inserting(q, t) => /\ o.ok /\ IsTable(o.table)
                               /\ o.returning = [i \in DOMAIN q |-> q[i].key]
                               /\ Stores(q, t, o.table)
<1>1. PICK S : S = {q[i].key : i \in DOMAIN q}
  OBVIOUS
<1>2. PICK f : f = [k \in Keys |-> IF k \in S THEN ValueIn(q, CHOOSE i \in DOMAIN q : q[i].key = k) ELSE t[k]]
  OBVIOUS
<1>3. PICK g : g = [i \in DOMAIN q |-> q[i].key]
  OBVIOUS
<1>4. Inserted(t, q) = IF Compiles(q) /\ Cardinality(S) = Len(q) /\ \A k \in S : t[k] = Absent
                       THEN [ok |-> TRUE, returning |-> g, table |-> f] ELSE Refused(t)
  BY <1>1, <1>2, <1>3 DEF Inserted
<1>5. Inserting(q, t) <=> Compiles(q) /\ Cardinality(S) = Len(q) /\ \A k \in S : t[k] = Absent
  BY <1>1, Zenon DEF Inserting
<1>6. ~Inserting(q, t) => o = Refused(t)
  BY <1>4, <1>5
<1>7. ASSUME Inserting(q, t)
      PROVE  o = [ok |-> TRUE, returning |-> g, table |-> f]
  BY <1>4, <1>5, <1>7
<1>8. f = [k \in Keys |-> f[k]]
  BY <1>2
<1>9. ASSUME NEW k \in Keys, \A i \in DOMAIN q : q[i].key # k
      PROVE  f[k] = t[k]
  BY <1>1, <1>2, <1>9
<1>10. ASSUME NEW k \in Keys, NEW i \in DOMAIN q, \A j \in DOMAIN q : q[j].key = k <=> j = i
       PROVE  f[k] = ValueIn(q, i)
  <2>1. k \in S
    BY <1>1, <1>10
  <2>2. (CHOOSE j \in DOMAIN q : q[j].key = k) = i
    BY <1>10
  <2> QED
    BY <1>2, <2>1, <2>2
<1>11. Stores(q, t, f)
  BY <1>9, <1>10 DEF Stores
<1> QED
  BY <1>3, <1>6, <1>7, <1>8, <1>11 DEF IsTable

(* Each kind of statement, on one row.                                      *)
LEMMA InsertAlone ==
  ASSUME NEW c \in Calls, NEW i \in DOMAIN c.rows, c.op = "insert", NEW t, IsTable(t),
         NEW q, q = <<c.rows[i]>>, NEW o, o = Inserted(t, q)
  PROVE  o.table = After(c, i, t) /\ o.returning = Said(c, i, t)
<1>1. PICK key \in Keys : key = KeyOf(c, i)
  <2>1. c.rows[i] \in BulkRows
    BY AloneIs
  <2> QED
    BY <2>1, BulkAssumption DEF BulkAssumption, BulkRows, KeyOf
<1>2. DOMAIN q = {1} /\ q[1] = c.rows[i] /\ Len(q) = 1 /\ q[1].key = key
  BY <1>1 DEF KeyOf
<1>3. {q[j].key : j \in DOMAIN q} = {key}
  BY <1>2
<1>4. Cardinality({key}) = 1
  BY FS_Singleton
<1>5. Compiles(q)
  BY <1>2 DEF Compiles
<1>6. Inserting(q, t) <=> t[key] = Absent
  BY <1>2, <1>3, <1>4, <1>5 DEF Inserting
<1>7. ValueIn(q, 1) = New(c, i)
  BY <1>2 DEF ValueIn, New
<1>8. CASE t[key] = Absent
  <2>1. o.table = [k \in Keys |-> o.table[k]] /\ o.returning = [j \in DOMAIN q |-> q[j].key]
    BY <1>6, <1>8, InsertedIs DEF IsTable
  <2>2. \A k \in Keys : o.table[k] = IF k = key THEN New(c, i) ELSE t[k]
    <3>1. Stores(q, t, o.table)
      BY <1>6, <1>8, InsertedIs
    <3>2. 1 \in DOMAIN q /\ \A j \in DOMAIN q : j = 1 /\ q[j].key = key
      BY <1>2
    <3>3. o.table[key] = ValueIn(q, 1)
      BY <3>1, <3>2 DEF Stores
    <3>4. ASSUME NEW k \in Keys, k # key PROVE o.table[k] = t[k]
      BY <3>1, <3>2, <3>4 DEF Stores
    <3> QED
      BY <1>7, <3>3, <3>4
  <2>3. After(c, i, t) = [k \in Keys |-> IF k = key THEN New(c, i) ELSE t[k]]
    BY <1>1, <1>8 DEF After, Value
  <2>4. o.returning = <<key>>
    <3>1. [j \in DOMAIN q |-> q[j].key] = [j \in {1} |-> key]
      BY <1>2
    <3>2. <<key>> = [j \in {1} |-> key]
      OBVIOUS
    <3> QED
      BY <2>1, <3>1, <3>2
  <2>5. Said(c, i, t) = <<key>>
    BY <1>1, <1>8 DEF Said, Reply
  <2> QED
    BY <2>1, <2>2, <2>3, <2>4, <2>5
<1>9. CASE t[key] # Absent
  <2>1. o = Refused(t)
    BY <1>6, <1>9, InsertedIs
  <2>2. After(c, i, t) = [k \in Keys |-> t[k]]
    BY <1>1, <1>9 DEF After, Value
  <2>3. Said(c, i, t) = <<>>
    BY <1>1, <1>9 DEF Said, Reply
  <2> QED
    BY <2>1, <2>2, <2>3 DEF Refused, IsTable
<1> QED
  BY <1>8, <1>9

(* An upsert of one row.                                                    *)
LEMMA UpsertAlone ==
  ASSUME NEW c \in Calls, NEW i \in DOMAIN c.rows, c.op = "upsert", NEW t, IsTable(t),
         NEW o, o = Upserted(t, <<c.rows[i]>>, "val" \in Cols(c.rows[i]))
  PROVE  o.table = After(c, i, t) /\ o.returning = Said(c, i, t)
<1> DEFINE r == c.rows[i]
           q == <<r>>
           u == "val" \in Cols(r)
<1>1. r.key \in Keys
  <2>1. c.rows[i] \in BulkRows
    BY AloneIs
  <2> QED
    BY <2>1, BulkAssumption DEF BulkAssumption, BulkRows
<1>2. DOMAIN q = {1} /\ q[1] = r /\ Len(q) = 1 /\ Len(q) \in Nat
  OBVIOUS
<1>0. o = Upserted(t, q, u)
  OBVIOUS
<1> HIDE DEF q, u
<1>4. Compiles(q)
  BY <1>2 DEF Compiles
<1>5. PICK g : Puts(g, t, q, u, Len(q)) /\ Upserted(t, q, u) = g[Len(q)]
  BY <1>2, <1>4, UpsertedLoops
<1>6. ValueIn(q, 1) = New(c, i)
  BY <1>2 DEF ValueIn, New
<1>7. g[0] = Unchanged(t) /\ g[1] = UpsertRow(g[0], q, 1, u)
  BY <1>2, <1>5 DEF Puts
<1>8. o = UpsertRow(Unchanged(t), q, 1, u)
  BY <1>0, <1>2, <1>5, <1>7
<1>9. CASE t[r.key] # Absent /\ ~u
  <2>1. o = Unchanged(t)
    BY <1>2, <1>8, <1>9 DEF UpsertRow, Unchanged
  <2>2. After(c, i, t) = [k \in Keys |-> t[k]]
    BY <1>9 DEF After, KeyOf, Value, u
  <2>3. Said(c, i, t) = <<>>
    BY <1>1, <1>9 DEF Said, KeyOf, Reply, u
  <2> QED
    BY <2>1, <2>2, <2>3 DEF Unchanged, IsTable
<1>10. CASE ~(t[r.key] # Absent /\ ~u)
  <2>1. o = [Unchanged(t) EXCEPT !.table[r.key] = New(c, i), !.returning = Append(@, r.key)]
    BY <1>2, <1>6, <1>8, <1>10 DEF UpsertRow, Unchanged
  <2>2. o.table = [t EXCEPT ![r.key] = New(c, i)] /\ o.returning = Append(<<>>, r.key)
    BY <2>1 DEF Unchanged
  <2>3. After(c, i, t) = [k \in Keys |-> IF k = r.key THEN New(c, i) ELSE t[k]]
    BY <1>10 DEF After, KeyOf, Value, u
  <2>4. Said(c, i, t) = <<r.key>>
    BY <1>1, <1>10 DEF Said, KeyOf, Reply, u
  <2>5. [t EXCEPT ![r.key] = New(c, i)] = [k \in Keys |-> IF k = r.key THEN New(c, i) ELSE t[k]]
    BY DEF IsTable
  <2> QED
    BY <2>2, <2>3, <2>4, <2>5
<1> QED
  BY <1>9, <1>10

(* A sequence of at most one key.                                           *)
LEMMA OneToSeq ==
  ASSUME NEW k, NEW S, S = {} \/ S = {k}
  PROVE  SetToSeq(S) \in Seq({k})
<1>1. CASE S = {}
  <2>1. Cardinality(S) = 0
    BY <1>1, FS_EmptySet
  <2>2. PICK f : f = [j \in 1..0 |-> k]
    OBVIOUS
  <2>3. f \in [1..0 -> S] /\ IsInjective(f)
    BY <2>2 DEF IsInjective
  <2>4. SetToSeq(S) \in [1..0 -> S]
    BY <2>1, <2>3 DEF SetToSeq
  <2> QED
    BY <2>4, <1>1
<1>2. CASE S = {k}
  <2>1. Cardinality(S) = 1
    BY <1>2, FS_Singleton
  <2>2. PICK f : f = [j \in 1..1 |-> k]
    OBVIOUS
  <2>3. f \in [1..1 -> S] /\ IsInjective(f)
    BY <1>2, <2>2 DEF IsInjective
  <2>4. SetToSeq(S) \in [1..1 -> S]
    BY <2>1, <2>3 DEF SetToSeq
  <2> QED
    BY SMTT(60), <2>4, <1>2
<1> QED
  BY <1>1, <1>2

(* UPDATE and DELETE of one key.                                            *)
LEMMA UpdateOne ==
  ASSUME NEW t, IsTable(t), NEW k, NEW v, NEW W, NEW o, o = Set(t, <<k>>, v, W)
  PROVE  /\ o.ok /\ o.table = [x \in Keys |-> IF x = k /\ t[x] \in W THEN v ELSE t[x]]
         /\ o.returning = SetToSeq(IF k \in Keys /\ t[k] \in W THEN {k} ELSE {})
<1>1. ToSet(<<k>>) = {k}
  BY DEF ToSet
<1>2. PICK H : H = {x \in Keys : x \in ToSet(<<k>>) /\ Matches(t, x, W)}
  OBVIOUS
<1>3. H = IF k \in Keys /\ t[k] \in W THEN {k} ELSE {}
  BY <1>1, <1>2 DEF Matches
<1>4. o = [ok |-> TRUE, table |-> [x \in Keys |-> IF x \in H THEN v ELSE t[x]], returning |-> SetToSeq(H)]
  BY <1>2 DEF Set
<1>5. PICK f, s : f = [x \in Keys |-> IF x \in H THEN v ELSE t[x]] /\ s = SetToSeq(H)
  OBVIOUS
<1>6. o = [ok |-> TRUE, table |-> f, returning |-> s]
  BY <1>4, <1>5
<1>7. f = [x \in Keys |-> IF x = k /\ t[x] \in W THEN v ELSE t[x]]
  BY <1>3, <1>5
<1> QED
  BY <1>3, <1>5, <1>6, <1>7

(* A delete of the keys of some rows.                                       *)
LEMMA DeleteKeys ==
  ASSUME NEW t, NEW q, NEW W, NEW o, o = Deleted(t, KeysOf(q), W)
  PROVE  /\ o.ok /\ IsTable(o.table) /\ o.returning = <<>>
         /\ \A k \in Keys : o.table[k] = IF (\E i \in DOMAIN q : q[i].key = k) /\ t[k] \in W
                                         THEN Absent ELSE t[k]
<1>1. \A k : k \in ToSet(KeysOf(q)) <=> \E i \in DOMAIN q : q[i].key = k
  BY DEF ToSet, KeysOf
<1>2. PICK f : f = [k \in Keys |-> IF k \in ToSet(KeysOf(q)) /\ Matches(t, k, W) THEN Absent ELSE t[k]]
  OBVIOUS
<1>3. o = [ok |-> TRUE, returning |-> <<>>, table |-> f]
  BY <1>2 DEF Deleted
<1> QED
  BY <1>1, <1>2, <1>3 DEF Matches, IsTable

(* One row, whatever the operation.                                         *)
LEMMA AloneDoes ==
  ASSUME NEW c \in Calls, c.op \in Statements, NEW i \in DOMAIN c.rows, NEW t, IsTable(t),
         NEW o, o = Executed(Alone(c, i), t, <<c.rows[i]>>, 1)
  PROVE  o.table = After(c, i, t) /\ o.returning = Said(c, i, t)
<1> DEFINE r == c.rows[i]
<1>1. /\ Alone(c, i).op = c.op /\ Alone(c, i).where = c.where
      /\ Alone(c, i).rows = <<r>> /\ Alone(c, i).rows[1] = r
      /\ r \in BulkRows
  BY AloneIs
<1>2. PICK q : q = <<r>>
  OBVIOUS
<1>3. DOMAIN q = {1} /\ q[1] = r
  BY <1>2
<1>4. CASE c.op = "insert"
  <2>1. o = Inserted(t, q)
    BY <1>1, <1>2, <1>4 DEF Executed
  <2> QED
    BY <2>1, <1>2, <1>4, InsertAlone
<1>5. CASE c.op = "upsert"
  <2>1. UpdatesVal(Alone(c, i)) = ("val" \in Cols(r))
    BY <1>1 DEF UpdatesVal
  <2>2. o = Upserted(t, <<r>>, "val" \in Cols(r))
    BY <1>1, <1>5, <2>1 DEF Executed
  <2> QED
    BY <2>2, <1>5, UpsertAlone
<1>6. CASE c.op = "update"
  <2>1. o = IF q[1].key = Missing THEN Refused(t)
            ELSE IF q[1].val = Missing THEN [ok |-> TRUE, table |-> t, returning |-> <<>>]
            ELSE Set(t, <<q[1].key>>, q[1].val, c.where)
    BY <1>1, <1>2, <1>6 DEF Executed
  <2>2. CASE r.key = Missing
    <3>1. KeyOf(c, i) \notin Keys
      BY <2>2, BulkAssumption DEF BulkAssumption, KeyOf
    <3>2. After(c, i, t) = [k \in Keys |-> t[k]] /\ Said(c, i, t) = <<>>
      BY <3>1 DEF After, Said
    <3> QED
      BY <2>1, <2>2, <3>2, <1>3 DEF Refused, IsTable
  <2>3. CASE r.key # Missing /\ r.val = Missing
    <3>1. After(c, i, t) = [k \in Keys |-> t[k]] /\ Said(c, i, t) = <<>>
      BY <1>6, <2>3 DEF After, Said, Value, Reply
    <3> QED
      BY <2>1, <2>3, <3>1, <1>3 DEF IsTable
  <2>4. CASE r.key # Missing /\ r.val # Missing
    <3>1. r.key \in Keys
      BY <1>1, <2>4 DEF BulkRows
    <3>2. o = Set(t, <<r.key>>, r.val, c.where)
      BY <2>1, <2>4, <1>3
    <3>3. /\ o.table = [x \in Keys |-> IF x = r.key /\ t[x] \in c.where THEN r.val ELSE t[x]]
          /\ o.returning = SetToSeq(IF r.key \in Keys /\ t[r.key] \in c.where THEN {r.key} ELSE {})
      BY <3>2, UpdateOne
    <3>4. After(c, i, t) = [x \in Keys |-> IF x = r.key /\ t[x] \in c.where THEN r.val ELSE t[x]]
      BY <1>6, <2>4 DEF After, KeyOf, Value
    <3>5. Said(c, i, t) = SetToSeq(IF t[r.key] \in c.where THEN {r.key} ELSE {})
      BY <1>6, <2>4, <3>1 DEF Said, KeyOf, Reply
    <3> QED
      BY <3>1, <3>3, <3>4, <3>5
  <2> QED
    BY <2>2, <2>3, <2>4
<1>7. CASE c.op = "delete"
  <2>1. o = Deleted(t, KeysOf(q), c.where)
    BY <1>1, <1>2, <1>7 DEF Executed, DeletesRows
  <2>2. /\ o.table = [k \in Keys |-> o.table[k]] /\ o.returning = <<>>
        /\ \A k \in Keys : o.table[k] = IF (\E j \in DOMAIN q : q[j].key = k) /\ t[k] \in c.where
                                        THEN Absent ELSE t[k]
    BY <2>1, DeleteKeys DEF IsTable
  <2>3. \A k \in Keys : o.table[k] = IF k = KeyOf(c, i) THEN Value(c, i, t[k]) ELSE t[k]
    BY <1>3, <1>7, <2>2 DEF KeyOf, Value
  <2>4. Said(c, i, t) = <<>>
    BY <1>7 DEF Said, Reply
  <2> QED
    BY <2>2, <2>3, <2>4 DEF After
<1> QED
  BY <1>4, <1>5, <1>6, <1>7 DEF Statements

-----------------------------------------------------------------------------
(* Rows a..b, one statement after the other, lead from table t to u and say *)
(* `said'.                                                                  *)
Leads(c, t, a, b, u, said) ==
  \E h, q : /\ h[a - 1] = t /\ q[a - 1] = <<>> /\ h[b] = u /\ q[b] = said
            /\ \A i \in a..b : h[i] = After(c, i, h[i - 1]) /\ q[i] = q[i - 1] \o Said(c, i, h[i - 1])
(* The chunk of these rows.                                                 *)
Sliced(c, q, a, b) ==
  /\ a \in 1..Len(c.rows) /\ b \in 1..Len(c.rows) /\ a <= b /\ Len(c.rows) \in Nat
  /\ DOMAIN q = 1..(b - a + 1) /\ Len(q) = b - a + 1
  /\ \A j \in 1..(b - a + 1) : q[j] = c.rows[a + j - 1]

(* A row returns keys.                                                      *)
LEMMA SaidSeq ==
  ASSUME NEW c \in Calls, NEW i, NEW t
  PROVE  Said(c, i, t) \in Seq(Keys)
<1>1. CASE KeyOf(c, i) \notin Keys
  BY <1>1 DEF Said
<1>2. CASE KeyOf(c, i) \in Keys
  <2>1. PICK k \in Keys : k = KeyOf(c, i)
    BY <1>2
  <2>2. <<k>> \in Seq(Keys) /\ <<>> \in Seq(Keys)
    BY <2>1
  <2>3. SetToSeq({k}) \in Seq({k}) /\ SetToSeq({}) \in Seq({k}) /\ Seq({k}) \subseteq Seq(Keys)
    <3>1. SetToSeq({k}) \in Seq({k}) /\ SetToSeq({}) \in Seq({k})
      BY OneToSeq
    <3> QED
      BY <3>1, <2>1
  <2>4. Said(c, i, t) \in {<<k>>, <<>>, SetToSeq({k}), SetToSeq({})}
    BY <2>1 DEF Said, Reply
  <2> QED
    BY <2>2, <2>3, <2>4
<1> QED
  BY <1>1, <1>2

(* The keys of an INSERT that works are distinct.                           *)
LEMMA KeysApart ==
  ASSUME NEW q, NEW n \in Nat, DOMAIN q = 1..n, Cardinality({q[i].key : i \in DOMAIN q}) = n,
         NEW a \in 1..n, NEW b \in 1..n, q[a].key = q[b].key
  PROVE  a = b
<1> SUFFICES ASSUME a # b PROVE FALSE
  OBVIOUS
<1> DEFINE S == {q[i].key : i \in DOMAIN q}
<1>1. PICK f : f = [i \in 1..n |-> q[i].key]
  OBVIOUS
<1>2. f \in Surjection(1..n, S)
  BY <1>1 DEF Surjection
<1>3. IsFiniteSet(1..n) /\ Cardinality(1..n) = n
  BY FS_Interval
<1>4. f \in Injection(1..n, S)
  BY <1>2, <1>3, FS_SurjSameCardinalityImpliesInj
<1> QED
  BY <1>1, <1>4 DEF Injection, IsInjective

(* A sequence with one more element.                                        *)
OneMore(f, g, n, e) ==
  /\ f = [j \in 1..(n + 1) |-> f[j]] /\ g = [j \in 1..n |-> g[j]]
  /\ f[n + 1] = e /\ \A j \in 1..n : g[j] = f[j]

(* Such a sequence is the shorter one with the element appended.            *)
LEMMA Longer ==
  ASSUME NEW n \in Nat, NEW f, NEW g, NEW e, OneMore(f, g, n, e)
  PROVE  f = g \o <<e>>
<1> USE DEF OneMore
<1>1. PICK T : T = {f[j] : j \in 1..(n + 1)}
  OBVIOUS
<1>2. f \in Seq(T) /\ g \in Seq(T) /\ e \in T /\ Len(f) = n + 1 /\ Len(g) = n
  <2>1. \A j \in 1..(n + 1) : f[j] \in T
    BY <1>1
  <2>2. \A j \in 1..n : j \in 1..(n + 1) /\ g[j] \in T
    BY SMTT(60), <2>1
  <2>3. f \in [1..(n + 1) -> T] /\ g \in [1..n -> T]
    BY <2>1, <2>2
  <2>4. n + 1 \in 1..(n + 1)
    OBVIOUS
  <2> QED
    BY <2>1, <2>3, <2>4
<1>3. g \o <<e>> = Append(g, e)
  BY <1>2
<1>4. Append(g, e) \in Seq(T) /\ Len(Append(g, e)) = n + 1
  BY <1>2
<1>5. \A j \in 1..(n + 1) : Append(g, e)[j] = f[j]
  <2>1. \A j \in 1..n : Append(g, e)[j] = g[j]
    BY ONLY <1>2, AppendProperties
  <2>2. Append(g, e)[n + 1] = e
    BY ONLY <1>2, AppendProperties
  <2>3. f[n + 1] = e /\ \A j \in 1..n : g[j] = f[j]
    OBVIOUS
  <2>4. \A j \in 1..(n + 1) : j \in 1..n \/ j = n + 1
    OBVIOUS
  <2> QED
    BY ONLY <2>1, <2>2, <2>3, <2>4
<1>6. f = Append(g, e)
  BY ONLY <1>2, <1>4, <1>5, SeqEqual
<1> QED
  BY ONLY <1>3, <1>6

(* Where the rows of a chunk lie among those of the call.                    *)
Among(c, q, a, b) ==
  /\ a \in Nat /\ b \in Nat /\ a > 0 /\ a <= b /\ a - 1 \in (a - 1)..b /\ b \in (a - 1)..b
  /\ \A i \in a..b : /\ i - a + 1 \in DOMAIN q /\ q[i - a + 1] = c.rows[i] /\ i \in DOMAIN c.rows
                     /\ i \in (a - 1)..b /\ i - 1 \in (a - 1)..b /\ i \in Nat
  /\ \A j \in DOMAIN q : j \in Nat /\ a + j - 1 \in a..b /\ j = (a + j - 1) - a + 1

(* A slice lies there.                                                      *)
LEMMA SlicedAmong ==
  ASSUME NEW c \in Calls, NEW q, NEW a, NEW b, Sliced(c, q, a, b)
  PROVE  Among(c, q, a, b)
<1>1. DOMAIN c.rows = 1..Len(c.rows)
  BY BulkAssumption DEF BulkAssumption, CallType
<1>2. /\ a \in 1..Len(c.rows) /\ b \in 1..Len(c.rows) /\ a <= b /\ Len(c.rows) \in Nat
      /\ DOMAIN q = 1..(b - a + 1) /\ Len(q) = b - a + 1
  BY DEF Sliced
<1>3. ASSUME NEW i \in a..b
      PROVE  /\ i - a + 1 \in DOMAIN q /\ q[i - a + 1] = c.rows[i] /\ i \in DOMAIN c.rows
  <2>1. i - a + 1 \in 1..(b - a + 1) /\ a + (i - a + 1) - 1 = i /\ i \in 1..Len(c.rows)
    BY <1>2
  <2> QED
    BY <1>1, <1>2, <2>1 DEF Sliced
<1>4. \A i \in a..b : i \in (a - 1)..b /\ i - 1 \in (a - 1)..b /\ i \in Nat
  BY <1>2
<1>5. \A j \in DOMAIN q : j \in Nat /\ a + j - 1 \in a..b /\ j = (a + j - 1) - a + 1
  BY SMTT(60), <1>2
<1>6. a \in Nat /\ b \in Nat /\ a > 0 /\ a <= b /\ a - 1 \in (a - 1)..b /\ b \in (a - 1)..b
  BY <1>2
<1> QED
  BY <1>3, <1>4, <1>5, <1>6 DEF Among

(* A multi-row INSERT that works does what its rows do one at a time.       *)
LEMMA InsertLeads ==
  ASSUME NEW c \in Calls, c.op = "insert", Uniform(c), NEW q, NEW a, NEW b, Sliced(c, q, a, b),
         NEW t, IsTable(t), NEW o, o = Inserted(t, q), o.ok
  PROVE  Leads(c, t, a, b, o.table, o.returning)
<1>1. Inserting(q, t)
  <2>1. ~Refused(t).ok
    BY DEF Refused
  <2> QED
    BY <2>1, InsertedIs
<1>2. /\ IsTable(o.table) /\ Stores(q, t, o.table)
      /\ o.returning = [i \in DOMAIN q |-> q[i].key]
  BY <1>1, InsertedIs
<1>3. /\ a \in Nat /\ b \in Nat /\ a > 0 /\ a <= b /\ a - 1 \in (a - 1)..b /\ b \in (a - 1)..b
      /\ \A i \in a..b : /\ i - a + 1 \in DOMAIN q /\ q[i - a + 1] = c.rows[i] /\ i \in DOMAIN c.rows
                         /\ i \in (a - 1)..b /\ i - 1 \in (a - 1)..b /\ i \in Nat
      /\ \A j \in DOMAIN q : j \in Nat /\ a + j - 1 \in a..b /\ j = (a + j - 1) - a + 1
  BY SlicedAmong DEF Among
<1>4. ASSUME NEW i \in a..b
      PROVE  /\ KeyOf(c, i) \in Keys /\ t[KeyOf(c, i)] = Absent
             /\ \A j \in a..b : KeyOf(c, j) = KeyOf(c, i) => j = i
             /\ o.table[KeyOf(c, i)] = New(c, i)
  <2> DEFINE n == i - a + 1
  <2>1. n \in DOMAIN q /\ q[n] = c.rows[i] /\ i \in DOMAIN c.rows /\ q[n].key = KeyOf(c, i)
    BY <1>3 DEF KeyOf
  <2>2. KeyOf(c, i) \in Keys
    <3>1. c.rows[i] \in BulkRows
      BY <2>1, AloneIs
    <3> QED
      BY <2>1, <3>1, BulkAssumption DEF BulkAssumption, BulkRows, KeyOf
  <2>3. t[KeyOf(c, i)] = Absent
    BY <1>1, <2>1 DEF Inserting
  <2> HIDE DEF n
  <2>4. ASSUME NEW m \in DOMAIN q, q[m].key = q[n].key
        PROVE  m = n
    <3>1. Len(q) \in Nat /\ DOMAIN q = 1..Len(q)
      BY <1>3 DEF Sliced
    <3>2. Cardinality({q[x].key : x \in DOMAIN q}) = Len(q)
      BY <1>1 DEF Inserting
    <3> QED
      BY <2>1, <2>4, <3>1, <3>2, KeysApart
  <2>5. ASSUME NEW j \in a..b, KeyOf(c, j) = KeyOf(c, i)
        PROVE  j = i
    <3>1. j - a + 1 \in DOMAIN q /\ q[j - a + 1].key = q[n].key
      BY <2>1, <2>5, <1>3 DEF KeyOf
    <3>2. j - a + 1 = i - a + 1
      BY <2>4, <3>1 DEF n
    <3>3. i \in Nat /\ j \in Nat
      BY <1>3
    <3> QED
      BY <3>2, <3>3, <1>3
  <2>6. o.table[KeyOf(c, i)] = ValueIn(q, n)
    <3>1. \A m \in DOMAIN q : q[m].key = KeyOf(c, i) <=> m = n
      BY <2>1, <2>4
    <3> QED
      BY <2>1, <2>2, <3>1, <1>2 DEF Stores
  <2>7. ValueIn(q, n) = New(c, i)
    <3>1. 1 \in DOMAIN q /\ a \in a..b /\ q[1] = c.rows[a] /\ a \in DOMAIN c.rows
      <4>1. a \in a..b /\ a - a + 1 = 1
        BY <1>3
      <4> QED
        BY <4>1, <1>3
    <3>2. Cols(q[1]) = Cols(c.rows[i])
      BY <3>1, <2>1 DEF Uniform
    <3> QED
      BY <3>2, <2>1 DEF ValueIn, New
  <2> QED
    BY <2>2, <2>3, <2>5, <2>6, <2>7
<1> DEFINE h == [n \in (a - 1)..b |-> [k \in Keys |-> IF \E j \in a..n : KeyOf(c, j) = k
                                                      THEN o.table[k] ELSE t[k]]]
           s == [n \in (a - 1)..b |-> [j \in 1..(n - a + 1) |-> KeyOf(c, a + j - 1)]]
<1>5. h[a - 1] = t
  <2>1. a..(a - 1) = {}
    BY <1>3
  <2>2. h[a - 1] = [k \in Keys |-> t[k]]
    BY <1>3, <2>1
  <2> QED
    BY <2>2 DEF IsTable
<1>6. s[a - 1] = <<>>
  <2>1. 1..((a - 1) - a + 1) = {}
    BY <1>3
  <2>2. s[a - 1] = [j \in {} |-> KeyOf(c, a + j - 1)]
    BY <1>3, <2>1
  <2> QED
    BY <2>2
<1>7. h[b] = o.table
  <2>1. h[b] = [k \in Keys |-> IF \E j \in a..b : KeyOf(c, j) = k THEN o.table[k] ELSE t[k]]
    BY <1>3
  <2>2. ASSUME NEW k \in Keys, ~\E j \in a..b : KeyOf(c, j) = k
        PROVE  o.table[k] = t[k]
    <3>1. ASSUME NEW j \in DOMAIN q PROVE q[j].key # k
      <4>1. a + j - 1 \in a..b /\ q[(a + j - 1) - a + 1] = c.rows[a + j - 1] /\ j = (a + j - 1) - a + 1
        BY <1>3
      <4> QED
        BY <2>2, <4>1 DEF KeyOf
    <3> QED
      BY <3>1, <1>2 DEF Stores
  <2>3. o.table = [k \in Keys |-> o.table[k]]
    BY <1>2 DEF IsTable
  <2> QED
    BY <2>1, <2>2, <2>3
<1>8. s[b] = o.returning
  <2>1. s[b] = [j \in 1..(b - a + 1) |-> KeyOf(c, a + j - 1)]
    BY <1>3
  <2>2. ASSUME NEW j \in 1..(b - a + 1) PROVE q[j].key = KeyOf(c, a + j - 1)
    BY DEF Sliced, KeyOf
  <2>3. DOMAIN q = 1..(b - a + 1)
    BY DEF Sliced
  <2> QED
    BY <2>1, <2>2, <2>3, <1>2
<1>9. ASSUME NEW i \in a..b
      PROVE  h[i] = After(c, i, h[i - 1]) /\ s[i] = s[i - 1] \o Said(c, i, h[i - 1])
  <2>1. /\ h[i] = [k \in Keys |-> IF \E j \in a..i : KeyOf(c, j) = k THEN o.table[k] ELSE t[k]]
        /\ h[i - 1] = [k \in Keys |-> IF \E j \in a..(i - 1) : KeyOf(c, j) = k THEN o.table[k] ELSE t[k]]
        /\ s[i] = [j \in 1..(i - a + 1) |-> KeyOf(c, a + j - 1)]
        /\ s[i - 1] = [j \in 1..((i - 1) - a + 1) |-> KeyOf(c, a + j - 1)]
    BY <1>3
  <2> HIDE DEF h, s
  <2>2. PICK key \in Keys : key = KeyOf(c, i) /\ t[key] = Absent /\ o.table[key] = New(c, i)
                            /\ \A j \in a..b : KeyOf(c, j) = key => j = i
    BY <1>4
  <2>3. \A j \in a..i : j = i \/ j \in a..(i - 1)
    BY <1>3
  <2>4. i \in a..i /\ \A j \in a..(i - 1) : j \in a..i /\ j \in a..b /\ j # i
    BY <1>3
  <2>5. h[i - 1][key] = Absent
    BY <2>1, <2>2, <2>4
  <2>6. ASSUME NEW k \in Keys
        PROVE  h[i][k] = IF k = key THEN New(c, i) ELSE h[i - 1][k]
    BY <2>1, <2>2, <2>3, <2>4
  <2>7. After(c, i, h[i - 1]) = [k \in Keys |-> IF k = key THEN New(c, i) ELSE h[i - 1][k]]
    BY <2>2, <2>5 DEF After, Value
  <2>8. h[i] = [k \in Keys |-> IF k = key THEN New(c, i) ELSE h[i - 1][k]]
    BY <2>1, <2>6
  <2>9. Said(c, i, h[i - 1]) = <<key>>
    BY <2>2, <2>5 DEF Said, Reply
  <2>10. PICK n \in Nat : n = i - a /\ i - a + 1 = n + 1 /\ (i - 1) - a + 1 = n /\ a + (n + 1) - 1 = i
    BY <1>3
  <2>11. s[i] = [j \in 1..(n + 1) |-> KeyOf(c, a + j - 1)] /\ s[i - 1] = [j \in 1..n |-> KeyOf(c, a + j - 1)]
    BY <2>1, <2>10
  <2>12. s[i] = s[i - 1] \o <<key>>
    <3>1. PICK f : f = [j \in 1..(n + 1) |-> KeyOf(c, a + j - 1)]
      OBVIOUS
    <3>2. \A j \in 1..(n + 1) : f[j] = IF j = n + 1 THEN key ELSE KeyOf(c, a + j - 1)
      BY <3>1, <2>2, <2>10
    <3>3. PICK g : g = [j \in 1..n |-> KeyOf(c, a + j - 1)]
      OBVIOUS
    <3>4. \A j \in 1..n : j \in 1..(n + 1) /\ j # n + 1 /\ g[j] = f[j]
      BY <3>1, <3>3
    <3>5. n + 1 \in 1..(n + 1) /\ f[n + 1] = key
      BY <3>2
    <3>6. f = g \o <<key>>
      <4>1. f = [j \in 1..(n + 1) |-> f[j]] /\ g = [j \in 1..n |-> g[j]]
        BY <3>1, <3>3
      <4>2. OneMore(f, g, n, key)
        BY <4>1, <3>4, <3>5 DEF OneMore
      <4> QED
        BY <4>2, Longer
    <3> QED
      BY <2>11, <3>1, <3>3, <3>6
  <2> QED
    BY <2>7, <2>8, <2>9, <2>12
<1> HIDE DEF h, s
<1> QED
  BY <1>5, <1>6, <1>7, <1>8, <1>9 DEF Leads

(* One turn of the loop of an upsert.                                       *)
Acc(x) == /\ x = [ok |-> x.ok, table |-> x.table, returning |-> x.returning]
          /\ IsTable(x.table) /\ x.returning \in Seq(Keys)
Turned(c, i, q, n, u) ==
  q[n] = c.rows[i] /\ ValueIn(q, n) = New(c, i) /\ u = ("val" \in Cols(c.rows[i]))
TurnedTo(c, i, acc, o) ==
  /\ Acc(o) /\ o.table = After(c, i, acc.table)
  /\ o.returning = acc.returning \o Said(c, i, acc.table)

(* A turn is the upsert of the row alone.                                   *)
LEMMA UpsertTurn ==
  ASSUME NEW c \in Calls, c.op = "upsert", NEW i \in DOMAIN c.rows, NEW q, NEW n, NEW u, Turned(c, i, q, n, u),
         NEW acc, Acc(acc), NEW o, o = UpsertRow(acc, q, n, u)
  PROVE  TurnedTo(c, i, acc, o)
<1> USE DEF Turned, TurnedTo
<1>1. PICK key \in Keys : key = KeyOf(c, i) /\ q[n].key = key
  <2>1. c.rows[i] \in BulkRows
    BY AloneIs
  <2> QED
    BY <2>1, BulkAssumption DEF BulkAssumption, BulkRows, KeyOf
<1>2. acc.table = [k \in Keys |-> acc.table[k]] /\ acc.returning \in Seq(Keys)
  BY DEF Acc, IsTable
<1> DEFINE t == acc.table
           s == acc.returning
<1>3. CASE t[key] # Absent /\ ~u
  <2>1. o = acc
    BY <1>1, <1>2, <1>3 DEF UpsertRow
  <2>2. After(c, i, t) = [k \in Keys |-> t[k]]
    BY <1>1, <1>3 DEF After, Value
  <2>3. Said(c, i, t) = <<>>
    BY <1>1, <1>3 DEF Said, Reply
  <2>4. s = s \o <<>>
    BY <1>2
  <2> QED
    BY <1>2, <2>1, <2>2, <2>3, <2>4
<1>4. CASE ~(t[key] # Absent /\ ~u)
  <2>1. o = [acc EXCEPT !.table[key] = New(c, i), !.returning = Append(@, key)]
    BY <1>1, <1>2, <1>4 DEF UpsertRow
  <2>2. o = [ok |-> acc.ok, table |-> [t EXCEPT ![key] = New(c, i)], returning |-> Append(s, key)]
    BY <2>1, <1>2 DEF Acc
  <2>3. After(c, i, t) = [k \in Keys |-> IF k = key THEN New(c, i) ELSE t[k]]
    BY <1>1, <1>4 DEF After, Value
  <2>4. Said(c, i, t) = <<key>>
    BY <1>1, <1>4 DEF Said, Reply
  <2>5. [t EXCEPT ![key] = New(c, i)] = [k \in Keys |-> IF k = key THEN New(c, i) ELSE t[k]]
    BY <1>2
  <2>6. Append(s, key) \in Seq(Keys) /\ Append(s, key) = s \o <<key>>
    BY <1>2
  <2>7. PICK f : f = [k \in Keys |-> IF k = key THEN New(c, i) ELSE t[k]]
    OBVIOUS
  <2>8. IsTable(f)
    BY <2>7 DEF IsTable
  <2>9. o = [ok |-> acc.ok, table |-> f, returning |-> Append(s, key)]
    BY <2>2, <2>5, <2>7
  <2>10. o.ok = acc.ok /\ o.table = f /\ o.returning = Append(s, key)
    BY ONLY <2>9
  <2>11. Acc(o)
    <3>1. o = [ok |-> o.ok, table |-> o.table, returning |-> o.returning]
      BY ONLY <2>9, <2>10
    <3>2. IsTable(o.table)
      BY ONLY <2>8, <2>10
    <3>3. o.returning \in Seq(Keys)
      BY ONLY <2>6, <2>10
    <3> QED
      BY ONLY <3>1, <3>2, <3>3 DEF Acc
  <2>12. o.table = After(c, i, t)
    BY <2>3, <2>7, <2>10
  <2>13. o.returning = s \o Said(c, i, t)
    BY <2>4, <2>6, <2>10
  <2> QED
    BY <2>11, <2>12, <2>13
<1> QED
  BY <1>3, <1>4

(* A multi-row upsert does what its rows do one at a time.                  *)
LEMMA UpsertLeads ==
  ASSUME NEW c \in Calls, c.op = "upsert", Uniform(c), NEW q, NEW a, NEW b, Sliced(c, q, a, b),
         NEW t, IsTable(t), NEW o, o = Upserted(t, q, UpdatesVal(c)), o.ok
  PROVE  Leads(c, t, a, b, o.table, o.returning)
<1>1. Compiles(q)
  <2>1. ~Refused(t).ok
    BY DEF Refused
  <2> QED
    BY <2>1 DEF Upserted
<1>2. PICK N \in Nat : N = b - a + 1 /\ N = Len(q) /\ DOMAIN q = 1..N
  BY DEF Sliced
<1>3. PICK u : u = UpdatesVal(c)
  OBVIOUS
<1>4. PICK g : Puts(g, t, q, u, N) /\ o = g[N]
  BY <1>1, <1>2, <1>3, UpsertedLoops
<1>5. Among(c, q, a, b)
  BY SlicedAmong
<1>6. ASSUME NEW i \in a..b
      PROVE  ValueIn(q, i - a + 1) = New(c, i) /\ u = ("val" \in Cols(c.rows[i]))
  <2>1. i - a + 1 \in DOMAIN q /\ q[i - a + 1] = c.rows[i] /\ i \in DOMAIN c.rows
    BY <1>5 DEF Among
  <2>2. q[1] = c.rows[a] /\ a \in DOMAIN c.rows
    <3>1. a \in a..b /\ a - a + 1 = 1
      BY <1>5 DEF Among
    <3> QED
      BY <3>1, <1>5 DEF Among
  <2>3. Cols(q[1]) = Cols(c.rows[i]) /\ Cols(c.rows[1]) = Cols(c.rows[i])
    BY <2>1, <2>2 DEF Uniform
  <2> QED
    BY <2>1, <2>3, <1>3 DEF ValueIn, New, UpdatesVal
<1>7. ASSUME NEW m \in 0..(N - 1), Acc(g[m])
      PROVE  /\ Acc(g[m + 1]) /\ g[m + 1].table = After(c, a + m, g[m].table)
             /\ g[m + 1].returning = g[m].returning \o Said(c, a + m, g[m].table)
  <2>0. a \in Nat /\ b \in Nat
    BY <1>5 DEF Among
  <2>1. PICK i \in a..b : i = a + m /\ i - a + 1 = m + 1
    <3>1. a + m \in a..b /\ (a + m) - a + 1 = m + 1
      BY <1>2, <2>0
    <3> QED
      BY <3>1
  <2>2. q[m + 1] = c.rows[i] /\ i \in DOMAIN c.rows /\ ValueIn(q, m + 1) = New(c, i)
        /\ u = ("val" \in Cols(c.rows[i]))
    BY <2>1, <1>5, <1>6 DEF Among
  <2>3. g[m + 1] = UpsertRow(g[m], q, m + 1, u)
    <3>1. m + 1 \in 1..N /\ (m + 1) - 1 = m
      BY <1>2
    <3> QED
      BY <1>4, <3>1 DEF Puts
  <2>4. PICK x : x = g[m]
    OBVIOUS
  <2>5. PICK y : y = g[m + 1]
    OBVIOUS
  <2>6. PICK n : n = m + 1
    OBVIOUS
  <2>7. y = UpsertRow(x, q, n, u) /\ Acc(x) /\ Turned(c, i, q, n, u)
    BY <2>2, <2>3, <2>4, <2>5, <2>6, <1>7 DEF Turned
  <2>8. TurnedTo(c, i, x, y)
    BY <2>2, <2>7, UpsertTurn
  <2> QED
    BY <2>1, <2>4, <2>5, <2>8 DEF TurnedTo
<1> DEFINE S == {m \in 0..N : Acc(g[m])}
<1>8. 0 \in S
  <2>1. Acc(g[0])
    BY <1>4 DEF Acc, Puts, Unchanged
  <2> QED
    BY <1>2, <2>1
<1>9. \A m \in 0..(N - 1) : m \in S => m + 1 \in S
  <2> SUFFICES ASSUME NEW m \in 0..(N - 1), m \in S PROVE m + 1 \in S
    OBVIOUS
  <2>1. m + 1 \in 0..N
    BY <1>2
  <2> QED
    BY <2>1, <1>7
<1>10. \A m \in 0..N : Acc(g[m])
  <2>1. \A m \in 0..N : m \in S
    <3> HIDE DEF S
    <3> QED
      BY <1>2, <1>8, <1>9, Upwards
  <2> QED
    BY <2>1
<1> DEFINE h == [i \in (a - 1)..b |-> g[i - a + 1].table]
           s == [i \in (a - 1)..b |-> g[i - a + 1].returning]
<1>11. h[a - 1] = t /\ s[a - 1] = <<>>
  <2>1. a - 1 \in (a - 1)..b /\ (a - 1) - a + 1 = 0
    BY <1>5 DEF Among
  <2> QED
    BY <2>1, <1>4 DEF Puts, Unchanged
<1>12. h[b] = o.table /\ s[b] = o.returning
  BY SMTT(60), <1>2, <1>4, <1>5 DEF Among
<1>13. ASSUME NEW i \in a..b
       PROVE  h[i] = After(c, i, h[i - 1]) /\ s[i] = s[i - 1] \o Said(c, i, h[i - 1])
  <2>1. PICK m \in 0..(N - 1) : i = a + m /\ i - a + 1 = m + 1 /\ (i - 1) - a + 1 = m /\ m \in 0..N
    <3>1. i - a \in 0..(N - 1) /\ i - a \in 0..N /\ i = a + (i - a) /\ (i - 1) - a + 1 = i - a
      BY <1>2, <1>5 DEF Among
    <3> QED
      BY <3>1
  <2>2. i \in (a - 1)..b /\ i - 1 \in (a - 1)..b
    BY <1>5 DEF Among
  <2>3. h[i] = g[m + 1].table /\ h[i - 1] = g[m].table /\ s[i] = g[m + 1].returning /\ s[i - 1] = g[m].returning
    BY <2>1, <2>2
  <2> QED
    BY ZenonT(60), <2>1, <2>3, <1>7, <1>10
<1> HIDE DEF h, s
<1> QED
  BY <1>11, <1>12, <1>13 DEF Leads

(* DELETE ... IN does what deleting the keys one at a time does.            *)
LEMMA DeleteLeads ==
  ASSUME NEW c \in Calls, c.op = "delete", NEW q, NEW a, NEW b, Sliced(c, q, a, b),
         NEW t, IsTable(t), NEW o, o = Deleted(t, KeysOf(q), c.where)
  PROVE  Leads(c, t, a, b, o.table, o.returning)
<1>1. Among(c, q, a, b)
  BY SlicedAmong
<1>2. /\ IsTable(o.table) /\ o.returning = <<>>
      /\ \A k \in Keys : o.table[k] = IF (\E i \in DOMAIN q : q[i].key = k) /\ t[k] \in c.where
                                      THEN Absent ELSE t[k]
  BY DeleteKeys
<1>3. Absent \notin c.where
  BY BulkAssumption DEF BulkAssumption, CallType
<1> DEFINE h == [n \in (a - 1)..b |-> [k \in Keys |-> IF (\E j \in a..n : KeyOf(c, j) = k) /\ t[k] \in c.where
                                                      THEN Absent ELSE t[k]]]
           s == [n \in (a - 1)..b |-> <<>>]
<1>4. h[a - 1] = t /\ s[a - 1] = <<>>
  <2>1. a..(a - 1) = {} /\ a - 1 \in (a - 1)..b
    BY <1>1 DEF Among
  <2>2. h[a - 1] = [k \in Keys |-> t[k]]
    BY <2>1
  <2> QED
    BY <2>1, <2>2 DEF IsTable
<1>5. h[b] = o.table /\ s[b] = o.returning
  <2>1. b \in (a - 1)..b
    BY <1>1 DEF Among
  <2>2. h[b] = [k \in Keys |-> IF (\E j \in a..b : KeyOf(c, j) = k) /\ t[k] \in c.where THEN Absent ELSE t[k]]
    BY <2>1
  <2>3. ASSUME NEW k
        PROVE  (\E j \in a..b : KeyOf(c, j) = k) <=> \E i \in DOMAIN q : q[i].key = k
    <3>1. ASSUME NEW j \in a..b PROVE j - a + 1 \in DOMAIN q /\ q[j - a + 1].key = KeyOf(c, j)
      BY <1>1 DEF Among, KeyOf
    <3>2. ASSUME NEW i \in DOMAIN q PROVE a + i - 1 \in a..b /\ q[i].key = KeyOf(c, a + i - 1)
      <4>1. a + i - 1 \in a..b /\ i = (a + i - 1) - a + 1
        BY <1>1 DEF Among
      <4> QED
        BY <4>1, <3>1
    <3> QED
      BY <3>1, <3>2
  <2>4. o.table = [k \in Keys |-> o.table[k]]
    BY <1>2 DEF IsTable
  <2>5. ASSUME NEW k \in Keys
        PROVE  o.table[k] = IF (\E j \in a..b : KeyOf(c, j) = k) /\ t[k] \in c.where THEN Absent ELSE t[k]
    BY <1>2, <2>3
  <2> QED
    BY <2>1, <2>2, <2>4, <2>5, <1>2
<1>6. ASSUME NEW i \in a..b
      PROVE  h[i] = After(c, i, h[i - 1]) /\ s[i] = s[i - 1] \o Said(c, i, h[i - 1])
  <2>1. i \in (a - 1)..b /\ i - 1 \in (a - 1)..b /\ i \in a..i
        /\ \A j \in a..i : j = i \/ j \in a..(i - 1)
    BY <1>1 DEF Among
  <2>2. \A j \in a..(i - 1) : j \in a..i
    BY <1>1 DEF Among
  <2>3. \A k \in Keys : /\ h[i][k] = IF (\E j \in a..i : KeyOf(c, j) = k) /\ t[k] \in c.where THEN Absent ELSE t[k]
                        /\ h[i - 1][k] = IF (\E j \in a..(i - 1) : KeyOf(c, j) = k) /\ t[k] \in c.where
                                         THEN Absent ELSE t[k]
    BY <2>1
  <2>4. h[i] = [k \in Keys |-> h[i][k]]
    BY <2>1
  <2>5. s[i] = <<>> /\ s[i - 1] = <<>> /\ <<>> = <<>> \o <<>> /\ Said(c, i, h[i - 1]) = <<>>
    BY <2>1 DEF Said, Reply
  <2> HIDE DEF h, s
  <2>6. \A k \in Keys : h[i][k] = IF k = KeyOf(c, i) THEN Value(c, i, h[i - 1][k]) ELSE h[i - 1][k]
    BY <2>1, <2>2, <2>3, <1>3 DEF Value
  <2>7. h[i] = After(c, i, h[i - 1])
    BY <2>4, <2>6 DEF After
  <2> QED
    BY <2>5, <2>7
<1> HIDE DEF h, s
<1> QED
  BY <1>4, <1>5, <1>6 DEF Leads

(* A statement of bulk_update is that of its row.                           *)
LEMMA UpdateLeads ==
  ASSUME NEW c \in Calls, c.op = "update", NEW q, NEW r, NEW i \in DOMAIN c.rows, i \in Nat,
         q[r] = c.rows[i], NEW t, IsTable(t), NEW o, o = Executed(c, t, q, r)
  PROVE  Leads(c, t, i, i, o.table, o.returning)
<1>1. o = Executed(Alone(c, i), t, <<c.rows[i]>>, 1)
  <2>1. Alone(c, i).op = c.op /\ Alone(c, i).where = c.where
    BY AloneIs
  <2>2. <<c.rows[i]>>[1] = q[r]
    OBVIOUS
  <2> QED
    BY <2>1, <2>2 DEF Executed
<1>2. o.table = After(c, i, t) /\ o.returning = Said(c, i, t)
  BY <1>1, AloneDoes DEF Statements
<1>3. Said(c, i, t) \in Seq(Keys)
  BY SaidSeq
<1>4. o.returning = <<>> \o Said(c, i, t)
  BY <1>2, <1>3
<1>5. PICK h : h = [n \in {i - 1, i} |-> IF n = i THEN o.table ELSE t]
  OBVIOUS
<1>6. PICK s : s = [n \in {i - 1, i} |-> IF n = i THEN o.returning ELSE <<>>]
  OBVIOUS
<1>7. i - 1 # i /\ \A n \in i..i : n = i
  OBVIOUS
<1>8. h[i - 1] = t /\ h[i] = o.table /\ s[i - 1] = <<>> /\ s[i] = o.returning
  BY <1>5, <1>6, <1>7
<1>9. \A n \in i..i : h[n] = After(c, n, h[n - 1]) /\ s[n] = s[n - 1] \o Said(c, n, h[n - 1])
  BY <1>2, <1>4, <1>7, <1>8
<1> QED
  BY <1>8, <1>9 DEF Leads

(* What a statement of a chunk does is what its rows do one at a time.      *)
FirstRun(n, r) == IF PerRow(call) THEN First(call, n) + r - 1 ELSE First(call, n)
LastRun(n, r)  == IF PerRow(call) THEN First(call, n) + r - 1 ELSE LastRow(call, n)

(* The statement of a chunk, whatever the operation.                        *)
LEMMA ChunkLeads ==
  ASSUME call \in Calls, Valid(call), Uniform(call), call.op \in Statements,
         NEW n \in 1..Chunks(call), NEW r \in Nat, PerRow(call) => r \in 1..Len(ChunkRows(call, n)),
         NEW t, IsTable(t), NEW o, o = Executed(call, t, ChunkRows(call, n), r), o.ok
  PROVE  /\ FirstRun(n, r) \in 1..Len(call.rows) /\ LastRun(n, r) \in 1..Len(call.rows)
         /\ FirstRun(n, r) <= LastRun(n, r)
         /\ Leads(call, t, FirstRun(n, r), LastRun(n, r), o.table, o.returning)
<1>1. call.rows \in Seq(BulkRows) /\ call.op # "deleteWhere" /\ call.op # "updateWhere"
  BY BulkAssumption DEF BulkAssumption, CallType, Statements
<1>2. PICK L \in Nat : L = Len(call.rows) /\ DOMAIN call.rows = 1..L
  BY <1>1
<1>3. PICK a \in 1..L, b \in 1..L : a = First(call, n) /\ b = LastRow(call, n) /\ a <= b
  BY <1>2, Chunking
<1>4. PICK q : q = SubSeq(call.rows, a, b) /\ q = ChunkRows(call, n)
  BY <1>1, <1>3 DEF ChunkRows
<1>5. Len(q) = b - a + 1 /\ DOMAIN q = 1..(b - a + 1) /\ \A j \in 1..(b - a + 1) : q[j] = call.rows[a + j - 1]
  <2>1. a \in 1..(Len(call.rows) + 1) /\ b \in (a - 1)..Len(call.rows)
    BY <1>2, <1>3
  <2>2. /\ q \in Seq(BulkRows) /\ Len(q) = b - a + 1
        /\ \A j \in 1..(b - a + 1) : q[j] = call.rows[a + j - 1]
    <3>1. \A i \in a..b : call.rows[i] \in BulkRows
      BY <1>1, <1>2, <1>3
    <3>2. a \in Int /\ b \in Int /\ a <= b
      BY <1>2, <1>3
    <3> QED
      <4>1. PICK rows : rows = call.rows
        OBVIOUS
      <4>2. /\ SubSeq(rows, a, b) \in Seq(BulkRows) /\ Len(SubSeq(rows, a, b)) = b - a + 1
            /\ \A j \in 1..(b - a + 1) : SubSeq(rows, a, b)[j] = rows[a + j - 1]
        BY <3>1, <3>2, <4>1, SubSeqProperties
      <4> QED
        BY <1>4, <4>1, <4>2
  <2> QED
    BY <2>2
<1>6. Sliced(call, q, a, b)
  BY <1>2, <1>3, <1>5 DEF Sliced
<1>7. CASE PerRow(call)
  <2>1. r \in 1..(b - a + 1) /\ call.op = "update"
    BY <1>4, <1>5, <1>7 DEF PerRow
  <2>2. PICK i \in 1..L : i = a + r - 1
    BY <1>3, <2>1
  <2>3. q[r] = call.rows[i] /\ FirstRun(n, r) = i /\ LastRun(n, r) = i
    BY <1>3, <1>5, <1>7, <2>1, <2>2 DEF FirstRun, LastRun
  <2>4. Leads(call, t, i, i, o.table, o.returning)
    <3>1. o = Executed(call, t, q, r) /\ i \in DOMAIN call.rows /\ i \in Nat
      BY <1>2, <1>4
    <3> QED
      BY <3>1, <2>1, <2>3, UpdateLeads
  <2> QED
    BY <1>2, <2>2, <2>3, <2>4
<1>8. CASE ~PerRow(call)
  <2>1. FirstRun(n, r) = a /\ LastRun(n, r) = b /\ call.op \in {"insert", "upsert", "delete"}
    BY <1>3, <1>8 DEF FirstRun, LastRun, PerRow, Statements
  <2>2. CASE call.op = "insert"
    <3>1. o = Inserted(t, q)
      BY <1>4, <2>2 DEF Executed
    <3> QED
      BY <3>1, <1>2, <1>3, <1>6, <2>1, <2>2, InsertLeads
  <2>3. CASE call.op = "upsert"
    <3>1. o = Upserted(t, q, UpdatesVal(call))
      BY <1>4, <2>3 DEF Executed
    <3> QED
      BY <3>1, <1>2, <1>3, <1>6, <2>1, <2>3, UpsertLeads
  <2>4. CASE call.op = "delete"
    <3>1. o = Deleted(t, KeysOf(q), call.where)
      BY <1>4, <2>4 DEF Executed, DeletesRows
    <3> QED
      BY <3>1, <1>2, <1>3, <1>6, <2>1, <2>4, DeleteLeads
  <2> QED
    BY <2>1, <2>2, <2>3, <2>4
<1> QED
  BY <1>7, <1>8

-----------------------------------------------------------------------------
(* A loop over the rows of `some', turn by turn.                            *)
Runs(g, c, t, some) ==
  /\ g[0] = Start(t)
  /\ \A n \in 0..Len(c.rows) : IsTable(g[n].table) /\ g[n].returning \in Seq(Keys)
  /\ \A n \in 1..Len(c.rows) :
       /\ n \in some => /\ g[n].table = After(c, n, g[n - 1].table)
                        /\ g[n].returning = g[n - 1].returning \o Said(c, n, g[n - 1].table)
       /\ n \notin some => g[n] = g[n - 1]

(* A loop of RowByRow is one.                                               *)
LEMMA LoopRuns ==
  ASSUME NEW c \in Calls, c.op \in Statements, NEW t, IsTable(t), NEW some, NEW g,
         Reads(g, c, t, some, Len(c.rows))
  PROVE  Runs(g, c, t, some)
<1>1. PICK L \in Nat : L = Len(c.rows) /\ DOMAIN c.rows = 1..L
  BY BulkAssumption DEF BulkAssumption, CallType
<1>2. ASSUME NEW n \in 1..L, n \in some, IsTable(g[n - 1].table)
      PROVE  /\ g[n].table = After(c, n, g[n - 1].table)
             /\ g[n].returning = g[n - 1].returning \o Said(c, n, g[n - 1].table)
  <2>1. PICK x : x = g[n - 1].table
    OBVIOUS
  <2>2. PICK o : o = Executed(Alone(c, n), x, <<c.rows[n]>>, 1)
    OBVIOUS
  <2>3. o.table = After(c, n, x) /\ o.returning = Said(c, n, x)
    BY <1>1, <1>2, <2>1, <2>2, AloneDoes
  <2>4. g[n] = Also(g[n - 1], c, n)
    BY <1>1, <1>2 DEF Reads, Turn
  <2>5. PICK r : r = g[n - 1].returning \o o.returning
    OBVIOUS
  <2>6. g[n].table = o.table /\ g[n].returning = g[n - 1].returning \o o.returning
    <3>1. g[n] = [table |-> o.table, returning |-> r]
      BY <2>1, <2>2, <2>4, <2>5 DEF Also
    <3>2. g[n].table = o.table /\ g[n].returning = r
      BY <3>1
    <3> QED
      BY <3>2, <2>5, ZenonT(60)
  <2>7. g[n].returning = g[n - 1].returning \o Said(c, n, x)
    BY <2>3, <2>6, Zenon
  <2> QED
    BY <2>1, <2>3, <2>6, <2>7, Zenon
<1>3. ASSUME NEW n \in 1..L, n \notin some
      PROVE  g[n] = g[n - 1]
  BY <1>1, <1>3 DEF Reads, Turn
<1> DEFINE Good(x) == IsTable(x.table) /\ x.returning \in Seq(Keys)
           S == {n \in 0..L : Good(g[n])}
<1>4. 0 \in S
  <2>1. g[0].table = t /\ g[0].returning = <<>>
    BY DEF Reads, Start
  <2>2. <<>> \in Seq(Keys) /\ 0 \in 0..L
    BY <1>1, EmptySeq
  <2>3. Good(g[0])
    BY <2>1, <2>2
  <2> QED
    BY <2>2, <2>3
<1>5. \A m \in 0..(L - 1) : m \in S => m + 1 \in S
  <2> SUFFICES ASSUME NEW m \in 0..(L - 1), m \in S PROVE m + 1 \in S
    OBVIOUS
  <2>1. PICK n \in 1..L : n = m + 1 /\ n - 1 = m /\ n \in 0..L
    BY <1>1
  <2>2. CASE n \in some
    <3>1. IsTable(g[n - 1].table) /\ g[n - 1].returning \in Seq(Keys)
      BY <2>1
    <3>2. /\ g[n].table = After(c, n, g[n - 1].table)
          /\ g[n].returning = g[n - 1].returning \o Said(c, n, g[n - 1].table)
      BY <1>2, <2>2, <3>1
    <3>3. IsTable(g[n].table)
      <4>1. PICK x : x = After(c, n, g[n - 1].table)
        OBVIOUS
      <4>2. x = [k \in Keys |-> x[k]]
        BY <4>1 DEF After
      <4> QED
        BY <3>2, <4>1, <4>2 DEF IsTable
    <3>4. g[n].returning \in Seq(Keys)
      <4>1. Said(c, n, g[n - 1].table) \in Seq(Keys)
        BY SaidSeq
      <4> QED
        BY <3>1, <3>2, <4>1, ConcatProperties
    <3> QED
      BY <2>1, <3>3, <3>4
  <2>3. CASE n \notin some
    BY <2>1, <2>3, <1>3
  <2> QED
    BY <2>2, <2>3
<1>6. \A n \in 0..L : n \in S
  <2> HIDE DEF S
  <2> QED
    BY <1>1, <1>4, <1>5, Upwards
<1>7. \A n \in 0..L : IsTable(g[n].table) /\ g[n].returning \in Seq(Keys)
  BY <1>6
<1>8. \A n \in 1..L : n - 1 \in 0..L
  BY <1>1
<1>9. g[0] = Start(t)
  BY DEF Reads
<1> QED
  BY <1>1, <1>2, <1>3, <1>7, <1>8, <1>9 DEF Runs

(* The loop over all the rows: what one statement per row does, in order.   *)
Ref(c, t) == CHOOSE f : Reads(f, c, t, DOMAIN c.rows, Len(c.rows))

(* This loop is RowByRow over the whole input.                              *)
LEMMA RefRuns ==
  ASSUME NEW c \in Calls, c.op \in Statements, NEW t, IsTable(t)
  PROVE  /\ Runs(Ref(c, t), c, t, DOMAIN c.rows)
         /\ RowByRow(c, t, DOMAIN c.rows) = Ref(c, t)[Len(c.rows)]
<1>1. PICK L \in Nat : L = Len(c.rows) /\ DOMAIN c.rows = 1..L
  BY BulkAssumption DEF BulkAssumption, CallType
<1>2. PICK all : all = DOMAIN c.rows
  OBVIOUS
<1>3. PICK g : Reads(g, c, t, all, L) /\ RowByRow(c, t, all) = g[L]
  BY <1>1, RowByRowLoops
<1>4. PICK f : f = Ref(c, t)
  OBVIOUS
<1>5. Reads(f, c, t, all, L)
  BY <1>1, <1>2, <1>3, <1>4 DEF Ref
<1>6. Runs(f, c, t, all)
  BY <1>1, <1>5, LoopRuns
<1> DEFINE S == {n \in 0..L : f[n] = g[n]}
<1>7. 0 \in S
  BY <1>1, <1>3, <1>5 DEF Reads
<1>8. \A m \in 0..(L - 1) : m \in S => m + 1 \in S
  <2> SUFFICES ASSUME NEW m \in 0..(L - 1), m \in S PROVE m + 1 \in S
    OBVIOUS
  <2>1. PICK n \in 1..L : n = m + 1 /\ n - 1 = m /\ n \in 0..L
    BY <1>1
  <2>2. f[n] = Turn(f[n - 1], c, all, n) /\ g[n] = Turn(g[n - 1], c, all, n)
    BY <1>3, <1>5 DEF Reads
  <2> QED
    BY <2>1, <2>2
<1>9. L \in S
  <2> HIDE DEF S
  <2>1. \A n \in 0..L : n \in S
    BY <1>1, <1>7, <1>8, Upwards
  <2> QED
    BY <1>1, <2>1
<1> QED
  BY <1>1, <1>2, <1>3, <1>4, <1>6, <1>9

Follows(f, c) == \E t : Runs(f, c, t, DOMAIN c.rows)

(* Rows of other keys leave a key alone.                                    *)
Spared(c, k, m, n) == \A j \in (m + 1)..n : KeyOf(c, j) # k

(* The value of a key is that after the last of its rows.                   *)
LEMMA Steady ==
  ASSUME NEW c \in Calls, NEW f, Follows(f, c), NEW k \in Keys,
         NEW m \in 0..Len(c.rows), NEW n \in 0..Len(c.rows), m <= n, Spared(c, k, m, n)
  PROVE  f[n].table[k] = f[m].table[k]
<1> USE DEF Spared
<1>1. PICK L \in Nat : L = Len(c.rows) /\ DOMAIN c.rows = 1..L
  BY BulkAssumption DEF BulkAssumption, CallType
<1>2. PICK d \in Nat : d = n - m /\ n = m + d /\ m + d <= L
  BY <1>1
<1> DEFINE S == {i \in 0..d : f[m + i].table[k] = f[m].table[k]}
<1>3. 0 \in S
  BY <1>2
<1>4. \A i \in 0..(d - 1) : i \in S => i + 1 \in S
  <2> SUFFICES ASSUME NEW i \in 0..(d - 1), i \in S PROVE i + 1 \in S
    OBVIOUS
  <2>1. PICK j \in 1..L : j = m + i + 1 /\ j - 1 = m + i /\ j \in (m + 1)..n /\ m + (i + 1) = j
    BY <1>1, <1>2
  <2>2. f[j].table = After(c, j, f[j - 1].table) /\ KeyOf(c, j) # k
    BY <1>1, <2>1 DEF Runs, Follows
  <2>3. f[j].table[k] = f[j - 1].table[k]
    BY <2>2 DEF After
  <2>4. i + 1 \in 0..d
    BY <1>2
  <2> QED
    BY <2>1, <2>3, <2>4
<1>5. d \in S
  <2> HIDE DEF S
  <2>1. \A i \in 0..d : i \in S
    BY <1>2, <1>3, <1>4, Upwards
  <2> QED
    BY <1>2, <2>1
<1> QED
  BY <1>2, <1>5

(* Of the rows with key k, those in S are the ones up to n.                 *)
Upto(c, S, k, n) == \A j \in 1..Len(c.rows) : KeyOf(c, j) = k => (j \in S <=> j <= n)
(* The table where the statements of the rows in S have run: each key is    *)
(* where the rows of the key, in their order, have brought it.              *)
Fits(f, c, S, t) == \A k \in Keys : \E n \in 0..Len(c.rows) : Upto(c, S, k, n) /\ t[k] = f[n].table[k]
(* What rows a..b return.                                                   *)
Gives(f, a, b, said) == said \in Seq(Keys) /\ f[b].returning = f[a - 1].returning \o said
(* Rows a..b may run when S has: theirs are the next rows of their keys.    *)
NextRow(c, S, i) ==
  i \notin S /\ \A j \in 1..Len(c.rows) : KeyOf(c, j) = KeyOf(c, i) /\ j # i => (j \in S <=> j < i)
Due(c, S, a, b) == \A i \in a..b : NextRow(c, S \union (a..(i - 1)), i)

(* One row.                                                                 *)
LEMMA RowFits ==
  ASSUME NEW c \in Calls, NEW f, Follows(f, c), NEW i \in 1..Len(c.rows),
         NEW S, NextRow(c, S, i), NEW t, Fits(f, c, S, t)
  PROVE  /\ Fits(f, c, S \union {i}, After(c, i, t))
         /\ Said(c, i, t) = Said(c, i, f[i - 1].table)
<1> USE DEF NextRow
<1>1. PICK L \in Nat : L = Len(c.rows) /\ DOMAIN c.rows = 1..L
  BY BulkAssumption DEF BulkAssumption, CallType
<1>2. i \in 1..L /\ i - 1 \in 0..L /\ i \in 0..L
  BY <1>1
<1>3. f[i].table = After(c, i, f[i - 1].table)
  BY <1>1, <1>2 DEF Runs, Follows
<1>4. ASSUME KeyOf(c, i) \in Keys
      PROVE  t[KeyOf(c, i)] = f[i - 1].table[KeyOf(c, i)]
  <2>1. PICK k \in Keys : k = KeyOf(c, i)
    BY <1>4
  <2>2. PICK n \in 0..L : Upto(c, S, k, n) /\ t[k] = f[n].table[k]
    BY <1>1 DEF Fits
  <2>3. n <= i - 1
    <3> SUFFICES ASSUME i <= n PROVE FALSE
      BY <1>2
    <3> QED
      BY <1>1, <1>2, <2>1, <2>2 DEF Upto
  <2>4. ASSUME NEW j \in (n + 1)..(i - 1), KeyOf(c, j) = k
        PROVE  FALSE
    <3>1. j \in 1..L /\ j # i /\ j < i /\ ~(j <= n)
      BY <1>2
    <3>2. j \in S
      BY <1>1, <2>1, <2>4, <3>1
    <3> QED
      BY <1>1, <2>2, <2>4, <3>1, <3>2 DEF Upto
  <2>5. f[i - 1].table[k] = f[n].table[k]
    <3>1. PICK m \in 0..L : m = i - 1
      BY <1>2
    <3>2. Spared(c, k, n, m)
      BY <2>4, <3>1 DEF Spared
    <3>3. f[m].table[k] = f[n].table[k]
      BY <1>1, <2>3, <3>1, <3>2, Steady
    <3> QED
      BY <3>1, <3>3
  <2> QED
    BY <2>1, <2>2, <2>5
<1>5. Said(c, i, t) = Said(c, i, f[i - 1].table)
  BY <1>4 DEF Said
<1>6. ASSUME NEW k \in Keys
      PROVE  \E n \in 0..L : Upto(c, S \union {i}, k, n) /\ After(c, i, t)[k] = f[n].table[k]
  <2>1. CASE k = KeyOf(c, i)
    <3>1. Upto(c, S \union {i}, k, i)
      <4>1. ASSUME NEW j \in 1..L, KeyOf(c, j) = k
            PROVE  j \in S \union {i} <=> j <= i
        <5>1. CASE j = i
          BY <5>1, <1>2
        <5>2. CASE j # i
          <6>1. j \in S <=> j < i
            BY <1>1, <2>1, <4>1, <5>2
          <6>2. j <= i <=> j < i
            BY <5>2, <1>2
          <6> QED
            BY <6>1, <6>2, <5>2
        <5> QED
          BY <5>1, <5>2
      <4> QED
        BY <1>1, <4>1 DEF Upto
    <3>2. After(c, i, t)[k] = f[i].table[k]
      BY <1>3, <1>4, <2>1 DEF After
    <3> QED
      BY <1>2, <3>1, <3>2
  <2>2. CASE k # KeyOf(c, i)
    <3>1. PICK n \in 0..L : Upto(c, S, k, n) /\ t[k] = f[n].table[k]
      BY <1>1 DEF Fits
    <3>2. Upto(c, S \union {i}, k, n)
      BY <2>2, <3>1 DEF Upto
    <3>3. After(c, i, t)[k] = t[k]
      BY <2>2 DEF After
    <3> QED
      BY <3>1, <3>2, <3>3
  <2> QED
    BY <2>1, <2>2
<1>7. Fits(f, c, S \union {i}, After(c, i, t))
  BY <1>1, <1>6 DEF Fits
<1> QED
  BY <1>5, <1>7

(* Concatenation of returned keys is associative.                           *)
LEMMA Associates ==
  ASSUME NEW p \in Seq(Keys), NEW r \in Seq(Keys), NEW s \in Seq(Keys)
  PROVE  (p \o r) \o s = p \o (r \o s)
BY SMTT(60)

(* The rows of a statement.                                                 *)
LEMMA RowsFit ==
  ASSUME NEW c \in Calls, NEW f, Follows(f, c),
         NEW a \in 1..Len(c.rows), NEW b \in 1..Len(c.rows), a <= b, NEW S, Due(c, S, a, b),
         NEW t, IsTable(t), Fits(f, c, S, t), NEW u, NEW said, Leads(c, t, a, b, u, said)
  PROVE  IsTable(u) /\ Fits(f, c, S \union (a..b), u) /\ Gives(f, a, b, said)
<1>1. PICK L \in Nat : L = Len(c.rows) /\ DOMAIN c.rows = 1..L
  BY BulkAssumption DEF BulkAssumption, CallType
<1>2. PICK d \in Nat : d = b - a + 1 /\ a + d - 1 = b /\ a \in Nat /\ a \in 1..L /\ b \in 1..L
  BY <1>1
<1>3. PICK h, q : /\ h[a - 1] = t /\ q[a - 1] = <<>> /\ h[b] = u /\ q[b] = said
                  /\ \A i \in a..b : h[i] = After(c, i, h[i - 1]) /\ q[i] = q[i - 1] \o Said(c, i, h[i - 1])
  BY DEF Leads
<1> DEFINE P(n) == IsTable(h[n]) /\ Fits(f, c, S \union (a..n), h[n]) /\ Gives(f, a, n, q[n])
           M == {m \in 0..d : P(a - 1 + m)}
<1>4. 0 \in M
  <2>1. a - 1 + 0 = a - 1 /\ S \union (a..(a - 1)) = S
    BY <1>2
  <2>2. Gives(f, a, a - 1, <<>>)
    <3>1. a - 1 \in 0..L
      BY <1>2
    <3>2. f[a - 1].returning \in Seq(Keys)
      BY <1>1, <3>1 DEF Runs, Follows
    <3> QED
      BY <3>2, EmptySeq, ConcatEmptySeq DEF Gives
  <2>3. P(a - 1)
    BY <1>3, <2>1, <2>2
  <2> QED
    BY <2>1, <2>3
<1>5. \A m \in 0..(d - 1) : m \in M => m + 1 \in M
  <2> SUFFICES ASSUME NEW m \in 0..(d - 1), m \in M PROVE m + 1 \in M
    OBVIOUS
  <2>1. PICK i \in a..b : i = a + m /\ a - 1 + m = i - 1 /\ a - 1 + (m + 1) = i /\ i \in 1..L
    BY SMTT(60), <1>1, <1>2
  <2>2. P(i - 1)
    BY <2>1
  <2>3. PICK R : R = S \union (a..(i - 1))
    OBVIOUS
  <2>4. R \union {i} = S \union (a..i)
    <3>1. \A j : j \in a..i <=> j \in a..(i - 1) \/ j = i
      BY <2>1, <1>2
    <3> QED
      BY <2>3, <3>1
  <2>5. NextRow(c, R, i)
    BY <2>3 DEF Due
  <2>6. PICK x : x = h[i - 1]
    OBVIOUS
  <2>7. Fits(f, c, R, x)
    BY <2>2, <2>3, <2>6
  <2>8. Fits(f, c, R \union {i}, After(c, i, x)) /\ Said(c, i, x) = Said(c, i, f[i - 1].table)
    BY <1>1, <2>1, <2>5, <2>7, RowFits
  <2>9. h[i] = After(c, i, x) /\ q[i] = q[i - 1] \o Said(c, i, f[i - 1].table)
    BY <1>3, <2>6, <2>8
  <2>10. IsTable(h[i])
    <3>1. After(c, i, x) = [k \in Keys |-> After(c, i, x)[k]]
      BY DEF After
    <3> QED
      BY <2>9, <3>1 DEF IsTable
  <2>11. Gives(f, a, i, q[i])
    <3>1. PICK p, r, s : p = f[a - 1].returning /\ r = q[i - 1] /\ s = Said(c, i, f[i - 1].table)
      OBVIOUS
    <3>2. p \in Seq(Keys) /\ r \in Seq(Keys) /\ s \in Seq(Keys)
      <4>1. a - 1 \in 0..L
        BY <1>2
      <4> QED
        BY <1>1, <2>2, <3>1, <4>1, SaidSeq DEF Runs, Follows, Gives
    <3>3. f[i - 1].returning = p \o r
      BY SMTT(60), <2>2, <3>1 DEF Gives
    <3>4. f[i].returning = (p \o r) \o s
      BY <1>1, <2>1, <3>1, <3>3 DEF Runs, Follows
    <3>5. (p \o r) \o s = p \o (r \o s) /\ r \o s \in Seq(Keys)
      <4>1. (p \o r) \o s = p \o (r \o s)
        BY <3>2, Associates
      <4>2. r \o s \in Seq(Keys)
        BY <3>2, ConcatProperties
      <4> QED
        BY <4>1, <4>2
    <3>6. q[i] = r \o s
      BY <2>9, <3>1, Zenon
    <3> QED
      BY <3>1, <3>4, <3>5, <3>6 DEF Gives
  <2>12. P(i)
    BY <2>4, <2>8, <2>9, <2>10, <2>11
  <2>13. m + 1 \in 0..d
    BY <1>2
  <2> QED
    BY <2>1, <2>12, <2>13
<1>6. d \in M
  <2> HIDE DEF M
  <2>1. \A m \in 0..d : m \in M
    BY <1>2, <1>4, <1>5, Upwards
  <2> QED
    BY <1>2, <2>1
<1>7. a - 1 + d = b
  BY <1>2
<1>8. P(b)
  BY <1>6, <1>7
<1> QED
  BY <1>3, <1>8

(* Nothing has run yet.                                                     *)
LEMMA NothingFits ==
  ASSUME NEW c \in Calls, NEW t, NEW f, Runs(f, c, t, DOMAIN c.rows)
  PROVE  Fits(f, c, {}, t)
<1>1. PICK L \in Nat : L = Len(c.rows) /\ DOMAIN c.rows = 1..L
  BY BulkAssumption DEF BulkAssumption, CallType
<1>2. f[0].table = t
  BY DEF Runs, Start
<1>3. \A k \in Keys : Upto(c, {}, k, 0)
  BY <1>1 DEF Upto
<1> QED
  BY <1>1, <1>2, <1>3 DEF Fits

(* The table the statements of some rows leave is the one these rows leave  *)
(* one statement each, in the order of the input.                           *)
LEMMA FitsIsLoop ==
  ASSUME NEW c \in Calls, NEW t0, NEW f, Runs(f, c, t0, DOMAIN c.rows),
         NEW S, NEW g, Runs(g, c, t0, S), NEW t, IsTable(t), Fits(f, c, S, t)
  PROVE  t = g[Len(c.rows)].table
<1>1. PICK L \in Nat : L = Len(c.rows) /\ DOMAIN c.rows = 1..L
  BY BulkAssumption DEF BulkAssumption, CallType
<1>2. ASSUME NEW k \in Keys
      PROVE  t[k] = g[L].table[k]
  <2>1. PICK n \in 0..L : Upto(c, S, k, n) /\ t[k] = f[n].table[k]
    BY <1>1 DEF Fits
  <2> DEFINE M == {m \in 0..L : g[m].table[k] = f[IF m <= n THEN m ELSE n].table[k]}
  <2>2. 0 \in M
    <3>1. 0 <= n
      BY <1>1
    <3>2. g[0].table = t0 /\ f[0].table = t0
      BY DEF Runs, Start
    <3> QED
      BY <1>1, <3>1, <3>2
  <2>3. \A m \in 0..(L - 1) : m \in M => m + 1 \in M
    <3> SUFFICES ASSUME NEW m \in 0..(L - 1), m \in M PROVE m + 1 \in M
      OBVIOUS
    <3>1. PICK i \in 1..L : i = m + 1 /\ i - 1 = m /\ i \in 0..L /\ i \in DOMAIN c.rows
      BY <1>1
    <3>2. f[i].table = After(c, i, f[m].table)
      BY <1>1, <3>1 DEF Runs
    <3>3. /\ i \in S => g[i].table = After(c, i, g[m].table)
          /\ i \notin S => g[i].table = g[m].table
      BY ZenonT(60), <1>1, <3>1 DEF Runs
    <3>4. KeyOf(c, i) = k => (i \in S <=> i <= n)
      BY <1>1, <3>1, <2>1 DEF Upto
    <3>5. CASE i <= n
      <4>1. m <= n
        BY <3>1, <3>5
      <4>2. g[m].table[k] = f[m].table[k]
        BY <4>1
      <4>3. g[i].table[k] = f[i].table[k]
        <5>1. CASE KeyOf(c, i) = k
          BY <5>1, <3>2, <3>3, <3>4, <3>5, <4>2 DEF After
        <5>2. CASE KeyOf(c, i) # k
          <6>1. f[i].table[k] = f[m].table[k]
            BY <5>2, <3>2 DEF After
          <6>2. g[i].table[k] = g[m].table[k]
            BY <5>2, <3>3 DEF After
          <6> QED
            BY <6>1, <6>2, <4>2
        <5> QED
          BY <5>1, <5>2
      <4> QED
        BY <3>1, <3>5, <4>3
    <3>6. CASE n < i
      <4>1. n <= m
        BY <3>1, <3>6
      <4>2. g[m].table[k] = f[n].table[k]
        <5>1. CASE m <= n
          <6>1. m = n
            BY <4>1, <5>1
          <6> QED
            BY <6>1
        <5>2. CASE ~(m <= n)
          BY <5>2
        <5> QED
          BY <5>1, <5>2
      <4>3. g[i].table[k] = g[m].table[k]
        <5>1. CASE KeyOf(c, i) = k
          <6>1. i \notin S
            BY <5>1, <3>4, <3>6, <3>1
          <6> QED
            BY <6>1, <3>3
        <5>2. CASE KeyOf(c, i) # k
          BY <5>2, <3>3 DEF After
        <5> QED
          BY <5>1, <5>2
      <4>4. ~(i <= n)
        BY <3>1, <3>6
      <4> QED
        BY <3>1, <4>2, <4>3, <4>4
    <3> QED
      BY <3>1, <3>5, <3>6
  <2>4. L \in M
    <3> HIDE DEF M
    <3>1. \A m \in 0..L : m \in M
      BY <1>1, <2>2, <2>3, Upwards
    <3> QED
      BY <1>1, <3>1
  <2>5. g[L].table[k] = f[n].table[k]
    <3>1. CASE L <= n
      <4>1. L = n
        BY <3>1, <1>1
      <4> QED
        BY <4>1, <2>4
    <3>2. CASE ~(L <= n)
      BY <3>2, <2>4
    <3> QED
      BY <3>1, <3>2
  <2> QED
    BY <2>1, <2>5
<1>3. IsTable(g[L].table)
  BY <1>1 DEF Runs
<1> QED
  BY <1>1, <1>2, <1>3 DEF IsTable

-----------------------------------------------------------------------------
(* The chunks follow one another from the first row to the last.            *)
LEMMA ChunksFollow ==
  ASSUME call \in Calls, Valid(call), call.op # "deleteWhere"
  PROVE  /\ First(call, 1) = 1 /\ LastRow(call, Chunks(call)) = Len(call.rows)
         /\ \A n \in 1..Chunks(call) : n + 1 \in 1..Chunks(call) => First(call, n + 1) = LastRow(call, n) + 1
         /\ \A n, m \in 1..Chunks(call) : n < m => LastRow(call, n) < First(call, m)
<1>1. call.rows \in Seq(BulkRows) /\ call.rows # <<>> /\ call.size \in Nat \ {0}
  BY BulkAssumption DEF BulkAssumption, CallType, Valid
<1>2. PICK L \in Nat \ {0}, s \in Nat \ {0} : L = Len(call.rows) /\ s = call.size
  BY <1>1
<1>3. PICK K \in Nat \ {0} : K = Chunks(call) /\ (K - 1) * s < L /\ L <= K * s
  <2>1. Chunks(call) = (L + s - 1) \div s
    BY <1>2 DEF Chunks
  <2> QED
    BY <1>2, <2>1, Tiles
<1>4. \A n : /\ First(call, n) = (n - 1) * s + 1
             /\ LastRow(call, n) = IF n * s < L THEN n * s ELSE L
  BY <1>2 DEF First, LastRow
<1>5. First(call, 1) = 1 /\ LastRow(call, K) = L
  <2>1. (1 - 1) * s = 0 /\ ~(K * s < L)
    BY <1>2, <1>3
  <2> QED
    BY <1>4, <2>1
<1>6. ASSUME NEW n \in 1..K, n + 1 \in 1..K
      PROVE  First(call, n + 1) = LastRow(call, n) + 1
  <2>1. n < K
    BY <1>3, <1>6
  <2>2. n * s <= (K - 1) * s
    <3>1. s \in Nat /\ n \in Nat /\ K \in Nat
      OBVIOUS
    <3> QED
      BY ONLY <2>1, <3>1, TilesApart
  <2>3. n * s \in Nat /\ (K - 1) * s \in Nat /\ (n + 1) - 1 = n
    BY SMTT(60), <1>2, <1>3
  <2>4. n * s < L
    <3>1. PICK x \in Nat, y \in Nat : x = n * s /\ y = (K - 1) * s
      BY ONLY <2>3
    <3>2. x <= y /\ y < L
      BY ONLY <3>1, <2>2, <1>3
    <3>3. x < L
      BY ONLY <3>2, L \in Nat, x \in Nat, y \in Nat
    <3> QED
      BY ONLY <3>1, <3>3
  <2> QED
    BY <1>4, <2>3, <2>4
<1>7. ASSUME NEW n \in 1..K, NEW m \in 1..K, n < m
      PROVE  LastRow(call, n) < First(call, m)
  <2>1. n * s <= (m - 1) * s
    <3>1. s \in Nat /\ n \in Nat /\ m \in Nat
      OBVIOUS
    <3> QED
      BY ONLY <1>7, <3>1, TilesApart
  <2>2. n * s \in Nat /\ (m - 1) * s \in Nat
    <3>1. n \in Nat /\ m - 1 \in Nat /\ s \in Nat
      BY <1>2, <1>3
    <3>2. \A i \in Nat, j \in Nat : i * j \in Nat
      OBVIOUS
    <3> QED
      BY <3>1, <3>2
  <2>3. PICK x \in Nat, y \in Nat : x = n * s /\ y = (m - 1) * s
    BY ONLY <2>2
  <2>4. LastRow(call, n) = (IF x < L THEN x ELSE L) /\ First(call, m) = y + 1 /\ x <= y
    BY ONLY <1>4, <2>1, <2>3
  <2> QED
    BY ONLY <2>4, L \in Nat, x \in Nat, y \in Nat
<1> QED
  BY <1>2, <1>3, <1>5, <1>6, <1>7

(* One after the other, rows return what they return together.              *)
LEMMA GivesOn ==
  ASSUME NEW f, NEW a \in Nat \ {0}, NEW m \in Nat, NEW b \in Nat, f[a - 1].returning \in Seq(Keys),
         NEW x, NEW y, Gives(f, a, m, x), Gives(f, m + 1, b, y)
  PROVE  Gives(f, a, b, x \o y)
<1>1. PICK p \in Seq(Keys) : p = f[a - 1].returning
  OBVIOUS
<1>2. x \in Seq(Keys) /\ y \in Seq(Keys) /\ f[m].returning = p \o x
  BY <1>1 DEF Gives
<1>3. PICK l \in Nat : l = m + 1 /\ l - 1 = m
  OBVIOUS
<1>4. f[b].returning = f[m].returning \o y
  <2>1. f[b].returning = f[l - 1].returning \o y
    BY <1>3, Zenon DEF Gives
  <2> QED
    BY <1>3, <2>1, Zenon
<1>5. f[b].returning = p \o (x \o y)
  <2>1. (p \o x) \o y = p \o (x \o y)
    BY <1>2, Associates
  <2> QED
    BY <1>2, <1>4, <2>1, Zenon
<1>6. x \o y \in Seq(Keys)
  BY <1>2, ConcatProperties
<1> QED
  BY <1>1, <1>5, <1>6 DEF Gives

-----------------------------------------------------------------------------
(* The calls whose effect is that of one statement per row, and this effect. *)
Scripted == Comparable(call) /\ call.op \in Statements
Script   == Ref(call, before)

(* A worker alone takes the chunks in order.                                *)
Sole ==
  Valid(call) /\ WorkerCount = 1 =>
    \A w \in Workers : ~At(w, "exit") =>
      /\ w = 1 /\ (worker[w].at \in {"check", "claim", "execute", "report"} => ~error)
      /\ Busy(w) => worker[w].chunk = next - 1
(* What a worker holds of RETURNING rows.                                   *)
Holds ==
  \A w \in Workers :
    LET n == worker[w].chunk
    IN  /\ At(w, "execute") =>
             /\ ~PerRow(call) => worker[w].row = 1
             /\ Scripted => Gives(Script, First(call, n), First(call, n) + worker[w].row - 2, worker[w].returning)
        /\ At(w, "report") /\ Scripted => Gives(Script, First(call, n), LastRow(call, n), worker[w].returning)
(* What has been reported of the chunks that are over.                      *)
Over(n) == n < next /\ ~error /\ \A w \in Workers : Busy(w) => worker[w].chunk # n
Reported ==
  Valid(call) => \A n \in 1..Chunks(call) : Over(n) =>
    /\ outcomes[n].rows = IF call.op = "deleteWhere" THEN 0 ELSE Len(ChunkRows(call, n))
    /\ Scripted => Gives(Script, First(call, n), LastRow(call, n), outcomes[n].returning)
(* The table, unless a rollback has restored it.                            *)
Stored ==
  /\ before \in Tables
  /\ Scripted /\ (phase # "done" \/ result.ok \/ ~call.transactional) =>
       IsTable(table) /\ Fits(Script, call, applied, table)
Summed == phase = "done" /\ result.ok => result = Aggregated
(* The invariant of the effect of a call.                                   *)
EffectInv == Sole /\ Holds /\ Reported /\ Stored /\ Summed

(* What a script is made of.                                                *)
LEMMA ScriptRuns ==
  ASSUME call \in Calls, before \in Tables, Scripted
  PROVE  /\ Runs(Script, call, before, DOMAIN call.rows) /\ Follows(Script, call)
         /\ RowByRow(call, before, DOMAIN call.rows) = Script[Len(call.rows)]
         /\ IsTable(before)
         /\ \A n \in 0..Len(call.rows) : Script[n].returning \in Seq(Keys)
<1>1. call.op \in Statements
  BY DEF Scripted
<1>2. IsTable(before)
  BY BulkAssumption DEF BulkAssumption, IsTable
<1>3. PICK c \in Calls : c = call
  OBVIOUS
<1>5. PICK t : t = before
  OBVIOUS
<1>6. /\ Runs(Ref(c, t), c, t, DOMAIN c.rows)
      /\ RowByRow(c, t, DOMAIN c.rows) = Ref(c, t)[Len(c.rows)]
  BY <1>1, <1>2, <1>3, <1>5, RefRuns
<1> QED
  BY <1>2, <1>3, <1>5, <1>6 DEF Script, Follows, Runs

(* What depends on the call alone.                                          *)
LEMMA SameScript ==
  ASSUME UNCHANGED <<call, before>>
  PROVE  Script' = Script /\ Scripted' = Scripted /\ WorkerCount' = WorkerCount
BY DEF Script, Scripted, Comparable, Valid, WorkerCount, Chunks

(* A step of one worker.                                                    *)
LEMMA GoesOn ==
  ASSUME TypeOK, NEW w \in Workers, NEW place \in Places, Go(w, place)
  PROVE  /\ worker'[w].at = place
         /\ \A v \in Workers : /\ v # w => worker'[v] = worker[v]
                               /\ worker'[v].chunk = worker[v].chunk /\ worker'[v].row = worker[v].row
                               /\ worker'[v].returning = worker[v].returning
BY DEF TypeOK, Go

(* fetch_add gives the worker the next chunk, or none.                      *)
LEMMA ClaimsOn ==
  ASSUME BulkInv, NEW w \in Workers, Claim(w)
  PROVE  /\ \A v \in Workers \ {w} : worker'[v] = worker[v]
         /\ next <= Chunks(call) => worker'[w] = [at |-> "execute", chunk |-> next, row |-> 1, returning |-> <<>>]
         /\ ~(next <= Chunks(call)) => worker'[w].at = "exit"
<1>1. Valid(call) /\ next \in Nat \ {0} /\ worker = [v \in Workers |-> worker[v]]
  BY DEF BulkInv, Claims, TypeOK, Claim, At
<1>2. Chunks(call) \in Nat \ {0}
  BY <1>1, Tasks DEF BulkInv, TypeOK
<1>3. PICK r : /\ worker' = [worker EXCEPT ![w] = r]
               /\ r = IF next > Chunks(call) THEN Off
                      ELSE [at |-> "execute", chunk |-> next, row |-> 1, returning |-> <<>>]
  BY DEF Claim
<1>4. Off = [at |-> "exit", chunk |-> 0, row |-> 0, returning |-> <<>>]
  BY DEF Off, Looping
<1>5. worker'[w] = r /\ \A v \in Workers \ {w} : worker'[v] = worker[v]
  BY <1>1, <1>3
<1>6. next <= Chunks(call) <=> ~(next > Chunks(call))
  BY <1>1, <1>2
<1>7. CASE next <= Chunks(call)
  BY <1>3, <1>5, <1>6, <1>7
<1>8. CASE ~(next <= Chunks(call))
  <2>1. r = [at |-> "exit", chunk |-> 0, row |-> 0, returning |-> <<>>]
    BY <1>3, <1>4, <1>6, <1>8
  <2> QED
    BY <1>5, <1>8, <2>1
<1> QED
  BY <1>7, <1>8

(* A statement that works.                                                  *)
LEMMA ExecutesOn ==
  ASSUME BulkInv, NEW w \in Workers, Execute(w)
  PROVE  LET n    == worker[w].chunk
             done == Executed(call, table, ChunkRows(call, n), worker[w].row)
             last == ~PerRow(call) \/ worker[w].row = Len(ChunkRows(call, n))
         IN  /\ done.ok /\ table' = done.table /\ applied' = applied \union RowsRun(w)
             /\ \A v \in Workers \ {w} : worker'[v] = worker[v]
             /\ worker'[w].chunk = n /\ worker'[w].row = worker[w].row + 1
             /\ worker'[w].returning = worker[w].returning \o done.returning
             /\ worker'[w].at = IF last THEN "report" ELSE "execute"
<1>1. PICK o : o = Executed(call, table, ChunkRows(call, worker[w].chunk), worker[w].row)
  OBVIOUS
<1>2. PICK place : place = IF ~PerRow(call) \/ worker[w].row = Len(ChunkRows(call, worker[w].chunk))
                           THEN "report" ELSE "execute"
  OBVIOUS
<1>3. /\ o.ok /\ table' = o.table /\ applied' = applied \union RowsRun(w)
      /\ worker' = [worker EXCEPT ![w].at = place, ![w].row = @ + 1, ![w].returning = @ \o o.returning]
  BY <1>1, <1>2 DEF Execute
<1>4. PICK more : more = worker[w].returning \o o.returning
  OBVIOUS
<1>5. /\ worker = [v \in Workers |-> worker[v]]
      /\ worker[w] = [at |-> worker[w].at, chunk |-> worker[w].chunk, row |-> worker[w].row,
                      returning |-> worker[w].returning]
  BY DEF BulkInv, TypeOK
<1>6. PICK up : up = worker[w].row + 1
  OBVIOUS
<1>7. worker' = [worker EXCEPT ![w].at = place, ![w].row = up, ![w].returning = more]
  BY <1>3, <1>4, <1>6
<1>8. worker'[w] = [at |-> place, chunk |-> worker[w].chunk, row |-> up, returning |-> more]
      /\ \A v \in Workers \ {w} : worker'[v] = worker[v]
  BY <1>5, <1>7
<1>9. worker'[w].at = place /\ worker'[w].chunk = worker[w].chunk /\ worker'[w].row = up
      /\ worker'[w].returning = more
  BY <1>8
<1> QED
  BY <1>1, <1>2, <1>3, <1>4, <1>6, <1>8, <1>9, Zenon

(* The steps of a worker but its statement: what it held is still right.    *)
LEMMA SoleGoes ==
  ASSUME BulkInv, Sole, NEW w \in Workers, UNCHANGED <<call, before>>, Valid(call),
         \A v \in Workers \ {w} : worker'[v] = worker[v], ~At(w, "exit"),
         worker'[w].at \in {"check", "claim", "execute", "report"} => ~error',
         Busy(w)' => worker'[w].chunk = next' - 1
  PROVE  Sole'
<1>1. WorkerCount' = WorkerCount /\ Valid(call)' = Valid(call)
  BY Same, SameScript
<1> SUFFICES ASSUME WorkerCount = 1, NEW v \in Workers, worker'[v].at # "exit"
             PROVE  /\ v = 1 /\ (worker'[v].at \in {"check", "claim", "execute", "report"} => ~error')
                    /\ Busy(v)' => worker'[v].chunk = next' - 1
  BY <1>1 DEF Sole, At
<1>2. v = w
  BY DEF Sole, At
<1>3. v = 1
  BY <1>2 DEF Sole
<1> QED
  BY <1>2, <1>3

(* A worker alone keeps to the order of the chunks.                         *)
LEMMA SoleHolds ==
  ASSUME BulkInv, Sole, NEW w \in Workers, Step(w)
  PROVE  Sole'
<1>1. /\ ~At(w, "exit") /\ UNCHANGED <<call, before>>
      /\ (Check(w) \/ Claim(w) \/ Execute(w) \/ ExecuteFails(w) \/ Report(w) \/ CallbackThrows(w)) => UNCHANGED error
  BY DEF Step, Check, Claim, Execute, ExecuteFails, Report, CallbackThrows, Catch, Publish, At
<1>2. Valid(call) /\ TypeOK
  BY <1>1 DEF BulkInv, Claims
<1>3. WorkerCount # 1 => Sole'
  <2>1. WorkerCount' = WorkerCount
    BY <1>1, SameScript
  <2> QED
    BY <2>1 DEF Sole
<1>4. ASSUME WorkerCount = 1, NEW place \in {"check", "claim", "catch"}, Go(w, place), UNCHANGED <<error, next>>,
             ~At(w, "catch"), ~At(w, "publish"), place = "catch" => Busy(w)
      PROVE  Sole'
  <2>1. /\ worker'[w].at = place
        /\ \A v \in Workers : /\ v # w => worker'[v] = worker[v]
                              /\ worker'[v].chunk = worker[v].chunk
    BY <1>2, <1>4, GoesOn DEF Places
  <2>2. ~error
    BY <1>1, <1>2, <1>4 DEF Sole, At, BulkInv, TypeOK, Places
  <2>3. Busy(w)' => Busy(w)
    BY <2>1, <1>4 DEF Busy
  <2>4. Busy(w) => worker[w].chunk = next - 1
    BY <1>1, <1>2, <1>4 DEF Sole
  <2> QED
    BY <1>1, <1>2, <1>4, <2>1, <2>2, <2>3, <2>4, SoleGoes
<1>5. ASSUME WorkerCount = 1, NEW place \in {"publish", "exit"}, Go(w, place), UNCHANGED next, Busy(w) \/ place = "exit"
      PROVE  Sole'
  <2>1. /\ worker'[w].at = place
        /\ \A v \in Workers : /\ v # w => worker'[v] = worker[v]
                              /\ worker'[v].chunk = worker[v].chunk
    BY <1>2, <1>5, GoesOn DEF Places
  <2>2. Busy(w) => worker[w].chunk = next - 1
    BY <1>1, <1>2, <1>5 DEF Sole
  <2>3. Busy(w)' => Busy(w)
    BY <2>1, <1>5 DEF Busy
  <2> QED
    BY <1>1, <1>2, <1>5, <2>1, <2>2, <2>3, SoleGoes
<1>6. ASSUME WorkerCount = 1, Claim(w)
      PROVE  Sole'
  <2>1. /\ \A v \in Workers \ {w} : worker'[v] = worker[v]
        /\ next <= Chunks(call) => worker'[w] = [at |-> "execute", chunk |-> next, row |-> 1, returning |-> <<>>]
        /\ ~(next <= Chunks(call)) => worker'[w].at = "exit"
    BY <1>6, ClaimsOn
  <2>2. ~error /\ error' = error /\ next' = next + 1 /\ next \in Nat
    BY <1>1, <1>2, <1>6 DEF Sole, Claim, At, BulkInv, TypeOK
  <2>3. Busy(w)' => worker'[w].chunk = next' - 1
    BY <2>1, <2>2 DEF Busy
  <2> QED
    BY <1>1, <1>2, <2>1, <2>2, <2>3, SoleGoes
<1>7. ASSUME WorkerCount = 1, Execute(w)
      PROVE  Sole'
  <2>1. /\ \A v \in Workers \ {w} : worker'[v] = worker[v]
        /\ worker'[w].chunk = worker[w].chunk
    BY <1>7, ExecutesOn
  <2>2. ~error /\ error' = error /\ next' = next /\ Busy(w)
    BY <1>1, <1>2, <1>7 DEF Sole, Execute, At, Busy
  <2>3. worker[w].chunk = next - 1
    BY <1>1, <1>2, <1>7, <2>2 DEF Sole
  <2> QED
    BY <1>1, <1>2, <2>1, <2>2, <2>3, SoleGoes
<1>8. ASSUME WorkerCount = 1
      PROVE  Sole'
  <2>1. CASE Check(w)
    <3>1. Go(w, "exit") \/ Go(w, "claim")
      BY <2>1 DEF Check
    <3>2. UNCHANGED <<error, next>> /\ At(w, "check")
      BY <2>1 DEF Check
    <3> QED
      BY <3>1, <3>2, <1>4, <1>5, <1>8 DEF At
  <2>2. CASE ExecuteFails(w) \/ CallbackThrows(w)
    BY <2>2, <1>4, <1>8 DEF ExecuteFails, CallbackThrows, At, Busy
  <2>3. CASE Report(w)
    BY <2>3, <1>4, <1>8 DEF Report, At
  <2>4. CASE Catch(w)
    BY <2>4, <1>5, <1>8 DEF Catch, At, Busy
  <2>5. CASE Publish(w)
    BY <2>5, <1>5, <1>8 DEF Publish
  <2> QED
    BY <2>1, <2>2, <2>3, <2>4, <2>5, <1>6, <1>7, <1>8 DEF Step
<1> QED
  BY SMTT(90), <1>3, <1>8

(* Alone, a worker comes to a statement when the rows before it have run    *)
(* and the others have not.                                                 *)
LEMMA InOrder ==
  ASSUME BulkInv, Sole, WorkerCount = 1, call.op \in Statements, NEW w \in Workers, At(w, "execute"),
         NEW j \in 1..Len(call.rows)
  PROVE  j \in applied <=> j < FirstRun(worker[w].chunk, worker[w].row)
<1>1. /\ Valid(call) /\ call \in Calls /\ worker[w].chunk \in 1..Chunks(call) /\ next \in Nat
      /\ worker[w].row \in Nat
      /\ call.op # "deleteWhere" /\ Chunks(call) \in Nat \ {0}
  BY Tasks DEF BulkInv, Claims, TypeOK, Busy, At, Statements
<1>2. PICK c \in 1..Chunks(call), r \in Nat : c = worker[w].chunk /\ r = worker[w].row
  BY <1>1
<1>3. c = next - 1 /\ ~error /\ \A v \in Workers : Busy(v) => worker[v].chunk = c
  BY <1>1, <1>2 DEF Sole, At, Busy
<1>4. PICK L \in Nat : L = Len(call.rows) /\ DOMAIN call.rows = 1..L
  BY <1>1, BulkAssumption DEF BulkAssumption, CallType
<1>5. PICK x \in 1..L, y \in 1..L : x = First(call, c) /\ y = LastRow(call, c) /\ x <= y
  BY <1>1, <1>4, Chunking
<1>6. PICK a \in Nat : a = FirstRun(c, r) /\ x <= a /\ a <= y
  <2>1. CASE PerRow(call)
    <3>1. r \in 1..(y - x + 1)
      BY <1>1, <1>2, <1>5, <2>1, Chunking DEF BulkInv, Claims
    <3>2. x + r - 1 \in Nat /\ x <= x + r - 1 /\ x + r - 1 <= y
      BY SMTT(60), <1>5, <3>1
    <3> QED
      BY <3>2, <2>1, <1>5 DEF FirstRun
  <2>2. CASE ~PerRow(call)
    BY <2>2, <1>4, <1>5 DEF FirstRun
  <2> QED
    BY <2>1, <2>2
<1>7. PICK n \in 1..Chunks(call) : j \in Task(n)
  BY <1>1, <1>4, Tasks
<1>8. PICK p \in 1..L, q \in 1..L : p = First(call, n) /\ q = LastRow(call, n) /\ j \in p..q
  BY <1>1, <1>4, <1>7, Chunking DEF Task, RowsOf
<1>9. CASE n < c
  <2>1. q < x
    BY <1>1, <1>5, <1>8, <1>9, ChunksFollow
  <2>2. j < a
    BY <2>1, <1>4, <1>5, <1>6, <1>8
  <2>3. Task(n) \subseteq applied
    <3>1. n < next /\ n # c
      BY <1>1, <1>3, <1>9
    <3> QED
      BY <3>1, <1>1, <1>3 DEF BulkInv, Progress
  <2> QED
    BY <2>2, <2>3, <1>2, <1>6, <1>7
<1>10. CASE n = c
  <2>1. Task(c) \intersect applied = Written(w)
    BY <1>2 DEF BulkInv, Progress
  <2>2. j \in applied <=> j \in Written(w)
    BY <2>1, <1>7, <1>10
  <2>3. p = x /\ q = y
    BY <1>5, <1>8, <1>10
  <2>4. CASE PerRow(call)
    <3>1. Written(w) = x..(x + r - 2) /\ a = x + r - 1
      BY <2>4, <1>2, <1>5, <1>6 DEF Written, FirstRun
    <3>2. j \in x..(x + r - 2) <=> j < x + r - 1
      BY <2>3, <1>4, <1>5, <1>8
    <3> QED
      BY <2>2, <3>1, <3>2, <1>2, <1>6
  <2>5. CASE ~PerRow(call)
    <3>1. Written(w) = {} /\ a = x
      BY <2>5, <1>5, <1>6 DEF Written, FirstRun
    <3>2. ~(j < x)
      BY <2>3, <1>4, <1>5, <1>8
    <3> QED
      BY <2>2, <3>1, <3>2, <1>2, <1>6
  <2> QED
    BY <2>4, <2>5
<1>11. CASE c < n
  <2>1. y < p
    BY <1>1, <1>5, <1>8, <1>11, ChunksFollow
  <2>2. ~(j < a)
    BY <2>1, <1>4, <1>5, <1>6, <1>8
  <2>3. Task(n) \intersect applied = {}
    <3>1. n >= next
      BY <1>1, <1>3, <1>11
    <3> QED
      BY <3>1, <1>1 DEF BulkInv, Progress
  <2> QED
    BY <2>2, <2>3, <1>2, <1>6, <1>7
<1> QED
  BY <1>1, <1>9, <1>10, <1>11

(* A statement is the turn of its rows: no other row of their keys is in    *)
(* between, whoever has run what.                                           *)
LEMMA StatementDue ==
  ASSUME BulkInv, Sole, Scripted, NEW w \in Workers, At(w, "execute"),
         NEW a, a = FirstRun(worker[w].chunk, worker[w].row), NEW b, b = LastRun(worker[w].chunk, worker[w].row),
         a \in 1..Len(call.rows), b \in 1..Len(call.rows)
  PROVE  RowsRun(w) = a..b /\ Due(call, applied, a, b)
<1>1. call \in Calls /\ call.op \in Statements /\ call.op # "deleteWhere"
  BY DEF BulkInv, TypeOK, Scripted, Statements
<1>2. PICK L \in Nat : L = Len(call.rows) /\ DOMAIN call.rows = 1..L
  BY <1>1, BulkAssumption DEF BulkAssumption, CallType
<1>3. RowsRun(w) = a..b
  <2>1. CASE PerRow(call)
    <3>1. RowsRun(w) = {a} /\ a = b
      BY <2>1 DEF RowsRun, FirstRun, LastRun
    <3>2. a..a = {a}
      BY <1>2
    <3> QED
      BY <3>1, <3>2
  <2>2. CASE ~PerRow(call)
    BY <2>2, <1>1 DEF RowsRun, FirstRun, LastRun
  <2> QED
    BY <2>1, <2>2
<1>4. ASSUME NEW i \in a..b
      PROVE  NextRow(call, applied \union (a..(i - 1)), i)
  <2>1. i \notin applied /\ i \in 1..L /\ i \notin a..(i - 1)
    BY <1>2, <1>3, StatementRows
  <2>2. ASSUME NEW j \in 1..L, KeyOf(call, j) = KeyOf(call, i), j # i
        PROVE  j \in applied \union (a..(i - 1)) <=> j < i
    <3>1. CASE Distinct(call)
      BY SMTT(60), <3>1, <2>1, <2>2, <1>2 DEF Distinct, KeyOf
    <3>2. CASE ~Distinct(call)
      <4>1. WorkerCount = 1
        BY <3>2 DEF Scripted, Comparable
      <4>2. j \in applied <=> j < a
        BY <4>1, <1>1, <1>2, InOrder
      <4> QED
        BY <4>2, <2>1, <1>2
    <3> QED
      BY <3>1, <3>2
  <2> QED
    BY <2>1, <2>2, <1>2 DEF NextRow
<1> QED
  BY <1>3, <1>4 DEF Due

(* What a statement writes and returns is what its rows do in the script.   *)
LEMMA StatementFits ==
  ASSUME BulkInv, Sole, Stored, Scripted, NEW w \in Workers, Execute(w),
         NEW n, n = worker[w].chunk, NEW r, r = worker[w].row,
         NEW o, o = Executed(call, table, ChunkRows(call, n), r)
  PROVE  /\ IsTable(table') /\ Fits(Script, call, applied', table')
         /\ Gives(Script, FirstRun(n, r), LastRun(n, r), o.returning)
<1>1. /\ call \in Calls /\ call.op \in Statements /\ before \in Tables /\ Uniform(call)
      /\ Valid(call) /\ n \in 1..Chunks(call) /\ r \in Nat /\ At(w, "execute") /\ phase = "running"
      /\ PerRow(call) => r \in 1..Len(ChunkRows(call, n))
  BY DEF BulkInv, TypeOK, Claims, Busy, At, Scripted, Comparable, Stored, Execute
<1>2. IsTable(table) /\ Fits(Script, call, applied, table)
  BY <1>1 DEF Stored
<1>3. PICK t : t = table
  OBVIOUS
<1>4. o = Executed(call, t, ChunkRows(call, n), r) /\ o.ok /\ table' = o.table
      /\ applied' = applied \union RowsRun(w)
  BY <1>3, ExecutesOn
<1>5. PICK a, b : a = FirstRun(n, r) /\ b = LastRun(n, r)
  OBVIOUS
<1>6. /\ a \in 1..Len(call.rows) /\ b \in 1..Len(call.rows) /\ a <= b
      /\ Leads(call, t, a, b, o.table, o.returning)
  BY <1>1, <1>2, <1>3, <1>4, <1>5, ChunkLeads
<1>7. RowsRun(w) = a..b /\ Due(call, applied, a, b)
  BY <1>1, <1>5, <1>6, StatementDue
<1>9. Follows(Script, call)
  BY <1>1, ScriptRuns
<1>10. PICK S : S = applied
  OBVIOUS
<1>11. IsTable(o.table) /\ Fits(Script, call, S \union (a..b), o.table) /\ Gives(Script, a, b, o.returning)
  BY SMTT(60), <1>1, <1>2, <1>3, <1>6, <1>7, <1>9, <1>10, RowsFit
<1> QED
  BY <1>4, <1>5, <1>7, <1>10, <1>11

(* What the workers hold and have reported, the table and the result keep   *)
(* to the script through a statement that works...                          *)
LEMMA ExecuteKeeps ==
  ASSUME BulkInv, EffectInv, NEW w \in Workers, Execute(w)
  PROVE  EffectInv'
<1>1. /\ Valid(call) /\ phase = "running" /\ call \in Calls /\ before \in Tables /\ At(w, "execute") /\ Busy(w)
      /\ UNCHANGED <<call, before, phase, next, failed, error, outcomes, result>>
      /\ worker[w].chunk \in 1..Chunks(call) /\ worker[w].row \in Nat
  BY DEF BulkInv, TypeOK, Claims, EffectInv, Stored, Execute, At, Busy
<1>2. /\ Script' = Script /\ Scripted' = Scripted
      /\ Valid(call)' = Valid(call) /\ Chunks(call)' = Chunks(call) /\ PerRow(call)' = PerRow(call)
      /\ \A n : /\ ChunkRows(call, n)' = ChunkRows(call, n)
                /\ First(call, n)' = First(call, n) /\ LastRow(call, n)' = LastRow(call, n)
  BY <1>1, Same, SameScript
<1>3. Sole'
  BY SoleHolds DEF Step, EffectInv
<1>4. PICK n \in 1..Chunks(call), r \in Nat : n = worker[w].chunk /\ r = worker[w].row
  BY <1>1
<1>5. PICK o : o = Executed(call, table, ChunkRows(call, n), r)
  OBVIOUS
<1>6. PICK last \in BOOLEAN : last <=> ~PerRow(call) \/ r = Len(ChunkRows(call, n))
  OBVIOUS
<1>7. /\ \A v \in Workers \ {w} : worker'[v] = worker[v]
      /\ worker'[w].chunk = n /\ worker'[w].row = r + 1
      /\ worker'[w].returning = worker[w].returning \o o.returning
      /\ worker'[w].at = IF last THEN "report" ELSE "execute"
      /\ table' = o.table
  BY <1>4, <1>5, <1>6, ExecutesOn
<1>8. ASSUME Scripted
      PROVE  /\ IsTable(table') /\ Fits(Script, call, applied', table')
             /\ Gives(Script, FirstRun(n, r), LastRun(n, r), o.returning)
  BY <1>4, <1>5, <1>8, StatementFits DEF EffectInv
<1>9. Stored'
  BY <1>1, <1>2, <1>8 DEF Stored
<1>10. Holds'
  <2>1. ASSUME NEW v \in Workers, v # w
        PROVE  /\ worker'[v].at = "execute" =>
                    /\ ~PerRow(call) => worker'[v].row = 1
                    /\ Scripted => Gives(Script, First(call, worker'[v].chunk),
                                         First(call, worker'[v].chunk) + worker'[v].row - 2, worker'[v].returning)
               /\ worker'[v].at = "report" /\ Scripted =>
                    Gives(Script, First(call, worker'[v].chunk), LastRow(call, worker'[v].chunk), worker'[v].returning)
    BY <2>1, <1>7 DEF EffectInv, Holds, At
  <2>2. ASSUME Scripted
        PROVE  IF last THEN Gives(Script, First(call, n), LastRow(call, n), worker'[w].returning)
               ELSE Gives(Script, First(call, n), First(call, n) + (r + 1) - 2, worker'[w].returning)
    <3>1. PICK L \in Nat : L = Len(call.rows) /\ DOMAIN call.rows = 1..L
      BY <1>1, BulkAssumption DEF BulkAssumption, CallType
    <3>2. PICK x \in 1..L, y \in 1..L : x = First(call, n) /\ y = LastRow(call, n) /\ x <= y
      BY <1>1, <3>1, Chunking
    <3>3. Gives(Script, x, x + r - 2, worker[w].returning)
      BY <1>1, <1>4, <2>2, <3>2 DEF EffectInv, Holds
    <3>4. Script[x - 1].returning \in Seq(Keys)
      <4>1. x - 1 \in 0..L
        BY <3>2
      <4> QED
        BY <1>1, <2>2, <3>1, <4>1, ScriptRuns
    <3>5. PICK f : f = Script
      OBVIOUS
    <3>6. ASSUME NEW m \in Nat, m = x + r - 2, NEW b \in Nat, m + 1 = FirstRun(n, r), b = LastRun(n, r)
          PROVE  Gives(Script, x, b, worker'[w].returning)
      <4>1. Gives(f, x, m, worker[w].returning) /\ Gives(f, m + 1, b, o.returning)
        BY <1>8, <2>2, <3>3, <3>5, <3>6
      <4>2. Gives(f, x, b, worker[w].returning \o o.returning)
        BY <3>2, <3>4, <3>5, <4>1, GivesOn
      <4> QED
        BY <1>7, <3>5, <4>2
    <3>7. CASE PerRow(call)
      <4>1. r \in 1..(y - x + 1) /\ call.op # "deleteWhere"
        BY <1>1, <1>4, <3>2, <3>7, Chunking DEF BulkInv, Claims, PerRow
      <4>2. FirstRun(n, r) = x + r - 1 /\ LastRun(n, r) = x + r - 1
        BY <3>2, <3>7 DEF FirstRun, LastRun
      <4>3. x + r - 2 \in Nat /\ (x + r - 2) + 1 = x + r - 1 /\ x + r - 1 \in Nat
        BY <3>2, <4>1
      <4>4. Gives(Script, x, x + r - 1, worker'[w].returning)
        BY <3>6, <4>2, <4>3
      <4>5. x + (r + 1) - 2 = x + r - 1
        BY <3>2
      <4>6. Len(ChunkRows(call, n)) = y - x + 1
        BY <1>1, <3>2, <4>1, Chunking
      <4>7. last => x + r - 1 = y
        BY SMTT(60), <1>6, <3>2, <3>7, <4>1, <4>6
      <4> QED
        BY <3>2, <4>4, <4>5, <4>7
    <3>8. CASE ~PerRow(call)
      <4>1. r = 1 /\ last
        BY <1>1, <1>4, <1>6, <3>8 DEF EffectInv, Holds
      <4>2. FirstRun(n, r) = x /\ LastRun(n, r) = y
        BY <3>2, <3>8 DEF FirstRun, LastRun
      <4>3. x + r - 2 \in Nat /\ (x + r - 2) + 1 = x /\ y \in Nat
        BY <3>2, <4>1
      <4> QED
        BY <3>2, <3>6, <4>1, <4>2, <4>3
    <3> QED
      BY <3>7, <3>8
  <2>3. ~last => PerRow(call)
    BY <1>6
  <2>4. ASSUME NEW v \in Workers
        PROVE  /\ worker'[v].at = "execute" =>
                    /\ ~PerRow(call) => worker'[v].row = 1
                    /\ Scripted => Gives(Script, First(call, worker'[v].chunk),
                                         First(call, worker'[v].chunk) + worker'[v].row - 2, worker'[v].returning)
               /\ worker'[v].at = "report" /\ Scripted =>
                    Gives(Script, First(call, worker'[v].chunk), LastRow(call, worker'[v].chunk), worker'[v].returning)
    BY <2>1, <2>2, <2>3, <1>7
  <2> QED
    BY <2>4, <1>2 DEF Holds, At
<1>11. Reported'
  <2>1. ASSUME NEW m \in 1..Chunks(call), Over(m)'
        PROVE  Over(m)
    <3>1. \A v \in Workers : Busy(v) => Busy(v)' /\ worker'[v].chunk = worker[v].chunk
      BY <1>4, <1>7 DEF Busy
    <3> QED
      BY <2>1, <3>1, <1>1 DEF Over
  <2> QED
    BY <2>1, <1>1, <1>2 DEF EffectInv, Reported
<1>12. Summed'
  BY <1>1 DEF Summed
<1> QED
  BY SMTT(60), <1>3, <1>9, <1>10, <1>11, <1>12 DEF EffectInv

(* ... and through the other steps of the workers.                          *)
LEMMA OthersKeep ==
  ASSUME BulkInv, EffectInv, NEW w \in Workers, Step(w), ~Execute(w)
  PROVE  EffectInv'
<1>1. /\ UNCHANGED <<call, before, table, phase, result, applied>> /\ ~At(w, "exit")
  BY DEF Step, Check, Claim, ExecuteFails, Report, CallbackThrows, Catch, Publish, At
<1>2. /\ Valid(call) /\ phase = "running" /\ call \in Calls /\ before \in Tables /\ TypeOK /\ next \in Nat \ {0}
  BY <1>1 DEF BulkInv, TypeOK, Claims, EffectInv, Stored
<1>3. /\ Script' = Script /\ Scripted' = Scripted
      /\ Valid(call)' = Valid(call) /\ Chunks(call)' = Chunks(call) /\ PerRow(call)' = PerRow(call)
      /\ \A n : /\ ChunkRows(call, n)' = ChunkRows(call, n)
                /\ First(call, n)' = First(call, n) /\ LastRow(call, n)' = LastRow(call, n)
  BY <1>1, Same, SameScript
<1>4. Sole'
  BY SoleHolds DEF EffectInv
<1>5. Stored' /\ Summed'
  BY <1>1, <1>2, <1>3 DEF EffectInv, Stored, Summed
<1>6. Chunks(call) \in Nat \ {0}
  BY <1>2, Tasks
<1>7. CASE Claim(w)
  <2>1. /\ \A v \in Workers \ {w} : worker'[v] = worker[v]
        /\ next <= Chunks(call) => worker'[w] = [at |-> "execute", chunk |-> next, row |-> 1, returning |-> <<>>]
        /\ ~(next <= Chunks(call)) => worker'[w].at = "exit"
    BY <1>7, ClaimsOn
  <2>2. next' = next + 1 /\ UNCHANGED <<error, outcomes>> /\ ~Busy(w)
    BY <1>7 DEF Claim, Busy, At
  <2>3. ASSUME next <= Chunks(call), Scripted
        PROVE  Gives(Script, First(call, next), First(call, next) + 1 - 2, <<>>)
    <3>1. PICK L \in Nat : L = Len(call.rows) /\ DOMAIN call.rows = 1..L
      BY <1>2, BulkAssumption DEF BulkAssumption, CallType
    <3>2. PICK x \in 1..L : x = First(call, next)
      BY <1>2, <1>6, <2>3, <3>1, Chunking
    <3>3. x - 1 \in 0..L /\ x + 1 - 2 = x - 1
      BY <3>2
    <3>4. Script[x - 1].returning \in Seq(Keys)
      BY <1>2, <2>3, <3>1, <3>3, ScriptRuns
    <3>5. Gives(Script, x, x - 1, <<>>)
      BY <3>4, EmptySeq, ConcatEmptySeq DEF Gives
    <3> QED
      BY <3>2, <3>3, <3>5
  <2>4. Holds'
    <3>1. ASSUME NEW v \in Workers
          PROVE  /\ worker'[v].at = "execute" =>
                      /\ ~PerRow(call) => worker'[v].row = 1
                      /\ Scripted => Gives(Script, First(call, worker'[v].chunk),
                                           First(call, worker'[v].chunk) + worker'[v].row - 2, worker'[v].returning)
                 /\ worker'[v].at = "report" /\ Scripted =>
                      Gives(Script, First(call, worker'[v].chunk), LastRow(call, worker'[v].chunk), worker'[v].returning)
      <4>1. CASE v # w
        BY <4>1, <2>1 DEF EffectInv, Holds, At
      <4>2. CASE v = w /\ next <= Chunks(call)
        <5>1. worker'[v].at = "execute" /\ worker'[v].chunk = next /\ worker'[v].row = 1 /\ worker'[v].returning = <<>>
          BY <4>2, <2>1
        <5> QED
          BY <5>1, <4>2, <2>3
      <4>3. CASE v = w /\ ~(next <= Chunks(call))
        BY <4>3, <2>1
      <4> QED
        BY <4>1, <4>2, <4>3
    <3> QED
      BY <3>1, <1>3 DEF Holds, At
  <2>5. Reported'
    <3>1. ASSUME NEW m \in 1..Chunks(call), Over(m)'
          PROVE  Over(m)
      <4>1. ~(m = next)
        <5> SUFFICES ASSUME m = next PROVE FALSE
          OBVIOUS
        <5>1. worker'[w] = [at |-> "execute", chunk |-> next, row |-> 1, returning |-> <<>>]
          BY <2>1, <1>6
        <5>2. worker'[w].at = "execute" /\ worker'[w].chunk = m
          BY <5>1
        <5> QED
          BY <3>1, <5>2 DEF Over, Busy
      <4>2. m < next
        BY <3>1, <4>1, <2>2, <1>2, <1>6 DEF Over
      <4>3. \A v \in Workers : Busy(v) => Busy(v)' /\ worker'[v].chunk = worker[v].chunk
        BY <2>1, <2>2 DEF Busy
      <4> QED
        BY <3>1, <4>2, <4>3, <2>2 DEF Over
    <3> QED
      BY <3>1, <2>2, <1>1, <1>2, <1>3 DEF EffectInv, Reported
  <2> QED
    BY <1>4, <1>5, <2>4, <2>5 DEF EffectInv
<1>8. CASE ~Claim(w)
  <2>1. PICK place \in {"exit", "claim", "catch", "check", "publish"} : Go(w, place) /\ next' = next
    BY <1>8 DEF Step, Check, ExecuteFails, Report, CallbackThrows, Catch, Publish
  <2>2. /\ worker'[w].at = place
        /\ \A v \in Workers : /\ v # w => worker'[v] = worker[v]
                              /\ worker'[v].chunk = worker[v].chunk /\ worker'[v].row = worker[v].row
                              /\ worker'[v].returning = worker[v].returning
    BY <1>2, <2>1, GoesOn DEF Places
  <2>3. Holds'
    <3>1. \A v \in Workers : worker'[v].at \in {"execute", "report"} => worker'[v] = worker[v]
      BY <2>1, <2>2
    <3>2. ASSUME NEW v \in Workers
          PROVE  /\ worker'[v].at = "execute" =>
                      /\ ~PerRow(call) => worker'[v].row = 1
                      /\ Scripted => Gives(Script, First(call, worker'[v].chunk),
                                           First(call, worker'[v].chunk) + worker'[v].row - 2, worker'[v].returning)
                 /\ worker'[v].at = "report" /\ Scripted =>
                      Gives(Script, First(call, worker'[v].chunk), LastRow(call, worker'[v].chunk), worker'[v].returning)
      BY <3>1 DEF EffectInv, Holds, At
    <3> QED
      BY <3>2, <1>3 DEF Holds, At
  <2>4. ASSUME NEW m \in 1..Chunks(call), Over(m)', error' = error, outcomes'[m] = outcomes[m],
               ~Busy(w) \/ Busy(w)' \/ worker[w].chunk # m
        PROVE  /\ outcomes'[m].rows = IF call.op = "deleteWhere" THEN 0 ELSE Len(ChunkRows(call, m))
               /\ Scripted => Gives(Script, First(call, m), LastRow(call, m), outcomes'[m].returning)
    <3>1. \A v \in Workers : Busy(v) => worker[v].chunk # m
      BY <2>2, <2>4 DEF Over, Busy
    <3>2. Over(m)
      BY <2>1, <2>4, <3>1 DEF Over
    <3> QED
      BY <3>2, <2>4, <1>2 DEF EffectInv, Reported
  <2>5. ASSUME NEW m \in 1..Chunks(call), Over(m)'
        PROVE  /\ outcomes'[m].rows = IF call.op = "deleteWhere" THEN 0 ELSE Len(ChunkRows(call, m))
               /\ Scripted => Gives(Script, First(call, m), LastRow(call, m), outcomes'[m].returning)
    <3>1. ~error'
      BY <2>5 DEF Over
    <3>2. CASE Report(w)
      <4>1. PICK n \in 1..Chunks(call) : n = worker[w].chunk /\ At(w, "report")
        BY <3>2 DEF Report, BulkInv, Claims, Busy, At
      <4>2. PICK said : said = [rows |-> IF call.op = "deleteWhere" THEN 0 ELSE Len(ChunkRows(call, n)),
                                returning |-> worker[w].returning]
        OBVIOUS
      <4>3. outcomes' = [outcomes EXCEPT ![n] = said] /\ error' = error
        BY <3>2, <4>1, <4>2 DEF Report, OutcomeSlot
      <4>4. outcomes = [i \in 1..Chunks(call) |-> outcomes[i]]
        BY <1>2 DEF BulkInv, Ends
      <4>5. CASE m = n
        <5>1. outcomes'[m] = said
          BY <4>3, <4>4, <4>5
        <5>2. Scripted => Gives(Script, First(call, n), LastRow(call, n), worker[w].returning)
          BY <4>1 DEF EffectInv, Holds
        <5>3. /\ said.rows = IF call.op = "deleteWhere" THEN 0 ELSE Len(ChunkRows(call, n))
              /\ said.returning = worker[w].returning
          BY <4>2
        <5> QED
          BY <4>5, <5>1, <5>2, <5>3
      <4>6. CASE m # n
        <5>1. outcomes'[m] = outcomes[m]
          BY <4>3, <4>4, <4>6
        <5> QED
          BY <2>4, <2>5, <4>1, <4>3, <4>6, <5>1
      <4> QED
        BY <4>5, <4>6
    <3>3. CASE ~Report(w)
      <4>1. ~Catch(w)
        BY <3>1 DEF Catch
      <4>2. ~Publish(w)
        BY <3>1 DEF Publish, BulkInv, Stops
      <4>3. Check(w) \/ ExecuteFails(w) \/ CallbackThrows(w)
        BY <1>8, <3>3, <4>1, <4>2 DEF Step
      <4>4. UNCHANGED <<error, outcomes>>
        BY <4>3 DEF Check, ExecuteFails, CallbackThrows
      <4>5. ~Busy(w) \/ Busy(w)'
        <5>1. CASE Check(w)
          BY <5>1 DEF Check, Busy, At
        <5>2. CASE ExecuteFails(w) \/ CallbackThrows(w)
          <6>1. Go(w, "catch")
            BY <5>2 DEF ExecuteFails, CallbackThrows
          <6>2. worker'[w].at = "catch"
            BY <6>1, <1>2, GoesOn DEF Places
          <6> QED
            BY <6>2 DEF Busy
        <5> QED
          BY <4>3, <5>1, <5>2
      <4> QED
        BY <2>4, <2>5, <4>4, <4>5
    <3> QED
      BY <3>2, <3>3
  <2>6. Reported'
    BY <2>5, <1>1, <1>3 DEF Reported
  <2> QED
    BY <1>4, <1>5, <2>3, <2>6 DEF EffectInv
<1> QED
  BY <1>7, <1>8

(* Nothing has run, nothing is held.                                        *)
LEMMA EffectStarts == Init => EffectInv
<1> SUFFICES ASSUME Init PROVE EffectInv
  OBVIOUS
<1>1. /\ call \in Calls /\ before \in Tables /\ table = before /\ phase = "running" /\ next = 1 /\ ~error
      /\ applied = {} /\ BulkInv
  BY BulkStarts DEF Init
<1>2. \A w \in Workers : worker[w].at = IF Valid(call) /\ w \in Team THEN "check" ELSE "exit"
  <2>1. Off = [at |-> "exit", chunk |-> 0, row |-> 0, returning |-> <<>>]
    BY DEF Off, Looping
  <2> QED
    BY <2>1 DEF Init, Looping
<1>3. Sole
  <2> SUFFICES ASSUME Valid(call), WorkerCount = 1, NEW w \in Workers, ~At(w, "exit")
               PROVE  /\ w = 1 /\ (worker[w].at \in {"check", "claim", "execute", "report"} => ~error)
                      /\ Busy(w) => worker[w].chunk = next - 1
    BY DEF Sole
  <2>1. w \in Team /\ ~Busy(w)
    BY <1>2 DEF At, Busy
  <2>2. Cardinality(Workers) \in Nat /\ Workers = 1..Cardinality(Workers)
    BY BulkAssumption, FS_CardinalityType DEF BulkAssumption
  <2>3. w = 1
    BY <2>1, <2>2 DEF Team
  <2> QED
    BY <1>1, <2>1, <2>3
<1>4. Holds
  BY <1>2 DEF Holds, At
<1>5. Reported
  <2>1. Valid(call) => \A n \in 1..Chunks(call) : ~(n < next)
    <3>1. Valid(call) => Chunks(call) \in Nat
      BY <1>1, Tasks
    <3> QED
      BY <1>1, <3>1
  <2> QED
    BY <2>1 DEF Reported, Over
<1>6. Stored
  <2>1. ASSUME Scripted PROVE IsTable(table) /\ Fits(Script, call, applied, table)
    <3>1. Runs(Script, call, before, DOMAIN call.rows) /\ IsTable(before)
      BY <1>1, <2>1, ScriptRuns
    <3>2. PICK f : f = Script
      OBVIOUS
    <3>3. PICK t : t = before
      OBVIOUS
    <3>4. Fits(f, call, {}, t)
      BY <1>1, <3>1, <3>2, <3>3, NothingFits
    <3> QED
      BY <1>1, <3>1, <3>2, <3>3, <3>4
  <2> QED
    BY <1>1, <2>1 DEF Stored
<1>7. Summed
  BY <1>1 DEF Summed
<1> QED
  BY <1>3, <1>4, <1>5, <1>6, <1>7 DEF EffectInv

(* The join and the end of the transaction: the result is the outcomes', and *)
(* only a rollback changes the table.                                       *)
LEMMA ClosingKeeps ==
  ASSUME BulkInv, EffectInv, Join \/ Finish
  PROVE  EffectInv'
<1>1. UNCHANGED <<call, before, next, failed, error, worker, applied, outcomes>> /\ call \in Calls
  BY DEF Join, Finish, BulkInv, TypeOK
<1>2. /\ Script' = Script /\ Scripted' = Scripted /\ WorkerCount' = WorkerCount
      /\ Valid(call)' = Valid(call) /\ Chunks(call)' = Chunks(call) /\ PerRow(call)' = PerRow(call)
      /\ \A n : /\ ChunkRows(call, n)' = ChunkRows(call, n)
                /\ First(call, n)' = First(call, n) /\ LastRow(call, n)' = LastRow(call, n)
  BY <1>1, Same, SameScript
<1>3. Sole'
  BY <1>1, <1>2 DEF EffectInv, Sole, At, Busy
<1>4. Holds'
  BY <1>1, <1>2 DEF EffectInv, Holds, At
<1>5. Reported'
  <2>1. \A n : Over(n)' <=> Over(n)
    BY <1>1 DEF Over, Busy
  <2> QED
    BY <1>1, <1>2, <2>1 DEF EffectInv, Reported
<1>6. Aggregated' = Aggregated
  BY <1>1 DEF Aggregated
<1>7. Stored' /\ Summed'
  <2>1. CASE Join
    <3>1. phase = "running" /\ phase' = "joined" /\ UNCHANGED table
      BY <2>1 DEF Join
    <3> QED
      BY <3>1, <1>1, <1>2 DEF EffectInv, Stored, Summed
  <2>2. CASE Finish /\ result' = Aggregated /\ UNCHANGED table
    <3>1. phase # "done"
      BY <2>2 DEF Finish
    <3> QED
      BY <3>1, <2>2, <1>1, <1>2, <1>6 DEF EffectInv, Stored, Summed
  <2>3. CASE Finish /\ result' = Failure /\ table' = IF call.transactional THEN before ELSE table
    <3>1. phase # "done" /\ phase' = "done"
      BY <2>3 DEF Finish
    <3>2. ~result'.ok
      BY <2>3 DEF Failure
    <3>3. ~call.transactional => UNCHANGED table
      BY <2>3
    <3> QED
      BY <3>1, <3>2, <3>3, <1>1, <1>2 DEF EffectInv, Stored, Summed
  <2> QED
    BY <2>1, <2>2, <2>3 DEF Finish
<1> QED
  BY <1>3, <1>4, <1>5, <1>7 DEF EffectInv

(* The invariant of the effect is inductive, given the first.               *)
LEMMA EffectSteps == BulkInv /\ EffectInv /\ [Next]_vars => EffectInv'
<1> SUFFICES ASSUME BulkInv, EffectInv, [Next]_vars PROVE EffectInv'
  OBVIOUS
<1>1. ASSUME NEW w \in Workers, Step(w)
      PROVE  EffectInv'
  BY <1>1, ExecuteKeeps, OthersKeep
<1>2. CASE UNCHANGED vars
  <2>1. UNCHANGED <<call, table, before, phase, next, failed, error, worker, outcomes, result, applied>>
    BY <1>2 DEF vars
  <2>2. /\ Script' = Script /\ Scripted' = Scripted /\ WorkerCount' = WorkerCount
        /\ Valid(call)' = Valid(call) /\ Chunks(call)' = Chunks(call) /\ PerRow(call)' = PerRow(call)
        /\ \A n : /\ ChunkRows(call, n)' = ChunkRows(call, n)
                  /\ First(call, n)' = First(call, n) /\ LastRow(call, n)' = LastRow(call, n)
    BY <2>1, Same, SameScript
  <2>3. Sole'
    BY <2>1, <2>2 DEF EffectInv, Sole, At, Busy
  <2>4. Holds'
    BY <2>1, <2>2 DEF EffectInv, Holds, At
  <2>5. Reported'
    <3>1. \A n : Over(n)' <=> Over(n)
      BY <2>1 DEF Over, Busy
    <3> QED
      BY <2>1, <2>2, <3>1 DEF EffectInv, Reported
  <2>6. Stored' /\ Summed'
    <3>1. Aggregated' = Aggregated
      BY <2>1 DEF Aggregated
    <3> QED
      BY <3>1, <2>1, <2>2 DEF EffectInv, Stored, Summed
  <2> QED
    BY <2>3, <2>4, <2>5, <2>6 DEF EffectInv
<1> QED
  BY <1>1, <1>2, ClosingKeeps DEF Next

(* Whatever the interleaving of the workers: each holds and has reported    *)
(* what the rows of its chunk return one statement at a time in the order   *)
(* of the input, and the table is where the rows that have run bring it.    *)
THEOREM BulkEffect == Spec => []EffectInv
<1> QED
  BY EffectStarts, EffectSteps, BulkInvariant, PTL DEF Spec

-----------------------------------------------------------------------------
(* The outcomes add up to the input's.                                      *)
LEMMA AddsUp ==
  ASSUME BulkInv, EffectInv, phase = "done", result.ok
  PROVE  /\ call.op # "deleteWhere" => result.processed = Len(call.rows)
         /\ Scripted => result.returning = Script[Len(call.rows)].returning
<1>1. Valid(call) /\ ~error /\ call \in Calls /\ next \in Nat /\ before \in Tables
  BY DEF BulkInv, Ends, TypeOK, EffectInv, Stored
<1>2. Chunks(call) \in Nat \ {0} /\ outcomes = [n \in 1..Chunks(call) |-> outcomes[n]]
  BY <1>1, Tasks DEF BulkInv, Ends
<1>3. PICK K \in Nat \ {0} : K = Chunks(call)
  BY <1>2
<1>4. PICK all : all = outcomes
  OBVIOUS
<1>5. Len(outcomes) = K
  BY <1>2, <1>3
<1>6. PICK g : Sums(g, all, K) /\ result = g[K]
  BY <1>3, <1>4, <1>5, AggregatedLoops DEF EffectInv, Summed
<1>7. \A w \in Workers : At(w, "exit") /\ ~Busy(w)
  BY DEF BulkInv, Claims, At, Busy
<1>8. next > Chunks(call)
  <2>1. 1 \in Team /\ 1 \in Workers
    BY <1>1, TeamStarts DEF Team
  <2>2. ~failed
    BY <1>1 DEF BulkInv, Stops
  <2> QED
    BY <2>1, <2>2, <1>1, <1>7 DEF BulkInv, Stops
<1>9. ASSUME NEW n \in 1..K
      PROVE  /\ all[n].rows = IF call.op = "deleteWhere" THEN 0 ELSE Len(ChunkRows(call, n))
             /\ Scripted => Gives(Script, First(call, n), LastRow(call, n), all[n].returning)
  <2>1. Over(n)
    BY <1>1, <1>2, <1>3, <1>7, <1>8 DEF Over
  <2> QED
    BY <2>1, <1>1, <1>3, <1>4 DEF EffectInv, Reported
<1> SUFFICES ASSUME call.op # "deleteWhere"
             PROVE  /\ result.processed = Len(call.rows)
                    /\ Scripted => result.returning = Script[Len(call.rows)].returning
  BY DEF Scripted, Statements
<1>10. PICK L \in Nat : L = Len(call.rows) /\ DOMAIN call.rows = 1..L
  BY <1>1, BulkAssumption DEF BulkAssumption, CallType
<1> DEFINE Mark(n) == IF n = 0 THEN 0 ELSE LastRow(call, n)
           Sum(n)  == /\ g[n].processed = Mark(n)
                      /\ Scripted => g[n].returning = Script[Mark(n)].returning
           S == {n \in 0..K : Sum(n)}
<1>11. Mark(K) = L
  BY <1>1, <1>3, <1>10, ChunksFollow
<1>12. ASSUME NEW m \in 0..(K - 1)
       PROVE  /\ m + 1 \in 1..K /\ (m + 1) - 1 = m /\ First(call, m + 1) = Mark(m) + 1 /\ Mark(m) \in Nat
              /\ Mark(m + 1) = LastRow(call, m + 1) /\ Mark(m + 1) \in Nat
              /\ Len(ChunkRows(call, m + 1)) = Mark(m + 1) - Mark(m)
  <2>1. PICK i \in 1..K : i = m + 1 /\ i - 1 = m /\ i # 0
    BY <1>3
  <2>2. First(call, i) \in 1..L /\ LastRow(call, i) \in 1..L
        /\ Len(ChunkRows(call, i)) = LastRow(call, i) - First(call, i) + 1
    BY <1>1, <1>3, <1>10, Chunking
  <2>3. First(call, i) = Mark(m) + 1
    <3>1. CASE m = 0
      BY <3>1, <2>1, <1>1, ChunksFollow
    <3>2. CASE m # 0
      <4>1. m \in 1..K /\ m + 1 \in 1..K
        BY <3>2, <1>3
      <4> QED
        BY <4>1, <3>2, <2>1, <1>1, <1>3, ChunksFollow
    <3> QED
      BY <3>1, <3>2
  <2>4. Mark(m) \in Nat
    <3>1. CASE m = 0
      BY <3>1
    <3>2. CASE m # 0
      <4>1. m \in 1..K
        BY <3>2, <1>3
      <4>2. LastRow(call, m) \in 1..L
        BY <4>1, <1>1, <1>3, <1>10, Chunking
      <4> QED
        BY <4>2, <3>2
    <3> QED
      BY <3>1, <3>2
  <2>5. Mark(i) = LastRow(call, i)
    BY <2>1
  <2> HIDE DEF Mark
  <2>6. Mark(i) \in Nat /\ Len(ChunkRows(call, i)) = Mark(i) - Mark(m)
    BY <2>2, <2>3, <2>4, <2>5
  <2> QED
    BY <2>1, <2>3, <2>4, <2>5, <2>6
<1>13. 0 \in S
  <2>1. g[0] = Nothing
    BY <1>6 DEF Sums
  <2>2. Scripted => Script[0].returning = <<>>
    BY <1>1, ScriptRuns DEF Runs, Start
  <2> QED
    BY <1>3, <2>1, <2>2 DEF Nothing
<1>14. \A m \in 0..(K - 1) : m \in S => m + 1 \in S
  <2> SUFFICES ASSUME NEW m \in 0..(K - 1), m \in S PROVE m + 1 \in S
    OBVIOUS
  <2>1. PICK i \in 1..K : i = m + 1 /\ i - 1 = m /\ i \in 0..K
    BY <1>3
  <2>2. g[i] = WithOutcome(g[m], all[i])
    BY <1>6, <2>1 DEF Sums
  <2>3. PICK p, s : p = g[m].processed + all[i].rows /\ s = g[m].returning \o all[i].returning
    OBVIOUS
  <2>4. g[i] = [ok |-> TRUE, processed |-> p, chunks |-> g[m].chunks + 1, returning |-> s]
    BY <2>2, <2>3 DEF WithOutcome
  <2>5. g[i].processed = p /\ g[i].returning = s
    BY <2>4
  <2>6. /\ Sum(m) /\ First(call, i) = Mark(m) + 1 /\ Mark(m) \in Nat /\ Mark(i) = LastRow(call, i)
        /\ Mark(i) \in Nat /\ Len(ChunkRows(call, i)) = Mark(i) - Mark(m)
    BY <2>1, <1>12
  <2> HIDE DEF Mark
  <2>7. p = Mark(i)
    BY SMTT(60), <2>3, <2>6, <1>9
  <2>8. ASSUME Scripted PROVE s = Script[Mark(i)].returning
    <3>1. PICK x \in Nat : x = First(call, i) /\ x - 1 = Mark(m)
      BY <2>6
    <3>2. Gives(Script, x, Mark(i), all[i].returning)
      BY <1>9, <2>6, <2>8, <3>1
    <3>3. Script[Mark(i)].returning = Script[Mark(m)].returning \o all[i].returning
      <4>1. Script[Mark(i)].returning = Script[x - 1].returning \o all[i].returning
        BY <3>2, Zenon DEF Gives
      <4> QED
        BY <4>1, <3>1, Zenon
    <3>4. g[m].returning = Script[Mark(m)].returning
      BY <2>6, <2>8
    <3> QED
      BY <2>3, <3>3, <3>4, Zenon
  <2>9. Sum(i)
    BY <2>5, <2>7, <2>8
  <2> QED
    BY <2>1, <2>9
<1>15. K \in S
  <2> HIDE DEF S
  <2>1. \A n \in 0..K : n \in S
    BY <1>3, <1>13, <1>14, Upwards
  <2> QED
    BY <1>3, <2>1
<1>16. Sum(K)
  BY <1>15
<1> HIDE DEF Mark
<1> QED
  BY <1>6, <1>10, <1>11, <1>16

(* A bulk call that returns has executed every row once: the number of rows *)
(* it reports, the table and the RETURNING rows are those of one statement  *)
(* per row in the order of the input, whatever the chunk size, the number   *)
(* of workers and their interleaving.                                       *)
THEOREM BulkSucceedsWhole == Spec => []SuccessIsWhole
<1>1. BulkInv /\ EffectInv /\ EveryRowRuns => SuccessIsWhole
  <2> SUFFICES ASSUME BulkInv, EffectInv, EveryRowRuns, phase = "done", result.ok
               PROVE  /\ call.op # "deleteWhere" => result.processed = Len(call.rows)
                      /\ Comparable(call) /\ call.op \notin {"updateWhere", "deleteWhere"} =>
                           /\ table = RowByRow(call, before, DOMAIN call.rows).table
                           /\ result.returning = RowByRow(call, before, DOMAIN call.rows).returning
    BY DEF SuccessIsWhole
  <2>1. /\ call.op # "deleteWhere" => result.processed = Len(call.rows)
        /\ Scripted => result.returning = Script[Len(call.rows)].returning
    BY AddsUp
  <2>2. call \in Calls /\ call.op \in Ops /\ before \in Tables /\ applied = DOMAIN call.rows
    BY BulkAssumption DEF BulkInv, TypeOK, EffectInv, Stored, EveryRowRuns, BulkAssumption, CallType
  <2>3. ASSUME Comparable(call), call.op \notin {"updateWhere", "deleteWhere"}
        PROVE  /\ table = RowByRow(call, before, DOMAIN call.rows).table
               /\ result.returning = RowByRow(call, before, DOMAIN call.rows).returning
    <3>1. Scripted
      BY <2>2, <2>3 DEF Scripted, Statements, Ops
    <3>2. /\ Runs(Script, call, before, DOMAIN call.rows)
          /\ RowByRow(call, before, DOMAIN call.rows) = Script[Len(call.rows)]
      BY <2>2, <3>1, ScriptRuns
    <3>3. IsTable(table) /\ Fits(Script, call, DOMAIN call.rows, table)
      BY <2>2, <3>1 DEF EffectInv, Stored
    <3>4. PICK f : f = Script
      OBVIOUS
    <3>5. PICK t : t = table
      OBVIOUS
    <3>6. PICK t0 : t0 = before
      OBVIOUS
    <3>7. t = f[Len(call.rows)].table
      BY <2>2, <3>2, <3>3, <3>4, <3>5, <3>6, FitsIsLoop
    <3> QED
      BY <2>1, <3>1, <3>2, <3>4, <3>5, <3>7
  <2> QED
    BY <2>1, <2>3
<1> QED
  BY <1>1, BulkInvariant, BulkEffect, BulkRunsEveryRow, PTL

(* A bulk call that throws leaves the table it found when it is             *)
(* transactional, and otherwise what one statement per row leaves for the   *)
(* rows whose statement ran, which are whole chunks but in bulk_update.     *)
THEOREM BulkFailsClean == Spec => []FailureIsClean
<1>1. BulkInv /\ EffectInv /\ RollsBack /\ WholeChunks => FailureIsClean
  <2> SUFFICES ASSUME BulkInv, EffectInv, phase = "done", ~result.ok, ~call.transactional,
                      Comparable(call), call.op \notin {"updateWhere", "deleteWhere"}
               PROVE  table = RowByRow(call, before, applied).table
    BY DEF FailureIsClean
  <2>1. call \in Calls /\ call.op \in Ops /\ before \in Tables
    BY BulkAssumption DEF BulkInv, TypeOK, EffectInv, Stored, BulkAssumption, CallType
  <2>2. Scripted /\ call.op \in Statements
    BY <2>1 DEF Scripted, Statements, Ops
  <2>3. Runs(Script, call, before, DOMAIN call.rows) /\ IsTable(before)
    BY <2>1, <2>2, ScriptRuns
  <2>4. IsTable(table) /\ Fits(Script, call, applied, table)
    BY <2>2 DEF EffectInv, Stored
  <2>5. PICK c \in Calls : c = call
    BY <2>1
  <2>6. PICK f : f = Script
    OBVIOUS
  <2>7. PICK t : t = table
    OBVIOUS
  <2>8. PICK t0 : t0 = before
    OBVIOUS
  <2>9. PICK S : S = applied
    OBVIOUS
  <2>10. Len(c.rows) \in Nat
    BY BulkAssumption DEF BulkAssumption, CallType
  <2>11. PICK g : Reads(g, c, t0, S, Len(c.rows)) /\ RowByRow(c, t0, S) = g[Len(c.rows)]
    BY <2>10, RowByRowLoops
  <2>12. Runs(g, c, t0, S)
    BY <2>2, <2>3, <2>5, <2>8, <2>11, LoopRuns
  <2>13. t = g[Len(c.rows)].table
    BY <2>3, <2>4, <2>5, <2>6, <2>7, <2>8, <2>9, <2>12, FitsIsLoop
  <2> QED
    BY <2>5, <2>7, <2>8, <2>9, <2>11, <2>13
<1> QED
  BY <1>1, BulkInvariant, BulkEffect, BulkRollsBack, BulkWholeChunks, PTL
=============================================================================
