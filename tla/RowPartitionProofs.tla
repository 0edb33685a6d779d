------------------------- MODULE RowPartitionProofs -------------------------
(***************************************************************************)
(* The partition of a job is exact for every row count a uint32_t can hold *)
(* and every worker count up to 2^32: no TLC bound is involved.            *)
(***************************************************************************)
EXTENDS RowPartition, TLAPS

(* Integer division, stated by its defining inequalities.                  *)
LEMMA DivBounds ==
  ASSUME NEW a \in Nat, NEW d \in Nat \ {0}
  PROVE  /\ a \div d \in Nat
         /\ d * (a \div d) <= a
         /\ a < d * (a \div d) + d
  OBVIOUS

(* A quotient is determined by those inequalities.                         *)
LEMMA DivUnique ==
  ASSUME NEW a \in Nat, NEW d \in Nat \ {0}, NEW q \in Nat,
         d * q <= a, a < d * q + d
  PROVE  a \div d = q
  OBVIOUS

LEMMA ProductMonotone ==
  ASSUME NEW a \in Nat, NEW b \in Nat, NEW c \in Nat, a <= b
  PROVE  a * c <= b * c /\ c * a <= c * b
  OBVIOUS

LEMMA ModIdentity ==
  ASSUME NEW a \in Nat, NEW m \in Nat \ {0}, a < m
  PROVE  a % m = a
  OBVIOUS

(* With the product widened to 64 bits neither conversion loses anything.  *)
LEMMA CutIsQuotient ==
  ASSUME NEW rows \in 0 .. (U32 - 1), NEW workers \in 1 .. U32,
         NEW index \in 0 .. workers
  PROVE  /\ Cut(rows, index, workers) = (rows * index) \div workers
         /\ Cut(rows, index, workers) \in 0 .. rows
  <1>1. U32 \in Nat \ {0}
    BY U32Assumption
  <1>2. rows \in Nat /\ index \in Nat /\ workers \in Nat \ {0} /\ rows * index \in Nat
    BY <1>1
  <1>3. rows * index <= rows * workers
    BY <1>2, ProductMonotone
  <1>4. rows * workers <= rows * U32
    BY <1>1, <1>2, ProductMonotone
  <1>5. rows * U32 < U32 * U32
    BY <1>1, <1>2
  <1>6. U64 \in Nat \ {0} /\ rows * index < U64
    BY <1>1, <1>2, <1>3, <1>4, <1>5 DEF U64
  <1>7. (rows * index) % U64 = rows * index
    BY <1>2, <1>6, ModIdentity
  <1> DEFINE q == (rows * index) \div workers
  <1>8. q \in Nat /\ workers * q <= rows * index
    BY <1>2, DivBounds
  <1>9. q <= rows
    <2>1. SUFFICES ASSUME q >= rows + 1 PROVE FALSE
      BY <1>2, <1>8
    <2>2. workers * (rows + 1) <= workers * q
      BY <1>2, <1>8, <2>1, ProductMonotone
    <2>3. workers * (rows + 1) = rows * workers + workers
      BY <1>2
    <2> QED
      BY <1>2, <1>3, <1>8, <2>2, <2>3
  <1>10. q % U32 = q
    BY <1>1, <1>2, <1>8, <1>9, ModIdentity
  <1> QED
    BY <1>2, <1>7, <1>8, <1>9, <1>10 DEF Cut

(* Cut points never decrease from one worker to a later one.               *)
LEMMA CutMonotone ==
  ASSUME NEW rows \in 0 .. (U32 - 1), NEW workers \in 1 .. U32,
         NEW i \in 0 .. workers, NEW j \in 0 .. workers, i <= j
  PROVE  Cut(rows, i, workers) <= Cut(rows, j, workers)
  <1>1. U32 \in Nat \ {0}
    BY U32Assumption
  <1>2. rows \in Nat /\ i \in Nat /\ j \in Nat /\ workers \in Nat \ {0}
    BY <1>1
  <1>3. rows * i <= rows * j /\ rows * i \in Nat /\ rows * j \in Nat
    BY <1>2, ProductMonotone
  <1> DEFINE p == (rows * i) \div workers
             q == (rows * j) \div workers
  <1>4. p \in Nat /\ q \in Nat /\ workers * p <= rows * i /\ rows * j < workers * q + workers
    BY <1>2, <1>3, DivBounds
  <1>5. p <= q
    <2>1. SUFFICES ASSUME p >= q + 1 PROVE FALSE
      BY <1>4
    <2>2. workers * (q + 1) <= workers * p
      BY <1>2, <1>4, <2>1, ProductMonotone
    <2>3. workers * (q + 1) = workers * q + workers
      BY <1>2, <1>4
    <2> QED
      BY <1>2, <1>3, <1>4, <2>2, <2>3
  <1> QED
    BY <1>5, CutIsQuotient

(***************************************************************************)
(* No two workers of a job share a row, so the unsynchronized stores of    *)
(* the callbacks never meet.                                               *)
(***************************************************************************)
THEOREM RangesDisjoint ==
  ASSUME NEW rows \in 0 .. (U32 - 1), NEW workers \in 1 .. U32
  PROVE  Disjoint(rows, workers)
  <1>1. U32 \in Nat \ {0}
    BY U32Assumption
  <1> SUFFICES ASSUME NEW i \in 0 .. workers - 1, NEW j \in 0 .. workers - 1, i # j
               PROVE  RowsOf(rows, i, workers) \cap RowsOf(rows, j, workers) = {}
    BY DEF Disjoint
  <1>2. \A k \in 0 .. workers : Cut(rows, k, workers) \in Nat
    BY <1>1, CutIsQuotient
  <1>3. CASE i < j
    <2>1. Cut(rows, i + 1, workers) <= Cut(rows, j, workers)
      BY <1>1, <1>3, CutMonotone
    <2>2. Cut(rows, i, workers) \in Nat /\ Cut(rows, i + 1, workers) \in Nat
          /\ Cut(rows, j, workers) \in Nat /\ Cut(rows, j + 1, workers) \in Nat
      BY <1>1, <1>2
    <2> QED
      BY <2>1, <2>2 DEF RowsOf
  <1>4. CASE j < i
    <2>1. Cut(rows, j + 1, workers) <= Cut(rows, i, workers)
      BY <1>1, <1>4, CutMonotone
    <2>2. Cut(rows, i, workers) \in Nat /\ Cut(rows, i + 1, workers) \in Nat
          /\ Cut(rows, j, workers) \in Nat /\ Cut(rows, j + 1, workers) \in Nat
      BY <1>1, <1>2
    <2> QED
      BY <2>1, <2>2 DEF RowsOf
  <1> QED
    BY <1>1, <1>3, <1>4

(***************************************************************************)
(* Every row of a job falls in the range of some worker: the owner of row  *)
(* r is ((r + 1) * workers - 1) \div rows.                                 *)
(***************************************************************************)
THEOREM RangesCover ==
  ASSUME NEW rows \in 0 .. (U32 - 1), NEW workers \in 1 .. U32
  PROVE  Covers(rows, workers)
  <1>1. U32 \in Nat \ {0}
    BY U32Assumption
  <1>2. rows \in Nat /\ workers \in Nat \ {0}
    BY <1>1
  <1>3. ASSUME NEW i \in 0 .. workers - 1
        PROVE  RowsOf(rows, i, workers) \subseteq 0 .. rows - 1
    <2>1. Cut(rows, i, workers) \in 0 .. rows /\ Cut(rows, i + 1, workers) \in 0 .. rows
      BY <1>2, CutIsQuotient
    <2> QED
      BY <1>2, <2>1 DEF RowsOf
  <1>4. ASSUME NEW r \in 0 .. rows - 1
        PROVE  \E i \in 0 .. workers - 1 : r \in RowsOf(rows, i, workers)
    <2> DEFINE a == (r + 1) * workers - 1
               i == a \div rows
    <2>1. rows \in Nat \ {0} /\ r \in Nat /\ r + 1 \in Nat /\ r + 1 <= rows
      BY <1>2
    <2>2. (r + 1) * workers \in Nat /\ (r + 1) * workers = r * workers + workers
          /\ r * workers \in Nat
      BY <1>2, <2>1
    <2>3. a \in Nat
      BY <1>2, <2>2
    <2>4. i \in Nat /\ rows * i <= a /\ a < rows * i + rows
      BY <2>1, <2>3, DivBounds
    <2>5. i < workers
      <3>1. SUFFICES ASSUME i >= workers PROVE FALSE
        BY <1>2, <2>4
      <3>2. rows * workers <= rows * i
        BY <1>2, <2>1, <2>4, <3>1, ProductMonotone
      <3>3. (r + 1) * workers <= rows * workers
        BY <1>2, <2>1, ProductMonotone
      <3>4. rows * workers \in Nat /\ rows * i \in Nat
        BY <1>2, <2>4
      <3> QED
        BY <2>2, <2>4, <3>2, <3>3, <3>4
    <2> HIDE DEF i
    <2>6. i \in 0 .. workers - 1 /\ i \in 0 .. workers /\ i + 1 \in 0 .. workers
      BY <1>2, <2>4, <2>5
    <2>7. rows * i \in Nat /\ rows * (i + 1) \in Nat /\ rows * (i + 1) = rows * i + rows
      BY <1>2, <2>4
    <2> DEFINE p == (rows * i) \div workers
               q == (rows * (i + 1)) \div workers
    <2>8. p \in Nat /\ q \in Nat /\ workers * p <= rows * i
          /\ rows * (i + 1) < workers * q + workers
      BY <1>2, <2>7, DivBounds
    <2> HIDE DEF p, q
    <2>9. workers * (r + 1) = (r + 1) * workers /\ workers * p \in Nat /\ workers * q \in Nat
      BY <1>2, <2>1, <2>8
    <2>10. p <= r
      <3>1. SUFFICES ASSUME r + 1 <= p PROVE FALSE
        BY <2>1, <2>8
      <3>2. workers * (r + 1) <= workers * p
        BY <1>2, <2>1, <2>8, <3>1, ProductMonotone
      <3> QED
        BY <2>2, <2>3, <2>4, <2>7, <2>8, <2>9, <3>2
    <2>11. r + 1 <= q
      <3>1. SUFFICES ASSUME q + 1 <= r + 1 PROVE FALSE
        BY <2>1, <2>8
      <3>2. workers * (q + 1) <= workers * (r + 1)
        BY <1>2, <2>1, <2>8, <3>1, ProductMonotone
      <3>3. workers * (q + 1) = workers * q + workers
        BY <1>2, <2>8
      <3> QED
        BY <1>2, <2>2, <2>3, <2>4, <2>7, <2>8, <2>9, <3>2, <3>3
    <2>12. Cut(rows, i, workers) = p /\ Cut(rows, i + 1, workers) = q
      BY <2>6, CutIsQuotient DEF p, q
    <2>13. r \in RowsOf(rows, i, workers)
      BY <2>1, <2>8, <2>10, <2>11, <2>12 DEF RowsOf
    <2> QED
      BY <2>6, <2>13
  <1> QED
    BY <1>3, <1>4 DEF Covers

(***************************************************************************)
(* Every range has rows \div workers rows or one more, so no worker holds  *)
(* up the join by more than one row.                                       *)
(***************************************************************************)
THEOREM RangesBalanced ==
  ASSUME NEW rows \in 0 .. (U32 - 1), NEW workers \in 1 .. U32
  PROVE  Balanced(rows, workers)
  <1>1. U32 \in Nat \ {0}
    BY U32Assumption
  <1>2. rows \in Nat /\ workers \in Nat \ {0}
    BY <1>1
  <1> DEFINE b == rows \div workers
             length(i) == Cut(rows, i + 1, workers) - Cut(rows, i, workers)
  <1>3. b \in Nat /\ workers * b <= rows /\ rows < workers * b + workers
    BY <1>2, DivBounds
  <1> HIDE DEF b
  <1>4. ASSUME NEW i \in 0 .. workers - 1
        PROVE  length(i) \in b .. b + 1
    <2>1. i \in Nat /\ i \in 0 .. workers /\ i + 1 \in 0 .. workers
      BY <1>2
    <2>2. rows * i \in Nat /\ rows * (i + 1) \in Nat /\ rows * (i + 1) = rows * i + rows
      BY <1>2, <2>1
    <2> DEFINE p == (rows * i) \div workers
               q == (rows * (i + 1)) \div workers
    <2>3. /\ p \in Nat /\ workers * p <= rows * i /\ rows * i < workers * p + workers
          /\ q \in Nat /\ workers * q <= rows * (i + 1)
          /\ rows * (i + 1) < workers * q + workers
      BY <1>2, <2>2, DivBounds
    <2>4. Cut(rows, i, workers) = p /\ Cut(rows, i + 1, workers) = q
      BY <2>1, CutIsQuotient
    <2> HIDE DEF p, q
    <2>5. workers * p \in Nat /\ workers * q \in Nat /\ workers * b \in Nat
      BY <1>2, <1>3, <2>3
    <2>6. q <= p + b + 1
      <3>1. SUFFICES ASSUME p + b + 2 <= q PROVE FALSE
        BY <1>3, <2>3
      <3>2. workers * (p + b + 2) <= workers * q
        BY <1>2, <1>3, <2>3, <3>1, ProductMonotone
      <3>3. workers * (p + b + 2) = workers * p + workers * b + workers + workers
        BY <1>2, <1>3, <2>3
      <3> QED
        BY <1>2, <1>3, <2>2, <2>3, <2>5, <3>2, <3>3
    <2>7. p + b <= q
      <3>1. SUFFICES ASSUME q + 1 <= p + b PROVE FALSE
        BY <1>3, <2>3
      <3>2. workers * (q + 1) <= workers * (p + b)
        BY <1>2, <1>3, <2>3, <3>1, ProductMonotone
      <3>3. workers * (q + 1) = workers * q + workers
            /\ workers * (p + b) = workers * p + workers * b
        BY <1>2, <1>3, <2>3
      <3> QED
        BY <1>2, <1>3, <2>2, <2>3, <2>5, <3>2, <3>3
    <2> QED
      BY <1>3, <2>3, <2>4, <2>6, <2>7
  <1> HIDE DEF length
  <1>5. \A i, j \in 0 .. workers - 1 : length(i) - length(j) \in -1 .. 1
    BY <1>3, <1>4
  <1> QED
    BY <1>5 DEF Balanced, length
=============================================================================
