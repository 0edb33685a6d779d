---------------------------- MODULE RowPartition ----------------------------
(***************************************************************************)
(* How a row job is cut into one contiguous range of rows per worker       *)
(* (qx_row_pool.h, qx_row_pool_entry).  The product is widened to 64 bits  *)
(* before the division and the quotient is cast back to 32 bits; both      *)
(* conversions are part of the definitions.  U32 stands for 2^32, so that  *)
(* TLC can check the arithmetic at the edge of a scaled-down integer type. *)
(***************************************************************************)
EXTENDS Integers

CONSTANT U32   \* number of values of the code's uint32_t

ASSUME U32Assumption == U32 \in Nat \ {0}

U64 == U32 * U32

(***************************************************************************)
(* Mutants of Cut: the product kept in 32 bits; the quotient rounded up.   *)
(***************************************************************************)
CutUnwidened(rows, index, workers) == ((rows * index) % U32) \div workers
CutRoundedUp(rows, index, workers) == (rows * index + workers - 1) \div workers

\* (uint32_t)((uint64_t)rows * index / workers)
Cut(rows, index, workers) == (((rows * index) % U64) \div workers) % U32

\* Mutant of RowsOf: a closed interval, one row too many.
RowsOfClosed(rows, index, workers) ==
  Cut(rows, index, workers) .. Cut(rows, index + 1, workers)

\* The rows of the half-open range [begin, end) given to worker `index`.
RowsOf(rows, index, workers) ==
  Cut(rows, index, workers) .. (Cut(rows, index + 1, workers) - 1)

-----------------------------------------------------------------------------
(* The ranges cover 0 .. rows-1: no row of the output is left unwritten.   *)
Covers(rows, workers) ==
  UNION { RowsOf(rows, i, workers) : i \in 0 .. workers - 1 } = 0 .. rows - 1

(* The ranges are pairwise disjoint: no two workers write the same row.    *)
Disjoint(rows, workers) ==
  \A i, j \in 0 .. workers - 1 :
    i # j => RowsOf(rows, i, workers) \cap RowsOf(rows, j, workers) = {}

(* The work is balanced: two ranges differ by at most one row.             *)
Balanced(rows, workers) ==
  LET length(i) == Cut(rows, i + 1, workers) - Cut(rows, i, workers)
  IN \A i, j \in 0 .. workers - 1 : length(i) - length(j) \in -1 .. 1
=============================================================================
