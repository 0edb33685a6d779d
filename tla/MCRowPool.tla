----------------------------- MODULE MCRowPool -----------------------------
(***************************************************************************)
(* Model-checking instances of RowPool: the configurations give constants  *)
(* their values.  Three workers and jobs of two rows (one worker has an    *)
(* empty range) and of U32 - 1 rows (the arithmetic edge); two contexts,   *)
(* so that a context kept from an earlier job is noticed.                  *)
(***************************************************************************)
EXTENDS RowPool
=============================================================================
