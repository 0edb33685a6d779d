------------------------------ MODULE RowCuts -------------------------------
(***************************************************************************)
(* The jobs that a pool may be asked to cut: every row count that its      *)
(* integer type can hold, for every number of workers.  A behaviour walks  *)
(* over all the pairs.                                                     *)
(***************************************************************************)
EXTENDS RowPartition

CONSTANT MaxWorkers   \* bound: the code allows 64

ASSUME WorkersAssumption == MaxWorkers \in Nat /\ 2 <= MaxWorkers /\ MaxWorkers <= U32

VARIABLES rows, workers

cutVars == <<rows, workers>>

CutInit == rows = 1 /\ workers = 2

MoreRows == rows < U32 - 1 /\ rows' = rows + 1 /\ UNCHANGED workers

MoreWorkers == workers < MaxWorkers /\ workers' = workers + 1 /\ UNCHANGED rows

CutNext == MoreRows \/ MoreWorkers

CutSpec == CutInit /\ [][CutNext]_cutVars

-----------------------------------------------------------------------------
(* Every row of a job is given to exactly one worker, up to the largest    *)
(* row count of the integer type (qx_row_pool_entry).                      *)
RowsPartitioned == Covers(rows, workers) /\ Disjoint(rows, workers)
=============================================================================
