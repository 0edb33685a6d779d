------------------------------ MODULE RowPool ------------------------------
(***************************************************************************)
(* The persistent row pool of qx_row_pool.h (Windows build): a coordinator *)
(* that creates the pool, runs jobs and destroys it, and NWorkers threads. *)
(* One CRITICAL_SECTION guards the shared fields; workers sleep on the     *)
(* condition variable `ready`, the coordinator on `drained`.  A step of    *)
(* the model is one thread's work between two points where another thread  *)
(* can observe it: entering the critical section, everything done inside   *)
(* it up to leaving or sleeping, the callback outside it.                  *)
(*                                                                         *)
(* Condition variables follow the documented Windows semantics: sleeping   *)
(* releases the lock atomically, a wake-up with no sleeper is lost, and a  *)
(* sleeper may wake spuriously; whoever wakes must re-enter the lock.      *)
(***************************************************************************)
EXTENDS RowPartition, FiniteSets

CONSTANTS
  NWorkers,    \* the worker count given to qx_row_pool_create, 2..64 in the code
  RowCounts,   \* the row counts jobs may have
  Contexts,    \* the (fn, context) pairs a caller may lend to a job
  NULL,        \* the cleared fn and context
  MaxJobs      \* bound: jobs accepted by one pool before it is destroyed

ASSUME NWorkersAssumption == NWorkers \in Nat /\ NWorkers >= 2 /\ NWorkers <= U32
ASSUME RowCountsAssumption == RowCounts \subseteq 1 .. (U32 - 1)
ASSUME NullAssumption == NULL \notin Contexts
ASSUME MaxJobsAssumption == MaxJobs \in Nat

Workers == 0 .. NWorkers - 1
Coordinator == NWorkers         \* an identity no worker has
Nobody == NWorkers + 1

VARIABLES
  lock,        \* who is inside the critical section
  rows, context, remaining, failed, generation, stopping,  \* pool fields
  created,     \* pool->created: threads to join
  cpc,         \* where the coordinator is in create, run or destroy
  joined,      \* threads destroy has waited for
  argRows, argContext,  \* the arguments of the current run
  outcome,     \* what the last run returned
  wpc,         \* where each worker is in qx_row_pool_entry
  seen,        \* its local `seen`
  begin, end, borrowed, \* its locals begin, end and fn/context
  result       \* its local `result` (nonzero: the callback failed)

pool == <<rows, context, remaining, failed, generation, stopping>>
client == <<argRows, argContext, outcome>>
locals == <<seen, begin, end, borrowed, result>>
vars == <<lock, pool, created, cpc, joined, client, wpc, locals>>

WorkerStates ==
  {"unborn", "enter", "check", "asleep", "call", "reenter", "finish", "exited"}
CoordinatorStates ==
  {"none", "create", "idle", "run", "publish", "drain", "drain_asleep",
   "drain_enter", "destroy", "stop", "join"}
Draining == {"drain", "drain_asleep", "drain_enter"}
Outcomes == {"none", "ok", "failed", "invalid"}

\* No pool exists before the first create.
Init ==
  /\ lock = Nobody
  /\ rows = 0 /\ context = NULL /\ remaining = 0 /\ failed = FALSE
  /\ generation = 0 /\ stopping = FALSE /\ created = 0
  /\ cpc = "none" /\ joined = 0
  /\ argRows = 0 /\ argContext = NULL /\ outcome = "none"
  /\ wpc = [w \in Workers |-> "unborn"]
  /\ seen = [w \in Workers |-> 0]
  /\ begin = [w \in Workers |-> 0] /\ end = [w \in Workers |-> 0]
  /\ borrowed = [w \in Workers |-> NULL]
  /\ result = [w \in Workers |-> 0]

-----------------------------------------------------------------------------
(***************************************************************************)
(* Condition variables.                                                    *)
(***************************************************************************)
WakeOneWorker(pcs) ==           \* mutant: WakeConditionVariable(&pool->ready)
  IF \E w \in Workers : pcs[w] = "asleep"
  THEN [pcs EXCEPT ![CHOOSE w \in Workers : pcs[w] = "asleep"] = "enter"]
  ELSE pcs

\* WakeAllConditionVariable(&pool->ready)
WakeReady(pcs) ==
  [w \in Workers |-> IF pcs[w] = "asleep" THEN "enter" ELSE pcs[w]]

WakeDrainedNever(left, where) == where   \* mutant: the last worker does not wake

\* if (!pool->remaining) WakeConditionVariable(&pool->drained)
WakeDrained(left, where) ==
  IF left = 0 /\ where = "drain_asleep" THEN "drain_enter" ELSE where

-----------------------------------------------------------------------------
(***************************************************************************)
(* qx_row_pool_entry: worker w.                                            *)
(***************************************************************************)
\* EnterCriticalSection, at the start, after a sleep and after the callback.
WorkerEnter(w) ==
  /\ wpc[w] \in {"enter", "reenter"}
  /\ lock = Nobody
  /\ lock' = w
  /\ wpc' = [wpc EXCEPT ![w] = IF @ = "enter" THEN "check" ELSE "finish"]
  /\ UNCHANGED <<pool, created, cpc, joined, client, locals>>

\* SleepConditionVariableCS(&pool->ready): nothing new and not stopping.
WorkerSleep(w) ==
  /\ wpc[w] = "check"
  /\ ~stopping /\ generation = seen[w]
  /\ lock' = Nobody
  /\ wpc' = [wpc EXCEPT ![w] = "asleep"]
  /\ UNCHANGED <<pool, created, cpc, joined, client, locals>>

WorkerWakeSpuriously(w) ==
  /\ wpc[w] = "asleep"
  /\ wpc' = [wpc EXCEPT ![w] = "enter"]
  /\ UNCHANGED <<lock, pool, created, cpc, joined, client, locals>>

Fresh(w) == generation # seen[w]

\* Mutant of RangeEnd: the end is rounded up while the begin is rounded down.
RangeEndRoundedUp(w) == CutRoundedUp(rows, w + 1, NWorkers)
RangeEnd(w) == Cut(rows, w + 1, NWorkers)

\* A new generation: copy the job, leave the lock; an empty range calls nothing.
WorkerTake(w) ==
  /\ wpc[w] = "check"
  /\ ~stopping /\ Fresh(w)
  /\ seen' = [seen EXCEPT ![w] = generation]
  /\ begin' = [begin EXCEPT ![w] = Cut(rows, w, NWorkers)]
  /\ end' = [end EXCEPT ![w] = RangeEnd(w)]
  /\ borrowed' = [borrowed EXCEPT ![w] = context]
  /\ result' = [result EXCEPT ![w] = 0]
  /\ lock' = Nobody
  /\ wpc' = [wpc EXCEPT ![w] = IF begin'[w] # end'[w] THEN "call" ELSE "reenter"]
  /\ UNCHANGED <<pool, created, cpc, joined, client>>

\* fn(context, begin, end) returns, with or without success.
WorkerReturn(w) ==
  /\ wpc[w] = "call"
  /\ \E r \in {0, 1} : result' = [result EXCEPT ![w] = r]
  /\ wpc' = [wpc EXCEPT ![w] = "reenter"]
  /\ UNCHANGED <<lock, pool, created, cpc, joined, client, seen, begin, end, borrowed>>

\* Report the result and count down; the loop then re-checks under the lock.
WorkerFinish(w) ==
  /\ wpc[w] = "finish"
  /\ failed' = (failed \/ result[w] # 0)
  /\ remaining' = remaining - 1
  /\ cpc' = WakeDrained(remaining', cpc)
  /\ wpc' = [wpc EXCEPT ![w] = "check"]
  /\ begin' = [begin EXCEPT ![w] = 0] /\ end' = [end EXCEPT ![w] = 0]
  /\ borrowed' = [borrowed EXCEPT ![w] = NULL]
  /\ result' = [result EXCEPT ![w] = 0]
  /\ UNCHANGED <<lock, rows, context, generation, stopping, created, joined, client, seen>>

\* if (pool->stopping) break: leave the lock and return from the thread.
WorkerExit(w) ==
  /\ wpc[w] = "check"
  /\ stopping
  /\ lock' = Nobody
  /\ wpc' = [wpc EXCEPT ![w] = "exited"]
  /\ UNCHANGED <<pool, created, cpc, joined, client, locals>>

-----------------------------------------------------------------------------
(***************************************************************************)
(* The coordinator: qx_row_pool_create.  A failed allocation or lock       *)
(* initialization returns NULL and leaves no pool: a stuttering step.      *)
(***************************************************************************)
CreatePool ==
  /\ cpc = "none"
  /\ cpc' = "create"
  /\ rows' = 0 /\ context' = NULL /\ remaining' = 0 /\ failed' = FALSE
  /\ generation' = 0 /\ stopping' = FALSE /\ created' = 0
  /\ joined' = 0
  /\ wpc' = [w \in Workers |-> "unborn"]
  /\ seen' = [w \in Workers |-> 0]
  /\ UNCHANGED <<lock, client, begin, end, borrowed, result>>

\* CreateThread succeeds: the worker may run before the next one is created.
CreateThread ==
  /\ cpc = "create" /\ created < NWorkers
  /\ wpc' = [wpc EXCEPT ![created] = "enter"]
  /\ created' = created + 1
  /\ UNCHANGED <<lock, pool, cpc, joined, client, locals>>

\* CreateThread fails: destroy what was created, return NULL.
CreateThreadFails ==
  /\ cpc = "create" /\ created < NWorkers
  /\ cpc' = "destroy"
  /\ UNCHANGED <<lock, pool, created, joined, client, wpc, locals>>

CreateReturn ==
  /\ cpc = "create" /\ created = NWorkers
  /\ cpc' = "idle"
  /\ UNCHANGED <<lock, pool, created, joined, client, wpc, locals>>

-----------------------------------------------------------------------------
(***************************************************************************)
(* The coordinator: qx_row_pool_run.                                       *)
(***************************************************************************)
\* if (!pool || !rows || !fn): refused before any field is touched.
RunInvalid ==
  /\ cpc \in {"none", "idle"}
  /\ outcome' = "invalid"
  /\ UNCHANGED <<lock, pool, created, cpc, joined, argRows, argContext, wpc, locals>>

RunCall(n, c) ==
  /\ cpc = "idle"
  /\ generation < MaxJobs
  /\ argRows' = n /\ argContext' = c /\ outcome' = "none"
  /\ cpc' = "run"
  /\ UNCHANGED <<lock, pool, created, joined, wpc, locals>>

\* EnterCriticalSection, in run, after a sleep on `drained` and in destroy.
CoordinatorEnter ==
  /\ cpc \in {"run", "drain_enter", "destroy"}
  /\ lock = Nobody
  /\ lock' = Coordinator
  /\ cpc' = CASE cpc = "run" -> "publish"
              [] cpc = "drain_enter" -> "drain"
              [] cpc = "destroy" -> "stop"
  /\ UNCHANGED <<pool, created, joined, client, wpc, locals>>

FailedKept == failed      \* mutant: an earlier job's failure is not cleared
FailedReset == FALSE      \* pool->failed = 0

\* Publish the job under the lock and wake the workers.
RunPublish ==
  /\ cpc = "publish"
  /\ rows' = argRows /\ context' = argContext
  /\ remaining' = NWorkers
  /\ failed' = FailedReset
  /\ generation' = generation + 1
  /\ wpc' = WakeReady(wpc)
  /\ cpc' = "drain"
  /\ UNCHANGED <<lock, stopping, created, joined, client, locals>>

\* SleepConditionVariableCS(&pool->drained) while workers remain.
RunSleep ==
  /\ cpc = "drain" /\ remaining > 0
  /\ lock' = Nobody
  /\ cpc' = "drain_asleep"
  /\ UNCHANGED <<pool, created, joined, client, wpc, locals>>

RunWakeSpuriously ==
  /\ cpc = "drain_asleep"
  /\ cpc' = "drain_enter"
  /\ UNCHANGED <<lock, pool, created, joined, client, wpc, locals>>

DrainedAtOne == remaining <= 1   \* mutant: the drain loop ends one worker early
Drained == remaining = 0

\* Every range has drained: clear the borrowed pointers, report.
RunReturn ==
  /\ cpc = "drain" /\ Drained
  /\ outcome' = IF failed THEN "failed" ELSE "ok"
  /\ context' = NULL
  /\ lock' = Nobody
  /\ cpc' = "idle"
  /\ UNCHANGED <<rows, remaining, failed, generation, stopping, created, joined,
                 argRows, argContext, wpc, locals>>

-----------------------------------------------------------------------------
(***************************************************************************)
(* The coordinator: qx_row_pool_destroy.                                   *)
(***************************************************************************)
DestroyCall ==
  /\ cpc = "idle"
  /\ cpc' = "destroy"
  /\ UNCHANGED <<lock, pool, created, joined, client, wpc, locals>>

\* WakeAllConditionVariable(&pool->ready)
WakeStopped(pcs) == WakeReady(pcs)

DestroyStop ==
  /\ cpc = "stop"
  /\ stopping' = TRUE
  /\ wpc' = WakeStopped(wpc)
  /\ lock' = Nobody
  /\ cpc' = "join"
  /\ UNCHANGED <<rows, context, remaining, failed, generation, created, joined, client, locals>>

\* WaitForSingleObject(worker[joined].thread) returns once that thread has exited.
DestroyJoin ==
  /\ cpc = "join" /\ joined < created
  /\ wpc[joined] = "exited"
  /\ joined' = joined + 1
  /\ UNCHANGED <<lock, pool, created, cpc, client, wpc, locals>>

AllJoinedButLast == joined + 1 >= created  \* mutant: off by one in the join loop
AllJoined == joined = created

\* DeleteCriticalSection and free: from here on there is no pool.
DestroyFree ==
  /\ cpc = "join" /\ AllJoined
  /\ cpc' = "none"
  /\ UNCHANGED <<lock, pool, created, joined, client, wpc, locals>>

-----------------------------------------------------------------------------
WorkerStep(w) ==
  \/ WorkerEnter(w) \/ WorkerSleep(w) \/ WorkerWakeSpuriously(w) \/ WorkerTake(w)
  \/ WorkerReturn(w) \/ WorkerFinish(w) \/ WorkerExit(w)

CoordinatorStep ==
  \/ CreatePool \/ CreateThread \/ CreateThreadFails \/ CreateReturn
  \/ RunInvalid \/ CoordinatorEnter \/ RunPublish \/ RunSleep \/ RunWakeSpuriously
  \/ RunReturn \/ DestroyCall \/ DestroyStop \/ DestroyJoin \/ DestroyFree
  \/ \E n \in RowCounts, c \in Contexts : RunCall(n, c)

Next == CoordinatorStep \/ \E w \in Workers : WorkerStep(w)

Spec == Init /\ [][Next]_vars

(***************************************************************************)
(* Fairness.  A thread that can run eventually runs (weak fairness of each *)
(* step), a thread contending for the critical section is not passed over  *)
(* forever (strong fairness of entering it), and callbacks return, which   *)
(* qx_moe_rows_run does after finitely many rows.  Nothing obliges the     *)
(* caller to create, run or destroy, and no spurious wake-up is owed.      *)
(***************************************************************************)
Fairness ==
  /\ \A w \in Workers :
       /\ SF_vars(WorkerEnter(w))
       /\ WF_vars(WorkerSleep(w) \/ WorkerTake(w) \/ WorkerReturn(w)
                  \/ WorkerFinish(w) \/ WorkerExit(w))
  /\ SF_vars(CoordinatorEnter)
  /\ WF_vars(CreateThread \/ CreateReturn \/ RunPublish \/ RunSleep \/ RunReturn
             \/ DestroyStop \/ DestroyJoin \/ DestroyFree)

FairSpec == Spec /\ Fairness

-----------------------------------------------------------------------------
Span(w) == begin[w] .. (end[w] - 1)

\* Type invariant of the pool's fields, the coordinator and the workers.
TypeOK ==
  /\ lock \in Workers \cup {Coordinator, Nobody}
  /\ rows \in 0 .. (U32 - 1)
  /\ context \in Contexts \cup {NULL}
  /\ remaining \in 0 .. NWorkers
  /\ failed \in BOOLEAN /\ stopping \in BOOLEAN
  /\ generation \in 0 .. MaxJobs
  /\ created \in 0 .. NWorkers /\ joined \in 0 .. NWorkers
  /\ cpc \in CoordinatorStates
  /\ argRows \in 0 .. (U32 - 1)
  /\ argContext \in Contexts \cup {NULL}
  /\ outcome \in Outcomes
  /\ wpc \in [Workers -> WorkerStates]
  /\ seen \in [Workers -> 0 .. MaxJobs]
  /\ begin \in [Workers -> 0 .. (U32 - 1)] /\ end \in [Workers -> 0 .. (U32 - 1)]
  /\ borrowed \in [Workers -> Contexts \cup {NULL}]
  /\ result \in [Workers -> {0, 1}]

(***************************************************************************)
(* The borrowed context is used only while it is lent: whenever a callback *)
(* runs, the run call that lent its context is still waiting for it.  This *)
(* is what lets qx_packed_expert_matvec_mode release or free the slice as  *)
(* soon as run returns ("run joins every reader before the coordinator     *)
(* releases the borrowed slice").                                          *)
(***************************************************************************)
NoLateReader ==
  \A w \in Workers :
    wpc[w] = "call" => cpc \in Draining /\ borrowed[w] = argContext

(***************************************************************************)
(* No wake-up is lost: a sleeping worker has nothing to do (it has seen    *)
(* the current generation and the pool is not stopping), and the           *)
(* coordinator sleeps only while some worker still has to report.          *)
(***************************************************************************)
NoLostWakeup ==
  /\ \A w \in Workers : wpc[w] = "asleep" => seen[w] = generation /\ ~stopping
  /\ cpc = "drain_asleep" => remaining > 0

(***************************************************************************)
(* Callbacks that run at the same time own disjoint rows, so the           *)
(* unsynchronized stores to output[row] in qx_moe_rows_run do not race.    *)
(***************************************************************************)
DisjointWriters ==
  \A w, v \in Workers :
    w # v /\ wpc[w] = "call" /\ wpc[v] = "call" => Span(w) \cap Span(v) = {}

(***************************************************************************)
(* The pool is freed only when no thread can still touch it: after         *)
(* destroy, or after a create that failed half-way, every thread that was  *)
(* created has exited.                                                     *)
(***************************************************************************)
NoUseAfterFree ==
  cpc = "none" => \A w \in Workers : wpc[w] \in {"unborn", "exited"}

-----------------------------------------------------------------------------
(***************************************************************************)
(* The inductive strengthening of the invariants above: who owns the lock, *)
(* which threads exist, and what every worker can be doing in each phase   *)
(* of the coordinator.                                                     *)
(***************************************************************************)
LockOwner ==
  /\ \A w \in Workers : wpc[w] \in {"check", "finish"} <=> lock = w
  /\ cpc \in {"publish", "drain", "stop"} <=> lock = Coordinator

\* Exactly the created threads exist.
Born == \A w \in Workers : wpc[w] = "unborn" <=> w >= created

\* Worker w has nothing of the current generation left to do.
Quiet(w) == seen[w] = generation /\ wpc[w] \in {"enter", "check", "asleep"}

\* Worker w has not taken the published job yet, but is on its way to it.
Waiting(w) == seen[w] = generation - 1 /\ wpc[w] \in {"enter", "check"}

\* Worker w has taken the published job and not reported yet.
Working(w) ==
  /\ seen[w] = generation
  /\ wpc[w] \in {"call", "reenter", "finish"}
  /\ borrowed[w] = argContext
  /\ begin[w] = Cut(rows, w, NWorkers) /\ end[w] = Cut(rows, w + 1, NWorkers)
  /\ wpc[w] = "call" => begin[w] # end[w]

\* The workers that still owe a report on the current generation.
Pending == { w \in Workers : seen[w] # generation \/ wpc[w] \in {"call", "reenter", "finish"} }

(***************************************************************************)
(* While a job drains, the pool holds its arguments, every worker is       *)
(* waiting for it, working on it or done with it, `remaining` counts those *)
(* that owe a report, and the coordinator sleeps only if there are some.   *)
(***************************************************************************)
DrainInv ==
  cpc \in Draining =>
    /\ rows = argRows /\ context = argContext
    /\ remaining = Cardinality(Pending)
    /\ \A w \in Workers : Waiting(w) \/ Working(w) \/ Quiet(w)
    /\ cpc = "drain_asleep" => remaining > 0

\* Between jobs, and until destroy is under way, the created workers are quiet.
QuietInv ==
  cpc \in {"create", "idle", "run", "publish", "destroy", "stop"} =>
    \A w \in Workers : w < created => Quiet(w)

\* Once stopping is set nobody sleeps, and the joined threads have exited.
JoinInv ==
  cpc = "join" =>
    /\ joined <= created
    /\ \A w \in Workers :
         /\ w < created => wpc[w] \in {"enter", "check", "exited"}
         /\ w < joined => wpc[w] = "exited"

PhaseInv ==
  /\ cpc \notin {"none", "create", "destroy", "stop", "join"} => created = NWorkers
  /\ cpc # "none" => (stopping <=> cpc = "join")
  /\ cpc \notin {"none", "join"} => joined = 0
  /\ cpc = "create" => generation = 0 /\ \A w \in Workers : seen[w] = 0
  /\ cpc \in {"run", "publish"} => generation < MaxJobs

\* Only a callback that has returned and is not reported yet can have failed.
ResultInv == \A w \in Workers : wpc[w] \notin {"reenter", "finish"} => result[w] = 0

IInv ==
  /\ TypeOK /\ LockOwner /\ Born /\ PhaseInv /\ ResultInv
  /\ DrainInv /\ QuietInv /\ JoinInv /\ NoUseAfterFree

-----------------------------------------------------------------------------
\* A run that was accepted returns: no worker and no wake-up is missing.
RunReturns == (cpc \in {"run", "publish"} \cup Draining) ~> (cpc = "idle")

\* Destroy, whether called or reached from a failed create, joins and frees.
DestroyReturns == (cpc \in {"destroy", "stop", "join"}) ~> (cpc = "none")

\* Every call of the pool comes to an end.
CallsReturn == RunReturns /\ DestroyReturns

-----------------------------------------------------------------------------
(***************************************************************************)
(* The refinement mapping to ForkJoin.                                     *)
(***************************************************************************)
AbstractPhase ==
  CASE cpc = "idle" -> "open"
    [] cpc \in {"run", "publish"} \cup Draining -> "running"
    [] OTHER -> "closed"

\* Workers that have not taken the published job yet.
NotTaken == { w \in Workers : seen[w] # generation }

AbstractTodo ==
  CASE cpc \in {"run", "publish"} -> 0 .. argRows - 1
    [] cpc \in Draining -> UNION { RowsOf(rows, w, NWorkers) : w \in NotTaken }
    [] OTHER -> {}

Callers == { w \in Workers : wpc[w] = "call" }

AbstractActive == UNION { RowsOf(rows, w, NWorkers) : w \in Callers }

AbstractBad == cpc \in Draining /\ (failed \/ \E w \in Workers : result[w] # 0)

Abstract == INSTANCE ForkJoin WITH
  phase <- AbstractPhase, todo <- AbstractTodo, active <- AbstractActive, bad <- AbstractBad

(***************************************************************************)
(* The pool is a fork/join: under every interleaving of workers, spurious  *)
(* wake-ups and failing callbacks, run hands each row of its job to one    *)
(* callback, joins them all, and returns failure exactly when a callback   *)
(* of this very job failed.                                                *)
(***************************************************************************)
ImplementsForkJoin == Abstract!Spec
=============================================================================
