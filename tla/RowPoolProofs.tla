--------------------------- MODULE RowPoolProofs ---------------------------
(***************************************************************************)
(* Safety of RowPool for every number of workers, every set of row counts  *)
(* and contexts and every bound on the number of jobs.  IInv is inductive; *)
(* the properties of the runs follow from it.                              *)
(***************************************************************************)
EXTENDS RowPool, RowPartitionProofs, FiniteSetTheorems

(* The thread identities are distinct.                                     *)
LEMMA Identities ==
  /\ NWorkers \in Nat /\ NWorkers >= 2
  /\ Workers = 0 .. (NWorkers - 1)
  /\ Coordinator \notin Workers /\ Nobody \notin Workers /\ Coordinator # Nobody
  BY NWorkersAssumption DEF Workers, Coordinator, Nobody

LEMMA WorkersFinite ==
  IsFiniteSet(Workers) /\ Cardinality(Workers) = NWorkers
  <1>1. 0 \in Int /\ NWorkers - 1 \in Int /\ NWorkers >= 2
    BY NWorkersAssumption
  <1>2. /\ IsFiniteSet(0 .. (NWorkers - 1))
        /\ Cardinality(0 .. (NWorkers - 1)) =
             IF 0 > NWorkers - 1 THEN 0 ELSE (NWorkers - 1) - 0 + 1
    BY <1>1, FS_Interval, Zenon
  <1> QED
    BY <1>1, <1>2, NWorkersAssumption DEF Workers

(* The cut points a worker computes are row numbers.                       *)
LEMMA CutType ==
  ASSUME TypeOK, NEW w \in Workers
  PROVE  /\ Cut(rows, w, NWorkers) \in 0 .. (U32 - 1)
         /\ Cut(rows, w + 1, NWorkers) \in 0 .. (U32 - 1)
  <1>1. /\ rows \in 0 .. (U32 - 1) /\ NWorkers \in 1 .. U32
        /\ w \in 0 .. NWorkers /\ w + 1 \in 0 .. NWorkers
    BY U32Assumption, NWorkersAssumption DEF TypeOK, Workers
  <1>2. Cut(rows, w, NWorkers) \in 0 .. rows /\ Cut(rows, w + 1, NWorkers) \in 0 .. rows
    BY <1>1, CutIsQuotient
  <1> QED
    BY <1>1, <1>2, U32Assumption

LEMMA InitIInv == Init => IInv
  <1> SUFFICES ASSUME Init PROVE IInv
    OBVIOUS
  <1>1. TypeOK
    <2>1. 0 \in 0 .. (U32 - 1) /\ 0 \in 0 .. NWorkers /\ 0 \in 0 .. MaxJobs
      BY U32Assumption, NWorkersAssumption, MaxJobsAssumption
    <2> QED
      BY <2>1 DEF Init, TypeOK, WorkerStates, CoordinatorStates, Outcomes
  <1>2. LockOwner /\ Born /\ ResultInv
    BY Identities DEF Init, LockOwner, Born, ResultInv
  <1>3. PhaseInv /\ DrainInv /\ QuietInv /\ JoinInv /\ NoUseAfterFree
    BY DEF Init, PhaseInv, DrainInv, QuietInv, JoinInv, NoUseAfterFree, Draining
  <1> QED
    BY <1>1, <1>2, <1>3 DEF IInv

-----------------------------------------------------------------------------
(***************************************************************************)
(* Steps of a worker.                                                      *)
(***************************************************************************)
LEMMA EnterStep ==
  ASSUME IInv, NEW w \in Workers, WorkerEnter(w)
  PROVE  IInv'
  <1> USE DEF WorkerEnter, IInv, pool, client, locals
  <1>1. TypeOK'
    BY DEF TypeOK, WorkerStates
  <1>2. LockOwner'
    BY Identities DEF LockOwner, TypeOK
  <1>3. Born' /\ ResultInv' /\ PhaseInv'
    BY DEF Born, ResultInv, PhaseInv, TypeOK
  <1>4. Pending' = Pending
    BY DEF Pending, TypeOK
  <1>5. DrainInv'
    BY <1>4 DEF DrainInv, Waiting, Working, Quiet, TypeOK
  <1>6. QuietInv' /\ JoinInv' /\ NoUseAfterFree'
    BY DEF QuietInv, JoinInv, NoUseAfterFree, Quiet, TypeOK
  <1> QED
    BY <1>1, <1>2, <1>3, <1>5, <1>6

LEMMA SleepStep ==
  ASSUME IInv, NEW w \in Workers, WorkerSleep(w)
  PROVE  IInv'
  <1> USE DEF WorkerSleep, IInv, pool, client, locals
  <1>1. TypeOK'
    BY DEF TypeOK, WorkerStates
  <1>2. LockOwner'
    BY Identities DEF LockOwner, TypeOK
  <1>3. Born' /\ ResultInv' /\ PhaseInv'
    BY DEF Born, ResultInv, PhaseInv, TypeOK
  <1>4. Pending' = Pending
    BY DEF Pending, TypeOK
  <1>5. DrainInv'
    BY <1>4, MaxJobsAssumption DEF DrainInv, Waiting, Working, Quiet, TypeOK
  <1>6. QuietInv' /\ JoinInv' /\ NoUseAfterFree'
    BY DEF QuietInv, JoinInv, NoUseAfterFree, Quiet, TypeOK, PhaseInv
  <1> QED
    BY <1>1, <1>2, <1>3, <1>5, <1>6

LEMMA WakeStep ==
  ASSUME IInv, NEW w \in Workers, WorkerWakeSpuriously(w)
  PROVE  IInv'
  <1> USE DEF WorkerWakeSpuriously, IInv, pool, client, locals
  <1>1. TypeOK'
    BY DEF TypeOK, WorkerStates
  <1>2. LockOwner'
    BY Identities DEF LockOwner, TypeOK
  <1>3. Born' /\ ResultInv' /\ PhaseInv'
    BY DEF Born, ResultInv, PhaseInv, TypeOK
  <1>4. Pending' = Pending
    BY DEF Pending, TypeOK
  <1>5. DrainInv'
    BY <1>4 DEF DrainInv, Waiting, Working, Quiet, TypeOK
  <1>6. QuietInv' /\ JoinInv' /\ NoUseAfterFree'
    BY DEF QuietInv, JoinInv, NoUseAfterFree, Quiet, TypeOK
  <1> QED
    BY <1>1, <1>2, <1>3, <1>5, <1>6

(* Taking a job keeps the worker pending: it owes a report until it is     *)
(* done.                                                                   *)
LEMMA TakeStep ==
  ASSUME IInv, NEW w \in Workers, WorkerTake(w)
  PROVE  IInv'
  <1> USE DEF WorkerTake, Fresh, RangeEnd, IInv, pool, client
  <1>1. TypeOK'
    BY CutType DEF TypeOK, WorkerStates
  <1>2. LockOwner'
    BY Identities DEF LockOwner, TypeOK
  <1>3. Born' /\ ResultInv' /\ PhaseInv'
    BY DEF Born, ResultInv, PhaseInv, TypeOK
  <1>4. Pending' = Pending
    BY DEF Pending, TypeOK
  <1>5. cpc \in Draining /\ Waiting(w)
    <2>1. cpc # "none" /\ cpc # "join"
      BY DEF NoUseAfterFree, PhaseInv
    <2>2. w < created
      BY Identities DEF Born, TypeOK
    <2>3. cpc \in Draining
      BY <2>1, <2>2 DEF QuietInv, Quiet, TypeOK, CoordinatorStates, Draining
    <2> QED
      BY <2>3 DEF DrainInv, Quiet, Working
  <1>6. DrainInv'
    <2>1. Working(w)'
      BY <1>5 DEF Working, DrainInv, Draining, TypeOK
    <2>2. \A v \in Workers : (Waiting(v) \/ Working(v) \/ Quiet(v))'
      BY <1>5, <2>1 DEF DrainInv, Waiting, Working, Quiet, TypeOK
    <2> QED
      BY <1>4, <1>5, <2>2 DEF DrainInv
  <1>7. QuietInv' /\ JoinInv' /\ NoUseAfterFree'
    BY <1>5 DEF QuietInv, JoinInv, NoUseAfterFree, Draining
  <1> QED
    BY <1>1, <1>2, <1>3, <1>6, <1>7

LEMMA ReturnStep ==
  ASSUME IInv, NEW w \in Workers, WorkerReturn(w)
  PROVE  IInv'
  <1> USE DEF WorkerReturn, IInv, pool, client
  <1>1. TypeOK'
    BY DEF TypeOK, WorkerStates
  <1>2. LockOwner'
    BY DEF LockOwner, TypeOK
  <1>3. Born' /\ ResultInv' /\ PhaseInv'
    BY DEF Born, ResultInv, PhaseInv, TypeOK
  <1>4. Pending' = Pending
    BY DEF Pending, TypeOK
  <1>5. DrainInv'
    BY <1>4 DEF DrainInv, Waiting, Working, Quiet, TypeOK
  <1>6. QuietInv' /\ JoinInv' /\ NoUseAfterFree'
    BY DEF QuietInv, JoinInv, NoUseAfterFree, Quiet, Born, TypeOK
  <1> QED
    BY <1>1, <1>2, <1>3, <1>5, <1>6

(* The report: one worker leaves Pending and `remaining` drops by one.     *)
LEMMA FinishStep ==
  ASSUME IInv, NEW w \in Workers, WorkerFinish(w)
  PROVE  IInv'
  <1> USE DEF WorkerFinish, IInv, client
  <1>1. cpc \in Draining /\ Working(w)
    <2>1. w < created
      BY Identities DEF Born, TypeOK
    <2>2. cpc \in Draining
      BY <2>1 DEF QuietInv, JoinInv, NoUseAfterFree, Quiet, TypeOK, CoordinatorStates, Draining
    <2> QED
      BY <2>2 DEF DrainInv, Quiet, Waiting
  <1>2. w \in Pending /\ Pending' = Pending \ {w}
    BY <1>1 DEF Pending, Working, TypeOK
  <1>3. IsFiniteSet(Pending) /\ Cardinality(Pending) \in Nat
    BY WorkersFinite, FS_Subset, FS_CardinalityType DEF Pending
  <1>4. remaining' = Cardinality(Pending')
    BY <1>1, <1>2, <1>3, FS_RemoveElement DEF DrainInv
  <1>5. Cardinality(Pending') \in Nat
    BY <1>2, <1>3, FS_RemoveElement, FS_CardinalityType
  <1>6. remaining' \in 0 .. NWorkers
    BY <1>4, <1>5, Identities DEF TypeOK
  <1>7. cpc' \in Draining /\ (cpc' = "drain" <=> cpc = "drain")
        /\ (cpc' = "drain_asleep" => cpc = "drain_asleep" /\ remaining' # 0)
    BY <1>1 DEF WakeDrained, Draining
  <1>8. TypeOK'
    BY <1>6, <1>7, U32Assumption DEF TypeOK, WorkerStates, CoordinatorStates, Draining
  <1>9. LockOwner'
    BY <1>1, <1>7, Identities DEF LockOwner, TypeOK, Draining
  <1>10. Born' /\ ResultInv' /\ PhaseInv'
    BY <1>1, <1>7 DEF Born, ResultInv, PhaseInv, TypeOK, Draining
  <1>11. \A v \in Workers : (Waiting(v) \/ Working(v) \/ Quiet(v))'
    BY <1>1 DEF DrainInv, Waiting, Working, Quiet, TypeOK
  <1>12. DrainInv'
    <2>2. rows' = argRows' /\ context' = argContext'
      BY <1>1 DEF DrainInv
    <2> HIDE DEF WorkerFinish, IInv
    <2>1. cpc' = "drain_asleep" => remaining' > 0
      BY <1>6, <1>7
    <2> QED
      BY <1>4, <1>11, <2>1, <2>2 DEF DrainInv
  <1>13. QuietInv' /\ JoinInv' /\ NoUseAfterFree'
    BY <1>7 DEF QuietInv, JoinInv, NoUseAfterFree, Draining
  <1> QED
    BY <1>8, <1>9, <1>10, <1>12, <1>13

LEMMA ExitStep ==
  ASSUME IInv, NEW w \in Workers, WorkerExit(w)
  PROVE  IInv'
  <1> USE DEF WorkerExit, IInv, pool, client, locals
  <1>1. TypeOK'
    BY DEF TypeOK, WorkerStates
  <1>2. LockOwner'
    BY Identities DEF LockOwner, TypeOK
  <1>3. Born' /\ ResultInv' /\ PhaseInv'
    BY DEF Born, ResultInv, PhaseInv, TypeOK
  <1>4. cpc = "join"
    BY DEF NoUseAfterFree, PhaseInv, TypeOK
  <1>5. DrainInv' /\ QuietInv'
    BY <1>4 DEF DrainInv, QuietInv, Draining
  <1>6. JoinInv' /\ NoUseAfterFree'
    BY <1>4 DEF JoinInv, NoUseAfterFree, TypeOK
  <1> QED
    BY <1>1, <1>2, <1>3, <1>5, <1>6

-----------------------------------------------------------------------------
(***************************************************************************)
(* Steps of the coordinator.                                               *)
(***************************************************************************)
LEMMA CreateStep ==
  ASSUME IInv, CreatePool \/ CreateThread \/ CreateThreadFails \/ CreateReturn
  PROVE  IInv'
  <1> USE DEF IInv, pool, client, locals
  <1>1. CASE CreatePool
    <2> USE <1>1 DEF CreatePool
    <2>1. 0 \in 0 .. (U32 - 1) /\ 0 \in 0 .. NWorkers /\ 0 \in 0 .. MaxJobs
      BY U32Assumption, NWorkersAssumption, MaxJobsAssumption
    <2>2. TypeOK'
      BY <2>1 DEF TypeOK, WorkerStates, CoordinatorStates
    <2>3. LockOwner' /\ Born' /\ ResultInv'
      BY Identities DEF LockOwner, Born, ResultInv, NoUseAfterFree
    <2>4. PhaseInv' /\ DrainInv' /\ QuietInv' /\ JoinInv' /\ NoUseAfterFree'
      BY Identities DEF PhaseInv, DrainInv, QuietInv, JoinInv, NoUseAfterFree, Draining
    <2> QED
      BY <2>2, <2>3, <2>4
  <1>2. CASE CreateThread
    <2> USE <1>2 DEF CreateThread
    <2>1. created \in Workers /\ created + 1 \in 0 .. NWorkers /\ created \in Nat
      BY Identities DEF TypeOK
    <2>2. TypeOK'
      BY <2>1 DEF TypeOK, WorkerStates
    <2>3. wpc[created] = "unborn"
      BY <2>1 DEF Born
    <2>4. LockOwner'
      BY <2>1, <2>3 DEF LockOwner, TypeOK
    <2>5. Born' /\ ResultInv'
      BY <2>1 DEF Born, ResultInv, TypeOK, Workers
    <2>6. PhaseInv' /\ DrainInv' /\ JoinInv' /\ NoUseAfterFree'
      BY DEF PhaseInv, DrainInv, JoinInv, NoUseAfterFree, Draining
    <2>7. QuietInv'
      <3>1. generation = 0 /\ seen[created] = 0
        BY <2>1 DEF PhaseInv
      <3>2. QED
        <4>1. \A w \in Workers : w < created + 1 => w < created \/ w = created
          BY <2>1 DEF Workers
        <4>2. \A w \in Workers : w = created => Quiet(w)'
          BY <2>1, <3>1 DEF Quiet, TypeOK
        <4>3. \A w \in Workers : w < created => Quiet(w)'
          BY <2>1 DEF QuietInv, Quiet, TypeOK
        <4> QED
          BY <4>1, <4>2, <4>3 DEF QuietInv
    <2> QED
      BY <2>2, <2>4, <2>5, <2>6, <2>7
  <1>3. CASE CreateThreadFails
    <2> USE <1>3 DEF CreateThreadFails
    <2>1. TypeOK' /\ LockOwner' /\ Born' /\ ResultInv'
      BY DEF TypeOK, LockOwner, Born, ResultInv, CoordinatorStates
    <2>2. PhaseInv' /\ DrainInv' /\ JoinInv' /\ NoUseAfterFree'
      BY DEF PhaseInv, DrainInv, JoinInv, NoUseAfterFree, Draining
    <2>3. QuietInv'
      BY DEF QuietInv, Quiet
    <2> QED
      BY <2>1, <2>2, <2>3
  <1>4. CASE CreateReturn
    <2> USE <1>4 DEF CreateReturn
    <2>1. TypeOK' /\ LockOwner' /\ Born' /\ ResultInv'
      BY DEF TypeOK, LockOwner, Born, ResultInv, CoordinatorStates
    <2>2. PhaseInv' /\ DrainInv' /\ JoinInv' /\ NoUseAfterFree'
      BY DEF PhaseInv, DrainInv, JoinInv, NoUseAfterFree, Draining
    <2>3. QuietInv'
      BY DEF QuietInv, Quiet
    <2> QED
      BY <2>1, <2>2, <2>3
  <1> QED
    BY <1>1, <1>2, <1>3, <1>4

LEMMA CallStep ==
  ASSUME IInv,
         RunInvalid \/ DestroyCall \/ \E n \in RowCounts, c \in Contexts : RunCall(n, c)
  PROVE  IInv'
  <1> USE DEF IInv, pool, client, locals
  <1>1. CASE RunInvalid
    <2> USE <1>1 DEF RunInvalid
    <2>1. TypeOK' /\ LockOwner' /\ Born' /\ ResultInv'
      BY DEF TypeOK, LockOwner, Born, ResultInv, Outcomes
    <2>2. PhaseInv' /\ DrainInv' /\ JoinInv' /\ NoUseAfterFree'
      BY DEF PhaseInv, DrainInv, JoinInv, NoUseAfterFree, Draining
    <2>3. QuietInv'
      BY DEF QuietInv, Quiet
    <2> QED
      BY <2>1, <2>2, <2>3
  <1>2. CASE DestroyCall
    <2> USE <1>2 DEF DestroyCall
    <2>1. TypeOK' /\ LockOwner' /\ Born' /\ ResultInv'
      BY DEF TypeOK, LockOwner, Born, ResultInv, CoordinatorStates
    <2>2. PhaseInv' /\ DrainInv' /\ JoinInv' /\ NoUseAfterFree'
      BY DEF PhaseInv, DrainInv, JoinInv, NoUseAfterFree, Draining
    <2>3. QuietInv'
      BY DEF QuietInv, Quiet
    <2> QED
      BY <2>1, <2>2, <2>3
  <1>3. ASSUME NEW n \in RowCounts, NEW c \in Contexts, RunCall(n, c)
        PROVE  IInv'
    <2> USE <1>3 DEF RunCall
    <2>1. TypeOK' /\ LockOwner' /\ Born' /\ ResultInv'
      BY RowCountsAssumption, U32Assumption
         DEF TypeOK, LockOwner, Born, ResultInv, Outcomes, CoordinatorStates
    <2>2. PhaseInv' /\ DrainInv' /\ JoinInv' /\ NoUseAfterFree'
      BY DEF PhaseInv, DrainInv, JoinInv, NoUseAfterFree, Draining
    <2>3. QuietInv'
      BY DEF QuietInv, Quiet
    <2> QED
      BY <2>1, <2>2, <2>3
  <1> QED
    BY <1>1, <1>2, <1>3

LEMMA CoordinatorEnterStep ==
  ASSUME IInv, CoordinatorEnter
  PROVE  IInv'
  <1> USE DEF CoordinatorEnter, IInv, pool, client, locals
  <1>1. TypeOK'
    BY DEF TypeOK, CoordinatorStates
  <1>2. LockOwner' /\ Born' /\ ResultInv'
    BY Identities DEF LockOwner, Born, ResultInv
  <1>3. PhaseInv' /\ JoinInv' /\ NoUseAfterFree'
    BY DEF PhaseInv, JoinInv, NoUseAfterFree
  <1>4. Pending' = Pending
    BY DEF Pending
  <1>5. DrainInv'
    BY <1>4 DEF DrainInv, Draining, Waiting, Working, Quiet
  <1>6. QuietInv'
    BY DEF QuietInv, Quiet
  <1> QED
    BY <1>1, <1>2, <1>3, <1>5, <1>6

(* Publishing makes every worker pending at once.                          *)
LEMMA PublishStep ==
  ASSUME IInv, RunPublish
  PROVE  IInv'
  <1> USE DEF RunPublish, FailedReset, WakeReady, IInv, client, locals
  <1>1. generation \in Nat /\ generation + 1 \in 0 .. MaxJobs /\ generation + 1 # generation
    BY MaxJobsAssumption DEF TypeOK, PhaseInv
  <1>2. TypeOK'
    <2>1. wpc' \in [Workers -> WorkerStates]
      BY DEF TypeOK, WorkerStates
    <2>2. remaining' \in 0 .. NWorkers
      BY Identities
    <2> QED
      BY <1>1, <2>1, <2>2 DEF TypeOK, CoordinatorStates
  <1>3. LockOwner' /\ Born' /\ ResultInv'
    BY DEF LockOwner, Born, ResultInv, TypeOK
  <1>4. PhaseInv' /\ QuietInv' /\ JoinInv' /\ NoUseAfterFree'
    BY DEF PhaseInv, QuietInv, JoinInv, NoUseAfterFree
  <1>5. \A w \in Workers : Quiet(w)
    BY Identities DEF PhaseInv, QuietInv
  <1>6. \A w \in Workers : Waiting(w)'
    BY <1>1, <1>5 DEF Waiting, Quiet, TypeOK
  <1>7. Pending' = Workers
    BY <1>1, <1>5 DEF Pending, Quiet
  <1>8. DrainInv'
    BY <1>6, <1>7, WorkersFinite DEF DrainInv
  <1> QED
    BY <1>2, <1>3, <1>4, <1>8

LEMMA DrainStep ==
  ASSUME IInv, RunSleep \/ RunWakeSpuriously
  PROVE  IInv'
  <1> USE DEF RunSleep, RunWakeSpuriously, IInv, pool, client, locals
  <1>1. TypeOK' /\ Born' /\ ResultInv'
    BY DEF TypeOK, CoordinatorStates, Born, ResultInv
  <1>5. LockOwner'
    BY Identities DEF LockOwner
  <1>2. PhaseInv' /\ QuietInv' /\ JoinInv' /\ NoUseAfterFree'
    BY DEF PhaseInv, QuietInv, JoinInv, NoUseAfterFree
  <1>3. Pending' = Pending
    BY DEF Pending
  <1>4. DrainInv'
    BY <1>3 DEF DrainInv, Draining, Waiting, Working, Quiet
  <1> QED
    BY <1>1, <1>2, <1>4, <1>5

(* When `remaining` is zero no worker is pending, so all are quiet again.  *)
LEMMA ReturnFromRunStep ==
  ASSUME IInv, RunReturn
  PROVE  IInv'
  <1> USE DEF RunReturn, Drained, IInv, locals
  <1>1. TypeOK' /\ LockOwner' /\ Born' /\ ResultInv'
    BY Identities DEF TypeOK, CoordinatorStates, Outcomes, LockOwner, Born, ResultInv
  <1>2. PhaseInv' /\ DrainInv' /\ JoinInv' /\ NoUseAfterFree'
    BY DEF PhaseInv, DrainInv, JoinInv, NoUseAfterFree, Draining
  <1>3. Cardinality(Pending) = 0
    BY DEF DrainInv, Draining
  <1>4. Pending = {}
    BY <1>3, WorkersFinite, FS_Subset, FS_EmptySet DEF Pending
  <1>5. \A w \in Workers : Quiet(w)
    BY <1>4 DEF Pending, DrainInv, Draining, Quiet, Waiting, Working
  <1>6. QuietInv'
    BY <1>5 DEF QuietInv, Quiet
  <1> QED
    BY <1>1, <1>2, <1>6

LEMMA DestroyStep ==
  ASSUME IInv, DestroyStop \/ DestroyJoin \/ DestroyFree
  PROVE  IInv'
  <1> USE DEF IInv, pool, client, locals
  <1>1. CASE DestroyStop
    <2> USE <1>1 DEF DestroyStop, WakeStopped, WakeReady
    <2>1. wpc' \in [Workers -> WorkerStates]
      BY DEF TypeOK, WorkerStates
    <2>2. TypeOK'
      BY <2>1 DEF TypeOK, CoordinatorStates
    <2>3. LockOwner' /\ Born' /\ ResultInv'
      BY Identities DEF LockOwner, Born, ResultInv, TypeOK
    <2>4. PhaseInv' /\ DrainInv' /\ QuietInv' /\ NoUseAfterFree'
      BY DEF PhaseInv, DrainInv, QuietInv, NoUseAfterFree, Draining
    <2>5. JoinInv'
      BY DEF JoinInv, PhaseInv, QuietInv, Quiet, TypeOK, Workers
    <2> QED
      BY <2>2, <2>3, <2>4, <2>5
  <1>2. CASE DestroyJoin
    <2> USE <1>2 DEF DestroyJoin
    <2>1. joined + 1 \in 0 .. NWorkers /\ joined + 1 <= created
      BY NWorkersAssumption DEF TypeOK
    <2>2. TypeOK' /\ LockOwner' /\ Born' /\ ResultInv'
      BY <2>1 DEF TypeOK, LockOwner, Born, ResultInv
    <2>3. PhaseInv' /\ DrainInv' /\ QuietInv' /\ NoUseAfterFree'
      BY DEF PhaseInv, DrainInv, QuietInv, NoUseAfterFree, Draining
    <2>4. JoinInv'
      BY <2>1 DEF JoinInv, TypeOK, Workers
    <2> QED
      BY <2>2, <2>3, <2>4
  <1>3. CASE DestroyFree
    <2> USE <1>3 DEF DestroyFree, AllJoined
    <2>1. TypeOK' /\ LockOwner' /\ Born' /\ ResultInv'
      BY DEF TypeOK, LockOwner, Born, ResultInv, CoordinatorStates
    <2>2. PhaseInv' /\ DrainInv' /\ QuietInv' /\ JoinInv'
      BY DEF PhaseInv, DrainInv, QuietInv, JoinInv, Draining
    <2>3. NoUseAfterFree'
      BY DEF NoUseAfterFree, JoinInv, Born, TypeOK, Workers
    <2> QED
      BY <2>1, <2>2, <2>3
  <1> QED
    BY <1>1, <1>2, <1>3

LEMMA StutterStep ==
  ASSUME IInv, UNCHANGED vars
  PROVE  IInv'
  BY DEF IInv, vars, pool, client, locals, TypeOK, LockOwner, Born, PhaseInv, ResultInv,
         DrainInv, QuietInv, JoinInv, NoUseAfterFree, Pending, Waiting, Working, Quiet

-----------------------------------------------------------------------------
LEMMA NextIInv == IInv /\ [Next]_vars => IInv'
  <1> SUFFICES ASSUME IInv, [Next]_vars PROVE IInv'
    OBVIOUS
  <1>1. ASSUME NEW w \in Workers, WorkerStep(w)
        PROVE  IInv'
    BY <1>1, EnterStep, SleepStep, WakeStep, TakeStep, ReturnStep, FinishStep, ExitStep
       DEF WorkerStep
  <1>2. CASE CoordinatorStep
    BY <1>2, CreateStep, CallStep, CoordinatorEnterStep, PublishStep, DrainStep,
       ReturnFromRunStep, DestroyStep DEF CoordinatorStep
  <1>3. CASE UNCHANGED vars
    BY <1>3, StutterStep
  <1> QED
    BY <1>1, <1>2, <1>3 DEF Next

(* The strengthening holds in every reachable state.                       *)
THEOREM PoolInvariant == Spec => []IInv
  BY InitIInv, NextIInv, PTL DEF Spec

(* Every field, local and program counter keeps its type; in particular    *)
(* `remaining` never wraps below zero.                                     *)
THEOREM TypeCorrect == Spec => []TypeOK
  <1>1. IInv => TypeOK
    BY DEF IInv
  <1> QED
    BY <1>1, PoolInvariant, PTL

(***************************************************************************)
(* A callback runs only inside the run call that lent its context: the     *)
(* fact matvec relies on when it releases or frees the slice after run.    *)
(***************************************************************************)
THEOREM NoLateReaderHolds == Spec => []NoLateReader
  <1>1. IInv => NoLateReader
    <2> SUFFICES ASSUME IInv, NEW w \in Workers, wpc[w] = "call"
                 PROVE  cpc \in Draining /\ borrowed[w] = argContext
      BY DEF NoLateReader
    <2>1. w < created
      BY DEF IInv, Born, TypeOK, Workers
    <2>2. cpc \in Draining
      BY <2>1 DEF IInv, QuietInv, JoinInv, NoUseAfterFree, Quiet, TypeOK,
                  CoordinatorStates, Draining
    <2> QED
      BY <2>2 DEF IInv, DrainInv, Quiet, Waiting, Working
  <1> QED
    BY <1>1, PoolInvariant, PTL

(***************************************************************************)
(* No worker sleeps through a job or through destroy, and the coordinator  *)
(* never sleeps once every worker has reported.                            *)
(***************************************************************************)
THEOREM NoLostWakeupHolds == Spec => []NoLostWakeup
  <1>1. IInv => NoLostWakeup
    <2> SUFFICES ASSUME IInv PROVE NoLostWakeup
      OBVIOUS
    <2>1. ASSUME NEW w \in Workers, wpc[w] = "asleep"
          PROVE  seen[w] = generation /\ ~stopping
      <3>1. w < created
        BY <2>1 DEF IInv, Born, TypeOK, Workers
      <3>2. cpc # "join" /\ cpc # "none"
        BY <2>1, <3>1 DEF IInv, JoinInv, NoUseAfterFree
      <3>3. ~stopping
        BY <3>2 DEF IInv, PhaseInv, TypeOK
      <3>4. CASE cpc \in Draining
        BY <2>1, <3>3, <3>4 DEF IInv, DrainInv, Waiting, Working, Quiet
      <3>5. CASE cpc \notin Draining
        BY <3>1, <3>2, <3>3, <3>5 DEF IInv, QuietInv, Quiet, TypeOK, CoordinatorStates, Draining
      <3> QED
        BY <3>3, <3>4, <3>5
    <2>2. cpc = "drain_asleep" => remaining > 0
      BY DEF IInv, DrainInv, Draining
    <2> QED
      BY <2>1, <2>2 DEF NoLostWakeup
  <1> QED
    BY <1>1, PoolInvariant, PTL

(***************************************************************************)
(* Two callbacks that run at the same time never own a common row: by      *)
(* RangesDisjoint, for every job size and worker count.                    *)
(***************************************************************************)
THEOREM DisjointWritersHolds == Spec => []DisjointWriters
  <1>1. IInv => DisjointWriters
    <2> SUFFICES ASSUME IInv, NEW w \in Workers, NEW v \in Workers, w # v,
                        wpc[w] = "call", wpc[v] = "call"
                 PROVE  Span(w) \cap Span(v) = {}
      BY DEF DisjointWriters
    <2>1. w < created /\ v < created
      BY DEF IInv, Born, TypeOK, Workers
    <2>2. cpc \in Draining
      BY <2>1 DEF IInv, QuietInv, JoinInv, NoUseAfterFree, Quiet, TypeOK,
                  CoordinatorStates, Draining
    <2>3. Working(w) /\ Working(v)
      BY <2>2 DEF IInv, DrainInv, Quiet, Waiting
    <2>4. Span(w) = RowsOf(rows, w, NWorkers) /\ Span(v) = RowsOf(rows, v, NWorkers)
      BY <2>3 DEF Span, RowsOf, Working
    <2>5. rows \in 0 .. (U32 - 1) /\ NWorkers \in 1 .. U32
      BY U32Assumption, NWorkersAssumption DEF IInv, TypeOK
    <2>6. Disjoint(rows, NWorkers)
      BY <2>5, RangesDisjoint
    <2> QED
      BY <2>4, <2>6 DEF Disjoint, Workers
  <1> QED
    BY <1>1, PoolInvariant, PTL

(* No thread outlives the pool's memory.                                   *)
THEOREM NoUseAfterFreeHolds == Spec => []NoUseAfterFree
  <1>1. IInv => NoUseAfterFree
    BY DEF IInv
  <1> QED
    BY <1>1, PoolInvariant, PTL

-----------------------------------------------------------------------------
(***************************************************************************)
(* Refinement of ForkJoin.  The workers' ranges, seen as sets of rows.     *)
(***************************************************************************)
LEMMA RangeFacts ==
  ASSUME IInv
  PROVE  /\ \A w \in Workers : RowsOf(rows, w, NWorkers) \subseteq 0 .. rows - 1
         /\ \A w, v \in Workers :
              w # v => RowsOf(rows, w, NWorkers) \cap RowsOf(rows, v, NWorkers) = {}
         /\ UNION { RowsOf(rows, w, NWorkers) : w \in Workers } = 0 .. rows - 1
  <1>1. rows \in 0 .. (U32 - 1) /\ NWorkers \in 1 .. U32
    BY U32Assumption, NWorkersAssumption DEF IInv, TypeOK
  <1>2. Disjoint(rows, NWorkers) /\ Covers(rows, NWorkers)
    BY <1>1, RangesDisjoint, RangesCover
  <1>3. \A w, v \in Workers :
          w # v => RowsOf(rows, w, NWorkers) \cap RowsOf(rows, v, NWorkers) = {}
    BY <1>2 DEF Disjoint, Workers
  <1>4. UNION { RowsOf(rows, w, NWorkers) : w \in Workers } = 0 .. rows - 1
    BY <1>2 DEF Covers, Workers
  <1>5. \A w \in Workers : RowsOf(rows, w, NWorkers) \subseteq 0 .. rows - 1
    BY <1>4
  <1> QED
    BY <1>3, <1>4, <1>5

LEMMA RangeNonEmpty ==
  ASSUME IInv, NEW w \in Workers, Cut(rows, w, NWorkers) # Cut(rows, w + 1, NWorkers)
  PROVE  RowsOf(rows, w, NWorkers) # {}
  <1>1. /\ rows \in 0 .. (U32 - 1) /\ NWorkers \in 1 .. U32
        /\ w \in 0 .. NWorkers /\ w + 1 \in 0 .. NWorkers /\ w <= w + 1
    BY U32Assumption, NWorkersAssumption DEF IInv, TypeOK, Workers
  <1>2. Cut(rows, w, NWorkers) <= Cut(rows, w + 1, NWorkers)
    BY <1>1, CutMonotone
  <1>3. Cut(rows, w, NWorkers) \in Nat /\ Cut(rows, w + 1, NWorkers) \in Nat
    BY <1>1, CutIsQuotient
  <1>4. Cut(rows, w, NWorkers) \in RowsOf(rows, w, NWorkers)
    BY <1>2, <1>3 DEF RowsOf
  <1> QED
    BY <1>4

(* Outside a draining job no callback runs and no result is outstanding.   *)
LEMMA NoCallers ==
  ASSUME IInv, cpc \notin Draining
  PROVE  Callers = {} /\ \A w \in Workers : wpc[w] \notin {"call", "reenter", "finish"}
  <1> SUFFICES ASSUME NEW w \in Workers
               PROVE  wpc[w] \notin {"call", "reenter", "finish"}
    BY DEF Callers
  <1>1. wpc[w] # "unborn" => w < created
    BY DEF IInv, Born, TypeOK, Workers
  <1> QED
    BY <1>1 DEF IInv, QuietInv, JoinInv, NoUseAfterFree, Quiet, TypeOK,
                CoordinatorStates, Draining

LEMMA InitAbstract == Init => Abstract!Init
  <1> SUFFICES ASSUME Init PROVE Abstract!Init
    OBVIOUS
  <1>1. Callers = {}
    BY DEF Init, Callers
  <1>2. AbstractActive = {}
    BY <1>1 DEF AbstractActive
  <1> QED
    BY <1>2 DEF Init, Abstract!Init, AbstractPhase, AbstractTodo, AbstractBad, Draining

(* A step that leaves all of this alone is invisible to the caller.        *)
LEMMA InvisibleStep ==
  ASSUME cpc \in Draining <=> cpc' \in Draining, AbstractPhase' = AbstractPhase,
         cpc \in {"run", "publish"} <=> cpc' \in {"run", "publish"},
         argRows' = argRows, rows' = rows, outcome' = outcome,
         NotTaken' = NotTaken, Callers' = Callers,
         AbstractBad' = AbstractBad
  PROVE  UNCHANGED Abstract!vars
  BY DEF Abstract!vars, AbstractTodo, AbstractActive

LEMMA WorkerImplements ==
  ASSUME IInv, NEW w \in Workers, WorkerStep(w)
  PROVE  [Abstract!Next]_(Abstract!vars)
  <1> DEFINE S == RowsOf(rows, w, NWorkers)
  <1>1. CASE WorkerEnter(w) \/ WorkerSleep(w) \/ WorkerWakeSpuriously(w) \/ WorkerExit(w)
    <2> USE <1>1 DEF WorkerEnter, WorkerSleep, WorkerWakeSpuriously, WorkerExit,
                     pool, client, locals
    <2>1. Callers' = Callers
      BY DEF Callers, IInv, TypeOK
    <2>2. NotTaken' = NotTaken /\ AbstractBad' = AbstractBad /\ AbstractPhase' = AbstractPhase
      BY DEF NotTaken, AbstractBad, AbstractPhase
    <2>3. cpc' = cpc /\ argRows' = argRows /\ rows' = rows /\ outcome' = outcome
      OBVIOUS
    <2> QED
      BY <2>1, <2>2, <2>3, InvisibleStep
  <1>2. CASE WorkerTake(w)
    <2> USE <1>2 DEF WorkerTake, Fresh, RangeEnd, pool, client
    <2>1. cpc \in Draining /\ w \in NotTaken
      <3>1. w < created
        BY DEF IInv, Born, TypeOK, Workers
      <3> QED
        BY <3>1 DEF IInv, QuietInv, PhaseInv, NoUseAfterFree, Quiet, TypeOK,
                    CoordinatorStates, Draining, NotTaken
    <2>2. /\ cpc' = cpc /\ rows' = rows /\ argRows' = argRows /\ outcome' = outcome
          /\ AbstractPhase = "running" /\ AbstractPhase' = "running"
      BY <2>1 DEF AbstractPhase, Draining
    <2>3. NotTaken' = NotTaken \ {w}
      BY DEF NotTaken, IInv, TypeOK
    <2>4. AbstractTodo = UNION { RowsOf(rows, v, NWorkers) : v \in NotTaken }
      BY <2>1 DEF AbstractTodo, Draining
    <2>5. AbstractTodo' = UNION { RowsOf(rows, v, NWorkers) : v \in NotTaken \ {w} }
      BY <2>1, <2>2, <2>3 DEF AbstractTodo, Draining
    <2>6. AbstractTodo' = AbstractTodo \ S /\ S \subseteq AbstractTodo
      BY <2>1, <2>4, <2>5, RangeFacts DEF NotTaken
    <2>7. AbstractBad' = AbstractBad
      <3>1. result[w] = 0 /\ result' = result
        BY DEF IInv, ResultInv, TypeOK
      <3> QED
        BY <3>1 DEF AbstractBad
    <2>8. CASE begin'[w] # end'[w]
      <3>1. Callers' = Callers \cup {w}
        BY <2>8 DEF Callers, IInv, TypeOK
      <3>2. AbstractActive' = AbstractActive \cup S
        BY <2>2, <3>1 DEF AbstractActive
      <3>3. S # {}
        BY <2>8, RangeNonEmpty DEF IInv, TypeOK
      <3>4. Abstract!Start(S)
        BY <2>2, <2>6, <2>7, <3>2 DEF Abstract!Start
      <3> QED
        BY <2>6, <3>3, <3>4 DEF Abstract!Next
    <2>9. CASE begin'[w] = end'[w]
      <3>1. Callers' = Callers
        BY <2>9 DEF Callers, IInv, TypeOK
      <3>2. AbstractActive' = AbstractActive
        BY <2>2, <3>1 DEF AbstractActive
      <3>3. S = {}
        <4>1. begin'[w] = Cut(rows, w, NWorkers) /\ end'[w] = Cut(rows, w + 1, NWorkers)
          BY DEF IInv, TypeOK
        <4>2. Cut(rows, w, NWorkers) \in 0 .. (U32 - 1)
          BY CutType DEF IInv
        <4> QED
          BY <2>9, <4>1, <4>2, U32Assumption DEF RowsOf
      <3> QED
        BY <2>2, <2>6, <2>7, <3>2, <3>3 DEF Abstract!vars
    <2> QED
      BY <2>8, <2>9
  <1>3. CASE WorkerReturn(w)
    <2> USE <1>3 DEF WorkerReturn, pool, client
    <2>1. cpc \in Draining /\ Working(w) /\ result[w] = 0
      BY NoCallers DEF IInv, DrainInv, Waiting, Quiet, ResultInv
    <2>2. /\ cpc' = cpc /\ rows' = rows /\ argRows' = argRows /\ outcome' = outcome
          /\ AbstractPhase' = AbstractPhase
      BY DEF AbstractPhase
    <2>3. NotTaken' = NotTaken /\ Callers' = Callers \ {w} /\ w \in Callers
      BY DEF NotTaken, Callers, IInv, TypeOK
    <2>4. AbstractTodo' = AbstractTodo
      BY <2>2, <2>3 DEF AbstractTodo
    <2>5. AbstractActive' = UNION { RowsOf(rows, v, NWorkers) : v \in Callers \ {w} }
      BY <2>2, <2>3 DEF AbstractActive
    <2>6. AbstractActive' = AbstractActive \ S /\ S \subseteq AbstractActive
      BY <2>3, <2>5, RangeFacts DEF AbstractActive, Callers
    <2>7. PICK r \in {0, 1} : result' = [result EXCEPT ![w] = r]
      OBVIOUS
    <2>8. AbstractBad' = (AbstractBad \/ r # 0)
      BY <2>1, <2>7 DEF AbstractBad, IInv, TypeOK
    <2>9. S # {}
      BY <2>1, RangeNonEmpty DEF Working
    <2>10. Abstract!Finish(S, r # 0)
      BY <2>2, <2>4, <2>6, <2>8 DEF Abstract!Finish
    <2> QED
      BY <2>6, <2>9, <2>10 DEF Abstract!Next
  <1>4. CASE WorkerFinish(w)
    <2> USE <1>4 DEF WorkerFinish, client
    <2>1. cpc \in Draining
      BY NoCallers
    <2>2. cpc' \in Draining
      BY <2>1 DEF WakeDrained, Draining
    <2>3. AbstractPhase' = AbstractPhase
      BY <2>1, <2>2 DEF AbstractPhase, Draining
    <2>4. NotTaken' = NotTaken /\ Callers' = Callers
      BY DEF NotTaken, Callers, IInv, TypeOK
    <2>5. AbstractBad' = AbstractBad
      BY <2>1, <2>2 DEF AbstractBad, IInv, TypeOK
    <2>6. cpc \in {"run", "publish"} <=> cpc' \in {"run", "publish"}
      BY <2>1, <2>2 DEF Draining
    <2>7. argRows' = argRows /\ rows' = rows /\ outcome' = outcome
      OBVIOUS
    <2> QED
      BY <2>1, <2>2, <2>3, <2>4, <2>5, <2>6, <2>7, InvisibleStep
  <1> QED
    BY <1>1, <1>2, <1>3, <1>4 DEF WorkerStep

LEMMA CoordinatorImplements ==
  ASSUME IInv, CoordinatorStep
  PROVE  [Abstract!Next]_(Abstract!vars)
  <1>1. CASE CreatePool \/ CreateThread \/ CreateThreadFails
    <2> USE <1>1 DEF CreatePool, CreateThread, CreateThreadFails, pool, client, locals
    <2>1. /\ cpc \notin Draining /\ cpc' \notin Draining
          /\ cpc \notin {"run", "publish", "idle"} /\ cpc' \notin {"run", "publish", "idle"}
      BY DEF Draining
    <2>2. Callers = {} /\ AbstractActive = {}
      BY <2>1, NoCallers DEF AbstractActive
    <2>3. Callers' = {} /\ AbstractActive' = {}
      <3>1. \A w \in Workers : wpc'[w] # "call"
        BY <2>1, NoCallers DEF IInv, TypeOK
      <3>2. Callers' = {}
        BY <3>1 DEF Callers
      <3> QED
        BY <3>2 DEF AbstractActive
    <2> QED
      BY <2>1, <2>2, <2>3 DEF Abstract!vars, AbstractPhase, AbstractTodo, AbstractBad, Draining
  <1>2. CASE CreateReturn
    <2> USE <1>2 DEF CreateReturn, pool, client, locals
    <2>1. Callers' = Callers /\ AbstractActive' = {} /\ AbstractActive = {}
      BY NoCallers DEF Callers, AbstractActive, Draining
    <2>2. Abstract!Open
      BY <2>1 DEF Abstract!Open, AbstractPhase, AbstractTodo, AbstractBad, Draining
    <2> QED
      BY <2>2 DEF Abstract!Next
  <1>3. CASE RunInvalid
    <2> USE <1>3 DEF RunInvalid, pool, locals
    <2>1. Callers' = Callers /\ AbstractActive' = AbstractActive
      BY DEF Callers, AbstractActive
    <2>2. Abstract!Refuse
      BY <2>1 DEF Abstract!Refuse, AbstractPhase, AbstractTodo, AbstractBad, Draining
    <2> QED
      BY <2>2 DEF Abstract!Next
  <1>4. ASSUME NEW n \in RowCounts, NEW c \in Contexts, RunCall(n, c)
        PROVE  [Abstract!Next]_(Abstract!vars)
    <2> USE <1>4 DEF RunCall, pool, locals
    <2>1. Callers' = Callers /\ AbstractActive' = AbstractActive
      BY DEF Callers, AbstractActive
    <2>2. Abstract!Submit(n)
      BY <2>1 DEF Abstract!Submit, AbstractPhase, AbstractTodo, AbstractBad, Draining
    <2> QED
      BY <2>2 DEF Abstract!Next
  <1>5. CASE CoordinatorEnter \/ RunSleep \/ RunWakeSpuriously
    <2> USE <1>5 DEF CoordinatorEnter, RunSleep, RunWakeSpuriously, pool, client, locals
    <2>1. Callers' = Callers /\ NotTaken' = NotTaken
      BY DEF Callers, NotTaken
    <2>2. /\ cpc \in Draining <=> cpc' \in Draining
          /\ cpc \in {"run", "publish"} <=> cpc' \in {"run", "publish"}
          /\ cpc # "idle" /\ cpc' # "idle"
          /\ argRows' = argRows /\ rows' = rows /\ outcome' = outcome
      BY DEF Draining
    <2>3. AbstractPhase' = AbstractPhase
      BY <2>2 DEF AbstractPhase, Draining
    <2>4. AbstractBad' = AbstractBad
      BY <2>2 DEF AbstractBad
    <2> QED
      BY <2>1, <2>2, <2>3, <2>4, InvisibleStep
  <1>6. CASE RunPublish
    <2> USE <1>6 DEF RunPublish, FailedReset, WakeReady, client, locals
    <2>1. Callers = {} /\ (\A w \in Workers : result[w] = 0) /\ \A w \in Workers : seen[w] = generation
      BY NoCallers, Identities DEF IInv, ResultInv, QuietInv, Quiet, PhaseInv, Draining
    <2>2. Callers' = {}
      BY <2>1 DEF Callers
    <2>3. AbstractActive = {} /\ AbstractActive' = {}
      BY <2>1, <2>2 DEF AbstractActive
    <2>4. NotTaken' = Workers
      BY <2>1, MaxJobsAssumption DEF NotTaken, IInv, TypeOK
    <2>5. AbstractTodo = 0 .. argRows - 1
      BY DEF AbstractTodo, Draining
    <2>6. AbstractTodo' = UNION { RowsOf(argRows, w, NWorkers) : w \in Workers }
      BY <2>4 DEF AbstractTodo, Draining
    <2>7. UNION { RowsOf(argRows, w, NWorkers) : w \in Workers } = 0 .. argRows - 1
      <3>1. argRows \in 0 .. (U32 - 1) /\ NWorkers \in 1 .. U32
        BY U32Assumption, NWorkersAssumption DEF IInv, TypeOK
      <3> QED
        BY <3>1, RangesCover DEF Covers, Workers
    <2>8. AbstractPhase' = AbstractPhase /\ AbstractBad' = AbstractBad /\ outcome' = outcome
      BY <2>1 DEF AbstractPhase, AbstractBad, Draining
    <2> QED
      BY <2>3, <2>5, <2>6, <2>7, <2>8 DEF Abstract!vars
  <1>7. CASE RunReturn
    <2> USE <1>7 DEF RunReturn, Drained, locals
    <2>1. Pending = {}
      <3>1. Cardinality(Pending) = 0
        BY DEF IInv, DrainInv, Draining
      <3> QED
        BY <3>1, WorkersFinite, FS_Subset, FS_EmptySet DEF Pending
    <2>2. NotTaken = {} /\ Callers = {} /\ Callers' = {}
      BY <2>1 DEF NotTaken, Callers, Pending
    <2>3. \A w \in Workers : result[w] = 0
      BY <2>1 DEF IInv, ResultInv, Pending
    <2>4. AbstractTodo = {} /\ AbstractTodo' = {} /\ AbstractActive = {} /\ AbstractActive' = {}
      BY <2>2 DEF AbstractTodo, AbstractActive, Draining
    <2>5. AbstractBad = failed /\ AbstractBad' = FALSE
      BY <2>3 DEF AbstractBad, Draining, IInv, TypeOK
    <2>6. AbstractPhase = "running" /\ AbstractPhase' = "open"
      BY DEF AbstractPhase, Draining
    <2>7. Abstract!Join
      BY <2>4, <2>5, <2>6 DEF Abstract!Join
    <2> QED
      BY <2>7 DEF Abstract!Next
  <1>8. CASE DestroyCall
    <2> USE <1>8 DEF DestroyCall, pool, client, locals
    <2>1. Callers' = Callers /\ AbstractActive' = AbstractActive
      BY DEF Callers, AbstractActive
    <2>2. Abstract!Close
      BY <2>1 DEF Abstract!Close, AbstractPhase, AbstractTodo, AbstractBad, Draining
    <2> QED
      BY <2>2 DEF Abstract!Next
  <1>9. CASE DestroyStop \/ DestroyJoin \/ DestroyFree
    <2> USE <1>9 DEF DestroyStop, DestroyJoin, DestroyFree, WakeStopped, WakeReady,
                     pool, client, locals
    <2>1. /\ cpc \in {"stop", "join"} /\ cpc' \in {"join", "none"} /\ outcome' = outcome
      OBVIOUS
    <2>2. Callers = {}
      BY <2>1, NoCallers DEF Draining
    <2>3. Callers' = {}
      <3>1. \A w \in Workers : wpc'[w] # "call"
        BY <2>2 DEF Callers
      <3> QED
        BY <3>1 DEF Callers
    <2>4. AbstractActive = {} /\ AbstractActive' = {}
      BY <2>2, <2>3 DEF AbstractActive
    <2> QED
      BY <2>1, <2>4 DEF Abstract!vars, AbstractPhase, AbstractTodo, AbstractBad, Draining
  <1> QED
    BY <1>1, <1>2, <1>3, <1>4, <1>5, <1>6, <1>7, <1>8, <1>9 DEF CoordinatorStep

(***************************************************************************)
(* The pool implements the fork/join its caller sees: a job's rows are     *)
(* each handed out once, all callbacks are joined before run returns, and  *)
(* run reports failure exactly when one of this job's callbacks failed.    *)
(***************************************************************************)
THEOREM PoolImplementsForkJoin == Spec => ImplementsForkJoin
  <1>1. Init => Abstract!Init
    BY InitAbstract
  <1>2. IInv /\ [Next]_vars => [Abstract!Next]_(Abstract!vars)
    <2> SUFFICES ASSUME IInv, [Next]_vars
                 PROVE  [Abstract!Next]_(Abstract!vars)
      OBVIOUS
    <2>1. ASSUME NEW w \in Workers, WorkerStep(w)
          PROVE  [Abstract!Next]_(Abstract!vars)
      BY <2>1, WorkerImplements
    <2>2. CASE CoordinatorStep
      BY <2>2, CoordinatorImplements
    <2>3. CASE UNCHANGED vars
      BY <2>3 DEF vars, pool, client, locals, Abstract!vars, AbstractPhase, AbstractTodo,
                  AbstractActive, AbstractBad, NotTaken, Callers
    <2> QED
      BY <2>1, <2>2, <2>3 DEF Next
  <1> QED
    BY <1>1, <1>2, PoolInvariant, PTL DEF Spec, Abstract!Spec, ImplementsForkJoin
-----------------------------------------------------------------------------
(***************************************************************************)
(* No call of the pool comes to a standstill.  A thread can run when it is *)
(* not waiting for the lock, for a wake-up or for another thread's exit;   *)
(* in each of its states below one of its actions is then possible.        *)
(***************************************************************************)
WorkerCanRun(w) ==
  \/ wpc[w] \in {"enter", "reenter"} /\ lock = Nobody
  \/ wpc[w] \in {"check", "call", "finish"}

CoordinatorCanRun ==
  \/ cpc \in {"run", "drain_enter", "destroy"} /\ lock = Nobody
  \/ cpc \in {"create", "publish", "drain", "stop"}
  \/ cpc = "join" /\ (joined = created \/ wpc[joined] = "exited")

CallUnderWay == cpc \notin {"none", "idle"}

NoStandstill == CallUnderWay => CoordinatorCanRun \/ \E w \in Workers : WorkerCanRun(w)

(* While the calling thread sleeps, some worker that owes a report can run. *)
LEMMA DrainAdvances ==
  ASSUME IInv, lock = Nobody, cpc = "drain_asleep"
  PROVE  \E w \in Workers : WorkerCanRun(w)
  <1>1. /\ remaining > 0 /\ remaining = Cardinality(Pending)
        /\ \A w \in Workers : Waiting(w) \/ Working(w) \/ Quiet(w)
    BY DEF IInv, DrainInv, Draining
  <1>2. Pending # {}
    BY <1>1, FS_EmptySet
  <1>3. PICK w \in Workers : seen[w] # generation \/ wpc[w] \in {"call", "reenter", "finish"}
    BY <1>2 DEF Pending
  <1>4. Waiting(w) \/ Working(w)
    BY <1>1, <1>3 DEF Quiet
  <1>5. wpc[w] \in {"enter", "check", "call", "reenter", "finish"}
    BY <1>4 DEF Waiting, Working
  <1> QED
    BY <1>5 DEF WorkerCanRun

(* While destroy waits for a thread, that thread is on its way out.        *)
LEMMA JoinAdvances ==
  ASSUME IInv, lock = Nobody, cpc = "join"
  PROVE  CoordinatorCanRun \/ \E w \in Workers : WorkerCanRun(w)
  <1>1. /\ joined <= created /\ created <= NWorkers /\ joined \in Nat /\ created \in Nat
        /\ \A w \in Workers : w < created => wpc[w] \in {"enter", "check", "exited"}
    BY Identities DEF IInv, JoinInv, TypeOK
  <1>2. CASE joined = created
    BY <1>2 DEF CoordinatorCanRun
  <1>3. CASE joined # created
    <2>1. joined \in Workers /\ joined < created
      BY <1>1, <1>3, Identities
    <2>2. wpc[joined] \in {"enter", "check", "exited"}
      BY <1>1, <2>1
    <2> QED
      BY <2>1, <2>2 DEF CoordinatorCanRun, WorkerCanRun
  <1> QED
    BY <1>2, <1>3

(* No deadlock: whenever a call of the pool is under way, some thread is   *)
(* neither waiting for the lock, nor for a wake-up, nor for an exit        *)
(* (the sleeps of qx_row_pool_run and qx_row_pool_entry, the join of       *)
(* qx_row_pool_destroy), for any number of workers and jobs.               *)
THEOREM NoStandstillHolds == Spec => []NoStandstill
  <1>1. IInv => NoStandstill
    <2> SUFFICES ASSUME IInv, CallUnderWay
                 PROVE  CoordinatorCanRun \/ \E w \in Workers : WorkerCanRun(w)
      BY DEF NoStandstill
    <2>1. lock \in Workers \cup {Coordinator, Nobody} /\ LockOwner
      BY DEF IInv, TypeOK
    <2>2. CASE lock = Coordinator
      BY <2>1, <2>2 DEF LockOwner, CoordinatorCanRun
    <2>3. CASE lock \in Workers
      BY <2>1, <2>3 DEF LockOwner, WorkerCanRun
    <2>4. CASE lock = Nobody
      <3>1. cpc \in {"create", "run", "drain_asleep", "drain_enter", "destroy", "join"}
        BY <2>1, <2>4, Identities DEF IInv, TypeOK, CoordinatorStates, CallUnderWay, LockOwner
      <3>2. CASE cpc \in {"create", "run", "drain_enter", "destroy"}
        BY <2>4, <3>2 DEF CoordinatorCanRun
      <3> QED
        BY <2>4, <3>1, <3>2, DrainAdvances, JoinAdvances
    <2> QED
      BY <2>1, <2>2, <2>3, <2>4
  <1> QED
    BY <1>1, PoolInvariant, PTL

-----------------------------------------------------------------------------
(***************************************************************************)
(* Every step of a call brings it nearer to its return, spurious wake-ups  *)
(* apart: the coordinator passes to the next part of the call, or some     *)
(* thread comes nearer to the end of what it has to do in this part, and   *)
(* none is set back.                                                       *)
(***************************************************************************)
PartsLeft ==
  CASE cpc \in {"none", "idle"}    -> 0
    [] cpc \in Draining            -> 1
    [] cpc = "publish"             -> 2
    [] cpc = "run"                 -> 3
    [] cpc = "join"                -> 1
    [] cpc = "stop"                -> 2
    [] cpc = "destroy"             -> 3
    [] cpc = "create"              -> 4

WorkerLeft(w) ==
  CASE wpc[w] = "enter"   -> IF seen[w] # generation THEN 8 ELSE 2
    [] wpc[w] = "check"   -> IF seen[w] # generation THEN 7 ELSE 1
    [] wpc[w] = "call"    -> 6
    [] wpc[w] = "reenter" -> 5
    [] wpc[w] = "finish"  -> 4
    [] wpc[w] = "unborn"  -> 3
    [] wpc[w] \in {"asleep", "exited"} -> 0

CoordinatorLeft ==
  CASE cpc = "drain_enter"  -> IF remaining > 0 THEN 5 ELSE 2
    [] cpc = "drain"        -> IF remaining > 0 THEN 4 ELSE 1
    [] cpc = "drain_asleep" -> 3
    [] cpc = "join"         -> NWorkers - joined
    [] OTHER                -> 0

SpuriousWakeUp == RunWakeSpuriously \/ \E w \in Workers : WorkerWakeSpuriously(w)

NoneSetBack ==
  /\ \A w \in Workers : WorkerLeft(w)' <= WorkerLeft(w)
  /\ CoordinatorLeft' <= CoordinatorLeft

OneNearer ==
  \/ CoordinatorLeft' < CoordinatorLeft
  \/ \E w \in Workers : WorkerLeft(w)' < WorkerLeft(w)

CallNearer == PartsLeft' < PartsLeft \/ (PartsLeft' = PartsLeft /\ NoneSetBack /\ OneNearer)

CallsShrink == [][CallUnderWay => SpuriousWakeUp \/ CallNearer]_vars

\* The measures are natural numbers.
MeasuresOK ==
  /\ PartsLeft \in Nat /\ CoordinatorLeft \in Nat
  /\ \A w \in Workers : WorkerLeft(w) \in Nat

LEMMA MeasureTypes == IInv => MeasuresOK
  <1> SUFFICES ASSUME IInv PROVE MeasuresOK
    OBVIOUS
  <1>1. PartsLeft \in Nat
    BY DEF IInv, TypeOK, CoordinatorStates, Draining, PartsLeft
  <1>2. CoordinatorLeft \in Nat
    <2>1. NWorkers - joined \in Nat
      BY Identities DEF IInv, TypeOK
    <2> QED
      BY <2>1 DEF CoordinatorLeft
  <1>3. ASSUME NEW w \in Workers PROVE WorkerLeft(w) \in Nat
    <2>1. wpc[w] \in WorkerStates
      BY DEF IInv, TypeOK
    <2> QED
      BY <2>1 DEF WorkerStates, WorkerLeft
  <1> QED
    BY <1>1, <1>2, <1>3 DEF MeasuresOK

\* Only worker w changes, and comes nearer; the coordinator is not set back.
LEMMA WorkerComesNearer ==
  ASSUME MeasuresOK, MeasuresOK', NEW w \in Workers,
         WorkerLeft(w)' < WorkerLeft(w),
         \A v \in Workers : v # w => wpc'[v] = wpc[v] /\ seen'[v] = seen[v],
         generation' = generation, PartsLeft' = PartsLeft,
         CoordinatorLeft' <= CoordinatorLeft
  PROVE  CallNearer
  <1>1. \A v \in Workers : v # w => WorkerLeft(v)' = WorkerLeft(v)
    BY DEF WorkerLeft
  <1>2. \A v \in Workers : WorkerLeft(v)' <= WorkerLeft(v)
    BY <1>1 DEF MeasuresOK
  <1> QED
    BY <1>2 DEF CallNearer, NoneSetBack, OneNearer

LEMMA WorkerNearer ==
  ASSUME IInv, MeasuresOK, MeasuresOK', NEW w \in Workers, WorkerStep(w), CallUnderWay
  PROVE  SpuriousWakeUp \/ CallNearer
  <1>t. /\ wpc \in [Workers -> WorkerStates] /\ seen \in [Workers -> 0 .. MaxJobs]
    BY DEF IInv, TypeOK
  <1>1. CASE WorkerWakeSpuriously(w)
    BY <1>1 DEF SpuriousWakeUp
  <1>2. CASE WorkerEnter(w) \/ WorkerSleep(w) \/ WorkerReturn(w) \/ WorkerExit(w)
    <2>1. /\ UNCHANGED <<generation, remaining, joined, cpc, seen>>
          /\ \A v \in Workers : v # w => wpc'[v] = wpc[v]
      BY <1>2, <1>t DEF WorkerEnter, WorkerSleep, WorkerReturn, WorkerExit, pool, locals
    <2>2. \/ wpc[w] = "enter" /\ wpc'[w] = "check"
          \/ wpc[w] = "reenter" /\ wpc'[w] = "finish"
          \/ wpc[w] = "check" /\ wpc'[w] = "asleep"
          \/ wpc[w] = "call" /\ wpc'[w] = "reenter"
          \/ wpc[w] = "check" /\ wpc'[w] = "exited"
      BY <1>2, <1>t DEF WorkerEnter, WorkerSleep, WorkerReturn, WorkerExit
    <2>3. WorkerLeft(w)' < WorkerLeft(w)
      BY <2>1, <2>2 DEF WorkerLeft
    <2>4. PartsLeft' = PartsLeft /\ CoordinatorLeft' = CoordinatorLeft
      BY <2>1 DEF PartsLeft, CoordinatorLeft
    <2> QED
      BY <2>1, <2>3, <2>4, WorkerComesNearer DEF MeasuresOK
  <1>3. CASE WorkerTake(w)
    <2>1. /\ UNCHANGED <<generation, remaining, joined, cpc>>
          /\ \A v \in Workers : v # w => wpc'[v] = wpc[v] /\ seen'[v] = seen[v]
      BY <1>3, <1>t DEF WorkerTake, pool
    <2>2. wpc[w] = "check" /\ seen[w] # generation /\ wpc'[w] \in {"call", "reenter"}
      BY <1>3, <1>t DEF WorkerTake, Fresh
    <2>3. WorkerLeft(w)' < WorkerLeft(w)
      BY <2>2 DEF WorkerLeft
    <2>4. PartsLeft' = PartsLeft /\ CoordinatorLeft' = CoordinatorLeft
      BY <2>1 DEF PartsLeft, CoordinatorLeft
    <2> QED
      BY <2>1, <2>3, <2>4, WorkerComesNearer DEF MeasuresOK
  <1>4. CASE WorkerFinish(w)
    <2>1. /\ UNCHANGED <<generation, joined, seen>>
          /\ \A v \in Workers : v # w => wpc'[v] = wpc[v]
          /\ wpc[w] = "finish" /\ wpc'[w] = "check"
          /\ remaining' = remaining - 1
          /\ cpc' = IF remaining' = 0 /\ cpc = "drain_asleep" THEN "drain_enter" ELSE cpc
      BY <1>4, <1>t DEF WorkerFinish, WakeDrained
    <2>2. seen[w] = generation /\ cpc \in Draining
      <3>1. w < created /\ ~Quiet(w) /\ ~Waiting(w)
        BY <2>1, <1>t, Identities DEF IInv, Born, TypeOK, Quiet, Waiting
      <3>2. cpc \in Draining
        BY <2>1, <3>1 DEF IInv, QuietInv, JoinInv, NoUseAfterFree, TypeOK, CoordinatorStates, Draining
      <3> QED
        BY <3>1, <3>2 DEF IInv, DrainInv, Working
    <2>3. WorkerLeft(w)' < WorkerLeft(w)
      BY <2>1, <2>2 DEF WorkerLeft
    <2>4. cpc # "drain"
      BY <2>1, Identities DEF IInv, LockOwner
    <2>5. remaining \in Int /\ remaining' \in Int
      BY <2>1, Identities DEF IInv, TypeOK
    <2>6. PartsLeft' = PartsLeft
      BY <2>1, <2>2 DEF PartsLeft, Draining
    <2>7. CoordinatorLeft' <= CoordinatorLeft
      BY <2>1, <2>2, <2>4, <2>5 DEF CoordinatorLeft, Draining
    <2> QED
      BY <2>1, <2>3, <2>6, <2>7, WorkerComesNearer
  <1> QED
    BY <1>1, <1>2, <1>3, <1>4 DEF WorkerStep

LEMMA CoordinatorNearer ==
  ASSUME IInv, MeasuresOK, MeasuresOK', CoordinatorStep, CallUnderWay
  PROVE  SpuriousWakeUp \/ CallNearer
  <1>1. CASE RunWakeSpuriously
    BY <1>1 DEF SpuriousWakeUp
  <1>2. CASE CreatePool \/ RunInvalid \/ DestroyCall \/ \E n \in RowCounts, c \in Contexts : RunCall(n, c)
    BY <1>2 DEF CreatePool, RunInvalid, DestroyCall, RunCall, CallUnderWay
  <1>3. CASE \/ CreateThreadFails \/ CreateReturn \/ RunPublish \/ RunReturn \/ DestroyStop \/ DestroyFree
             \/ CoordinatorEnter /\ cpc # "drain_enter"
    <2>1. \/ cpc = "create" /\ cpc' \in {"destroy", "idle"}
          \/ cpc = "run" /\ cpc' = "publish"
          \/ cpc = "publish" /\ cpc' = "drain"
          \/ cpc = "drain" /\ cpc' = "idle"
          \/ cpc = "destroy" /\ cpc' = "stop"
          \/ cpc = "stop" /\ cpc' = "join"
          \/ cpc = "join" /\ cpc' = "none"
      BY <1>3 DEF CreateThreadFails, CreateReturn, RunPublish, RunReturn, DestroyStop, DestroyFree,
                  CoordinatorEnter
    <2>2. PartsLeft' < PartsLeft
      BY <2>1 DEF PartsLeft, Draining
    <2> QED
      BY <2>2 DEF CallNearer
  <1>4. CASE CreateThread
    <2>1. /\ cpc = "create" /\ created < NWorkers /\ UNCHANGED <<generation, remaining, joined, cpc, seen>>
          /\ wpc' = [wpc EXCEPT ![created] = "enter"]
      BY <1>4 DEF CreateThread, pool, locals
    <2>2. PICK w : w = created
      OBVIOUS
    <2>3. /\ w \in Workers /\ wpc[w] = "unborn" /\ seen[w] = generation
          /\ wpc \in [Workers -> WorkerStates]
      BY <2>1, <2>2, Identities DEF IInv, TypeOK, Born, PhaseInv
    <2>4. WorkerLeft(w)' < WorkerLeft(w)
      <3>1. wpc'[w] = "enter" /\ seen'[w] = generation' /\ wpc[w] = "unborn"
        BY <2>1, <2>2, <2>3
      <3>2. WorkerLeft(w) = 3
        BY <3>1 DEF WorkerLeft
      <3> QED
        BY <3>1, <3>2 DEF WorkerLeft
    <2>5. PartsLeft' = PartsLeft /\ CoordinatorLeft' = CoordinatorLeft
      BY <2>1 DEF PartsLeft, CoordinatorLeft
    <2> QED
      BY <2>1, <2>2, <2>3, <2>4, <2>5, WorkerComesNearer DEF MeasuresOK
  <1>5. CASE \/ RunSleep \/ DestroyJoin
             \/ CoordinatorEnter /\ cpc = "drain_enter"
    <2>1. /\ UNCHANGED <<generation, remaining, wpc, seen>>
          /\ \/ cpc = "drain_enter" /\ cpc' = "drain" /\ UNCHANGED joined
             \/ cpc = "drain" /\ cpc' = "drain_asleep" /\ remaining > 0 /\ UNCHANGED joined
             \/ cpc = "join" /\ cpc' = "join" /\ joined' = joined + 1
      BY <1>5 DEF RunSleep, DestroyJoin, CoordinatorEnter, pool, locals
    <2>2. PartsLeft' = PartsLeft
      BY <2>1 DEF PartsLeft, Draining
    <2>3. CoordinatorLeft' < CoordinatorLeft
      <3>1. joined \in Int /\ NWorkers \in Int
        BY Identities DEF IInv, TypeOK
      <3> QED
        BY <2>1, <3>1 DEF CoordinatorLeft
    <2>4. \A w \in Workers : WorkerLeft(w)' = WorkerLeft(w)
      BY <2>1 DEF WorkerLeft
    <2> QED
      BY <2>2, <2>3, <2>4 DEF CallNearer, NoneSetBack, OneNearer, MeasuresOK
  <1> QED
    BY <1>1, <1>2, <1>3, <1>4, <1>5 DEF CoordinatorStep

(* A call does not go round in circles: but for spurious wake-ups, every   *)
(* step of any thread brings the call under way nearer to its return. With *)
(* NoStandstill: a call that only finitely many spurious wake-ups disturb  *)
(* returns as soon as the threads that can run do.                         *)
THEOREM CallsTerminate == Spec => CallsShrink
  <1>1. IInv /\ IInv' /\ [Next]_vars => [CallUnderWay => SpuriousWakeUp \/ CallNearer]_vars
    <2> SUFFICES ASSUME IInv, IInv', Next, CallUnderWay
                 PROVE  SpuriousWakeUp \/ CallNearer
      OBVIOUS
    <2>1. MeasuresOK /\ MeasuresOK'
      <3>1. IInv' => MeasuresOK'
        BY MeasureTypes, PTL
      <3> QED
        BY <3>1, MeasureTypes
    <2> QED
      BY <2>1, WorkerNearer, CoordinatorNearer DEF Next
  <1> QED
    BY <1>1, PoolInvariant, PTL DEF Spec, CallsShrink
=============================================================================
