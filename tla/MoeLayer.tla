------------------------------ MODULE MoeLayer ------------------------------
(***************************************************************************)
(* One mixture-of-experts layer of a run (qx_apply_real_moe_layer and      *)
(* qx_packed_expert_matvec_mode): for every selected expert three matrix   *)
(* products, each of which borrows a packed slice from the expert cache    *)
(* (or reads its own copy), lets the row pool (or the calling thread)      *)
(* compute the output rows from it, and gives the slice back.              *)
(*                                                                         *)
(* The module composes ExpertCache, whose actions it calls, with what the  *)
(* row pool is shown to implement, ForkJoin.  The cache is used by the     *)
(* calling thread only, while callbacks read the slice concurrently.       *)
(***************************************************************************)
EXTENDS ExpertCache

CONSTANTS
  Experts,
  Ranks,       \* experts selected per token, 8 in the code
  SliceKey,    \* the cache key of an expert's slice of a matrix
  Rows,        \* output rows of a matrix product
  Local        \* the qx_expert_cache_borrow of qx_packed_expert_matvec_mode

Matrices == {"gate", "up", "down"}

ASSUME LayerAssumption ==
  /\ Ranks \in Nat \ {0} /\ Rows \in Nat \ {0}
  /\ SliceKey \in [Experts \X Matrices -> Keys]
  /\ Borrows = {Local}

VARIABLES
  usesCache, usesPool,       \* expert_cache and moe_pool are given
  step,                      \* where the run is
  selected,                  \* selected_experts
  rank, matrix,              \* the matrix product under way
  slice,                     \* the borrowed slice, or NULL
  raw,                       \* the contents of the slice's own copy, or NULL
  ok,                        \* what the product returned
  buffers,                   \* for each row of gate_values, up_values and
                             \* expert_output: the slice it was computed from
  summed,                    \* the experts already added to moe_output
  phase, todo, active, bad, outcome   \* the row pool

poolVars == <<phase, todo, active, bad, outcome>>
policy == <<usesCache, usesPool>>
product == <<selected, rank, matrix>>
lent == <<slice, raw>>
allVars == <<vars, policy, step, product, lent, ok, buffers, summed, poolVars>>

Pool == INSTANCE ForkJoin WITH RowCounts <- {Rows}

Steps == {"off", "setup", "ready", "acquire", "acquiring", "lent", "running",
          "release", "closing", "closed"}

Key == SliceKey[<<selected[rank], matrix>>]
Blank == [x \in Matrices |-> [r \in 0 .. Rows - 1 |-> NULL]]

MoeInit ==
  /\ Init /\ Pool!Init
  /\ usesCache = FALSE /\ usesPool = FALSE /\ step = "off"
  /\ selected \in [1 .. Ranks -> Experts] /\ rank = 1 /\ matrix = "gate"
  /\ slice = NULL /\ raw = NULL /\ ok = FALSE
  /\ buffers = Blank /\ summed = {}

-----------------------------------------------------------------------------
(***************************************************************************)
(* The run around the layer: qx_run_prompt_state_loop sets up the cache,   *)
(* then the pool, and on every way out destroys the pool, then the cache.  *)
(***************************************************************************)
OpenRun(cached, pooled) ==
  /\ step = "off"
  /\ IF cached THEN CacheInit ELSE UNCHANGED vars
  /\ usesCache' = cached /\ usesPool' = pooled
  /\ step' = IF pooled THEN "setup" ELSE "ready"
  /\ UNCHANGED <<product, lent, ok, buffers, summed, poolVars>>

CreatePool ==
  /\ step = "setup"
  /\ \/ Pool!Open /\ step' = "ready"
     \/ step' = "closed" /\ UNCHANGED poolVars
  /\ UNCHANGED <<vars, policy, product, lent, ok, buffers, summed>>

EndRun ==
  /\ step = "ready"
  /\ step' = "closing"
  /\ UNCHANGED <<vars, policy, product, lent, ok, buffers, summed, poolVars>>

DestroyPool ==
  /\ step = "closing"
  /\ IF usesPool THEN Pool!Close ELSE UNCHANGED poolVars
  /\ step' = "closed"
  /\ UNCHANGED <<vars, policy, product, lent, ok, buffers, summed>>

FinishAfterSuccess ==             \* mutant: an error return forgets the cache
  IF ok THEN Destroy ELSE UNCHANGED vars
\* qx_run_expert_cache_finish
Finish == Destroy

FinishCache ==
  /\ step = "closed"
  /\ IF usesCache THEN Finish ELSE UNCHANGED vars
  /\ step' = "off"
  /\ UNCHANGED <<policy, product, lent, ok, buffers, summed, poolVars>>

-----------------------------------------------------------------------------
(***************************************************************************)
(* The layer: zeroed buffers, the router's choice of distinct experts.     *)
(***************************************************************************)
LayerCall(choice) ==
  /\ step = "ready"
  /\ selected' = choice /\ rank' = 1 /\ matrix' = "gate"
  /\ buffers' = Blank /\ summed' = {}
  /\ step' = "acquire"
  /\ UNCHANGED <<vars, policy, lent, ok, poolVars>>

\* A norm, the router, an activation or an argument check fails.
LayerFails ==
  /\ step = "acquire"
  /\ step' = "closing"
  /\ UNCHANGED <<vars, policy, product, lent, ok, buffers, summed, poolVars>>

-----------------------------------------------------------------------------
(***************************************************************************)
(* qx_packed_expert_matvec_mode: the slice.                                *)
(***************************************************************************)
\* acquire returned or is still under way
Acquired ==
  /\ slice' = borrow'[Local]
  /\ step' = IF pc' # "idle" THEN "acquiring" ELSE IF slice' # NULL THEN "lent" ELSE "closing"
  /\ UNCHANGED <<policy, product, raw, ok, buffers, summed, poolVars>>

AcquireSlice ==
  /\ step = "acquire" /\ usesCache
  /\ Hit(Local, Key) \/ Miss(Local, Key)
  /\ Acquired

\* a counter of the cache is at its limit
AcquireRefused ==
  /\ step = "acquire" /\ usesCache
  /\ \/ requests = CounterMax
     \/ IF Cached(Key)
        THEN hits = CounterMax \/ ~Adds(bytesAvoided, SizeOf[Key])
        ELSE misses = CounterMax
  /\ step' = "closing"
  /\ UNCHANGED <<vars, policy, product, lent, ok, buffers, summed, poolVars>>

AcquireContinues ==
  /\ step = "acquiring"
  /\ AcquireStep
  /\ Acquired

\* qx_read_raw_span: an allocation and a read of its own
ReadSlice ==
  /\ step = "acquire" /\ ~usesCache
  /\ \/ raw' = Key /\ step' = "lent"
     \/ UNCHANGED raw /\ step' = "closing"
  /\ UNCHANGED <<vars, policy, product, slice, ok, buffers, summed, poolVars>>

\* What a read of the slice returns: freed memory has nothing to offer.
Contents ==
  IF ~usesCache THEN raw ELSE IF slice \in dataLive THEN keyOf[slice] ELSE NULL

-----------------------------------------------------------------------------
(***************************************************************************)
(* qx_packed_expert_matvec_mode: the rows.                                 *)
(***************************************************************************)
Write(S) ==
  buffers' = [buffers EXCEPT ![matrix] =
               [r \in 0 .. Rows - 1 |-> IF r \in S THEN Contents ELSE @[r]]]

\* without a pool: every row, unless a block does not decode
RowsSerial ==
  /\ step = "lent" /\ ~usesPool
  /\ \/ ok' = TRUE /\ Write(0 .. Rows - 1)
     \/ ok' = FALSE /\ \E n \in 0 .. Rows - 1 : Write(0 .. n - 1)
  /\ step' = "release"
  /\ UNCHANGED <<vars, policy, product, lent, summed, poolVars>>

RunRows ==
  /\ step = "lent" /\ usesPool
  /\ Pool!Submit(Rows)
  /\ step' = "running"
  /\ UNCHANGED <<vars, policy, product, lent, ok, buffers, summed>>

\* qx_moe_rows_run in a worker, on the rows S of its range
RowsStart(S) ==
  /\ Pool!Start(S)
  /\ UNCHANGED <<vars, policy, step, product, lent, ok, buffers, summed>>

RowsFinish(S, failure) ==
  /\ Pool!Finish(S, failure)
  /\ Write(IF failure THEN {} ELSE S)
  /\ UNCHANGED <<vars, policy, step, product, lent, ok, summed>>

JoinNobody ==                     \* mutant: run does not wait for the callbacks
  /\ phase = "running" /\ phase' = "open" /\ outcome' = "ok"
  /\ UNCHANGED <<todo, active, bad>>
Join == Pool!Join

JobIgnored == TRUE                \* mutant: the result of the job is not looked at
JobSucceeded == outcome' = "ok"

RunReturns ==
  /\ step = "running"
  /\ Join
  /\ ok' = JobSucceeded
  /\ step' = "release"
  /\ UNCHANGED <<vars, policy, product, lent, buffers, summed>>

-----------------------------------------------------------------------------
(***************************************************************************)
(* qx_packed_expert_matvec_mode returns: the slice is given back whatever  *)
(* happened, and the layer goes on to its next product.                    *)
(***************************************************************************)
\* The local borrow goes out of scope without a release.
Forgotten ==
  /\ borrow' = [borrow EXCEPT ![Local] = NULL] /\ want' = [want EXCEPT ![Local] = NULL]
  /\ UNCHANGED <<initialized, entries, heap, counters, request>>
KeepOnFailure ==                  \* mutant: the error return forgets the release
  IF ok THEN Release(Local) ELSE Forgotten
GiveBack == Release(Local)

ReleaseSlice ==
  /\ IF usesCache THEN GiveBack ELSE UNCHANGED vars
  /\ slice' = NULL /\ raw' = NULL

PastLastRank == rank > Ranks      \* mutant: one expert too many
LastRank == rank = Ranks

Return ==
  /\ step = "release"
  /\ ReleaseSlice
  /\ IF ~ok
     THEN step' = "closing" /\ UNCHANGED <<rank, matrix, summed>>
     ELSE \/ /\ matrix = "gate" /\ matrix' = "up"
             /\ step' = "acquire" /\ UNCHANGED <<rank, summed>>
          \/ /\ matrix = "up" /\ matrix' = "down"
             /\ step' = "acquire" /\ UNCHANGED <<rank, summed>>
          \/ /\ matrix = "down" /\ matrix' = "gate"
             /\ summed' = summed \cup {selected[rank]}
             /\ IF LastRank
                THEN step' = "ready" /\ rank' = 1
                ELSE step' = "acquire" /\ rank' = rank + 1
  /\ UNCHANGED <<policy, selected, ok, buffers, poolVars>>

-----------------------------------------------------------------------------
Selections == { s \in [1 .. Ranks -> Experts] : \A i, j \in 1 .. Ranks : i # j => s[i] # s[j] }

CallerStep ==
  \/ CreatePool \/ DestroyPool \/ FinishCache
  \/ LayerFails \/ AcquireSlice \/ AcquireRefused \/ AcquireContinues \/ ReadSlice
  \/ RowsSerial \/ RunRows \/ RunReturns \/ Return

PoolStep ==
  \/ \E S \in SUBSET todo : S # {} /\ RowsStart(S)
  \/ \E S \in SUBSET active : S # {} /\ \E failure \in BOOLEAN : RowsFinish(S, failure)

MoeNext ==
  \/ CallerStep \/ PoolStep \/ EndRun
  \/ \E cached, pooled \in BOOLEAN : OpenRun(cached, pooled)
  \/ \E choice \in Selections : LayerCall(choice)

MoeSpec == MoeInit /\ [][MoeNext]_allVars

\* The calling thread and the workers run; nobody has to call or end a run.
MoeFairSpec == MoeSpec /\ WF_allVars(CallerStep) /\ WF_allVars(PoolStep)

-----------------------------------------------------------------------------
(***************************************************************************)
(* "run joins every reader before the coordinator releases the borrowed    *)
(* slice": whenever a callback is inside its rows, the slice it reads is   *)
(* still held and is the one of the matrix product under way.              *)
(***************************************************************************)
ReadersHoldSlice == active # {} => Contents = Key

\* The admission of a slice that fits the budget finds an entry to evict.
AdmissionNeverBlocked == pc = "admit" /\ ~Fits => \E i \in DOMAIN list : Victim(i)

(***************************************************************************)
(* "Runtime callers are sequential and must release a borrow before their  *)
(* next acquire": nothing is pinned outside a matrix product, also after   *)
(* one that failed, so that an admission never finds every entry pinned.   *)
(***************************************************************************)
NothingPinnedBetween ==
  /\ step \notin {"lent", "running", "release"} => \A e \in Resident : pins[e] = 0
  /\ AdmissionNeverBlocked

(***************************************************************************)
(* A run leaves nothing behind, on no way out: no slice, no entry, no      *)
(* callback and no pool.                                                   *)
(***************************************************************************)
NothingOutlivesTheRun ==
  step = "off" => metaLive = {} /\ dataLive = {} /\ raw = NULL /\ active = {} /\ phase = "closed"

(***************************************************************************)
(* An expert is added to the layer's output only when every row of its     *)
(* three products was computed from that expert's own slices: none was     *)
(* skipped, left over from another expert or read from a slice gone stale. *)
(***************************************************************************)
SumsOwnProducts ==
  [][\A e \in summed' \ summed :
       \A x \in Matrices : \A r \in 0 .. Rows - 1 : buffers[x][r] = SliceKey[<<e, x>>]]_allVars

\* A layer that was called returns, or the run ends.
LayerReturns == (step \notin {"off", "ready"}) ~> (step \in {"off", "ready"})
=============================================================================
