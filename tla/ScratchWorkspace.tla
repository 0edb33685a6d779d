-------------------------- MODULE ScratchWorkspace --------------------------
(***************************************************************************)
(* The persistent scratch workspace: one block from which every layer call *)
(* takes its buffers (qx_scratch_alloc).  Growing it moves it, so that     *)
(* every buffer taken before is stale.  Attention takes six buffers and    *)
(* uses all of them, and therefore first adds up what they need (the plan) *)
(* and grows the block once; a MoE layer takes a single buffer and cuts it *)
(* itself.  One step per buffer planned and per buffer taken.              *)
(*                                                                         *)
(* A size_t is a number up to SizeMax; sums and products are tested for    *)
(* overflow before they are formed.  realloc may fail; when it succeeds    *)
(* the old block is gone, wherever the new one is.                         *)
(***************************************************************************)
EXTENDS Integers, Sequences

CONSTANTS
  SizeMax,         \* SIZE_MAX
  Alignment,       \* 16 in the code
  FirstCapacity,   \* 4096 in the code
  Doublings,       \* how often it can be doubled within a size_t
  FloatSize, DoubleSize,
  Dims             \* what q_dims, output_dims, score_count, hidden and
                   \* intermediate can be

\* The sizes the block can grow to.
Capacities == { FirstCapacity * 2 ^ k : k \in 0 .. Doublings }

ASSUME ScratchAssumption ==
  /\ SizeMax \in Nat
  /\ Alignment \in Nat \ {0} /\ Alignment <= SizeMax
  /\ FloatSize \in Nat \ {0} /\ DoubleSize \in Nat \ {0}
  /\ Dims \subseteq Nat \ {0}
  /\ Capacities \subseteq 1 .. SizeMax

VARIABLES
  phase,      \* "idle", "plan", "take", "use"
  planned,    \* the buffers the plan counts: [count, size]
  plan,       \* its cursor after each of them, from 0
  needs,      \* the buffers the call takes
  buffers,    \* those it has taken: [block, from, to], or NULL
  block,      \* growth_events: names the block in use, 0 is none
  capacity,
  used

scratchVars == <<phase, planned, plan, needs, buffers, block, capacity, used>>

NULL == [block |-> 0, from |-> 0, to |-> 0]

ScratchInit ==
  /\ phase = "idle" /\ planned = <<>> /\ plan = <<0>>
  /\ needs = <<>> /\ buffers = <<>>
  /\ block = 0 /\ capacity = 0 /\ used = 0

-----------------------------------------------------------------------------
Vector(count, size) == [count |-> count, size |-> size]

(***************************************************************************)
(* Mutant of AttentionPlan: the plan was not extended when the weights got *)
(* a buffer of their own.                                                  *)
(***************************************************************************)
PlanWithoutWeights(q, o, s) ==
  << Vector(q, 1), Vector(o, 1), Vector(q, FloatSize), Vector(q, FloatSize),
     Vector(s, DoubleSize) >>

\* The two lists of qx_rope_gqa_attention_partial, written one by one: q_dims,
\* output_dims, score_count.
AttentionPlan(q, o, s) ==
  << Vector(q, 1), Vector(o, 1), Vector(q, FloatSize), Vector(q, FloatSize),
     Vector(s, DoubleSize), Vector(s, DoubleSize) >>

AttentionBuffers(q, o, s) ==
  << Vector(q, 1),            \* qbuf
     Vector(o, 1),            \* obuf
     Vector(q, FloatSize),    \* qfloat
     Vector(q, FloatSize),    \* context
     Vector(s, DoubleSize),   \* scores
     Vector(s, DoubleSize) >> \* weights

\* ffn_input, moe_output, expert_output and a spare one; gate, up and hidden.
MoeBuffers(hidden, intermediate) ==
  << Vector(4 * hidden + 3 * intermediate, FloatSize) >>

\* count * size does not overflow
Representable(need) == need.count <= SizeMax \div need.size
Bytes(need) == need.count * need.size

\* (cursor + 15) & ~15
AlignedUp(cursor) ==
  LET sum == cursor + (Alignment - 1) IN sum - (sum % Alignment)

\* Where a buffer ends that is placed behind the cursor, and whether that can
\* be told in a size_t.
EndBehind(cursor, need) == AlignedUp(cursor) + Bytes(need)

FitsBehind(cursor, need) ==
  /\ Representable(need)
  /\ cursor <= SizeMax - (Alignment - 1)
  /\ EndBehind(cursor, need) <= SizeMax

\* The call returns; its pointers are gone, the block stays.
Return ==
  /\ phase' = "idle" /\ planned' = <<>> /\ plan' = <<0>>
  /\ needs' = <<>> /\ buffers' = <<>>
  /\ UNCHANGED <<block, capacity, used>>

-----------------------------------------------------------------------------
BeginAttention ==
  /\ phase = "idle"
  /\ \E q, o, s \in Dims :
       planned' = AttentionPlan(q, o, s) /\ needs' = AttentionBuffers(q, o, s)
  /\ phase' = "plan" /\ used' = 0
  /\ UNCHANGED <<plan, buffers, block, capacity>>

BeginMoe ==
  /\ phase = "idle"
  /\ \E hidden, intermediate \in Dims :
       /\ 4 * hidden + 3 * intermediate <= SizeMax
       /\ needs' = MoeBuffers(hidden, intermediate)
  /\ phase' = "take" /\ used' = 0
  /\ UNCHANGED <<planned, plan, buffers, block, capacity>>

Cursor == plan[Len(plan)]

(* qx_scratch_plan_add for the next buffer.                                *)
PlanNext ==
  /\ phase = "plan" /\ Len(plan) <= Len(planned)
  /\ IF FitsBehind(Cursor, planned[Len(plan)])
     THEN /\ plan' = Append(plan, EndBehind(Cursor, planned[Len(plan)]))
          /\ UNCHANGED <<phase, planned, needs, buffers, block, capacity, used>>
     ELSE Return

(* qx_scratch_reserve_capacity with a block that is too small: it is       *)
(* doubled until it is enough.                                             *)
Grow(required) ==
  /\ required > capacity
  /\ \E c \in Capacities :
       /\ required <= c
       /\ \A d \in Capacities : required <= d => c <= d
       /\ capacity' = c
  /\ block' = block + 1

Reserve ==
  /\ phase = "plan" /\ Len(plan) > Len(planned)
  /\ Grow(Cursor) \/ (Cursor <= capacity /\ UNCHANGED <<block, capacity>>)
  /\ phase' = "take"
  /\ UNCHANGED <<planned, plan, needs, buffers, used>>

\* No memory, or the block cannot be doubled often enough.
ReserveFails ==
  phase = "plan" /\ Len(plan) > Len(planned) /\ Cursor > capacity /\ Return

Wanted == needs[Len(buffers) + 1]

(* qx_scratch_alloc for the next buffer.                                   *)
Take ==
  /\ phase = "take" /\ Len(buffers) < Len(needs)
  /\ FitsBehind(used, Wanted)
  /\ \/ Grow(EndBehind(used, Wanted))
     \/ EndBehind(used, Wanted) <= capacity /\ UNCHANGED <<block, capacity>>
  /\ buffers' = Append(buffers, [block |-> block', from |-> AlignedUp(used),
                                 to |-> EndBehind(used, Wanted)])
  /\ used' = EndBehind(used, Wanted)
  /\ UNCHANGED <<phase, planned, plan, needs>>

\* It fails; the caller asks for the others all the same.
TakeFails ==
  /\ phase = "take" /\ Len(buffers) < Len(needs)
  /\ ~FitsBehind(used, Wanted) \/ EndBehind(used, Wanted) > capacity
  /\ buffers' = Append(buffers, NULL)
  /\ UNCHANGED <<phase, planned, plan, needs, block, capacity, used>>

\* All pointers are tested when all are there.
TestBuffers ==
  /\ phase = "take" /\ Len(buffers) = Len(needs)
  /\ IF \E i \in DOMAIN buffers : buffers[i] = NULL
     THEN Return
     ELSE /\ phase' = "use"
          /\ UNCHANGED <<planned, plan, needs, buffers, block, capacity, used>>

EndCall == phase = "use" /\ Return

ScratchNext ==
  \/ BeginAttention \/ BeginMoe \/ PlanNext \/ Reserve \/ ReserveFails
  \/ Take \/ TakeFails \/ TestBuffers \/ EndCall

ScratchSpec == ScratchInit /\ [][ScratchNext]_scratchVars

-----------------------------------------------------------------------------
(* While a call uses its buffers, all of them are in the block there is,   *)
(* inside of it, large enough and apart from each other: taking one never  *)
(* moved the block under another (qx_rope_gqa_attention_partial).          *)
BuffersLive ==
  phase = "use" =>
    \A i \in DOMAIN buffers :
      /\ buffers[i].block = block
      /\ buffers[i].to <= capacity
      /\ buffers[i].to - buffers[i].from = Bytes(needs[i])
      /\ \A j \in 1 .. i - 1 : buffers[j].to <= buffers[i].from
=============================================================================
