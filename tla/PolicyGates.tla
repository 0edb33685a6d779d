---------------------------- MODULE PolicyGates -----------------------------
(***************************************************************************)
(* Which combinations of policies a generation accepts.  The same options  *)
(* pass through gates that were written one by one: the command line, the  *)
(* native API, the entry of qx_run_prompt_state_loop, the packed experts   *)
(* of each layer and the final head.  The first three refuse before the    *)
(* model is opened; the others after a prefill through every layer.        *)
(*                                                                         *)
(* One step per gate.  Values no enumerator stands for are left out: the   *)
(* parser or the API refuses them, or the entry of the loop.  The CUDA     *)
(* device is external; creating its context can fail for other reasons,    *)
(* which ResourcePaths has.                                                *)
(***************************************************************************)
EXTENDS Integers, Sequences

CONSTANT ThreadCounts   \* values of threads; the gates tell 0, 1, 2..64, more

VARIABLES
  platform,   \* [windows, cuda, avx2]: what the build and the machine have
  entry,      \* how the run was started
  options,    \* the policies
  gates,      \* the gates still ahead
  refusal     \* the gate that refused, or "none"

gateVars == <<platform, entry, options, gates, refusal>>

Platforms == [windows : BOOLEAN, cuda : BOOLEAN, avx2 : BOOLEAN]

(* generate: the command.  v3, buffer, fixed: the native API with a v3     *)
(* profile, with a caller's buffer, and with the fixed legacy profile.     *)
(* probe: prompt-state-loop-probe.  library: the C function behind it.     *)
Route ==
  [generate |-> <<"generate", "api", "loop", "experts", "head">>,
   v3       |-> <<"api", "loop", "experts", "head">>,
   buffer   |-> <<"api", "loop", "experts", "head">>,
   fixed    |-> <<"api", "loop", "experts", "head">>,
   probe    |-> <<"probe", "loop", "experts", "head">>,
   library  |-> <<"loop", "experts", "head">>]

NativeEntries == {"generate", "v3", "buffer", "fixed"}

Policies ==
  [io : {"buffered", "mmap"}, kernel : {"baseline", "fused"},
   thread : {"serial", "pool", "moe-pool"}, threads : ThreadCounts,
   cuda : BOOLEAN, resident : BOOLEAN, budget : {0, 1},
   activation : {"f32", "q8_k_compat"}, simd : {"scalar", "avx2-fma"},
   version : 1 .. 3, profile : BOOLEAN]

(* The native entries fix activation and SIMD; the command always has      *)
(* version 3 and a profile; the probes have no version.                    *)
Expressible(e, o) ==
  /\ e \in NativeEntries => o.activation = "f32" /\ o.simd = "scalar"
  /\ e \notin {"v3", "buffer", "fixed"} => o.version = 3
  /\ e # "fixed" => o.profile

GateInit ==
  /\ platform \in Platforms
  /\ entry \in DOMAIN Route
  /\ options \in { o \in Policies : Expressible(entry, o) }
  /\ gates = Route[entry]
  /\ refusal = "none"

-----------------------------------------------------------------------------
SeveralThreads(o) == o.threads \in 2 .. 64

MoePoolFits(o) ==
  o.thread = "moe-pool" =>
    platform.windows /\ SeveralThreads(o) /\ o.io = "buffered" /\ ~o.cuda

ThreadsFit(o) ==
  /\ o.thread = "serial" => o.threads = 1
  /\ o.thread = "pool" => SeveralThreads(o)

CacheFits(o) ==
  /\ o.resident <=> o.budget > 0
  /\ o.resident => o.io = "buffered"

NeedsF32(o) ==
  o.activation # "f32" => o.thread = "serial" /\ o.simd = "scalar" /\ ~o.cuda

SimdFits(o) == o.simd = "avx2-fma" => o.kernel = "fused" /\ o.thread # "pool"

GenerateAccepts(o) ==
  /\ MoePoolFits(o) /\ ThreadsFit(o) /\ CacheFits(o)
  /\ o.cuda => platform.cuda

ProbeAccepts(o) ==
  /\ MoePoolFits(o) /\ ThreadsFit(o) /\ CacheFits(o) /\ NeedsF32(o) /\ SimdFits(o)
  /\ o.cuda => platform.cuda

(* qx_validate_native_generation_options and the checks of each API: the   *)
(* fields of a later version are reserved and zero in an earlier one, and  *)
(* a profile that cannot name a policy refuses it.                         *)
ApiAccepts(o) ==
  /\ o.version = 1 => ~o.cuda
  /\ o.version < 3 => ~o.resident /\ o.budget = 0
  /\ o.version = 3 => CacheFits(o)
  /\ MoePoolFits(o) /\ ThreadsFit(o)
  /\ entry \in {"buffer", "fixed"} => ~o.resident
  /\ entry = "fixed" /\ o.profile => ~o.cuda

\* threads == 0 means one.
LoopThreads(o) == [o EXCEPT !.threads = IF @ = 0 THEN 1 ELSE @]

(***************************************************************************)
(* Mutant of LoopAccepts: the loop forgets what Q8_K activation excludes.  *)
(***************************************************************************)
LoopForgetsActivation(o) ==
  LET p == LoopThreads(o) IN
  /\ MoePoolFits(p) /\ ThreadsFit(p) /\ CacheFits(p) /\ SimdFits(p)
  /\ p.cuda => platform.cuda

LoopAccepts(o) ==
  LET p == LoopThreads(o) IN
  /\ MoePoolFits(p) /\ ThreadsFit(p) /\ CacheFits(p) /\ NeedsF32(p) /\ SimdFits(p)
  /\ p.cuda => platform.cuda

(* qx_packed_expert_matvec_mode: the row pool computes F32 rows only, and    *)
(* the cache reads through the file handle, which a mapping does not have. *)
ExpertsAccept(o) ==
  /\ o.thread = "moe-pool" => o.activation = "f32"
  /\ o.resident => o.io = "buffered"

(* qx_compute_real_final_head; the loop passes "serial" for moe-pool.      *)
HeadAccepts(o) ==
  LET q8 == o.activation = "q8_k_compat"
      pool == o.thread = "pool"
      avx2 == o.simd = "avx2-fma"
  IN /\ pool => ~q8 /\ SeveralThreads(o)
     /\ avx2 => ~q8 /\ o.kernel = "fused" /\ ~pool /\ platform.avx2
     /\ pool /\ ~o.cuda => platform.windows

Accepts(gate, o) ==
  CASE gate = "generate" -> GenerateAccepts(o)
    [] gate = "probe" -> ProbeAccepts(o)
    [] gate = "api" -> ApiAccepts(o)
    [] gate = "loop" -> LoopAccepts(o)
    [] gate = "experts" -> ExpertsAccept(o)
    [] gate = "head" -> HeadAccepts(o)

PassGate ==
  /\ gates # <<>> /\ refusal = "none" /\ Accepts(Head(gates), options)
  /\ gates' = Tail(gates)
  /\ UNCHANGED <<platform, entry, options, refusal>>

Refuse ==
  /\ gates # <<>> /\ refusal = "none" /\ ~Accepts(Head(gates), options)
  /\ refusal' = Head(gates)
  /\ UNCHANGED <<platform, entry, options, gates>>

GateNext == PassGate \/ Refuse
GateSpec == GateInit /\ [][GateNext]_gateVars

-----------------------------------------------------------------------------
(* Two things are found out only at the first final head, after the whole  *)
(* prefill: a processor without AVX2, and the final-head pool of a build   *)
(* that is not for Windows.                                                *)
FoundAtHead(o) ==
  \/ o.simd = "avx2-fma" /\ ~platform.avx2
  \/ o.thread = "pool" /\ ~o.cuda /\ ~platform.windows

(* The native API leaves it to the loop to ask whether there is CUDA.      *)
FoundAtLoop(o) == o.cuda /\ ~platform.cuda

(* Whatever is refused is refused by the first gate it meets, before the   *)
(* model is opened: no gate accepts what a later one refuses, but for what *)
(* only the entry of the loop and the head ask.  (The callers of           *)
(* qx_run_prompt_state_loop, its entry and the layers behind it.)          *)
RefusedAtOnce ==
  refusal # "none" =>
    \/ refusal = Route[entry][1]
    \/ refusal = "loop" /\ FoundAtLoop(options)
    \/ refusal = "head" /\ FoundAtHead(options)
=============================================================================
