-------------------------- MODULE MCGenerationLoop --------------------------
(***************************************************************************)
(* Two layers.  The INT8 configuration has a context of four positions, of *)
(* which a snapshot may use three; the F32 one has a context of two.       *)
(***************************************************************************)
EXTENDS GenerationLoop, TLC

Config(layers, ctx, format) ==
  [layers |-> layers, ctx |-> ctx, format |-> format]

Int8 == Config(2, 4, "int8")
F32 == Config(2, 2, "f32")
MCConfigs == {Int8, F32}

Prompts(n) == UNION {[1 .. k -> Tokens] : k \in 1 .. n}

\* The probe commands: with and without snapshots and residual replay.
StateCalls ==
  [entry : {"state"}, prompt : Prompts(2), gen : 1 .. 2, first : {0},
   replay : {FALSE}, in : BOOLEAN, out : BOOLEAN, config : MCConfigs,
   eos : {None}, capacity : {0}]
ReplayCalls ==
  [entry : {"state"}, prompt : Prompts(1), gen : {1}, first : {0, 1},
   replay : {TRUE}, in : BOOLEAN, out : BOOLEAN, config : MCConfigs,
   eos : {None}, capacity : {0}]
\* The library entries.
LibraryCalls ==
  [entry : {"fixed", "buffer"}, prompt : Prompts(3), gen : 1 .. 4, first : {0},
   replay : {FALSE}, in : {FALSE}, out : {FALSE}, config : {Int8},
   eos : Tokens \cup {None}, capacity : {2, 4}]

ProbeCalls == StateCalls \cup ReplayCalls
\* For liveness: the library entries, and every kind of run of a probe.
LiveCalls ==
  LibraryCalls \cup
  {c \in ProbeCalls : /\ c.config = F32 /\ c.gen = 1 /\ Len(c.prompt) = 1
                      /\ ~(c.in /\ c.out) /\ ~(c.in /\ c.replay)}

Symmetry == Permutations(Tokens)
=============================================================================
