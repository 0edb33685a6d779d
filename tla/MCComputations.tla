--------------------------- MODULE MCComputations ---------------------------
(***************************************************************************)
(* The sequential computations, checked side by side: the cut of a row     *)
(* job, the list of the best tokens, the tokenizer, its pre-tokenizer, the *)
(* gates of the policies, the scratch workspace and the placement of       *)
(* tensors.  `task` says which of them a behaviour carries out; the        *)
(* variables of the others keep a fixed idle value.                        *)
(***************************************************************************)
EXTENDS
  RowCuts, TopTokens, Tokenizer, PreTokenizer, PolicyGates, ScratchWorkspace,
  TensorLayout

VARIABLE task

vars == <<task, cutVars, topVars, tokenizerVars, segment, gateVars,
          scratchVars, layoutVars>>

-----------------------------------------------------------------------------
(* Tokenizers over the bytes a and b.  Special tokens overlap, contain one *)
(* another, share a prefix, or are empty; merges build on merges; symbols  *)
(* may be missing from the vocabulary.                                     *)
a == <<"a">>
b == <<"b">>
ab == <<"a", "b">>
bb == <<"b", "b">>
abb == <<"a", "b", "b">>
abab == <<"a", "b", "a", "b">>

NestedMerges == << <<a, b>>, <<b, b>>, <<ab, b>>, <<ab, ab>> >>
RunMerges == << <<bb, b>>, <<b, b>>, <<bb, bb>>, <<a, a>> >>

Overlapping ==
  [specials |-> << ab, <<"b", "b", "a">>, <<"b", "a", "a", "b">> >>,
   merges |-> NestedMerges, vocabulary |-> {a, b, ab, bb, abab},
   bos |-> "on", eos |-> "off"]

Prefixed ==
  [specials |-> << <<>>, a, abb, bb >>,
   merges |-> RunMerges,
   vocabulary |-> {a, b, bb, <<"b", "b", "b">>, <<"b", "b", "b", "b">>, <<"a", "a">>},
   bos |-> "off", eos |-> "on"]

NoMerges ==
  [specials |-> << abb >>, merges |-> <<>>, vocabulary |-> {a, b},
   bos |-> "off", eos |-> "off"]

MCTokenizers ==
  { Overlapping, Prefixed, NoMerges,
    [NoMerges EXCEPT !.bos = "missing"], [NoMerges EXCEPT !.eos = "missing"] }

-----------------------------------------------------------------------------
Idle(name) == task # name

Init ==
  /\ task \in {"rows", "top", "encode", "split", "gates", "scratch", "layout"}
  /\ CutInit
  /\ IF Idle("top") THEN logits = <<>> /\ scanned = 0 /\ top = <<>> ELSE TopInit
  /\ IF Idle("encode")
     THEN /\ tokenizer = NoMerges /\ text = <<>> /\ special = FALSE
          /\ offset = 0 /\ chunk = 0 /\ symbols = <<>> /\ work = 0
          /\ tokens = <<>> /\ encoding = "done"
     ELSE EncodeInit
  /\ SplitInit
  /\ IF Idle("gates")
     THEN /\ platform = <<>> /\ entry = "library" /\ options = <<>>
          /\ gates = <<>> /\ refusal = "none"
     ELSE GateInit
  /\ ScratchInit
  /\ IF Idle("layout")
     THEN /\ source = <<>> /\ starts = <<>> /\ sizes = <<>> /\ placed = <<>>
          /\ cursor = 0 /\ conversion = "none"
     ELSE LayoutInit

CutRows ==
  /\ task = "rows" /\ CutNext
  /\ UNCHANGED <<task, topVars, tokenizerVars, segment, gateVars, scratchVars,
                 layoutVars>>

CollectTop ==
  /\ task = "top" /\ TopNext
  /\ UNCHANGED <<task, cutVars, tokenizerVars, segment, gateVars, scratchVars,
                 layoutVars>>

Encode ==
  /\ task = "encode" /\ EncodeNext
  /\ UNCHANGED <<task, cutVars, topVars, segment, gateVars, scratchVars,
                 layoutVars>>

Split ==
  /\ task = "split" /\ SplitNext
  /\ UNCHANGED <<task, cutVars, topVars, tokenizerVars, gateVars, scratchVars,
                 layoutVars>>

AskGates ==
  /\ task = "gates" /\ GateNext
  /\ UNCHANGED <<task, cutVars, topVars, tokenizerVars, segment, scratchVars,
                 layoutVars>>

UseScratch ==
  /\ task = "scratch" /\ ScratchNext
  /\ UNCHANGED <<task, cutVars, topVars, tokenizerVars, segment, gateVars,
                 layoutVars>>

PlaceTensors ==
  /\ task = "layout" /\ LayoutNext
  /\ UNCHANGED <<task, cutVars, topVars, tokenizerVars, segment, gateVars,
                 scratchVars>>

Next ==
  \/ CutRows \/ CollectTop \/ Encode \/ Split \/ AskGates
  \/ UseScratch \/ PlaceTensors
Spec == Init /\ [][Next]_vars

=============================================================================
