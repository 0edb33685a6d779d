----------------------------- MODULE MCMoeLayer -----------------------------
(***************************************************************************)
(* Two of three experts per token and two output rows.  An expert's gate   *)
(* and up slices take one byte each, its down slice two: a layer call      *)
(* needs eight bytes, more than the budget of six, and two calls run into  *)
(* the limit of the byte counter.                                          *)
(***************************************************************************)
EXTENDS MoeLayer, FiniteSetsExt, TLC

MCKeys == Experts \X Matrices
MCSizeOf == [k \in MCKeys |-> IF k[2] = "down" THEN 2 ELSE 1]
MCBytes == [K \in SUBSET MCKeys |-> MapThenSumSet(LAMBDA k : MCSizeOf[k], K)]
MCSliceKey == [k \in MCKeys |-> k]

Symmetry == Permutations(Experts) \cup Permutations(Addrs)
=============================================================================
