--------------------------- MODULE MCExpertCache ---------------------------
(***************************************************************************)
(* Model-checking instance of ExpertCache: slices of one and three bytes   *)
(* and one that is larger than the budget.                                 *)
(***************************************************************************)
EXTENDS ExpertCache, FiniteSetsExt, TLC

CONSTANTS small1, small2, big, huge

MCSizeOf == small1 :> 1 @@ small2 :> 1 @@ big :> 3 @@ huge :> 4
MCBytes == [K \in SUBSET Keys |-> MapThenSumSet(LAMBDA k : SizeOf[k], K)]
=============================================================================
