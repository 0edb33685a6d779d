----------------------------- MODULE ModelFile -----------------------------
(***************************************************************************)
(* What writing a QXF file promises whoever reads the path: at any moment  *)
(* there is either no usable model there or exactly one complete model,    *)
(* never part of one and never a mixture of two.  A copy first withdraws   *)
(* the model that was there and publishes its own in a single step; a copy *)
(* that fails leaves nothing usable.                                       *)
(***************************************************************************)
CONSTANTS Models, None

VARIABLE model   \* the model a reader finds at the path, or None

Init == model = None

Withdraw == model # None /\ model' = None
Publish(m) == model = None /\ model' = m

Next == Withdraw \/ \E m \in Models : Publish(m)

Spec == Init /\ [][Next]_model
=============================================================================
