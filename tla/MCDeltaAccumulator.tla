------------------------- MODULE MCDeltaAccumulator -------------------------
(* Instances of DeltaAccumulator for TLC.                                  *)
EXTENDS DeltaAccumulator, TLC

ChargesAndRefunds == {2, -1, -2}
=============================================================================
