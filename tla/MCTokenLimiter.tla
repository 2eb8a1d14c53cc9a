--------------------------- MODULE MCTokenLimiter ---------------------------
(* Instances of TokenLimiter for TLC.  A window is <amount, duration>.     *)
EXTENDS TokenLimiter, TLC

Short == [amount |-> 3, duration |-> 2]
Long  == [amount |-> 4, duration |-> 3]
Small == [amount |-> 2, duration |-> 2]

Policies      == {{}, {Short}, {Short, Long}}
TwoCapacities == {{Small, Long}}
ReportedUsages == {-1, 0, 3}   \* malformed, nothing, more than any estimate
Symmetric     == Permutations(Reservations)
=============================================================================
