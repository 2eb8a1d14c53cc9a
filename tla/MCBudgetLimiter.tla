--------------------------- MODULE MCBudgetLimiter ---------------------------
(* Instances of BudgetLimiter for TLC.                                     *)
EXTENDS BudgetLimiter, TLC

Unlimited == [d \in {} |-> 0]
TotalOnly == [d \in {"total"} |-> 4]
DayMonth  == [d \in {"day", "month"} |-> IF d = "day" THEN 2 ELSE 4]
TotalDay  == [d \in {"total", "day"} |-> IF d = "day" THEN 2 ELSE 3]

AllPolicies    == {Unlimited, TotalOnly, DayMonth, TotalDay}
LatePolicies   == {TotalDay}
ReportedCosts  == {Unknown, 0, 3}     \* unreported, nothing, above any estimate
Symmetric      == Permutations(Reservations)
=============================================================================
