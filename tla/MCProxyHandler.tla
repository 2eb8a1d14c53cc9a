--------------------------- MODULE MCProxyHandler ---------------------------
(* Instances of ProxyHandler for TLC.                                      *)
EXTENDS ProxyHandler, TLC

Free       == [max |-> 0, tokens |-> FALSE, budget |-> FALSE]
Single     == [max |-> 1, tokens |-> TRUE, budget |-> FALSE]
Restricted == [max |-> 2, tokens |-> TRUE, budget |-> TRUE]

ThreePolicies == {Free, Single, Restricted}
Symmetric     == Permutations(Requests)
=============================================================================
