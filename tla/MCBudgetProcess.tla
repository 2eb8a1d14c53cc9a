--------------------------- MODULE MCBudgetProcess ---------------------------
(***************************************************************************)
(* The budget ledger and the life of the process, which share no state,    *)
(* checked in one run on instances of their own: the initial state chooses *)
(* the part that moves, the other stays as it was.                         *)
(***************************************************************************)
EXTENDS MCBudgetLimiter, GatewayProcess

VARIABLE part

SomeClients == {Requests, Probes}

BothInit ==
    /\ part \in {"budget", "process"}
    /\ Init /\ ProcessInit
    /\ part # "budget" => states = <<>> /\ \A k \in Keys : policies[k] = Unlimited
    /\ part # "process" => \A r \in Requests : handler[r] = "none"

BothNext ==
    /\ \/ part = "budget" /\ Next /\ UNCHANGED processVars
       \/ part = "process" /\ ProcessNext /\ UNCHANGED budgetVars
    /\ UNCHANGED part

BothSpec == BothInit /\ [][BothNext]_<<budgetVars, processVars, part>>
=============================================================================
