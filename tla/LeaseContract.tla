---------------------------- MODULE LeaseContract ----------------------------
(***************************************************************************)
(* What the gateway promises about the resources of one proxied request,   *)
(* whatever happens to it: a request enters with a slot, reserves, starts  *)
(* upstream work at most once, settles every reservation exactly once and  *)
(* leaves holding nothing.  Work that never started upstream is free; work *)
(* that may have reached upstream is never free.                           *)
(***************************************************************************)
CONSTANTS
    Requests,
    Resources    \* the charged resources of a request

VARIABLES
    stage,   \* outside, inside, working or gone
    bill     \* of each resource: none, held, free or charged

contractVars == <<stage, bill>>

Init ==
    /\ stage = [r \in Requests |-> "outside"]
    /\ bill = [r \in Requests |-> [x \in Resources |-> "none"]]

Enter(r) ==
    /\ stage[r] = "outside"
    /\ stage' = [stage EXCEPT ![r] = "inside"]
    /\ UNCHANGED bill

Reserve(r, x) ==
    /\ stage[r] = "inside"
    /\ bill[r][x] = "none"
    /\ bill' = [bill EXCEPT ![r][x] = "held"]
    /\ UNCHANGED stage

Begin(r) ==
    /\ stage[r] = "inside"
    /\ \A x \in Resources : bill[r][x] \in {"none", "held"}
    /\ stage' = [stage EXCEPT ![r] = "working"]
    /\ UNCHANGED bill

Settle(r, x) ==
    /\ stage[r] \in {"inside", "working"}
    /\ bill[r][x] = "held"
    /\ bill' = [bill EXCEPT ![r][x] = IF stage[r] = "working" THEN "charged" ELSE "free"]
    /\ UNCHANGED stage

Leave(r) ==
    /\ stage[r] \in {"inside", "working"}
    /\ \A x \in Resources : bill[r][x] # "held"
    /\ stage' = [stage EXCEPT ![r] = "gone"]
    /\ UNCHANGED bill

Next ==
    \E r \in Requests :
        \/ Enter(r) \/ Begin(r) \/ Leave(r)
        \/ \E x \in Resources : Reserve(r, x) \/ Settle(r, x)

Spec == Init /\ [][Next]_contractVars
=============================================================================
