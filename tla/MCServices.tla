----------------------------- MODULE MCServices -----------------------------
(***************************************************************************)
(* The parts of the gateway that share no state with one another, checked  *)
(* in one run: the initial state chooses the part that moves, the others   *)
(* stay as they were.                                                      *)
(***************************************************************************)
EXTENDS ConcurrencyLimiter, RequestHistory, AdminSessions, RequestLimiter, KeyRegistry,
        TokenRecovery, AnalyticsCoordinator, TLC

VARIABLE part

\* The constants of the parts.
Arrival(id, key, finished, bodies) ==
    [id |-> id, key |-> key, finished |-> finished, bodies |-> bodies]
SomeArrivals ==
    {Arrival(1, 1, 1, TRUE), Arrival(2, 0, 2, FALSE), Arrival(2, 1, 1, FALSE),
     Arrival(3, 1, 0, TRUE), Arrival(1, 1, 0, FALSE)}

W(amount, duration) == [amount |-> amount, duration |-> duration]
SomeRatePolicies == {{}, {W(1, 2)}, {W(1, 2), W(2, 3)}, {W(2, 3)}}
SomeTokenWindows == {W(1, 1), W(2, 1), W(1, 2)}
SomeTokenPolicies == {{W(1, 1), W(2, 1)}, {W(1, 1), W(1, 2)}}

Q(coordinator, range) == [coordinator |-> coordinator, range |-> range]
SomeQueries == {Q(1, 1), Q(1, 2), Q(2, 1)}

servicesVars ==
    <<concurrencyVars, historyVars, rateVars, keyVars, recoveryVars, coordinatorVars,
      sessionVars, part>>

Init ==
    /\ part \in {"concurrency", "history", "rate", "keys", "recovery", "coordinator",
                 "sessions"}
    /\ LimiterInit /\ HistoryInit /\ RateInit /\ KeyInit
    /\ RecoveryInit /\ CoordinatorInit /\ SessionInit
    /\ part # "recovery" => policyRow = {W(1, 1), W(1, 2)} /\ legacy = <<>>

\* A step of one part.
Only(name, step, others) == part = name /\ step /\ UNCHANGED <<part, others>>

Next ==
    \/ Only("concurrency", LimiterNext,
            <<historyVars, rateVars, keyVars, recoveryVars, coordinatorVars, sessionVars>>)
    \/ Only("history", HistoryNext,
            <<concurrencyVars, rateVars, keyVars, recoveryVars, coordinatorVars, sessionVars>>)
    \/ Only("rate", RateNext,
            <<concurrencyVars, historyVars, keyVars, recoveryVars, coordinatorVars, sessionVars>>)
    \/ Only("keys", KeyNext,
            <<concurrencyVars, historyVars, rateVars, recoveryVars, coordinatorVars, sessionVars>>)
    \/ Only("recovery", RecoveryNext,
            <<concurrencyVars, historyVars, rateVars, keyVars, coordinatorVars, sessionVars>>)
    \/ Only("coordinator", CoordinatorNext,
            <<concurrencyVars, historyVars, rateVars, keyVars, recoveryVars, sessionVars>>)
    \/ Only("sessions", SessionNext,
            <<concurrencyVars, historyVars, rateVars, keyVars, recoveryVars, coordinatorVars>>)

Spec == Init /\ [][Next]_servicesVars
=============================================================================
