-------------------------------- MODULE MCLive --------------------------------
(***************************************************************************)
(* What must eventually happen, in four parts of the gateway that are      *)
(* checked on instances of their own: the budget accumulator, the usage    *)
(* worker, the analytics coordinators and the process.  The initial state  *)
(* chooses the part that moves; fairness is stated for the steps of that   *)
(* part only.                                                              *)
(***************************************************************************)
EXTENDS DeltaAccumulator

CONSTANTS
    Requests, Kinds, Capacity, None,                           \* UsageObservation
    Callers, Queries, GateCapacity, MaxCache, CacheTTL,
    MaxDoAttempts, MaxCacheTime,                               \* AnalyticsCoordinator
    Exchanges,                                                 \* GatewayProcess's Requests
    Probes, CompletionCapacity, HistoryCapacity, ClientSets    \* GatewayProcess

VARIABLES
    slots, queue, usageWake, usageAccepting, draining, stopped, active, phase, usageWorker,
    stopper, handler, ticket, record, discarded,
    gateActive, cacheTime, cache, cacheOrder, inFlight, call, caller,
    main, ending, deadline, listening, httpErr, db, gatewayDraining, exchange, serving,
    probe, emission, usage, saver, completion, history,
    part

Observation == INSTANCE UsageObservation WITH
    wake <- usageWake, accepting <- usageAccepting, worker <- usageWorker

Analytics == INSTANCE AnalyticsCoordinator WITH flight <- call

Process == INSTANCE GatewayProcess WITH
    Requests <- Exchanges, handler <- exchange, draining <- gatewayDraining

usageVars == <<slots, queue, usageWake, usageAccepting, draining, stopped, active, phase,
               usageWorker, stopper, handler, ticket, record, discarded>>
analyticsVars == <<gateActive, cacheTime, cache, cacheOrder, inFlight, call, caller>>
gatewayVars == <<main, ending, deadline, listening, httpErr, db, gatewayDraining, exchange,
                 serving, probe, emission, usage, saver, completion, history>>
liveVars == <<accVars, usageVars, analyticsVars, gatewayVars, part>>

LiveInit ==
    /\ part \in {"accumulator", "usage", "coordinator", "process"}
    /\ Init /\ Observation!Init /\ Analytics!CoordinatorInit /\ Process!ProcessInit

LiveNext ==
    /\ \/ part = "accumulator" /\ Next /\ UNCHANGED <<usageVars, analyticsVars, gatewayVars>>
       \/ part = "usage" /\ Observation!Next /\ UNCHANGED <<accVars, analyticsVars, gatewayVars>>
       \/ part = "coordinator" /\ Analytics!CoordinatorNext
                               /\ UNCHANGED <<accVars, usageVars, gatewayVars>>
       \/ part = "process" /\ Process!ProcessNext /\ UNCHANGED <<accVars, usageVars, analyticsVars>>
    /\ UNCHANGED part

(***************************************************************************)
(* The accumulator: its goroutine is scheduled, every write returns, the   *)
(* backoff timer fires, and a wait that begins with stop closed ends by    *)
(* it, as the timer has not fired yet; no write need succeed and no        *)
(* deadline pass.                                                          *)
(* The usage worker: a goroutine that can run does; nothing forces a       *)
(* response to end, a stop to be requested or its deadline to pass.        *)
(* The coordinators: goroutines run and a query of SQLite returns.         *)
(* The process: main runs and its timer fires; handlers, SQLite and the    *)
(* sink of the log may hang.                                               *)
(***************************************************************************)
LiveSpec ==
    /\ LiveInit /\ [][LiveNext]_liveVars
    /\ WF_accVars(part = "accumulator" /\ Wake) /\ WF_accVars(part = "accumulator" /\ Take)
    /\ WF_accVars(part = "accumulator" /\ Check) /\ WF_accVars(part = "accumulator" /\ Retry)
    /\ WF_accVars(part = "accumulator" /\ (WriteSucceeds \/ WriteFails))
    /\ SF_accVars(part = "accumulator" /\ GiveUp) /\ WF_accVars(part = "accumulator" /\ Exit)
    /\ WF_usageVars(part = "usage" /\ Observation!WorkerStep)
    /\ WF_usageVars(part = "usage" /\ Observation!StopperStep)
    /\ \A r \in Requests : WF_usageVars(part = "usage" /\ Observation!HandlerStep(r))
    /\ \A c \in Callers :
         WF_analyticsVars(part = "coordinator" /\ (Analytics!Attempt(c) \/ Analytics!Leads(c)
                                                    \/ Analytics!Waits(c)))
    /\ WF_gatewayVars(part = "process" /\ Process!MainStep)
    /\ WF_gatewayVars(part = "process" /\ Process!DeadlineExpires)

ChargesAndRefunds == {2, -1, -2}
Q(coordinator, range) == [coordinator |-> coordinator, range |-> range]
SomeQueries == {Q(1, 1), Q(2, 1)}
SomeClients == {Exchanges \cup Probes}

\* UsageObservation.ObservationsEnd: every ticket is consumed (run, process) and
\* every completion record is emitted (completionOwnership).
ObservationsEnd == Observation!ObservationsEnd

\* UsageObservation.StopReturns: a stop that has begun returns (Drain, Shutdown).
StopReturns == Observation!StopReturns

\* AnalyticsCoordinator.CallersReturn: every call of Do returns.
CallersReturn == Analytics!CallersReturn

\* GatewayProcess.ShutdownReturns: a shutdown returns, even if every handler
\* and every worker hangs (shutdownGateway, cleanupStartup).
ShutdownReturns == Process!ShutdownReturns
===============================================================================
