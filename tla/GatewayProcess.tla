---------------------------- MODULE GatewayProcess ----------------------------
(***************************************************************************)
(* The life of the gateway process: start-up, serving, and the three ways  *)
(* it ends (a signal, a listener that fails, a start-up that fails), with  *)
(* the parts it must stop in the right order: HTTP handlers and the wait   *)
(* group that counts them, the usage worker, the token and budget          *)
(* accumulators, the completion logger, the history worker, SQLite.        *)
(*                                                                         *)
(* The completion logger and the history worker are modelled step by step. *)
(* The usage worker and the accumulators appear by what main sees of them, *)
(* a goroutine that ends some time after it is told to stop, since         *)
(* UsageObservation and DeltaAccumulator model them; net/http by what main *)
(* relies on: Shutdown closes the listener and returns nil only when no    *)
(* connection is active.                                                   *)
(***************************************************************************)
EXTENDS Integers, Sequences, FiniteSets

CONSTANTS
    Requests,           \* proxied requests, each with one completion record
    Probes,             \* requests of /ready
    CompletionCapacity, \* of CompletionLogger.queue
    HistoryCapacity,    \* of HistoryPersistenceWorker.queue
    ClientSets            \* the sets of clients that may come

ASSUME GatewayProcessAssumption ==
    /\ Requests \cap Probes = {}
    /\ CompletionCapacity \in Nat \ {0} /\ HistoryCapacity \in Nat \ {0}

VARIABLES
    main,       \* where run is
    ending,     \* "no", "signal" (shutdownGateway) or "cleanup" (cleanupStartup)
    deadline,   \* the context of the shutdown has expired
    listening,  \* the listener accepts connections
    httpErr,    \* server.Shutdown returned an error
    db,         \* "open" or "closed"
    draining,   \* ReadinessState.draining
    handler,    \* "absent", "none", "dispatched" by net/http, "running", "done"
    serving,     \* the count of RequestLifecycle.active, its sentinel included
    probe,      \* the next check of each probe and whether all have passed
    emission,   \* where the completion record of a request is
    usage,      \* the usage worker: "run", "stop", "done"
    saver,      \* accumulator -> [state, stop]
    completion, \* the completion logger
    history     \* the history worker

httpVars == <<listening, httpErr, handler, serving, probe, draining>>
workerVars == <<emission, usage, saver, completion, history>>
mainVars == <<main, ending, deadline, db>>
processVars == <<main, ending, deadline, listening, httpErr, db, draining, handler,
                 serving, probe, emission, usage, saver, completion, history>>

Savers == {"token", "budget"}
Checks == <<"sqlite", "schema", "telemetry", "upstream", "lifecycle">>
Up == main # "exited"

ProcessInit ==
    /\ main = "starting" /\ ending = "no" /\ deadline = FALSE
    /\ listening = FALSE /\ httpErr = FALSE /\ db = "open" /\ draining = FALSE
    /\ \E clients \in ClientSets :
         handler = [r \in Requests \cup Probes |-> IF r \in clients THEN "none" ELSE "absent"]
    /\ serving = 1
    /\ probe = [p \in Probes |-> [next |-> 1, pass |-> TRUE, verdict |-> "none"]]
    /\ emission = [r \in Requests |-> [step |-> "none", by |-> "handler"]]
    /\ usage = "run"
    /\ saver = [s \in Savers |-> [state |-> "idle", stop |-> FALSE]]
    /\ completion = [accepting |-> TRUE, queue |-> <<>>, stop |-> FALSE, worker |-> "run",
                     joined |-> FALSE]
    /\ history = [accepting |-> TRUE, queue |-> <<>>, stop |-> FALSE, abort |-> FALSE,
                  worker |-> "none", started |-> "no"]

(***************************************************************************)
(* net/http, the handlers and RequestLifecycle.                            *)
(***************************************************************************)
Dispatch(r) ==
    /\ listening /\ handler[r] = "none"
    /\ handler' = [handler EXCEPT ![r] = "dispatched"]
    /\ UNCHANGED <<mainVars, workerVars, listening, httpErr, serving, probe, draining>>

HandlerEnters(r) ==
    /\ Up /\ handler[r] = "dispatched"
    /\ handler' = [handler EXCEPT ![r] = "running"]
    /\ serving' = serving + 1
    /\ UNCHANGED <<mainVars, workerVars, listening, httpErr, probe, draining>>

\* The deferred Done of RequestLifecycle.Handler.
Leaves(r) ==
    /\ handler' = [handler EXCEPT ![r] = "done"]
    /\ serving' = serving - 1

\* The response is over: settled, the record emitted or owned by the usage worker.
RequestEnds(r) ==
    /\ Up /\ handler[r] = "running" /\ (emission[r].by = "usage" \/ emission[r].step = "emitted")
    /\ Leaves(r)
    /\ UNCHANGED <<mainVars, workerVars, listening, httpErr, probe, draining>>

(***************************************************************************)
(* The completion record: CompletionLogger.Enqueue, then                   *)
(* HistoryPersistenceWorker.Submit, by the handler or by the usage worker  *)
(* the record was transferred to.                                          *)
(***************************************************************************)
Transfer(r) ==
    /\ Up /\ handler[r] = "running" /\ usage = "run"
    /\ emission[r] = [step |-> "none", by |-> "handler"]
    /\ emission' = [emission EXCEPT ![r].by = "usage"]
    /\ UNCHANGED <<mainVars, httpVars, usage, saver, completion, history>>

\* inFlight.Add(1).  The usage worker has adjusted the tickets before.
Enqueue(r) ==
    /\ Up /\ emission[r].step = "none"
    /\ emission[r].by = "handler" => handler[r] = "running"
    /\ emission' = [emission EXCEPT ![r].step = "entered"]
    /\ UNCHANGED <<mainVars, httpVars, usage, saver, completion, history>>

EnqueueChecks(r) ==
    /\ Up /\ emission[r].step = "entered"
    /\ emission' = [emission EXCEPT ![r].step = IF completion.accepting THEN "admitted" ELSE "logged"]
    /\ UNCHANGED <<mainVars, httpVars, usage, saver, completion, history>>

\* The nonblocking send; a full queue drops the record.
EnqueueSends(r) ==
    /\ Up /\ emission[r].step = "admitted"
    /\ emission' = [emission EXCEPT ![r].step = "logged"]
    /\ completion' = IF Len(completion.queue) < CompletionCapacity
                     THEN [completion EXCEPT !.queue = Append(@, r)] ELSE completion
    /\ UNCHANGED <<mainVars, httpVars, usage, saver, history>>

\* Mutant: Shutdown does not wait for the enqueues in flight.
NoneInFlight == {}
InFlight == {r \in Requests : emission[r].step \in {"entered", "admitted"}}

\* Under mu.
HistoryAccepts == history.accepting
Submit(r) ==
    /\ Up /\ emission[r].step = "logged"
    /\ emission' = [emission EXCEPT ![r].step = "emitted"]
    /\ history' = IF HistoryAccepts /\ Len(history.queue) < HistoryCapacity
                  THEN [history EXCEPT !.queue = Append(@, r)] ELSE history
    /\ UNCHANGED <<mainVars, httpVars, usage, saver, completion>>

(***************************************************************************)
(* The goroutines.                                                         *)
(***************************************************************************)
UsageEnds ==
    /\ Up /\ usage = "stop"
    /\ \A r \in Requests : emission[r].by = "usage" => emission[r].step = "emitted"
    /\ usage' = "done"
    /\ UNCHANGED <<mainVars, httpVars, emission, saver, completion, history>>

\* A request that was settled has left deltas; what is pending after a flush
\* that failed, or is settled meanwhile, is flushed again.
SaverWrites(s) ==
    /\ Up /\ saver[s].state = "idle"
    /\ \E r \in Requests : handler[r] = "done" \/ emission[r].step # "none"
    /\ saver' = [saver EXCEPT ![s].state = "writing"]
    /\ UNCHANGED <<mainVars, httpVars, emission, usage, completion, history>>

SaverWrote(s) ==
    /\ Up /\ saver[s].state = "writing"
    /\ saver' = [saver EXCEPT ![s].state = "idle"]
    /\ UNCHANGED <<mainVars, httpVars, emission, usage, completion, history>>

SaverEnds(s) ==
    /\ Up /\ saver[s].state = "idle" /\ saver[s].stop
    /\ saver' = [saver EXCEPT ![s].state = "done"]
    /\ UNCHANGED <<mainVars, httpVars, emission, usage, completion, history>>

\* CompletionLogger.run: the select between the queue and stop, and drain.
CompletionWrites ==
    /\ Up /\ completion.worker \in {"run", "drain"} /\ completion.queue # <<>>
    /\ completion' = [completion EXCEPT !.queue = Tail(@)]
    /\ UNCHANGED <<mainVars, httpVars, emission, usage, saver, history>>

CompletionStops ==
    /\ Up
    /\ \/ /\ completion.worker = "run" /\ completion.stop
          /\ completion' = [completion EXCEPT !.worker = "drain"]
       \/ /\ completion.worker = "drain" /\ completion.queue = <<>>
          /\ completion' = [completion EXCEPT !.worker = "done"]
    /\ UNCHANGED <<mainVars, httpVars, emission, usage, saver, history>>

HistoryWorker(from, to) ==
    history.worker = from /\ history' = [history EXCEPT !.worker = to]

\* The first retention pass.
HistoryStarts ==
    /\ Up /\ history.worker = "retention" /\ history.started = "no"
    /\ \E result \in {"ok", "failed"} :
         history' = [history EXCEPT !.worker = "run", !.started = result]
    /\ UNCHANGED <<mainVars, httpVars, emission, usage, saver, completion>>

\* process: Persist, and now and then a retention pass while it accepts.
HistoryTakes ==
    /\ Up /\ history.worker \in {"run", "drain"} /\ history.queue # <<>>
    /\ history' = [history EXCEPT !.queue = Tail(@),
                     !.worker = IF @ = "drain"
                                THEN IF history.abort THEN "drain" ELSE "persist drain"
                                ELSE "persist"]
    /\ UNCHANGED <<mainVars, httpVars, emission, usage, saver, completion>>

HistoryPersisted ==
    /\ Up
    /\ \/ HistoryWorker("persist drain", "drain")
       \/ HistoryWorker("persist", "run")
       \/ history.accepting /\ ~ history.abort /\ HistoryWorker("persist", "retention")
       \/ history.started # "no" /\ HistoryWorker("retention", "run")
    /\ UNCHANGED <<mainVars, httpVars, emission, usage, saver, completion>>

HistoryStops ==
    /\ Up
    /\ \/ history.stop /\ HistoryWorker("run", "drain")
       \/ history.queue = <<>> /\ HistoryWorker("drain", "done")
    /\ UNCHANGED <<mainVars, httpVars, emission, usage, saver, completion>>

(***************************************************************************)
(* Readiness.Check: each check fails once the gateway drains, and the      *)
(* state is read again before the answer.                                  *)
(***************************************************************************)
CheckPasses(name) ==
    /\ ~ draining
    /\ name \in {"sqlite", "schema"} => db = "open"
    /\ name = "telemetry" => usage = "run"

RunCheck(p) ==
    /\ Up /\ handler[p] = "running" /\ probe[p].next <= Len(Checks)
    /\ probe' = [probe EXCEPT ![p].next = @ + 1,
                              ![p].pass = @ /\ CheckPasses(Checks[probe[p].next])]
    /\ UNCHANGED <<mainVars, workerVars, listening, httpErr, handler, serving, draining>>

\* Mutant: the answer without the second look at the state.
ReadyWhenChecked(p) == probe[p].pass
Ready(p) == probe[p].pass /\ ~ draining

ProbeAnswers(p) ==
    /\ Up /\ handler[p] = "running" /\ probe[p].next > Len(Checks)
    /\ probe' = [probe EXCEPT ![p].verdict = IF Ready(p) THEN "ready" ELSE "unready"]
    /\ Leaves(p)
    /\ UNCHANGED <<mainVars, workerVars, listening, httpErr, draining>>
(***************************************************************************)
(* main.run: start-up.                                                     *)
(***************************************************************************)
\* A failure before the workers exist (configuration, schema, recovery): the
\* deferred function closes the database and the process ends.
StartFails ==
    /\ main = "starting"
    /\ main' = "closed" /\ db' = "closed"
    /\ UNCHANGED <<ending, deadline, httpVars, workerVars>>

StartWorkers ==
    /\ main = "starting"
    /\ main' = "wait ready"
    /\ history' = [history EXCEPT !.worker = "retention"]
    /\ UNCHANGED <<ending, deadline, db, httpVars, emission, usage, saver, completion>>

Serve ==
    /\ main = "wait ready" /\ history.started = "ok"
    /\ main' = "serving" /\ listening' = TRUE
    /\ UNCHANGED <<ending, deadline, db, httpErr, handler, serving, probe, draining, workerVars>>

\* WaitReady timed out or reported the retention error, or NewHandler failed.
StartupAborted ==
    /\ main = "wait ready"
    /\ main' = "usage" /\ ending' = "cleanup"
    /\ UNCHANGED <<deadline, db, httpVars, workerVars>>

\* ListenAndServe returned an error: the workers are cleaned up, the handlers
\* are not waited for.
ServeFails ==
    /\ main = "serving"
    /\ main' = "usage" /\ ending' = "cleanup" /\ listening' = FALSE
    /\ UNCHANGED <<deadline, db, httpErr, handler, serving, probe, draining, workerVars>>

(***************************************************************************)
(* shutdownGateway, and cleanupStartup, which is its tail with every error *)
(* ignored.  An expired context ends a shutdown wherever it waits and      *)
(* leaves the database open.                                               *)
(***************************************************************************)
DeadlineExpires ==
    /\ Up /\ ending # "no" /\ ~ deadline
    /\ deadline' = TRUE
    /\ UNCHANGED <<main, ending, db, httpVars, workerVars>>

Signal ==
    /\ main = "serving"
    /\ main' = "http" /\ ending' = "signal"
    /\ draining' = TRUE
    /\ UNCHANGED <<deadline, db, listening, httpErr, handler, serving, probe, workerVars>>

CloseListener ==
    /\ main = "http" /\ listening
    /\ listening' = FALSE
    /\ UNCHANGED <<mainVars, httpErr, handler, serving, probe, draining, workerVars>>

\* server.Shutdown, and server.Close when it failed; then StopAccepting.
HttpShutdown ==
    /\ main = "http" /\ ~ listening
    /\ \/ /\ \A r \in DOMAIN handler : handler[r] \notin {"dispatched", "running"}
          /\ UNCHANGED httpErr
       \/ deadline /\ httpErr' = TRUE
    /\ main' = "wait" /\ serving' = serving - 1
    /\ UNCHANGED <<ending, deadline, db, listening, handler, probe, draining, workerVars>>

\* Mutant: the wait of shutdownGateway ignores its context.
NeverExpires == FALSE
ContextExpired == deadline

\* The select of a wait: both cases may be ready.
WaitEnds(joined, next) ==
    \/ joined /\ main' = next
    \/ ContextExpired /\ main' = IF ending = "signal" THEN "exited" ELSE next

HandlersWaited ==
    /\ main = "wait"
    /\ WaitEnds(serving = 0, "usage")
    /\ UNCHANGED <<ending, deadline, db, httpVars, workerVars>>

DrainUsage ==
    /\ main = "usage" /\ usage = "run"
    /\ usage' = "stop"
    /\ UNCHANGED <<mainVars, httpVars, emission, saver, completion, history>>

UsageJoined ==
    /\ main = "usage" /\ usage # "run"
    /\ WaitEnds(usage = "done", "token")
    /\ UNCHANGED <<ending, deadline, db, httpVars, workerVars>>

SaverAfter(s) == IF s = "token" THEN "budget" ELSE "completion"
StopSaver(s) ==
    /\ main = s /\ ~ saver[s].stop
    /\ saver' = [saver EXCEPT ![s].stop = TRUE]
    /\ UNCHANGED <<mainVars, httpVars, emission, usage, completion, history>>

\* The final flush of Shutdown is made by main; its failure is reported, and
\* ends the shutdown only if the context has expired too.
SaverJoined(s) ==
    /\ main = s /\ saver[s].stop
    /\ WaitEnds(saver[s].state = "done", SaverAfter(s))
    /\ UNCHANGED <<ending, deadline, db, httpVars, workerVars>>

StopCompletion ==
    /\ main = "completion" /\ completion.accepting
    /\ completion' = [completion EXCEPT !.accepting = FALSE]
    /\ UNCHANGED <<mainVars, httpVars, emission, usage, saver, history>>

\* The loop on inFlight, given up at the deadline.
CloseCompletion ==
    /\ main = "completion" /\ ~ completion.accepting
    /\ \/ InFlight = {} /\ main' = "completion join"
       \/ deadline /\ main' = "history"
    /\ completion' = [completion EXCEPT !.stop = TRUE]
    /\ UNCHANGED <<ending, deadline, db, httpVars, emission, usage, saver, history>>

CompletionJoined ==
    /\ main = "completion join"
    /\ \/ completion.worker = "done" /\ completion' = [completion EXCEPT !.joined = TRUE]
       \/ deadline /\ UNCHANGED completion
    /\ main' = "history"
    /\ UNCHANGED <<ending, deadline, db, httpVars, emission, usage, saver, history>>

StopHistory ==
    /\ main = "history" /\ ~ history.stop
    /\ history' = [history EXCEPT !.accepting = FALSE, !.stop = TRUE]
    /\ UNCHANGED <<mainVars, httpVars, emission, usage, saver, completion>>

\* At the deadline the queue is emptied under mu; the worker may still be in a
\* repository call.
HistoryJoined ==
    /\ main = "history" /\ history.stop
    /\ \/ history.worker = "done" /\ UNCHANGED history
       \/ deadline /\ history' = [history EXCEPT !.abort = TRUE, !.queue = <<>>]
    /\ main' = "close"
    /\ UNCHANGED <<ending, deadline, db, httpVars, emission, usage, saver, completion>>

\* Mutant: the history worker is not asked before the database is closed.
SaversDone == \A s \in Savers : saver[s].state = "done"
OwnersDone == history.worker = "done" /\ \A s \in Savers : saver[s].state = "done"

\* shutdownGateway asks every owner; the deferred function of run asks the
\* history worker.
CloseDatabase ==
    /\ main = "close"
    /\ IF IF ending = "signal" THEN OwnersDone ELSE history.worker = "done"
       THEN main' = "closed" /\ db' = "closed"
       ELSE main' = "exited" /\ UNCHANGED db
    /\ UNCHANGED <<ending, deadline, httpVars, workerVars>>

ProcessExit ==
    /\ main = "closed"
    /\ main' = "exited"
    /\ UNCHANGED <<ending, deadline, db, httpVars, workerVars>>

MainStep ==
    \/ StartFails \/ StartWorkers \/ Serve \/ StartupAborted
    \/ CloseListener \/ HttpShutdown \/ HandlersWaited \/ DrainUsage \/ UsageJoined
    \/ \E s \in Savers : StopSaver(s) \/ SaverJoined(s)
    \/ StopCompletion \/ CloseCompletion \/ CompletionJoined
    \/ StopHistory \/ HistoryJoined \/ CloseDatabase \/ ProcessExit

ProcessNext ==
    \/ MainStep \/ Signal \/ ServeFails \/ DeadlineExpires
    \/ \E r \in Requests \cup Probes : Dispatch(r) \/ HandlerEnters(r)
    \/ \E r \in Requests :
         \/ Transfer(r) \/ Enqueue(r) \/ EnqueueChecks(r) \/ EnqueueSends(r)
         \/ Submit(r) \/ RequestEnds(r)
    \/ \E p \in Probes : RunCheck(p) \/ ProbeAnswers(p)
    \/ UsageEnds \/ \E s \in Savers : SaverWrites(s) \/ SaverWrote(s) \/ SaverEnds(s)
    \/ CompletionWrites \/ CompletionStops
    \/ HistoryStarts \/ HistoryTakes \/ HistoryPersisted \/ HistoryStops

ProcessSpec == ProcessInit /\ [][ProcessNext]_processVars

-----------------------------------------------------------------------------

InRepository == {"retention", "persist", "persist drain"}

\* On the way shutdownGateway takes, SQLite is closed only when nobody can be in
\* a repository call: no accumulator, no history write, and no handler, unless
\* net/http could not drain its connections in time (shutdownGateway,
\* server.Shutdown, doneClosed).
DatabaseOutlivesOwners ==
    db = "closed" /\ ending = "signal" =>
        /\ history.worker \notin InRepository
        /\ \A s \in Savers : saver[s].state # "writing"
        /\ httpErr \/ \A r \in DOMAIN handler : handler[r] \notin {"dispatched", "running"}

\* No handler is left with a closed database, however the process ends.
DatabaseOutlivesHandlers ==
    db = "closed" => \A r \in DOMAIN handler : handler[r] # "running"

\* Records are not stranded by a stop.  When CompletionLogger.Shutdown has
\* returned nil its queue is empty and stays empty: an enqueue that raced it
\* was written or refused.  When the history worker is done its queue is
\* empty, whatever the deadline did (CompletionLogger.Enqueue, Shutdown,
\* HistoryPersistenceWorker.Submit, Shutdown).
RecordsNotStranded ==
    /\ completion.joined => completion.queue = <<>>
    /\ history.worker = "done" => history.queue = <<>>

\* A probe that answers ready is right when it answers, though its checks were
\* made one after another before: the gateway does not drain, SQLite is open
\* and the usage worker runs (Readiness.Check, and shutdownGateway, which marks
\* the drain before it stops anything; cleanupStartup does not mark it).
ReadyIsTrue ==
    [][\A p \in Probes :
          probe'[p].verdict = "ready" /\ probe[p].verdict = "none" /\ ending # "cleanup" =>
             ~ draining /\ db = "open" /\ usage = "run"]_processVars

\* A shutdown returns, even if every handler and every worker hangs
\* (shutdownGateway, cleanupStartup).
ShutdownReturns == []<>(ending # "no" => main = "exited")
=============================================================================
