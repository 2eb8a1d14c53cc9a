-------------------------- MODULE UsageObservation --------------------------
(***************************************************************************)
(* The deferred usage observation of a finished response:                  *)
(*   src/internal/httpserver/usage_observation.go     the bounded worker   *)
(*   src/internal/httpserver/completion_ownership.go  the one-shot record  *)
(*   src/internal/httpserver/response_observation.go  the handler's side   *)
(*                                                                         *)
(* When a response has been forwarded its handler either settles the lease *)
(* itself or exchanges it for adjustment tickets and hands these, with the *)
(* captured bytes, to a single worker over a bounded queue.  The worker    *)
(* parses the bytes and adjusts the tickets; a job that is dropped has its *)
(* tickets invalidated, which keeps the conservative charge.  The same job *)
(* carries the ownership of the request's completion record, emitted once  *)
(* both the handler has returned and the observation has ended.            *)
(*                                                                         *)
(* Every action is one critical section or one channel or atomic           *)
(* operation.  A slot is given back in the step that makes it free: the    *)
(* send on slots never blocks (SlotsExact) and is seen by submitters only. *)
(* The parsed bytes are abstracted to the verdict of the parser.           *)
(***************************************************************************)
EXTENDS Integers, Sequences, FiniteSets, SequencesExt

CONSTANTS
    Requests,   \* the requests whose responses complete, one job each
    Kinds,      \* the kinds of ticket a lease can turn into: token, budget
    Capacity,   \* capacity of the queue and number of slots
    None        \* no request

ASSUME CapacityAssumption == Capacity \in Nat \ {0}
ASSUME NoneAssumption == None \notin Requests

VARIABLES
    slots,      \* tokens in the slots channel
    queue,      \* the queue channel
    wake,       \* the wake channel (capacity 1) holds a token
    accepting,  \* worker.accepting
    draining,   \* worker.drain
    stopped,    \* the stop channel is closed
    active,     \* worker.active: the claimed job whose record Shutdown ends
    phase,      \* worker.phase
    worker,     \* the goroutine of run: where it is and the job it holds
    stopper,    \* the caller of Drain or Shutdown
    handler,    \* where each request's handler is
    ticket,     \* the adjustment tickets of each request
    record,     \* the completionOwnership of each request
    discarded   \* jobs that discardQueuedLocked threw away (worker.dropped)

vars == <<slots, queue, wake, accepting, draining, stopped, active, phase,
          worker, stopper, handler, ticket, record, discarded>>

channel   == <<slots, queue, wake>>
lifecycle == <<accepting, draining, stopped, phase, stopper>>

HandlerAt == {"serving", "submit", "holding", "checked", "ended", "logged", "returned"}
WorkerAt  == {"select", "claim", "parse", "parsed", "adjust", "finish", "unclaim",
              "processed", "drainQueued", "done"}
StopperAt == {"none", "flagged", "claimed", "closed", "waiting", "swapping", "swapped",
              "joined", "expired"}
TicketIn  == {"none", "live", "adjusted", "invalid"}

FreshRecord == [transferred |-> FALSE, enriched |-> FALSE, completed |-> FALSE,
                finalized |-> FALSE, emitted |-> 0]

Init ==
    /\ slots = Capacity
    /\ queue = <<>>
    /\ wake = FALSE
    /\ accepting = TRUE
    /\ draining = FALSE
    /\ stopped = FALSE
    /\ active = None
    /\ phase = "idle"
    /\ worker = [at |-> "select", job |-> None, known |-> FALSE]
    /\ stopper = [at |-> "none", job |-> None]
    /\ handler = [r \in Requests |-> "serving"]
    /\ ticket = [r \in Requests |-> [k \in Kinds |-> "none"]]
    /\ record = [r \in Requests |-> FreshRecord]
    /\ discarded = {}

-----------------------------------------------------------------------------
(* completionOwnership: the one-shot completion record                     *)

\* Setting finalized and calling emit, when the condition holds.
Emit(o, condition) ==
    IF condition THEN [o EXCEPT !.finalized = TRUE, !.emitted = @ + 1] ELSE o

\* completionOwnership.transfer, as the pair of its result and its effect.
Transferable(o) == ~o.completed /\ ~o.finalized
Transfer(o) == [o EXCEPT !.transferred = TRUE]

\* Mutant of Finish: the record goes out before the handler completed it.
FinishEarly(o) ==
    IF o.enriched \/ o.finalized THEN o ELSE Emit([o EXCEPT !.enriched = TRUE], TRUE)

\* completionOwnership.finish: the first enrichment wins, and emits only when
\* the handler has already completed the record.
Finish(o) ==
    IF o.enriched \/ o.finalized THEN o
    ELSE Emit([o EXCEPT !.enriched = TRUE], o.completed)

\* completionOwnership.complete: emits unless a pending observation will.
Complete(o) ==
    IF o.completed \/ o.finalized THEN o
    ELSE Emit([o EXCEPT !.completed = TRUE], ~o.transferred \/ o.enriched)

-----------------------------------------------------------------------------
(* invalidateObservationJob, for a set of jobs                             *)

Consume(t, outcome) == [k \in Kinds |-> IF t[k] = "live" THEN outcome[k] ELSE t[k]]

AllInvalid == [k \in Kinds |-> "invalid"]

Invalidate(jobs) ==
    /\ ticket' = [r \in Requests |-> IF r \in jobs THEN Consume(ticket[r], AllInvalid)
                                                   ELSE ticket[r]]
    /\ record' = [r \in Requests |-> IF r \in jobs THEN Finish(record[r]) ELSE record[r]]

\* discardQueuedLocked: every queued job is dropped and its slot given back.
DiscardQueued ==
    /\ queue' = <<>>
    /\ slots' = slots + Len(queue)
    /\ discarded' = discarded \cup ToSet(queue)
    /\ Invalidate(ToSet(queue))

-----------------------------------------------------------------------------
(* The handler's side                                                      *)

\* responseObservation.settle, or its absence, when no job is handed over: the
\* lease is settled in place (CompleteConservative, or the conversion path's
\* CommitKnownUsage).  With an observation its record is finished too.
SettleInline(r, observed) ==
    /\ handler[r] = "serving"
    /\ handler' = [handler EXCEPT ![r] = "ended"]
    /\ record' = [record EXCEPT ![r] = IF observed THEN Finish(@) ELSE @]
    /\ UNCHANGED <<channel, lifecycle, active, worker, ticket, discarded>>

\* completeAndSubmitWithPricingTimingAndRequest (or, without a lease,
\* submitForCompletionWithRequestOwned) up to the submission: the lease becomes
\* one live ticket per reserved resource, the record is transferred.
HandOff(r, reserved) ==
    /\ handler[r] = "serving"
    /\ IF Transferable(record[r])
       THEN /\ ticket' = [ticket EXCEPT ![r] =
                              [k \in Kinds |-> IF k \in reserved THEN "live" ELSE "none"]]
            /\ record' = [record EXCEPT ![r] = Transfer(@)]
            /\ handler' = [handler EXCEPT ![r] = "submit"]
       ELSE /\ ticket' = [ticket EXCEPT ![r] =
                              [k \in Kinds |-> IF k \in reserved THEN "invalid" ELSE "none"]]
            /\ handler' = [handler EXCEPT ![r] = "ended"]
            /\ UNCHANGED record
    /\ UNCHANGED <<channel, lifecycle, active, worker, discarded>>

\* submit takes a slot without waiting.
TakeSlot(r) ==
    /\ handler[r] = "submit"
    /\ slots > 0
    /\ slots' = slots - 1
    /\ handler' = [handler EXCEPT ![r] = "holding"]
    /\ UNCHANGED <<queue, wake, lifecycle, active, worker, ticket, record, discarded>>

\* submit without a free slot drops the job.
Saturated(r) ==
    /\ handler[r] = "submit"
    /\ slots = 0
    /\ Invalidate({r})
    /\ handler' = [handler EXCEPT ![r] = "ended"]
    /\ UNCHANGED <<channel, lifecycle, active, worker, discarded>>

\* submit's refusals after the slot was taken.
GiveUpSlot(r) ==
    /\ slots' = slots + 1
    /\ Invalidate({r})
    /\ handler' = [handler EXCEPT ![r] = "ended"]
    /\ UNCHANGED <<queue, wake, lifecycle, active, worker, discarded>>

\* submit's first critical section: accepting is tested and the lock dropped.
CheckAccepting(r) ==
    /\ handler[r] = "holding"
    /\ \/ /\ accepting
          /\ handler' = [handler EXCEPT ![r] = "checked"]
          /\ UNCHANGED <<channel, lifecycle, active, worker, ticket, record, discarded>>
       \/ ~accepting /\ GiveUpSlot(r)

\* Mutant of Enqueue: accepting is not tested again.
EnqueueUnchecked(r) ==
    /\ handler[r] = "checked"
    /\ queue' = Append(queue, r)
    /\ wake' = TRUE
    /\ handler' = [handler EXCEPT ![r] = "ended"]
    /\ UNCHANGED <<slots, lifecycle, active, worker, ticket, record, discarded>>

\* submit's second critical section tests accepting again and enqueues.
Enqueue(r) ==
    /\ handler[r] = "checked"
    /\ IF accepting /\ Len(queue) < Capacity
       THEN /\ queue' = Append(queue, r)
            /\ wake' = TRUE
            /\ handler' = [handler EXCEPT ![r] = "ended"]
            /\ UNCHANGED <<slots, lifecycle, active, worker, ticket, record, discarded>>
       ELSE GiveUpSlot(r)

\* Both middlewares complete the record when the handler returns: first
\* withCompletionOwnership, then withRequestIDMetrics.
CompleteRecord(r) ==
    /\ handler[r] \in {"ended", "logged"}
    /\ record' = [record EXCEPT ![r] = Complete(@)]
    /\ handler' = [handler EXCEPT ![r] = IF @ = "ended" THEN "logged" ELSE "returned"]
    /\ UNCHANGED <<channel, lifecycle, active, worker, ticket, discarded>>

-----------------------------------------------------------------------------
(* The worker                                                              *)

\* The end of run once accepting is off or stop is closed.
EndRun ==
    IF draining
    THEN /\ worker' = [worker EXCEPT !.at = "drainQueued"]
         /\ UNCHANGED <<slots, queue, ticket, record, discarded>>
    ELSE /\ worker' = [worker EXCEPT !.at = "done"]
         /\ DiscardQueued

\* run's select on the closed stop channel.
WorkerStops ==
    /\ worker.at = "select"
    /\ stopped
    /\ EndRun
    /\ UNCHANGED <<wake, lifecycle, active, handler>>

\* run's select on the wake channel.
WorkerWakes ==
    /\ worker.at = "select"
    /\ wake
    /\ wake' = FALSE
    /\ worker' = [worker EXCEPT !.at = "claim"]
    /\ UNCHANGED <<slots, queue, lifecycle, active, handler, ticket, record, discarded>>

TakeJob ==
    /\ queue' = Tail(queue)
    /\ slots' = slots + 1

\* The inner loop's critical section: leave, claim a job or go back to sleep.
Claim ==
    /\ worker.at = "claim"
    /\ \/ /\ ~accepting
          /\ EndRun
          /\ UNCHANGED <<wake, lifecycle, active, handler>>
       \/ /\ accepting
          /\ queue # <<>>
          /\ TakeJob
          /\ active' = Head(queue)
          /\ worker' = [worker EXCEPT !.at = "parse", !.job = Head(queue)]
          /\ UNCHANGED <<wake, lifecycle, handler, ticket, record, discarded>>
       \/ /\ accepting
          /\ queue = <<>>
          /\ worker' = [worker EXCEPT !.at = "select"]
          /\ UNCHANGED <<channel, lifecycle, active, handler, ticket, record, discarded>>

\* drainQueued takes the next job without the lock, or ends the worker.  Its
\* case on worker.done never fires: run closes done after drainQueued returns.
DrainQueued ==
    /\ worker.at = "drainQueued"
    /\ \/ /\ queue # <<>>
          /\ TakeJob
          /\ worker' = [worker EXCEPT !.at = "parse", !.job = Head(queue)]
       \/ /\ queue = <<>>
          /\ worker' = [worker EXCEPT !.at = "done"]
          /\ UNCHANGED <<slots, queue>>
    /\ UNCHANGED <<wake, lifecycle, active, handler, ticket, record, discarded>>

\* process: the bytes do not parse, and the job is invalidated.
ParseFails ==
    /\ worker.at = "parse"
    /\ Invalidate({worker.job})
    /\ worker' = [worker EXCEPT !.at = "processed"]
    /\ UNCHANGED <<channel, lifecycle, active, handler, discarded>>

\* process: the bytes parse; the total may still be unknown.
Parse(known) ==
    /\ worker.at = "parse"
    /\ worker' = [worker EXCEPT !.at = "parsed", !.known = known]
    /\ UNCHANGED <<channel, lifecycle, active, handler, ticket, record, discarded>>

\* Mutant of BeginAdjust: the terminal phase is ignored.
BeginAdjustAlways ==
    /\ worker.at = "parsed"
    /\ phase' = "adjusting"
    /\ worker' = [worker EXCEPT !.at = "adjust"]
    /\ UNCHANGED <<channel, accepting, draining, stopped, stopper, active, handler, ticket,
                   record, discarded>>

\* process claims the adjustment: the compare-and-swap of beginAdjust.  Losing
\* it to an expired stop invalidates the job.
BeginAdjust ==
    /\ worker.at = "parsed"
    /\ \/ /\ phase = "idle"
          /\ phase' = "adjusting"
          /\ worker' = [worker EXCEPT !.at = "adjust"]
          /\ UNCHANGED <<ticket, record>>
       \/ /\ phase # "idle"
          /\ Invalidate({worker.job})
          /\ worker' = [worker EXCEPT !.at = "processed"]
          /\ UNCHANGED phase
    /\ UNCHANGED <<channel, accepting, draining, stopped, stopper, active, handler, discarded>>

\* process consumes both tickets: a known total adjusts the token ticket, a
\* cost that can be computed adjusts the budget ticket, else they are
\* invalidated.  Without a total no ticket is adjusted.
Adjust(outcome) ==
    /\ worker.at = "adjust"
    /\ outcome = AllInvalid \/ worker.known
    /\ ticket' = [ticket EXCEPT ![worker.job] = Consume(@, outcome)]
    /\ worker' = [worker EXCEPT !.at = "finish"]
    /\ UNCHANGED <<channel, lifecycle, active, handler, record, discarded>>

\* process enriches the record.
FinishRecord ==
    /\ worker.at = "finish"
    /\ record' = [record EXCEPT ![worker.job] = Finish(@)]
    /\ worker' = [worker EXCEPT !.at = "unclaim"]
    /\ UNCHANGED <<channel, lifecycle, active, handler, ticket, discarded>>

\* The deferred finishAdjust: a compare-and-swap back to idle.
FinishAdjust ==
    /\ worker.at = "unclaim"
    /\ phase' = IF phase = "adjusting" THEN "idle" ELSE phase
    /\ worker' = [worker EXCEPT !.at = "processed"]
    /\ UNCHANGED <<channel, accepting, draining, stopped, stopper, active, handler, ticket,
                   record, discarded>>

\* Mutant of Processed: run goes back to sleep after every job.
ProcessedThenSleep ==
    /\ worker.at = "processed"
    /\ active' = None
    /\ worker' = [worker EXCEPT !.job = None, !.known = FALSE, !.at = "select"]
    /\ UNCHANGED <<channel, lifecycle, handler, ticket, record, discarded>>

\* Back in run's inner loop (which clears active) or in drainQueued, which
\* never set it; the two are told apart by active.
Processed ==
    /\ worker.at = "processed"
    /\ active' = None
    /\ worker' = [worker EXCEPT !.job = None, !.known = FALSE,
                                !.at = IF active = None THEN "drainQueued" ELSE "claim"]
    /\ UNCHANGED <<channel, lifecycle, handler, ticket, record, discarded>>

-----------------------------------------------------------------------------
(* Drain and Shutdown                                                      *)

\* The gateway drains the worker when it shuts down (shutdownGateway) and shuts
\* it down when start-up fails (cleanupStartup); either may come first.
\* Drain stores the drain flag first ...
DrainBegin ==
    /\ stopper.at = "none"
    /\ draining' = TRUE
    /\ stopper' = [stopper EXCEPT !.at = "flagged"]
    /\ UNCHANGED <<channel, accepting, stopped, phase, active, worker, handler, ticket, record,
                   discarded>>

\* ... and then stops admission under the lock.
DrainClose ==
    /\ stopper.at = "flagged"
    /\ accepting' = FALSE
    /\ stopper' = [stopper EXCEPT !.at = "closed"]
    /\ UNCHANGED <<channel, draining, stopped, phase, active, worker, handler, ticket, record,
                   discarded>>

\* Shutdown's critical section: admission ends, the active record is noted and
\* the queue is thrown away.
ShutdownBegin ==
    /\ stopper.at = "none"
    /\ accepting' = FALSE
    /\ stopper' = [at |-> "claimed", job |-> active]
    /\ DiscardQueued
    /\ UNCHANGED <<wake, draining, stopped, phase, active, worker, handler>>

\* Shutdown finishes the record of the job in flight with unknown usage.
ShutdownFinishActive ==
    /\ stopper.at = "claimed"
    /\ stopper' = [at |-> "closed", job |-> None]
    /\ record' = [r \in Requests |-> IF r = stopper.job THEN Finish(record[r]) ELSE record[r]]
    /\ UNCHANGED <<channel, accepting, draining, stopped, phase, active, worker, handler, ticket,
                   discarded>>

\* Mutant of CloseStop: the channel stays open.
CloseStopForgotten ==
    /\ stopper.at = "closed"
    /\ stopper' = [stopper EXCEPT !.at = "waiting"]
    /\ UNCHANGED <<channel, accepting, draining, stopped, phase, active, worker, handler, ticket,
                   record, discarded>>

\* Both close the stop channel and wait.
CloseStop ==
    /\ stopper.at = "closed"
    /\ stopped' = TRUE
    /\ stopper' = [stopper EXCEPT !.at = "waiting"]
    /\ UNCHANGED <<channel, accepting, draining, phase, active, worker, handler, ticket, record,
                   discarded>>

\* The wait ends with the worker.
Joined ==
    /\ stopper.at = "waiting"
    /\ worker.at = "done"
    /\ stopper' = [stopper EXCEPT !.at = "joined"]
    /\ UNCHANGED <<channel, accepting, draining, stopped, phase, active, worker, handler, ticket,
                   record, discarded>>

\* The context expires: the first compare-and-swap, from idle ...
Expire ==
    /\ stopper.at = "waiting"
    /\ phase' = IF phase = "idle" THEN "terminal" ELSE phase
    /\ stopper' = [stopper EXCEPT !.at = "swapping"]
    /\ UNCHANGED <<channel, accepting, draining, stopped, active, worker, handler, ticket, record,
                   discarded>>

\* ... and the second one, from adjusting.
ExpireAgain ==
    /\ stopper.at = "swapping"
    /\ phase' = IF phase = "adjusting" THEN "terminal" ELSE phase
    /\ stopper' = [stopper EXCEPT !.at = IF draining THEN "swapped" ELSE "expired"]
    /\ UNCHANGED <<channel, accepting, draining, stopped, active, worker, handler, ticket, record,
                   discarded>>

\* An expired Drain invalidates what is left in the queue.
DrainRemainder ==
    /\ stopper.at = "swapped"
    /\ DiscardQueued
    /\ stopper' = [stopper EXCEPT !.at = "expired"]
    /\ UNCHANGED <<wake, accepting, draining, stopped, phase, active, worker, handler>>

-----------------------------------------------------------------------------
HandlerStep(r) ==
    \/ TakeSlot(r)
    \/ Saturated(r)
    \/ CheckAccepting(r)
    \/ Enqueue(r)
    \/ CompleteRecord(r)

RequestEnds(r) ==
    \/ \E observed \in BOOLEAN : SettleInline(r, observed)
    \/ \E reserved \in SUBSET Kinds : HandOff(r, reserved)

WorkerStep ==
    \/ WorkerStops
    \/ WorkerWakes
    \/ Claim
    \/ DrainQueued
    \/ ParseFails
    \/ \E known \in BOOLEAN : Parse(known)
    \/ BeginAdjust
    \/ \E outcome \in [Kinds -> {"adjusted", "invalid"}] : Adjust(outcome)
    \/ FinishRecord
    \/ FinishAdjust
    \/ Processed

StopperStep ==
    \/ DrainClose
    \/ ShutdownFinishActive
    \/ CloseStop
    \/ Joined
    \/ ExpireAgain
    \/ DrainRemainder

Next ==
    \/ \E r \in Requests : RequestEnds(r) \/ HandlerStep(r)
    \/ WorkerStep
    \/ DrainBegin
    \/ ShutdownBegin
    \/ Expire
    \/ StopperStep

Spec == Init /\ [][Next]_vars

-----------------------------------------------------------------------------
(* Properties                                                              *)

TypeOK ==
    /\ slots \in 0..Capacity
    /\ queue \in Seq(Requests) /\ Len(queue) <= Capacity
    /\ wake \in BOOLEAN /\ accepting \in BOOLEAN /\ draining \in BOOLEAN /\ stopped \in BOOLEAN
    /\ active \in Requests \cup {None}
    /\ phase \in {"idle", "adjusting", "terminal"}
    /\ worker \in [at : WorkerAt, job : Requests \cup {None}, known : BOOLEAN]
    /\ stopper \in [at : StopperAt, job : Requests \cup {None}]
    /\ handler \in [Requests -> HandlerAt]
    /\ ticket \in [Requests -> [Kinds -> TicketIn]]
    /\ record \in [Requests -> [transferred : BOOLEAN, enriched : BOOLEAN,
                                completed : BOOLEAN, finalized : BOOLEAN, emitted : Nat]]
    /\ discarded \subseteq Requests

Holding == {r \in Requests : handler[r] \in {"holding", "checked"}}

\* Every slot is free, under a queued job or held by a submitter in submit, so
\* that releaseSlot never blocks under the lock and an accepted job always
\* finds room in the queue.
SlotsExact == slots + Len(queue) + Cardinality(Holding) = Capacity

Live(r) == \E k \in Kinds : ticket[r][k] = "live"

InSubmit(r) == handler[r] \in {"submit", "holding", "checked"}

\* A live ticket has one owner that will consume it: the handler still in
\* submit, one place of the queue, or the worker.  No path of submit, run,
\* Shutdown or Drain strands it, which would leave it adjustable forever.
LiveTicketOwned ==
    \A r \in Requests : Live(r) =>
        Cardinality({i \in DOMAIN queue : queue[i] = r})
        + (IF InSubmit(r) THEN 1 ELSE 0)
        + (IF worker.job = r THEN 1 ELSE 0) = 1

\* The completion record is emitted at most once, and never before the handler
\* has completed it, whoever finishes it: handler, worker or Shutdown.
RecordOnce ==
    \A r \in Requests : /\ record[r].emitted <= 1
                        /\ record[r].emitted = 1 => record[r].completed

\* When Drain or Shutdown returns without error no ticket of a job the worker
\* had accepted is still live, so the accumulators may be flushed.
JoinedIsSettled ==
    stopper.at = "joined" =>
        /\ queue = <<>>
        /\ \A r \in Requests : Live(r) => InSubmit(r)

\* "Unlike Shutdown ... queued observations are not silently discarded": a
\* Drain that returns nil has thrown no accepted job away.
DrainKeepsJobs == draining /\ stopper.at = "joined" => discarded = {}

\* Whatever submit, run, Shutdown and Drain do to each other, nothing is left
\* without an owner: the slots are accounted for, every live ticket has exactly
\* one holder, and a stop that returns nil leaves no live ticket behind and, when
\* it is a Drain, has thrown no job away.
NothingStranded ==
    TypeOK /\ SlotsExact /\ LiveTicketOwned /\ JoinedIsSettled /\ DrainKeepsJobs

\* "no unclaimed ticket can adjust after that point": once a stop has returned
\* its deadline error the worker claims no further adjustment; only one that it
\* had already claimed may still change the ledgers.
NoLateAdjust ==
    [][stopper.at = "expired" /\ worker.at # "adjust" => worker'.at # "adjust"]_vars

\* The same of Shutdown alone, whose discarded queue leaves the worker no other
\* job to claim.
ShutdownEndsAdjusting ==
    [][stopper.at = "expired" /\ ~draining /\ worker.at # "adjust"
         => worker'.at # "adjust"]_vars

\* Every live ticket is eventually adjusted or invalidated, and every request
\* that ends has its completion record emitted: no wake-up is lost and a stop
\* leaves nothing behind.
ObservationsEnd ==
    /\ []<>(\A r \in Requests : ~Live(r))
    /\ []<>(\A r \in Requests :
             handler[r] \in {"ended", "logged", "returned"} => record[r].emitted = 1)

\* A stop that was begun returns, joined or expired.
StopReturns == []<>(stopper.at \in {"none", "joined", "expired"})
=============================================================================
