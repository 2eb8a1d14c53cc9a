# 9Gateway in TLA+

9Gateway is a reverse proxy for OpenAI-compatible APIs. It authenticates a
request with a gateway key, holds it to the key's limits (concurrent requests,
requests and tokens per window, money per day, month and lifetime), forwards it,
reads the usage the upstream reports and charges the key for it. Counters live in
memory under mutexes; SQLite gets their changes behind the back of the requests.

What has to be right is the bookkeeping: every reservation is large enough and is
settled exactly once, at the right price, in the right window, whatever the order
in which handlers, the observation worker, the accumulators' workers, an
administrator and a shutdown take their steps, and what is on disk converges to
what is in memory and survives a restart. Around it stand the services with
interleavings of their own: sessions, key administration, the history table,
analytics, readiness, and the process that starts and stops them all. File
references are to the repository root.

## Inventory

### Parts, their state, and their operations

| part | source | state | operations | correct when |
|---|---|---|---|---|
| concurrency limiter | `internal/limiter/concurrency.go` | per key a state object with a counter; per request a lease | `Acquire`, `Release`, `adoptFor`, `releaseOwned`, `releaseSlot` | the counter is the number of holders |
| request limiter | `internal/limiter/request.go` | per key and window a start and a count; a clock that never goes back | `Allow` | no window admits more than its amount; a refusal's reset is useful |
| token limiter | `internal/limiter/token.go` | buckets (key, window, start) with committed and active amounts; registered windows; reservations; tickets | `Reserve`, `Commit`, `CommitDeferred`, `AbortConservative`, `ReleaseBeforeUpstream`, `Adjust`, `Invalidate`, `ReplacePolicy`, `LoadCommitted` | the ledger is exact and the sink agrees with it |
| budget limiter | `internal/limiter/budget.go` | per key spend and active money in total, day, month; a generation; policies | `Reserve` with rollover sweep, four settlements, `Adjust`, `Invalidate`, `ReplacePolicy`, `LoadSpent` | the same, and no limit is passed |
| resource lease | `internal/limiter/lease.go` | one slot, one token and one budget reservation; a final flag | `Acquire`, `AcquireWithProvisional`, `finish` | everything is settled once |
| proxy handler | `internal/httpserver/server.go` | locals of `ServeHTTP`: provisional lease, lifecycle lease, `upstreamStarted`, outcome | preflight, admission, upstream call, conversion, deferred cleanup | no exit leaves anything behind |
| planning and pricing | `internal/accounting`, `internal/modelmatch`, `internal/protocol/openai/request.go` | a compiled pricing table | estimate, plan, resolve, cost | the reservation covers what the plan allows |
| response stream | `internal/streaming`, `internal/protocol/openai` | the event being framed; the observer; the accumulated message | read a line, observe an event, accumulate, settle | usage and message are what the events said |
| usage observation | `internal/httpserver/usage_observation.go`, `completion_ownership.go`, `response_observation.go` | slot pool, queue, wake, accepting/drain/stop, phase word, active job, tickets, completion record | `submit`, `run`, `process`, `Drain`, `Shutdown`, `transfer`, `complete`, `finish` | tickets and records end once, and do end |
| accumulators | `internal/storage/usage_accumulator.go`, `budget_accumulator.go` and the `*_buckets.go` they write with | pending map, batch in flight, wake, accepting, last error, rows | `Sink`, `take`, `flush`, `restore`, `flushRetry`, `Shutdown` | nothing is lost or applied twice |
| key administration | `internal/httpserver/admin.go`, `internal/auth/snapshot.go`, `internal/storage/api_keys.go` | rows of keys, the published snapshot, `refreshMu` | `create`, `updatePolicy`, listing | what was acknowledged holds |
| sessions | `internal/session`, `internal/httpserver/admin.go` | session table; failures per address | login, `authenticate`, logout; expiry, eviction, lockout | an ended session opens nothing |
| history | `internal/storage/request_history.go`, `internal/httpserver/history_worker.go` | rows, sequence and deletion counters; a bounded queue | insert, retention, paginated listing; submit, persist, stop | a traversal is exact; a stop strands nothing |
| completion log | `internal/httpserver/completion.go` | bounded queue, in-flight count | `Enqueue`, `run`, `Shutdown` | a stop strands nothing |
| analytics | `internal/analytics` | cache, order, flights, gate | `Do` | the gate is exact, callers return |
| process | `cmd/gateway/main.go`, `internal/httpserver/lifecycle.go`, `readiness.go` | ownership of everything above | start-up, `shutdownGateway`, `cleanupStartup`, readiness probes | the database outlives its users; restarts are accepted |

### How they interact

    ServeHTTP --plan--> lease --> concurrency, token, budget limiter
        |                    |               |
        | upstream call      | finish        | deltas (outside the locks)
        v                    v               v
    observation worker --Adjust ticket--> sink --> accumulator --> SQLite rows
        ^                                                            |
    Drain/Shutdown from main                     start-up loads rows into limiters

`updatePolicy` replaces the token policy, inside it the budget policy, inside
that the database row, and publishes the snapshot last; requests in flight keep
the policy of the snapshot that authenticated them.

### What is hard about it

* A slot goes back in a later critical section than the one that marks its lease
  released; the key's state object may be another one by then.
* Windows, days and months end while reservations and tickets of them are open.
* `Adjust` changes memory under a lock and tells the sink after it.
* Policies are replaced while principals of older snapshots reserve.
* A batch fails to be written while deltas of the same rows arrive.
* One wake signal stands for many jobs or deltas; workers must not sleep on work.
* The deadline of a drain races the worker's claim of an adjustment.
* Handler, worker and stopper race to consume a ticket and to emit a record.
* A single deferred function settles every way `ServeHTTP` can end.
* Usage arrives in pieces, with comments, broken events and cuts between them.
* Pages are read outside a transaction while rows come and go.
* A handler makes several calls of a locked store; others fall in between.
* Shutdown stops a dozen owners in turn under one deadline.
* Sums near the largest integer, unknown costs, a wall clock that is set back.
* A crash between any two of these steps.

`PROJECT.json` lists them as hazards, each at its line and with the properties
that would catch it going wrong.

## Modules

| module | models | kind |
|---|---|---|
| `ConcurrencyLimiter` | the slots of a key | component |
| `RequestLimiter` | request windows | component |
| `TokenLimiter` | the token ledger | component |
| `BudgetLimiter` | the budget ledger | component |
| `ReservationPlan` | preflight of a request: metadata, model policy, plan, price, cost | component, pure operators |
| `ResponseStream` | usage and message out of an SSE stream, settlement | component, pure operators |
| `DeltaAccumulator` | either accumulator with its rows (`Kind`) | component |
| `WriteBehind` | what an accumulator promises | abstract specification |
| `TokenRecovery` | rows, legacy rows and policy across restarts | component |
| `UsageObservation` | worker, tickets and completion records | component |
| `ProxyHandler` | `ServeHTTP`, the lease, `updatePolicy`, over `ConcurrencyLimiter` | composition |
| `LeaseContract` | what the gateway promises of a request's resources | abstract specification |
| `KeyRegistry` | key rows, snapshot, administrators, listing | component |
| `AdminSessions` | session store, login limiter and their handlers | component |
| `RequestHistory` | the requests table, retention, a paging client | component |
| `AnalyticsCoordinator` | single flight, cache and gate | component |
| `GatewayProcess` | start, serving, the three ends; logger, history worker, readiness | composition |
| `SumTheorems` | sums over finite sets for the ledgers, places in an order for the listings, bounds and quotients | proofs |
| `ConcurrencyLimiterProofs`, `TokenLimiterProofs`, `BudgetLimiterProofs`, `ProxyHandlerProofs` | theorems about the module each is named after | proofs |
| `AccountingProofs` | theorems about `UsageObservation` and `ReservationPlan` | proofs |
| `ProcessProofs` | theorems about `DeltaAccumulator` and `GatewayProcess` | proofs |
| `ServiceProofs` | theorems about `RequestLimiter`, `KeyRegistry`, `TokenRecovery`, `AnalyticsCoordinator`, `AdminSessions`, `RequestHistory` | proofs |
| `MC*` | constants for TLC, and parts checked in one run | instances |

Definitions whose comment begins with *Mutant* are not part of the model: each is
a plausible bug in the definition that follows it, and shows that the property it
is listed with in `PROJECT.json` would notice it.

### ConcurrencyLimiter

`states` is the limiter's map from keys to state objects, `active` the counters
of those objects, `lease` the Lease objects. A state object is named by the lease
whose acquisition created it, which makes objects that were dropped from the map
and recreated different, as pointers are. `Release` and `ReleaseOwned` are the
first critical section of a release (mark the lease, put it in `returning`),
`ReleaseSlot` the second. A refusal changes nothing and is not a step.

### RequestLimiter

`Allow` is one step. The wall clock moves both ways; `CurrentTime` is the
limiter's own. `admissions` is history: what each window has admitted, kept when
the limiter discards the counter.

### TokenLimiter

`buckets` is the limiter's map, a partial function on bucket identities. Every
operation is a step, except `Adjust`, whose notification of the sink is a second
one (`Notify`). The clock (`lastNow`) is read once per operation and never goes
back (`currentTimeLocked`). A principal may carry any policy published so far.
Three variables record history for the properties only: `overrun` (buckets
charged more than was reserved), `dropped` (buckets to which a charge could not
be added) and `sunk` (what the sink was told). Arithmetic that would pass
`MaxInt` takes the code's overflow branch. Duplicate windows in a policy do not
exist here: a policy is a set. `LedgerExact` gathers what the ledger owes every
open reservation and ticket.

### BudgetLimiter

A scope is the lifetime total, a day or a month; `states[k].entry` holds the spent
and active money of each scope the key has, so that the code's three near-equal
branches are one quantifier. `Refuse` is a step because a refused `Reserve` still
sweeps past periods. A settlement first finds the state object and generation it
captured (`Settleable`). `owed` are the deltas of a settlement or an adjustment on
their way to the sink, delivered in any order. A cost may be unknown. `excused`
and `torn` are history: limits that were passed legitimately, and keys with an
adjustment that was applied to some of its scopes only. The shards of the code are
left out, since no state is shared between keys.

### ReservationPlan

One request from its arrival to the cost of its answer: the pricing table is
compiled, the request's metadata read or not, the key's model lists consulted, the
input estimated, tokens and money planned. A model name is a sequence of letters, a
pattern a sequence of tokens; `Matches` follows the code's table over prefixes.
`PriceApplies` says what the rule is that should have been chosen without
following `Resolve`, and `MoneyReserved` that any usage within the plan costs no
more than was reserved. The model lists are consulted only when the metadata could be read, and
the estimate ignores members of a message it does not know, as in the code. The
byte limit on a model name, the refusal of a body that is too large and decoding of
decimal rates are left out.

### ResponseStream

The upstream sends lines: a data line with a whole JSON object or half of one, a
comment, a blank line, junk, `[DONE]`, or the end. `reader` frames them into events
under the size limit, `observer` keeps the merged usage and the choices, and one of
two drivers reads it: `ObserveStream` over a captured copy, or
`AggregateSSEToJSON`, whose accumulator joins contents and tool-call arguments. A
canonical usage is the function of the counts explicitly reported; a total is
derived from it when it is needed. `Finish` is a response read to its end, settled
with its known total; `Fail` is every other outcome (a broken event, a limit, a cut,
a lost connection, nothing to render), which the server settles conservatively
whatever usage had been reported. `StreamExact` compares all this with the list of
events delivered. A usage member that does not decode has the value -1. The
timing of events and answers that are plain JSON are left out.

### DeltaAccumulator and WriteBehind

One module for both accumulators, with `Kind` choosing between them in the three
places in which the files differ. `pending` and `flight` map a bucket without an
entry to 0. A write is one transaction that succeeds or fails; `Writable` is the
repository's refusal of a row that would become negative. `log`, `taken` and `at`
are history: the accepted totals after each delta, and the moments of it that the
batch in flight and the rows have reached. `Crash` throws memory away at any
moment. The guard of `Sink` that accepted totals stay in range is what
`SinkAgrees` of the two limiters shows of their deltas.

`WriteBehind` is the promise: the rows of all buckets together are those of one
past moment, this moment only advances, and a crash loses what came after it.

### TokenRecovery

The identity rows, the rows of the retired table, the key's policy and the
start-up that reconciles them, with stops in the middle of it. While the gateway
serves, limiter and accumulator appear by their effect. `Flushed` is a transaction
of the accumulator, which removes a row that reaches zero; that removal is what
lets a window leave the policy. `clean` and `owed` are history.

### UsageObservation

Every action is one critical section, one channel operation or one atomic
operation. `SettleInline` and `HandOff` are the two ends of `ServeHTTP`; `TakeSlot`,
`CheckAccepting`, `Enqueue` and `Saturated` are `submit`; `Claim` to `Processed` are the
worker; the remaining actions are `Drain` (used by `shutdownGateway`) and `Shutdown`
(used by `cleanupStartup`), of which at most one is called; `draining` tells which.
The two compare-and-swaps of an expired stop are two steps. What the parser finds
is a nondeterministic outcome. The send that gives a slot back is merged with the
step that frees it: it cannot block (`NothingStranded`), and only submitters receive
from the channel. The `done` case of the worker's last loop is left out, since that
channel is closed by the same goroutine after the loop.

### ProxyHandler and LeaseContract

`handler[r].at` is the next statement of `ServeHTTP` that matters. The concurrency
limiter is the instance `Limiter` of its own module; reservations are one-shot
tokens here, since their ledgers have modules of their own. `PolicyCurrent` compares
policies by what they restrict (max, tokens, budget), where the code compares their
values. All requests use one key: keys share nothing. `Rejected` stands for the
early returns between inspection and admission (body, model, request window,
plan). Plans of zero tokens, the unauthenticated mode, tracing and the copying of
bytes are left out. `Finished` is the only state in which the model may rest, so
that a handler or an update stuck anywhere else is a deadlock.

`LeaseContract` is the promise: a request enters with a slot, reserves, starts
upstream work at most once, settles every reservation exactly once before it gives
the slot up, free if and only if upstream work never started.

### KeyRegistry

An administrator takes `refreshMu`, reads the table, checks, writes and publishes,
one step each; `create` tries again when the drawn key exists. What the limiters
would refuse (`conflicted`) changes at any moment, writes fail, and a restart
rebuilds the snapshot from the table. `acknowledged` is history. A client pages
through the listing meanwhile; `created_at` comes from a clock that may be set back.

### AdminSessions

A handler is a sequence of calls of the store and of the login limiter, each one
critical section. `born` and `revoked` are history. Random IDs and tokens are drawn
once, and a request carries the right CSRF token or a wrong one.

### RequestHistory

Each SQL statement is a step; an insertion and the triggers that number it are one
transaction. A client reads the fence, the snapshot and the rows of a page in
separate steps, and may send its cursor with another filter. `population` and
`atFence` are history.

### AnalyticsCoordinator

A flight is named by its leader. The gate is shared by the coordinators, each with
its cache and its order. A query returns rows, an error, or the error of a
cancelled context if the leader's context was cancelled.

### GatewayProcess

`main` is the next statement of `run`, `shutdownGateway` or `cleanupStartup`. The
completion logger and the history worker are modelled step by step; the usage worker
and the accumulators by a goroutine that ends some time after it was told to. Of
net/http the model uses that `Shutdown` closes the listener and returns nil only
when no connection is active. `serving` is the wait group with its sentinel. A
handler dispatched but not yet counted is what the sentinel is for.

## Runs

Run with `tlc -config <cfg> <module>`. Parts that share no state are checked in one
run where that saves repeated start-up: a variable `part`, chosen in the initial
state, tells which of them moves, and the others keep their first state, so that the
states of the run are the union of the parts' and not their product.

| run | bounds | states | shows |
|---|---|---|---|
| `token` | ledger: 3 reservations, windows of length 2 and 3, 4 instants, integers up to 4; stream: 6 lines, events up to 5 units | 390,404 | `WithinWindow`, `LedgerExact`, `SinkAgrees`, `StreamExact` |
| `accounting` | plan: counts up to 5, money up to 3; worker: 3 responses, 2 slots, one kind of ticket | 1,401,965 | `ReservationCovers`, `ModelAndPrice`, `RecordOnce`, `NothingStranded`, `ShutdownEndsAdjusting` |
| `budget` | ledger: 2 reservations, 4 policies, 3 days, months of 2, money up to 4; process: 2 requests or 1 probe, queues of 1 | 1,264,730 | `WithinLimit`, `LedgerExact`, `SinkAgrees`, `DatabaseOutlivesOwners`, `RecordsNotStranded`, `ReadyIsTrue` |
| `proxy` | 2 requests, 3 policies, 2 replacements | 1,593,138 | `NothingHeldAfter`, `BudgetNotBypassed`, `ImplementsContract` |
| `services` | slots, history, request windows, keys, sessions, recovery, analytics, one part of the initial state each: see below | 2,171,123 | `SlotsExact`, `LimitRespected`, `TraversalExact`, `WithinRequestWindow`, `RetryAdmits`, `AcknowledgedHolds`, `KeyListingExact`, `EndedSessionRefused`, `LockoutBound`, `CleanRestartAccepted`, `RestartKeepsUsage`, `GateExact`, `OwnCancellationOnly` |
| `live` | accumulator: 2 buckets, charges and refunds, 4 deltas, 1 crash, integers up to 3; 2 responses and 2 slots; 3 callers of 2 coordinators; a process with 1 request | 328,351 | `Conservation`, `ShutdownFlushed`, `ImplementsLedger`, `EventuallyDurable`, `StopEndsWorker`, `ObservationsEnd`, `StopReturns`, `CallersReturn`, `ShutdownReturns` |

Where a module has a type invariant (`TypeOK`) it is a conjunct of one of these
properties or of the invariant that is proved.

Why the bounds suffice for the cases that matter.

* Ledgers: three token reservations on two windows let one be settled, one adjusted
  and one admitted across a rollover; integers up to 4 put the sum of two estimates
  at the limit, so that the overflow branches are taken. Two days in a month make
  day and month roll over separately and together.
* Plan: `MaxTokenCount`, `MaxMoney` and `RateScale` stand for the largest int64, the
  largest amount and a million; they are small enough for sums and products to pass
  them and for rounding to matter. Tables hold exact rules, globs that overlap, and
  invalid ones; patterns have stars, question marks and classes.
* Stream: six lines hold two events with a comment or a cut between them and what
  follows `[DONE]`; the limit of an event is passed by a split object.
* Accumulator: four deltas on two buckets let a batch be in flight with its refund
  pending, fail, be restored and fail again.
* Worker: three responses for two slots saturate the pool while the worker holds a
  job.
* Proxy: two replacements let a policy be changed and changed back during an
  admission.
* `services`, slots: three leases let one be held, one be half released and one
  acquire while the state object of the key is dropped and recreated.
* History: rows of three IDs and two times, pages of one, retention of one: a row may
  come or go between any two pages. Windows of two ticks and three, seconds of two
  ticks: resets that are not whole seconds.
* Recovery: two windows of one duration, which a legacy row cannot tell apart, a
  third of another, so that start-up dies between two promotions, and two stops.
  Coordinator: three callers, gate and cache of one, two attempts of `Do` where the
  code has five.
* Keys: two administrators, three keys and operations, pages of one, so that a
  key is created between two pages; two attempts of `create` where the code
  has three. Sessions: two browsers, capacity one, so that a login evicts; three
  addresses and two tracked, so that a failure evicts one; up to four failed logins,
  a session counting for two of them (`MaxFailures`); lockout longer than the window
  (both are five minutes by default, and a longer lockout is a configuration that
  separates the two).
* Process: two requests or one probe, queues of one.

The maxima (`MaxTime`, `MaxSinks`, `MaxCrashes`, `MaxReplacements`, `MaxInserts`,
`MaxLogins`, `MaxOperations`, `MaxStops`, `MaxLines` and their like) bound the
environment; when they are used up the models stop, hence `CHECK_DEADLOCK FALSE`
(in `proxy`, `Finished` takes this role and deadlock is checked). A gateway nobody
calls may rest for ever as well.

Symmetry is used on reservations, requests and responses, which are interchangeable
in every definition, and in no run with a liveness property. (`accounting` has an
action property, which does not distinguish responses.)

### Fairness

All fairness is in `MCLive!LiveSpec`, each conjunct for the part that moves.

Accumulator: the worker goroutine is scheduled, a write returns
(it has a context and SQLite a busy timeout) and the backoff timer fires. A wait
that starts with `stop` closed ends by it, because the timer has just been set:
strong fairness of `GiveUp`. No write needs to succeed; `EventuallyDurable` has the
assumption that a write tried again and again does as its own hypothesis.
`StopEndsWorker` has no such hypothesis.

Usage worker: every
goroutine that can run does; no response has to end, no stop has to be requested, no
deadline has to pass. Coordinators: goroutines run and a query returns (it has a
context). Process: `main` runs and the timer of its context fires; handlers, workers,
SQLite and the log's sink may hang.

`ShutdownReturns`, `StopReturns`, `StopEndsWorker` and `EventuallyDurable` are written as
`[]<>(P => Q)`: the request for P to lead to Q, where P ends only with Q.

### Disagreements between the code and its words

Six runs check what a comment or a document says, and TLC finds a behaviour of
the code that contradicts it. `PROJECT.json` quotes the lines.

* `budget_late` - `AdjustIsAtomic`. The rollover sweep of `Reserve` deletes a past
  period to which a deferred ticket still refers. Adjusting the ticket then leaves
  memory alone but still sends the sink the correction of the lifetime total.
* `accumulator_refund` - `Conservation`. When a failed batch is restored onto a
  refund that cancels it, the usage accumulator keeps the refund and loses the
  charge; the budget accumulator deletes the entry, and the same property is
  proved of it.
* `usage_late` - `NoLateAdjust`. Both compare-and-swaps of an expired `Drain` can
  miss, and the worker claims another adjustment after `Drain` has returned. Of
  `Shutdown`, the same is checked to hold (`ShutdownEndsAdjusting`).
* `serve_failure` - `DatabaseOutlivesHandlers`. When the listener fails while
  handlers run, the exit written for a failed start-up closes the database under
  them. On the way a signal takes, the same is checked to hold
  (`DatabaseOutlivesOwners`).
* `token_stale` - `AdmittedUnderPolicy`. A principal without token windows is
  admitted after windows were added: it returns before they are compared.
* `token_reset` - `ResetIsUseful`. A request too large for one window is told to
  come back when another one resets.

### Observations

Without a run:

* The conservative charge of `finalize` (`token.go:482-484`, `520`) can pass the
  integer on a well-formed bucket, and is then dropped in memory and still sent to
  the sink (`dropped`).
* A late `Adjust` with actual = reserved writes a swept budget period back with
  unknown amounts, after which `validateBudgetState` refuses the key.
* A crash that loses the pending refund of a window that was dropped from the policy
  leaves a row no window matches, and start-up refuses it: `CleanRestartAccepted` is
  about clean stops for this reason.
* `cleanupStartup` does not mark the gateway as draining: a probe may still answer
  ready (`ReadyIsTrue` excepts it). After a forced `server.Close`, a handler that
  net/http starts late may find the database closed (`DatabaseOutlivesOwners`
  excepts it).
* At `MaxTrackedIPs` the login limiter evicts the oldest address, which may be the
  one that is locked out, or the very one whose failure is being recorded: the
  eviction precedes the lookup, and with a limit of one nobody is ever locked out.
* Between a fence check and the query of a page, retention may remove a row of the
  last page; the traversal then ends without it and without an expired cursor
  (`TraversalExact` excepts it).
* `partialAggregationResult` keeps the usage of a failed conversion as "safe for
  reconciliation" (`aggregation.go:181-184`); its caller drops it and settles
  conservatively (`server.go:1413-1425`), which is what the model does.
* `PromoteLegacy` refuses a legacy row beside an identity row of another amount
  (`usage_buckets.go:307-310`). Migration 005 leaves no such pair, and
  `TokenRecovery` has none.

## Proofs

`tlapm <module>.tla` checks a module's proofs. Every theorem holds for all values
of the constants that satisfy the named assumptions; none is about a bounded
instance. Where a run checks the same property, the run came first, and so did a
run of TLC on the inductive invariant itself.

| theorem | states |
|---|---|
| `ConcurrencyLimiterProofs!CounterIsExact`, `LimitNeverExceeded` | `SlotsExact`, `LimitRespected` |
| `TokenLimiterProofs!TokenLedgerExact`, `TokenWindowsHold`, `TokenSinkConverges` | `LedgerExact`, `WithinWindow`, `SinkAgrees` |
| `BudgetLimiterProofs!BudgetLedgerExact`, `BudgetWithinLimit`, `BudgetSinkConverges` | `LedgerExact`, `WithinLimit`, `SinkAgrees` |
| `ProcessProofs!NothingLost`, `ShutdownMeansFlushed`, `ImplementsWriteBehind` | `Conservation`, `ShutdownFlushed`, `ImplementsLedger` |
| `AccountingProofs!EmittedOnce`, `StrandsNothing`, `NoClaimAfterShutdown` | `RecordOnce`, `NothingStranded`, `ShutdownEndsAdjusting` |
| `ProxyHandlerProofs!LeavesNothingHeld`, `BudgetsHold`, `ServeHTTPImplementsContract` | `NothingHeldAfter`, `BudgetNotBypassed`, `ImplementsContract` |
| `ProcessProofs!ClosedAfterOwners`, `StopsStrandNothing`, `ReadyAnswersTrue` | `DatabaseOutlivesOwners`, `RecordsNotStranded`, `ReadyIsTrue` |
| `AccountingProofs!ReservationsCover` | `ReservationCovers` |
| `ServiceProofs!RequestWindowsHold`, `RetryAfterSuffices` | `WithinRequestWindow`, `RetryAdmits` |
| `ServiceProofs!AnswersHold`, `ListingIsExact` | `AcknowledgedHolds`, `KeyListingExact` |
| `ServiceProofs!RestartAccepted`, `UsageKept` | `CleanRestartAccepted`, `RestartKeepsUsage` |
| `ServiceProofs!GateHolds`, `OnlyOwnCancellation` | `GateExact`, `OwnCancellationOnly` |
| `ServiceProofs!LockoutHolds`, `EndedRefused` | `LockoutBound`, `EndedSessionRefused` |
| `ServiceProofs!TraversalsExact` | `TraversalExact` |

**Concurrency limiter**, from `ConcurrencyAssumption` (finitely many leases,
some key, some limits that are naturals, `NoState` is no lease). The invariant is
`IInv`: types, `Heap`, `SlotsExact` and `LimitRespected`. `SlotsExact` counts the
leases that hold a slot of a state object, and needs `Heap`: nothing refers to a
lease object before it was admitted (so a new state object starts at 0), only
released leases are on their way back, and a state object serves the one key it
was created for. A step changes the set of holders by
nothing, by one lease more or by one less (`HoldersUnchanged` and its
companions), which with the cardinality theorems gives the counter.
`LimitRespected` follows for an acquisition, because the counter it was compared
with counts at least the holders under smaller limits.

**Sums.** Both ledgers say that a counter is the sum of some field over a set of
reservations (`SumFunctionOnSet`). `SumTheorems` proves what a sum does when one
member enters, leaves or changes (`SumChange`). The sum is a fold, defined by
recursion over sets; the induction is done without an induction theorem, by a
smallest counterexample among the subsets, which is first-order.

**Token ledger**, from `TokenAssumption` (some key, finitely many reservations,
usages are integers, windows and estimates as the policy parser lets them pass).
The three properties are not inductive. `IInv` adds: a ticket belongs to a settled
reservation and never refunds more than was charged (`Lives`); the map holds no
empty bucket; outstanding tickets are covered in every bucket that has not expired,
stored or not (`TicketsCovered`: a bucket that was discarded and comes back would
otherwise lose them); and the sink was told of every charge that an outstanding
ticket may take back (`SinkCovers`), without which a refund delivered late could
overtake the charges of others and drive a row below zero. Each operation touches
one reservation, so each sum moves by the part of that one.

**Budget ledger**, from `BudgetAssumption` in the same way. `IInv` adds the life of
a reservation, that an unsettled reservation pins the generation of its key's state
(`GenerationPinned`, why `OpenIsSettleable` holds although states are dropped and
recreated), that spend and sink agree also in scopes that may still be opened
(`SinkExact`), `SinkCovers` as above, and the limits in every scope and not only
the current ones (`WithinEvery`: the clock may enter any of them).

**Budget accumulator**, from `AccumulatorAssumption` and `Kind = "budget"` (of the
usage accumulator `Conservation` is false, see above). The invariant adds to
`TypeOK` and `Conservation`: the rows are those of moment `at` of the log
(`RowsAreVersion`); rows and batch together are those of moment `taken`
(`BatchReachesVersion`), which is what makes a batch writable although it holds
refunds (`BatchesAreWritable`); and `Phases`, which ties the batch to the one
goroutine that can own it and forbids pending deltas to a successful shutdown.
`ImplementsWriteBehind` is the refinement of `WriteBehind`.

**Usage worker**, for any finite capacity and any set of responses, finite or not.
`IInv` says where things are: free, held and queued slots add up (`SlotsExact`,
with `FiniteHolding` since the responses may be infinitely many); a job is in the
queue only when its handler handed it over, and once (`JobsPlaced`); the worker's
job is not in the queue (`WorkerHolds`); a live ticket is with its handler, in the
queue or with the worker (`LivePlaced`); the stop flags advance in order
(`StopOrder`) and the phase word follows the worker (`PhaseOrder`); a record was
emitted as often as it is final (`RecordsExact`). Each conjunct is preserved by
saying what handlers, worker and stopper do to one variable (`SlotsMoved`,
`TicketsMoved`, ...) and then arguing from that alone.

**Proxy handler**, from `PoliciesAssumption` and `LifecycleAssumption`. `ProxyIInv`
is `TypeOK`, the invariant of the concurrency limiter and `HandlersOK`: the place of
a `ServeHTTP` and the flags it carries to its deferred cleanup (`FlagsOK`) determine
its slot (`SlotOK`), its open reservations (`BillOK`) and that a binding budget is
in its bill (`BudgetOK`). The limiter is not proved again: `ProxyHandlerProofs`
instantiates `ConcurrencyLimiterProofs`, every step of `ServeHTTP` being a step of
the limiter or none, and takes from it that a promotion always finds a live state
object. Steps are first described as relations of one request's local variables
(`Moves`, `Admits`, `Works`, `Settles`), then shown to keep `HandlerOK`
(`LocalOK`) and to be steps of `LeaseContract` for that request, or none
(`LocalComplies`). With `MoveComplies` this gives the refinement
`ServeHTTPImplementsContract`.

**Process**, for any requests, probes and queue sizes. `ProcessIInv` is the type
invariant and five orders: how far `shutdownGateway` or `cleanupStartup` has come
fixes which flags are set (`MainOrder`), what the HTTP server and its handlers may
still do (`HttpOrder`), who may use the database (`ClosedOrder`), and how the
completion logger and the history worker end (`CompletionOrder`, `HistoryOrder`).

**Reservation plan**, from `PlanAssumption` (fallbacks that fit together, rates and
scale that are positive, requests with finitely many parts). `ReservationCovers`
relates the cost of what the upstream reports to what was reserved before it was
called. `PlanInv` carries the link: an admitted budgeted request has exactly one
rule, its amount is the price of its token plan under that rule (`MoneyHeld`), the
rates of a compiled rule passed validation (`TableOK`), and the cost of an answer is
the price of the reported counts under the same rule (`AnswerOK`). What is left is
arithmetic: a price that is rounded up once and fits stays within the largest
amount, and prices are monotone in the counts (`PriceFacts`, `CostFacts`), for every
scale. That an estimate is a count rests on `SumNat`. Which rule is the right one is
`ModelAndPrice`, a property of its own that TLC checks.

**Request windows**, from `RateAssumption` (policies are finite sets of positive
windows). `WithinRequestWindow` is about all windows of all time, the limiter
remembers one window start per counter. `RateInv` says that a counter holds exactly
the admissions of the window it remembers (`CountersExact`), and that nothing was
admitted after the current window while the admissions of the current one are still
counted (`AdmissionsPast`), which is where a clock that is set back would enter.
`RetryAfterSuffices` needs that starts of windows follow the clock and that rounding
up to seconds passes the latest reset.

**Keys**, from `KeyRegistryAssumption`, for any number of administrators, finite or
not. `AcknowledgedHolds` compares three maps that different steps write. `KeyInv`
adds that exactly the holder of `refreshMu` is in a locked step (`AdminOK`) and that
the snapshot it has prepared is the table as it will be (`PreparedExact`); without
it a publication could undo another administrator's. `KeyListingExact` needs how far
a listing has come: the keys it has seen are those due that are not on the pages to
come (`ListingOK`). A page is given by ranks, and `Ranks` of `SumTheorems` shows
that the ranks in a strict order of a finite set are its places.

**Restarts**, from `TokenRecoveryAssumption`. `RecoveryInv` says that memory is rows
plus pending deltas while the gateway serves (`ServingExact`), and that between a
clean stop and the next start what start-up will leave in a bucket, promotion of
the retired table included, is what was owed (`RestartExact`), at every point at
which start-up may die. `UsageKept` is an action property of that invariant.

**Analytics**, from `CoordinatorAssumption` (sizes are positive). A flight and
its leader know each other (`FlightsLed`), so that a place of the gate is taken and
given back once; the order of a cache lists what is cached once (`OrderExact`); a
flight that ended with a cancellation says so to its waiters (`CancellationsTold`).

**Sessions**, from `SessionAssumption` (finitely many browsers, positive options, as
the constructors make them). A stored session was not revoked and is as old as its
login (`StoreExact`), which gives the action property `EndedSessionRefused`. The
failures of an address are counted by rounds (`RoundOf`): each lockout lasts
`LockoutDuration`, all begin within `Window` of the first failure, and in each round
every browser may have one attempt in flight. The proof attempt corrected the
property: a bound of one round, as it was stated before, fails when a lockout ends
within the window, with the default options (five minutes both) at the instant at
which both end, because `RecordFailure` starts a new entry only after the window has
passed; and with a limit of one, the first failure does not lock. The bound now
counts the rounds. In the run's instance, where the lockout is longer than the
window, it is what it was.

**History**, from `HistoryAssumption`. `HistoryInv` says of a traversal at a bookmark
that the rows of its population not after the bookmark are listed (`BookmarkOK`),
that a row of the table is in the population exactly if the fence admits it and that
none has gone while the deletion number stands still (`PopulationOK`). A page that
is not the last leaves its bookmark below everything it listed.

Only model-checked:

* every liveness property, and what needs `ENABLED`, which this prover does not reach;
* `StreamExact` and `ModelAndPrice`: what a fold over the lines of a stream or the
  tokens of a pattern computes for every input, compared with a reference definition,
  would need induction over data;
* the usage accumulator: `Conservation` is false of it (`accumulator_refund`), and the
  theorems are about the budget accumulator.

## Plan

1. **Composition**: the real ledgers in place of the one-shot tokens of
   `ProxyHandler`; limiter, accumulator and start-up in one model with crashes.
2. **Answers in plain JSON**, and the timing that the stream observer reports.

## Not modelled

Key hashing (its guarantee is cryptographic), the HTTP layer of the admin API
(decoding, validation, rendering), header filtering and byte copying, traces and the
contents of completion records (copied data), configuration (read once), metrics and
body capture (no decision reads them), SQLite itself with its schema migrations (a
transaction is a step that succeeds or fails), the SQL text of the usage and overview
aggregations, the web console and the command line client (clients without gateway
state).
