------------------------ MODULE AnalyticsCoordinator ------------------------
(***************************************************************************)
(* internal/analytics/coordinator.go: the coordinators that the admin      *)
(* handlers (overview, usage timeseries and breakdown) put in front of     *)
(* their SQL aggregations.  Identical queries share one flight, results    *)
(* are cached for a while, and one Gate bounds the queries that run.       *)
(*                                                                         *)
(* A query names its coordinator; coordinators have their own mutex, cache *)
(* and LRU order and share the gate.  A flight is named by the caller that *)
(* leads it: a caller leads at most one.  The SQL itself is external: it   *)
(* returns rows or an error, and the error of a cancelled context only if  *)
(* the leader's context is cancelled.                                      *)
(***************************************************************************)
EXTENDS Integers, Sequences, FiniteSets, SequencesExt

CONSTANTS
    Callers,        \* admin requests, each calling Do once
    Queries,        \* [coordinator, range] records: the cache keys
    GateCapacity,   \* Gate.capacity
    MaxCache,       \* entries a coordinator keeps
    CacheTTL,
    MaxDoAttempts,  \* attempts of Do
    MaxCacheTime    \* bound on the clock

\* NewGate and NewCoordinatorWithGate replace a size that is not positive.
ASSUME CoordinatorAssumption == GateCapacity \in Nat \ {0} /\ MaxCache \in Nat \ {0}

VARIABLES
    gateActive, \* Gate.active
    cacheTime,
    cache,      \* query -> time of its cached result
    cacheOrder, \* coordinator -> queries, least recently used first
    inFlight,   \* query -> the leader of its flight
    flight,     \* leader -> [done, err, leaderCanceled]
    caller      \* the progress of each call of Do

coordinatorVars == <<gateActive, cacheTime, cache, cacheOrder, inFlight, flight, caller>>

Coordinators == {q.coordinator : q \in Queries}

CoordinatorInit ==
    /\ gateActive = 0
    /\ cacheTime = 0
    /\ cache = <<>>
    /\ cacheOrder = [k \in Coordinators |-> <<>>]
    /\ inFlight = <<>>
    /\ flight = [c \in Callers |-> [done |-> FALSE, err |-> "none", leaderCanceled |-> FALSE]]
    /\ caller = [c \in Callers |-> [at |-> "idle", query |-> CHOOSE q \in Queries : TRUE,
                                    leader |-> c, attempt |-> 0, cancelled |-> FALSE,
                                    result |-> "none"]]

CallerAt(c, step) == caller[c].at = step
QueryOf(c) == caller[c].query
Return(c, result) == caller' = [caller EXCEPT ![c].at = "returned", ![c].result = result]
Removed(f, q) == [x \in DOMAIN f \ {q} |-> f[x]]

CacheTick ==
    /\ cacheTime < MaxCacheTime
    /\ cacheTime' = cacheTime + 1
    /\ UNCHANGED <<gateActive, cache, cacheOrder, inFlight, flight, caller>>

BeginDo(c, q) ==
    /\ CallerAt(c, "idle")
    /\ caller' = [caller EXCEPT ![c].at = "attempt", ![c].query = q]
    /\ UNCHANGED <<gateActive, cacheTime, cache, cacheOrder, inFlight, flight>>

\* The client of a request goes away, or its deadline passes.
CancelCaller(c) ==
    /\ caller[c].at \in {"attempt", "waiting", "running", "update"}
    /\ ~caller[c].cancelled
    /\ caller' = [caller EXCEPT ![c].cancelled = TRUE]
    /\ UNCHANGED <<gateActive, cacheTime, cache, cacheOrder, inFlight, flight>>

-----------------------------------------------------------------------------
(* One attempt: the section under the coordinator's mutex.                 *)

CacheHit(q) == q \in DOMAIN cache /\ cacheTime - cache[q] <= CacheTTL

OrderWithout(q) == [cacheOrder EXCEPT ![q.coordinator] = RemoveFirst(@, q)]

Gives(c) == caller[c].cancelled \/ caller[c].attempt >= MaxDoAttempts

AttemptGivesUp(c) ==
    /\ CallerAt(c, "attempt")
    /\ Gives(c)
    /\ Return(c, IF caller[c].attempt >= MaxDoAttempts THEN "leader_canceled" ELSE "cancelled")
    /\ UNCHANGED <<gateActive, cacheTime, cache, cacheOrder, inFlight, flight>>

AttemptHit(c) ==
    /\ CallerAt(c, "attempt")
    /\ ~Gives(c)
    /\ CacheHit(QueryOf(c))
    /\ cacheOrder' = [OrderWithout(QueryOf(c)) EXCEPT ![QueryOf(c).coordinator] = Append(@, QueryOf(c))]
    /\ Return(c, "value")
    /\ UNCHANGED <<gateActive, cacheTime, cache, inFlight, flight>>

(* An expired entry is dropped; then the caller joins the flight of its    *)
(* query, is turned away by the gate, or leads a flight.                   *)
AttemptMiss(c) ==
    LET q == QueryOf(c) IN
    /\ CallerAt(c, "attempt")
    /\ ~Gives(c)
    /\ ~CacheHit(q)
    /\ cache' = Removed(cache, q)
    /\ cacheOrder' = IF q \in DOMAIN cache THEN OrderWithout(q) ELSE cacheOrder
    /\ \/ /\ q \in DOMAIN inFlight
          /\ caller' = [caller EXCEPT ![c].at = "waiting", ![c].leader = inFlight[q]]
          /\ UNCHANGED <<gateActive, inFlight>>
       \/ /\ q \notin DOMAIN inFlight
          /\ gateActive >= GateCapacity
          /\ Return(c, "capacity")
          /\ UNCHANGED <<gateActive, inFlight>>
       \/ /\ q \notin DOMAIN inFlight
          /\ gateActive < GateCapacity
          /\ gateActive' = gateActive + 1
          /\ inFlight' = [x \in DOMAIN inFlight \cup {q} |-> IF x = q THEN c ELSE inFlight[x]]
          /\ caller' = [caller EXCEPT ![c].at = "running"]
    /\ UNCHANGED <<cacheTime, flight>>

-----------------------------------------------------------------------------
(* The leader                                                              *)

\* External: the aggregation returns.
QueryReturns(c, err) ==
    /\ CallerAt(c, "running")
    /\ err = "cancelled" => caller[c].cancelled
    /\ flight' = [flight EXCEPT ![c].err = err]
    /\ caller' = [caller EXCEPT ![c].at = "update"]
    /\ UNCHANGED <<gateActive, cacheTime, cache, cacheOrder, inFlight>>

\* setCache: the least recently used entries make room.
SetCache(q) ==
    LET order == OrderWithout(q)[q.coordinator]
        kept == IF Len(order) < MaxCache THEN order
                ELSE SubSeq(order, Len(order) - MaxCache + 2, Len(order))
        evicted == Range(order) \ Range(kept)
    IN  /\ cache' = [x \in (DOMAIN cache \ evicted) \cup {q} |->
                        IF x = q THEN cacheTime ELSE cache[x]]
        /\ cacheOrder' = [cacheOrder EXCEPT ![q.coordinator] = Append(kept, q)]

\* Mutant of Released: a failed query keeps its place in the gate.
ReleasedOnSuccess(c) == IF flight[c].err = "none" THEN gateActive - 1 ELSE gateActive

Released(c) == IF gateActive > 0 THEN gateActive - 1 ELSE 0

\* Mutant of LeaderCanceled: waiters are not told why the flight failed.
NeverCanceled(c) == FALSE

LeaderCanceled(c) == caller[c].cancelled

Update(c) ==
    LET q == QueryOf(c) IN
    /\ CallerAt(c, "update")
    /\ gateActive' = Released(c)
    /\ inFlight' = Removed(inFlight, q)
    /\ IF flight[c].err = "none" /\ ~caller[c].cancelled THEN SetCache(q)
       ELSE UNCHANGED <<cache, cacheOrder>>
    /\ flight' = [flight EXCEPT ![c].done = TRUE, ![c].leaderCanceled = LeaderCanceled(c)]
    /\ Return(c, IF flight[c].err = "none" THEN "value" ELSE flight[c].err)
    /\ UNCHANGED cacheTime

-----------------------------------------------------------------------------
(* A caller waiting on a flight                                            *)

Retries(c) ==
    LET f == flight[caller[c].leader]
    IN  f.err # "none" /\ f.leaderCanceled /\ ~caller[c].cancelled

FlightDone(c) ==
    LET f == flight[caller[c].leader] IN
    /\ CallerAt(c, "waiting")
    /\ f.done
    /\ IF Retries(c)
       THEN caller' = [caller EXCEPT ![c].at = "attempt", ![c].attempt = @ + 1]
       ELSE Return(c, IF f.err = "none" THEN "value" ELSE f.err)
    /\ UNCHANGED <<gateActive, cacheTime, cache, cacheOrder, inFlight, flight>>

WaiterLeaves(c) ==
    /\ CallerAt(c, "waiting")
    /\ caller[c].cancelled
    /\ Return(c, "cancelled")
    /\ UNCHANGED <<gateActive, cacheTime, cache, cacheOrder, inFlight, flight>>

Attempt(c) == AttemptGivesUp(c) \/ AttemptHit(c) \/ AttemptMiss(c)

\* Mutant of Leads: a leader whose client went away leaves its flight as it is.
LeadsOrLeaves(c) ==
    \/ Update(c) \/ \E err \in {"none", "failed", "cancelled"} : QueryReturns(c, err)
    \/ /\ CallerAt(c, "running") /\ caller[c].cancelled
       /\ Return(c, "cancelled")
       /\ UNCHANGED <<gateActive, cacheTime, cache, cacheOrder, inFlight, flight>>

Leads(c) == Update(c) \/ \E err \in {"none", "failed", "cancelled"} : QueryReturns(c, err)
Waits(c) == FlightDone(c) \/ WaiterLeaves(c)

CoordinatorNext ==
    \/ CacheTick
    \/ \E c \in Callers :
        \/ \E q \in Queries : BeginDo(c, q)
        \/ CancelCaller(c)
        \/ Attempt(c) \/ Leads(c) \/ Waits(c)

CoordinatorSpec == CoordinatorInit /\ [][CoordinatorNext]_coordinatorVars

-----------------------------------------------------------------------------
(* Properties                                                              *)

Running == {c \in Callers : caller[c].at \in {"running", "update"}}

(***************************************************************************)
(* The gate counts exactly the queries that run, whatever they return and  *)
(* whoever goes away; a flight that callers can join has a leader that is  *)
(* running that query, and no two leaders run the same query.              *)
(***************************************************************************)
GateExact ==
    /\ gateActive = Cardinality(Running)
    /\ gateActive <= GateCapacity
    /\ \A q \in DOMAIN inFlight : inFlight[q] \in Running /\ QueryOf(inFlight[q]) = q
    /\ \A c, d \in Running : QueryOf(c) = QueryOf(d) => c = d
    /\ \A k \in Coordinators :
            /\ Range(cacheOrder[k]) = {q \in DOMAIN cache : q.coordinator = k}
            /\ Len(cacheOrder[k]) = Cardinality(Range(cacheOrder[k]))
            /\ Len(cacheOrder[k]) <= MaxCache

(***************************************************************************)
(* A caller gets the error of a cancelled context only if its own context  *)
(* was cancelled, never for a leader it had joined.                        *)
(***************************************************************************)
OwnCancellationOnly ==
    \A c \in Callers : caller[c].result = "cancelled" => caller[c].cancelled

(***************************************************************************)
(* Every call of Do returns: a waiter is not left behind by a leader that  *)
(* failed or was cancelled.                                                *)
(***************************************************************************)
CallersReturn ==
    []<>(\A c \in Callers : caller[c].at \in {"idle", "returned"})
=============================================================================
