---------------------------- MODULE ProxyHandler ----------------------------
(***************************************************************************)
(* The life of an authenticated proxied request and of the resources it    *)
(* leases:                                                                 *)
(*   src/internal/httpserver/server.go   proxyHandler.ServeHTTP            *)
(*   src/internal/limiter/lease.go       ResourceLease and its coordinator *)
(*   src/internal/httpserver/admin.go    updatePolicy, which interleaves   *)
(*                                                                         *)
(* The concurrency limiter is the real one: module ConcurrencyLimiter, one *)
(* Lease object per request.  Token and budget reservations are one-shot   *)
(* tokens here (their ledgers are TokenLimiter and BudgetLimiter), refused *)
(* for want of capacity or because the principal's policy was replaced.    *)
(* A request runs under the policy of the snapshot that authenticated it,  *)
(* which may be replaced at any moment.  All requests use one API key.     *)
(***************************************************************************)
EXTENDS Integers, FiniteSets

CONSTANTS
    Requests,
    Key,           \* the API key
    Policies,      \* [max, tokens, budget]: the limit and what is restricted
    NoState,       \* the nil *concurrencyState
    MaxReplacements \* bound on policy replacements

ASSUME PoliciesAssumption ==
    /\ Policies \subseteq [max : Nat, tokens : BOOLEAN, budget : BOOLEAN]
    /\ Policies # {}
ASSUME LifecycleAssumption ==
    /\ IsFiniteSet(Requests)
    /\ NoState \notin Requests
    /\ MaxReplacements \in Nat

VARIABLES
    states, active, lease, returning,   \* the concurrency limiter
    published,      \* the policy in the authentication snapshot
    budgetPolicy,   \* the policy registered with the budget limiter
    tokenPolicy,    \* the policy registered with the token limiter
    admin,          \* the progress of updatePolicy, and how many there were
    handler         \* the local variables of each ServeHTTP

limiterVars == <<states, active, lease, returning>>
policyVars  == <<published, budgetPolicy, tokenPolicy, admin>>
vars        == <<limiterVars, policyVars, handler>>

Limits == {p.max : p \in Policies}

Limiter == INSTANCE ConcurrencyLimiter WITH Keys <- {Key}, Leases <- Requests

Resources == {"tokens", "budget"}

\* Generation endpoints are inspected, GET /v1/models is exempt from plans,
\* every other route is passed through.
Routes == {"generation", "models", "other"}

(***************************************************************************)
(* at: the next step of ServeHTTP.  inspecting: inspectionLease # nil;     *)
(* leased: lifecycleLease # nil; finalized: the lease's flag; then: where  *)
(* ServeHTTP goes on after lease.finish; inForce: whether the recheck saw  *)
(* a budget in force (a history variable).                                 *)
(***************************************************************************)
FreshHandler(p) ==
    [at |-> "arrive", principal |-> p, route |-> "other", inspected |-> FALSE,
     inspecting |-> FALSE, want |-> {}, leased |-> FALSE, started |-> FALSE,
     finalized |-> FALSE, outcome |-> "none", then |-> "done", inForce |-> FALSE,
     bill |-> [x \in Resources |-> "none"]]

Init ==
    /\ Limiter!LimiterInit
    /\ published \in Policies
    /\ budgetPolicy = published
    /\ tokenPolicy = published
    /\ admin = [at |-> "idle", new |-> published, count |-> 0]
    /\ handler = [r \in Requests |-> FreshHandler(published)]

At(r, step) == handler[r].at = step
GoTo(r, step) == handler' = [handler EXCEPT ![r].at = step]

-----------------------------------------------------------------------------
(* updatePolicy.  The token policy lock spans the nested replacement of    *)
(* the budget policy (and the durable commit in it); the snapshot comes    *)
(* last.                                                                   *)

ReplaceBudgetPolicy(p) ==
    /\ admin.at = "idle"
    /\ admin.count < MaxReplacements
    /\ p # published
    /\ budgetPolicy' = p
    /\ admin' = [at |-> "tokens", new |-> p, count |-> admin.count + 1]
    /\ UNCHANGED <<published, tokenPolicy, limiterVars, handler>>

ReplaceTokenPolicy ==
    /\ admin.at = "tokens"
    /\ tokenPolicy' = admin.new
    /\ admin' = [admin EXCEPT !.at = "publish"]
    /\ UNCHANGED <<published, budgetPolicy, limiterVars, handler>>

Publish ==
    /\ admin.at = "publish"
    /\ published' = admin.new
    /\ admin' = [admin EXCEPT !.at = "idle"]
    /\ UNCHANGED <<budgetPolicy, tokenPolicy, limiterVars, handler>>

TokenPolicyLocked == admin.at = "tokens"

-----------------------------------------------------------------------------
(* Admission                                                               *)

\* Authentication binds the request to the published policy.
Authenticate(r, route) ==
    /\ At(r, "arrive")
    /\ handler' = [handler EXCEPT ![r].at = "policy", ![r].principal = published,
                                  ![r].route = route]
    /\ UNCHANGED <<limiterVars, policyVars>>

Principal(r) == handler[r].principal

PolicyCurrent(r) == budgetPolicy.budget = Principal(r).budget

\* The first test of the principal's policy.
CheckPolicy(r) ==
    /\ At(r, "policy")
    /\ GoTo(r, IF PolicyCurrent(r) THEN "slot" ELSE "done")
    /\ UNCHANGED <<limiterVars, policyVars>>

\* shouldInspectRequestMetadata: a generation request whose policy restricts
\* it, or (sized) that declares its length.
Inspects(r, sized) ==
    /\ handler[r].route = "generation"
    /\ (Principal(r).tokens \/ Principal(r).budget \/ sized)

SlotAvailable(r) ==
    Principal(r).max = 0 \/ Limiter!HasCapacity(Key, Principal(r).max)

\* A provisional slot covers the inspection of the request body.
AcquireInspection(r, sized) ==
    /\ At(r, "slot")
    /\ Inspects(r, sized)
    /\ SlotAvailable(r)
    /\ Limiter!Acquire(r, Key, Principal(r).max)
    /\ handler' = [handler EXCEPT ![r].at = "plan", ![r].inspecting = TRUE,
                                  ![r].inspected = TRUE]
    /\ UNCHANGED policyVars

InspectionRefused(r, sized) ==
    /\ At(r, "slot")
    /\ Inspects(r, sized)
    /\ ~SlotAvailable(r)
    /\ GoTo(r, "cleanup")
    /\ UNCHANGED <<limiterVars, policyVars>>

NoInspection(r, sized) ==
    /\ At(r, "slot")
    /\ ~Inspects(r, sized)
    /\ GoTo(r, "plan")
    /\ UNCHANGED <<limiterVars, policyVars>>

\* The body is too large, the model is not allowed, the request window is
\* full, or no plan can be made: ServeHTTP returns.
Rejected(r) ==
    /\ At(r, "plan")
    /\ GoTo(r, "cleanup")
    /\ UNCHANGED <<limiterVars, policyVars>>

\* The token and budget plans.  A budget admits inspected generation requests
\* and the exempt route only; its plan includes a token plan.
Plan(r) ==
    LET exempt == handler[r].route = "models"
        budget == Principal(r).budget /\ ~exempt
        tokens == (Principal(r).tokens /\ ~exempt) \/ budget
    IN  /\ At(r, "plan")
        /\ budget => handler[r].inspected
        /\ handler' = [handler EXCEPT
                ![r].at = "admit",
                ![r].want = {x \in Resources : IF x = "budget" THEN budget ELSE tokens}]
        /\ UNCHANGED <<limiterVars, policyVars>>

\* AcquireWithProvisional: the slot of the inspection becomes the request's.
Promote(r) ==
    /\ At(r, "admit")
    /\ handler[r].inspecting
    /\ Limiter!AdoptFor(r, Key, Principal(r).max > 0)
    /\ handler' = [handler EXCEPT ![r].at = "tokens", ![r].inspecting = FALSE]
    /\ UNCHANGED policyVars

\* Coordinator.Acquire: without an inspection the slot is acquired here.
AcquireSlot(r) ==
    /\ At(r, "admit")
    /\ ~handler[r].inspecting
    /\ SlotAvailable(r)
    /\ Limiter!Acquire(r, Key, Principal(r).max)
    /\ GoTo(r, "tokens")
    /\ UNCHANGED policyVars

SlotRefused(r) ==
    /\ At(r, "admit")
    /\ ~handler[r].inspecting
    /\ ~SlotAvailable(r)
    /\ GoTo(r, "cleanup")
    /\ UNCHANGED <<limiterVars, policyVars>>

Reserved(r, x, step) ==
    [handler EXCEPT ![r].at = step, ![r].bill[x] = "held"]

\* finishAdmission: the token reservation.  A principal without windows neither
\* waits for the policy lock nor is compared with the registered policy.
ReserveTokens(r) ==
    /\ At(r, "tokens")
    /\ "tokens" \in handler[r].want
    /\ Principal(r).tokens => ~TokenPolicyLocked /\ tokenPolicy.tokens
    /\ handler' = Reserved(r, "tokens", "budget")
    /\ UNCHANGED <<limiterVars, policyVars>>

\* The windows are full, or are no longer those of the principal.
TokensRefused(r) ==
    /\ At(r, "tokens")
    /\ ~TokenPolicyLocked
    /\ "tokens" \in handler[r].want
    /\ Principal(r).tokens
    /\ GoTo(r, "rollbackSlot")
    /\ UNCHANGED <<limiterVars, policyVars>>

NoTokens(r) ==
    /\ At(r, "tokens")
    /\ "tokens" \notin handler[r].want
    /\ GoTo(r, "budget")
    /\ UNCHANGED <<limiterVars, policyVars>>

\* finishAdmission: the budget reservation, under the policy lock.
ReserveBudget(r) ==
    /\ At(r, "budget")
    /\ "budget" \in handler[r].want
    /\ PolicyCurrent(r)
    /\ handler' = [Reserved(r, "budget", "recheck") EXCEPT ![r].leased = TRUE]
    /\ UNCHANGED <<limiterVars, policyVars>>

BudgetRefused(r) ==
    /\ At(r, "budget")
    /\ "budget" \in handler[r].want
    /\ GoTo(r, IF "tokens" \in handler[r].want THEN "rollbackTokens" ELSE "rollbackSlot")
    /\ UNCHANGED <<limiterVars, policyVars>>

NoBudget(r) ==
    /\ At(r, "budget")
    /\ "budget" \notin handler[r].want
    /\ handler' = [handler EXCEPT ![r].at = "recheck", ![r].leased = TRUE]
    /\ UNCHANGED <<limiterVars, policyVars>>

\* A refused budget undoes the token reservation, then the slot.
RollbackTokens(r) ==
    /\ At(r, "rollbackTokens")
    /\ handler' = [handler EXCEPT ![r].at = "rollbackSlot", ![r].bill["tokens"] = "free"]
    /\ UNCHANGED <<limiterVars, policyVars>>

RollbackSlot(r) ==
    /\ At(r, "rollbackSlot")
    /\ Limiter!ReleaseOwned(r)
    /\ handler' = [handler EXCEPT ![r].at = "returnSlot", ![r].then = "cleanup"]
    /\ UNCHANGED policyVars

\* Mutant of Recheck: ServeHTTP does not test the policy a second time.
NoRecheck(r) ==
    /\ At(r, "recheck")
    /\ handler' = [handler EXCEPT ![r].at = "start", ![r].inForce = budgetPolicy.budget]
    /\ UNCHANGED <<limiterVars, policyVars>>

\* The second test of the policy, immediately before upstream work.
Recheck(r) ==
    /\ At(r, "recheck")
    /\ handler' = [handler EXCEPT ![r].at = IF PolicyCurrent(r) THEN "start" ELSE "cleanup",
                                  ![r].inForce = budgetPolicy.budget]
    /\ UNCHANGED <<limiterVars, policyVars>>

\* The upstream request cannot be built, or there is no client.
BuildFails(r) ==
    /\ At(r, "start")
    /\ GoTo(r, "cleanup")
    /\ UNCHANGED <<limiterVars, policyVars>>

-----------------------------------------------------------------------------
(* Upstream work and its settlement                                        *)

StartUpstream(r) ==
    /\ At(r, "start")
    /\ handler' = [handler EXCEPT ![r].at = "upstream", ![r].started = TRUE]
    /\ UNCHANGED <<limiterVars, policyVars>>

\* client.Do fails (upload error, timeout, cancellation), the response cannot
\* be observed, or it is cut short.
UpstreamFails(r) ==
    /\ At(r, "upstream")
    /\ GoTo(r, "cleanup")
    /\ UNCHANGED <<limiterVars, policyVars>>

\* A response forwarded to its end with an eligible observation.
Forwarded(r) ==
    /\ At(r, "upstream")
    /\ handler' = [handler EXCEPT ![r].at = "cleanup", ![r].outcome = "deferred"]
    /\ UNCHANGED <<limiterVars, policyVars>>

\* The conversion path settles the lease before it writes the response, with
\* the observed usage or conservatively, and then cleans up.
Converted(r, outcome) ==
    /\ At(r, "upstream")
    /\ handler' = [handler EXCEPT ![r].at = "finish", ![r].outcome = outcome,
                                  ![r].then = "cleanup"]
    /\ UNCHANGED <<limiterVars, policyVars>>

\* The deferred cleanup without a provisional slot: the outcome depends on
\* whether upstream work was started.
Cleanup(r) ==
    /\ At(r, "cleanup")
    /\ ~handler[r].inspecting
    /\ handler' = [handler EXCEPT
            ![r].at = IF handler[r].leased THEN "finish" ELSE "done",
            ![r].then = "done",
            ![r].outcome = IF ~handler[r].started THEN "release"
                           ELSE IF @ = "deferred" THEN "deferred" ELSE "conservative"]
    /\ UNCHANGED <<limiterVars, policyVars>>

\* Mutant of CleanupInspection: the deferred cleanup forgets the provisional slot.
CleanupForgetsInspection(r) ==
    /\ At(r, "cleanup")
    /\ handler[r].inspecting
    /\ handler' = [handler EXCEPT ![r].inspecting = FALSE]
    /\ UNCHANGED <<limiterVars, policyVars>>

\* The deferred cleanup gives a provisional slot back.
CleanupInspection(r) ==
    /\ At(r, "cleanup")
    /\ handler[r].inspecting
    /\ Limiter!Release(r)
    /\ handler' = [handler EXCEPT ![r].at = "returnSlot", ![r].inspecting = FALSE,
                                  ![r].then = "cleanup"]
    /\ UNCHANGED policyVars

\* finish on a lease that is final already returns the cached result.
FinishAgain(r) ==
    /\ At(r, "finish")
    /\ handler[r].finalized
    /\ GoTo(r, handler[r].then)
    /\ UNCHANGED <<limiterVars, policyVars>>

Settled(r, x) ==
    IF handler[r].bill[x] # "held" THEN handler[r].bill[x]
    ELSE IF handler[r].outcome = "release" THEN "free" ELSE "charged"

\* Mutant of FinishTokens: an early exit leaves the budget reservation open.
FinishTokensOnly(r) ==
    /\ At(r, "finish")
    /\ ~handler[r].finalized
    /\ handler' = [handler EXCEPT ![r].at = "finishSlot", ![r].finalized = TRUE,
                                  ![r].bill["tokens"] = Settled(r, "tokens")]
    /\ UNCHANGED <<limiterVars, policyVars>>

\* finish settles the tokens, then the budget, ...
FinishTokens(r) ==
    /\ At(r, "finish")
    /\ ~handler[r].finalized
    /\ handler' = [handler EXCEPT ![r].at = "finishBudget", ![r].finalized = TRUE,
                                  ![r].bill["tokens"] = Settled(r, "tokens")]
    /\ UNCHANGED <<limiterVars, policyVars>>

FinishBudget(r) ==
    /\ At(r, "finishBudget")
    /\ handler' = [handler EXCEPT ![r].at = "finishSlot",
                                  ![r].bill["budget"] = Settled(r, "budget")]
    /\ UNCHANGED <<limiterVars, policyVars>>

\* ... and last the slot.
FinishSlot(r) ==
    /\ At(r, "finishSlot")
    /\ Limiter!ReleaseOwned(r)
    /\ GoTo(r, "returnSlot")
    /\ UNCHANGED policyVars

\* The second critical section of a release.
ReturnSlot(r) ==
    /\ At(r, "returnSlot")
    /\ Limiter!ReleaseSlot(r)
    /\ GoTo(r, handler[r].then)
    /\ UNCHANGED policyVars

-----------------------------------------------------------------------------
Admit(r) ==
    \/ CheckPolicy(r)
    \/ \E sized \in BOOLEAN :
          AcquireInspection(r, sized) \/ InspectionRefused(r, sized) \/ NoInspection(r, sized)
    \/ Rejected(r) \/ Plan(r)
    \/ Promote(r) \/ AcquireSlot(r) \/ SlotRefused(r)
    \/ ReserveTokens(r) \/ TokensRefused(r) \/ NoTokens(r)
    \/ ReserveBudget(r) \/ BudgetRefused(r) \/ NoBudget(r)
    \/ RollbackTokens(r) \/ RollbackSlot(r)
    \/ Recheck(r) \/ BuildFails(r)

Work(r) ==
    \/ StartUpstream(r) \/ UpstreamFails(r) \/ Forwarded(r)
    \/ \E outcome \in {"known", "conservative"} : Converted(r, outcome)

Settlement(r) ==
    \/ Cleanup(r) \/ CleanupInspection(r)
    \/ FinishAgain(r) \/ FinishTokens(r) \/ FinishBudget(r) \/ FinishSlot(r) \/ ReturnSlot(r)

Serve(r) == Admit(r) \/ Work(r) \/ Settlement(r)

UpdatePolicy ==
    \/ \E p \in Policies : ReplaceBudgetPolicy(p)
    \/ ReplaceTokenPolicy
    \/ Publish

\* All requests have been served and no replacement is left to make: the only
\* state in which the model may rest, so that a handler or an update that waits
\* for ever is a deadlock.
Finished ==
    /\ \A r \in Requests : At(r, "done")
    /\ admin.at = "idle" /\ admin.count = MaxReplacements
    /\ UNCHANGED vars

Next ==
    \/ \E r \in Requests : Serve(r) \/ \E route \in Routes : Authenticate(r, route)
    \/ UpdatePolicy
    \/ Finished

Spec == Init /\ [][Next]_vars

-----------------------------------------------------------------------------
(* Properties                                                              *)

Steps == {"arrive", "policy", "slot", "plan", "admit", "tokens", "budget", "rollbackTokens",
          "rollbackSlot", "recheck", "start", "upstream", "cleanup", "finish", "finishBudget",
          "finishSlot", "returnSlot", "done"}

TypeOK ==
    /\ Limiter!LimiterTypeOK
    /\ {published, budgetPolicy, tokenPolicy} \subseteq Policies
    /\ admin \in [at : {"idle", "tokens", "publish"}, new : Policies, count : 0 .. MaxReplacements]
    /\ handler \in [Requests ->
         [at : Steps, principal : Policies, route : Routes, inspected : BOOLEAN,
          inspecting : BOOLEAN, want : SUBSET Resources, leased : BOOLEAN, started : BOOLEAN,
          finalized : BOOLEAN, outcome : {"none", "known", "conservative", "deferred", "release"},
          then : {"cleanup", "done"}, inForce : BOOLEAN,
          bill : [Resources -> {"none", "held", "free", "charged"}]]]

Done(r) == At(r, "done")

\* The promotion of the inspection slot cannot fail.  ServeHTTP forgets the
\* provisional lease whatever AcquireWithProvisional answers, so a refusal
\* would leak the slot for good.
PromotionSucceeds ==
    \A r \in Requests : At(r, "admit") /\ handler[r].inspecting =>
        Limiter!Adoptable(r, Key, Principal(r).max > 0)

\* Every exit of ServeHTTP, early or late, leaves nothing behind: no slot, no
\* open reservation, and no lease object that was never released; nor is a
\* provisional slot lost in the promotion on the way there.
NothingHeldAfter ==
    /\ TypeOK
    /\ PromotionSucceeds
    /\ \A r \in Requests : Done(r) =>
         /\ lease[r].admitted => lease[r].released /\ r \notin returning
         /\ \A x \in Resources : handler[r].bill[x] # "held"

\* "a snapshot that became stale during the rest of admission cannot bypass the
\* new policy": a request that starts upstream work when a budget was in force
\* at its recheck has reserved budget, unless its route is exempt.
BudgetNotBypassed ==
    \A r \in Requests : handler[r].started /\ handler[r].inForce =>
        handler[r].route = "models" \/ handler[r].bill["budget"] # "none"

-----------------------------------------------------------------------------
(* The contract of a request's resources                                   *)

Stage(r) ==
    IF ~lease[r].admitted THEN "outside"
    ELSE IF lease[r].released THEN "gone"
    ELSE IF handler[r].started THEN "working"
    ELSE "inside"

Contract == INSTANCE LeaseContract WITH
    stage <- [r \in Requests |-> Stage(r)],
    bill  <- [r \in Requests |-> handler[r].bill]

\* ServeHTTP with its coordinator implements the contract: each reservation is
\* settled exactly once, before the slot is given up, and priced by whether
\* upstream work was possible.
ImplementsContract == Contract!Spec
=============================================================================
