------------------------- MODULE ProxyHandlerProofs -------------------------
(***************************************************************************)
(* Proofs about ProxyHandler: for any number of requests and any set of    *)
(* policies, whatever exit ServeHTTP takes and however the policy is       *)
(* replaced meanwhile, a request leaves nothing behind, no budget is       *)
(* bypassed, and the life of its resources is the one LeaseContract        *)
(* promises.                                                               *)
(*                                                                         *)
(* What a request holds is a function of where its ServeHTTP is and of the *)
(* flags it carries to its deferred cleanup: HandlerOK says which.  The    *)
(* promotion of a provisional slot succeeds because of what the            *)
(* concurrency limiter guarantees; that is not proved again here but taken *)
(* from ConcurrencyLimiterProofs, whose invariant every step of ServeHTTP  *)
(* preserves, being a step of the limiter or none.                         *)
(***************************************************************************)
EXTENDS ProxyHandler, TLAPS

LimiterProofs == INSTANCE ConcurrencyLimiterProofs WITH Keys <- {Key}, Leases <- Requests

HandlerRecords ==
    [at : Steps, principal : Policies, route : Routes, inspected : BOOLEAN,
     inspecting : BOOLEAN, want : SUBSET Resources, leased : BOOLEAN, started : BOOLEAN,
     finalized : BOOLEAN, outcome : {"none", "known", "conservative", "deferred", "release"},
     then : {"cleanup", "done"}, inForce : BOOLEAN,
     bill : [Resources -> {"none", "held", "free", "charged"}]]

(***************************************************************************)
(* The slot of a request, from its lease object l and whether a release of *)
(* it is between its two critical sections, and its reservations b.        *)
(***************************************************************************)
Absent(l, returns) == ~l.admitted /\ ~returns
Open(l, returns) == l.admitted /\ ~l.released /\ ~returns
Gone(l, returns) == l.admitted /\ l.released /\ ~returns

Unbilled(b) == \A x \in Resources : b[x] = "none"
Unsettled(b) == \A x \in Resources : b[x] \in {"none", "held"}
NoneHeld(b) == \A x \in Resources : b[x] # "held"

Admitting == {"tokens", "budget", "rollbackTokens", "rollbackSlot"}
Leasing == {"recheck", "start", "upstream"}
Finishing == {"finish", "finishBudget", "finishSlot"}

\* The flags of ServeHTTP say where it can be.
FlagsOK(h) ==
    /\ h.inspecting => h.at \in {"plan", "admit", "cleanup"}
    /\ h.leased => h.at \in Leasing \cup Finishing \cup {"cleanup", "returnSlot", "done"}
    /\ h.at \in Leasing \cup Finishing => h.leased
    /\ h.finalized => h.leased
    /\ h.started => h.leased
    /\ h.at \in Leasing => ~h.finalized /\ (h.started <=> h.at = "upstream")
    /\ h.at \in {"finishBudget", "finishSlot"} => h.finalized
    /\ h.at = "returnSlot" /\ h.leased => h.finalized
    /\ h.at \in {"finish", "finishBudget"} => (h.outcome = "release" <=> ~h.started)
    /\ h.inspecting => ~h.leased

\* What ServeHTTP holds of the concurrency limiter.
SlotOK(h, l, returns) ==
    /\ h.at \in {"arrive", "policy", "slot"} => Absent(l, returns)
    /\ h.at \in {"plan", "admit"} /\ ~h.inspecting => Absent(l, returns)
    /\ h.inspecting => /\ Open(l, returns) /\ ~l.claimed /\ l.keyID = Key
                       /\ l.state = NoState <=> h.principal.max = 0
    /\ h.at \in Admitting \cup Leasing \cup {"finishBudget", "finishSlot"} => Open(l, returns)
    /\ h.at \in {"cleanup", "finish"} /\ h.leased =>
         IF h.finalized THEN Gone(l, returns) ELSE Open(l, returns)
    /\ h.at = "cleanup" /\ ~h.inspecting /\ ~h.leased => Absent(l, returns) \/ Gone(l, returns)
    /\ h.at = "returnSlot" => l.admitted /\ l.released /\ returns
    /\ h.at = "done" => Absent(l, returns) \/ Gone(l, returns)

\* What ServeHTTP has reserved and not settled.
BillOK(h) ==
    /\ h.at \in {"arrive", "policy", "slot", "plan", "admit", "tokens"} => Unbilled(h.bill)
    /\ h.at = "budget" => /\ h.bill["budget"] = "none"
                          /\ h.bill["tokens"] = IF "tokens" \in h.want THEN "held" ELSE "none"
    /\ h.at = "rollbackTokens" => h.bill["tokens"] = "held" /\ h.bill["budget"] = "none"
    /\ h.at \in Leasing => Unsettled(h.bill)
    /\ h.at \in {"cleanup", "finish"} =>
         IF h.leased /\ ~h.finalized THEN Unsettled(h.bill) ELSE NoneHeld(h.bill)
    /\ h.at = "finishBudget" => h.bill["tokens"] # "held"
    /\ h.at \in {"rollbackSlot", "finishSlot", "returnSlot", "done"} => NoneHeld(h.bill)

\* A budget that binds the principal is in the plan, and in the bill of the lease.
BudgetOK(h) ==
    /\ h.at \in Admitting \cup {"admit"} \/ h.leased =>
         (h.principal.budget /\ h.route # "models" => "budget" \in h.want)
    /\ h.leased /\ "budget" \in h.want => h.bill["budget"] # "none"
    /\ h.at = "start" \/ h.started => h.inForce = h.principal.budget

HandlerOK(h, l, returns) == FlagsOK(h) /\ SlotOK(h, l, returns) /\ BillOK(h) /\ BudgetOK(h)

HandlersOK == \A r \in Requests : HandlerOK(handler[r], lease[r], r \in returning)

ProxyIInv == TypeOK /\ LimiterProofs!IInv /\ HandlersOK

-----------------------------------------------------------------------------
(* The concurrency limiter.                                                *)


(* The limiter's assumptions hold of the constants the gateway gives it.   *)
LEMMA LimiterAssumed == LimiterProofs!ConcurrencyAssumption
  <1>1. LimiterProofs!IsFiniteSet(Requests) <=> IsFiniteSet(Requests)
    BY DEF LimiterProofs!IsFiniteSet, IsFiniteSet
  <1>2. Limits \subseteq Nat /\ Limits # {}
    BY PoliciesAssumption DEF Limits
  <1> QED
    BY <1>1, <1>2, LifecycleAssumption DEF LimiterProofs!ConcurrencyAssumption

(* The limiter starts as it does alone.                                    *)
LEMMA LimiterInitially == Limiter!LimiterInit => LimiterProofs!IInv
  <1>1. Limiter!LimiterInit => LimiterProofs!LimiterInit
    BY DEF Limiter!LimiterInit, LimiterProofs!LimiterInit, Limiter!FreshLease,
           LimiterProofs!FreshLease
  <1> QED
    BY <1>1, LimiterAssumed, LimiterProofs!InitIInv

(* A step of the limiter, or none, keeps its invariant.                    *)
LEMMA LimiterKeeps ==
    ASSUME LimiterProofs!IInv, [LimiterProofs!LimiterNext]_(LimiterProofs!concurrencyVars)
    PROVE  LimiterProofs!IInv'
  BY LimiterAssumed, LimiterProofs!NextIInv

(* The type the limiter proves of its variables is the one of ProxyHandler. *)
LEMMA LimiterTyped ==
    /\ LimiterProofs!IInv => Limiter!LimiterTypeOK
    /\ LimiterProofs!IInv' => Limiter!LimiterTypeOK'
  BY DEF LimiterProofs!IInv, LimiterProofs!LimiterTypeOK, Limiter!LimiterTypeOK,
         LimiterProofs!LeaseRecord, Limiter!LeaseRecord

(* A step of ServeHTTP that calls the limiter is a step of the limiter.    *)
LEMMA LimiterStep ==
    ASSUME LimiterProofs!IInv, NEW r \in Requests,
           \/ \E max \in Limits : Limiter!Acquire(r, Key, max)
           \/ Limiter!Release(r)
           \/ \E need \in BOOLEAN : Limiter!AdoptFor(r, Key, need)
           \/ Limiter!ReleaseOwned(r)
           \/ Limiter!ReleaseSlot(r)
    PROVE  LimiterProofs!IInv' /\ Limiter!LimiterTypeOK'
  <1>1. CASE \E max \in Limits : Limiter!Acquire(r, Key, max)
    <2>1. LimiterProofs!LimiterNext
      BY <1>1 DEF LimiterProofs!LimiterNext, Limiter!Acquire, LimiterProofs!Acquire,
           Limiter!AcquireUnlimited, LimiterProofs!AcquireUnlimited, Limiter!AcquireSlot,
           LimiterProofs!AcquireSlot, Limiter!HasCapacity, LimiterProofs!HasCapacity,
           Limiter!NewLease, LimiterProofs!NewLease
    <2> QED  BY <2>1, LimiterKeeps, LimiterTyped
  <1>2. CASE Limiter!Release(r)
    <2>1. LimiterProofs!LimiterNext
      BY <1>2 DEF LimiterProofs!LimiterNext, Limiter!Release, LimiterProofs!Release
    <2> QED  BY <2>1, LimiterKeeps, LimiterTyped
  <1>3. CASE \E need \in BOOLEAN : Limiter!AdoptFor(r, Key, need)
    <2>1. LimiterProofs!LimiterNext
      BY <1>3 DEF LimiterProofs!LimiterNext, Limiter!AdoptFor, LimiterProofs!AdoptFor,
           Limiter!Adoptable, LimiterProofs!Adoptable, Limiter!SlotIsLive,
           LimiterProofs!SlotIsLive
    <2> QED  BY <2>1, LimiterKeeps, LimiterTyped
  <1>4. CASE Limiter!ReleaseOwned(r)
    <2>1. LimiterProofs!LimiterNext
      BY <1>4 DEF LimiterProofs!LimiterNext, Limiter!ReleaseOwned, LimiterProofs!ReleaseOwned
    <2> QED  BY <2>1, LimiterKeeps, LimiterTyped
  <1>5. CASE Limiter!ReleaseSlot(r)
    <2>1. LimiterProofs!LimiterNext
      BY <1>5 DEF LimiterProofs!LimiterNext, Limiter!ReleaseSlot, LimiterProofs!ReleaseSlot,
           Limiter!SlotReturned, LimiterProofs!SlotReturned
    <2> QED  BY <2>1, LimiterKeeps, LimiterTyped
  <1> QED  BY <1>1, <1>2, <1>3, <1>4, <1>5

(* A step that leaves the limiter alone.                                   *)
LEMMA LimiterStutter ==
    ASSUME LimiterProofs!IInv, UNCHANGED limiterVars
    PROVE  LimiterProofs!IInv' /\ Limiter!LimiterTypeOK'
  <1>1. UNCHANGED LimiterProofs!concurrencyVars
    BY DEF limiterVars, LimiterProofs!concurrencyVars
  <1> QED  BY <1>1, LimiterKeeps, LimiterTyped

(* A lease that has its slot and is not claimed can be promoted: its state *)
(* object is the current one of its key, with a counter that counts it.    *)
LEMMA OpenAdoptable ==
    ASSUME LimiterProofs!IInv, NEW r \in Requests, NEW max \in Nat,
           Open(lease[r], r \in returning), ~lease[r].claimed, lease[r].keyID = Key,
           lease[r].state = NoState => max = 0
    PROVE  Limiter!Adoptable(r, Key, max > 0)
  BY DEF LimiterProofs!IInv, LimiterProofs!SlotsExact, LimiterProofs!Holding,
         Limiter!Adoptable, Limiter!SlotIsLive, Open

-----------------------------------------------------------------------------
(* One step of one ServeHTTP.                                              *)

\* The other requests, and the policies, are not touched.
OthersUntouched(r) ==
    /\ UNCHANGED policyVars
    /\ \A q \in Requests \ {r} :
         handler'[q] = handler[q] /\ lease'[q] = lease[q] /\ (q \in returning' <=> q \in returning)

(* The conjuncts of the invariant, as facts about one request.             *)
LEMMA Unfold ==
    ASSUME ProxyIInv
    PROVE  /\ LimiterProofs!IInv
           /\ {published, budgetPolicy, tokenPolicy} \subseteq Policies
           /\ handler \in [Requests -> HandlerRecords]
           /\ \A r \in Requests : HandlerOK(handler[r], lease[r], r \in returning)
           /\ lease \in [Requests -> LimiterProofs!LeaseRecord]
           /\ returning \in SUBSET Requests
  BY DEF ProxyIInv, TypeOK, HandlersOK, HandlerRecords, LimiterProofs!IInv,
         LimiterProofs!LimiterTypeOK

(* The invariant after a step of one request.                              *)
LEMMA Fold ==
    ASSUME ProxyIInv, NEW r \in Requests, OthersUntouched(r),
           LimiterProofs!IInv', Limiter!LimiterTypeOK',
           handler' \in [Requests -> HandlerRecords],
           HandlerOK(handler'[r], lease'[r], r \in returning')
    PROVE  ProxyIInv'
  <1>1. TypeOK'
    BY DEF ProxyIInv, TypeOK, HandlerRecords, OthersUntouched, policyVars
  <1>2. ASSUME NEW q \in Requests
        PROVE  HandlerOK(handler'[q], lease'[q], q \in returning')
    <2>1. CASE q = r
      BY <2>1
    <2>2. CASE q # r
      <3>1. HandlerOK(handler[q], lease[q], q \in returning)
        BY Unfold
      <3>2. handler'[q] = handler[q] /\ lease'[q] = lease[q]
        BY <2>2 DEF OthersUntouched
      <3>3. (q \in returning') = (q \in returning)
        BY <2>2 DEF OthersUntouched
      <3> QED  BY <3>1, <3>2, <3>3
    <2> QED  BY <2>1, <2>2
  <1>3. HandlersOK'
    BY <1>2 DEF HandlersOK
  <1> QED  BY <1>1, <1>3 DEF ProxyIInv

(* A step that calls nothing of the limiter.                               *)
LEMMA QuietStep ==
    ASSUME ProxyIInv, NEW r \in Requests, NEW g \in HandlerRecords,
           handler' = [handler EXCEPT ![r] = g], UNCHANGED <<limiterVars, policyVars>>,
           HandlerOK(g, lease[r], r \in returning)
    PROVE  ProxyIInv'
  <1>1. LimiterProofs!IInv' /\ Limiter!LimiterTypeOK'
    BY Unfold, LimiterStutter
  <1>2. handler' \in [Requests -> HandlerRecords] /\ handler'[r] = g
    BY Unfold
  <1>3. OthersUntouched(r)
    BY Unfold DEF OthersUntouched, limiterVars
  <1>4. HandlerOK(handler'[r], lease'[r], r \in returning')
    BY <1>2 DEF limiterVars
  <1> QED  BY <1>1, <1>2, <1>3, <1>4, Fold

\* The moves of ServeHTTP that change nothing but its place.
GoesTo(h, s) ==
    \/ h.at = "policy" /\ s \in {"slot", "done"}
    \/ h.at = "slot" /\ s \in {"plan", "cleanup"}
    \/ h.at = "plan" /\ s = "cleanup"
    \/ h.at = "admit" /\ ~h.inspecting /\ s = "cleanup"
    \/ h.at = "tokens" /\ s = "rollbackSlot"
    \/ h.at = "tokens" /\ "tokens" \notin h.want /\ s = "budget"
    \/ h.at = "budget" /\ s = IF "tokens" \in h.want THEN "rollbackTokens" ELSE "rollbackSlot"
    \/ h.at \in {"start", "upstream"} /\ s = "cleanup"
    \/ h.at = "finish" /\ h.finalized /\ s = h.then

-----------------------------------------------------------------------------
(* The steps of ServeHTTP between its calls of the limiter, each as a      *)
(* relation of its local variables before (h) and after it (g).            *)

SameFlags(h, g) ==
    /\ g.inspecting = h.inspecting /\ g.started = h.started /\ g.finalized = h.finalized
    /\ g.outcome = h.outcome
SameBill(h, g) == g.bill["tokens"] = h.bill["tokens"] /\ g.bill["budget"] = h.bill["budget"]
SamePlan(h, g) == g.principal = h.principal /\ g.route = h.route /\ g.want = h.want

Moves(h, g) ==
    /\ GoesTo(h, g.at)
    /\ SameFlags(h, g) /\ SameBill(h, g) /\ SamePlan(h, g)
    /\ g.leased = h.leased /\ g.inForce = h.inForce

\* Authenticate, Plan, and finishAdmission to the lease or to its rollback.
Admits(h, g) ==
    /\ SameFlags(h, g) /\ g.inForce = h.inForce
    /\ \/ /\ h.at = "arrive" /\ g.at = "policy"
          /\ SameBill(h, g) /\ g.leased = h.leased
       \/ /\ h.at = "plan" /\ g.at = "admit"
          /\ h.principal.budget /\ h.route # "models" => "budget" \in g.want
          /\ SameBill(h, g) /\ g.leased = h.leased
          /\ g.principal = h.principal /\ g.route = h.route
       \/ /\ h.at = "tokens" /\ g.at = "budget" /\ "tokens" \in h.want
          /\ g.bill["tokens"] = "held" /\ g.bill["budget"] = h.bill["budget"]
          /\ SamePlan(h, g) /\ g.leased = h.leased
       \/ /\ h.at = "budget" /\ g.at = "recheck" /\ g.leased
          /\ g.bill["tokens"] = h.bill["tokens"]
          /\ g.bill["budget"] = IF "budget" \in h.want THEN "held" ELSE h.bill["budget"]
          /\ SamePlan(h, g)
       \/ /\ h.at = "rollbackTokens" /\ g.at = "rollbackSlot"
          /\ g.bill["tokens"] = "free" /\ g.bill["budget"] = h.bill["budget"]
          /\ SamePlan(h, g) /\ g.leased = h.leased

\* Recheck, StartUpstream, Forwarded and Converted.
Works(h, g) ==
    /\ SameBill(h, g) /\ SamePlan(h, g)
    /\ g.inspecting = h.inspecting /\ g.leased = h.leased /\ g.finalized = h.finalized
    /\ \/ /\ h.at = "recheck" /\ g.started = h.started /\ g.outcome = h.outcome
          /\ g.at = IF g.inForce = h.principal.budget THEN "start" ELSE "cleanup"
       \/ /\ h.at = "start" /\ g.at = "upstream" /\ g.started
          /\ g.outcome = h.outcome /\ g.inForce = h.inForce
       \/ /\ h.at = "upstream" /\ g.at \in {"cleanup", "finish"}
          /\ g.outcome # "release" /\ g.started = h.started /\ g.inForce = h.inForce

Priced(h, x) ==
    IF h.bill[x] # "held" THEN h.bill[x] ELSE IF h.outcome = "release" THEN "free" ELSE "charged"

\* Cleanup, FinishTokens and FinishBudget.
Settles(h, g) ==
    /\ SamePlan(h, g)
    /\ g.inspecting = h.inspecting /\ g.leased = h.leased /\ g.started = h.started
    /\ g.inForce = h.inForce
    /\ \/ /\ h.at = "cleanup" /\ ~h.inspecting
          /\ g.at = IF h.leased THEN "finish" ELSE "done"
          /\ g.outcome = "release" <=> ~h.started
          /\ SameBill(h, g) /\ g.finalized = h.finalized
       \/ /\ h.at = "finish" /\ ~h.finalized /\ g.at = "finishBudget" /\ g.finalized
          /\ g.outcome = h.outcome
          /\ g.bill["tokens"] = Priced(h, "tokens") /\ g.bill["budget"] = h.bill["budget"]
       \/ /\ h.at = "finishBudget" /\ g.at = "finishSlot"
          /\ g.outcome = h.outcome /\ g.finalized = h.finalized
          /\ g.bill["tokens"] = h.bill["tokens"] /\ g.bill["budget"] = Priced(h, "budget")

LocalMove(h, g) == Moves(h, g) \/ Admits(h, g) \/ Works(h, g) \/ Settles(h, g)

(* No step forgets what ServeHTTP holds: its place and its flags still say *)
(* what that is.                                                           *)
LEMMA LocalOK ==
    ASSUME NEW h \in HandlerRecords, NEW g \in HandlerRecords, NEW l, NEW returns \in BOOLEAN,
           HandlerOK(h, l, returns), LocalMove(h, g)
    PROVE  HandlerOK(g, l, returns)
  <1> USE DEF HandlerOK, SameFlags, SameBill, SamePlan
  <1>1. CASE Moves(h, g)
    <2>1. FlagsOK(g)
      BY <1>1 DEF Moves, GoesTo, FlagsOK, Leasing, Finishing, HandlerRecords
    <2>2. SlotOK(g, l, returns)
      BY <1>1 DEF Moves, GoesTo, FlagsOK, SlotOK, Admitting, Leasing, Finishing, HandlerRecords
    <2>3. BillOK(g)
      BY <1>1 DEF Moves, GoesTo, FlagsOK, BillOK, Leasing, Finishing, HandlerRecords, Unbilled,
                  Unsettled, NoneHeld, Resources
    <2>4. BudgetOK(g)
      BY <1>1 DEF Moves, GoesTo, FlagsOK, BudgetOK, Admitting, Leasing, Finishing, HandlerRecords,
                  Resources
    <2> QED  BY <2>1, <2>2, <2>3, <2>4
  <1>2. CASE Admits(h, g)
    <2>1. FlagsOK(g)
      BY <1>2 DEF Admits, FlagsOK, Leasing, Finishing, HandlerRecords
    <2>2. SlotOK(g, l, returns)
      BY <1>2 DEF Admits, FlagsOK, SlotOK, Admitting, Leasing, Finishing, HandlerRecords
    <2>3. BillOK(g)
      BY <1>2 DEF Admits, FlagsOK, BillOK, Leasing, Finishing, HandlerRecords, Unbilled,
                  Unsettled, NoneHeld, Resources
    <2>4. BudgetOK(g)
      BY <1>2 DEF Admits, FlagsOK, BudgetOK, Admitting, Leasing, Finishing, HandlerRecords,
                  Resources
    <2> QED  BY <2>1, <2>2, <2>3, <2>4
  <1>3. CASE Works(h, g)
    <2>1. FlagsOK(g)
      BY <1>3 DEF Works, FlagsOK, Leasing, Finishing, HandlerRecords
    <2>2. SlotOK(g, l, returns)
      BY <1>3 DEF Works, FlagsOK, SlotOK, Admitting, Leasing, Finishing, HandlerRecords
    <2>3. BillOK(g)
      BY <1>3 DEF Works, FlagsOK, BillOK, Leasing, Finishing, HandlerRecords, Unbilled,
                  Unsettled, NoneHeld, Resources
    <2>4. BudgetOK(g)
      BY <1>3 DEF Works, FlagsOK, BudgetOK, Admitting, Leasing, Finishing, HandlerRecords,
                  Resources
    <2> QED  BY <2>1, <2>2, <2>3, <2>4
  <1>4. CASE Settles(h, g)
    <2>1. FlagsOK(g)
      BY <1>4 DEF Settles, Priced, FlagsOK, Leasing, Finishing, HandlerRecords
    <2>2. SlotOK(g, l, returns)
      BY <1>4 DEF Settles, Priced, FlagsOK, SlotOK, Admitting, Leasing, Finishing, HandlerRecords
    <2>3. BillOK(g)
      BY <1>4 DEF Settles, Priced, FlagsOK, BillOK, Leasing, Finishing, HandlerRecords, Unbilled,
                  Unsettled, NoneHeld, Resources
    <2>4. BudgetOK(g)
      BY <1>4 DEF Settles, Priced, FlagsOK, BudgetOK, Admitting, Leasing, Finishing, HandlerRecords,
                  Resources
    <2> QED  BY <2>1, <2>2, <2>3, <2>4
  <1> QED  BY <1>1, <1>2, <1>3, <1>4 DEF LocalMove

-----------------------------------------------------------------------------
(* The same steps, as LeaseContract sees them.                             *)

StageOf(h, l) ==
    IF ~l.admitted THEN "outside" ELSE IF l.released THEN "gone"
    ELSE IF h.started THEN "working" ELSE "inside"

\* A request goes from stage s with bill b to stage t with bill c by one step
\* of the contract, or by none.
ContractMove(s, b, t, c) ==
    \/ t = s /\ c = b
    \/ s = "outside" /\ t = "inside" /\ c = b
    \/ s = "inside" /\ t = "working" /\ c = b /\ Unsettled(b)
    \/ s \in {"inside", "working"} /\ t = "gone" /\ c = b /\ NoneHeld(b)
    \/ /\ s = "inside" /\ t = s
       /\ \E x \in Resources : b[x] = "none" /\ c = [b EXCEPT ![x] = "held"]
    \/ /\ s \in {"inside", "working"} /\ t = s
       /\ \E x \in Resources :
             b[x] = "held" /\ c = [b EXCEPT ![x] = IF s = "working" THEN "charged" ELSE "free"]

(* A bill is known by its two entries.                                     *)
LEMMA BillChange ==
    ASSUME NEW h \in HandlerRecords, NEW g \in HandlerRecords
    PROVE  /\ SameBill(h, g) => g.bill = h.bill
           /\ \A v : g.bill["tokens"] = v /\ g.bill["budget"] = h.bill["budget"]
                       => g.bill = [h.bill EXCEPT !["tokens"] = v]
           /\ \A v : g.bill["budget"] = v /\ g.bill["tokens"] = h.bill["tokens"]
                       => g.bill = [h.bill EXCEPT !["budget"] = v]
  BY DEF SameBill, HandlerRecords, Resources

(* Each of those steps is one of the contract for the request that takes   *)
(* it, or none.                                                            *)
LEMMA LocalComplies ==
    ASSUME NEW h \in HandlerRecords, NEW g \in HandlerRecords, NEW l, NEW returns \in BOOLEAN,
           HandlerOK(h, l, returns), LocalMove(h, g)
    PROVE  ContractMove(StageOf(h, l), h.bill, StageOf(g, l), g.bill)
  <1> USE DEF HandlerOK, SameFlags, SamePlan, FlagsOK, Admitting, Leasing, Finishing
  <1>1. CASE Moves(h, g)
    BY <1>1, BillChange DEF Moves, StageOf, ContractMove
  <1>2. CASE Admits(h, g) /\ SameBill(h, g)
    BY <1>2, BillChange DEF Admits, StageOf, ContractMove
  <1>3. CASE Admits(h, g) /\ h.at = "tokens"
    <2>1. StageOf(h, l) = "inside" /\ StageOf(g, l) = "inside"
      BY <1>3 DEF Admits, StageOf, SlotOK, Open, HandlerRecords
    <2>2. h.bill["tokens"] = "none" /\ g.bill = [h.bill EXCEPT !["tokens"] = "held"]
      BY <1>3, BillChange DEF Admits, BillOK, Unbilled, Resources
    <2> QED  BY <2>1, <2>2 DEF ContractMove, Resources
  <1>4. CASE Admits(h, g) /\ h.at = "budget" /\ ~SameBill(h, g)
    <2>1. StageOf(h, l) = "inside" /\ StageOf(g, l) = "inside"
      BY <1>4 DEF Admits, StageOf, SlotOK, Open, HandlerRecords
    <2>2. h.bill["budget"] = "none" /\ g.bill = [h.bill EXCEPT !["budget"] = "held"]
      BY <1>4, BillChange DEF Admits, BillOK, SameBill
    <2> QED  BY <2>1, <2>2 DEF ContractMove, Resources
  <1>5. CASE Admits(h, g) /\ h.at = "rollbackTokens"
    <2>1. StageOf(h, l) = "inside" /\ StageOf(g, l) = "inside"
      BY <1>5 DEF Admits, StageOf, SlotOK, Open, HandlerRecords
    <2>2. h.bill["tokens"] = "held" /\ g.bill = [h.bill EXCEPT !["tokens"] = "free"]
      BY <1>5, BillChange DEF Admits, BillOK
    <2> QED  BY <2>1, <2>2 DEF ContractMove, Resources
  <1>6. CASE Works(h, g)
    <2>1. CASE h.at # "start"
      BY <1>6, <2>1, BillChange DEF Works, StageOf, ContractMove
    <2>2. CASE h.at = "start"
      <3>1. StageOf(h, l) = "inside" /\ StageOf(g, l) = "working"
        BY <1>6, <2>2 DEF Works, StageOf, SlotOK, Open, HandlerRecords
      <3>2. g.bill = h.bill /\ Unsettled(h.bill)
        BY <1>6, <2>2, BillChange DEF Works, BillOK
      <3> QED  BY <3>1, <3>2 DEF ContractMove
    <2> QED  BY <2>1, <2>2
  <1>7. CASE Settles(h, g) /\ SameBill(h, g)
    BY <1>7, BillChange DEF Settles, StageOf, ContractMove
  <1>8. CASE Settles(h, g) /\ ~SameBill(h, g)
    <2>1. PICK x \in Resources :
            /\ h.bill[x] = "held"
            /\ g.bill = [h.bill EXCEPT ![x] = IF h.outcome = "release" THEN "free" ELSE "charged"]
      BY <1>8, BillChange DEF Settles, SameBill, Priced, Resources
    <2>2. (h.at = "finish" /\ ~h.finalized) \/ h.at = "finishBudget"
      BY <1>8 DEF Settles
    <2>3. StageOf(h, l) = IF h.started THEN "working" ELSE "inside"
      BY <2>2 DEF StageOf, SlotOK, Open, HandlerRecords
    <2>4. StageOf(g, l) = StageOf(h, l)
      BY <1>8 DEF Settles, StageOf
    <2>5. h.outcome = "release" <=> ~h.started
      BY <2>2
    <2>6. g.bill = [h.bill EXCEPT ![x] = IF StageOf(h, l) = "working" THEN "charged" ELSE "free"]
      BY <2>1, <2>3, <2>5 DEF HandlerRecords
    <2>7. StageOf(h, l) \in {"inside", "working"}
      BY <2>3
    <2> QED  BY <2>1, <2>4, <2>6, <2>7 DEF ContractMove
  <1>9. Admits(h, g) => SameBill(h, g) \/ h.at \in {"tokens", "budget", "rollbackTokens"}
    BY DEF Admits
  <1> QED  BY <1>1, <1>2, <1>3, <1>4, <1>5, <1>6, <1>7, <1>8, <1>9 DEF LocalMove

\* The step is one of the contract, or none.
Complies == [Contract!Next]_(Contract!contractVars)

(* A step of the contract by one request is a step of the contract.        *)
LEMMA MoveComplies ==
    ASSUME NEW r \in Requests, OthersUntouched(r),
           handler \in [Requests -> HandlerRecords], handler' \in [Requests -> HandlerRecords],
           ContractMove(StageOf(handler[r], lease[r]), handler[r].bill,
                        StageOf(handler'[r], lease'[r]), handler'[r].bill)
    PROVE  Complies
  <1> DEFINE S == [q \in Requests |-> Stage(q)]
             B == [q \in Requests |-> handler[q].bill]
             s == Stage(r)
             b == handler[r].bill
             t == StageOf(handler'[r], lease'[r])
             c == handler'[r].bill
  <1>1. S' = [S EXCEPT ![r] = t]
    BY DEF Stage, StageOf, OthersUntouched
  <1>2. B' = [B EXCEPT ![r] = c]
    BY DEF OthersUntouched
  <1>3. S[r] = s /\ B[r] = b /\ ContractMove(s, b, t, c)
    BY DEF Stage, StageOf
  <1>4. S = [S EXCEPT ![r] = s] /\ B = [B EXCEPT ![r] = b]
    OBVIOUS
  <1>5. DOMAIN S = Requests /\ DOMAIN B = Requests
    OBVIOUS
  <1>6. Contract!contractVars = <<S, B>> /\ Contract!contractVars' = <<S', B'>>
    BY DEF Contract!contractVars
  <1>7. CASE t = s /\ c = b
    BY <1>1, <1>2, <1>4, <1>6, <1>7 DEF Complies
  <1>8. CASE s = "outside" /\ t = "inside" /\ c = b
    <2>1. Contract!Enter(r)
      BY <1>1, <1>2, <1>3, <1>4, <1>8 DEF Contract!Enter
    <2> QED  BY <2>1 DEF Complies, Contract!Next
  <1>9. CASE s = "inside" /\ t = "working" /\ c = b /\ Unsettled(b)
    <2>1. Contract!Begin(r)
      BY <1>1, <1>2, <1>3, <1>4, <1>9 DEF Contract!Begin, Unsettled
    <2> QED  BY <2>1 DEF Complies, Contract!Next
  <1>10. CASE s \in {"inside", "working"} /\ t = "gone" /\ c = b /\ NoneHeld(b)
    <2>1. Contract!Leave(r)
      BY <1>1, <1>2, <1>3, <1>4, <1>10 DEF Contract!Leave, NoneHeld
    <2> QED  BY <2>1 DEF Complies, Contract!Next
  <1>11. ASSUME NEW x \in Resources, s = "inside", t = s, b[x] = "none",
                c = [b EXCEPT ![x] = "held"]
         PROVE  Complies
    <2>1. Contract!Reserve(r, x)
      BY <1>1, <1>2, <1>3, <1>4, <1>11 DEF Contract!Reserve
    <2> QED  BY <2>1 DEF Complies, Contract!Next
  <1>12. ASSUME NEW x \in Resources, s \in {"inside", "working"}, t = s, b[x] = "held",
                c = [b EXCEPT ![x] = IF s = "working" THEN "charged" ELSE "free"]
         PROVE  Complies
    <2>1. Contract!Settle(r, x)
      BY <1>1, <1>2, <1>3, <1>4, <1>12 DEF Contract!Settle
    <2> QED  BY <2>1 DEF Complies, Contract!Next
  <1> HIDE DEF s, b, t, c
  <1> QED  BY <1>3, <1>7, <1>8, <1>9, <1>10, <1>11, <1>12 DEF ContractMove

(* A step between calls of the limiter keeps the invariant and complies    *)
(* with the contract.                                                      *)
LEMMA LocalStep ==
    ASSUME ProxyIInv, NEW r \in Requests, NEW g \in HandlerRecords,
           handler' = [handler EXCEPT ![r] = g], UNCHANGED <<limiterVars, policyVars>>,
           LocalMove(handler[r], g)
    PROVE  ProxyIInv' /\ Complies
  <1> DEFINE h == handler[r]
  <1>1. h \in HandlerRecords /\ HandlerOK(h, lease[r], r \in returning)
    BY Unfold
  <1>2. (r \in returning) \in BOOLEAN
    OBVIOUS
  <1>3. \A k \in HandlerRecords, j \in HandlerRecords, b \in BOOLEAN :
            HandlerOK(k, lease[r], b) /\ LocalMove(k, j)
                => /\ HandlerOK(j, lease[r], b)
                   /\ ContractMove(StageOf(k, lease[r]), k.bill, StageOf(j, lease[r]), j.bill)
    BY LocalOK, LocalComplies
  <1>4. /\ HandlerOK(g, lease[r], r \in returning)
        /\ ContractMove(StageOf(h, lease[r]), h.bill, StageOf(g, lease[r]), g.bill)
    BY Zenon, <1>1, <1>2, <1>3
  <1>5. ProxyIInv'
    BY <1>4, QuietStep
  <1>6. handler \in [Requests -> HandlerRecords] /\ handler' \in [Requests -> HandlerRecords]
    BY Unfold
  <1>7. OthersUntouched(r) /\ handler'[r] = g /\ lease' = lease
    BY Unfold DEF OthersUntouched, limiterVars
  <1>8. Complies
    BY <1>4, <1>6, <1>7, MoveComplies
  <1> QED  BY <1>5, <1>8

(* Those steps of ServeHTTP that only move on.                             *)
LEMMA MovingOn ==
    ASSUME ProxyIInv, NEW r \in Requests,
           \/ CheckPolicy(r)
           \/ \E sized \in BOOLEAN : InspectionRefused(r, sized) \/ NoInspection(r, sized)
           \/ Rejected(r) \/ SlotRefused(r) \/ TokensRefused(r) \/ NoTokens(r) \/ BudgetRefused(r)
           \/ BuildFails(r) \/ UpstreamFails(r) \/ FinishAgain(r)
    PROVE  ProxyIInv' /\ Complies
  <1> DEFINE h == handler[r]
  <1>1. PICK s : GoTo(r, s) /\ GoesTo(h, s)
    BY DEF CheckPolicy, InspectionRefused, NoInspection, Rejected, SlotRefused, TokensRefused,
           NoTokens, BudgetRefused, BuildFails, UpstreamFails, FinishAgain, At, GoesTo
  <1>2. UNCHANGED <<limiterVars, policyVars>>
    BY DEF CheckPolicy, InspectionRefused, NoInspection, Rejected, SlotRefused, TokensRefused,
           NoTokens, BudgetRefused, BuildFails, UpstreamFails, FinishAgain
  <1> DEFINE g == [h EXCEPT !.at = s]
  <1>3. h \in HandlerRecords
    BY Unfold
  <1>4. s \in Steps
    BY <1>1, <1>3 DEF GoesTo, Steps, HandlerRecords
  <1>5. g \in HandlerRecords /\ handler' = [handler EXCEPT ![r] = g]
    BY <1>1, <1>3, <1>4 DEF HandlerRecords, GoTo
  <1>6. g.at = s
    BY <1>3 DEF HandlerRecords
  <1>7. Moves(h, g)
    BY <1>1, <1>3, <1>6 DEF Moves, SameFlags, SameBill, SamePlan, HandlerRecords
  <1>8. LocalMove(h, g)
    BY <1>7 DEF LocalMove
  <1> QED  BY <1>2, <1>5, <1>8, LocalStep

(* Authenticate keeps the invariant and complies.                          *)
LEMMA AuthenticateStep ==
    ASSUME ProxyIInv, NEW r \in Requests, NEW route \in Routes, Authenticate(r, route)
    PROVE  ProxyIInv' /\ Complies
  <1> DEFINE h == handler[r]
             g == [h EXCEPT !.at = "policy", !.principal = published, !.route = route]
  <1>1. h \in HandlerRecords /\ published \in Policies /\ budgetPolicy \in Policies
    BY Unfold
  <1>2. handler' = [handler EXCEPT ![r] = g] /\ UNCHANGED <<limiterVars, policyVars>>
    BY Unfold DEF Authenticate
  <1>3. g \in HandlerRecords
    BY <1>1, PoliciesAssumption DEF HandlerRecords, Steps, Resources, Routes
  <1>4. Admits(h, g)
    BY <1>1, PoliciesAssumption DEF Authenticate, Admits, SameFlags, SameBill, SamePlan, At, HandlerRecords,
           Resources
  <1>5. LocalMove(h, g)
    BY <1>4 DEF LocalMove
  <1> QED  BY <1>2, <1>3, <1>5, LocalStep

(* Plan keeps the invariant and complies.                                  *)
LEMMA PlanStep ==
    ASSUME ProxyIInv, NEW r \in Requests, Plan(r)
    PROVE  ProxyIInv' /\ Complies
  <1> DEFINE h == handler[r]
             exempt == h.route = "models"
             budget == h.principal.budget /\ ~exempt
             tokens == (h.principal.tokens /\ ~exempt) \/ budget
             want == {x \in Resources : IF x = "budget" THEN budget ELSE tokens}
             g == [h EXCEPT !.at = "admit", !.want = want]
  <1>1. h \in HandlerRecords /\ published \in Policies /\ budgetPolicy \in Policies
    BY Unfold
  <1>2. handler' = [handler EXCEPT ![r] = g] /\ UNCHANGED <<limiterVars, policyVars>>
    BY Unfold DEF Plan, Principal
  <1>3. g \in HandlerRecords
    BY <1>1, PoliciesAssumption DEF HandlerRecords, Steps, Resources, Routes
  <1>4. Admits(h, g)
    BY <1>1, PoliciesAssumption DEF Plan, Admits, SameFlags, SameBill, SamePlan, At, HandlerRecords,
           Resources, Principal
  <1>5. LocalMove(h, g)
    BY <1>4 DEF LocalMove
  <1> QED  BY <1>2, <1>3, <1>5, LocalStep

(* ReserveTokens keeps the invariant and complies.                         *)
LEMMA ReserveTokensStep ==
    ASSUME ProxyIInv, NEW r \in Requests, ReserveTokens(r)
    PROVE  ProxyIInv' /\ Complies
  <1> DEFINE h == handler[r]
             g == [h EXCEPT !.at = "budget", !.bill = [h.bill EXCEPT !["tokens"] = "held"]]
  <1>1. h \in HandlerRecords /\ published \in Policies /\ budgetPolicy \in Policies
    BY Unfold
  <1>2. handler' = [handler EXCEPT ![r] = g] /\ UNCHANGED <<limiterVars, policyVars>>
    BY Unfold DEF ReserveTokens, Reserved
  <1>3. g \in HandlerRecords
    BY <1>1, PoliciesAssumption DEF HandlerRecords, Steps, Resources, Routes
  <1>4. Admits(h, g)
    BY <1>1, PoliciesAssumption DEF ReserveTokens, Admits, SameFlags, SameBill, SamePlan, At, HandlerRecords,
           Resources
  <1>5. LocalMove(h, g)
    BY <1>4 DEF LocalMove
  <1> QED  BY <1>2, <1>3, <1>5, LocalStep

(* ReserveBudget keeps the invariant and complies.                         *)
LEMMA ReserveBudgetStep ==
    ASSUME ProxyIInv, NEW r \in Requests, ReserveBudget(r)
    PROVE  ProxyIInv' /\ Complies
  <1> DEFINE h == handler[r]
             g == [h EXCEPT !.at = "recheck", !.leased = TRUE,
                               !.bill = [h.bill EXCEPT !["budget"] = "held"]]
  <1>1. h \in HandlerRecords /\ published \in Policies /\ budgetPolicy \in Policies
    BY Unfold
  <1>2. handler' = [handler EXCEPT ![r] = g] /\ UNCHANGED <<limiterVars, policyVars>>
    BY Unfold DEF ReserveBudget, Reserved
  <1>3. g \in HandlerRecords
    BY <1>1, PoliciesAssumption DEF HandlerRecords, Steps, Resources, Routes
  <1>4. Admits(h, g)
    BY <1>1, PoliciesAssumption DEF ReserveBudget, Admits, SameFlags, SameBill, SamePlan, At, HandlerRecords,
           Resources
  <1>5. LocalMove(h, g)
    BY <1>4 DEF LocalMove
  <1> QED  BY <1>2, <1>3, <1>5, LocalStep

(* NoBudget keeps the invariant and complies.                              *)
LEMMA NoBudgetStep ==
    ASSUME ProxyIInv, NEW r \in Requests, NoBudget(r)
    PROVE  ProxyIInv' /\ Complies
  <1> DEFINE h == handler[r]
             g == [h EXCEPT !.at = "recheck", !.leased = TRUE]
  <1>1. h \in HandlerRecords /\ published \in Policies /\ budgetPolicy \in Policies
    BY Unfold
  <1>2. handler' = [handler EXCEPT ![r] = g] /\ UNCHANGED <<limiterVars, policyVars>>
    BY Unfold DEF NoBudget
  <1>3. g \in HandlerRecords
    BY <1>1, PoliciesAssumption DEF HandlerRecords, Steps, Resources, Routes
  <1>4. Admits(h, g)
    BY <1>1, PoliciesAssumption DEF NoBudget, Admits, SameFlags, SameBill, SamePlan, At, HandlerRecords,
           Resources
  <1>5. LocalMove(h, g)
    BY <1>4 DEF LocalMove
  <1> QED  BY <1>2, <1>3, <1>5, LocalStep

(* RollbackTokens keeps the invariant and complies.                        *)
LEMMA RollbackTokensStep ==
    ASSUME ProxyIInv, NEW r \in Requests, RollbackTokens(r)
    PROVE  ProxyIInv' /\ Complies
  <1> DEFINE h == handler[r]
             g == [h EXCEPT !.at = "rollbackSlot", !.bill = [h.bill EXCEPT !["tokens"] = "free"]]
  <1>1. h \in HandlerRecords /\ published \in Policies /\ budgetPolicy \in Policies
    BY Unfold
  <1>2. handler' = [handler EXCEPT ![r] = g] /\ UNCHANGED <<limiterVars, policyVars>>
    BY Unfold DEF RollbackTokens
  <1>3. g \in HandlerRecords
    BY <1>1, PoliciesAssumption DEF HandlerRecords, Steps, Resources, Routes
  <1>4. Admits(h, g)
    BY <1>1, PoliciesAssumption DEF RollbackTokens, Admits, SameFlags, SameBill, SamePlan, At, HandlerRecords,
           Resources
  <1>5. LocalMove(h, g)
    BY <1>4 DEF LocalMove
  <1> QED  BY <1>2, <1>3, <1>5, LocalStep

(* Recheck keeps the invariant and complies.                               *)
LEMMA RecheckStep ==
    ASSUME ProxyIInv, NEW r \in Requests, Recheck(r)
    PROVE  ProxyIInv' /\ Complies
  <1> DEFINE h == handler[r]
             g == [h EXCEPT !.at = IF PolicyCurrent(r) THEN "start" ELSE "cleanup",
                               !.inForce = budgetPolicy.budget]
  <1>1. h \in HandlerRecords /\ published \in Policies /\ budgetPolicy \in Policies
    BY Unfold
  <1>2. handler' = [handler EXCEPT ![r] = g] /\ UNCHANGED <<limiterVars, policyVars>>
    BY Unfold DEF Recheck
  <1>3. g \in HandlerRecords
    BY <1>1, PoliciesAssumption DEF HandlerRecords, Steps, Resources, Routes, PolicyCurrent, Principal
  <1>4. Works(h, g)
    BY <1>1, PoliciesAssumption DEF Recheck, Works, SameFlags, SameBill, SamePlan, At, HandlerRecords,
           Resources, PolicyCurrent, Principal
  <1>5. LocalMove(h, g)
    BY <1>4 DEF LocalMove
  <1> QED  BY <1>2, <1>3, <1>5, LocalStep

(* StartUpstream keeps the invariant and complies.                         *)
LEMMA StartUpstreamStep ==
    ASSUME ProxyIInv, NEW r \in Requests, StartUpstream(r)
    PROVE  ProxyIInv' /\ Complies
  <1> DEFINE h == handler[r]
             g == [h EXCEPT !.at = "upstream", !.started = TRUE]
  <1>1. h \in HandlerRecords /\ published \in Policies /\ budgetPolicy \in Policies
    BY Unfold
  <1>2. handler' = [handler EXCEPT ![r] = g] /\ UNCHANGED <<limiterVars, policyVars>>
    BY Unfold DEF StartUpstream
  <1>3. g \in HandlerRecords
    BY <1>1, PoliciesAssumption DEF HandlerRecords, Steps, Resources, Routes
  <1>4. Works(h, g)
    BY <1>1, PoliciesAssumption DEF StartUpstream, Works, SameFlags, SameBill, SamePlan, At, HandlerRecords,
           Resources
  <1>5. LocalMove(h, g)
    BY <1>4 DEF LocalMove
  <1> QED  BY <1>2, <1>3, <1>5, LocalStep

(* Forwarded keeps the invariant and complies.                             *)
LEMMA ForwardedStep ==
    ASSUME ProxyIInv, NEW r \in Requests, Forwarded(r)
    PROVE  ProxyIInv' /\ Complies
  <1> DEFINE h == handler[r]
             g == [h EXCEPT !.at = "cleanup", !.outcome = "deferred"]
  <1>1. h \in HandlerRecords /\ published \in Policies /\ budgetPolicy \in Policies
    BY Unfold
  <1>2. handler' = [handler EXCEPT ![r] = g] /\ UNCHANGED <<limiterVars, policyVars>>
    BY Unfold DEF Forwarded
  <1>3. g \in HandlerRecords
    BY <1>1, PoliciesAssumption DEF HandlerRecords, Steps, Resources, Routes
  <1>4. Works(h, g)
    BY <1>1, PoliciesAssumption DEF Forwarded, Works, SameFlags, SameBill, SamePlan, At, HandlerRecords,
           Resources
  <1>5. LocalMove(h, g)
    BY <1>4 DEF LocalMove
  <1> QED  BY <1>2, <1>3, <1>5, LocalStep

(* Converted keeps the invariant and complies.                             *)
LEMMA ConvertedStep ==
    ASSUME ProxyIInv, NEW r \in Requests, NEW outcome \in {"known", "conservative"}, Converted(r, outcome)
    PROVE  ProxyIInv' /\ Complies
  <1> DEFINE h == handler[r]
             g == [h EXCEPT !.at = "finish", !.outcome = outcome, !.then = "cleanup"]
  <1>1. h \in HandlerRecords /\ published \in Policies /\ budgetPolicy \in Policies
    BY Unfold
  <1>2. handler' = [handler EXCEPT ![r] = g] /\ UNCHANGED <<limiterVars, policyVars>>
    BY Unfold DEF Converted
  <1>3. g \in HandlerRecords
    BY <1>1, PoliciesAssumption DEF HandlerRecords, Steps, Resources, Routes
  <1>4. Works(h, g)
    BY <1>1, PoliciesAssumption DEF Converted, Works, SameFlags, SameBill, SamePlan, At, HandlerRecords,
           Resources
  <1>5. LocalMove(h, g)
    BY <1>4 DEF LocalMove
  <1> QED  BY <1>2, <1>3, <1>5, LocalStep

(* Cleanup keeps the invariant and complies.                               *)
LEMMA CleanupStep ==
    ASSUME ProxyIInv, NEW r \in Requests, Cleanup(r)
    PROVE  ProxyIInv' /\ Complies
  <1> DEFINE h == handler[r]
             g == [h EXCEPT !.at = IF h.leased THEN "finish" ELSE "done", !.then = "done",
                               !.outcome = IF ~h.started THEN "release"
                                           ELSE IF h.outcome = "deferred" THEN "deferred"
                                           ELSE "conservative"]
  <1>1. h \in HandlerRecords /\ published \in Policies /\ budgetPolicy \in Policies
    BY Unfold
  <1>2. handler' = [handler EXCEPT ![r] = g] /\ UNCHANGED <<limiterVars, policyVars>>
    BY Unfold DEF Cleanup
  <1>3. g \in HandlerRecords
    <2>1. /\ (IF h.leased THEN "finish" ELSE "done") \in Steps
          /\ (IF ~h.started THEN "release" ELSE IF h.outcome = "deferred" THEN "deferred"
                                           ELSE "conservative")
               \in {"none", "known", "conservative", "deferred", "release"}
      BY DEF Steps
    <2> QED  BY <1>1, <2>1 DEF HandlerRecords
  <1>4. Settles(h, g)
    BY <1>1, PoliciesAssumption DEF Cleanup, Settles, SameFlags, SameBill, SamePlan, At, HandlerRecords,
           Resources
  <1>5. LocalMove(h, g)
    BY <1>4 DEF LocalMove
  <1> QED  BY <1>2, <1>3, <1>5, LocalStep

(* FinishTokens keeps the invariant and complies.                          *)
LEMMA FinishTokensStep ==
    ASSUME ProxyIInv, NEW r \in Requests, FinishTokens(r)
    PROVE  ProxyIInv' /\ Complies
  <1> DEFINE h == handler[r]
             g == [h EXCEPT !.at = "finishBudget", !.finalized = TRUE,
                               !.bill = [h.bill EXCEPT !["tokens"] = Settled(r, "tokens")]]
  <1>1. h \in HandlerRecords /\ published \in Policies /\ budgetPolicy \in Policies
    BY Unfold
  <1>2. handler' = [handler EXCEPT ![r] = g] /\ UNCHANGED <<limiterVars, policyVars>>
    BY Unfold DEF FinishTokens
  <1>3. g \in HandlerRecords
    BY <1>1, PoliciesAssumption DEF HandlerRecords, Steps, Resources, Routes, Settled
  <1>4. Settles(h, g)
    BY <1>1, PoliciesAssumption DEF FinishTokens, Settles, SameFlags, SameBill, SamePlan, At, HandlerRecords,
           Resources, Settled, Priced
  <1>5. LocalMove(h, g)
    BY <1>4 DEF LocalMove
  <1> QED  BY <1>2, <1>3, <1>5, LocalStep

(* FinishBudget keeps the invariant and complies.                          *)
LEMMA FinishBudgetStep ==
    ASSUME ProxyIInv, NEW r \in Requests, FinishBudget(r)
    PROVE  ProxyIInv' /\ Complies
  <1> DEFINE h == handler[r]
             g == [h EXCEPT !.at = "finishSlot",
                               !.bill = [h.bill EXCEPT !["budget"] = Settled(r, "budget")]]
  <1>1. h \in HandlerRecords /\ published \in Policies /\ budgetPolicy \in Policies
    BY Unfold
  <1>2. handler' = [handler EXCEPT ![r] = g] /\ UNCHANGED <<limiterVars, policyVars>>
    BY Unfold DEF FinishBudget
  <1>3. g \in HandlerRecords
    BY <1>1, PoliciesAssumption DEF HandlerRecords, Steps, Resources, Routes, Settled
  <1>4. Settles(h, g)
    BY <1>1, PoliciesAssumption DEF FinishBudget, Settles, SameFlags, SameBill, SamePlan, At, HandlerRecords,
           Resources, Settled, Priced
  <1>5. LocalMove(h, g)
    BY <1>4 DEF LocalMove
  <1> QED  BY <1>2, <1>3, <1>5, LocalStep

-----------------------------------------------------------------------------
(* The calls of the limiter, on the lease object of the request.           *)

OtherLeases(r) ==
    \A q \in Requests \ {r} : lease'[q] = lease[q] /\ (q \in returning' <=> q \in returning)

(* Acquire hands out a fresh lease object.                                 *)
LEMMA AcquireEffect ==
    ASSUME ProxyIInv, NEW r \in Requests, NEW max \in Limits, Limiter!Acquire(r, Key, max)
    PROVE  /\ ~lease[r].admitted
           /\ lease'[r].admitted /\ ~lease'[r].released /\ ~lease'[r].claimed
           /\ lease'[r].keyID = Key /\ (lease'[r].state = NoState <=> max = 0)
           /\ returning' = returning
           /\ OtherLeases(r)
  <1>1. states[Key] \in Requests \cup {NoState}
    BY DEF ProxyIInv, TypeOK, Limiter!LimiterTypeOK
  <1>2. max \in Nat /\ NoState \notin Requests
    BY PoliciesAssumption, LifecycleAssumption DEF Limits
  <1> QED
    BY <1>1, <1>2, Unfold DEF Limiter!Acquire, Limiter!AcquireUnlimited, Limiter!AcquireSlot,
         Limiter!NewLease, OtherLeases

(* A release marks the lease object and has its slot to return.            *)
LEMMA ReleaseEffect ==
    ASSUME ProxyIInv, NEW r \in Requests, Limiter!Release(r) \/ Limiter!ReleaseOwned(r)
    PROVE  /\ lease[r].admitted /\ ~lease[r].released
           /\ lease'[r].admitted /\ lease'[r].released
           /\ r \in returning'
           /\ OtherLeases(r)
  BY Unfold DEF Limiter!Release, Limiter!ReleaseOwned, OtherLeases, LimiterProofs!LeaseRecord

(* The promotion of a provisional lease keeps it open.                     *)
LEMMA AdoptEffect ==
    ASSUME ProxyIInv, NEW r \in Requests, NEW need \in BOOLEAN, Limiter!AdoptFor(r, Key, need)
    PROVE  /\ lease'[r].admitted = lease[r].admitted /\ lease'[r].released = lease[r].released
           /\ returning' = returning
           /\ OtherLeases(r)
  BY Unfold DEF Limiter!AdoptFor, OtherLeases, LimiterProofs!LeaseRecord

(* The second critical section of a release.                               *)
LEMMA ReturnEffect ==
    ASSUME ProxyIInv, NEW r \in Requests, Limiter!ReleaseSlot(r)
    PROVE  lease' = lease /\ r \notin returning' /\ OtherLeases(r)
  BY Unfold DEF Limiter!ReleaseSlot, OtherLeases

(* A step that calls the limiter.                                          *)
LEMMA CallStep ==
    ASSUME ProxyIInv, NEW r \in Requests, NEW g \in HandlerRecords,
           handler' = [handler EXCEPT ![r] = g], UNCHANGED policyVars,
           LimiterProofs!IInv', Limiter!LimiterTypeOK', OtherLeases(r),
           HandlerOK(g, lease'[r], r \in returning'),
           ContractMove(StageOf(handler[r], lease[r]), handler[r].bill,
                        StageOf(g, lease'[r]), g.bill)
    PROVE  ProxyIInv' /\ Complies
  <1>1. /\ handler \in [Requests -> HandlerRecords]
        /\ handler' \in [Requests -> HandlerRecords] /\ handler'[r] = g
    BY Unfold
  <1>2. OthersUntouched(r)
    BY Unfold DEF OthersUntouched, OtherLeases
  <1>3. HandlerOK(handler'[r], lease'[r], r \in returning')
    BY <1>1
  <1>4. Complies
    BY <1>1, <1>2, MoveComplies
  <1> QED  BY <1>1, <1>2, <1>3, <1>4, Fold

(* AcquireInspection keeps the invariant and complies.                     *)
LEMMA AcquireInspectionStep ==
    ASSUME ProxyIInv, NEW r \in Requests, NEW sized \in BOOLEAN, AcquireInspection(r, sized)
    PROVE  ProxyIInv' /\ Complies
  <1> DEFINE h == handler[r]
             g == [h EXCEPT !.at = "plan", !.inspecting = TRUE, !.inspected = TRUE]
  <1>1. h \in HandlerRecords /\ HandlerOK(h, lease[r], r \in returning) /\ LimiterProofs!IInv
    BY Unfold
  <1>2. h.principal.max \in Limits /\ Limiter!Acquire(r, Key, h.principal.max)
    BY <1>1 DEF HandlerRecords, Limits, AcquireInspection, Principal
  <1>3. handler' = [handler EXCEPT ![r] = g] /\ UNCHANGED policyVars
    BY Unfold DEF AcquireInspection
  <1>4. g \in HandlerRecords
    BY <1>1 DEF HandlerRecords, Steps
  <1>5. /\ g.at = "plan" /\ g.inspecting /\ h.at = "slot"
        /\ g.principal = h.principal /\ g.route = h.route /\ g.want = h.want
        /\ g.leased = h.leased /\ g.started = h.started /\ g.finalized = h.finalized
        /\ g.outcome = h.outcome /\ g.inForce = h.inForce /\ g.bill = h.bill
    BY <1>1 DEF HandlerRecords, AcquireInspection, At
  <1>6. LimiterProofs!IInv' /\ Limiter!LimiterTypeOK'
    BY <1>1, <1>2, LimiterStep
  <1>7. /\ lease'[r].admitted /\ ~lease'[r].released /\ ~lease'[r].claimed
        /\ lease'[r].keyID = Key /\ (lease'[r].state = NoState <=> h.principal.max = 0)
        /\ returning' = returning
        /\ OtherLeases(r)
    BY <1>2, AcquireEffect
  <1> HIDE DEF g, h
  <1>8. HandlerOK(g, lease'[r], r \in returning')
    <2> USE DEF HandlerOK
    <2>1. FlagsOK(g)
      BY <1>1, <1>5 DEF FlagsOK, Leasing, Finishing, HandlerRecords
    <2>2. SlotOK(g, lease'[r], r \in returning')
      BY <1>1, <1>5, <1>7 DEF FlagsOK, SlotOK, Open, Absent, Admitting, Leasing, Finishing
    <2>3. BillOK(g)
      BY <1>1, <1>5 DEF BillOK, Leasing
    <2>4. BudgetOK(g)
      BY <1>1, <1>5 DEF FlagsOK, BudgetOK, Admitting, Leasing, Finishing, HandlerRecords
    <2> QED  BY <2>1, <2>2, <2>3, <2>4
  <1>9. ContractMove(StageOf(h, lease[r]), h.bill, StageOf(g, lease'[r]), g.bill)
    BY <1>1, <1>5, <1>7 DEF ContractMove, StageOf, HandlerOK, SlotOK, FlagsOK, BillOK, Absent, Open,
         Admitting, Leasing, Finishing, HandlerRecords
  <1>10. QED
    BY <1>3, <1>4, <1>6, <1>7, <1>8, <1>9, CallStep DEF h

(* AcquireSlot keeps the invariant and complies.                           *)
LEMMA AcquireSlotStep ==
    ASSUME ProxyIInv, NEW r \in Requests, AcquireSlot(r)
    PROVE  ProxyIInv' /\ Complies
  <1> DEFINE h == handler[r]
             g == [h EXCEPT !.at = "tokens"]
  <1>1. h \in HandlerRecords /\ HandlerOK(h, lease[r], r \in returning) /\ LimiterProofs!IInv
    BY Unfold
  <1>2. h.principal.max \in Limits /\ Limiter!Acquire(r, Key, h.principal.max)
    BY <1>1 DEF HandlerRecords, Limits, AcquireSlot, Principal
  <1>3. handler' = [handler EXCEPT ![r] = g] /\ UNCHANGED policyVars
    BY Unfold DEF AcquireSlot, GoTo
  <1>4. g \in HandlerRecords
    BY <1>1 DEF HandlerRecords, Steps
  <1>5. /\ g.at = "tokens" /\ h.at = "admit" /\ ~h.inspecting /\ g.inspecting = h.inspecting
        /\ g.principal = h.principal /\ g.route = h.route /\ g.want = h.want
        /\ g.leased = h.leased /\ g.started = h.started /\ g.finalized = h.finalized
        /\ g.outcome = h.outcome /\ g.inForce = h.inForce /\ g.bill = h.bill
    BY <1>1 DEF HandlerRecords, AcquireSlot, At
  <1>6. LimiterProofs!IInv' /\ Limiter!LimiterTypeOK'
    BY <1>1, <1>2, LimiterStep
  <1>7. /\ lease'[r].admitted /\ ~lease'[r].released
        /\ returning' = returning
        /\ OtherLeases(r)
    BY <1>2, AcquireEffect
  <1> HIDE DEF g, h
  <1>8. HandlerOK(g, lease'[r], r \in returning')
    <2> USE DEF HandlerOK
    <2>1. FlagsOK(g)
      BY <1>1, <1>5 DEF FlagsOK, Leasing, Finishing, HandlerRecords
    <2>2. SlotOK(g, lease'[r], r \in returning')
      BY <1>1, <1>5, <1>7 DEF FlagsOK, SlotOK, Open, Absent, Admitting, Leasing, Finishing
    <2>3. BillOK(g)
      BY <1>1, <1>5 DEF BillOK, Leasing
    <2>4. BudgetOK(g)
      BY <1>1, <1>5 DEF FlagsOK, BudgetOK, Admitting, Leasing, Finishing, HandlerRecords
    <2> QED  BY <2>1, <2>2, <2>3, <2>4
  <1>9. ContractMove(StageOf(h, lease[r]), h.bill, StageOf(g, lease'[r]), g.bill)
    BY <1>1, <1>5, <1>7 DEF ContractMove, StageOf, HandlerOK, SlotOK, FlagsOK, BillOK, Absent, Open,
         Admitting, Leasing, Finishing, HandlerRecords
  <1>10. QED
    BY <1>3, <1>4, <1>6, <1>7, <1>8, <1>9, CallStep DEF h

(* Promote keeps the invariant and complies.                               *)
LEMMA PromoteStep ==
    ASSUME ProxyIInv, NEW r \in Requests, Promote(r)
    PROVE  ProxyIInv' /\ Complies
  <1> DEFINE h == handler[r]
             g == [h EXCEPT !.at = "tokens", !.inspecting = FALSE]
  <1>1. h \in HandlerRecords /\ HandlerOK(h, lease[r], r \in returning) /\ LimiterProofs!IInv
    BY Unfold
  <1>2. PICK need \in BOOLEAN : Limiter!AdoptFor(r, Key, need)
    <2>1. CASE h.principal.max > 0
      <3>1. Limiter!AdoptFor(r, Key, TRUE)
        BY <2>1 DEF Promote, Principal, Limiter!AdoptFor, Limiter!Adoptable
      <3> QED  BY <3>1
    <2>2. CASE ~(h.principal.max > 0)
      <3>1. Limiter!AdoptFor(r, Key, FALSE)
        BY <2>2 DEF Promote, Principal, Limiter!AdoptFor, Limiter!Adoptable
      <3> QED  BY <3>1
    <2> QED  BY <2>1, <2>2
  <1>3. handler' = [handler EXCEPT ![r] = g] /\ UNCHANGED policyVars
    BY Unfold DEF Promote
  <1>4. g \in HandlerRecords
    BY <1>1 DEF HandlerRecords, Steps
  <1>5. /\ g.at = "tokens" /\ ~g.inspecting /\ h.at = "admit" /\ h.inspecting
        /\ g.principal = h.principal /\ g.route = h.route /\ g.want = h.want
        /\ g.leased = h.leased /\ g.started = h.started /\ g.finalized = h.finalized
        /\ g.outcome = h.outcome /\ g.inForce = h.inForce /\ g.bill = h.bill
    BY <1>1 DEF HandlerRecords, Promote, At
  <1>6. LimiterProofs!IInv' /\ Limiter!LimiterTypeOK'
    BY <1>1, <1>2, LimiterStep
  <1>7. /\ lease'[r].admitted = lease[r].admitted /\ lease'[r].released = lease[r].released
        /\ returning' = returning /\ OtherLeases(r)
    BY <1>2, AdoptEffect
  <1> HIDE DEF g, h
  <1>8. HandlerOK(g, lease'[r], r \in returning')
    <2> USE DEF HandlerOK
    <2>1. FlagsOK(g)
      BY <1>1, <1>5 DEF FlagsOK, Leasing, Finishing, HandlerRecords
    <2>2. SlotOK(g, lease'[r], r \in returning')
      BY <1>1, <1>5, <1>7 DEF FlagsOK, SlotOK, Open, Absent, Gone, Admitting, Leasing, Finishing
    <2>3. BillOK(g)
      BY <1>1, <1>5 DEF BillOK, FlagsOK, Leasing, Finishing, Unbilled, NoneHeld, HandlerRecords
    <2>4. BudgetOK(g)
      BY <1>1, <1>5 DEF FlagsOK, BudgetOK, Admitting, Leasing, Finishing, HandlerRecords
    <2> QED  BY <2>1, <2>2, <2>3, <2>4
  <1>9. ContractMove(StageOf(h, lease[r]), h.bill, StageOf(g, lease'[r]), g.bill)
    BY <1>1, <1>5, <1>7 DEF ContractMove, StageOf, HandlerOK, SlotOK, FlagsOK, BillOK, Absent, Open,
         Admitting, Leasing, Finishing, HandlerRecords
  <1>10. QED
    BY <1>3, <1>4, <1>6, <1>7, <1>8, <1>9, CallStep DEF h

(* RollbackSlot keeps the invariant and complies.                          *)
LEMMA RollbackSlotStep ==
    ASSUME ProxyIInv, NEW r \in Requests, RollbackSlot(r)
    PROVE  ProxyIInv' /\ Complies
  <1> DEFINE h == handler[r]
             g == [h EXCEPT !.at = "returnSlot", !.then = "cleanup"]
  <1>1. h \in HandlerRecords /\ HandlerOK(h, lease[r], r \in returning) /\ LimiterProofs!IInv
    BY Unfold
  <1>2. Limiter!ReleaseOwned(r)
    BY DEF RollbackSlot
  <1>3. handler' = [handler EXCEPT ![r] = g] /\ UNCHANGED policyVars
    BY Unfold DEF RollbackSlot
  <1>4. g \in HandlerRecords
    BY <1>1 DEF HandlerRecords, Steps
  <1>5. /\ g.at = "returnSlot" /\ g.inspecting = h.inspecting /\ h.at = "rollbackSlot"
        /\ g.principal = h.principal /\ g.route = h.route /\ g.want = h.want
        /\ g.leased = h.leased /\ g.started = h.started /\ g.finalized = h.finalized
        /\ g.outcome = h.outcome /\ g.inForce = h.inForce /\ g.bill = h.bill
    BY <1>1 DEF HandlerRecords, RollbackSlot, At
  <1>6. LimiterProofs!IInv' /\ Limiter!LimiterTypeOK'
    BY <1>1, <1>2, LimiterStep
  <1>7. /\ lease'[r].admitted /\ lease'[r].released /\ r \in returning' /\ OtherLeases(r)
    BY <1>2, ReleaseEffect
  <1> HIDE DEF g, h
  <1>8. HandlerOK(g, lease'[r], r \in returning')
    <2> USE DEF HandlerOK
    <2>1. FlagsOK(g)
      BY <1>1, <1>5 DEF FlagsOK, Leasing, Finishing, HandlerRecords
    <2>2. SlotOK(g, lease'[r], r \in returning')
      BY <1>1, <1>5, <1>7 DEF FlagsOK, SlotOK, Open, Absent, Gone, Admitting, Leasing, Finishing
    <2>3. BillOK(g)
      BY <1>1, <1>5 DEF BillOK, FlagsOK, Leasing, Finishing, Unbilled, NoneHeld, HandlerRecords
    <2>4. BudgetOK(g)
      BY <1>1, <1>5 DEF FlagsOK, BudgetOK, Admitting, Leasing, Finishing, HandlerRecords
    <2> QED  BY <2>1, <2>2, <2>3, <2>4
  <1>9. ContractMove(StageOf(h, lease[r]), h.bill, StageOf(g, lease'[r]), g.bill)
    BY <1>1, <1>5, <1>7 DEF ContractMove, StageOf, HandlerOK, SlotOK, FlagsOK, BillOK, Absent, Open,
         Admitting, Leasing, Finishing, HandlerRecords
  <1>10. QED
    BY <1>3, <1>4, <1>6, <1>7, <1>8, <1>9, CallStep DEF h

(* FinishSlot keeps the invariant and complies.                            *)
LEMMA FinishSlotStep ==
    ASSUME ProxyIInv, NEW r \in Requests, FinishSlot(r)
    PROVE  ProxyIInv' /\ Complies
  <1> DEFINE h == handler[r]
             g == [h EXCEPT !.at = "returnSlot"]
  <1>1. h \in HandlerRecords /\ HandlerOK(h, lease[r], r \in returning) /\ LimiterProofs!IInv
    BY Unfold
  <1>2. Limiter!ReleaseOwned(r)
    BY DEF FinishSlot
  <1>3. handler' = [handler EXCEPT ![r] = g] /\ UNCHANGED policyVars
    BY Unfold DEF FinishSlot, GoTo
  <1>4. g \in HandlerRecords
    BY <1>1 DEF HandlerRecords, Steps
  <1>5. /\ g.at = "returnSlot" /\ g.inspecting = h.inspecting /\ h.at = "finishSlot"
        /\ g.principal = h.principal /\ g.route = h.route /\ g.want = h.want
        /\ g.leased = h.leased /\ g.started = h.started /\ g.finalized = h.finalized
        /\ g.outcome = h.outcome /\ g.inForce = h.inForce /\ g.bill = h.bill
    BY <1>1 DEF HandlerRecords, FinishSlot, At
  <1>6. LimiterProofs!IInv' /\ Limiter!LimiterTypeOK'
    BY <1>1, <1>2, LimiterStep
  <1>7. /\ lease'[r].admitted /\ lease'[r].released /\ r \in returning' /\ OtherLeases(r)
    BY <1>2, ReleaseEffect
  <1> HIDE DEF g, h
  <1>8. HandlerOK(g, lease'[r], r \in returning')
    <2> USE DEF HandlerOK
    <2>1. FlagsOK(g)
      BY <1>1, <1>5 DEF FlagsOK, Leasing, Finishing, HandlerRecords
    <2>2. SlotOK(g, lease'[r], r \in returning')
      BY <1>1, <1>5, <1>7 DEF FlagsOK, SlotOK, Open, Absent, Gone, Admitting, Leasing, Finishing
    <2>3. BillOK(g)
      BY <1>1, <1>5 DEF BillOK, FlagsOK, Leasing, Finishing, Unbilled, NoneHeld, HandlerRecords
    <2>4. BudgetOK(g)
      BY <1>1, <1>5 DEF FlagsOK, BudgetOK, Admitting, Leasing, Finishing, HandlerRecords
    <2> QED  BY <2>1, <2>2, <2>3, <2>4
  <1>9. ContractMove(StageOf(h, lease[r]), h.bill, StageOf(g, lease'[r]), g.bill)
    BY <1>1, <1>5, <1>7 DEF ContractMove, StageOf, HandlerOK, SlotOK, FlagsOK, BillOK, Absent, Open,
         Admitting, Leasing, Finishing, HandlerRecords
  <1>10. QED
    BY <1>3, <1>4, <1>6, <1>7, <1>8, <1>9, CallStep DEF h

(* CleanupInspection keeps the invariant and complies.                     *)
LEMMA CleanupInspectionStep ==
    ASSUME ProxyIInv, NEW r \in Requests, CleanupInspection(r)
    PROVE  ProxyIInv' /\ Complies
  <1> DEFINE h == handler[r]
             g == [h EXCEPT !.at = "returnSlot", !.inspecting = FALSE, !.then = "cleanup"]
  <1>1. h \in HandlerRecords /\ HandlerOK(h, lease[r], r \in returning) /\ LimiterProofs!IInv
    BY Unfold
  <1>2. Limiter!Release(r)
    BY DEF CleanupInspection
  <1>3. handler' = [handler EXCEPT ![r] = g] /\ UNCHANGED policyVars
    BY Unfold DEF CleanupInspection
  <1>4. g \in HandlerRecords
    BY <1>1 DEF HandlerRecords, Steps
  <1>5. /\ g.at = "returnSlot" /\ ~g.inspecting /\ h.at = "cleanup" /\ h.inspecting
        /\ g.principal = h.principal /\ g.route = h.route /\ g.want = h.want
        /\ g.leased = h.leased /\ g.started = h.started /\ g.finalized = h.finalized
        /\ g.outcome = h.outcome /\ g.inForce = h.inForce /\ g.bill = h.bill
    BY <1>1 DEF HandlerRecords, CleanupInspection, At
  <1>6. LimiterProofs!IInv' /\ Limiter!LimiterTypeOK'
    BY <1>1, <1>2, LimiterStep
  <1>7. /\ lease'[r].admitted /\ lease'[r].released /\ r \in returning' /\ OtherLeases(r)
    BY <1>2, ReleaseEffect
  <1> HIDE DEF g, h
  <1>8. HandlerOK(g, lease'[r], r \in returning')
    <2> USE DEF HandlerOK
    <2>1. FlagsOK(g)
      BY <1>1, <1>5 DEF FlagsOK, Leasing, Finishing, HandlerRecords
    <2>2. SlotOK(g, lease'[r], r \in returning')
      BY <1>1, <1>5, <1>7 DEF FlagsOK, SlotOK, Open, Absent, Gone, Admitting, Leasing, Finishing
    <2>3. BillOK(g)
      BY <1>1, <1>5 DEF BillOK, FlagsOK, Leasing, Finishing, Unbilled, NoneHeld, HandlerRecords
    <2>4. BudgetOK(g)
      BY <1>1, <1>5 DEF FlagsOK, BudgetOK, Admitting, Leasing, Finishing, HandlerRecords
    <2> QED  BY <2>1, <2>2, <2>3, <2>4
  <1>9. ContractMove(StageOf(h, lease[r]), h.bill, StageOf(g, lease'[r]), g.bill)
    BY <1>1, <1>5, <1>7 DEF ContractMove, StageOf, HandlerOK, SlotOK, FlagsOK, BillOK, Absent, Open,
         Admitting, Leasing, Finishing, HandlerRecords
  <1>10. QED
    BY <1>3, <1>4, <1>6, <1>7, <1>8, <1>9, CallStep DEF h

(* ReturnSlot keeps the invariant and complies.                            *)
LEMMA ReturnSlotStep ==
    ASSUME ProxyIInv, NEW r \in Requests, ReturnSlot(r)
    PROVE  ProxyIInv' /\ Complies
  <1> DEFINE h == handler[r]
             g == [h EXCEPT !.at = h.then]
  <1>1. h \in HandlerRecords /\ HandlerOK(h, lease[r], r \in returning) /\ LimiterProofs!IInv
    BY Unfold
  <1>2. Limiter!ReleaseSlot(r)
    BY DEF ReturnSlot
  <1>3. handler' = [handler EXCEPT ![r] = g] /\ UNCHANGED policyVars
    BY Unfold DEF ReturnSlot, GoTo
  <1>4. g \in HandlerRecords
    BY <1>1 DEF HandlerRecords, Steps
  <1>5. /\ g.at \in {"cleanup", "done"} /\ g.inspecting = h.inspecting /\ h.at = "returnSlot"
        /\ g.principal = h.principal /\ g.route = h.route /\ g.want = h.want
        /\ g.leased = h.leased /\ g.started = h.started /\ g.finalized = h.finalized
        /\ g.outcome = h.outcome /\ g.inForce = h.inForce /\ g.bill = h.bill
    BY <1>1 DEF HandlerRecords, ReturnSlot, At
  <1>6. LimiterProofs!IInv' /\ Limiter!LimiterTypeOK'
    BY <1>1, <1>2, LimiterStep
  <1>7. /\ lease' = lease /\ r \notin returning' /\ OtherLeases(r)
    BY <1>2, ReturnEffect
  <1> HIDE DEF g, h
  <1>8. HandlerOK(g, lease'[r], r \in returning')
    <2> USE DEF HandlerOK
    <2>1. FlagsOK(g)
      BY <1>1, <1>5 DEF FlagsOK, Leasing, Finishing, HandlerRecords
    <2>2. SlotOK(g, lease'[r], r \in returning')
      BY <1>1, <1>5, <1>7 DEF FlagsOK, SlotOK, Open, Absent, Gone, Admitting, Leasing, Finishing
    <2>3. BillOK(g)
      BY <1>1, <1>5 DEF BillOK, FlagsOK, Leasing, Finishing, Unbilled, NoneHeld, HandlerRecords
    <2>4. BudgetOK(g)
      BY <1>1, <1>5 DEF FlagsOK, BudgetOK, Admitting, Leasing, Finishing, HandlerRecords
    <2> QED  BY <2>1, <2>2, <2>3, <2>4
  <1>9. ContractMove(StageOf(h, lease[r]), h.bill, StageOf(g, lease'[r]), g.bill)
    BY <1>1, <1>5, <1>7 DEF ContractMove, StageOf, HandlerOK, SlotOK, FlagsOK, BillOK, Absent, Open,
         Admitting, Leasing, Finishing, HandlerRecords
  <1>10. QED
    BY <1>3, <1>4, <1>6, <1>7, <1>8, <1>9, CallStep DEF h

-----------------------------------------------------------------------------
(* A step that changes nothing of any request is none of the contract.     *)
LEMMA Untouched ==
    ASSUME UNCHANGED limiterVars, handler' = handler
    PROVE  Complies
  BY DEF Complies, Contract!contractVars, Stage, limiterVars

(* Replacing the policy changes no request.                                *)
LEMMA UpdatePolicyStep ==
    ASSUME ProxyIInv, UpdatePolicy
    PROVE  ProxyIInv' /\ Complies
  <1>1. UNCHANGED limiterVars /\ handler' = handler
    BY DEF UpdatePolicy, ReplaceBudgetPolicy, ReplaceTokenPolicy, Publish
  <1>2. LimiterProofs!IInv' /\ Limiter!LimiterTypeOK'
    BY <1>1, Unfold, LimiterStutter
  <1>3. admin \in [at : {"idle", "tokens", "publish"}, new : Policies, count : 0 .. MaxReplacements]
    BY DEF ProxyIInv, TypeOK
  <1>4. /\ {published, budgetPolicy, tokenPolicy}' \subseteq Policies
        /\ admin' \in [at : {"idle", "tokens", "publish"}, new : Policies, count : 0 .. MaxReplacements]
    <2>1. CASE \E p \in Policies : ReplaceBudgetPolicy(p)
      BY <1>3, <2>1, Unfold, LifecycleAssumption DEF ReplaceBudgetPolicy
    <2>2. CASE ReplaceTokenPolicy
      BY <1>3, <2>2, Unfold DEF ReplaceTokenPolicy
    <2>3. CASE Publish
      BY <1>3, <2>3, Unfold DEF Publish
    <2> QED  BY <2>1, <2>2, <2>3 DEF UpdatePolicy
  <1>5. TypeOK'
    BY <1>1, <1>2, <1>4 DEF TypeOK, ProxyIInv
  <1>6. HandlersOK'
    BY <1>1 DEF HandlersOK, ProxyIInv, limiterVars
  <1>7. Complies
    BY <1>1, Untouched
  <1> QED  BY <1>2, <1>5, <1>6, <1>7 DEF ProxyIInv

(* No request holds anything at the start.                                 *)
LEMMA ProxyInitially == Init => ProxyIInv
  <1> SUFFICES ASSUME Init PROVE ProxyIInv
    OBVIOUS
  <1>1. LimiterProofs!IInv /\ Limiter!LimiterTypeOK
    BY LimiterInitially, LimiterTyped DEF Init
  <1>2. FreshHandler(published) \in HandlerRecords
    BY DEF Init, FreshHandler, HandlerRecords, Steps, Routes, Resources
  <1>3. TypeOK
    BY <1>1, <1>2, LifecycleAssumption DEF TypeOK, Init, HandlerRecords
  <1>4. ASSUME NEW r \in Requests
        PROVE  HandlerOK(handler[r], lease[r], r \in returning)
    <2>1. Absent(lease[r], r \in returning)
      BY DEF Init, Limiter!LimiterInit, Limiter!FreshLease, Absent
    <2>2. handler[r] = FreshHandler(published)
      BY DEF Init
    <2> QED
      BY <2>1, <2>2 DEF FreshHandler, HandlerOK, FlagsOK, SlotOK, BillOK, BudgetOK, Admitting,
           Leasing, Finishing, Unbilled, Resources
  <1> QED  BY <1>1, <1>3, <1>4 DEF ProxyIInv, HandlersOK

(* Every step keeps the invariant, and complies with the contract.         *)
LEMMA ProxyStep == ProxyIInv /\ [Next]_vars => ProxyIInv' /\ Complies
  <1> SUFFICES ASSUME ProxyIInv, [Next]_vars PROVE ProxyIInv' /\ Complies
    OBVIOUS
  <1>1. CASE UNCHANGED vars
    <2>1. UNCHANGED limiterVars /\ UNCHANGED policyVars /\ handler' = handler
      BY <1>1 DEF vars
    <2>2. LimiterProofs!IInv' /\ Limiter!LimiterTypeOK'
      BY <2>1, Unfold, LimiterStutter
    <2>3. TypeOK'
      BY <2>1, <2>2 DEF TypeOK, ProxyIInv, policyVars
    <2>4. HandlersOK'
      BY <2>1 DEF HandlersOK, ProxyIInv, limiterVars
    <2>5. Complies
      BY <2>1, Untouched
    <2> QED  BY <2>2, <2>3, <2>4, <2>5 DEF ProxyIInv
  <1>2. ASSUME NEW r \in Requests, Admit(r) PROVE ProxyIInv' /\ Complies
    BY <1>2, MovingOn, AcquireInspectionStep, PlanStep, PromoteStep, AcquireSlotStep,
       ReserveTokensStep, ReserveBudgetStep, NoBudgetStep, RollbackTokensStep, RollbackSlotStep,
       RecheckStep DEF Admit
  <1>3. ASSUME NEW r \in Requests, Work(r) PROVE ProxyIInv' /\ Complies
    BY <1>3, MovingOn, StartUpstreamStep, ForwardedStep, ConvertedStep DEF Work
  <1>4. ASSUME NEW r \in Requests, Settlement(r) PROVE ProxyIInv' /\ Complies
    BY <1>4, MovingOn, CleanupStep, CleanupInspectionStep, FinishTokensStep, FinishBudgetStep,
       FinishSlotStep, ReturnSlotStep DEF Settlement
  <1>5. ASSUME NEW r \in Requests, NEW route \in Routes, Authenticate(r, route) PROVE ProxyIInv' /\ Complies
    BY <1>5, AuthenticateStep
  <1>6. CASE Finished
    BY <1>1, <1>6 DEF Finished
  <1> QED  BY <1>1, <1>2, <1>3, <1>4, <1>5, <1>6, UpdatePolicyStep DEF Next, Serve

(* In every reachable state, where a ServeHTTP is and the flags it carries *)
(* to its deferred cleanup say exactly which slot it has, which            *)
(* reservations of it are open, and that its budget is in its bill.        *)
THEOREM ProxyInvariant == Spec => []ProxyIInv
  BY ProxyInitially, ProxyStep, PTL DEF Spec

(* However many requests run and whatever their exits, a ServeHTTP that    *)
(* has returned left no slot and no open reservation behind, and the       *)
(* promotion of a provisional slot, whose refusal ServeHTTP would not      *)
(* survive without a leak, is never refused.                               *)
THEOREM LeavesNothingHeld == Spec => []NothingHeldAfter
  <1>1. ProxyIInv => NothingHeldAfter
    <2> SUFFICES ASSUME ProxyIInv PROVE NothingHeldAfter
      OBVIOUS
    <2>1. ASSUME NEW r \in Requests, At(r, "admit"), handler[r].inspecting
          PROVE  Limiter!Adoptable(r, Key, Principal(r).max > 0)
      <3>1. /\ handler[r] \in HandlerRecords /\ LimiterProofs!IInv
            /\ SlotOK(handler[r], lease[r], r \in returning)
        BY Unfold DEF HandlerOK
      <3>2. /\ Open(lease[r], r \in returning) /\ ~lease[r].claimed /\ lease[r].keyID = Key
            /\ lease[r].state = NoState => Principal(r).max = 0
            /\ Principal(r).max \in Nat
        BY <2>1, <3>1, PoliciesAssumption DEF SlotOK, Principal, HandlerRecords
      <3> QED  BY <3>1, <3>2, OpenAdoptable
    <2>2. ASSUME NEW r \in Requests, Done(r)
          PROVE  /\ lease[r].admitted => lease[r].released /\ r \notin returning
                 /\ \A x \in Resources : handler[r].bill[x] # "held"
      BY <2>2, Unfold DEF Done, At, HandlerOK, SlotOK, BillOK, Absent, Gone, NoneHeld
    <2> QED  BY <2>1, <2>2 DEF NothingHeldAfter, PromotionSucceeds, ProxyIInv
  <1> QED  BY <1>1, ProxyInvariant, PTL

(* "a snapshot that became stale during the rest of admission cannot       *)
(* bypass the new policy", however the replacement interleaves: upstream   *)
(* work that started with a budget in force at the recheck is paid for.    *)
THEOREM BudgetsHold == Spec => []BudgetNotBypassed
  <1>1. ProxyIInv => BudgetNotBypassed
    BY Unfold DEF HandlerOK, FlagsOK, BudgetOK, BudgetNotBypassed
  <1> QED  BY <1>1, ProxyInvariant, PTL

(* ServeHTTP with its coordinator and the concurrency limiter implements   *)
(* LeaseContract: each reservation is settled exactly once, before the     *)
(* slot is given up, and priced by whether upstream work was possible.     *)
THEOREM ServeHTTPImplementsContract == Spec => ImplementsContract
  <1>1. Init => Contract!Init
    <2> SUFFICES ASSUME Init PROVE Contract!Init
      OBVIOUS
    <2>1. \A r \in Requests : Stage(r) = "outside"
      BY DEF Init, Limiter!LimiterInit, Limiter!FreshLease, Stage
    <2>2. \A r \in Requests : handler[r].bill = [x \in Resources |-> "none"]
      BY DEF Init, FreshHandler
    <2> QED  BY <2>1, <2>2 DEF Contract!Init
  <1>2. ProxyIInv /\ [Next]_vars => [Contract!Next]_(Contract!contractVars)
    BY ProxyStep DEF Complies
  <1> QED  BY <1>1, <1>2, ProxyInvariant, PTL DEF Spec, ImplementsContract, Contract!Spec
=============================================================================
