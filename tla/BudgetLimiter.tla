---------------------------- MODULE BudgetLimiter ----------------------------
(***************************************************************************)
(* The monetary budget limiter of internal/limiter/budget.go: estimated    *)
(* costs reserved against a lifetime total, a UTC day and a UTC month,     *)
(* settled once, and corrected at most once by a deferred ticket.          *)
(*                                                                         *)
(* A key's budgetState is changed under its shard's mutex, so Reserve, a   *)
(* settlement and Adjust are one step each; the deltas they owe the        *)
(* persistence sink are delivered one by one after the mutex is released.  *)
(* Reserve holds policyMu throughout, ReplacePolicy holds out Reserve.     *)
(*                                                                         *)
(* The unit of time is the day; a month has MonthDays days.  A budget      *)
(* identity (scope) is the total, a day or a month; the total's counters   *)
(* are state.spent and state.active.                                       *)
(***************************************************************************)
EXTENDS Integers, FiniteSets, FiniteSetsExt

CONSTANTS
    Keys,          \* stable gateway key IDs
    Policies,      \* budget policies: limits by period, a partial function
    Reservations,  \* BudgetReservation objects, each used once
    Amounts,       \* candidate costs in micros
    Usages,        \* actual costs; Unknown is an unknown Money
    Loaded,        \* committed spend LoadSpent may find in each scope
    MonthDays,     \* days per month
    MaxMoney,      \* MaxMoneyMicros (scaled down)
    MaxTime        \* bound: the last day of the clock

Periods == {"total", "day", "month"}
Unknown == -1
Times   == 0 .. MaxTime

ASSUME BudgetAssumption ==
    /\ Keys # {} /\ IsFiniteSet(Reservations)
    /\ MonthDays \in Nat \ {0} /\ MaxMoney \in Nat /\ MaxTime \in Nat
    /\ Amounts \subseteq 0 .. MaxMoney
    /\ Usages \subseteq {Unknown} \cup 0 .. MaxMoney
    /\ Loaded \subseteq 0 .. MaxMoney
    /\ \A p \in Policies : /\ DOMAIN p \subseteq Periods
                           /\ \A d \in DOMAIN p : p[d] \in 0 .. MaxMoney

VARIABLES
    lastNow,      \* limiter.lastNow
    states,       \* shard.states: a partial function on keys
    policies,     \* limiter.policies
    sequence,     \* limiter.sequence, the last generation handed out
    reservation,  \* each reservation with its terminal control and ticket
    sunk,         \* what the persistence sink has been told, per key and scope
    excused,      \* scopes charged beyond a reservation or whose limit was cut
    torn          \* keys with an adjustment that was not applied to every scope

budgetVars == <<lastNow, states, policies, sequence, reservation, sunk, excused, torn>>

-----------------------------------------------------------------------------
(* Scopes and states.                                                      *)

(* currentDay and currentMonth: the start of the period that holds now.    *)
PeriodStart(period, now) ==
    CASE period = "total" -> 0
      [] period = "day"   -> now
      [] period = "month" -> now - (now % MonthDays)

Scope(period, now) == [period |-> period, start |-> PeriodStart(period, now)]
Total  == Scope("total", 0)
Scopes == {Scope(p, t) : p \in Periods, t \in Times}

ZeroEntry    == [spent |-> 0, active |-> 0]
UnknownEntry == [spent |-> Unknown, active |-> Unknown]

NewState(generation) ==
    [generation |-> generation, entry |-> [s \in {Total} |-> ZeroEntry]]

HasState(k) == k \in DOMAIN states

Entry(k, s) == IF HasState(k) /\ s \in DOMAIN states[k].entry
               THEN states[k].entry[s] ELSE ZeroEntry

(* validateBudgetState.                                                    *)
Valid(state) ==
    \A s \in DOMAIN state.entry :
        LET e == state.entry[s] IN
        e.spent >= 0 /\ e.active >= 0 /\ e.spent + e.active <= MaxMoney

(* The map with key k's state stored, or deleted when nothing is left in   *)
(* it: no spend, no reservation, no day and no month bucket.               *)
StoreState(k, state) ==
    LET gone == state.entry = [s \in {Total} |-> ZeroEntry]
        keys == IF gone THEN DOMAIN states \ {k} ELSE DOMAIN states \cup {k}
    IN  [x \in keys |-> IF x = k THEN state ELSE states[x]]

(* The rollover cleanup of Reserve: day and month buckets of past periods  *)
(* go unless a reservation is active in them.                              *)
\* Mutant: past buckets go although a reservation is active in them.
DropPastActive(state, now) ==
    [state EXCEPT !.entry =
        [s \in {x \in DOMAIN @ : x.start >= PeriodStart(x.period, now)} |-> @[s]]]

DropPast(state, now) ==
    [state EXCEPT !.entry =
        [s \in {x \in DOMAIN @ : \/ x.start >= PeriodStart(x.period, now)
                                 \/ @[x].active # 0} |-> @[s]]]

-----------------------------------------------------------------------------
NewReservation(state, k, amount, generation, scopes) ==
    [state |-> state, key |-> k, generation |-> generation, amount |-> amount,
     scopes |-> scopes, ticket |-> "none", delta |-> 0, owed |-> {}]
FreeReservation == NewReservation("free", CHOOSE k \in Keys : TRUE, 0, 0, {})

(* LoadSpent: zero rows leave no state behind; one generation per new key. *)
LoadSpent(c, p) ==
    IF c = 0 \/ DOMAIN p = {} THEN <<>>
    ELSE [k \in Keys |-> [generation |-> 1, entry |->
            [s \in {Total} \cup {Scope(d, 0) : d \in DOMAIN p} |->
                IF s.period \in DOMAIN p THEN [spent |-> c, active |-> 0] ELSE ZeroEntry]]]

(* RegisterPolicy seeds every stored key before serving.  A key created    *)
(* later has no entry and an unlimited policy until its first replacement, *)
(* which Reserve treats as a registered unlimited policy.                  *)
Init ==
    /\ lastNow = 0
    /\ \E p \in Policies, c \in Loaded :
         /\ policies = [k \in Keys |-> p]
         /\ states = LoadSpent(c, p)
         /\ excused = {[key |-> k, scope |-> Scope(d, 0)] :
                         k \in Keys, d \in {x \in DOMAIN p : c > p[x]}}
    /\ sequence = IF DOMAIN states = {} THEN 0 ELSE 1
    /\ reservation = [r \in Reservations |-> FreeReservation]
    /\ sunk = [k \in Keys |-> [s \in Scopes |-> Entry(k, s).spent]]
    /\ torn = {}

-----------------------------------------------------------------------------
(* Reserve.                                                                *)

\* Mutant: the reservations of other requests are left out of the used part.
FitsSpentOnly(e, limit, amount) == amount <= limit - e.spent

Fits(e, limit, amount) == amount <= limit - (e.spent + e.active)

(* An unlimited policy, or a zero cost that fits: a reservation that holds *)
(* nothing.                                                                *)
ReserveNothing(r, k, amount, now) ==
    LET p    == policies[k]
        kept == IF HasState(k) THEN DropPast(states[k], now) ELSE NewState(0) IN
    /\ reservation[r].state = "free"
    /\ HasState(k) => Valid(states[k])
    /\ \/ DOMAIN p = {} /\ UNCHANGED <<lastNow, states>>
       \/ /\ DOMAIN p # {} /\ amount = 0
          /\ \A d \in DOMAIN p : Fits(Entry(k, Scope(d, now)), p[d], amount)
          /\ lastNow' = now
          /\ states' = [x \in DOMAIN states |-> IF x = k THEN kept ELSE states[x]]
    /\ reservation' = [reservation EXCEPT ![r] = NewReservation("open", k, amount, 0, {})]
    /\ UNCHANGED <<policies, sequence, sunk, excused, torn>>

(* A principal whose policy is not the published one is turned away before *)
(* anything changes, so the policy admitted under is policies[k].  Only    *)
(* the periods the policy limits are captured.                             *)
Reserve(r, k, amount, now) ==
    LET p      == policies[k]
        scopes == {Scope(d, now) : d \in DOMAIN p}
        kept   == IF HasState(k) THEN DropPast(states[k], now)
                  ELSE NewState(sequence + 1)
        entry  == [s \in DOMAIN kept.entry \cup scopes |->
                     LET old == Entry(k, s) IN
                     IF s \in scopes THEN [old EXCEPT !.active = @ + amount] ELSE old]
    IN  /\ reservation[r].state = "free"
        /\ HasState(k) => Valid(states[k])
        /\ DOMAIN p # {} /\ amount > 0
        /\ \A d \in DOMAIN p : Fits(Entry(k, Scope(d, now)), p[d], amount)
        /\ lastNow' = now
        /\ states' = [x \in DOMAIN states \cup {k} |->
                        IF x = k THEN [kept EXCEPT !.entry = entry] ELSE states[x]]
        /\ sequence' = IF HasState(k) THEN sequence ELSE sequence + 1
        /\ reservation' = [reservation EXCEPT ![r] =
              NewReservation("open", k, amount, kept.generation, scopes)]
        /\ UNCHANGED <<policies, sunk, excused, torn>>

(* A Reserve that is refused for lack of capacity has cleaned up already.  *)
Refuse(k, amount, now) ==
    /\ HasState(k) /\ Valid(states[k])
    /\ \E d \in DOMAIN policies[k] :
         ~Fits(Entry(k, Scope(d, now)), policies[k][d], amount)
    /\ lastNow' = now
    /\ states' = [states EXCEPT ![k] = DropPast(@, now)]
    /\ UNCHANGED <<policies, sequence, reservation, sunk, excused, torn>>

(* RetryAfterSeconds reads the clock.                                      *)
RetryAfterSeconds(now) ==
    /\ lastNow' = now
    /\ UNCHANGED <<states, policies, sequence, reservation, sunk, excused, torn>>

-----------------------------------------------------------------------------
(* Settlement: finalizeInternal and settleReservation.                     *)

(* The first terminal call of a reservation wins.                          *)
Unsettled(r) == reservation[r].state = "open"

(* The settled charge: the wanted one, or the estimate when the wanted one *)
(* overflows some captured scope; Unknown when neither fits.  A released   *)
(* reservation is charged nothing.                                         *)
Charge(r, wanted) ==
    LET fits(c) == \A s \in reservation[r].scopes :
                     Entry(reservation[r].key, s).spent + c <= MaxMoney
    IN  IF fits(wanted) THEN wanted
        ELSE IF fits(reservation[r].amount) THEN reservation[r].amount
        ELSE Unknown

(* The state the reservation was admitted in is still the key's, it is     *)
(* well formed, and it holds the reserved amount in every captured scope.  *)
Settleable(r) ==
    LET k == reservation[r].key IN
    /\ HasState(k)
    /\ states[k].generation = reservation[r].generation
    /\ Valid(states[k])
    /\ \A s \in reservation[r].scopes : Entry(k, s).active >= reservation[r].amount

Released(e, s, amount, charge) ==
    [spent |-> e.spent + charge, active |-> e.active - amount]

(* A settlement that cannot be represented leaves the amount reserved.     *)
Settle(r, wanted, deferred) ==
    LET k      == reservation[r].key
        amount == reservation[r].amount
        scopes == reservation[r].scopes
        charge == Charge(r, wanted)
        entry  == [s \in DOMAIN states[k].entry |->
                     LET e == states[k].entry[s] IN
                     IF s \in scopes THEN Released(e, s, amount, charge) ELSE e]
        error  == charge # wanted
    IN  /\ Unsettled(r)
        /\ IF scopes = {}
           THEN /\ reservation' = [reservation EXCEPT ![r].state = "final"]
                /\ UNCHANGED <<states, excused>>
           ELSE IF ~Settleable(r) \/ charge = Unknown
           THEN /\ reservation' = [reservation EXCEPT ![r].state = "retained"]
                /\ UNCHANGED <<states, excused>>
           ELSE /\ states' = StoreState(k, [states[k] EXCEPT !.entry = entry])
                /\ reservation' = [reservation EXCEPT
                     ![r].state  = "final",
                     ![r].ticket = IF deferred /\ ~error THEN "live" ELSE "none",
                     ![r].delta  = charge,
                     ![r].owed   = IF charge = 0 THEN {} ELSE scopes]
                /\ excused' = IF charge > amount
                              THEN excused \cup {[key |-> k, scope |-> s] : s \in scopes}
                              ELSE excused
        /\ UNCHANGED <<lastNow, policies, sequence, sunk, torn>>

(* An unknown actual cost is charged as the estimate.                      *)
Commit(r, usage) ==
    Settle(r, IF usage = Unknown THEN reservation[r].amount ELSE usage, FALSE)

CompleteConservative(r) == Settle(r, reservation[r].amount, FALSE)

ReleaseBeforeUpstream(r) == Settle(r, 0, FALSE)

CommitDeferred(r) == Settle(r, reservation[r].amount, TRUE)

(* Mutant: a delta that was delivered stays owed and is delivered again.   *)
NotifyAgain(r, s) ==
    /\ s \in reservation[r].owed
    /\ sunk' = [sunk EXCEPT ![reservation[r].key][s] = @ + reservation[r].delta]
    /\ UNCHANGED <<lastNow, states, policies, sequence, reservation, excused, torn>>

(* notifyBudgetDelta for one scope, outside the mutex.                     *)
Notify(r, s) ==
    /\ s \in reservation[r].owed
    /\ sunk' = [sunk EXCEPT ![reservation[r].key][s] = @ + reservation[r].delta]
    /\ reservation' = [reservation EXCEPT ![r].owed = @ \ {s}]
    /\ UNCHANGED <<lastNow, states, policies, sequence, excused, torn>>

-----------------------------------------------------------------------------
(* Deferred tickets.                                                       *)

(* CommitDeferred returns the ticket after its own notifications.          *)
LiveTicket(r) == reservation[r].ticket = "live" /\ reservation[r].owed = {}

Correction(r, usage) == usage - reservation[r].amount

(* Adjust, once the ticket's identity is found.  Only an overflow of the   *)
(* total is an error.  A day or month bucket that was discarded, or that   *)
(* overflows, keeps the state unchanged but not the other deltas from      *)
(* being sent; with no correction to make, a discarded bucket is written   *)
(* back with unknown amounts.                                              *)
AdjustState(r, usage) ==
    LET k       == reservation[r].key
        scopes  == reservation[r].scopes
        delta   == Correction(r, usage)
        applies(s) == /\ s \in DOMAIN states[k].entry
                      /\ states[k].entry[s].spent # Unknown
                      /\ states[k].entry[s].spent + delta \in 0 .. MaxMoney
        totalOK == Total \in scopes => applies(Total)
        missing == scopes \ DOMAIN states[k].entry
        entry   == [s \in DOMAIN states[k].entry \cup missing |->
                      IF s \in missing THEN UnknownEntry
                      ELSE IF s \in scopes /\ delta # 0
                      THEN [states[k].entry[s] EXCEPT !.spent = @ + delta]
                      ELSE states[k].entry[s]]
    IN  /\ states' = IF totalOK /\ (delta = 0 \/ \A s \in scopes : applies(s))
                     THEN StoreState(k, [states[k] EXCEPT !.entry = entry])
                     ELSE states
        /\ reservation' = [reservation EXCEPT
              ![r].ticket = "spent",
              ![r].delta  = delta,
              ![r].owed   = IF totalOK /\ delta # 0
                            THEN {s \in scopes : applies(s)} ELSE {}]
        /\ excused' = IF delta > 0
                      THEN excused \cup {[key |-> k, scope |-> s] : s \in scopes}
                      ELSE excused
        /\ torn' = IF missing # {} \/ (totalOK /\ delta # 0 /\ \E s \in scopes : ~applies(s))
                   THEN torn \cup {k} ELSE torn

(* An invalid cost or a stale identity consumes the ticket and nothing     *)
(* else.                                                                   *)
Adjust(r, usage) ==
    LET k == reservation[r].key IN
    /\ LiveTicket(r)
    /\ IF /\ usage # Unknown
          /\ HasState(k)
          /\ states[k].generation = reservation[r].generation
          /\ states[k].entry[Total].spent # Unknown
       THEN AdjustState(r, usage)
       ELSE /\ reservation' = [reservation EXCEPT ![r].ticket = "spent"]
            /\ UNCHANGED <<states, excused, torn>>
    /\ UNCHANGED <<lastNow, policies, sequence, sunk>>

Invalidate(r) ==
    /\ LiveTicket(r)
    /\ reservation' = [reservation EXCEPT ![r].ticket = "spent"]
    /\ UNCHANGED <<lastNow, states, policies, sequence, sunk, excused, torn>>

-----------------------------------------------------------------------------
(* ReplacePolicy: any new policy is accepted, spend and reservations stay. *)
(* The durable commit it wraps may fail, which changes nothing.            *)
ReplacePolicy(k, new) ==
    /\ policies' = [policies EXCEPT ![k] = new]
    /\ excused' = excused \cup
         {[key |-> k, scope |-> s] : s \in
            {x \in Scopes : /\ x.period \in DOMAIN new
                            /\ Entry(k, x).spent + Entry(k, x).active > new[x.period]}}
    /\ UNCHANGED <<lastNow, states, sequence, reservation, sunk, torn>>

-----------------------------------------------------------------------------
Next ==
    \/ \E now \in lastNow .. MaxTime :
        \/ RetryAfterSeconds(now)
        \/ \E k \in Keys, amount \in Amounts :
            \/ Refuse(k, amount, now)
            \/ \E r \in Reservations :
                 ReserveNothing(r, k, amount, now) \/ Reserve(r, k, amount, now)
    \/ \E r \in Reservations :
        \/ \E usage \in Usages : Commit(r, usage) \/ Adjust(r, usage)
        \/ CompleteConservative(r)
        \/ ReleaseBeforeUpstream(r)
        \/ CommitDeferred(r)
        \/ \E s \in reservation[r].owed : Notify(r, s)
        \/ Invalidate(r)
    \/ \E k \in Keys, new \in Policies : ReplacePolicy(k, new)

Spec == Init /\ [][Next]_budgetVars

-----------------------------------------------------------------------------
(* Properties.                                                             *)

Money == {Unknown} \cup 0 .. MaxMoney

TypeOK ==
    /\ lastNow \in Times
    /\ DOMAIN states \subseteq Keys
    /\ \A k \in DOMAIN states :
         /\ states[k].generation \in 1 .. sequence
         /\ Total \in DOMAIN states[k].entry
         /\ DOMAIN states[k].entry \subseteq Scopes
         /\ \A s \in DOMAIN states[k].entry :
               states[k].entry[s] \in [spent: Money, active: Money]
    /\ policies \in [Keys -> Policies]
    /\ sequence \in Nat
    /\ reservation \in [Reservations ->
          [state: {"free", "open", "final", "retained"}, key: Keys,
           generation: 0 .. sequence, amount: 0 .. MaxMoney, scopes: SUBSET Scopes,
           ticket: {"none", "live", "spent"}, delta: -MaxMoney .. MaxMoney,
           owed: SUBSET Scopes]]
    /\ sunk \in [Keys -> [Scopes -> Int]]
    /\ torn \subseteq Keys

AmountOf == [r \in Reservations |-> reservation[r].amount]
DeltaOf  == [r \in Reservations |-> reservation[r].delta]

HeldIn(k, s) == {r \in Reservations : /\ reservation[r].state \in {"open", "retained"}
                                      /\ reservation[r].key = k
                                      /\ s \in reservation[r].scopes}
OwedIn(k, s) == {r \in Reservations : reservation[r].key = k /\ s \in reservation[r].owed}

(***************************************************************************)
(* Conservation of reserved budget: in each scope the active amount is the *)
(* sum of the reservations not yet settled that captured it (and of those  *)
(* whose settlement could not be represented), across rollovers, policy    *)
(* replacements and the deletion of states: no reservation leaks into, or  *)
(* out of, a budget it did not capture.                                    *)
(***************************************************************************)
ActiveExact ==
    \A k \in Keys \ torn : \A s \in Scopes :
        Entry(k, s).active = SumFunctionOnSet(AmountOf, HeldIn(k, s))

(***************************************************************************)
(* A reservation that is still open can be settled: its key's state was    *)
(* neither dropped nor replaced by a newer generation, and is well formed, *)
(* as long as amounts are representable.                                   *)
(***************************************************************************)
OpenIsSettleable ==
    \A r \in Reservations :
        (/\ Unsettled(r) /\ reservation[r].scopes # {}
         /\ reservation[r].key \notin torn
         /\ \A s \in Scopes : LET e == Entry(reservation[r].key, s)
                              IN  e.spent + e.active <= MaxMoney)
            => Settleable(r)

(***************************************************************************)
(* The ledger is exact: it is well typed, what it holds as active is what  *)
(* the unsettled reservations captured (ActiveExact), and every one of     *)
(* those can still be settled (OpenIsSettleable), however Reserve, Commit, *)
(* CompleteConservative, Adjust, a rollover and ReplacePolicy interleave.  *)
(***************************************************************************)
LedgerExact == TypeOK /\ ActiveExact /\ OpenIsSettleable

(***************************************************************************)
(* Spend and reservations together stay within every limit of the current  *)
(* policy, in the current period, unless a request cost more than it had   *)
(* reserved or the limit was set below what was used already.              *)
(***************************************************************************)
WithinLimit ==
    \A k \in Keys : \A d \in DOMAIN policies[k] :
        LET s == Scope(d, lastNow) IN
        [key |-> k, scope |-> s] \notin excused =>
            Entry(k, s).spent + Entry(k, s).active <= policies[k][d]

(***************************************************************************)
(* What the sink was told, plus the deltas still on their way, is the      *)
(* spend of every bucket the limiter keeps: the durable rows converge to   *)
(* memory (torn adjustments are left aside: see AdjustIsAtomic).  And the  *)
(* total the sink sees in a scope never goes below zero, although deltas   *)
(* are delivered outside the lock and concurrently: storage refuses a row  *)
(* that would, with its whole batch.                                       *)
(***************************************************************************)
SinkAgrees ==
    /\ \A k \in DOMAIN states \ torn : \A s \in DOMAIN states[k].entry :
         states[k].entry[s].spent
             = sunk[k][s] + SumFunctionOnSet(DeltaOf, OwedIn(k, s))
    /\ \A k \in Keys, s \in Scopes : sunk[k][s] >= 0

(***************************************************************************)
(* Adjust replaces the conservative charge atomically, late or not: the    *)
(* lifetime spend the sink converges to is the one in memory (comment of   *)
(* Adjust).                                                                *)
(***************************************************************************)
AdjustIsAtomic ==
    \A k \in DOMAIN states :
        states[k].entry[Total].spent
            = sunk[k][Total] + SumFunctionOnSet(DeltaOf, OwedIn(k, Total))
=============================================================================
