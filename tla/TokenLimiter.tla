---------------------------- MODULE TokenLimiter ----------------------------
(***************************************************************************)
(* The token limiter of internal/limiter/token.go: estimates reserved in   *)
(* epoch-aligned fixed windows, settled once, and corrected at most once   *)
(* by a deferred adjustment ticket.                                        *)
(*                                                                         *)
(* Every operation holds limiter.mu for its whole effect and is one step,  *)
(* except TokenAdjustmentTicket.Adjust, which notifies the persistence     *)
(* sink after unlocking: Adjust and Notify are two steps.                  *)
(*                                                                         *)
(* Each locked operation reads the clock once through currentTimeLocked,   *)
(* which holds time still when the wall clock moves back.  A reading is    *)
(* therefore any instant from lastNow on.                                  *)
(***************************************************************************)
EXTENDS Integers, FiniteSets, FiniteSetsExt

CONSTANTS
    Keys,          \* stable gateway key IDs
    WindowSets,    \* token policies: sets of [amount, duration] windows
    Reservations,  \* reservation objects, each used once
    Amounts,       \* estimates a request may ask for
    Usages,        \* observed totals; negative ones are invalid
    Loaded,        \* committed totals LoadCommitted may find per window
    MaxInt,        \* the largest int64 (scaled down)
    MaxTime        \* bound: the last instant of the clock

Windows == UNION WindowSets
Times   == 0 .. MaxTime

ASSUME TokenAssumption ==
    /\ Keys # {} /\ IsFiniteSet(Reservations)
    /\ MaxInt \in Nat /\ MaxTime \in Nat
    /\ Amounts \subseteq 1 .. MaxInt /\ Usages \subseteq Int
    /\ Loaded \subseteq 0 .. MaxInt
    /\ \A w \in Windows : w.amount \in 1 .. MaxInt /\ w.duration \in Nat \ {0}

VARIABLES
    lastNow,        \* limiter.lastNow
    buckets,        \* limiter.buckets: a partial function on bucket identities
    policyWindows,  \* limiter.policyWindows
    published,      \* every policy a principal of the key may carry
    reservation,    \* the fields of each TokenReservation
    ticket,         \* the fields of each TokenAdjustmentTicket
    sunk,           \* what the persistence sink has been told, per bucket
    overrun,        \* buckets ever charged more than was reserved in them
    dropped         \* buckets that finalize could not add a charge to

tokenVars == <<lastNow, buckets, policyWindows, published, reservation,
               ticket, sunk, overrun, dropped>>

-----------------------------------------------------------------------------
(* Buckets and windows.                                                    *)

(* fixedWindowStartChecked and checkedWindowReset.                         *)
FixedWindowStart(now, w) == now - (now % w.duration)
WindowReset(b) == b.start + b.window.duration

BucketAt(k, w, now) == [key |-> k, window |-> w, start |-> FixedWindowStart(now, w)]

BucketIDs == {BucketAt(k, w, t) : k \in Keys, w \in Windows, t \in Times}

EmptyBucket == [committed |-> 0, active |-> 0]

Bucket(b) == IF b \in DOMAIN buckets THEN buckets[b] ELSE EmptyBucket

(* discardExpiredLocked, applied to the map bs.                            *)
\* Mutant: an expired bucket goes even while a reservation is active in it.
DiscardExpiredActive(bs, now) ==
    [b \in {x \in DOMAIN bs : WindowReset(x) > now} |-> bs[b]]

DiscardExpired(bs, now) ==
    [b \in {x \in DOMAIN bs : WindowReset(x) > now \/ bs[x].active > 0} |-> bs[b]]

(* The map bs with the entries of upd stored; an entry that is zero in     *)
(* both fields is deleted.                                                 *)
Store(bs, upd) ==
    LET keep == {x \in DOMAIN bs \cup DOMAIN upd :
                    x \in DOMAIN upd => upd[x] # EmptyBucket}
    IN  [x \in keep |-> IF x \in DOMAIN upd THEN upd[x] ELSE bs[x]]

-----------------------------------------------------------------------------
FreeReservation == [state |-> "free", key |-> CHOOSE k \in Keys : TRUE,
                    buckets |-> {}, amount |-> 0]
NoTicket == [state |-> "none", delta |-> 0, owed |-> {}]

(* LoadCommitted: the unexpired rows of the key's windows, over-limit ones *)
(* included, and no active reservation.                                    *)
LoadCommitted(c) ==
    LET ids == IF c = 0 THEN {}
               ELSE {BucketAt(k, w, 0) : k \in Keys, w \in Windows}
    IN  [b \in {x \in ids : x.window \in policyWindows[x.key]} |->
            [committed |-> c, active |-> 0]]

(* RegisterPolicy seeds every key before serving.  A key created later has *)
(* the policy {} and no entry until its first replacement; no principal    *)
(* of it carries a window before that, so it is a key with an empty entry. *)
Init ==
    /\ lastNow = 0
    /\ policyWindows \in [Keys -> WindowSets]
    /\ published = [k \in Keys |-> {policyWindows[k]}]
    /\ \E c \in Loaded : buckets = LoadCommitted(c)
    /\ reservation = [r \in Reservations |-> FreeReservation]
    /\ ticket = [r \in Reservations |-> NoTicket]
    /\ sunk = [b \in BucketIDs |-> Bucket(b).committed]
    /\ overrun = {b \in DOMAIN buckets : buckets[b].committed > b.window.amount}
    /\ dropped = {}

-----------------------------------------------------------------------------
(* Reserve.                                                                *)

(* checkedNonNegativeAdd(committed, active) succeeds and amount still fits.*)
\* Mutant: active reservations are left out of the used capacity.
FitsCommittedOnly(b, amount) == amount <= b.window.amount - Bucket(b).committed

Fits(b, amount) ==
    LET used == Bucket(b).committed + Bucket(b).active
    IN  used <= MaxInt /\ amount <= b.window.amount - used

(* A principal without windows is admitted with a no-op reservation before *)
(* the published policy is looked at.                                      *)
ReserveUnlimited(r, k) ==
    /\ reservation[r].state = "free"
    /\ {} \in published[k]
    /\ \E amount \in Amounts :
         reservation' = [reservation EXCEPT ![r] =
            [state |-> "open", key |-> k, buckets |-> {}, amount |-> amount]]
    /\ UNCHANGED <<lastNow, buckets, policyWindows, published, ticket, sunk, overrun, dropped>>

(* sameTokenWindowSet: the principal's windows are the published ones.     *)
SameTokenWindowSet(k, ws) == ws = policyWindows[k]

Reserve(r, k, ws, amount, now) ==
    LET ids   == {BucketAt(k, w, now) : w \in ws}
        fresh == DiscardExpired(buckets, now)
    IN  /\ reservation[r].state = "free"
        /\ ws # {}
        /\ SameTokenWindowSet(k, ws)
        /\ \A b \in ids : Fits(b, amount)
        /\ buckets' = Store(fresh, [b \in ids |-> [Bucket(b) EXCEPT !.active = @ + amount]])
        /\ reservation' = [reservation EXCEPT ![r] =
               [state |-> "open", key |-> k, buckets |-> ids, amount |-> amount]]
        /\ lastNow' = now
        /\ UNCHANGED <<policyWindows, published, ticket, sunk, overrun, dropped>>

(* A rejected Reserve, AllowsPolicyReplacement, Len, and a ReplacePolicy   *)
(* that conflicts or whose commit fails: time moves and buckets expire.    *)
Sweep(now) ==
    /\ lastNow' = now
    /\ buckets' = DiscardExpired(buckets, now)
    /\ UNCHANGED <<policyWindows, published, reservation, ticket, sunk, overrun, dropped>>

(* RetryAfterSeconds reads the clock and discards nothing.                 *)
RetryAfterSeconds(now) ==
    /\ lastNow' = now
    /\ UNCHANGED <<buckets, policyWindows, published, reservation, ticket, sunk, overrun, dropped>>

(* The reset a rejection reports: the latest boundary among the windows    *)
(* that prevent admission but could hold the amount; 0 for none.           *)
ResetAt(k, ws, amount, now) ==
    LET blocked == {BucketAt(k, w, now) : w \in ws}
        useful  == {b \in blocked : /\ ~Fits(b, amount)
                                    /\ amount <= b.window.amount
                                    /\ Bucket(b).committed + Bucket(b).active <= MaxInt}
    IN  IF useful = {} THEN 0 ELSE Max({WindowReset(b) : b \in useful})

-----------------------------------------------------------------------------
(* Settlement: Commit, AbortConservative, ReleaseBeforeUpstream and        *)
(* CommitDeferred all end in finalize.                                     *)

(* The charge finalize settles for r.  An observed total that is negative, *)
(* does not fit a bucket, or meets a bucket without the reservation falls  *)
(* back to the estimate; an estimate or a release (actual = FALSE) is not  *)
(* validated.                                                              *)
Charge(r, usage, actual) ==
    LET amount == reservation[r].amount
        bad(b) == \/ Bucket(b).active < amount
                  \/ Bucket(b).committed + usage > MaxInt
    IN  IF usage < 0 \/ (actual /\ \E b \in reservation[r].buckets : bad(b))
        THEN amount ELSE usage

(* One settled bucket.  A charge that does not fit is dropped.             *)
Settled(b, amount, charge) ==
    LET old == buckets[b] IN
    [active    |-> IF old.active < amount THEN 0 ELSE old.active - amount,
     committed |-> IF old.committed + charge > MaxInt THEN old.committed
                   ELSE old.committed + charge]

(* The finalized flag of finalizeOnce: the first terminal call wins.       *)
Unsettled(r) == reservation[r].state = "open"

Finalize(r, usage, actual, now) ==
    LET amount == reservation[r].amount
        charge == Charge(r, usage, actual)
        held   == reservation[r].buckets \cap DOMAIN buckets
        stored == Store(buckets, [b \in held |-> Settled(b, amount, charge)])
    IN  /\ Unsettled(r)
        /\ reservation' = [reservation EXCEPT ![r].state = "final"]
        /\ IF reservation[r].buckets = {}
           THEN UNCHANGED <<lastNow, buckets, sunk, overrun, dropped>>
           ELSE /\ buckets' = DiscardExpired(stored, now)
                /\ lastNow' = now
                /\ sunk' = [b \in BucketIDs |->
                               sunk[b] + IF b \in held THEN charge ELSE 0]
                /\ overrun' = IF charge > amount THEN overrun \cup held ELSE overrun
                /\ dropped' = dropped \cup
                      {b \in held : buckets[b].committed + charge > MaxInt}
        /\ UNCHANGED <<policyWindows, published>>

Commit(r, usage, now) == Finalize(r, usage, TRUE, now) /\ UNCHANGED ticket

AbortConservative(r, now) ==
    Finalize(r, reservation[r].amount, FALSE, now) /\ UNCHANGED ticket

ReleaseBeforeUpstream(r, now) == Finalize(r, 0, FALSE, now) /\ UNCHANGED ticket

CommitDeferred(r, now) ==
    /\ Finalize(r, reservation[r].amount, FALSE, now)
    /\ ticket' = [ticket EXCEPT ![r].state = "live"]

-----------------------------------------------------------------------------
(* Deferred tickets.                                                       *)

Correction(r, usage) == usage - reservation[r].amount

(* Adjust: every live bucket is validated before any is changed; buckets   *)
(* that are gone are not recreated.  The ticket is consumed either way.    *)
Adjust(r, usage, now) ==
    LET delta == Correction(r, usage)
        held  == reservation[r].buckets \cap DOMAIN buckets
        fails == \/ usage < 0
                 \/ \E b \in held : buckets[b].committed + delta \notin 0 .. MaxInt
        upd   == [b \in held |-> [buckets[b] EXCEPT !.committed = @ + delta]]
    IN  /\ ticket[r].state = "live"
        /\ IF fails \/ reservation[r].buckets = {}
           THEN /\ ticket' = [ticket EXCEPT ![r].state = "spent"]
                /\ UNCHANGED <<lastNow, buckets, overrun>>
           ELSE /\ buckets' = DiscardExpired(Store(buckets, upd), now)
                /\ lastNow' = now
                /\ ticket' = [ticket EXCEPT ![r] =
                     IF delta = 0 \/ held = {}
                     THEN [NoTicket EXCEPT !.state = "spent"]
                     ELSE [state |-> "notify", delta |-> delta, owed |-> held]]
                /\ overrun' = IF delta > 0 THEN overrun \cup held ELSE overrun
        /\ UNCHANGED <<policyWindows, published, reservation, sunk, dropped>>

\* Mutant: a second Adjust delivers the notifications of the first again.
NotifyAgain(r) ==
    /\ ticket[r].state = "notify"
    /\ sunk' = [b \in BucketIDs |->
                   sunk[b] + IF b \in ticket[r].owed THEN ticket[r].delta ELSE 0]
    /\ UNCHANGED <<lastNow, buckets, policyWindows, published, reservation, ticket, overrun, dropped>>

(* The notifications of Adjust, delivered after limiter.mu is released.    *)
Notify(r) ==
    /\ ticket[r].state = "notify"
    /\ sunk' = [b \in BucketIDs |->
                   sunk[b] + IF b \in ticket[r].owed THEN ticket[r].delta ELSE 0]
    /\ ticket' = [ticket EXCEPT ![r] = [NoTicket EXCEPT !.state = "spent"]]
    /\ UNCHANGED <<lastNow, buckets, policyWindows, published, reservation, overrun, dropped>>

Invalidate(r) ==
    /\ ticket[r].state = "live"
    /\ ticket' = [ticket EXCEPT ![r].state = "spent"]
    /\ UNCHANGED <<lastNow, buckets, policyWindows, published, reservation, sunk, overrun, dropped>>

-----------------------------------------------------------------------------
(* Policy replacement.                                                     *)

(* allowsPolicyReplacementLocked, after expired buckets are discarded.     *)
ReplacementAllowed(k, new, bs) ==
    \A b \in DOMAIN bs :
        b.key = k /\ b.window \in policyWindows[k] \ new
            => bs[b].committed = 0 /\ bs[b].active = 0

(* ReplacePolicy, with policyMu held from the check through the caller's   *)
(* durable commit to the new identity; oldWindows are the durable ones.    *)
(* One step: what runs meanwhile without policyMu, settlements and Adjust, *)
(* only changes buckets the check would have found in use.                 *)
(* The authentication snapshot that carries `new' is published next.       *)
ReplacePolicy(k, new, now) ==
    LET fresh == DiscardExpired(buckets, now) IN
    /\ ReplacementAllowed(k, new, fresh)
    /\ buckets' = fresh
    /\ lastNow' = now
    /\ policyWindows' = [policyWindows EXCEPT ![k] = new]
    /\ published' = [published EXCEPT ![k] = @ \cup {new}]
    /\ UNCHANGED <<reservation, ticket, sunk, overrun, dropped>>

-----------------------------------------------------------------------------
Next ==
    \/ \E now \in lastNow .. MaxTime :
        \/ Sweep(now)
        \/ RetryAfterSeconds(now)
        \/ \E k \in Keys, new \in WindowSets : ReplacePolicy(k, new, now)
        \/ \E r \in Reservations, k \in Keys, amount \in Amounts :
             \E ws \in published[k] : Reserve(r, k, ws, amount, now)
        \/ \E r \in Reservations :
            \/ \E usage \in Usages : Commit(r, usage, now) \/ Adjust(r, usage, now)
            \/ AbortConservative(r, now)
            \/ ReleaseBeforeUpstream(r, now)
            \/ CommitDeferred(r, now)
    \/ \E r \in Reservations :
        \/ \E k \in Keys : ReserveUnlimited(r, k)
        \/ Notify(r)
        \/ Invalidate(r)

Spec == Init /\ [][Next]_tokenVars

-----------------------------------------------------------------------------
(* Properties.                                                             *)

TypeOK ==
    /\ lastNow \in Times
    /\ DOMAIN buckets \subseteq BucketIDs
    /\ \A b \in DOMAIN buckets : buckets[b] \in [committed: 0 .. MaxInt, active: 0 .. MaxInt]
    /\ policyWindows \in [Keys -> WindowSets]
    /\ published \in [Keys -> SUBSET WindowSets]
    /\ reservation \in [Reservations -> [state: {"free", "open", "final"}, key: Keys,
                                         buckets: SUBSET BucketIDs, amount: 0 .. MaxInt]]
    /\ ticket \in [Reservations -> [state: {"none", "live", "notify", "spent"},
                                    delta: Int, owed: SUBSET BucketIDs]]
    /\ sunk \in [BucketIDs -> Int]
    /\ overrun \subseteq BucketIDs /\ dropped \subseteq BucketIDs

OpenIn(b) == {r \in Reservations : Unsettled(r) /\ b \in reservation[r].buckets}
LiveTicketsIn(b) == {r \in Reservations : ticket[r].state = "live" /\ b \in reservation[r].buckets}
OwedIn(b) == {r \in Reservations : ticket[r].state = "notify" /\ b \in ticket[r].owed}

AmountOf == [r \in Reservations |-> reservation[r].amount]
DeltaOf  == [r \in Reservations |-> ticket[r].delta]

\* b can still be reserved in, or is kept for a reservation.
Current(b) == WindowReset(b) > lastNow \/ b \in DOMAIN buckets

(***************************************************************************)
(* Conservation of reserved capacity: the active count of a bucket is the  *)
(* sum of the unsettled reservations that captured it, whatever windows    *)
(* rolled over, and no bucket with an unsettled reservation is discarded.  *)
(* (Reserve and finalize; "never leave a reservation forever".)            *)
(***************************************************************************)
ActiveExact ==
    \A b \in BucketIDs : Bucket(b).active = SumFunctionOnSet(AmountOf, OpenIn(b))

(***************************************************************************)
(* A bucket never holds more than its window allows, committed and active  *)
(* together, unless some request used more than it had reserved in it (or  *)
(* such usage was loaded).                                                 *)
(***************************************************************************)
WithinWindow ==
    \A b \in DOMAIN buckets \ overrun :
        buckets[b].committed + buckets[b].active <= b.window.amount

(***************************************************************************)
(* A live bucket's committed total covers every outstanding ticket drawn   *)
(* on it, so that a refund by Adjust can always be applied, unless a       *)
(* charge did not fit the integer.                                         *)
(***************************************************************************)
RefundsCovered ==
    \A b \in DOMAIN buckets \ dropped :
        buckets[b].committed >= SumFunctionOnSet(AmountOf, LiveTicketsIn(b))

(***************************************************************************)
(* The running total the sink sees never goes below zero, although refunds *)
(* are delivered outside the lock: the storage layer rejects a row that    *)
(* would, together with its whole batch.                                   *)
(***************************************************************************)
SinkNeverNegative == \A b \in BucketIDs : sunk[b] >= 0

(***************************************************************************)
(* What the sink was told, plus what Adjust still has to tell it, is the   *)
(* committed total of every bucket that has not expired: the durable rows  *)
(* converge to the limiter, and never below zero on the way.  (finalize    *)
(* also tells it of a charge that did not fit the integer and was          *)
(* dropped.)                                                               *)
(***************************************************************************)
SinkAgrees ==
    /\ SinkNeverNegative
    /\ \A b \in BucketIDs \ dropped :
           Current(b) => Bucket(b).committed = sunk[b] + SumFunctionOnSet(DeltaOf, OwedIn(b))

(***************************************************************************)
(* No usage survives a policy replacement in a window the policy dropped:  *)
(* start-up refuses a persisted bucket that matches no policy window.      *)
(***************************************************************************)
UsageHasPolicy ==
    \A b \in DOMAIN buckets : b.window \in policyWindows[b.key]

(***************************************************************************)
(* The limiter's books are exact: every active count is the sum of the     *)
(* reservations open in its bucket, every live ticket can still be         *)
(* refunded, and no usage is left in a window no policy has (Reserve,      *)
(* finalize, Adjust, replacePolicy, discardExpiredLocked).                 *)
(***************************************************************************)
LedgerExact == TypeOK /\ ActiveExact /\ RefundsCovered /\ UsageHasPolicy

(***************************************************************************)
(* A reservation of a key whose published policy has windows is counted in *)
(* a bucket of every one of them from the moment it is admitted (comment   *)
(* of policyWindows: a stale principal is rejected).                       *)
(***************************************************************************)
AdmittedUnderPolicy ==
    [][\A r \in Reservations :
         (reservation[r].state = "free" /\ reservation'[r].state = "open")
            => {b.window : b \in reservation'[r].buckets}
                 = policyWindows[reservation'[r].key]]_tokenVars

(***************************************************************************)
(* The reset a rejection reports is useful: once it has passed, every      *)
(* window of the policy could hold the amount (comment of Reserve).        *)
(***************************************************************************)
ResetIsUseful ==
    \A k \in Keys, amount \in Amounts :
        ResetAt(k, policyWindows[k], amount, lastNow) # 0
            => \A w \in policyWindows[k] : amount <= w.amount
=============================================================================
