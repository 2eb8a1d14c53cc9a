------------------------- MODULE ConcurrencyLimiter -------------------------
(***************************************************************************)
(* The per-key concurrency limiter of internal/limiter/concurrency.go.     *)
(*                                                                         *)
(* A lease is a Go heap object handed out by Acquire; an element of Leases *)
(* is used for one such object and never reused.  The limiter's map holds  *)
(* a POINTER to a concurrencyState, and a released lease compares that     *)
(* pointer before it touches the counter.  A state object is named here by *)
(* the lease whose Acquire allocated it, so that two states of one key are *)
(* different objects, as in the code.                                      *)
(*                                                                         *)
(* Releasing is two critical sections: the lease is marked released under  *)
(* lease.mu, and the slot is returned later under limiter.mu.  `returning' *)
(* holds the leases whose goroutine is between the two.                    *)
(***************************************************************************)
EXTENDS Integers, FiniteSets

CONSTANTS
    Keys,     \* stable gateway key IDs
    Leases,   \* lease objects, each used once
    Limits,   \* the values max_concurrency takes over time; 0 is unlimited
    NoState   \* the nil *concurrencyState

ASSUME ConcurrencyAssumption ==
    /\ IsFiniteSet(Leases)
    /\ NoState \notin Leases
    /\ Keys # {}
    /\ Limits \subseteq Nat /\ Limits # {}

VARIABLES
    states,    \* limiter.states: key -> pointer to its state object, or nil
    active,    \* the active field of each state object
    lease,     \* the fields of each lease object
    returning  \* leases between `released = true' and releaseSlot

concurrencyVars == <<states, active, lease, returning>>

(***************************************************************************)
(* `max' is not a field of the Go struct: it is the limit the caller gave  *)
(* to Acquire, remembered so that properties can speak of it.              *)
(***************************************************************************)
LeaseRecord ==
    [admitted: BOOLEAN, released: BOOLEAN, claimed: BOOLEAN,
     keyID: Keys, state: Leases \cup {NoState}, max: Limits]

FreshLease ==
    [admitted |-> FALSE, released |-> FALSE, claimed |-> FALSE,
     keyID |-> CHOOSE k \in Keys : TRUE, state |-> NoState,
     max |-> CHOOSE m \in Limits : TRUE]

LimiterInit ==
    /\ states = [k \in Keys |-> NoState]
    /\ active = [l \in Leases |-> 0]
    /\ lease = [l \in Leases |-> FreshLease]
    /\ returning = {}

NewLease(k, max, s) ==
    [admitted |-> TRUE, released |-> FALSE, claimed |-> FALSE,
     keyID |-> k, state |-> s, max |-> max]

-----------------------------------------------------------------------------
(* Acquire.  A rejection (active >= max) changes nothing, so only the      *)
(* admitting outcomes are steps.                                           *)

AcquireUnlimited(l, k, max) ==
    /\ ~lease[l].admitted
    /\ max = 0
    /\ lease' = [lease EXCEPT ![l] = NewLease(k, max, NoState)]
    /\ UNCHANGED <<states, active, returning>>

\* Mutant of HasCapacity: <= where the code has <.
HasCapacityOffByOne(k, max) == states[k] # NoState => active[states[k]] <= max

HasCapacity(k, max) == states[k] # NoState => active[states[k]] < max

AcquireSlot(l, k, max) ==
    /\ ~lease[l].admitted
    /\ max > 0
    /\ HasCapacity(k, max)
    /\ LET s == IF states[k] = NoState THEN l ELSE states[k] IN
        /\ states' = [states EXCEPT ![k] = s]
        /\ active' = [active EXCEPT ![s] = @ + 1]
        /\ lease'  = [lease EXCEPT ![l] = NewLease(k, max, s)]
    /\ UNCHANGED returning

Acquire(l, k, max) == AcquireUnlimited(l, k, max) \/ AcquireSlot(l, k, max)

-----------------------------------------------------------------------------
(* Release, by the holder of a provisional lease: a no-op once claimed.    *)
Release(l) ==
    /\ lease[l].admitted
    /\ ~lease[l].released
    /\ ~lease[l].claimed
    /\ lease' = [lease EXCEPT ![l].released = TRUE]
    /\ returning' = returning \cup {l}
    /\ UNCHANGED <<states, active>>

(* What adoptFor demands of a lease that already has a slot: the key it    *)
(* was acquired for, and that its state object is still the current one.   *)
SlotIsLive(l, k) ==
    /\ lease[l].keyID = k
    /\ lease[l].state # NoState
    /\ states[k] = lease[l].state
    /\ active[lease[l].state] > 0

(* adoptFor transfers a provisional lease to a composite request lease.    *)
Adoptable(l, k, requireSlot) ==
    /\ lease[l].admitted
    /\ ~lease[l].released
    /\ ~lease[l].claimed
    /\ IF lease[l].state = NoState
          THEN ~requireSlot /\ lease[l].keyID = k
          ELSE SlotIsLive(l, k)

AdoptFor(l, k, requireSlot) ==
    /\ Adoptable(l, k, requireSlot)
    /\ lease' = [lease EXCEPT ![l].claimed = TRUE]
    /\ UNCHANGED <<states, active, returning>>

(* releaseOwned, by the composite lease; it ignores `claimed'.             *)
ReleaseOwned(l) ==
    /\ lease[l].admitted
    /\ ~lease[l].released
    /\ lease' = [lease EXCEPT ![l].released = TRUE]
    /\ returning' = returning \cup {l}
    /\ UNCHANGED <<states, active>>

(* releaseSlot: the second critical section.  A state other than the       *)
(* current one of its key is left alone.                                   *)
\* Mutant of SlotReturned: the map entry goes with the first slot returned.
SlotReturnedDropsEntry(l) ==
    LET s == lease[l].state IN
    IF s # NoState
    THEN /\ active' = [active EXCEPT ![s] = IF @ > 0 THEN @ - 1 ELSE 0]
         /\ states' = [states EXCEPT ![lease[l].keyID] = NoState]
    ELSE UNCHANGED <<states, active>>

SlotReturned(l) ==
    LET s == lease[l].state
        k == lease[l].keyID
        left == IF active[s] > 0 THEN active[s] - 1 ELSE 0
    IN  IF s # NoState /\ states[k] = s
        THEN /\ active' = [active EXCEPT ![s] = left]
             /\ states' = IF left = 0 THEN [states EXCEPT ![k] = NoState] ELSE states
        ELSE UNCHANGED <<states, active>>

ReleaseSlot(l) ==
    /\ l \in returning
    /\ returning' = returning \ {l}
    /\ SlotReturned(l)
    /\ UNCHANGED lease

-----------------------------------------------------------------------------
LimiterNext ==
    \E l \in Leases :
        \/ \E k \in Keys, max \in Limits : Acquire(l, k, max)
        \/ Release(l)
        \/ \E k \in Keys, requireSlot \in BOOLEAN : AdoptFor(l, k, requireSlot)
        \/ ReleaseOwned(l)
        \/ ReleaseSlot(l)

LimiterSpec == LimiterInit /\ [][LimiterNext]_concurrencyVars
-----------------------------------------------------------------------------
(* Properties.                                                             *)

LimiterTypeOK ==
    /\ states \in [Keys -> Leases \cup {NoState}]
    /\ active \in [Leases -> Nat]
    /\ lease \in [Leases -> LeaseRecord]
    /\ returning \in SUBSET Leases

(* A lease whose slot has not gone back to the limiter yet.                *)
Holding(l) ==
    /\ lease[l].admitted
    /\ lease[l].state # NoState
    /\ lease[l].released => l \in returning

HoldersOf(s) == {l \in Leases : Holding(l) /\ lease[l].state = s}

HoldersFor(k) == {l \in Leases : Holding(l) /\ lease[l].keyID = k}

GrantedWithin(k, n) == {l \in HoldersFor(k) : lease[l].max <= n}

(***************************************************************************)
(* The counter of the current state of a key is exactly the number of      *)
(* leases that still hold a slot of it, it is never a retained zero, and   *)
(* no lease holds a slot of a state that the map has already dropped: the  *)
(* pointer comparison of releaseSlot never leaks a slot.                   *)
(***************************************************************************)
SlotsExact ==
    /\ \A k \in Keys : states[k] # NoState =>
            /\ active[states[k]] = Cardinality(HoldersOf(states[k]))
            /\ active[states[k]] > 0
    /\ \A l \in Leases : Holding(l) => states[lease[l].keyID] = lease[l].state

(***************************************************************************)
(* However a key's max_concurrency changes while its requests run, at most *)
(* n of the slots held at one time were granted under a limit of n or      *)
(* less.                                                                   *)
(***************************************************************************)
LimitRespected ==
    \A k \in Keys, n \in Limits :
        Cardinality(GrantedWithin(k, n)) <= n
=============================================================================
