----------------------- MODULE ConcurrencyLimiterProofs -----------------------
(***************************************************************************)
(* ConcurrencyLimiter is correct for every finite set of leases, every set *)
(* of keys and every set of limits.                                        *)
(*                                                                         *)
(* SlotsExact is not inductive: it says nothing of state objects that are  *)
(* not allocated yet, nor that a state object belongs to one key.  Heap    *)
(* adds both.                                                              *)
(***************************************************************************)
EXTENDS ConcurrencyLimiter, FiniteSetTheorems, TLAPS

(* An element of Leases that Acquire has not used yet is referenced by     *)
(* nothing, and a state object serves the key of its allocator.            *)
Heap ==
    /\ \A l \in Leases : ~lease[l].admitted =>
            /\ active[l] = 0
            /\ l \notin returning
            /\ \A k \in Keys : states[k] # l
            /\ \A m \in Leases : lease[m].state # l
    /\ \A l \in returning : lease[l].released
    /\ \A k \in Keys : states[k] # NoState => lease[states[k]].keyID = k
    /\ \A l \in Leases : lease[l].admitted /\ lease[l].state # NoState
            => lease[lease[l].state].keyID = lease[l].keyID

IInv == LimiterTypeOK /\ Heap /\ SlotsExact /\ LimitRespected

-----------------------------------------------------------------------------
LEMMA HoldersFinite ==
    \A S \in SUBSET Leases : IsFiniteSet(S) /\ Cardinality(S) \in Nat
  BY ConcurrencyAssumption, FS_Subset, FS_CardinalityType

(* The holders of a key are the holders of its current state object.       *)
LEMMA HoldersAgree ==
    ASSUME IInv, NEW k \in Keys
    PROVE  /\ states[k] # NoState => HoldersFor(k) = HoldersOf(states[k])
           /\ states[k] = NoState => HoldersFor(k) = {}
  <1>1. ASSUME states[k] # NoState, NEW l \in Leases, Holding(l), lease[l].keyID = k
        PROVE  lease[l].state = states[k]
    BY <1>1 DEF IInv, SlotsExact
  <1>2. ASSUME states[k] # NoState, NEW l \in Leases, Holding(l), lease[l].state = states[k]
        PROVE  lease[l].keyID = k
    BY <1>2 DEF IInv, Heap, Holding
  <1>3. ASSUME states[k] = NoState, NEW l \in Leases, Holding(l)
        PROVE  lease[l].keyID # k
    BY <1>3 DEF IInv, SlotsExact, Holding
  <1>. QED  BY <1>1, <1>2, <1>3 DEF HoldersFor, HoldersOf

LEMMA InitIInv == LimiterInit => IInv
  <1>. SUFFICES ASSUME LimiterInit PROVE IInv
    OBVIOUS
  <1>1. FreshLease \in LeaseRecord
    BY ConcurrencyAssumption DEF FreshLease, LeaseRecord
  <1>2. LimiterTypeOK
    BY <1>1 DEF LimiterInit, LimiterTypeOK
  <1>3. \A l \in Leases : ~lease[l].admitted /\ lease[l].state = NoState
    BY DEF LimiterInit, FreshLease
  <1>4. Heap
    BY <1>3, ConcurrencyAssumption DEF LimiterInit, Heap
  <1>5. SlotsExact
    BY <1>3 DEF LimiterInit, SlotsExact, Holding
  <1>6. \A k \in Keys, n \in Limits : GrantedWithin(k, n) = {}
    BY <1>3 DEF GrantedWithin, HoldersFor, Holding
  <1>7. LimitRespected
    BY <1>6, FS_EmptySet, ConcurrencyAssumption DEF LimitRespected
  <1>. QED  BY <1>2, <1>4, <1>5, <1>7 DEF IInv

-----------------------------------------------------------------------------
(* Steps that leave every holder a holder and move no counter.             *)
LEMMA HoldersUnchanged ==
    ASSUME IInv, UNCHANGED <<states, active>>, LimiterTypeOK', Heap',
           \A l \in Leases : Holding(l)' <=> Holding(l),
           \A l \in Leases : Holding(l) =>
                /\ lease'[l].state = lease[l].state
                /\ lease'[l].keyID = lease[l].keyID
                /\ lease'[l].max = lease[l].max
    PROVE  IInv'
  <1>1. \A s \in Leases : HoldersOf(s)' = HoldersOf(s)
    BY DEF HoldersOf
  <1>2. \A k \in Keys, n \in Limits : GrantedWithin(k, n)' = GrantedWithin(k, n)
    BY DEF GrantedWithin, HoldersFor
  <1>3. SlotsExact'
    <2>1. ASSUME NEW k \in Keys, states'[k] # NoState
          PROVE  (/\ active[states[k]] = Cardinality(HoldersOf(states[k]))
                  /\ active[states[k]] > 0)'
      <3>1. HoldersOf(states[k])' = HoldersOf(states[k])
        BY DEF HoldersOf
      <3>. QED  BY <2>1, <3>1 DEF IInv, SlotsExact, LimiterTypeOK
    <2>2. ASSUME NEW l \in Leases, Holding(l)'
          PROVE  states'[lease'[l].keyID] = lease'[l].state
      BY <2>2 DEF IInv, SlotsExact
    <2>. QED  BY <2>1, <2>2 DEF SlotsExact
  <1>4. LimitRespected'
    BY <1>2 DEF IInv, LimitRespected
  <1>. QED  BY <1>3, <1>4 DEF IInv

LEMMA AcquireUnlimitedStep ==
    ASSUME IInv, NEW l \in Leases, NEW k \in Keys, NEW max \in Limits,
           AcquireUnlimited(l, k, max)
    PROVE  IInv'
  <1>1. LimiterTypeOK'
    BY DEF IInv, LimiterTypeOK, AcquireUnlimited, NewLease, LeaseRecord
  <1>2. Heap'
    BY ConcurrencyAssumption DEF IInv, LimiterTypeOK, Heap, AcquireUnlimited, NewLease, LeaseRecord
  <1>3. /\ \A m \in Leases : Holding(m)' <=> Holding(m)
        /\ \A m \in Leases : Holding(m) => lease'[m] = lease[m]
    BY DEF IInv, LimiterTypeOK, AcquireUnlimited, NewLease, Holding
  <1>. QED  BY <1>1, <1>2, <1>3, HoldersUnchanged DEF AcquireUnlimited

LEMMA MarkReleasedStep ==
    ASSUME IInv, NEW l \in Leases, Release(l) \/ ReleaseOwned(l)
    PROVE  IInv'
  <1>. USE DEF Release, ReleaseOwned
  <1>1. LimiterTypeOK'
    <2>1. lease[l] \in LeaseRecord
      BY DEF IInv, LimiterTypeOK
    <2>2. [lease[l] EXCEPT !.released = TRUE] \in LeaseRecord
      BY <2>1 DEF LeaseRecord
    <2>3. lease' = [lease EXCEPT ![l] = [lease[l] EXCEPT !.released = TRUE]]
      OBVIOUS
    <2>4. lease' \in [Leases -> LeaseRecord]
      BY <2>2, <2>3 DEF IInv, LimiterTypeOK
    <2>. QED  BY <2>4 DEF IInv, LimiterTypeOK
  <1>2. Heap'
    BY DEF IInv, LimiterTypeOK, Heap, LeaseRecord
  <1>3. /\ \A m \in Leases : Holding(m)' <=> Holding(m)
        /\ \A m \in Leases : /\ lease'[m].state = lease[m].state
                             /\ lease'[m].keyID = lease[m].keyID
                             /\ lease'[m].max = lease[m].max
    BY DEF IInv, LimiterTypeOK, LeaseRecord, Holding
  <1>. QED  BY <1>1, <1>2, <1>3, HoldersUnchanged

LEMMA AdoptStep ==
    ASSUME IInv, NEW l \in Leases, NEW k \in Keys, NEW requireSlot \in BOOLEAN,
           AdoptFor(l, k, requireSlot)
    PROVE  IInv'
  <1>. USE DEF AdoptFor
  <1>1. LimiterTypeOK'
    BY DEF IInv, LimiterTypeOK, LeaseRecord
  <1>2. Heap'
    BY DEF IInv, LimiterTypeOK, Heap, LeaseRecord
  <1>3. /\ \A m \in Leases : Holding(m)' <=> Holding(m)
        /\ \A m \in Leases : /\ lease'[m].state = lease[m].state
                             /\ lease'[m].keyID = lease[m].keyID
                             /\ lease'[m].max = lease[m].max
    BY DEF IInv, LimiterTypeOK, LeaseRecord, Holding
  <1>. QED  BY <1>1, <1>2, <1>3, HoldersUnchanged

-----------------------------------------------------------------------------
(* A granted slot adds the new lease to the holders of one state object.   *)
LEMMA AcquireSlotStep ==
    ASSUME IInv, NEW l \in Leases, NEW k \in Keys, NEW max \in Limits,
           AcquireSlot(l, k, max)
    PROVE  IInv'
  <1>0. PICK s \in Leases :
        /\ s = IF states[k] = NoState THEN l ELSE states[k]
        /\ s # NoState
        /\ ~lease[l].admitted
        /\ states' = [states EXCEPT ![k] = s]
        /\ active' = [active EXCEPT ![s] = @ + 1]
        /\ lease'  = [lease EXCEPT ![l] = NewLease(k, max, s)]
        /\ returning' = returning
    BY ConcurrencyAssumption DEF AcquireSlot, IInv, LimiterTypeOK
  <1>1. LimiterTypeOK'
    BY <1>0 DEF IInv, LimiterTypeOK, NewLease, LeaseRecord
  <1>2. /\ lease'[l].admitted /\ ~lease'[l].released
        /\ lease'[l].keyID = k /\ lease'[l].state = s /\ lease'[l].max = max
        /\ \A m \in Leases : m # l => lease'[m] = lease[m]
    BY <1>0 DEF IInv, LimiterTypeOK, NewLease
  <1>3. /\ Holding(l)' /\ ~Holding(l)
        /\ \A m \in Leases : m # l => (Holding(m)' <=> Holding(m))
    BY <1>0, <1>2 DEF Holding
  <1>4. Heap'
    <2>1. \A m \in Leases : ~lease'[m].admitted => m # l /\ m # s
      BY <1>2, <1>0 DEF IInv, Heap
    <2>2. s # l => lease[s].keyID = k /\ lease'[s] = lease[s]
      BY <1>0, <1>2 DEF IInv, Heap
    <2>3. lease'[s].keyID = k
      BY <1>2, <2>2
    <2>4. ASSUME NEW m \in Leases, lease'[m].admitted, lease'[m].state # NoState
          PROVE  lease'[lease'[m].state].keyID = lease'[m].keyID
      <3>1. CASE m = l
        BY <3>1, <2>3, <1>2
      <3>2. CASE m # l
        <4>1. lease[m].state # l
          BY <1>0 DEF IInv, Heap
        <4>2. lease[m].state \in Leases
          BY <3>2, <2>4, <1>2 DEF IInv, LimiterTypeOK, LeaseRecord
        <4>. QED  BY <3>2, <2>4, <1>2, <4>1, <4>2 DEF IInv, Heap
      <3>. QED  BY <3>1, <3>2
    <2>5. ASSUME NEW j \in Keys, states'[j] # NoState
          PROVE  lease'[states'[j]].keyID = j
      <3>1. CASE j = k
        BY <3>1, <2>3, <1>0 DEF IInv, LimiterTypeOK
      <3>2. CASE j # k
        <4>1. states'[j] = states[j] /\ states[j] # l /\ states[j] \in Leases
          BY <3>2, <1>0, <2>5 DEF IInv, LimiterTypeOK, Heap
        <4>. QED  BY <4>1, <1>2, <2>5 DEF IInv, Heap
      <3>. QED  BY <3>1, <3>2
    <2>6. ASSUME NEW m \in Leases, ~lease'[m].admitted
          PROVE  /\ active'[m] = 0
                 /\ m \notin returning'
                 /\ \A j \in Keys : states'[j] # m
                 /\ \A n \in Leases : lease'[n].state # m
      <3>1. m # l /\ m # s /\ ~lease[m].admitted
        BY <2>6, <2>1, <1>2
      <3>. QED  BY <3>1, <1>0, <1>2 DEF IInv, LimiterTypeOK, Heap
    <2>7. \A m \in returning' : lease'[m].released
      BY <1>0, <1>2 DEF IInv, LimiterTypeOK, Heap
    <2>. QED  BY <2>4, <2>5, <2>6, <2>7 DEF Heap
  <1>5. /\ HoldersOf(s)' = HoldersOf(s) \cup {l}
        /\ l \notin HoldersOf(s)
        /\ \A t \in Leases : t # s => HoldersOf(t)' = HoldersOf(t)
    BY <1>2, <1>3 DEF HoldersOf
  <1>6. active[s] = Cardinality(HoldersOf(s)) /\ active[s] < max
    <2>1. CASE states[k] = NoState
      <3>1. HoldersOf(s) = {}
        BY <2>1, <1>0 DEF IInv, Heap, HoldersOf
      <3>2. active[s] = 0
        BY <2>1, <1>0 DEF IInv, Heap
      <3>. QED  BY <3>1, <3>2, FS_EmptySet, ConcurrencyAssumption DEF AcquireSlot
    <2>2. CASE states[k] # NoState
      BY <2>2, <1>0 DEF IInv, SlotsExact, AcquireSlot, HasCapacity
    <2>. QED  BY <2>1, <2>2
  <1>7. /\ IsFiniteSet(HoldersOf(s)) /\ Cardinality(HoldersOf(s)) \in Nat
        /\ Cardinality(HoldersOf(s)') = Cardinality(HoldersOf(s)) + 1
    BY <1>5, HoldersFinite, FS_AddElement DEF HoldersOf
  <1>8. SlotsExact'
    <2>1. ASSUME NEW j \in Keys, states'[j] # NoState
          PROVE  (/\ active[states[j]] = Cardinality(HoldersOf(states[j]))
                  /\ active[states[j]] > 0)'
      <3>1. CASE states'[j] = s
        <4>1. HoldersOf(states[j])' = HoldersOf(s)'
          BY <3>1 DEF HoldersOf
        <4>. QED  BY <3>1, <4>1, <1>0, <1>6, <1>7 DEF IInv, LimiterTypeOK
      <3>2. CASE states'[j] # s
        <4>1. states'[j] = states[j] /\ states[j] \in Leases
          BY <3>2, <2>1, <1>0 DEF IInv, LimiterTypeOK
        <4>2. HoldersOf(states[j])' = HoldersOf(states[j])
          BY <4>1, <3>2, <1>2, <1>3 DEF HoldersOf
        <4>. QED  BY <4>1, <4>2, <3>2, <2>1, <1>0 DEF IInv, LimiterTypeOK, SlotsExact
      <3>. QED  BY <3>1, <3>2
    <2>2. ASSUME NEW m \in Leases, Holding(m)'
          PROVE  states'[lease'[m].keyID] = lease'[m].state
      <3>1. CASE m = l
        BY <3>1, <1>0, <1>2 DEF IInv, LimiterTypeOK
      <3>2. CASE m # l
        <4>1. states[lease[m].keyID] = lease[m].state /\ lease[m].state # NoState
          BY <3>2, <2>2, <1>3 DEF IInv, SlotsExact, Holding
        <4>2. lease[m].keyID = k => s = states[k]
          BY <4>1, <1>0
        <4>. QED  BY <4>1, <4>2, <3>2, <1>0, <1>2 DEF IInv, LimiterTypeOK
      <3>. QED  BY <3>1, <3>2
    <2>. QED  BY <2>1, <2>2 DEF SlotsExact
  <1>9. LimitRespected'
    <2>. SUFFICES ASSUME NEW j \in Keys, NEW n \in Limits
                  PROVE  Cardinality(GrantedWithin(j, n)') <= n
      BY DEF LimitRespected
    <2>1. CASE j = k /\ max <= n
      <3>1. GrantedWithin(j, n)' \subseteq HoldersFor(k)'
        BY <2>1 DEF GrantedWithin
      <3>2. HoldersFor(k)' \subseteq HoldersOf(s)'
        <4>1. \A m \in Leases : Holding(m)' /\ lease'[m].keyID = k => lease'[m].state = s
          BY <1>8, <1>0 DEF SlotsExact, IInv, LimiterTypeOK
        <4>. QED  BY <4>1 DEF HoldersFor, HoldersOf
      <3>3. IsFiniteSet(HoldersOf(s)')
        BY HoldersFinite DEF HoldersOf
      <3>4. Cardinality(GrantedWithin(j, n)') <= Cardinality(HoldersOf(s)')
        BY <3>1, <3>2, <3>3, FS_Subset
      <3>5. Cardinality(GrantedWithin(j, n)') \in Nat
        BY HoldersFinite DEF GrantedWithin, HoldersFor
      <3>. QED  BY <3>4, <3>5, <1>6, <1>7, <2>1, ConcurrencyAssumption
    <2>2. CASE ~(j = k /\ max <= n)
      <3>1. GrantedWithin(j, n)' = GrantedWithin(j, n)
        BY <2>2, <1>2, <1>3 DEF GrantedWithin, HoldersFor
      <3>. QED  BY <3>1 DEF IInv, LimitRespected
    <2>. QED  BY <2>1, <2>2
  <1>. QED  BY <1>1, <1>4, <1>8, <1>9 DEF IInv

-----------------------------------------------------------------------------
(* Returning a slot removes one holder of the current state object; the    *)
(* object leaves the map with its last holder.                             *)
LEMMA ReleaseSlotStep ==
    ASSUME IInv, NEW l \in Leases, ReleaseSlot(l)
    PROVE  IInv'
  <1>1. PICK s \in Leases \cup {NoState} : s = lease[l].state
    BY DEF IInv, LimiterTypeOK, LeaseRecord
  <1>2. PICK k \in Keys : k = lease[l].keyID
    BY DEF IInv, LimiterTypeOK, LeaseRecord
  <1>3. /\ l \in returning /\ returning' = returning \ {l} /\ lease' = lease
        /\ lease[l].admitted /\ lease[l].released
    BY DEF ReleaseSlot, IInv, Heap
  <1>4. /\ ~Holding(l)'
        /\ \A m \in Leases : m # l => (Holding(m)' <=> Holding(m))
        /\ s # NoState => Holding(l)
    BY <1>1, <1>3 DEF Holding
  <1>5. CASE s = NoState
    <2>1. UNCHANGED <<states, active>>
      BY <1>5, <1>1 DEF ReleaseSlot, SlotReturned
    <2>2. LimiterTypeOK' /\ Heap'
      BY <1>3, <2>1 DEF IInv, LimiterTypeOK, Heap
    <2>3. \A m \in Leases : Holding(m)' <=> Holding(m)
      BY <1>4, <1>5, <1>1 DEF Holding
    <2>. QED  BY <1>3, <2>1, <2>2, <2>3, HoldersUnchanged
  <1>6. CASE s # NoState
    <2>1. s \in Leases /\ states[k] = s /\ active[s] > 0 /\ active[s] \in Nat
          /\ active[s] = Cardinality(HoldersOf(s))
      BY <1>1, <1>2, <1>4, <1>6 DEF IInv, SlotsExact, LimiterTypeOK
    <2>2. /\ active' = [active EXCEPT ![s] = active[s] - 1]
          /\ states' = IF active[s] - 1 = 0 THEN [states EXCEPT ![k] = NoState] ELSE states
      BY <1>1, <1>2, <1>6, <2>1 DEF ReleaseSlot, SlotReturned
    <2>3. LimiterTypeOK'
      BY <1>3, <2>1, <2>2 DEF IInv, LimiterTypeOK
    <2>4. Heap'
      <3>1. lease[s].admitted
        BY <1>1, <1>3, <2>1 DEF IInv, Heap
      <3>2. \A j \in Keys : states'[j] = states[j] \/ states'[j] = NoState
        BY <2>2 DEF IInv, LimiterTypeOK
      <3>3. \A m \in Leases : m # s => active'[m] = active[m]
        BY <2>2 DEF IInv, LimiterTypeOK
      <3>. QED  BY <1>3, <3>1, <3>2, <3>3, ConcurrencyAssumption DEF IInv, LimiterTypeOK, Heap
    <2>5. /\ HoldersOf(s)' = HoldersOf(s) \ {l}
          /\ l \in HoldersOf(s)
          /\ \A t \in Leases : t # s => HoldersOf(t)' = HoldersOf(t)
      BY <1>1, <1>3, <1>4, <1>6 DEF HoldersOf
    <2>6. /\ IsFiniteSet(HoldersOf(s)) /\ Cardinality(HoldersOf(s)) \in Nat
          /\ Cardinality(HoldersOf(s)') = Cardinality(HoldersOf(s)) - 1
      <3>1. HoldersOf(s) \in SUBSET Leases
        BY DEF HoldersOf
      <3>. QED  BY <3>1, <2>5, HoldersFinite, FS_RemoveElement
    <2>7. \A j \in Keys : states[j] = s => j = k
      BY <1>1, <1>2, <1>3, <2>1, <1>6 DEF IInv, Heap
    <2>8. SlotsExact'
      <3>1. ASSUME NEW j \in Keys, states'[j] # NoState
            PROVE  (/\ active[states[j]] = Cardinality(HoldersOf(states[j]))
                    /\ active[states[j]] > 0)'
        <4>1. states'[j] = states[j] /\ states[j] \in Leases
          BY <3>1, <2>2 DEF IInv, LimiterTypeOK
        <4>2. CASE states[j] = s
          <5>1. active[s] - 1 # 0
            BY <4>2, <2>7, <2>2, <3>1 DEF IInv, LimiterTypeOK
          <5>2. HoldersOf(states[j])' = HoldersOf(s)'
            BY <4>1, <4>2 DEF HoldersOf
          <5>. QED  BY <5>1, <5>2, <4>1, <4>2, <2>1, <2>2, <2>6 DEF IInv, LimiterTypeOK
        <4>3. CASE states[j] # s
          <5>1. HoldersOf(states[j])' = HoldersOf(states[j])
            BY <4>1, <4>3, <1>1, <1>3, <1>4 DEF HoldersOf
          <5>. QED  BY <5>1, <4>1, <4>3, <3>1, <2>2 DEF IInv, LimiterTypeOK, SlotsExact
        <4>. QED  BY <4>2, <4>3
      <3>2. ASSUME NEW m \in Leases, Holding(m)'
            PROVE  states'[lease'[m].keyID] = lease'[m].state
        <4>1. m # l /\ Holding(m) /\ states[lease[m].keyID] = lease[m].state
          BY <3>2, <1>4 DEF IInv, SlotsExact
        <4>2. CASE active[s] - 1 = 0 /\ lease[m].keyID = k
          <5>1. m \in HoldersOf(s)'
            BY <4>1, <4>2, <3>2, <2>1, <1>3 DEF HoldersOf
          <5>2. HoldersOf(s)' # {} /\ IsFiniteSet(HoldersOf(s)')
            BY <5>1, HoldersFinite DEF HoldersOf
          <5>. QED  BY <5>2, <2>6, <2>1, <4>2, FS_EmptySet
        <4>3. CASE ~(active[s] - 1 = 0 /\ lease[m].keyID = k)
          BY <4>1, <4>3, <2>2, <1>3 DEF IInv, LimiterTypeOK, LeaseRecord
        <4>. QED  BY <4>2, <4>3
      <3>. QED  BY <3>1, <3>2 DEF SlotsExact
    <2>9. LimitRespected'
      <3>. SUFFICES ASSUME NEW j \in Keys, NEW n \in Limits
                    PROVE  Cardinality(GrantedWithin(j, n)') <= n
        BY DEF LimitRespected
      <3>1. GrantedWithin(j, n)' \subseteq GrantedWithin(j, n)
        BY <1>3, <1>4 DEF GrantedWithin, HoldersFor
      <3>2. /\ IsFiniteSet(GrantedWithin(j, n))
            /\ Cardinality(GrantedWithin(j, n)) \in Nat
            /\ Cardinality(GrantedWithin(j, n)') \in Nat
        BY HoldersFinite DEF GrantedWithin, HoldersFor
      <3>3. Cardinality(GrantedWithin(j, n)') <= Cardinality(GrantedWithin(j, n))
        BY <3>1, <3>2, FS_Subset
      <3>. QED  BY <3>2, <3>3, ConcurrencyAssumption DEF IInv, LimitRespected
    <2>. QED  BY <2>3, <2>4, <2>8, <2>9 DEF IInv
  <1>. QED  BY <1>5, <1>6, <1>1

-----------------------------------------------------------------------------
LEMMA NextIInv == IInv /\ [LimiterNext]_concurrencyVars => IInv'
  <1>. SUFFICES ASSUME IInv, [LimiterNext]_concurrencyVars PROVE IInv'
    OBVIOUS
  <1>1. ASSUME NEW l \in Leases, NEW k \in Keys, NEW max \in Limits, Acquire(l, k, max)
        PROVE  IInv'
    BY <1>1, AcquireUnlimitedStep, AcquireSlotStep DEF Acquire
  <1>2. ASSUME NEW l \in Leases, Release(l) \/ ReleaseOwned(l)
        PROVE  IInv'
    BY <1>2, MarkReleasedStep
  <1>3. ASSUME NEW l \in Leases, NEW k \in Keys, NEW r \in BOOLEAN, AdoptFor(l, k, r)
        PROVE  IInv'
    BY <1>3, AdoptStep
  <1>4. ASSUME NEW l \in Leases, ReleaseSlot(l)
        PROVE  IInv'
    BY <1>4, ReleaseSlotStep
  <1>5. CASE UNCHANGED concurrencyVars
    <2>1. LimiterTypeOK' /\ Heap'
      BY <1>5 DEF concurrencyVars, IInv, LimiterTypeOK, Heap
    <2>2. \A m \in Leases : Holding(m)' <=> Holding(m)
      BY <1>5 DEF concurrencyVars, Holding
    <2>. QED  BY <1>5, <2>1, <2>2, HoldersUnchanged DEF concurrencyVars
  <1>. QED  BY <1>1, <1>2, <1>3, <1>4, <1>5 DEF LimiterNext

(* In every reachable state the heap of state objects is well formed, the  *)
(* counters are exact and the limits hold.                                 *)
THEOREM InductiveInvariant == LimiterSpec => []IInv
  BY InitIInv, NextIInv, PTL DEF LimiterSpec

(* Every reachable state of the limiter is well typed.                     *)
THEOREM TypeCorrect == LimiterSpec => []LimiterTypeOK
  <1>1. IInv => LimiterTypeOK
    BY DEF IInv
  <1>. QED  BY <1>1, InductiveInvariant, PTL

(* releaseSlot's pointer comparison neither leaks nor double-frees a slot: *)
(* the counter of a key's state object is the number of its live leases.   *)
THEOREM CounterIsExact == LimiterSpec => []SlotsExact
  <1>1. IInv => SlotsExact
    BY DEF IInv
  <1>. QED  BY <1>1, InductiveInvariant, PTL

(* Acquire never lets a key run more requests than the limits it was given *)
(* allow, even when those limits change while requests are running.        *)
THEOREM LimitNeverExceeded == LimiterSpec => []LimitRespected
  <1>1. IInv => LimitRespected
    BY DEF IInv
  <1>. QED  BY <1>1, InductiveInvariant, PTL
=============================================================================
