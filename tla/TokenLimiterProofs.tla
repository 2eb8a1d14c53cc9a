------------------------- MODULE TokenLimiterProofs -------------------------
(***************************************************************************)
(* The token ledger is exact for any number of keys, windows and           *)
(* reservations, any estimates and usages and any run of the clock.        *)
(*                                                                         *)
(* LedgerExact, SinkAgrees and WithinWindow are not inductive.  IInv adds  *)
(* that a ticket belongs to a settled reservation and never refunds more   *)
(* than was charged, that the map holds no empty bucket, that outstanding  *)
(* tickets are covered in every bucket that may be charged again, present  *)
(* or not, and that the sink was told of every charge that an outstanding  *)
(* ticket may take back: without the last a late refund could overtake     *)
(* the charges of others.                                                  *)
(***************************************************************************)
EXTENDS TokenLimiter, SumTheorems

Refundable(b) == LiveTicketsIn(b) \cup OwedIn(b)

(* The life of a reservation and of its ticket.                            *)
Lives ==
    \A r \in Reservations :
        /\ reservation[r].state = "free" => reservation[r].buckets = {}
        /\ reservation[r].state # "free" => reservation[r].amount \in Amounts
        /\ ticket[r].state # "none" => reservation[r].state = "final"
        /\ ticket[r].state = "notify" =>
               /\ ticket[r].owed \subseteq reservation[r].buckets
               /\ ticket[r].delta + reservation[r].amount >= 0

NoEmptyBucket == \A b \in DOMAIN buckets : buckets[b] # EmptyBucket

TicketsCovered ==
    \A b \in BucketIDs \ dropped : Current(b) =>
        Bucket(b).committed >= SumFunctionOnSet(AmountOf, LiveTicketsIn(b))

SinkCovers ==
    \A b \in BucketIDs : sunk[b] >= SumFunctionOnSet(AmountOf, Refundable(b))

SinkExact ==
    \A b \in BucketIDs \ dropped :
        Current(b) => Bucket(b).committed = sunk[b] + SumFunctionOnSet(DeltaOf, OwedIn(b))

IInv == /\ TypeOK /\ Lives /\ NoEmptyBucket /\ ActiveExact /\ UsageHasPolicy
        /\ TicketsCovered /\ SinkCovers /\ SinkExact /\ WithinWindow

-----------------------------------------------------------------------------
(* Facts about the operators.                                              *)

BucketRecord == [committed : 0 .. MaxInt, active : 0 .. MaxInt]

\* The value of b in the map bs.
Val(bs, b) == IF b \in DOMAIN bs THEN bs[b] ELSE EmptyBucket

(* The content of a bucket is its stored value, or the empty bucket.       *)
LEMMA BucketIsVal == \A b : Bucket(b) = Val(buckets, b)
  BY DEF Bucket, Val

(* The remainder of a division is below the divisor.                       *)
LEMMA ModuloRange == \A t \in Nat, d \in Nat \ {0} : t % d \in 0 .. d - 1
  OBVIOUS

(* The bucket of a window at an instant is an identity, and it has not     *)
(* expired then.                                                           *)
LEMMA BucketAtFacts ==
    ASSUME NEW k \in Keys, NEW w \in Windows, NEW now \in Times
    PROVE  /\ BucketAt(k, w, now) \in BucketIDs
           /\ WindowReset(BucketAt(k, w, now)) > now
  <1>1. now \in Nat /\ w.duration \in Nat \ {0}
    BY TokenAssumption DEF Times
  <1>2. now % w.duration \in 0 .. w.duration - 1
    BY <1>1, ModuloRange
  <1>3. BucketAt(k, w, now) \in BucketIDs
    BY DEF BucketIDs
  <1>4. WindowReset(BucketAt(k, w, now)) = now - (now % w.duration) + w.duration
    BY DEF WindowReset, BucketAt, FixedWindowStart
  <1>. QED  BY <1>1, <1>2, <1>3, <1>4

(* A bucket names a key and one of the windows, and resets at a time.      *)
LEMMA BucketIDFacts ==
    ASSUME NEW b \in BucketIDs
    PROVE  /\ WindowReset(b) \in Nat /\ b.key \in Keys /\ b.window \in Windows
           /\ b.window.amount \in 1 .. MaxInt
  <1>1. PICK k \in Keys, w \in Windows, t \in Times : b = BucketAt(k, w, t)
    BY DEF BucketIDs
  <1>2. t \in Nat /\ w.duration \in Nat \ {0} /\ w.amount \in 1 .. MaxInt
    BY TokenAssumption DEF Times
  <1>3. t % w.duration \in 0 .. w.duration - 1
    BY <1>2, ModuloRange
  <1>4. WindowReset(b) = t - (t % w.duration) + w.duration /\ b.key = k /\ b.window = w
    BY <1>1 DEF WindowReset, BucketAt, FixedWindowStart
  <1>5. t - (t % w.duration) + w.duration > t
    BY <1>2, <1>3
  <1>. QED  BY <1>2, <1>3, <1>4, <1>5

(* Discarding drops buckets whose window has ended and that hold nothing.  *)
LEMMA DiscardFacts ==
    ASSUME NEW bs, \A b \in DOMAIN bs : bs[b] \in BucketRecord,
           NEW now \in Nat, NEW b \in BucketIDs
    PROVE  LET d == DiscardExpired(bs, now) IN
           /\ Val(d, b).active = Val(bs, b).active
           /\ b \in DOMAIN d => b \in DOMAIN bs /\ d[b] = bs[b]
           /\ WindowReset(b) > now \/ b \in DOMAIN d =>
                  Val(d, b) = Val(bs, b) /\ (b \in DOMAIN bs => b \in DOMAIN d)
  <1>1. \A x \in DOMAIN bs : bs[x].active \in Nat
    BY TokenAssumption DEF BucketRecord
  <1>2. WindowReset(b) \in Nat
    BY BucketIDFacts
  <1>. QED  BY <1>1, <1>2 DEF DiscardExpired, Val, EmptyBucket

(* Storing buckets changes those buckets, and never stores an empty one.   *)
LEMMA StoreFacts ==
    ASSUME NEW bs, NEW upd, NEW b
    PROVE  LET s == Store(bs, upd) IN
           /\ Val(s, b) = IF b \in DOMAIN upd THEN upd[b] ELSE Val(bs, b)
           /\ b \in DOMAIN s => s[b] = Val(s, b) /\ b \in DOMAIN bs \cup DOMAIN upd
           /\ b \in DOMAIN s /\ b \in DOMAIN upd => upd[b] # EmptyBucket
           /\ b \in DOMAIN bs \ DOMAIN upd => b \in DOMAIN s
  BY DEF Store, Val

(* Every set of reservations is finite.                                    *)
LEMMA SetsFinite == \A S \in SUBSET Reservations : IsFiniteSet(S)
  BY TokenAssumption, FS_Subset

(* The counters of any bucket are ints.                                    *)
LEMMA BucketType ==
    ASSUME TypeOK, NEW b
    PROVE  Bucket(b) \in BucketRecord /\ Bucket(b).committed \in 0 .. MaxInt
           /\ Bucket(b).active \in 0 .. MaxInt
  BY TokenAssumption DEF TypeOK, Bucket, EmptyBucket, BucketRecord

(* The sums of a step in which one reservation joins or leaves a bucket.   *)
LEMMA SumJoins ==
    ASSUME NEW f, NEW g, NEW S \in SUBSET Reservations, NEW r \in Reservations, r \notin S,
           \A x \in S : f[x] \in Int /\ g[x] = f[x], g[r] \in Int
    PROVE  SumFunctionOnSet(g, S \cup {r}) = SumFunctionOnSet(f, S) + g[r]
  <1>1. IsFiniteSet(S)
    BY SetsFinite
  <1>2. SumFunctionOnSet(g, S) = SumFunctionOnSet(f, S)
    BY <1>1, SumSame
  <1>3. SumFunctionOnSet(g, S \cup {r}) = g[r] + SumFunctionOnSet(g, S)
    <2>1. \A y \in S \cup {r} : g[y] \in Int
      OBVIOUS
    <2>. QED  BY <1>1, <2>1, SumAdd
  <1>4. SumFunctionOnSet(f, S) \in Int
    BY <1>1, SumRemove
  <1>. QED  BY <1>2, <1>3, <1>4

(* Taking one reservation out of a sum.                                    *)
LEMMA SumLeaves ==
    ASSUME NEW f, NEW g, NEW S \in SUBSET Reservations, NEW r \in S,
           \A x \in S : f[x] \in Int, \A x \in S \ {r} : g[x] = f[x]
    PROVE  SumFunctionOnSet(g, S \ {r}) = SumFunctionOnSet(f, S) - f[r]
  <1>1. IsFiniteSet(S) /\ IsFiniteSet(S \ {r})
    BY SetsFinite
  <1>2. SumFunctionOnSet(g, S \ {r}) = SumFunctionOnSet(f, S \ {r})
    BY <1>1, SumSame
  <1>3. SumFunctionOnSet(f, S) = f[r] + SumFunctionOnSet(f, S \ {r})
    BY <1>1, SumRemove
  <1>4. SumFunctionOnSet(f, S \ {r}) \in Int
    BY <1>1, SumRemove
  <1>. QED  BY <1>2, <1>3, <1>4

(* A sum depends only on its members.                                      *)
LEMMA SumKeeps ==
    ASSUME NEW f, NEW g, NEW S \in SUBSET Reservations, \A x \in S : g[x] = f[x]
    PROVE  SumFunctionOnSet(g, S) = SumFunctionOnSet(f, S)
  BY SetsFinite, SumSame

-----------------------------------------------------------------------------
(* The sums of the books are integers over sets of reservations.           *)
LEMMA SumTypes ==
    ASSUME TypeOK, NEW b
    PROVE  /\ \A r \in Reservations : AmountOf[r] = reservation[r].amount /\ AmountOf[r] \in Nat
           /\ \A r \in Reservations : DeltaOf[r] = ticket[r].delta /\ DeltaOf[r] \in Int
           /\ OpenIn(b) \in SUBSET Reservations /\ LiveTicketsIn(b) \in SUBSET Reservations
           /\ OwedIn(b) \in SUBSET Reservations /\ Refundable(b) \in SUBSET Reservations
           /\ SumFunctionOnSet(AmountOf, OpenIn(b)) \in Nat
           /\ SumFunctionOnSet(AmountOf, LiveTicketsIn(b)) \in Nat
           /\ SumFunctionOnSet(AmountOf, Refundable(b)) \in Nat
           /\ SumFunctionOnSet(DeltaOf, OwedIn(b)) \in Int
  <1>1. \A r \in Reservations : AmountOf[r] = reservation[r].amount /\ AmountOf[r] \in Nat
    BY TokenAssumption DEF TypeOK, AmountOf
  <1>2. \A r \in Reservations : DeltaOf[r] = ticket[r].delta /\ DeltaOf[r] \in Int
    BY DEF TypeOK, DeltaOf
  <1>3. /\ OpenIn(b) \in SUBSET Reservations /\ LiveTicketsIn(b) \in SUBSET Reservations
        /\ OwedIn(b) \in SUBSET Reservations /\ Refundable(b) \in SUBSET Reservations
    BY DEF OpenIn, LiveTicketsIn, OwedIn, Refundable
  <1>. HIDE DEF AmountOf, DeltaOf
  <1>4. \A S \in SUBSET Reservations : SumFunctionOnSet(AmountOf, S) \in Nat
    BY <1>1, SetsFinite, SumNat
  <1>5. \A S \in SUBSET Reservations : SumFunctionOnSet(DeltaOf, S) \in Int
    BY <1>2, SetsFinite, SumRemove
  <1>. QED  BY <1>1, <1>2, <1>3, <1>4, <1>5

(* Nothing is reserved or committed at the start.                          *)
LEMMA InitIInv == Init => IInv
  <1>. SUFFICES ASSUME Init PROVE IInv
    OBVIOUS
  <1>. USE DEF Init
  <1>1. PICK c \in Loaded : buckets = LoadCommitted(c)
    OBVIOUS
  <1>2. c \in 0 .. MaxInt /\ 0 \in Times
    BY TokenAssumption DEF Times
  <1>3. \A b \in DOMAIN buckets :
            /\ c # 0 /\ buckets[b] = [committed |-> c, active |-> 0]
            /\ b \in BucketIDs /\ b.window \in policyWindows[b.key]
    <2>1. CASE c = 0
      BY <1>1, <2>1 DEF LoadCommitted
    <2>2. CASE c # 0
      <3>1. \A k \in Keys, w \in Windows : BucketAt(k, w, 0) \in BucketIDs
        BY <1>2, BucketAtFacts
      <3>. QED  BY <1>1, <2>2, <3>1 DEF LoadCommitted
    <2>. QED  BY <2>1, <2>2
  <1>4. \A b \in BucketIDs : Bucket(b).active = 0 /\ Bucket(b).committed \in 0 .. MaxInt
    BY <1>2, <1>3, TokenAssumption DEF Bucket, EmptyBucket
  <1>5. FreeReservation.state = "free" /\ FreeReservation.buckets = {}
        /\ FreeReservation.key \in Keys /\ FreeReservation.amount = 0
    BY TokenAssumption DEF FreeReservation
  <1>6. TypeOK
    <2>1. \A b \in DOMAIN buckets : buckets[b] \in [committed: 0 .. MaxInt, active: 0 .. MaxInt]
      BY <1>2, <1>3, TokenAssumption
    <2>2. FreeReservation \in [state: {"free", "open", "final"}, key: Keys,
                               buckets: SUBSET BucketIDs, amount: 0 .. MaxInt]
      BY TokenAssumption, <1>5 DEF FreeReservation
    <2>3. NoTicket \in [state: {"none", "live", "notify", "spent"},
                        delta: Int, owed: SUBSET BucketIDs]
      BY DEF NoTicket
    <2>4. sunk \in [BucketIDs -> Int]
      BY <1>4
    <2>5. published \in [Keys -> SUBSET WindowSets] /\ lastNow \in Times
      BY <1>2
    <2>6. DOMAIN buckets \subseteq BucketIDs /\ overrun \subseteq BucketIDs
      BY <1>3
    <2>. QED  BY <2>1, <2>2, <2>3, <2>4, <2>5, <2>6 DEF TypeOK
  <1>7. \A b : OpenIn(b) = {} /\ LiveTicketsIn(b) = {} /\ OwedIn(b) = {} /\ Refundable(b) = {}
    BY <1>5 DEF OpenIn, LiveTicketsIn, OwedIn, Refundable, Unsettled, NoTicket
  <1>8. \A b \in BucketIDs : sunk[b] = Bucket(b).committed
    OBVIOUS
  <1>9. Lives
    BY <1>5 DEF Lives, NoTicket
  <1>10. NoEmptyBucket
    BY <1>2, <1>3 DEF NoEmptyBucket, EmptyBucket
  <1>11. ActiveExact /\ UsageHasPolicy
    BY <1>3, <1>4, <1>7, SumEmpty DEF ActiveExact, UsageHasPolicy
  <1>12. TicketsCovered /\ SinkCovers /\ SinkExact
    <2>. HIDE DEF Init
    <2>1. \A b : /\ SumFunctionOnSet(AmountOf, LiveTicketsIn(b)) = 0
                 /\ SumFunctionOnSet(AmountOf, Refundable(b)) = 0
                 /\ SumFunctionOnSet(DeltaOf, OwedIn(b)) = 0
      BY <1>7, SumEmpty
    <2>2. \A b \in BucketIDs : Bucket(b).committed \in Nat /\ sunk[b] = Bucket(b).committed
      BY <1>4, <1>8, TokenAssumption
    <2>. QED  BY <2>1, <2>2 DEF TicketsCovered, SinkCovers, SinkExact
  <1>13. WithinWindow
    <2>1. ASSUME NEW b \in DOMAIN buckets \ overrun
          PROVE  buckets[b].committed + buckets[b].active <= b.window.amount
      <3>1. b.window.amount \in Nat
        BY <1>3, BucketIDFacts, TokenAssumption
      <3>2. ~(c > b.window.amount)
        BY <1>3
      <3>. QED  BY <1>2, <1>3, <3>1, <3>2
    <2>. QED  BY <2>1 DEF WithinWindow
  <1>. QED  BY <1>6, <1>9, <1>10, <1>11, <1>12, <1>13 DEF IInv

(* A step that reads the clock and moves no token.                         *)
LEMMA SweepStep ==
    ASSUME IInv, NEW now \in lastNow .. MaxTime, lastNow' = now,
           buckets' = DiscardExpired(buckets, now) \/ buckets' = buckets,
           policyWindows' \in [Keys -> WindowSets],
           published' \in [Keys -> SUBSET WindowSets],
           UsageHasPolicy',
           UNCHANGED <<reservation, ticket, sunk, overrun, dropped>>
    PROVE  IInv'
  <1>. USE DEF IInv
  <1>1. now \in Nat /\ lastNow \in Nat /\ now \in Times /\ lastNow <= now
    BY TokenAssumption DEF TypeOK, Times
  <1>2. \A b \in DOMAIN buckets : buckets[b] \in BucketRecord
    BY DEF TypeOK, BucketRecord
  <1>3. ASSUME NEW b \in BucketIDs
        PROVE  /\ Bucket(b)'.active = Bucket(b).active
               /\ b \in DOMAIN buckets' => b \in DOMAIN buckets /\ buckets'[b] = buckets[b]
               /\ Current(b)' => Current(b) /\ Bucket(b)' = Bucket(b)
    <2>1. WindowReset(b) \in Nat /\ (WindowReset(b) > lastNow)' = (WindowReset(b) > now)
      BY BucketIDFacts
    <2>2. CASE buckets' = buckets
      BY <1>1, <2>1, <2>2 DEF Bucket, Current
    <2>3. CASE buckets' = DiscardExpired(buckets, now)
      BY <1>1, <1>2, <2>1, <2>3, DiscardFacts, BucketIsVal DEF Bucket, Val, Current
    <2>. QED  BY <2>2, <2>3
  <1>4. DOMAIN buckets' \subseteq DOMAIN buckets
    BY DEF DiscardExpired
  <1>5. TypeOK'
    BY <1>1, <1>3, <1>4 DEF TypeOK
  <1>6. Lives' /\ NoEmptyBucket'
    BY <1>3, <1>4 DEF Lives, NoEmptyBucket, TypeOK
  <1>7. \A b : /\ OpenIn(b)' = OpenIn(b) /\ LiveTicketsIn(b)' = LiveTicketsIn(b)
               /\ OwedIn(b)' = OwedIn(b) /\ Refundable(b)' = Refundable(b)
    BY DEF OpenIn, LiveTicketsIn, OwedIn, Refundable, Unsettled
  <1>8. AmountOf' = AmountOf /\ DeltaOf' = DeltaOf
    BY DEF AmountOf, DeltaOf
  <1>. HIDE DEF AmountOf, DeltaOf
  <1>9. ActiveExact'
    BY <1>3, <1>7, <1>8 DEF ActiveExact
  <1>10. TicketsCovered'
    BY <1>3, <1>7, <1>8 DEF TicketsCovered
  <1>11. SinkCovers' /\ SinkExact'
    BY <1>3, <1>7, <1>8 DEF SinkCovers, SinkExact
  <1>12. WithinWindow'
    BY <1>3, <1>4 DEF WithinWindow, TypeOK
  <1>. QED  BY <1>5, <1>6, <1>9, <1>10, <1>11, <1>12

-----------------------------------------------------------------------------
(* A reservation counted in the buckets ids, which none of the books knew. *)
LEMMA ReserveStep ==
    ASSUME IInv, NEW now \in lastNow .. MaxTime, NEW r \in Reservations, NEW k \in Keys,
           NEW amount \in Amounts, NEW ws \in published[k], Reserve(r, k, ws, amount, now)
    PROVE  IInv'
  <1>. USE DEF IInv
  <1>. DEFINE ids == {BucketAt(k, w, now) : w \in ws}
              fresh == DiscardExpired(buckets, now)
              upd == [b \in ids |-> [Bucket(b) EXCEPT !.active = @ + amount]]
  <1>0. /\ reservation[r].state = "free" /\ ws = policyWindows[k]
        /\ \A b \in ids : Fits(b, amount)
        /\ buckets' = Store(fresh, upd)
        /\ reservation' = [reservation EXCEPT ![r] =
               [state |-> "open", key |-> k, buckets |-> ids, amount |-> amount]]
        /\ lastNow' = now
        /\ UNCHANGED <<policyWindows, published, ticket, sunk, overrun, dropped>>
    BY DEF Reserve, SameTokenWindowSet
  <1>1. now \in Nat /\ lastNow \in Nat /\ now \in Times /\ lastNow <= now
    BY TokenAssumption DEF TypeOK, Times
  <1>2. amount \in 1 .. MaxInt /\ MaxInt \in Nat /\ ws \in WindowSets /\ ws \subseteq Windows
    BY TokenAssumption DEF TypeOK, Windows
  <1>3. \A b \in ids : /\ b \in BucketIDs /\ WindowReset(b) > now
                       /\ b.key = k /\ b.window \in ws
    BY <1>1, <1>2, BucketAtFacts DEF BucketAt
  <1>4. \A b \in DOMAIN buckets : buckets[b] \in BucketRecord
    BY DEF TypeOK, BucketRecord
  <1>5. ASSUME NEW b \in ids
        PROVE  /\ upd[b] = [committed |-> Bucket(b).committed, active |-> Bucket(b).active + amount]
               /\ upd[b] \in BucketRecord /\ upd[b] # EmptyBucket
               /\ Bucket(b).committed + Bucket(b).active + amount <= b.window.amount
    <2>1. /\ Bucket(b) \in BucketRecord
          /\ Bucket(b).committed \in 0 .. MaxInt /\ Bucket(b).active \in 0 .. MaxInt
      BY BucketType
    <2>2. b.window.amount \in 1 .. MaxInt
      BY <1>3, BucketIDFacts
    <2>3. amount <= b.window.amount - (Bucket(b).committed + Bucket(b).active)
      BY <1>0 DEF Fits
    <2>4. upd[b] = [committed |-> Bucket(b).committed, active |-> Bucket(b).active + amount]
      BY <2>1 DEF BucketRecord
    <2>5. /\ Bucket(b).committed + Bucket(b).active + amount <= b.window.amount
          /\ Bucket(b).active + amount \in 1 .. MaxInt
      BY <1>2, <2>1, <2>2, <2>3
    <2>. HIDE DEF upd
    <2>. QED  BY <1>2, <2>1, <2>4, <2>5 DEF BucketRecord, EmptyBucket
  <1>6. DOMAIN upd = ids
    OBVIOUS
  <1>. HIDE DEF upd, ids
  <1>7. ASSUME NEW b \in BucketIDs
        PROVE  /\ b \in ids => Bucket(b)' = upd[b]
               /\ b \notin ids => /\ Bucket(b)'.active = Bucket(b).active
                                  /\ Current(b)' => Current(b) /\ Bucket(b)' = Bucket(b)
               /\ Current(b)' => Current(b)
               /\ b \in DOMAIN buckets' => b \in DOMAIN buckets \cup ids /\ buckets'[b] = Bucket(b)'
    <2>1. WindowReset(b) \in Nat /\ (WindowReset(b) > lastNow)' = (WindowReset(b) > now)
      BY <1>0, BucketIDFacts
    <2>2. /\ Bucket(b)' = Val(buckets', b) /\ Bucket(b) = Val(buckets, b)
          /\ Val(buckets', b) = IF b \in ids THEN upd[b] ELSE Val(fresh, b)
          /\ b \in DOMAIN buckets' => b \in DOMAIN fresh \cup ids
      BY <1>0, <1>6, StoreFacts DEF Bucket, Val
    <2>3. /\ Val(fresh, b).active = Val(buckets, b).active
          /\ b \in DOMAIN fresh => b \in DOMAIN buckets /\ fresh[b] = buckets[b]
          /\ WindowReset(b) > now \/ b \in DOMAIN fresh => Val(fresh, b) = Val(buckets, b)
      BY <1>1, <1>4, DiscardFacts
    <2>4. b \in DOMAIN buckets' => buckets'[b] = Bucket(b)'
      BY DEF Bucket
    <2>5. b \in ids => WindowReset(b) > now
      BY <1>3
    <2>. HIDE DEF fresh
    <2>. QED  BY <1>1, <2>1, <2>2, <2>3, <2>4, <2>5 DEF Current
  <1>8. DOMAIN buckets' \subseteq BucketIDs
    BY <1>0, <1>3, <1>6, StoreFacts DEF TypeOK, DiscardExpired, Store
  <1>9. ASSUME NEW b \in DOMAIN buckets'
        PROVE  /\ b \in BucketIDs /\ buckets'[b] = Bucket(b)'
               /\ b \in ids => buckets'[b] = upd[b]
               /\ b \notin ids => b \in DOMAIN buckets /\ buckets'[b] = buckets[b]
    BY <1>7, <1>8 DEF Current, Bucket
  <1>10. TypeOK'
    <2>1. \A b \in DOMAIN buckets' : buckets'[b] \in BucketRecord
      BY <1>4, <1>5, <1>9
    <2>2. ids \in SUBSET BucketIDs
      BY <1>3
    <2>3. reservation' \in [Reservations -> [state: {"free", "open", "final"}, key: Keys,
                                             buckets: SUBSET BucketIDs, amount: 0 .. MaxInt]]
      BY <1>0, <1>2, <2>2 DEF TypeOK
    <2>. QED  BY <1>0, <1>1, <1>8, <2>1, <2>3 DEF TypeOK, BucketRecord
  <1>11. Lives'
    BY <1>0 DEF Lives, TypeOK
  <1>12. NoEmptyBucket'
    BY <1>5, <1>9 DEF NoEmptyBucket
  <1>13. UsageHasPolicy'
    BY <1>0, <1>3, <1>9 DEF UsageHasPolicy
  <1>14. ASSUME NEW b
         PROVE  /\ OpenIn(b)' = IF b \in ids THEN OpenIn(b) \cup {r} ELSE OpenIn(b)
                /\ LiveTicketsIn(b)' = LiveTicketsIn(b) /\ OwedIn(b)' = OwedIn(b)
                /\ Refundable(b)' = Refundable(b)
                /\ r \notin OpenIn(b) /\ r \notin LiveTicketsIn(b) /\ r \notin OwedIn(b)
                /\ r \notin Refundable(b)
    <2>1. r \notin OpenIn(b) /\ r \notin LiveTicketsIn(b) /\ r \notin OwedIn(b)
      BY <1>0 DEF OpenIn, LiveTicketsIn, OwedIn, Unsettled, Lives
    <2>2. OpenIn(b)' = IF b \in ids THEN OpenIn(b) \cup {r} ELSE OpenIn(b)
      BY <1>0 DEF OpenIn, Unsettled, TypeOK, Lives
    <2>3. LiveTicketsIn(b)' = LiveTicketsIn(b) /\ OwedIn(b)' = OwedIn(b)
      BY <1>0 DEF LiveTicketsIn, OwedIn, TypeOK, Lives
    <2>. QED  BY <2>1, <2>2, <2>3 DEF Refundable
  <1>15. /\ \A x \in Reservations \ {r} : AmountOf'[x] = AmountOf[x]
         /\ AmountOf'[r] = amount /\ DeltaOf' = DeltaOf
    BY <1>0 DEF AmountOf, DeltaOf, TypeOK
  <1>. HIDE DEF AmountOf, DeltaOf
  <1>16. ASSUME NEW S \in SUBSET Reservations, r \notin S
         PROVE  SumFunctionOnSet(AmountOf', S) = SumFunctionOnSet(AmountOf, S)
    BY <1>15, <1>16, SumKeeps
  <1>17. ActiveExact'
    <2>1. ASSUME NEW b \in BucketIDs
          PROVE  Bucket(b)'.active = SumFunctionOnSet(AmountOf', OpenIn(b)')
      <3>1. Bucket(b).active = SumFunctionOnSet(AmountOf, OpenIn(b))
        BY DEF ActiveExact
      <3>2. OpenIn(b) \in SUBSET Reservations /\ \A x \in OpenIn(b) : AmountOf[x] \in Int
        BY SumTypes
      <3>3. CASE b \notin ids
        BY <1>7, <1>14, <1>16, <3>1, <3>2, <3>3
      <3>4. CASE b \in ids
        <4>1. SumFunctionOnSet(AmountOf', OpenIn(b) \cup {r}) = SumFunctionOnSet(AmountOf, OpenIn(b)) + amount
          BY <1>2, <1>14, <1>15, <3>2, SumJoins
        <4>2. Bucket(b)' = [committed |-> Bucket(b).committed, active |-> Bucket(b).active + amount]
          BY <1>5, <1>7, <3>4
        <4>3. Bucket(b)'.active = Bucket(b).active + amount
          BY <4>2
        <4>. QED  BY <1>14, <3>1, <3>4, <4>1, <4>3
      <3>. QED  BY <3>3, <3>4
    <2>. QED  BY <2>1 DEF ActiveExact
  <1>18. ASSUME NEW b \in BucketIDs, Current(b)'
         PROVE  Current(b) /\ Bucket(b)'.committed = Bucket(b).committed
    <2>1. CASE b \in ids
      <3>1. Bucket(b)' = [committed |-> Bucket(b).committed, active |-> Bucket(b).active + amount]
        BY <1>5, <1>7, <2>1
      <3>. QED  BY <1>7, <1>18, <3>1
    <2>. QED  BY <1>7, <1>18, <2>1
  <1>19. ASSUME NEW b \in BucketIDs
         PROVE  /\ SumFunctionOnSet(AmountOf, LiveTicketsIn(b))'
                       = SumFunctionOnSet(AmountOf, LiveTicketsIn(b))
                /\ SumFunctionOnSet(AmountOf, Refundable(b))' = SumFunctionOnSet(AmountOf, Refundable(b))
                /\ SumFunctionOnSet(DeltaOf, OwedIn(b))' = SumFunctionOnSet(DeltaOf, OwedIn(b))
    BY <1>14, <1>15, <1>16, SumTypes
  <1>20. TicketsCovered'
    BY <1>0, <1>18, <1>19 DEF TicketsCovered
  <1>21. SinkCovers'
    BY <1>0, <1>19 DEF SinkCovers
  <1>22. SinkExact'
    BY <1>0, <1>18, <1>19 DEF SinkExact
  <1>23. WithinWindow'
    <2>1. ASSUME NEW b \in DOMAIN buckets' \ overrun'
          PROVE  buckets'[b].committed + buckets'[b].active <= b.window.amount
      <3>1. CASE b \in ids
        <4>1. /\ Bucket(b).committed \in Nat /\ Bucket(b).active \in Nat /\ amount \in Nat
              /\ b.window.amount \in Nat
          BY <1>2, <1>9, BucketType, BucketIDFacts
        <4>2. Bucket(b).committed + Bucket(b).active + amount <= b.window.amount
              /\ buckets'[b] = [committed |-> Bucket(b).committed, active |-> Bucket(b).active + amount]
          BY <1>5, <1>9, <3>1
        <4>. QED  BY <4>1, <4>2
      <3>2. CASE b \notin ids
        BY <1>0, <1>9, <3>2 DEF WithinWindow
      <3>. QED  BY <3>1, <3>2
    <2>. QED  BY <2>1 DEF WithinWindow
  <1>. QED  BY <1>10, <1>11, <1>12, <1>13, <1>17, <1>20, <1>21, <1>22, <1>23

(* A reservation under no window keeps the invariant.                      *)
LEMMA ReserveUnlimitedStep ==
    ASSUME IInv, NEW r \in Reservations, NEW k \in Keys, ReserveUnlimited(r, k)
    PROVE  IInv'
  <1>. USE DEF IInv
  <1>1. PICK amount \in Amounts :
            reservation' = [reservation EXCEPT ![r] =
               [state |-> "open", key |-> k, buckets |-> {}, amount |-> amount]]
    BY DEF ReserveUnlimited
  <1>2. /\ reservation[r].state = "free"
        /\ UNCHANGED <<lastNow, buckets, policyWindows, published, ticket, sunk, overrun, dropped>>
    BY DEF ReserveUnlimited
  <1>3. TypeOK' /\ Lives'
    BY <1>1, <1>2, TokenAssumption DEF TypeOK, Lives
  <1>4. ASSUME NEW b
        PROVE  /\ OpenIn(b)' = OpenIn(b) /\ LiveTicketsIn(b)' = LiveTicketsIn(b)
               /\ OwedIn(b)' = OwedIn(b) /\ Refundable(b)' = Refundable(b)
               /\ r \notin OpenIn(b) /\ r \notin Refundable(b) /\ r \notin LiveTicketsIn(b)
    BY <1>1, <1>2 DEF OpenIn, LiveTicketsIn, OwedIn, Refundable, Unsettled, TypeOK, Lives
  <1>5. /\ \A x \in Reservations \ {r} : AmountOf'[x] = AmountOf[x]
        /\ DeltaOf' = DeltaOf
    BY <1>1, <1>2 DEF AmountOf, DeltaOf, TypeOK
  <1>6. \A b : Bucket(b)' = Bucket(b) /\ Current(b)' = Current(b)
    BY <1>2 DEF Bucket, Current
  <1>. HIDE DEF AmountOf, DeltaOf
  <1>7. ASSUME NEW b
        PROVE  /\ SumFunctionOnSet(AmountOf, OpenIn(b))' = SumFunctionOnSet(AmountOf, OpenIn(b))
               /\ SumFunctionOnSet(AmountOf, LiveTicketsIn(b))'
                       = SumFunctionOnSet(AmountOf, LiveTicketsIn(b))
               /\ SumFunctionOnSet(AmountOf, Refundable(b))' = SumFunctionOnSet(AmountOf, Refundable(b))
               /\ SumFunctionOnSet(DeltaOf, OwedIn(b))' = SumFunctionOnSet(DeltaOf, OwedIn(b))
    <2>1. ASSUME NEW S \in SUBSET Reservations, r \notin S
          PROVE  SumFunctionOnSet(AmountOf', S) = SumFunctionOnSet(AmountOf, S)
      BY <1>5, <2>1, SumKeeps
    <2>. QED  BY <1>4, <1>5, <2>1, SumTypes
  <1>8. ActiveExact' /\ TicketsCovered' /\ SinkCovers' /\ SinkExact'
    BY <1>2, <1>6, <1>7 DEF ActiveExact, TicketsCovered, SinkCovers, SinkExact
  <1>9. NoEmptyBucket' /\ UsageHasPolicy' /\ WithinWindow'
    BY <1>2 DEF NoEmptyBucket, UsageHasPolicy, WithinWindow
  <1>. QED  BY <1>3, <1>8, <1>9

-----------------------------------------------------------------------------
(* An open reservation is still in every bucket it was counted in.         *)
LEMMA OpenIsHeld ==
    ASSUME IInv, NEW r \in Reservations, Unsettled(r), NEW b \in reservation[r].buckets
    PROVE  /\ b \in DOMAIN buckets /\ b \in BucketIDs
           /\ Bucket(b) = buckets[b] /\ Bucket(b).active >= reservation[r].amount
           /\ r \in OpenIn(b) /\ reservation[r].amount \in 1 .. MaxInt
  <1>. USE DEF IInv
  <1>1. reservation[r].amount \in 1 .. MaxInt /\ b \in BucketIDs /\ MaxInt \in Nat
    BY TokenAssumption DEF TypeOK, Lives, Unsettled
  <1>2. r \in OpenIn(b)
    BY DEF OpenIn
  <1>3. /\ OpenIn(b) \in SUBSET Reservations /\ AmountOf[r] = reservation[r].amount
        /\ \A x \in OpenIn(b) : AmountOf[x] \in Nat
    BY SumTypes
  <1>4. AmountOf[r] <= SumFunctionOnSet(AmountOf, OpenIn(b))
    BY <1>2, <1>3, SetsFinite, SumNat
  <1>5. Bucket(b).active = SumFunctionOnSet(AmountOf, OpenIn(b))
    BY <1>1 DEF ActiveExact
  <1>6. Bucket(b).active >= reservation[r].amount
    <2>1. Bucket(b).active \in Int /\ reservation[r].amount \in Int
      BY <1>1, BucketType
    <2>. QED  BY <1>3, <1>4, <1>5, <2>1
  <1>7. b \in DOMAIN buckets
    BY <1>1, <1>6 DEF Bucket, EmptyBucket
  <1>. QED  BY <1>1, <1>2, <1>6, <1>7 DEF Bucket

(* The buckets after entries were stored and expired ones discarded.       *)
LEMMA StoredStep ==
    ASSUME IInv, NEW now \in lastNow .. MaxTime, NEW upd, DOMAIN upd \subseteq DOMAIN buckets,
           \A b \in DOMAIN upd : upd[b] \in BucketRecord,
           buckets' = DiscardExpired(Store(buckets, upd), now), lastNow' = now
    PROVE  /\ \A b \in BucketIDs :
                LET new == IF b \in DOMAIN upd THEN upd[b] ELSE Bucket(b) IN
                /\ Bucket(b)'.active = new.active
                /\ Current(b)' => Bucket(b)' = new /\ Current(b)
                /\ b \in DOMAIN buckets' => /\ b \in DOMAIN buckets /\ buckets'[b] = Bucket(b)'
                                            /\ Bucket(b)' = new
                                            /\ Bucket(b)' # EmptyBucket
           /\ DOMAIN buckets' \subseteq DOMAIN buckets
           /\ \A b \in DOMAIN buckets' : buckets'[b] \in BucketRecord
  <1>. USE DEF IInv
  <1>. DEFINE stored == Store(buckets, upd)
  <1>1. now \in Nat /\ lastNow \in Nat /\ lastNow <= now
    BY TokenAssumption DEF TypeOK, Times
  <1>2. \A b \in DOMAIN buckets : /\ buckets[b] \in BucketRecord /\ b \in BucketIDs
                                  /\ Bucket(b) = buckets[b] /\ Bucket(b) # EmptyBucket
    BY DEF TypeOK, BucketRecord, Bucket, NoEmptyBucket
  <1>3. DOMAIN stored \subseteq DOMAIN buckets
    BY DEF Store
  <1>4. \A b : /\ Val(stored, b) = IF b \in DOMAIN upd THEN upd[b] ELSE Bucket(b)
               /\ b \in DOMAIN stored => stored[b] = Val(stored, b)
    BY StoreFacts, BucketIsVal
  <1>5. \A b \in DOMAIN stored : stored[b] \in BucketRecord /\ stored[b] # EmptyBucket
    BY <1>2, <1>3, <1>4, StoreFacts
  <1>. HIDE DEF stored
  <1>6. ASSUME NEW b \in BucketIDs
        PROVE  /\ Bucket(b)'.active = Val(stored, b).active
               /\ b \in DOMAIN buckets' => /\ b \in DOMAIN stored /\ buckets'[b] = stored[b]
                                           /\ buckets'[b] = Bucket(b)'
               /\ Current(b)' => Bucket(b)' = Val(stored, b) /\ Current(b)
    <2>1. Bucket(b)' = Val(buckets', b)
      BY DEF Bucket, Val
    <2>2. /\ Val(buckets', b).active = Val(stored, b).active
          /\ b \in DOMAIN buckets' => b \in DOMAIN stored /\ buckets'[b] = stored[b]
          /\ WindowReset(b) > now \/ b \in DOMAIN buckets' => Val(buckets', b) = Val(stored, b)
      BY <1>1, <1>5, DiscardFacts DEF stored
    <2>3. Current(b)' = (WindowReset(b) > now \/ b \in DOMAIN buckets')
      BY DEF Current
    <2>4. WindowReset(b) \in Nat
      BY BucketIDFacts
    <2>5. Current(b)' => Current(b)
      BY <1>1, <1>3, <2>2, <2>3, <2>4 DEF Current
    <2>. QED  BY <2>1, <2>2, <2>3, <2>5 DEF Val
  <1>7. DOMAIN buckets' \subseteq DOMAIN stored
    BY DEF DiscardExpired, stored
  <1>8. \A b \in DOMAIN buckets' : buckets'[b] \in BucketRecord
    BY <1>2, <1>3, <1>5, <1>6, <1>7
  <1>9. ASSUME NEW b \in BucketIDs, b \in DOMAIN buckets'
        PROVE  /\ b \in DOMAIN buckets /\ buckets'[b] = Bucket(b)'
               /\ Bucket(b)' = Val(stored, b) /\ Bucket(b)' # EmptyBucket
    BY <1>3, <1>4, <1>5, <1>6, <1>9
  <1>. QED  BY <1>3, <1>4, <1>6, <1>7, <1>8, <1>9

(* What a settlement writes, bucket by bucket.                             *)
Books(r, charge, now) ==
    \A b \in BucketIDs :
        /\ b \in reservation[r].buckets =>
             /\ Bucket(b)'.active = Bucket(b).active - reservation[r].amount
             /\ sunk'[b] = sunk[b] + charge
             /\ Current(b)' => Bucket(b)'.committed =
                    IF Bucket(b).committed + charge > MaxInt THEN Bucket(b).committed
                    ELSE Bucket(b).committed + charge
             /\ b \notin dropped' => ~(Bucket(b).committed + charge > MaxInt)
             /\ b \notin overrun' => ~(charge > reservation[r].amount)
        /\ b \notin reservation[r].buckets =>
             /\ Bucket(b)'.active = Bucket(b).active
             /\ sunk'[b] = sunk[b]
             /\ Current(b)' => Bucket(b)' = Bucket(b)
        /\ Current(b)' => Current(b)
        /\ b \in DOMAIN buckets' =>
             b \in DOMAIN buckets /\ buckets'[b] = Bucket(b)' /\ Bucket(b)' # EmptyBucket
        /\ b \in dropped => b \in dropped'
        /\ b \in overrun => b \in overrun'

(* What settling a reservation does to the ledger.                         *)
LEMMA FinalizeBooks ==
    ASSUME IInv, NEW now \in lastNow .. MaxTime, NEW r \in Reservations,
           NEW usage \in Int, NEW actual \in BOOLEAN, Finalize(r, usage, actual, now)
    PROVE  LET charge == Charge(r, usage, actual) IN
           /\ charge \in Nat /\ Unsettled(r)
           /\ charge = IF usage < 0 THEN reservation[r].amount ELSE charge
           /\ ~actual /\ usage >= 0 => charge = usage
           /\ Books(r, charge, now)
           /\ lastNow' \in {lastNow, now}
           /\ DOMAIN buckets' \subseteq DOMAIN buckets
           /\ \A b \in DOMAIN buckets' : buckets'[b] \in BucketRecord
           /\ sunk' \in [BucketIDs -> Int]
           /\ overrun' \subseteq BucketIDs /\ dropped' \subseteq BucketIDs
           /\ reservation' = [reservation EXCEPT ![r].state = "final"]
           /\ UNCHANGED <<policyWindows, published>>
  <1>. USE DEF IInv
  <1>. DEFINE charge == Charge(r, usage, actual)
              amount == reservation[r].amount
              held == reservation[r].buckets \cap DOMAIN buckets
              upd == [b \in held |-> Settled(b, amount, charge)]
              stored == Store(buckets, upd)
  <1>1. /\ Unsettled(r) /\ reservation' = [reservation EXCEPT ![r].state = "final"]
        /\ UNCHANGED <<policyWindows, published>>
    BY DEF Finalize
  <1>2. amount \in 1 .. MaxInt /\ MaxInt \in Nat
    BY <1>1, TokenAssumption DEF TypeOK, Lives, Unsettled
  <1>3. /\ charge \in Nat /\ (usage < 0 => charge = amount)
        /\ (~actual /\ usage >= 0 => charge = usage)
    BY <1>2 DEF Charge
  <1>4. now \in Nat /\ lastNow \in Nat /\ now \in Times /\ lastNow <= now
    BY TokenAssumption DEF TypeOK, Times
  <1>5. \A b \in DOMAIN buckets : buckets[b] \in BucketRecord /\ b \in BucketIDs
    BY DEF TypeOK, BucketRecord
  <1>6. /\ \A b \in BucketIDs : WindowReset(b) \in Nat
        /\ \A b \in BucketIDs : (WindowReset(b) > lastNow)' = (WindowReset(b) > lastNow')
    BY BucketIDFacts
  <1>7. \A b \in DOMAIN buckets : Bucket(b) = buckets[b] /\ Bucket(b) # EmptyBucket
    BY DEF Bucket, NoEmptyBucket
  <1>8. CASE reservation[r].buckets = {}
    <2>1. UNCHANGED <<lastNow, buckets, sunk, overrun, dropped>>
      BY <1>8 DEF Finalize
    <2>2. \A b : Bucket(b)' = Bucket(b) /\ Current(b)' = Current(b)
      BY <2>1 DEF Bucket, Current
    <2>3. Books(r, charge, now)
      <3>. HIDE DEF charge
      <3>. QED  BY <1>7, <1>8, <2>1, <2>2 DEF Books
    <2>. QED  BY <1>1, <1>3, <1>5, <2>1, <2>3 DEF TypeOK
  <1>9. CASE reservation[r].buckets # {}
    <2>1. /\ buckets' = DiscardExpired(stored, now)
          /\ lastNow' = now
          /\ sunk' = [b \in BucketIDs |-> sunk[b] + IF b \in held THEN charge ELSE 0]
          /\ overrun' = IF charge > amount THEN overrun \cup held ELSE overrun
          /\ dropped' = dropped \cup {b \in held : buckets[b].committed + charge > MaxInt}
      BY <1>9 DEF Finalize
    <2>2. held = reservation[r].buckets
      BY <1>1, OpenIsHeld
    <2>3. ASSUME NEW b \in held
          PROVE  LET old == Bucket(b) IN
                 /\ b \in BucketIDs /\ b \in DOMAIN buckets /\ old = buckets[b]
                 /\ old.committed \in 0 .. MaxInt /\ old.active \in 0 .. MaxInt
                 /\ upd[b] = [active |-> old.active - amount,
                              committed |-> IF old.committed + charge > MaxInt THEN old.committed
                                            ELSE old.committed + charge]
                 /\ upd[b] \in BucketRecord
      <3>1. /\ b \in BucketIDs /\ b \in DOMAIN buckets /\ Bucket(b) = buckets[b]
            /\ Bucket(b).active >= amount
        BY <1>1, <2>2, OpenIsHeld
      <3>2. Bucket(b).committed \in 0 .. MaxInt /\ Bucket(b).active \in 0 .. MaxInt
        BY BucketType
      <3>. HIDE DEF charge
      <3>3. upd[b] = [active |-> Bucket(b).active - amount,
                      committed |-> IF Bucket(b).committed + charge > MaxInt THEN Bucket(b).committed
                                    ELSE Bucket(b).committed + charge]
        BY <1>2, <3>1, <3>2 DEF Settled
      <3>4. upd[b] \in BucketRecord
        <4>. HIDE DEF upd
        <4>. QED  BY <1>2, <1>3, <3>1, <3>2, <3>3 DEF BucketRecord
      <3>. QED  BY <3>1, <3>2, <3>3, <3>4
    <2>4. DOMAIN upd = held
      OBVIOUS
    <2>. HIDE DEF upd, held, charge
    <2>9. /\ \A b \in BucketIDs :
                LET new == IF b \in held THEN upd[b] ELSE Bucket(b) IN
                /\ Bucket(b)'.active = new.active
                /\ Current(b)' => Bucket(b)' = new /\ Current(b)
                /\ b \in DOMAIN buckets' => /\ b \in DOMAIN buckets /\ buckets'[b] = Bucket(b)'
                                            /\ Bucket(b)' = new /\ Bucket(b)' # EmptyBucket
          /\ DOMAIN buckets' \subseteq DOMAIN buckets
          /\ \A b \in DOMAIN buckets' : buckets'[b] \in BucketRecord
      <3>1. DOMAIN upd \subseteq DOMAIN buckets /\ \A b \in DOMAIN upd : upd[b] \in BucketRecord
        BY <2>3, <2>4
      <3>. QED  BY <2>1, <2>4, <3>1, StoredStep
    <2>10. ASSUME NEW b \in BucketIDs, b \in held
           PROVE  /\ Bucket(b)'.active = Bucket(b).active - amount
                  /\ Current(b)' => Bucket(b)'.committed =
                         IF Bucket(b).committed + charge > MaxInt THEN Bucket(b).committed
                         ELSE Bucket(b).committed + charge
      <3>1. upd[b] = [active |-> Bucket(b).active - amount,
                      committed |-> IF Bucket(b).committed + charge > MaxInt
                                    THEN Bucket(b).committed ELSE Bucket(b).committed + charge]
        BY <2>3, <2>10
      <3>2. Bucket(b)'.active = upd[b].active /\ (Current(b)' => Bucket(b)' = upd[b])
        BY <2>9, <2>10
      <3>. QED  BY <3>1, <3>2
    <2>11. ASSUME NEW b \in BucketIDs, b \notin held
           PROVE  /\ Bucket(b)'.active = Bucket(b).active
                  /\ Current(b)' => Bucket(b)' = Bucket(b)
      BY <2>9, <2>11
    <2>12. ASSUME NEW b \in BucketIDs
           PROVE  /\ b \in DOMAIN buckets' =>
                       b \in DOMAIN buckets /\ buckets'[b] = Bucket(b)' /\ Bucket(b)' # EmptyBucket
                  /\ Current(b)' => Current(b)
      BY <2>9
    <2>13. ASSUME NEW b \in BucketIDs
           PROVE  /\ sunk'[b] = IF b \in held THEN sunk[b] + charge ELSE sunk[b]
                  /\ sunk'[b] \in Int
      BY <1>3, <2>1 DEF TypeOK
    <2>14. ASSUME NEW b \in held
           PROVE  /\ b \notin dropped' => ~(Bucket(b).committed + charge > MaxInt)
                  /\ b \notin overrun' => ~(charge > amount)
      BY <2>1, <2>3
    <2>15. dropped \subseteq dropped' /\ overrun \subseteq overrun'
      BY <2>1
    <2>16. Books(r, charge, now)
      BY <2>2, <2>10, <2>11, <2>12, <2>13, <2>14, <2>15 DEF Books
    <2>17. sunk' \in [BucketIDs -> Int] /\ overrun' \subseteq BucketIDs /\ dropped' \subseteq BucketIDs
      <3>1. sunk' = [b \in BucketIDs |-> sunk'[b]]
        BY <2>1
      <3>. QED  BY <2>1, <2>3, <2>13, <3>1 DEF TypeOK
    <2>. QED  BY <1>1, <1>3, <2>1, <2>9, <2>16, <2>17 DEF charge
  <1>. QED  BY <1>8, <1>9

(* A settlement keeps the books, whether it leaves a ticket or not.        *)
LEMMA FinalizeStep ==
    ASSUME IInv, NEW now \in lastNow .. MaxTime, NEW r \in Reservations,
           NEW usage \in Int, NEW actual \in BOOLEAN, Finalize(r, usage, actual, now),
           NEW deferred \in BOOLEAN,
           deferred => ~actual /\ usage = reservation[r].amount,
           ticket' = IF deferred THEN [ticket EXCEPT ![r].state = "live"] ELSE ticket
    PROVE  IInv'
  <1>. USE DEF IInv
  <1>. DEFINE charge == Charge(r, usage, actual)
              amount == reservation[r].amount
              B == reservation[r].buckets
  <1>1. /\ charge \in Nat /\ Unsettled(r)
        /\ (~actual /\ usage >= 0 => charge = usage)
        /\ Books(r, charge, now)
        /\ lastNow' \in {lastNow, now}
        /\ DOMAIN buckets' \subseteq DOMAIN buckets
        /\ \A b \in DOMAIN buckets' : buckets'[b] \in BucketRecord
        /\ sunk' \in [BucketIDs -> Int]
        /\ overrun' \subseteq BucketIDs /\ dropped' \subseteq BucketIDs
        /\ reservation' = [reservation EXCEPT ![r].state = "final"]
        /\ UNCHANGED <<policyWindows, published>>
    BY FinalizeBooks
  <1>. HIDE DEF charge
  <1>2. /\ amount \in 1 .. MaxInt /\ MaxInt \in Nat /\ reservation[r].state = "open"
        /\ ticket[r].state = "none" /\ DOMAIN buckets \subseteq BucketIDs
    BY <1>1, TokenAssumption DEF TypeOK, Lives, Unsettled
  <1>3. deferred => charge = amount
    BY <1>1, <1>2
  <1>4. TypeOK'
    <2>1. lastNow' \in Times
      BY <1>1, TokenAssumption DEF TypeOK, Times
    <2>2. reservation' \in [Reservations -> [state: {"free", "open", "final"}, key: Keys,
                                             buckets: SUBSET BucketIDs, amount: 0 .. MaxInt]]
      <3>. DEFINE Rec == [state: {"free", "open", "final"}, key: Keys,
                          buckets: SUBSET BucketIDs, amount: 0 .. MaxInt]
      <3>1. reservation \in [Reservations -> Rec]
        BY DEF TypeOK
      <3>2. \A x \in Rec : [x EXCEPT !.state = "final"] \in Rec
        OBVIOUS
      <3>. HIDE DEF Rec
      <3>3. reservation' \in [Reservations -> Rec]
        BY <1>1, <3>1, <3>2
      <3>. QED  BY <3>3 DEF Rec
    <2>3. ticket' \in [Reservations -> [state: {"none", "live", "notify", "spent"},
                                        delta: Int, owed: SUBSET BucketIDs]]
      BY DEF TypeOK
    <2>. QED  BY <1>1, <2>1, <2>2, <2>3 DEF TypeOK, BucketRecord
  <1>5. Lives'
    BY <1>1, <1>2 DEF Lives, TypeOK
  <1>6. NoEmptyBucket' /\ UsageHasPolicy'
    BY <1>1, <1>2 DEF NoEmptyBucket, UsageHasPolicy, Books, EmptyBucket
  <1>7. ASSUME NEW b
        PROVE  /\ OpenIn(b)' = OpenIn(b) \ {r}
               /\ LiveTicketsIn(b)' = IF deferred /\ b \in B THEN LiveTicketsIn(b) \cup {r}
                                      ELSE LiveTicketsIn(b)
               /\ OwedIn(b)' = OwedIn(b)
               /\ Refundable(b)' = IF deferred /\ b \in B THEN Refundable(b) \cup {r}
                                   ELSE Refundable(b)
               /\ r \in OpenIn(b) <=> b \in B
               /\ r \notin LiveTicketsIn(b) /\ r \notin OwedIn(b) /\ r \notin Refundable(b)
    <2>1. OpenIn(b)' = OpenIn(b) \ {r} /\ (r \in OpenIn(b) <=> b \in B)
      BY <1>1, <1>2 DEF OpenIn, Unsettled, TypeOK
    <2>2. r \notin LiveTicketsIn(b) /\ r \notin OwedIn(b)
      BY <1>2 DEF LiveTicketsIn, OwedIn
    <2>3. LiveTicketsIn(b)' = IF deferred /\ b \in B THEN LiveTicketsIn(b) \cup {r}
                              ELSE LiveTicketsIn(b)
      BY <1>1, <1>2 DEF LiveTicketsIn, TypeOK
    <2>4. OwedIn(b)' = OwedIn(b)
      BY <1>1, <1>2 DEF OwedIn, TypeOK
    <2>. QED  BY <2>1, <2>2, <2>3, <2>4 DEF Refundable
  <1>8. AmountOf' = AmountOf /\ DeltaOf' = DeltaOf /\ AmountOf[r] = amount
    BY <1>1 DEF AmountOf, DeltaOf, TypeOK
  <1>. HIDE DEF AmountOf, DeltaOf
  <1>9. ActiveExact'
    <2>1. ASSUME NEW b \in BucketIDs
          PROVE  Bucket(b)'.active = SumFunctionOnSet(AmountOf', OpenIn(b)')
      <3>1. Bucket(b).active = SumFunctionOnSet(AmountOf, OpenIn(b))
        BY DEF ActiveExact
      <3>2. OpenIn(b) \in SUBSET Reservations /\ \A x \in OpenIn(b) : AmountOf[x] \in Int
        BY SumTypes
      <3>3. CASE b \in B
        <4>1. SumFunctionOnSet(AmountOf, OpenIn(b) \ {r}) = SumFunctionOnSet(AmountOf, OpenIn(b)) - amount
          <5>1. r \in OpenIn(b) /\ AmountOf[r] = amount
            BY <1>7, <1>8, <3>3
          <5>. HIDE DEF amount
          <5>. QED  BY <5>1, <3>2, SumLeaves
        <4>2. Bucket(b)'.active = Bucket(b).active - amount
          BY <1>1, <3>3 DEF Books
        <4>. QED  BY <1>7, <1>8, <3>1, <4>1, <4>2
      <3>4. CASE b \notin B
        <4>1. OpenIn(b)' = OpenIn(b)
          BY <1>7, <3>4
        <4>2. Bucket(b)'.active = Bucket(b).active
          BY <1>1, <3>4 DEF Books
        <4>. QED  BY <1>8, <3>1, <4>1, <4>2
      <3>. QED  BY <3>3, <3>4
    <2>. QED  BY <2>1 DEF ActiveExact
  <1>10. ASSUME NEW S \in SUBSET Reservations, r \notin S
         PROVE  /\ SumFunctionOnSet(AmountOf, S \cup {r}) = SumFunctionOnSet(AmountOf, S) + amount
                /\ SumFunctionOnSet(AmountOf, S) \in Nat
    <2>1. \A x \in S : AmountOf[x] \in Nat
      BY SumTypes
    <2>2. \A x \in S : AmountOf[x] \in Int
      BY <2>1
    <2>3. AmountOf[r] = amount /\ AmountOf[r] \in Int
      BY <1>2, <1>8
    <2>4. SumFunctionOnSet(AmountOf, S \cup {r}) = SumFunctionOnSet(AmountOf, S) + AmountOf[r]
      BY <1>10, <2>2, <2>3, SumJoins
    <2>. QED  BY <2>1, <2>3, <2>4, SetsFinite, SumNat
  <1>11. ASSUME NEW b \in BucketIDs
         PROVE  /\ Bucket(b).committed \in Nat /\ sunk[b] \in Int
                /\ LiveTicketsIn(b) \in SUBSET Reservations /\ Refundable(b) \in SUBSET Reservations
                /\ r \notin LiveTicketsIn(b) /\ r \notin Refundable(b)
    BY <1>2, <1>7, BucketType, SumTypes DEF TypeOK
  <1>12. TicketsCovered'
    <2>1. ASSUME NEW b \in BucketIDs, b \notin dropped', Current(b)'
          PROVE  Bucket(b)'.committed >= SumFunctionOnSet(AmountOf', LiveTicketsIn(b)')
      <3>1. Current(b) /\ b \notin dropped
        BY <1>1, <2>1 DEF Books
      <3>2. Bucket(b).committed >= SumFunctionOnSet(AmountOf, LiveTicketsIn(b))
        BY <3>1 DEF TicketsCovered
      <3>3. CASE b \in B
        <4>1. Bucket(b)'.committed = Bucket(b).committed + charge
          BY <1>1, <2>1, <3>3 DEF Books
        <4>2. /\ SumFunctionOnSet(AmountOf, LiveTicketsIn(b)) \in Nat
              /\ SumFunctionOnSet(AmountOf, LiveTicketsIn(b) \cup {r})
                    = SumFunctionOnSet(AmountOf, LiveTicketsIn(b)) + amount
          BY <1>10, <1>11
        <4>3. CASE deferred
          <5>1. SumFunctionOnSet(AmountOf', LiveTicketsIn(b)')
                    = SumFunctionOnSet(AmountOf, LiveTicketsIn(b)) + amount
            BY <1>7, <1>8, <3>3, <4>2, <4>3
          <5>2. amount \in Nat /\ charge = amount /\ Bucket(b).committed \in Nat
            BY <1>2, <1>3, <1>11, <4>3
          <5>. HIDE DEF amount
          <5>. QED  BY <3>2, <4>1, <4>2, <5>1, <5>2
        <4>4. CASE ~deferred
          BY <1>1, <1>7, <1>8, <1>11, <3>2, <4>1, <4>2, <4>4
        <4>. QED  BY <4>3, <4>4
      <3>4. CASE b \notin B
        <4>1. Bucket(b)' = Bucket(b) /\ LiveTicketsIn(b)' = LiveTicketsIn(b)
          BY <1>1, <1>7, <2>1, <3>4 DEF Books
        <4>. QED  BY <1>8, <3>2, <4>1
      <3>. QED  BY <3>3, <3>4
    <2>. QED  BY <2>1 DEF TicketsCovered
  <1>13. SinkCovers'
    <2>1. ASSUME NEW b \in BucketIDs
          PROVE  sunk'[b] >= SumFunctionOnSet(AmountOf', Refundable(b)')
      <3>1. sunk[b] >= SumFunctionOnSet(AmountOf, Refundable(b))
        BY DEF SinkCovers
      <3>2. CASE b \in B
        <4>1. sunk'[b] = sunk[b] + charge
          BY <1>1, <3>2 DEF Books
        <4>2. /\ SumFunctionOnSet(AmountOf, Refundable(b)) \in Nat
              /\ SumFunctionOnSet(AmountOf, Refundable(b) \cup {r})
                    = SumFunctionOnSet(AmountOf, Refundable(b)) + amount
          BY <1>10, <1>11
        <4>3. CASE deferred
          BY <1>2, <1>3, <1>7, <1>8, <1>11, <3>1, <3>2, <4>1, <4>2, <4>3
        <4>4. CASE ~deferred
          BY <1>1, <1>7, <1>8, <1>11, <3>1, <4>1, <4>2, <4>4
        <4>. QED  BY <4>3, <4>4
      <3>3. CASE b \notin B
        <4>1. sunk'[b] = sunk[b] /\ Refundable(b)' = Refundable(b)
          BY <1>1, <1>7, <3>3 DEF Books
        <4>. QED  BY <1>8, <3>1, <4>1
      <3>. QED  BY <3>2, <3>3
    <2>. QED  BY <2>1 DEF SinkCovers
  <1>14. SinkExact'
    <2>1. ASSUME NEW b \in BucketIDs, b \notin dropped', Current(b)'
          PROVE  Bucket(b)'.committed = sunk'[b] + SumFunctionOnSet(DeltaOf', OwedIn(b)')
      <3>1. Current(b) /\ b \notin dropped
        BY <1>1, <2>1 DEF Books
      <3>2. /\ Bucket(b).committed = sunk[b] + SumFunctionOnSet(DeltaOf, OwedIn(b))
            /\ SumFunctionOnSet(DeltaOf, OwedIn(b)) \in Int
        BY <3>1, SumTypes DEF SinkExact
      <3>3. CASE b \in B
        <4>1. Bucket(b)'.committed = Bucket(b).committed + charge /\ sunk'[b] = sunk[b] + charge
          BY <1>1, <2>1, <3>3 DEF Books
        <4>. QED  BY <1>1, <1>7, <1>8, <1>11, <3>2, <4>1
      <3>4. CASE b \notin B
        <4>1. Bucket(b)' = Bucket(b) /\ sunk'[b] = sunk[b]
          BY <1>1, <2>1, <3>4 DEF Books
        <4>. QED  BY <1>7, <1>8, <3>2, <4>1
      <3>. QED  BY <3>3, <3>4
    <2>. QED  BY <2>1 DEF SinkExact
  <1>15. WithinWindow'
    <2>1. ASSUME NEW b \in DOMAIN buckets', b \notin overrun'
          PROVE  buckets'[b].committed + buckets'[b].active <= b.window.amount
      <3>1. b \in BucketIDs /\ b \in DOMAIN buckets /\ buckets'[b] = Bucket(b)' /\ Current(b)'
        BY <1>1, <1>2, <2>1 DEF Books, Current
      <3>2. b \notin overrun /\ Bucket(b) = buckets[b]
        BY <1>1, <2>1, <3>1 DEF Books, Bucket
      <3>3. Bucket(b).committed + Bucket(b).active <= b.window.amount
        BY <3>1, <3>2 DEF WithinWindow
      <3>4. CASE b \in B
        <4>1. /\ Bucket(b)'.active = Bucket(b).active - amount
              /\ Bucket(b)'.committed = IF Bucket(b).committed + charge > MaxInt
                                        THEN Bucket(b).committed ELSE Bucket(b).committed + charge
              /\ ~(charge > amount)
          BY <1>1, <2>1, <3>1, <3>4 DEF Books
        <4>2. b.window.amount \in Int /\ Bucket(b).committed \in Int /\ Bucket(b).active \in Int
          BY <1>2, <3>1, BucketIDFacts, BucketType
        <4>. QED  BY <1>1, <1>2, <3>1, <3>3, <4>1, <4>2
      <3>5. CASE b \notin B
        <4>1. Bucket(b)' = Bucket(b)
          BY <1>1, <3>1, <3>5 DEF Books
        <4>. QED  BY <3>1, <3>3, <4>1
      <3>. QED  BY <3>4, <3>5
    <2>. QED  BY <2>1 DEF WithinWindow
  <1>. QED  BY <1>4, <1>5, <1>6, <1>9, <1>12, <1>13, <1>14, <1>15

-----------------------------------------------------------------------------
(* The sums of a step in which one ticket is consumed.                     *)
LEMMA SumWithout ==
    ASSUME TypeOK, NEW S \in SUBSET Reservations, NEW r \in Reservations
    PROVE  /\ SumFunctionOnSet(AmountOf, S) \in Nat
           /\ SumFunctionOnSet(AmountOf, S \ {r}) \in Nat
           /\ r \in S => SumFunctionOnSet(AmountOf, S \ {r})
                            = SumFunctionOnSet(AmountOf, S) - reservation[r].amount
           /\ SumFunctionOnSet(AmountOf, S \ {r}) <= SumFunctionOnSet(AmountOf, S)
           /\ reservation[r].amount \in Nat
  <1>1. \A x \in Reservations : AmountOf[x] = reservation[x].amount /\ AmountOf[x] \in Nat
    BY SumTypes
  <1>2. \A T \in SUBSET Reservations : SumFunctionOnSet(AmountOf, T) \in Nat
    BY <1>1, SetsFinite, SumNat
  <1>3. CASE r \in S
    <2>1. \A x \in S : AmountOf[x] \in Int
      BY <1>1
    <2>2. SumFunctionOnSet(AmountOf, S \ {r}) = SumFunctionOnSet(AmountOf, S) - AmountOf[r]
      BY <1>3, <2>1, SumLeaves
    <2>3. S \ {r} \in SUBSET Reservations
      OBVIOUS
    <2>. QED  BY <1>1, <1>2, <2>2, <2>3
  <1>4. CASE r \notin S
    <2>1. S \ {r} = S
      BY <1>4
    <2>2. SumFunctionOnSet(AmountOf, S \ {r}) = SumFunctionOnSet(AmountOf, S)
      BY <2>1
    <2>. QED  BY <1>1, <1>2, <1>4, <2>2
  <1>. QED  BY <1>3, <1>4

(* A ticket that is consumed without a correction.                         *)
LEMMA TicketDropped ==
    ASSUME IInv, NEW r \in Reservations, ticket[r].state = "live",
           ticket' = [ticket EXCEPT ![r].state = "spent"],
           UNCHANGED <<lastNow, buckets, policyWindows, published, reservation, sunk, overrun,
                       dropped>>
    PROVE  IInv'
  <1>. USE DEF IInv
  <1>1. TypeOK' /\ Lives'
    <2>. DEFINE Rec == [state: {"none", "live", "notify", "spent"}, delta: Int,
                        owed: SUBSET BucketIDs]
    <2>1. ticket \in [Reservations -> Rec] /\ \A x \in Rec : [x EXCEPT !.state = "spent"] \in Rec
      BY DEF TypeOK
    <2>. HIDE DEF Rec
    <2>2. ticket' \in [Reservations -> Rec]
      BY <2>1
    <2>3. TypeOK'
      BY <2>2 DEF TypeOK, Rec
    <2>4. Lives'
      BY DEF Lives, TypeOK
    <2>. QED  BY <2>3, <2>4
  <1>2. ASSUME NEW b
        PROVE  /\ OpenIn(b)' = OpenIn(b) /\ OwedIn(b)' = OwedIn(b)
               /\ LiveTicketsIn(b)' = LiveTicketsIn(b) \ {r}
               /\ Refundable(b)' = Refundable(b) \ {r}
    <2>1. OpenIn(b)' = OpenIn(b)
      BY DEF OpenIn, Unsettled
    <2>2. OwedIn(b)' = OwedIn(b) /\ r \notin OwedIn(b)
      BY DEF OwedIn, TypeOK
    <2>3. LiveTicketsIn(b)' = LiveTicketsIn(b) \ {r}
      BY DEF LiveTicketsIn, TypeOK
    <2>. QED  BY <2>1, <2>2, <2>3 DEF Refundable
  <1>3. AmountOf' = AmountOf /\ DeltaOf' = DeltaOf
    BY DEF AmountOf, DeltaOf, TypeOK
  <1>4. \A b : Bucket(b)' = Bucket(b) /\ Current(b)' = Current(b)
    BY DEF Bucket, Current
  <1>. HIDE DEF AmountOf, DeltaOf
  <1>5. ActiveExact' /\ SinkExact'
    BY <1>2, <1>3, <1>4 DEF ActiveExact, SinkExact
  <1>6. ASSUME NEW b \in BucketIDs
        PROVE  /\ Bucket(b).committed \in Int /\ sunk[b] \in Int
               /\ LiveTicketsIn(b) \in SUBSET Reservations /\ Refundable(b) \in SUBSET Reservations
    BY BucketType, SumTypes DEF TypeOK
  <1>7. TicketsCovered'
    BY <1>2, <1>3, <1>4, <1>6, SumWithout DEF TicketsCovered
  <1>8. SinkCovers'
    BY <1>2, <1>3, <1>6, SumWithout DEF SinkCovers
  <1>9. NoEmptyBucket' /\ UsageHasPolicy' /\ WithinWindow'
    BY DEF NoEmptyBucket, UsageHasPolicy, WithinWindow
  <1>. QED  BY <1>1, <1>5, <1>7, <1>8, <1>9

(* A delayed notification of the sink keeps the invariant.                 *)
LEMMA NotifyStep ==
    ASSUME IInv, NEW r \in Reservations, Notify(r)
    PROVE  IInv'
  <1>. USE DEF IInv
  <1>. DEFINE delta == ticket[r].delta
              owed == ticket[r].owed
  <1>1. /\ ticket[r].state = "notify"
        /\ sunk' = [b \in BucketIDs |-> sunk[b] + IF b \in owed THEN delta ELSE 0]
        /\ ticket' = [ticket EXCEPT ![r] = [state |-> "spent", delta |-> 0, owed |-> {}]]
        /\ UNCHANGED <<lastNow, buckets, policyWindows, published, reservation, overrun, dropped>>
    <2>1. [NoTicket EXCEPT !.state = "spent"] = [state |-> "spent", delta |-> 0, owed |-> {}]
      BY DEF NoTicket
    <2>. HIDE DEF NoTicket
    <2>. QED  BY <2>1 DEF Notify
  <1>2. /\ delta \in Int /\ delta + reservation[r].amount >= 0 /\ reservation[r].amount \in Nat
        /\ owed \subseteq reservation[r].buckets
    BY <1>1, TokenAssumption DEF TypeOK, Lives
  <1>3. \A b \in BucketIDs : /\ sunk[b] \in Int
                             /\ sunk'[b] = IF b \in owed THEN sunk[b] + delta ELSE sunk[b]
    BY <1>1, <1>2 DEF TypeOK
  <1>4. TypeOK'
    <2>1. sunk' \in [BucketIDs -> Int]
      BY <1>1, <1>2 DEF TypeOK
    <2>. QED  BY <1>1, <2>1 DEF TypeOK
  <1>5. Lives'
    BY <1>1 DEF Lives, TypeOK
  <1>6. ASSUME NEW b
        PROVE  /\ OpenIn(b)' = OpenIn(b) /\ LiveTicketsIn(b)' = LiveTicketsIn(b)
               /\ OwedIn(b)' = OwedIn(b) \ {r} /\ Refundable(b)' = Refundable(b) \ {r}
               /\ r \in OwedIn(b) <=> b \in owed
               /\ r \in Refundable(b) <=> b \in owed
    <2>1. OpenIn(b)' = OpenIn(b)
      BY <1>1 DEF OpenIn, Unsettled
    <2>2. OwedIn(b)' = OwedIn(b) \ {r} /\ (r \in OwedIn(b) <=> b \in owed)
      BY <1>1 DEF OwedIn, TypeOK
    <2>3. LiveTicketsIn(b)' = LiveTicketsIn(b) /\ r \notin LiveTicketsIn(b)
      BY <1>1 DEF LiveTicketsIn, TypeOK
    <2>. QED  BY <2>1, <2>2, <2>3 DEF Refundable
  <1>7. AmountOf' = AmountOf /\ \A x \in Reservations \ {r} : DeltaOf'[x] = DeltaOf[x]
    BY <1>1 DEF AmountOf, DeltaOf, TypeOK
  <1>8. \A b : Bucket(b)' = Bucket(b) /\ Current(b)' = Current(b)
    BY <1>1 DEF Bucket, Current
  <1>. HIDE DEF AmountOf, DeltaOf
  <1>9. ActiveExact' /\ TicketsCovered'
    BY <1>1, <1>6, <1>7, <1>8 DEF ActiveExact, TicketsCovered
  <1>10. SinkCovers'
    <2>1. ASSUME NEW b \in BucketIDs
          PROVE  sunk'[b] >= SumFunctionOnSet(AmountOf', Refundable(b)')
      <3>1. sunk[b] >= SumFunctionOnSet(AmountOf, Refundable(b)) /\ sunk[b] \in Int
        BY <1>3 DEF SinkCovers
      <3>2. Refundable(b) \in SUBSET Reservations
        BY SumTypes
      <3>3. CASE b \in owed
        <4>1. SumFunctionOnSet(AmountOf, Refundable(b) \ {r})
                 = SumFunctionOnSet(AmountOf, Refundable(b)) - reservation[r].amount
          BY <1>6, <3>2, <3>3, SumWithout
        <4>2. SumFunctionOnSet(AmountOf, Refundable(b)) \in Nat
          BY <3>2, SumWithout
        <4>3. sunk'[b] = sunk[b] + delta
          BY <1>3, <3>3
        <4>4. SumFunctionOnSet(AmountOf', Refundable(b)')
                 = SumFunctionOnSet(AmountOf, Refundable(b)) - reservation[r].amount
          BY <1>6, <1>7, <4>1
        <4>. HIDE DEF delta
        <4>. QED  BY <1>2, <3>1, <4>2, <4>3, <4>4
      <3>4. CASE b \notin owed
        <4>1. Refundable(b)' = Refundable(b)
          BY <1>6, <3>4
        <4>. QED  BY <1>3, <1>7, <3>1, <3>4, <4>1
      <3>. QED  BY <3>3, <3>4
    <2>. QED  BY <2>1 DEF SinkCovers
  <1>11. SinkExact'
    <2>1. ASSUME NEW b \in BucketIDs, b \notin dropped, Current(b)
          PROVE  Bucket(b).committed = sunk'[b] + SumFunctionOnSet(DeltaOf', OwedIn(b)')
      <3>1. /\ Bucket(b).committed = sunk[b] + SumFunctionOnSet(DeltaOf, OwedIn(b))
            /\ SumFunctionOnSet(DeltaOf, OwedIn(b)) \in Int /\ sunk[b] \in Int
        BY <1>3, <2>1, SumTypes DEF SinkExact
      <3>2. /\ OwedIn(b) \in SUBSET Reservations /\ DeltaOf[r] = delta
            /\ \A x \in OwedIn(b) : DeltaOf[x] \in Int
        BY SumTypes
      <3>3. CASE b \in owed
        <4>1. r \in OwedIn(b) /\ \A x \in OwedIn(b) \ {r} : DeltaOf'[x] = DeltaOf[x]
          BY <1>6, <1>7, <3>2, <3>3
        <4>2. SumFunctionOnSet(DeltaOf', OwedIn(b) \ {r}) = SumFunctionOnSet(DeltaOf, OwedIn(b)) - DeltaOf[r]
          BY <3>2, <4>1, SumLeaves
        <4>3. sunk'[b] = sunk[b] + delta
          BY <1>3, <3>3
        <4>. HIDE DEF delta
        <4>. QED  BY <1>2, <1>6, <3>1, <3>2, <4>2, <4>3
      <3>4. CASE b \notin owed
        <4>1. OwedIn(b)' = OwedIn(b) /\ \A x \in OwedIn(b) : DeltaOf'[x] = DeltaOf[x]
          BY <1>6, <1>7, <3>2, <3>4
        <4>2. SumFunctionOnSet(DeltaOf', OwedIn(b)) = SumFunctionOnSet(DeltaOf, OwedIn(b))
          BY <3>2, <4>1, SumKeeps
        <4>. QED  BY <1>3, <3>1, <3>4, <4>1, <4>2
      <3>. QED  BY <3>3, <3>4
    <2>. QED  BY <1>1, <1>8, <2>1 DEF SinkExact
  <1>12. NoEmptyBucket' /\ UsageHasPolicy' /\ WithinWindow'
    BY <1>1 DEF NoEmptyBucket, UsageHasPolicy, WithinWindow
  <1>. QED  BY <1>4, <1>5, <1>9, <1>10, <1>11, <1>12

(* A late adjustment keeps the invariant.                                  *)
LEMMA AdjustStep ==
    ASSUME IInv, NEW now \in lastNow .. MaxTime, NEW r \in Reservations,
           NEW usage \in Usages, Adjust(r, usage, now)
    PROVE  IInv'
  <1>. USE DEF IInv
  <1>. DEFINE delta == Correction(r, usage)
              amount == reservation[r].amount
              B == reservation[r].buckets
              held == B \cap DOMAIN buckets
              fails == \/ usage < 0
                       \/ \E b \in held : buckets[b].committed + delta \notin 0 .. MaxInt
              upd == [b \in held |-> [buckets[b] EXCEPT !.committed = @ + delta]]
              quiet == delta = 0 \/ held = {}
  <1>0. ticket[r].state = "live" /\ UNCHANGED <<policyWindows, published, reservation, sunk, dropped>>
    BY DEF Adjust
  <1>1. CASE fails \/ B = {}
    <2>1. /\ ticket' = [ticket EXCEPT ![r].state = "spent"]
          /\ UNCHANGED <<lastNow, buckets, overrun>>
      BY <1>1 DEF Adjust
    <2>. QED  BY <1>0, <2>1, TicketDropped
  <1>2. CASE ~fails /\ B # {}
    <2>1. /\ buckets' = DiscardExpired(Store(buckets, upd), now)
          /\ lastNow' = now
          /\ ticket' = [ticket EXCEPT ![r] =
               IF quiet THEN [NoTicket EXCEPT !.state = "spent"]
               ELSE [state |-> "notify", delta |-> delta, owed |-> held]]
          /\ overrun' = IF delta > 0 THEN overrun \cup held ELSE overrun
      BY <1>2 DEF Adjust
    <2>2. [NoTicket EXCEPT !.state = "spent"] = [state |-> "spent", delta |-> 0, owed |-> {}]
      BY DEF NoTicket
    <2>3. /\ amount \in 1 .. MaxInt /\ MaxInt \in Nat /\ usage \in Nat /\ delta \in Int
          /\ delta + amount = usage /\ reservation[r].state = "final"
      BY <1>0, <1>2, TokenAssumption DEF TypeOK, Lives, Correction
    <2>4. held \subseteq BucketIDs /\ DOMAIN upd = held
      BY DEF TypeOK
    <2>5. ASSUME NEW b \in held
          PROVE  /\ upd[b] = [committed |-> Bucket(b).committed + delta, active |-> Bucket(b).active]
                 /\ upd[b] \in BucketRecord /\ Bucket(b) = buckets[b]
      <3>1. /\ buckets[b] \in BucketRecord /\ Bucket(b) = buckets[b]
            /\ buckets[b].committed + delta \in 0 .. MaxInt
        BY <1>2 DEF TypeOK, BucketRecord, Bucket
      <3>. HIDE DEF delta
      <3>2. upd[b] = [committed |-> Bucket(b).committed + delta, active |-> Bucket(b).active]
        BY <3>1 DEF BucketRecord
      <3>. HIDE DEF upd
      <3>. QED  BY <3>1, <3>2 DEF BucketRecord
    <2>. HIDE DEF fails, delta, upd, held
    <2>6. /\ \A b \in BucketIDs :
                LET new == IF b \in held THEN upd[b] ELSE Bucket(b) IN
                /\ Bucket(b)'.active = new.active
                /\ Current(b)' => Bucket(b)' = new /\ Current(b)
                /\ b \in DOMAIN buckets' => /\ b \in DOMAIN buckets /\ buckets'[b] = Bucket(b)'
                                            /\ Bucket(b)' = new /\ Bucket(b)' # EmptyBucket
          /\ DOMAIN buckets' \subseteq DOMAIN buckets
          /\ \A b \in DOMAIN buckets' : buckets'[b] \in BucketRecord
      <3>1. DOMAIN upd \subseteq DOMAIN buckets /\ \A b \in DOMAIN upd : upd[b] \in BucketRecord
        BY <2>4, <2>5 DEF held
      <3>. QED  BY <2>1, <2>4, <3>1, StoredStep
    <2>7. ASSUME NEW b \in BucketIDs
          PROVE  /\ Bucket(b)'.active = Bucket(b).active
                 /\ Current(b)' => /\ Current(b)
                                   /\ Bucket(b)'.committed = IF b \in held THEN Bucket(b).committed + delta
                                                             ELSE Bucket(b).committed
                 /\ b \in DOMAIN buckets' => /\ b \in DOMAIN buckets /\ buckets'[b] = Bucket(b)'
                                             /\ Bucket(b)' # EmptyBucket /\ Current(b)'
                 /\ Bucket(b).committed \in Nat /\ Bucket(b).active \in Nat /\ sunk[b] \in Int
      <3>1. CASE b \in held
        <4>1. upd[b] = [committed |-> Bucket(b).committed + delta, active |-> Bucket(b).active]
          BY <2>5, <3>1
        <4>. QED  BY <2>3, <2>6, <3>1, <4>1, BucketType DEF TypeOK, Current
      <3>2. CASE b \notin held
        BY <2>3, <2>6, <3>2, BucketType DEF TypeOK, Current
      <3>. QED  BY <3>1, <3>2
    <2>8. TypeOK'
      <3>. DEFINE Rec == [state: {"none", "live", "notify", "spent"}, delta: Int,
                          owed: SUBSET BucketIDs]
      <3>1. /\ ticket \in [Reservations -> Rec]
            /\ [state |-> "spent", delta |-> 0, owed |-> {}] \in Rec
            /\ [state |-> "notify", delta |-> delta, owed |-> held] \in Rec
        BY <2>3, <2>4 DEF TypeOK
      <3>. HIDE DEF Rec
      <3>2. ticket' \in [Reservations -> Rec]
        BY <2>1, <2>2, <3>1
      <3>3. lastNow' \in Times
        BY <2>1, TokenAssumption DEF TypeOK, Times
      <3>4. overrun' \subseteq BucketIDs
        BY <2>1, <2>4 DEF TypeOK
      <3>. QED  BY <1>0, <2>6, <3>2, <3>3, <3>4 DEF TypeOK, Rec, BucketRecord
    <2>9. Lives'
      <3>1. held \subseteq B
        BY DEF held
      <3>2. \A x \in Reservations : x # r => ticket'[x] = ticket[x]
        BY <2>1 DEF TypeOK
      <3>3. ticket'[r] \in {[state |-> "spent", delta |-> 0, owed |-> {}],
                            [state |-> "notify", delta |-> delta, owed |-> held]}
        BY <2>1, <2>2 DEF TypeOK
      <3>. QED  BY <1>0, <2>3, <3>1, <3>2, <3>3 DEF Lives
    <2>10. NoEmptyBucket' /\ UsageHasPolicy'
      BY <1>0, <2>6, <2>7 DEF NoEmptyBucket, UsageHasPolicy, TypeOK, EmptyBucket
    <2>11. ASSUME NEW b
           PROVE  /\ OpenIn(b)' = OpenIn(b) /\ LiveTicketsIn(b)' = LiveTicketsIn(b) \ {r}
                  /\ OwedIn(b)' = IF ~quiet /\ b \in held THEN OwedIn(b) \cup {r} ELSE OwedIn(b)
                  /\ Refundable(b)' = IF ~quiet /\ b \in held THEN Refundable(b)
                                      ELSE Refundable(b) \ {r}
                  /\ r \notin OwedIn(b) /\ (r \in LiveTicketsIn(b) <=> b \in B)
      <3>1. OpenIn(b)' = OpenIn(b)
        BY <1>0 DEF OpenIn, Unsettled
      <3>2. LiveTicketsIn(b)' = LiveTicketsIn(b) \ {r} /\ (r \in LiveTicketsIn(b) <=> b \in B)
        BY <1>0, <2>1, <2>2 DEF LiveTicketsIn, TypeOK
      <3>3. r \notin OwedIn(b)
        BY <1>0 DEF OwedIn
      <3>4. OwedIn(b)' = IF ~quiet /\ b \in held THEN OwedIn(b) \cup {r} ELSE OwedIn(b)
        BY <1>0, <2>1, <2>2 DEF OwedIn, TypeOK
      <3>5. b \in held => b \in B
        BY DEF held
      <3>. QED  BY <3>1, <3>2, <3>3, <3>4, <3>5 DEF Refundable
    <2>12. /\ AmountOf' = AmountOf /\ \A x \in Reservations \ {r} : DeltaOf'[x] = DeltaOf[x]
           /\ ~quiet => DeltaOf'[r] = delta
      BY <1>0, <2>1 DEF AmountOf, DeltaOf, TypeOK
    <2>. HIDE DEF AmountOf, DeltaOf
    <2>13. ActiveExact'
      BY <2>7, <2>11, <2>12 DEF ActiveExact
    <2>14. TicketsCovered'
      <3>1. ASSUME NEW b \in BucketIDs, b \notin dropped, Current(b)'
            PROVE  Bucket(b)'.committed >= SumFunctionOnSet(AmountOf', LiveTicketsIn(b)')
        <4>1. Bucket(b).committed >= SumFunctionOnSet(AmountOf, LiveTicketsIn(b))
          BY <2>7, <3>1 DEF TicketsCovered
        <4>2. LiveTicketsIn(b) \in SUBSET Reservations
          BY SumTypes
        <4>3. /\ SumFunctionOnSet(AmountOf, LiveTicketsIn(b)) \in Nat
              /\ SumFunctionOnSet(AmountOf, LiveTicketsIn(b) \ {r}) \in Nat
              /\ r \in LiveTicketsIn(b) => SumFunctionOnSet(AmountOf, LiveTicketsIn(b) \ {r})
                                            = SumFunctionOnSet(AmountOf, LiveTicketsIn(b)) - amount
              /\ SumFunctionOnSet(AmountOf, LiveTicketsIn(b) \ {r})
                    <= SumFunctionOnSet(AmountOf, LiveTicketsIn(b))
          BY <4>2, SumWithout
        <4>4. SumFunctionOnSet(AmountOf', LiveTicketsIn(b)')
                 = SumFunctionOnSet(AmountOf, LiveTicketsIn(b) \ {r})
          BY <2>11, <2>12
        <4>5. CASE b \in held
          <5>1. r \in LiveTicketsIn(b) /\ Bucket(b)'.committed = Bucket(b).committed + delta
            BY <2>7, <2>11, <3>1, <4>5 DEF held
          <5>. QED  BY <2>3, <2>7, <4>1, <4>3, <4>4, <5>1
        <4>6. CASE b \notin held
          BY <2>7, <3>1, <4>1, <4>3, <4>4, <4>6
        <4>. QED  BY <4>5, <4>6
      <3>. QED  BY <1>0, <3>1 DEF TicketsCovered
    <2>15. SinkCovers'
      <3>1. ASSUME NEW b \in BucketIDs
            PROVE  sunk[b] >= SumFunctionOnSet(AmountOf', Refundable(b)')
        <4>1. sunk[b] >= SumFunctionOnSet(AmountOf, Refundable(b)) /\ sunk[b] \in Int
          BY <2>7 DEF SinkCovers
        <4>2. /\ SumFunctionOnSet(AmountOf, Refundable(b)) \in Nat
              /\ SumFunctionOnSet(AmountOf, Refundable(b) \ {r}) \in Nat
              /\ SumFunctionOnSet(AmountOf, Refundable(b) \ {r})
                    <= SumFunctionOnSet(AmountOf, Refundable(b))
          BY SumTypes, SumWithout
        <4>3. \/ SumFunctionOnSet(AmountOf', Refundable(b)') = SumFunctionOnSet(AmountOf, Refundable(b))
              \/ SumFunctionOnSet(AmountOf', Refundable(b)') = SumFunctionOnSet(AmountOf, Refundable(b) \ {r})
          BY <2>11, <2>12
        <4>. QED  BY <4>1, <4>2, <4>3
      <3>. QED  BY <1>0, <3>1 DEF SinkCovers
    <2>16. SinkExact'
      <3>1. ASSUME NEW b \in BucketIDs, b \notin dropped, Current(b)'
            PROVE  Bucket(b)'.committed = sunk[b] + SumFunctionOnSet(DeltaOf', OwedIn(b)')
        <4>1. /\ Bucket(b).committed = sunk[b] + SumFunctionOnSet(DeltaOf, OwedIn(b))
              /\ SumFunctionOnSet(DeltaOf, OwedIn(b)) \in Int
          BY <2>7, <3>1, SumTypes DEF SinkExact
        <4>2. /\ OwedIn(b) \in SUBSET Reservations /\ r \notin OwedIn(b)
              /\ \A x \in OwedIn(b) : DeltaOf[x] \in Int /\ DeltaOf'[x] = DeltaOf[x]
          BY <2>11, <2>12, SumTypes
        <4>3. CASE ~quiet /\ b \in held
          <5>1. SumFunctionOnSet(DeltaOf', OwedIn(b) \cup {r}) = SumFunctionOnSet(DeltaOf, OwedIn(b)) + delta
            <6>1. DeltaOf'[r] = delta /\ DeltaOf'[r] \in Int
              BY <2>3, <2>12, <4>3
            <6>. QED  BY <4>2, <6>1, SumJoins
          <5>2. Bucket(b)'.committed = Bucket(b).committed + delta
            BY <2>7, <3>1, <4>3
          <5>3. OwedIn(b)' = OwedIn(b) \cup {r}
            BY <2>11, <4>3
          <5>. QED  BY <2>3, <2>7, <4>1, <5>1, <5>2, <5>3
        <4>4. CASE quiet \/ b \notin held
          <5>1. SumFunctionOnSet(DeltaOf', OwedIn(b)) = SumFunctionOnSet(DeltaOf, OwedIn(b))
            BY <4>2, SumKeeps
          <5>2. Bucket(b)'.committed = Bucket(b).committed
            BY <2>7, <3>1, <4>4
          <5>3. OwedIn(b)' = OwedIn(b)
            BY <2>11, <4>4
          <5>. QED  BY <4>1, <5>1, <5>2, <5>3
        <4>. QED  BY <4>3, <4>4
      <3>. QED  BY <1>0, <3>1 DEF SinkExact
    <2>17. WithinWindow'
      <3>1. ASSUME NEW b \in DOMAIN buckets', b \notin overrun'
            PROVE  buckets'[b].committed + buckets'[b].active <= b.window.amount
        <4>1. b \in DOMAIN buckets /\ b \in BucketIDs /\ b \notin overrun
          BY <2>1, <2>6, <3>1 DEF TypeOK
        <4>2. Bucket(b).committed + Bucket(b).active <= b.window.amount
          BY <4>1 DEF WithinWindow, Bucket
        <4>3. /\ buckets'[b].active = Bucket(b).active
              /\ buckets'[b].committed = IF b \in held THEN Bucket(b).committed + delta
                                         ELSE Bucket(b).committed
          BY <2>7, <3>1, <4>1
        <4>4. b \in held => ~(delta > 0)
          BY <2>1, <3>1
        <4>5. b.window.amount \in Int /\ Bucket(b).committed \in Int /\ Bucket(b).active \in Int
          BY <2>3, <2>7, <4>1, BucketIDFacts
        <4>. QED  BY <2>3, <4>2, <4>3, <4>4, <4>5
      <3>. QED  BY <3>1 DEF WithinWindow
    <2>. QED  BY <2>8, <2>9, <2>10, <2>13, <2>14, <2>15, <2>16, <2>17
  <1>. QED  BY <1>1, <1>2

(* The windows a replacement drops have no bucket left.                    *)
LEMMA ReplacePolicyStep ==
    ASSUME IInv, NEW now \in lastNow .. MaxTime, NEW k \in Keys, NEW new \in WindowSets,
           ReplacePolicy(k, new, now)
    PROVE  IInv'
  <1>. USE DEF IInv
  <1>. DEFINE fresh == DiscardExpired(buckets, now)
  <1>1. /\ buckets' = fresh /\ lastNow' = now
        /\ policyWindows' = [policyWindows EXCEPT ![k] = new]
        /\ published' = [published EXCEPT ![k] = @ \cup {new}]
        /\ UNCHANGED <<reservation, ticket, sunk, overrun, dropped>>
        /\ ReplacementAllowed(k, new, fresh)
    BY DEF ReplacePolicy
  <1>2. \A b \in DOMAIN fresh : /\ b \in DOMAIN buckets /\ fresh[b] = buckets[b]
                                /\ b.key \in Keys /\ b \in BucketIDs
    BY BucketIDFacts DEF DiscardExpired, TypeOK
  <1>3. policyWindows' \in [Keys -> WindowSets] /\ published' \in [Keys -> SUBSET WindowSets]
    BY <1>1 DEF TypeOK
  <1>4. UsageHasPolicy'
    <2>1. ASSUME NEW b \in DOMAIN fresh, b.key = k, b.window \notin new PROVE FALSE
      <3>1. b.window \in policyWindows[k]
        BY <1>2, <2>1 DEF UsageHasPolicy
      <3>2. fresh[b].committed = 0 /\ fresh[b].active = 0
        BY <1>1, <2>1, <3>1 DEF ReplacementAllowed
      <3>3. fresh[b] # EmptyBucket /\ fresh[b] \in BucketRecord
        BY <1>2 DEF NoEmptyBucket, TypeOK, BucketRecord
      <3>. QED  BY <3>2, <3>3 DEF EmptyBucket, BucketRecord
    <2>2. \A b \in DOMAIN fresh : b.window \in policyWindows'[b.key]
      BY <1>1, <1>2, <2>1 DEF UsageHasPolicy, TypeOK
    <2>. QED  BY <1>1, <2>2 DEF UsageHasPolicy
  <1>. QED  BY <1>1, <1>3, <1>4, SweepStep

(* Every step keeps the invariant.                                         *)
LEMMA NextIInv == IInv /\ [Next]_tokenVars => IInv'
  <1>. SUFFICES ASSUME IInv, [Next]_tokenVars PROVE IInv'
    OBVIOUS
  <1>1. CASE UNCHANGED tokenVars
    <2>1. lastNow \in lastNow .. MaxTime
      BY TokenAssumption DEF IInv, TypeOK, Times
    <2>2. UsageHasPolicy' /\ policyWindows' \in [Keys -> WindowSets]
          /\ published' \in [Keys -> SUBSET WindowSets]
      BY <1>1 DEF IInv, tokenVars, UsageHasPolicy, TypeOK
    <2>. QED  BY <1>1, <2>1, <2>2, SweepStep DEF tokenVars
  <1>2. ASSUME NEW now \in lastNow .. MaxTime, Sweep(now) \/ RetryAfterSeconds(now)
        PROVE  IInv'
    <2>1. /\ lastNow' = now /\ (buckets' = DiscardExpired(buckets, now) \/ buckets' = buckets)
          /\ UNCHANGED <<policyWindows, published, reservation, ticket, sunk, overrun, dropped>>
      BY <1>2 DEF Sweep, RetryAfterSeconds
    <2>2. UsageHasPolicy' /\ policyWindows' \in [Keys -> WindowSets]
          /\ published' \in [Keys -> SUBSET WindowSets]
      BY <2>1 DEF IInv, UsageHasPolicy, DiscardExpired, TypeOK
    <2>. QED  BY <2>1, <2>2, SweepStep
  <1>3. ASSUME NEW now \in lastNow .. MaxTime, NEW r \in Reservations,
               NEW usage \in Usages, Commit(r, usage, now)
        PROVE  IInv'
    <2>1. Finalize(r, usage, TRUE, now) /\ ticket' = IF FALSE THEN ticket ELSE ticket
      BY <1>3 DEF Commit
    <2>. QED  BY <2>1, FinalizeStep, TokenAssumption
  <1>4. ASSUME NEW now \in lastNow .. MaxTime, NEW r \in Reservations,
               AbortConservative(r, now) \/ ReleaseBeforeUpstream(r, now)
        PROVE  IInv'
    <2>1. reservation[r].amount \in Int
      BY DEF IInv, TypeOK
    <2>2. CASE AbortConservative(r, now)
      <3>1. /\ Finalize(r, reservation[r].amount, FALSE, now)
            /\ ticket' = IF FALSE THEN ticket ELSE ticket
        BY <2>2 DEF AbortConservative
      <3>. QED  BY <2>1, <3>1, FinalizeStep
    <2>3. CASE ReleaseBeforeUpstream(r, now)
      <3>. DEFINE usage == 0
                  actual == FALSE
                  deferred == FALSE
      <3>1. Finalize(r, usage, actual, now) /\ UNCHANGED ticket
        BY <2>3, Zenon DEF ReleaseBeforeUpstream
      <3>2. usage \in Int /\ actual \in BOOLEAN /\ deferred \in BOOLEAN /\ ~deferred
        OBVIOUS
      <3>. HIDE DEF usage, actual, deferred
      <3>3. ticket' = IF deferred THEN [ticket EXCEPT ![r].state = "live"] ELSE ticket
        BY <3>1, <3>2
      <3>. QED  BY <3>1, <3>2, <3>3, FinalizeStep
    <2>. QED  BY <1>4, <2>2, <2>3
  <1>5. ASSUME NEW now \in lastNow .. MaxTime, NEW r \in Reservations, CommitDeferred(r, now)
        PROVE  IInv'
    <2>1. reservation[r].amount \in Int
      BY DEF IInv, TypeOK
    <2>. QED  BY <1>5, <2>1, FinalizeStep DEF CommitDeferred
  <1>6. ASSUME NEW r \in Reservations, Invalidate(r) PROVE IInv'
    BY <1>6, TicketDropped DEF Invalidate
  <1>. QED  BY <1>1, <1>2, <1>3, <1>4, <1>5, <1>6, AdjustStep, NotifyStep, ReserveStep,
               ReserveUnlimitedStep, ReplacePolicyStep DEF Next

-----------------------------------------------------------------------------
(***************************************************************************)
(* IInv, the inductive invariant below, holds of every reachable state of  *)
(* the limiter of internal/limiter/token.go.                               *)
(***************************************************************************)
THEOREM TokenInvariant == Spec => []IInv
  BY InitIInv, NextIInv, PTL DEF Spec

(***************************************************************************)
(* The books of the limiter are exact, however many requests reserve,      *)
(* settle and correct concurrently and however windows and policies change *)
(* meanwhile: Reserve, finalize, Adjust, replacePolicy and                 *)
(* discardExpiredLocked of internal/limiter/token.go.                      *)
(***************************************************************************)
THEOREM TokenLedgerExact == Spec => []LedgerExact
  <1>1. IInv => LedgerExact
    <2>. SUFFICES ASSUME IInv PROVE LedgerExact
      OBVIOUS
    <2>1. RefundsCovered
      BY DEF IInv, RefundsCovered, TicketsCovered, Current, Bucket, TypeOK
    <2>. QED  BY <2>1 DEF IInv, LedgerExact
  <1>. QED  BY <1>1, TokenInvariant, PTL

(***************************************************************************)
(* No window is ever filled beyond its amount by reservations: only usage  *)
(* above an estimate, or usage that was loaded, can exceed it (Reserve).   *)
(***************************************************************************)
THEOREM TokenWindowsHold == Spec => []WithinWindow
  <1>1. IInv => WithinWindow
    BY DEF IInv
  <1>. QED  BY <1>1, TokenInvariant, PTL

(***************************************************************************)
(* The rows the persistence sink is told of converge to the committed      *)
(* totals and are never negative on the way, in whatever order the         *)
(* notifications of Adjust arrive after the mutex was released.            *)
(***************************************************************************)
THEOREM TokenSinkConverges == Spec => []SinkAgrees
  <1>1. IInv => SinkAgrees
    <2>. SUFFICES ASSUME IInv PROVE SinkAgrees
      OBVIOUS
    <2>1. ASSUME NEW b \in BucketIDs PROVE sunk[b] >= 0
      <3>1. /\ sunk[b] \in Int /\ SumFunctionOnSet(AmountOf, Refundable(b)) \in Nat
            /\ sunk[b] >= SumFunctionOnSet(AmountOf, Refundable(b))
        BY SumTypes DEF IInv, TypeOK, SinkCovers
      <3>. QED  BY <3>1
    <2>. QED  BY <2>1 DEF IInv, SinkAgrees, SinkNeverNegative, SinkExact
  <1>. QED  BY <1>1, TokenInvariant, PTL
=============================================================================
