------------------------- MODULE BudgetLimiterProofs -------------------------
(***************************************************************************)
(* The budget ledger is exact for any number of keys and reservations, any *)
(* policies, costs and months, and any run of the clock.                   *)
(*                                                                         *)
(* LedgerExact, WithinLimit and SinkAgrees are not inductive.  IInv adds   *)
(* the life of a reservation and of its ticket, that an unsettled          *)
(* reservation pins the generation of its key's state, that spend and sink *)
(* agree also in the scopes that may still be opened (a state that was     *)
(* deleted and comes back starts at zero), that the sink was told of every *)
(* charge an outstanding ticket may take back, and that the limits hold in *)
(* every scope, not only the current ones.                                 *)
(***************************************************************************)
EXTENDS BudgetLimiter, SumTheorems

Pending(r) == reservation[r].state \in {"open", "retained"}

(* The life of a reservation and of its ticket.                            *)
Lives ==
    \A r \in Reservations :
        /\ reservation[r].scopes # {} => reservation[r].amount > 0
        /\ reservation[r].state = "free" => reservation[r].scopes = {}
        /\ reservation[r].state # "final" =>
               reservation[r].owed = {} /\ reservation[r].ticket = "none"
        /\ reservation[r].owed \subseteq reservation[r].scopes
        /\ reservation[r].ticket = "live" => reservation[r].delta = reservation[r].amount
        /\ reservation[r].ticket = "spent" =>
               reservation[r].delta + reservation[r].amount >= 0
        /\ reservation[r].ticket = "none" => reservation[r].delta >= 0

(* States are records, and only a torn adjustment leaves unknown spend.    *)
StatesKnown ==
    \A k \in DOMAIN states :
        /\ states[k] = [generation |-> states[k].generation, entry |-> states[k].entry]
        /\ k \notin torn => \A s \in DOMAIN states[k].entry : states[k].entry[s].spent >= 0

GenerationPinned ==
    \A r \in Reservations :
        Pending(r) /\ reservation[r].scopes # {} /\ reservation[r].key \notin torn =>
            /\ HasState(reservation[r].key)
            /\ states[reservation[r].key].generation = reservation[r].generation

Stored(k, s) == HasState(k) /\ s \in DOMAIN states[k].entry
Current(s) == s.start >= PeriodStart(s.period, lastNow)

SinkExact ==
    \A k \in Keys \ torn, s \in Scopes :
        Stored(k, s) \/ Current(s) =>
            Entry(k, s).spent = sunk[k][s] + SumFunctionOnSet(DeltaOf, OwedIn(k, s))

(* Charges an outstanding ticket may still take back, or is taking back.   *)
Refundable(k, s) ==
    {r \in Reservations :
        /\ reservation[r].key = k /\ s \in reservation[r].scopes
        /\ \/ reservation[r].ticket = "live" /\ s \notin reservation[r].owed
           \/ reservation[r].ticket = "spent" /\ s \in reservation[r].owed}

SinkCovers ==
    \A k \in Keys, s \in Scopes :
        sunk[k][s] >= SumFunctionOnSet(AmountOf, Refundable(k, s))

WithinEvery ==
    \A k \in Keys, s \in Scopes :
        s.period \in DOMAIN policies[k] /\ [key |-> k, scope |-> s] \notin excused =>
            Entry(k, s).spent + Entry(k, s).active <= policies[k][s.period]

IInv == /\ TypeOK /\ Lives /\ StatesKnown /\ ActiveExact /\ GenerationPinned
        /\ SinkExact /\ SinkCovers /\ WithinEvery

-----------------------------------------------------------------------------
(* Periods and scopes.                                                     *)

(* A later instant starts no earlier period.                               *)
LEMMA ModuloFacts ==
    ASSUME NEW a \in Nat, NEW b \in Nat, a <= b, NEW d \in Nat \ {0}
    PROVE  /\ a % d \in 0 .. d - 1 /\ a - (a % d) \in Nat
           /\ a - (a % d) <= b - (b % d)
  <1>1. a % d \in 0 .. d - 1
    OBVIOUS
  <1>2. a - (a % d) <= b - (b % d)
    BY SMTT(30)
  <1>3. a - (a % d) \in Nat
    BY SMTT(30)
  <1>. QED  BY <1>1, <1>2, <1>3

(* The start of a period does not go back when the clock advances.         *)
LEMMA PeriodStartAdvances ==
    ASSUME NEW a \in Times, NEW b \in Times, a <= b, NEW p \in Periods
    PROVE  /\ PeriodStart(p, a) \in Nat
           /\ PeriodStart(p, a) <= PeriodStart(p, b)
  <1>1. a \in Nat /\ b \in Nat /\ MonthDays \in Nat \ {0}
    BY BudgetAssumption DEF Times
  <1>2. a - (a % MonthDays) \in Nat /\ a - (a % MonthDays) <= b - (b % MonthDays)
    BY <1>1, ModuloFacts
  <1>. QED  BY <1>1, <1>2 DEF PeriodStart, Periods

(* The scopes of an instant are scopes, and start when their periods do.   *)
LEMMA ScopeFacts ==
    ASSUME NEW now \in Times
    PROVE  /\ \A d \in Periods : /\ Scope(d, now) \in Scopes /\ Scope(d, now).period = d
                                 /\ Scope(d, now).start = PeriodStart(d, now)
                                 /\ Scope(d, now).start \in Nat
           /\ \A s \in Scopes : s.period \in Periods /\ s.start \in Nat
           /\ Total \in Scopes /\ Total.period = "total" /\ Total.start = 0
  <1>1. \A d \in Periods, t \in Times :
            /\ Scope(d, t) \in Scopes /\ Scope(d, t).period = d
            /\ Scope(d, t).start = PeriodStart(d, t) /\ Scope(d, t).start \in Nat
    <2>. TAKE d \in Periods, t \in Times
    <2>1. PeriodStart(d, t) \in Nat
      BY PeriodStartAdvances, BudgetAssumption DEF Times
    <2>. QED  BY <2>1 DEF Scope, Scopes
  <1>2. \A s \in Scopes : \E d \in Periods, t \in Times : s = Scope(d, t)
    BY DEF Scopes
  <1>3. 0 \in Times /\ "total" \in Periods
    BY BudgetAssumption DEF Times, Periods
  <1>4. Total \in Scopes /\ Total.period = "total" /\ Total.start = 0
    <2>1. Total = [period |-> "total", start |-> 0]
      BY DEF Total, Scope, PeriodStart
    <2>. QED  BY <1>1, <1>3, <2>1 DEF Total
  <1>5. \A s \in Scopes : s.period \in Periods /\ s.start \in Nat
    BY <1>1, <1>2
  <1>. HIDE DEF Total
  <1>. QED  BY <1>1, <1>4, <1>5

-----------------------------------------------------------------------------
(* The books.                                                              *)

EntryRecord == [spent : Money, active : Money]

(* What the ledger answers for any key and scope is an entry within the    *)
(* money range.                                                            *)
LEMMA EntryType ==
    ASSUME TypeOK, NEW k, NEW s
    PROVE  /\ Entry(k, s) \in EntryRecord /\ Entry(k, s).spent \in Int /\ Entry(k, s).active \in Int
           /\ Entry(k, s).spent >= Unknown /\ Entry(k, s).active >= Unknown
           /\ Entry(k, s).spent <= MaxMoney /\ Entry(k, s).active <= MaxMoney
  <1>1. ZeroEntry \in EntryRecord
    BY BudgetAssumption DEF ZeroEntry, EntryRecord, Money
  <1>2. Entry(k, s) \in EntryRecord
    BY <1>1 DEF TypeOK, Entry, HasState, EntryRecord
  <1>3. Entry(k, s).spent \in Money /\ Entry(k, s).active \in Money
    BY <1>2 DEF EntryRecord
  <1>. QED  BY <1>2, <1>3, BudgetAssumption DEF Money, Unknown

ReservationRecord(top) ==
    [state: {"free", "open", "final", "retained"}, key: Keys,
     generation: 0 .. top, amount: 0 .. MaxMoney, scopes: SUBSET Scopes,
     ticket: {"none", "live", "spent"}, delta: -MaxMoney .. MaxMoney,
     owed: SUBSET Scopes]

(* The fields of a reservation, one by one.                                *)
LEMMA ReservationType ==
    ASSUME TypeOK
    PROVE  \A r \in Reservations :
              /\ reservation[r] \in ReservationRecord(sequence)
              /\ reservation[r].amount \in Nat /\ reservation[r].amount <= MaxMoney
              /\ reservation[r].delta \in Int
              /\ reservation[r].key \in Keys /\ reservation[r].scopes \in SUBSET Scopes
              /\ AmountOf[r] = reservation[r].amount /\ DeltaOf[r] = reservation[r].delta
  BY BudgetAssumption DEF TypeOK, ReservationRecord, AmountOf, DeltaOf

(* The sums of the books are integers, and a sum covers each of its        *)
(* parts.                                                                  *)
LEMMA SumTypes ==
    ASSUME TypeOK, NEW k, NEW s
    PROVE  /\ SumFunctionOnSet(AmountOf, HeldIn(k, s)) \in Nat
           /\ SumFunctionOnSet(AmountOf, Refundable(k, s)) \in Nat
           /\ SumFunctionOnSet(DeltaOf, OwedIn(k, s)) \in Int
           /\ \A r \in HeldIn(k, s) :
                 reservation[r].amount <= SumFunctionOnSet(AmountOf, HeldIn(k, s))
  <1>1. /\ IsFiniteSet(HeldIn(k, s)) /\ IsFiniteSet(Refundable(k, s))
        /\ IsFiniteSet(OwedIn(k, s)) /\ HeldIn(k, s) \subseteq Reservations
    BY BudgetAssumption, FS_Subset DEF HeldIn, Refundable, OwedIn
  <1>2. \A r \in Reservations : AmountOf[r] \in Nat /\ DeltaOf[r] \in Int
    BY ReservationType
  <1>3. /\ \A r \in HeldIn(k, s) : AmountOf[r] \in Nat
        /\ \A r \in Refundable(k, s) : AmountOf[r] \in Nat
        /\ \A r \in OwedIn(k, s) : DeltaOf[r] \in Int
    BY <1>2 DEF HeldIn, Refundable, OwedIn
  <1>. QED  BY <1>1, <1>3, SumNat, SumRemove, ReservationType

(* Only reservation r changes: each sum changes by r's part in it.         *)
PartOf(r, S, n) == IF r \in S THEN n ELSE 0

(* A step that touches one reservation moves each sum by the part of that  *)
(* one.                                                                    *)
LEMMA BooksStep ==
    ASSUME TypeOK, TypeOK', NEW r \in Reservations,
           \A x \in Reservations \ {r} : reservation'[x] = reservation[x],
           NEW k, NEW s
    PROVE  /\ SumFunctionOnSet(AmountOf, HeldIn(k, s))'
                = SumFunctionOnSet(AmountOf, HeldIn(k, s))
                     - PartOf(r, HeldIn(k, s), reservation[r].amount)
                     + PartOf(r, HeldIn(k, s)', reservation'[r].amount)
           /\ SumFunctionOnSet(AmountOf, Refundable(k, s))'
                = SumFunctionOnSet(AmountOf, Refundable(k, s))
                     - PartOf(r, Refundable(k, s), reservation[r].amount)
                     + PartOf(r, Refundable(k, s)', reservation'[r].amount)
           /\ SumFunctionOnSet(DeltaOf, OwedIn(k, s))'
                = SumFunctionOnSet(DeltaOf, OwedIn(k, s))
                     - PartOf(r, OwedIn(k, s), reservation[r].delta)
                     + PartOf(r, OwedIn(k, s)', reservation'[r].delta)
  <1>1. IsFiniteSet(Reservations)
    BY BudgetAssumption
  <1>2. /\ HeldIn(k, s) \in SUBSET Reservations /\ HeldIn(k, s)' \in SUBSET Reservations
        /\ HeldIn(k, s) \ {r} = HeldIn(k, s)' \ {r}
    BY DEF HeldIn
  <1>3. /\ Refundable(k, s) \in SUBSET Reservations /\ Refundable(k, s)' \in SUBSET Reservations
        /\ Refundable(k, s) \ {r} = Refundable(k, s)' \ {r}
    BY DEF Refundable
  <1>4. /\ OwedIn(k, s) \in SUBSET Reservations /\ OwedIn(k, s)' \in SUBSET Reservations
        /\ OwedIn(k, s) \ {r} = OwedIn(k, s)' \ {r}
    BY DEF OwedIn
  <1>5. \A x \in Reservations : /\ AmountOf[x] = reservation[x].amount /\ AmountOf[x] \in Int
                                /\ DeltaOf[x] = reservation[x].delta /\ DeltaOf[x] \in Int
    BY ReservationType
  <1>6. \A x \in Reservations :
            /\ AmountOf'[x] = reservation'[x].amount /\ AmountOf'[x] \in Int
            /\ DeltaOf'[x] = reservation'[x].delta /\ DeltaOf'[x] \in Int
    BY BudgetAssumption DEF TypeOK, AmountOf, DeltaOf
  <1>7. \A x \in Reservations : /\ AmountOf[x] \in Int /\ AmountOf'[x] \in Int
                                /\ x # r => AmountOf'[x] = AmountOf[x]
    BY <1>5, <1>6
  <1>8. \A x \in Reservations : /\ DeltaOf[x] \in Int /\ DeltaOf'[x] \in Int
                                /\ x # r => DeltaOf'[x] = DeltaOf[x]
    BY <1>5, <1>6
  <1>9. SumFunctionOnSet(AmountOf', HeldIn(k, s)') = SumFunctionOnSet(AmountOf, HeldIn(k, s))
            - (IF r \in HeldIn(k, s) THEN AmountOf[r] ELSE 0)
            + (IF r \in HeldIn(k, s)' THEN AmountOf'[r] ELSE 0)
    <2>. DEFINE S == HeldIn(k, s)
                T == HeldIn(k, s)'
                f == AmountOf
                g == AmountOf'
    <2>1. DifferAt(Reservations, r, f, S, g, T)
      BY <1>1, <1>2, <1>7 DEF DifferAt
    <2>. HIDE DEF S, T, f, g
    <2>2. SumFunctionOnSet(g, T) = SumFunctionOnSet(f, S)
            - (IF r \in S THEN f[r] ELSE 0) + (IF r \in T THEN g[r] ELSE 0)
      BY <2>1, SumChange
    <2>. QED  BY <2>2 DEF S, T, f, g
  <1>10. SumFunctionOnSet(AmountOf', Refundable(k, s)')
            = SumFunctionOnSet(AmountOf, Refundable(k, s))
                 - (IF r \in Refundable(k, s) THEN AmountOf[r] ELSE 0)
                 + (IF r \in Refundable(k, s)' THEN AmountOf'[r] ELSE 0)
    <2>. DEFINE S == Refundable(k, s)
                T == Refundable(k, s)'
                f == AmountOf
                g == AmountOf'
    <2>1. DifferAt(Reservations, r, f, S, g, T)
      BY <1>1, <1>3, <1>7 DEF DifferAt
    <2>. HIDE DEF S, T, f, g
    <2>2. SumFunctionOnSet(g, T) = SumFunctionOnSet(f, S)
            - (IF r \in S THEN f[r] ELSE 0) + (IF r \in T THEN g[r] ELSE 0)
      BY <2>1, SumChange
    <2>. QED  BY <2>2 DEF S, T, f, g
  <1>11. SumFunctionOnSet(DeltaOf', OwedIn(k, s)') = SumFunctionOnSet(DeltaOf, OwedIn(k, s))
            - (IF r \in OwedIn(k, s) THEN DeltaOf[r] ELSE 0)
            + (IF r \in OwedIn(k, s)' THEN DeltaOf'[r] ELSE 0)
    <2>. DEFINE S == OwedIn(k, s)
                T == OwedIn(k, s)'
                f == DeltaOf
                g == DeltaOf'
    <2>1. DifferAt(Reservations, r, f, S, g, T)
      BY <1>1, <1>4, <1>8 DEF DifferAt
    <2>. HIDE DEF S, T, f, g
    <2>2. SumFunctionOnSet(g, T) = SumFunctionOnSet(f, S)
            - (IF r \in S THEN f[r] ELSE 0) + (IF r \in T THEN g[r] ELSE 0)
      BY <2>1, SumChange
    <2>. QED  BY <2>2 DEF S, T, f, g
  <1>. QED  BY <1>5, <1>6, <1>9, <1>10, <1>11 DEF PartOf

-----------------------------------------------------------------------------
(* The map of states after one state is stored or cleaned.                 *)

StateRecord(state) == state = [generation |-> state.generation, entry |-> state.entry]

(* The value of scope s in the entries of a state.                         *)
ValueIn(entry, s) == IF s \in DOMAIN entry THEN entry[s] ELSE ZeroEntry

(* Storing the entries of a key changes that key only, and forgets it      *)
(* only when empty.                                                        *)
LEMMA StoreEntry ==
    ASSUME NEW k \in DOMAIN states, StateRecord(states[k]), NEW entry,
           states' = StoreState(k, [states[k] EXCEPT !.entry = entry])
    PROVE  /\ \A x, s : Entry(x, s)' = IF x = k THEN ValueIn(entry, s) ELSE Entry(x, s)
           /\ DOMAIN states' \subseteq DOMAIN states
           /\ \A x \in DOMAIN states \ {k} : x \in DOMAIN states' /\ states'[x] = states[x]
           /\ k \in DOMAIN states' => /\ states'[k].generation = states[k].generation
                                      /\ states'[k].entry = entry
                                      /\ StateRecord(states'[k])
           /\ k \notin DOMAIN states' => entry = [s \in {Total} |-> ZeroEntry]
  <1>. DEFINE state == [states[k] EXCEPT !.entry = entry]
  <1>1. state.entry = entry /\ state.generation = states[k].generation /\ StateRecord(state)
    BY DEF StateRecord
  <1>. HIDE DEF state
  <1>. DEFINE gone == state.entry = [s \in {Total} |-> ZeroEntry]
              keys == IF gone THEN DOMAIN states \ {k} ELSE DOMAIN states \cup {k}
  <1>2. states' = [x \in keys |-> IF x = k THEN state ELSE states[x]]
    BY DEF StoreState, state
  <1>. HIDE DEF gone
  <1>3. gone => \A s : ValueIn(entry, s) = ZeroEntry
    BY <1>1 DEF ValueIn, gone
  <1>4. CASE gone
    <2>1. /\ DOMAIN states' = DOMAIN states \ {k}
          /\ \A x \in DOMAIN states \ {k} : states'[x] = states[x]
      BY <1>2, <1>4
    <2>2. \A x, s : Entry(x, s)' = IF x = k THEN ValueIn(entry, s) ELSE Entry(x, s)
      BY <1>3, <1>4, <2>1 DEF Entry, HasState
    <2>. QED  BY <1>1, <1>4, <2>1, <2>2 DEF gone
  <1>5. CASE ~gone
    <2>1. /\ DOMAIN states' = DOMAIN states /\ states'[k] = state
          /\ \A x \in DOMAIN states \ {k} : states'[x] = states[x]
      BY <1>2, <1>5
    <2>2. \A x, s : Entry(x, s)' = IF x = k THEN ValueIn(entry, s) ELSE Entry(x, s)
      BY <1>1, <2>1 DEF Entry, HasState, ValueIn
    <2>. QED  BY <1>1, <2>1, <2>2
  <1>. QED  BY <1>4, <1>5

(* What the rollover cleanup keeps of a key's state.                       *)
LEMMA DropPastFacts ==
    ASSUME IInv, NEW k \in DOMAIN states, NEW now \in lastNow .. MaxTime
    PROVE  LET kept == DropPast(states[k], now) IN
           /\ StateRecord(kept) /\ kept.generation = states[k].generation
           /\ DOMAIN kept.entry \subseteq DOMAIN states[k].entry
           /\ Total \in DOMAIN kept.entry
           /\ \A s \in DOMAIN kept.entry : kept.entry[s] = states[k].entry[s]
           /\ \A s \in DOMAIN states[k].entry \ DOMAIN kept.entry :
                 states[k].entry[s].active = 0 /\ ~(s.start >= PeriodStart(s.period, now))
  <1>. DEFINE old == states[k].entry
              Keep == {x \in DOMAIN old : \/ x.start >= PeriodStart(x.period, now)
                                          \/ old[x].active # 0}
              new == [s \in Keep |-> old[s]]
  <1>1. DropPast(states[k], now) = [states[k] EXCEPT !.entry = new]
    BY DEF DropPast
  <1>2. StateRecord(states[k]) /\ Total \in DOMAIN old
    BY DEF IInv, StatesKnown, TypeOK, StateRecord
  <1>3. Total.start >= PeriodStart(Total.period, now)
    BY DEF Total, Scope, PeriodStart
  <1>4. Total \in Keep
    BY <1>2, <1>3
  <1>5. DOMAIN new = Keep /\ \A s \in Keep : new[s] = old[s]
    OBVIOUS
  <1>. HIDE DEF new
  <1>6. LET kept == DropPast(states[k], now) IN
        /\ StateRecord(kept) /\ kept.generation = states[k].generation
        /\ kept.entry = new
    BY <1>1, <1>2 DEF StateRecord
  <1>. QED  BY <1>4, <1>5, <1>6

-----------------------------------------------------------------------------
(* The initial state.                                                      *)

(* Nothing is reserved or spent at the start.                              *)
LEMMA InitIInv == Init => IInv
  <1>. SUFFICES ASSUME Init PROVE IInv
    OBVIOUS
  <1>1. PICK p \in Policies, c \in Loaded :
            /\ policies = [k \in Keys |-> p] /\ states = LoadSpent(c, p)
            /\ excused = {[key |-> k, scope |-> Scope(d, 0)] :
                            k \in Keys, d \in {x \in DOMAIN p : c > p[x]}}
    BY DEF Init
  <1>2. c \in 0 .. MaxMoney /\ DOMAIN p \subseteq Periods /\ MaxMoney \in Nat
        /\ \A d \in DOMAIN p : p[d] \in 0 .. MaxMoney
    BY BudgetAssumption
  <1>3. 0 \in Times /\ lastNow = 0
    BY BudgetAssumption DEF Init, Times
  <1>. DEFINE dom == {Total} \cup {Scope(d, 0) : d \in DOMAIN p}
              full == [s \in dom |-> IF s.period \in DOMAIN p THEN [spent |-> c, active |-> 0]
                                     ELSE ZeroEntry]
              none == c = 0 \/ DOMAIN p = {}
  <1>4. dom \subseteq Scopes /\ Total \in dom
    BY <1>2, <1>3, ScopeFacts
  <1>5. /\ none => DOMAIN states = {}
        /\ ~none => DOMAIN states = Keys /\ \A k \in Keys : states[k] = [generation |-> 1, entry |-> full]
    BY <1>1 DEF LoadSpent
  <1>6. /\ DOMAIN full = dom
        /\ \A s \in dom : /\ full[s] \in [spent: Money, active: Money] /\ full[s].active = 0
                          /\ full[s].spent \in Nat
                          /\ s.period \in DOMAIN p => full[s].spent = c
                          /\ s.period \notin DOMAIN p => full[s].spent = 0
    BY <1>2 DEF Money, ZeroEntry
  <1>. HIDE DEF dom, full
  <1>7. \A k, s : /\ Entry(k, s).active = 0 /\ Entry(k, s).spent \in Nat
                  /\ Entry(k, s).spent # 0 => /\ s \in dom /\ s.period \in DOMAIN p
                                              /\ Entry(k, s).spent = c
    <2>. TAKE k, s
    <2>1. CASE ~none /\ k \in Keys /\ s \in dom
      BY <1>5, <1>6, <2>1 DEF Entry, HasState
    <2>2. CASE none \/ k \notin Keys \/ s \notin dom
      <3>1. Entry(k, s) = ZeroEntry
        BY <1>5, <1>6, <2>2 DEF Entry, HasState
      <3>. QED  BY <3>1 DEF ZeroEntry
    <2>. QED  BY <2>1, <2>2
  <1>8. \A s \in dom : s.period \in DOMAIN p => s = Scope(s.period, 0)
    <2>. TAKE s \in dom
    <2>1. CASE s = Total
      BY <2>1, <1>3, ScopeFacts DEF Total, Periods
    <2>2. CASE s # Total
      <3>1. PICK d \in DOMAIN p : s = Scope(d, 0)
        BY <2>2 DEF dom
      <3>2. s.period = d
        BY <3>1, <1>2, <1>3, ScopeFacts
      <3>. QED  BY <3>1, <3>2
    <2>. QED  BY <2>1, <2>2
  <1>9. \A r \in Reservations : reservation[r] = FreeReservation
    BY DEF Init
  <1>10. FreeReservation \in ReservationRecord(sequence)
    <2>1. (CHOOSE k \in Keys : TRUE) \in Keys
      BY BudgetAssumption
    <2>2. sequence \in Nat
      BY DEF Init
    <2>. QED  BY <1>2, <2>1, <2>2 DEF FreeReservation, NewReservation, ReservationRecord
  <1>11. TypeOK
    <2>1. \A k \in DOMAIN states :
             /\ states[k].generation \in 1 .. sequence
             /\ Total \in DOMAIN states[k].entry
             /\ DOMAIN states[k].entry \subseteq Scopes
             /\ \A s \in DOMAIN states[k].entry :
                   states[k].entry[s] \in [spent: Money, active: Money]
      BY <1>4, <1>5, <1>6 DEF Init
    <2>2. sunk \in [Keys -> [Scopes -> Int]]
      BY <1>7 DEF Init
    <2>3. reservation \in [Reservations -> ReservationRecord(sequence)]
      BY <1>10 DEF Init
    <2>4. policies \in [Keys -> Policies] /\ torn \subseteq Keys /\ lastNow \in Times
          /\ sequence \in Nat /\ DOMAIN states \subseteq Keys
      BY <1>1, <1>3, <1>5 DEF Init
    <2>. QED  BY <2>1, <2>2, <2>3, <2>4 DEF TypeOK, ReservationRecord
  <1>a. /\ FreeReservation.state = "free" /\ FreeReservation.scopes = {}
        /\ FreeReservation.owed = {} /\ FreeReservation.ticket = "none"
        /\ FreeReservation.delta = 0
    BY DEF FreeReservation, NewReservation
  <1>12. Lives
    BY <1>9, <1>a DEF Lives
  <1>13. StatesKnown
    BY <1>5, <1>6 DEF StatesKnown
  <1>14. \A k, s : HeldIn(k, s) = {} /\ OwedIn(k, s) = {} /\ Refundable(k, s) = {}
    BY <1>9, <1>a DEF HeldIn, OwedIn, Refundable
  <1>15. ActiveExact
    BY <1>7, <1>14, SumEmpty DEF ActiveExact
  <1>16. GenerationPinned
    BY <1>9, <1>a DEF GenerationPinned, Pending
  <1>17. \A k \in Keys, s \in Scopes : sunk[k][s] = Entry(k, s).spent
    BY DEF Init
  <1>18. \A k \in Keys, s \in Scopes : sunk[k][s] \in Nat
    BY <1>7, <1>17
  <1>b. SinkExact
    <2>1. \A k, s : SumFunctionOnSet(DeltaOf, OwedIn(k, s)) = 0
      BY <1>14, SumEmpty
    <2>. QED  BY <1>17, <1>18, <2>1 DEF SinkExact
  <1>19. SinkCovers
    <2>1. \A k, s : SumFunctionOnSet(AmountOf, Refundable(k, s)) = 0
      BY <1>14, SumEmpty
    <2>. QED  BY <1>18, <2>1 DEF SinkCovers
  <1>20. WithinEvery
    <2>. SUFFICES ASSUME NEW k \in Keys, NEW s \in Scopes, s.period \in DOMAIN p,
                         [key |-> k, scope |-> s] \notin excused
                  PROVE  Entry(k, s).spent + Entry(k, s).active <= p[s.period]
      BY <1>1 DEF WithinEvery
    <2>1. CASE Entry(k, s).spent = 0
      BY <1>2, <1>7, <2>1
    <2>2. CASE Entry(k, s).spent # 0
      <3>1. Entry(k, s).spent = c /\ s = Scope(s.period, 0) /\ s.period \in DOMAIN p
        BY <1>7, <1>8, <2>2
      <3>2. ~(c > p[s.period])
        BY <1>1, <3>1
      <3>. QED  BY <1>2, <1>7, <3>1, <3>2
    <2>. QED  BY <2>1, <2>2
  <1>. QED  BY <1>11, <1>12, <1>13, <1>15, <1>16, <1>b, <1>19, <1>20 DEF IInv

-----------------------------------------------------------------------------
(* Steps that only let time pass, clean up, or open a reservation that     *)
(* holds nothing.                                                          *)

(* Key k's state, if it has one, is cleaned; or nothing happens.           *)
Cleaned(k, now) ==
    states' = [x \in DOMAIN states |-> IF x = k THEN DropPast(states[x], now) ELSE states[x]]

(* Cleaning forgets ended periods that hold no reservation, and nothing    *)
(* else.                                                                   *)
LEMMA CleanFacts ==
    ASSUME IInv, NEW k, NEW now \in lastNow .. MaxTime, Cleaned(k, now) \/ states' = states,
           lastNow' = now
    PROVE  /\ DOMAIN states' = DOMAIN states
           /\ \A x \in DOMAIN states :
                 /\ StateRecord(states'[x]) /\ states'[x].generation = states[x].generation
                 /\ DOMAIN states'[x].entry \subseteq DOMAIN states[x].entry
                 /\ Total \in DOMAIN states'[x].entry
                 /\ \A s \in DOMAIN states'[x].entry : states'[x].entry[s] = states[x].entry[s]
           /\ \A x, s : /\ Entry(x, s)'.active = Entry(x, s).active
                        /\ Entry(x, s)' = Entry(x, s) \/ Entry(x, s)' = ZeroEntry
                        /\ Stored(x, s)' \/ Current(s)' => Entry(x, s)' = Entry(x, s)
                        /\ Stored(x, s)' => Stored(x, s)
           /\ \A s \in Scopes : Current(s)' => Current(s)
  <1>1. /\ DOMAIN states' = DOMAIN states
        /\ \A x \in DOMAIN states :
              /\ StateRecord(states'[x]) /\ states'[x].generation = states[x].generation
              /\ DOMAIN states'[x].entry \subseteq DOMAIN states[x].entry
              /\ Total \in DOMAIN states'[x].entry
              /\ \A s \in DOMAIN states'[x].entry : states'[x].entry[s] = states[x].entry[s]
              /\ \A s \in DOMAIN states[x].entry \ DOMAIN states'[x].entry :
                    states[x].entry[s].active = 0 /\ ~(s.start >= PeriodStart(s.period, now))
    <2>1. CASE states' = states
      BY <2>1 DEF IInv, TypeOK, StatesKnown, StateRecord
    <2>2. CASE Cleaned(k, now)
      <3>1. /\ DOMAIN states' = DOMAIN states
            /\ \A x \in DOMAIN states :
                  states'[x] = IF x = k THEN DropPast(states[x], now) ELSE states[x]
        BY <2>2 DEF Cleaned
      <3>2. \A x \in DOMAIN states : StateRecord(states[x]) /\ Total \in DOMAIN states[x].entry
        BY DEF IInv, StatesKnown, StateRecord, TypeOK
      <3>. QED  BY <3>1, <3>2, DropPastFacts
    <2>. QED  BY <2>1, <2>2
  <1>2. ASSUME NEW x, NEW s
        PROVE  /\ Entry(x, s)'.active = Entry(x, s).active
               /\ Entry(x, s)' = Entry(x, s) \/ Entry(x, s)' = ZeroEntry
               /\ Stored(x, s)' \/ Current(s)' => Entry(x, s)' = Entry(x, s)
               /\ Stored(x, s)' => Stored(x, s)
    <2>1. CASE x \in DOMAIN states /\ s \in DOMAIN states'[x].entry
      BY <1>1, <2>1 DEF Entry, HasState, Stored
    <2>2. CASE x \in DOMAIN states /\ s \notin DOMAIN states'[x].entry
      <3>1. Entry(x, s)' = ZeroEntry /\ ~Stored(x, s)'
        BY <1>1, <2>2 DEF Entry, HasState, Stored
      <3>2. CASE s \notin DOMAIN states[x].entry
        BY <3>1, <3>2 DEF Entry, HasState
      <3>3. CASE s \in DOMAIN states[x].entry
        <4>1. Entry(x, s).active = 0 /\ ~Current(s)'
          BY <1>1, <2>2, <3>3 DEF Entry, HasState, Current
        <4>. QED  BY <3>1, <4>1 DEF ZeroEntry
      <3>. QED  BY <3>2, <3>3
    <2>3. CASE x \notin DOMAIN states
      BY <1>1, <2>3 DEF Entry, HasState, Stored
    <2>. QED  BY <2>1, <2>2, <2>3
  <1>3. ASSUME NEW s \in Scopes, Current(s)' PROVE Current(s)
    <2>1. lastNow \in Times /\ now \in Times /\ lastNow <= now
      BY BudgetAssumption DEF IInv, TypeOK, Times
    <2>2. s.period \in Periods /\ s.start \in Nat
      BY <2>1, ScopeFacts
    <2>3. /\ PeriodStart(s.period, lastNow) <= PeriodStart(s.period, now)
          /\ PeriodStart(s.period, lastNow) \in Nat /\ PeriodStart(s.period, now) \in Nat
      BY <2>1, <2>2, PeriodStartAdvances
    <2>. QED  BY <1>3, <2>2, <2>3 DEF Current
  <1>. QED  BY <1>1, <1>2, <1>3

(* Cleaning, with a step that reserves nothing, keeps the invariant.       *)
LEMMA CleanStep ==
    ASSUME IInv, NEW k, NEW now \in lastNow .. MaxTime, Cleaned(k, now) \/ states' = states,
           lastNow' = now, UNCHANGED <<policies, sequence, sunk, excused, torn>>,
           reservation' \in [Reservations -> ReservationRecord(sequence)], Lives',
           \A r \in Reservations :
               \/ reservation'[r] = reservation[r]
               \/ /\ reservation[r].scopes = {} /\ reservation'[r].scopes = {}
                  /\ reservation[r].owed = {} /\ reservation'[r].owed = {}
    PROVE  IInv'
  <1>. USE DEF IInv
  <1>1. /\ DOMAIN states' = DOMAIN states
        /\ \A x \in DOMAIN states :
              /\ StateRecord(states'[x]) /\ states'[x].generation = states[x].generation
              /\ DOMAIN states'[x].entry \subseteq DOMAIN states[x].entry
              /\ Total \in DOMAIN states'[x].entry
              /\ \A s \in DOMAIN states'[x].entry : states'[x].entry[s] = states[x].entry[s]
    BY CleanFacts
  <1>2. /\ \A x, s : /\ Entry(x, s)'.active = Entry(x, s).active
                     /\ Entry(x, s)' = Entry(x, s) \/ Entry(x, s)' = ZeroEntry
                     /\ Stored(x, s)' \/ Current(s)' => Entry(x, s)' = Entry(x, s)
                     /\ Stored(x, s)' => Stored(x, s)
        /\ \A s \in Scopes : Current(s)' => Current(s)
    BY CleanFacts
  <1>3. TypeOK'
    <2>1. now \in Times
      BY BudgetAssumption DEF TypeOK, Times
    <2>2. \A x \in DOMAIN states' :
             /\ states'[x].generation \in 1 .. sequence'
             /\ Total \in DOMAIN states'[x].entry
             /\ DOMAIN states'[x].entry \subseteq Scopes
             /\ \A s \in DOMAIN states'[x].entry :
                   states'[x].entry[s] \in [spent: Money, active: Money]
      BY <1>1 DEF TypeOK
    <2>. QED  BY <1>1, <2>1, <2>2 DEF TypeOK, ReservationRecord
  <1>4. StatesKnown'
    BY <1>1 DEF StatesKnown, StateRecord
  <1>5. \A x, s : /\ HeldIn(x, s)' = HeldIn(x, s) /\ OwedIn(x, s)' = OwedIn(x, s)
                  /\ Refundable(x, s)' = Refundable(x, s)
    BY DEF HeldIn, OwedIn, Refundable
  <1>6. \A r \in Reservations : reservation[r].scopes # {} \/ reservation[r].owed # {} =>
            AmountOf'[r] = AmountOf[r] /\ DeltaOf'[r] = DeltaOf[r]
    BY DEF AmountOf, DeltaOf
  <1>7. ASSUME NEW x, NEW s
        PROVE  /\ SumFunctionOnSet(AmountOf, HeldIn(x, s))' = SumFunctionOnSet(AmountOf, HeldIn(x, s))
               /\ SumFunctionOnSet(DeltaOf, OwedIn(x, s))' = SumFunctionOnSet(DeltaOf, OwedIn(x, s))
               /\ SumFunctionOnSet(AmountOf, Refundable(x, s))'
                    = SumFunctionOnSet(AmountOf, Refundable(x, s))
    <2>1. /\ IsFiniteSet(HeldIn(x, s)) /\ IsFiniteSet(OwedIn(x, s))
          /\ IsFiniteSet(Refundable(x, s))
      BY BudgetAssumption, FS_Subset DEF HeldIn, OwedIn, Refundable
    <2>2. /\ \A r \in HeldIn(x, s) : AmountOf'[r] = AmountOf[r]
          /\ \A r \in OwedIn(x, s) : DeltaOf'[r] = DeltaOf[r]
          /\ \A r \in Refundable(x, s) : AmountOf'[r] = AmountOf[r]
      BY <1>6 DEF HeldIn, OwedIn, Refundable
    <2>. DEFINE a == AmountOf
                b == AmountOf'
                d == DeltaOf
                e == DeltaOf'
    <2>. HIDE DEF a, b, d, e
    <2>3. /\ SumFunctionOnSet(b, HeldIn(x, s)) = SumFunctionOnSet(a, HeldIn(x, s))
          /\ SumFunctionOnSet(b, Refundable(x, s)) = SumFunctionOnSet(a, Refundable(x, s))
          /\ SumFunctionOnSet(e, OwedIn(x, s)) = SumFunctionOnSet(d, OwedIn(x, s))
      BY <2>1, <2>2, SumSame DEF a, b, d, e
    <2>. QED  BY <1>5, <2>3 DEF a, b, d, e
  <1>8. ActiveExact'
    BY <1>2, <1>7 DEF ActiveExact
  <1>9. GenerationPinned'
    BY <1>1 DEF GenerationPinned, Pending, HasState
  <1>10. SinkExact'
    BY <1>2, <1>7 DEF SinkExact
  <1>11. SinkCovers'
    BY <1>7 DEF SinkCovers
  <1>12. WithinEvery'
    <2>. SUFFICES ASSUME NEW x \in Keys, NEW s \in Scopes, s.period \in DOMAIN policies[x],
                         [key |-> x, scope |-> s] \notin excused
                  PROVE  Entry(x, s)'.spent + Entry(x, s)'.active <= policies[x][s.period]
      BY DEF WithinEvery
    <2>1. CASE Entry(x, s)' = Entry(x, s)
      BY <2>1 DEF WithinEvery
    <2>2. CASE Entry(x, s)' = ZeroEntry
      <3>1. policies[x] \in Policies
        BY DEF TypeOK
      <3>2. policies[x][s.period] \in 0 .. MaxMoney
        BY <3>1, BudgetAssumption
      <3>. QED  BY <2>2, <3>2, BudgetAssumption DEF ZeroEntry
    <2>. QED  BY <1>2, <2>1, <2>2
  <1>. QED  BY <1>3, <1>4, <1>8, <1>9, <1>10, <1>11, <1>12

(* A refused reservation keeps the invariant.                              *)
LEMMA RefuseStep ==
    ASSUME IInv, NEW k \in Keys, NEW amount \in Amounts, NEW now \in lastNow .. MaxTime,
           Refuse(k, amount, now)
    PROVE  IInv'
  <1>1. states' = [states EXCEPT ![k] = DropPast(@, now)] /\ k \in DOMAIN states
        /\ lastNow' = now /\ UNCHANGED <<policies, sequence, reservation, sunk, excused, torn>>
    BY DEF Refuse, HasState
  <1>2. Cleaned(k, now)
    BY <1>1 DEF Cleaned
  <1>3. reservation' \in [Reservations -> ReservationRecord(sequence)] /\ Lives'
    BY <1>1 DEF IInv, TypeOK, ReservationRecord, Lives
  <1>. QED  BY <1>1, <1>2, <1>3, CleanStep

(* The computation of a retry time keeps the invariant.                    *)
LEMMA RetryStep ==
    ASSUME IInv, NEW now \in lastNow .. MaxTime, RetryAfterSeconds(now)
    PROVE  IInv'
  <1>1. reservation' \in [Reservations -> ReservationRecord(sequence)] /\ Lives'
    BY DEF IInv, TypeOK, ReservationRecord, Lives, RetryAfterSeconds
  <1>. QED  BY <1>1, CleanStep DEF RetryAfterSeconds

(* A reservation that no budget restricts keeps the invariant.             *)
LEMMA ReserveNothingStep ==
    ASSUME IInv, NEW r \in Reservations, NEW k \in Keys, NEW amount \in Amounts,
           NEW now \in lastNow .. MaxTime, ReserveNothing(r, k, amount, now)
    PROVE  IInv'
  <1>. DEFINE kept == IF HasState(k) THEN DropPast(states[k], now) ELSE NewState(0)
              new == NewReservation("open", k, amount, 0, {})
  <1>1. /\ reservation[r].state = "free"
        /\ reservation' = [reservation EXCEPT ![r] = new]
        /\ UNCHANGED <<policies, sequence, sunk, excused, torn>>
    BY DEF ReserveNothing
  <1>2. \E t \in lastNow .. MaxTime : lastNow' = t /\ (Cleaned(k, t) \/ states' = states)
    <2>1. CASE UNCHANGED <<lastNow, states>>
      BY <2>1, BudgetAssumption DEF IInv, TypeOK, Times
    <2>2. CASE lastNow' = now /\ states' = [x \in DOMAIN states |-> IF x = k THEN kept ELSE states[x]]
      <3>1. Cleaned(k, now)
        BY <2>2 DEF Cleaned, HasState
      <3>. QED  BY <2>2, <3>1
    <2>. QED  BY <2>1, <2>2 DEF ReserveNothing
  <1>3. new = [state |-> "open", key |-> k, generation |-> 0, amount |-> amount, scopes |-> {},
               ticket |-> "none", delta |-> 0, owed |-> {}]
    BY DEF NewReservation
  <1>. HIDE DEF new
  <1>4. new \in ReservationRecord(sequence)
    BY <1>3, BudgetAssumption DEF IInv, TypeOK, ReservationRecord
  <1>5. reservation \in [Reservations -> ReservationRecord(sequence)]
    BY DEF IInv, TypeOK, ReservationRecord
  <1>6. reservation' \in [Reservations -> ReservationRecord(sequence)]
    BY <1>1, <1>4, <1>5
  <1>7. \A x \in Reservations : reservation'[x] = IF x = r THEN new ELSE reservation[x]
    BY <1>1, <1>5
  <1>8. Lives'
    BY <1>3, <1>7 DEF IInv, Lives
  <1>9. \A x \in Reservations :
            \/ reservation'[x] = reservation[x]
            \/ /\ reservation[x].scopes = {} /\ reservation'[x].scopes = {}
               /\ reservation[x].owed = {} /\ reservation'[x].owed = {}
    BY <1>1, <1>3, <1>7 DEF IInv, Lives
  <1>. QED  BY <1>1, <1>2, <1>6, <1>8, <1>9, CleanStep

-----------------------------------------------------------------------------
(* Admission.                                                              *)

(* The scopes Reserve captures, and the generation it captures them of.    *)
ScopesAt(k, now) == {Scope(d, now) : d \in DOMAIN policies[k]}
GenerationFor(k) == IF HasState(k) THEN states[k].generation ELSE sequence + 1

(* What a successful Reserve makes of the books.                           *)
Reserved(r, k, amount, now) ==
    /\ DOMAIN states' = DOMAIN states \cup {k}
    /\ \A x \in DOMAIN states \ {k} : states'[x] = states[x]
    /\ StateRecord(states'[k]) /\ states'[k].generation = GenerationFor(k)
    /\ ScopesAt(k, now) \cup {Total} \subseteq DOMAIN states'[k].entry
    /\ \A s \in DOMAIN states'[k].entry :
          s \in ScopesAt(k, now) \/ s = Total \/ Stored(k, s)
    /\ \A x, s : x # k => Entry(x, s)' = Entry(x, s)
    /\ \A s \in ScopesAt(k, now) :
          /\ Entry(k, s)' \in [spent : Int, active : Int]
          /\ Entry(k, s)'.spent = Entry(k, s).spent
          /\ Entry(k, s)'.active = Entry(k, s).active + amount
    /\ \A s : s \notin ScopesAt(k, now) =>
          /\ Entry(k, s)'.active = Entry(k, s).active
          /\ Entry(k, s)' = Entry(k, s) \/ Entry(k, s)' = ZeroEntry
          /\ Stored(k, s)' \/ Current(s)' => Entry(k, s)' = Entry(k, s)
    /\ reservation' = [reservation EXCEPT ![r] =
           NewReservation("open", k, amount, GenerationFor(k), ScopesAt(k, now))]

(* What a granted reservation does to the ledger.                          *)
LEMMA ReserveEntries ==
    ASSUME IInv, NEW r \in Reservations, NEW k \in Keys, NEW amount \in Amounts,
           NEW now \in lastNow .. MaxTime, Reserve(r, k, amount, now)
    PROVE  Reserved(r, k, amount, now)
  <1>. USE DEF IInv
  <1>. DEFINE p == policies[k]
              scopes == ScopesAt(k, now)
              kept == IF HasState(k) THEN DropPast(states[k], now) ELSE NewState(sequence + 1)
              val(s) == IF s \in scopes THEN [Entry(k, s) EXCEPT !.active = @ + amount]
                        ELSE Entry(k, s)
              entry == [s \in DOMAIN kept.entry \cup scopes |-> val(s)]
              new == [kept EXCEPT !.entry = entry]
              generation == GenerationFor(k)
  <1>1. /\ lastNow' = now
        /\ states' = [x \in DOMAIN states \cup {k} |-> IF x = k THEN new ELSE states[x]]
        /\ reservation' = [reservation EXCEPT ![r] =
                              NewReservation("open", k, amount, kept.generation, scopes)]
    BY DEF Reserve, ScopesAt
  <1>2. /\ StateRecord(kept) /\ kept.generation = generation /\ Total \in DOMAIN kept.entry
        /\ \A s \in DOMAIN kept.entry : s = Total \/ Stored(k, s)
        /\ \A s : s \notin DOMAIN kept.entry =>
              \/ Entry(k, s) = ZeroEntry
              \/ Entry(k, s).active = 0 /\ ~(s.start >= PeriodStart(s.period, now))
    <2>1. CASE HasState(k)
      <3>1. kept = DropPast(states[k], now) /\ k \in DOMAIN states
        BY <2>1 DEF HasState
      <3>. HIDE DEF kept
      <3>. QED  BY <2>1, <3>1, DropPastFacts DEF Stored, Entry, HasState, GenerationFor
    <2>2. CASE ~HasState(k)
      <3>1. kept = NewState(sequence + 1)
        BY <2>2
      <3>. HIDE DEF kept
      <3>. QED  BY <2>2, <3>1 DEF NewState, StateRecord, Entry, GenerationFor
    <2>. QED  BY <2>1, <2>2
  <1>. HIDE DEF kept
  <1>3. /\ DOMAIN entry = DOMAIN kept.entry \cup scopes
        /\ \A s \in DOMAIN kept.entry \cup scopes : entry[s] = val(s)
    OBVIOUS
  <1>. HIDE DEF entry
  <1>4. StateRecord(new) /\ new.generation = generation /\ new.entry = entry
    BY <1>2 DEF StateRecord
  <1>. HIDE DEF new
  <1>5. /\ DOMAIN states' = DOMAIN states \cup {k} /\ states'[k] = new
        /\ \A x \in DOMAIN states \ {k} : states'[x] = states[x]
    BY <1>1
  <1>6. \A x, s : x # k => Entry(x, s)' = Entry(x, s)
    BY <1>5 DEF Entry, HasState
  <1>7. \A s : Entry(k, s)' = IF s \in DOMAIN kept.entry \cup scopes THEN val(s) ELSE ZeroEntry
    BY <1>3, <1>4, <1>5 DEF Entry, HasState
  <1>8. \A s \in scopes : /\ Entry(k, s)' \in [spent : Int, active : Int]
                          /\ Entry(k, s)'.spent = Entry(k, s).spent
                          /\ Entry(k, s)'.active = Entry(k, s).active + amount
    <2>. TAKE s \in scopes
    <2>1. Entry(k, s) \in [spent : Int, active : Int] /\ amount \in Int
      BY EntryType, BudgetAssumption DEF EntryRecord
    <2>2. Entry(k, s)' = [Entry(k, s) EXCEPT !.active = @ + amount]
      BY <1>7
    <2>. QED  BY <2>1, <2>2
  <1>9. ASSUME NEW s, s \notin scopes
        PROVE  /\ Entry(k, s)'.active = Entry(k, s).active
               /\ Entry(k, s)' = Entry(k, s) \/ Entry(k, s)' = ZeroEntry
               /\ Stored(k, s)' \/ Current(s)' => Entry(k, s)' = Entry(k, s)
    <2>1. CASE s \in DOMAIN kept.entry
      BY <1>7, <1>9, <2>1
    <2>2. CASE s \notin DOMAIN kept.entry
      <3>1. Entry(k, s)' = ZeroEntry /\ ~Stored(k, s)'
        BY <1>3, <1>4, <1>5, <1>7, <1>9, <2>2 DEF Stored
      <3>2. Entry(k, s) = ZeroEntry \/ (Entry(k, s).active = 0 /\ ~Current(s)')
        BY <1>1, <1>2, <2>2 DEF Current
      <3>. QED  BY <3>1, <3>2 DEF ZeroEntry
    <2>. QED  BY <2>1, <2>2
  <1>10. /\ scopes \cup {Total} \subseteq DOMAIN states'[k].entry
         /\ \A s \in DOMAIN states'[k].entry : s \in scopes \/ s = Total \/ Stored(k, s)
    BY <1>2, <1>3, <1>4, <1>5
  <1>11. StateRecord(states'[k]) /\ states'[k].generation = generation
    BY <1>4, <1>5
  <1>12. reservation' = [reservation EXCEPT ![r] =
                            NewReservation("open", k, amount, generation, scopes)]
    BY <1>1, <1>2
  <1>. QED  BY <1>5, <1>6, <1>8, <1>9, <1>10, <1>11, <1>12 DEF Reserved

(* A granted reservation keeps the invariant.                              *)
LEMMA ReserveStep ==
    ASSUME IInv, NEW r \in Reservations, NEW k \in Keys, NEW amount \in Amounts,
           NEW now \in lastNow .. MaxTime, Reserve(r, k, amount, now)
    PROVE  IInv'
  <1>. DEFINE p == policies[k]
              scopes == ScopesAt(k, now)
              generation == GenerationFor(k)
              new == NewReservation("open", k, amount, generation, scopes)
  <1>0. Reserved(r, k, amount, now)
    BY ReserveEntries
  <1>1. /\ DOMAIN states' = DOMAIN states \cup {k}
        /\ \A x \in DOMAIN states \ {k} : states'[x] = states[x]
        /\ StateRecord(states'[k]) /\ states'[k].generation = generation
        /\ scopes \cup {Total} \subseteq DOMAIN states'[k].entry
        /\ \A s \in DOMAIN states'[k].entry : s \in scopes \/ s = Total \/ Stored(k, s)
        /\ reservation' = [reservation EXCEPT ![r] = new]
    BY <1>0 DEF Reserved
  <1>c. \A x, s : x # k => Entry(x, s)' = Entry(x, s)
    BY <1>0 DEF Reserved
  <1>a. ASSUME NEW s \in scopes
        PROVE  /\ Entry(k, s)' \in [spent : Int, active : Int]
               /\ Entry(k, s)'.spent = Entry(k, s).spent
               /\ Entry(k, s)'.active = Entry(k, s).active + amount
    BY <1>0, <1>a DEF Reserved
  <1>b. ASSUME NEW s, s \notin scopes
        PROVE  /\ Entry(k, s)'.active = Entry(k, s).active
               /\ Entry(k, s)' = Entry(k, s) \/ Entry(k, s)' = ZeroEntry
               /\ Stored(k, s)' \/ Current(s)' => Entry(k, s)' = Entry(k, s)
    BY <1>0, <1>b DEF Reserved
  <1>. USE DEF IInv
  <1>2. /\ lastNow' = now /\ amount > 0 /\ reservation[r].state = "free"
        /\ HasState(k) => Valid(states[k])
        /\ \A d \in DOMAIN p : Fits(Entry(k, Scope(d, now)), p[d], amount)
        /\ sequence' = IF HasState(k) THEN sequence ELSE sequence + 1
        /\ UNCHANGED <<policies, sunk, excused, torn>>
    BY DEF Reserve
  <1>3. /\ lastNow \in Times /\ now \in Times /\ lastNow <= now /\ MaxMoney \in Nat
        /\ amount \in 0 .. MaxMoney
    BY BudgetAssumption DEF TypeOK, Times
  <1>4. p \in Policies /\ DOMAIN p \subseteq Periods /\ \A d \in DOMAIN p : p[d] \in 0 .. MaxMoney
    BY BudgetAssumption DEF TypeOK
  <1>5. \A s \in scopes : /\ s \in Scopes /\ s.period \in DOMAIN p
                          /\ Fits(Entry(k, s), p[s.period], amount)
                          /\ s.start = PeriodStart(s.period, now)
                          /\ s.start \in Nat /\ s.period \in Periods
    BY <1>2, <1>3, <1>4, ScopeFacts DEF ScopesAt
  <1>6. \A s \in Scopes : Current(s)' => Current(s)
    <2>. TAKE s \in Scopes
    <2>1. s.period \in Periods /\ s.start \in Nat
      BY <1>3, ScopeFacts
    <2>2. /\ PeriodStart(s.period, lastNow) <= PeriodStart(s.period, now)
          /\ PeriodStart(s.period, lastNow) \in Nat /\ PeriodStart(s.period, now) \in Nat
      BY <1>3, <2>1, PeriodStartAdvances
    <2>. QED  BY <1>2, <2>1, <2>2 DEF Current
  <1>7. /\ \A s \in scopes : Current(s)'
        /\ Total \in Scopes /\ Current(Total)'
    <2>1. Current(Total)'
      BY DEF Current, Total, Scope, PeriodStart
    <2>. QED  BY <1>2, <1>3, <1>5, <2>1, ScopeFacts DEF Current
  <1>8. \A s : Entry(k, s).spent \in Nat /\ Entry(k, s).active \in Nat
    <2>. TAKE s
    <2>1. CASE Stored(k, s)
      BY <1>2, <2>1, EntryType DEF Stored, Valid, Entry
    <2>2. CASE ~Stored(k, s)
      BY <2>2 DEF Stored, Entry, ZeroEntry
    <2>. QED  BY <2>1, <2>2
  <1>9. \A s \in scopes : Entry(k, s).spent + Entry(k, s).active + amount <= p[s.period]
    BY <1>3, <1>4, <1>5, <1>8 DEF Fits
  <1>10. generation \in 1 .. sequence' /\ sequence' \in Nat /\ sequence <= sequence'
    BY <1>2 DEF TypeOK, HasState, GenerationFor
  <1>. HIDE DEF p, scopes, generation
  <1>11. /\ new.state = "open" /\ new.key = k /\ new.amount = amount /\ new.generation = generation
         /\ new.scopes = scopes /\ new.ticket = "none" /\ new.delta = 0 /\ new.owed = {}
         /\ new \in ReservationRecord(sequence')
    BY <1>3, <1>5, <1>10 DEF NewReservation, ReservationRecord
  <1>. HIDE DEF new
  <1>12. reservation' \in [Reservations -> ReservationRecord(sequence')]
    <2>1. ReservationRecord(sequence) \subseteq ReservationRecord(sequence')
      BY <1>10 DEF ReservationRecord, TypeOK
    <2>2. reservation \in [Reservations -> ReservationRecord(sequence')]
      BY <2>1 DEF TypeOK, ReservationRecord
    <2>. QED  BY <1>1, <1>a, <1>b, <1>c, <1>11, <2>2
  <1>13. \A x \in Reservations : reservation'[x] = IF x = r THEN new ELSE reservation[x]
    BY <1>1, <1>a, <1>b, <1>c DEF TypeOK
  <1>14. \A s \in DOMAIN states'[k].entry :
            /\ s \in Scopes /\ states'[k].entry[s] = Entry(k, s)'
            /\ states'[k].entry[s] \in [spent: Money, active: Money]
            /\ states'[k].entry[s].spent >= 0
    <2>. TAKE s \in DOMAIN states'[k].entry
    <2>1. s \in Scopes
      BY <1>1, <1>a, <1>b, <1>c, <1>5, <1>7 DEF Stored, HasState, TypeOK
    <2>2. states'[k].entry[s] = Entry(k, s)' /\ Stored(k, s)'
      BY <1>1, <1>a, <1>b, <1>c DEF Entry, HasState, Stored
    <2>3. CASE s \in scopes
      <3>1. /\ Entry(k, s)' \in [spent : Int, active : Int]
            /\ Entry(k, s)'.spent = Entry(k, s).spent
            /\ Entry(k, s)'.active = Entry(k, s).active + amount
        BY <1>1, <1>a, <1>b, <1>c, <2>3
      <3>2. p[s.period] \in 0 .. MaxMoney
        BY <1>4, <1>5, <2>3
      <3>3. Entry(k, s).spent \in 0 .. MaxMoney /\ Entry(k, s).active + amount \in 0 .. MaxMoney
        BY <1>3, <1>8, <1>9, <2>3, <3>2
      <3>. QED  BY <2>1, <2>2, <3>1, <3>3 DEF Money
    <2>4. CASE s \notin scopes
      <3>1. Entry(k, s)' = Entry(k, s)
        BY <1>1, <1>a, <1>b, <1>c, <2>2, <2>4
      <3>. QED  BY <1>8, <2>1, <2>2, <3>1, EntryType DEF EntryRecord
    <2>. QED  BY <2>3, <2>4
  <1>15. TypeOK'
    <2>1. \A x \in DOMAIN states' :
             /\ states'[x].generation \in 1 .. sequence'
             /\ Total \in DOMAIN states'[x].entry
             /\ DOMAIN states'[x].entry \subseteq Scopes
             /\ \A s \in DOMAIN states'[x].entry :
                   states'[x].entry[s] \in [spent: Money, active: Money]
      <3>. TAKE x \in DOMAIN states'
      <3>1. CASE x = k
        BY <1>1, <1>a, <1>b, <1>c, <1>10, <1>14, <3>1
      <3>2. CASE x # k
        BY <1>1, <1>a, <1>b, <1>c, <1>10, <3>2 DEF TypeOK
      <3>. QED  BY <3>1, <3>2
    <2>. QED  BY <1>1, <1>a, <1>b, <1>c, <1>2, <1>3, <1>10, <1>12, <2>1 DEF TypeOK, ReservationRecord
  <1>16. Lives'
    BY <1>2, <1>11, <1>13 DEF Lives
  <1>17. StatesKnown'
    BY <1>1, <1>a, <1>b, <1>c, <1>2, <1>14 DEF StatesKnown, StateRecord
  <1>18. /\ \A x, s : r \notin HeldIn(x, s) /\ r \notin OwedIn(x, s) /\ r \notin Refundable(x, s)
         /\ \A x, s : r \notin OwedIn(x, s)' /\ r \notin Refundable(x, s)'
         /\ \A x, s : r \in HeldIn(x, s)' <=> x = k /\ s \in scopes
    BY <1>2, <1>11, <1>13 DEF HeldIn, OwedIn, Refundable, Lives
  <1>19. ASSUME NEW x, NEW s
         PROVE  /\ SumFunctionOnSet(AmountOf, HeldIn(x, s))'
                     = SumFunctionOnSet(AmountOf, HeldIn(x, s))
                          + IF x = k /\ s \in scopes THEN amount ELSE 0
                /\ SumFunctionOnSet(DeltaOf, OwedIn(x, s))' = SumFunctionOnSet(DeltaOf, OwedIn(x, s))
                /\ SumFunctionOnSet(AmountOf, Refundable(x, s))'
                     = SumFunctionOnSet(AmountOf, Refundable(x, s))
    BY <1>3, <1>11, <1>13, <1>15, <1>18, BooksStep, SumTypes DEF PartOf
  <1>20. ActiveExact'
    <2>. SUFFICES ASSUME NEW x \in Keys \ torn, NEW s \in Scopes
                  PROVE  Entry(x, s)'.active = SumFunctionOnSet(AmountOf, HeldIn(x, s))'
      BY <1>2 DEF ActiveExact
    <2>1. Entry(x, s).active = SumFunctionOnSet(AmountOf, HeldIn(x, s))
      BY DEF ActiveExact
    <2>2. CASE x = k /\ s \in scopes
      BY <1>1, <1>a, <1>b, <1>c, <1>19, <2>1, <2>2
    <2>3. CASE ~(x = k /\ s \in scopes)
      BY <1>1, <1>a, <1>b, <1>c, <1>19, <2>1, <2>3, SumTypes
    <2>. QED  BY <2>2, <2>3
  <1>21. GenerationPinned'
    <2>. SUFFICES ASSUME NEW x \in Reservations, Pending(x)', reservation'[x].scopes # {},
                         reservation'[x].key \notin torn
                  PROVE  /\ reservation'[x].key \in DOMAIN states'
                         /\ states'[reservation'[x].key].generation = reservation'[x].generation
      BY <1>2 DEF GenerationPinned, HasState
    <2>1. CASE x = r
      BY <1>1, <1>a, <1>b, <1>c, <1>11, <1>13, <2>1
    <2>2. CASE x # r
      <3>1. /\ HasState(reservation[x].key) /\ reservation'[x] = reservation[x]
            /\ states[reservation[x].key].generation = reservation[x].generation
        BY <1>13, <2>2 DEF GenerationPinned, Pending
      <3>. QED  BY <1>1, <1>a, <1>b, <1>c, <3>1 DEF HasState, generation, GenerationFor
    <2>. QED  BY <2>1, <2>2
  <1>22. SinkExact'
    <2>. SUFFICES ASSUME NEW x \in Keys \ torn, NEW s \in Scopes, Stored(x, s)' \/ Current(s)'
                  PROVE  Entry(x, s)'.spent
                           = sunk[x][s] + SumFunctionOnSet(DeltaOf, OwedIn(x, s))
      BY <1>2, <1>19 DEF SinkExact
    <2>1. Stored(x, s) \/ Current(s)
      <3>1. CASE Current(s)'
        BY <1>6, <3>1
      <3>2. CASE Stored(x, s)' /\ x = k
        BY <1>1, <1>a, <1>b, <1>c, <1>6, <1>7, <3>2 DEF Stored
      <3>3. CASE Stored(x, s)' /\ x # k
        BY <1>1, <1>a, <1>b, <1>c, <3>3 DEF Stored, HasState
      <3>. QED  BY <3>1, <3>2, <3>3
    <2>2. Entry(x, s)'.spent = Entry(x, s).spent
      BY <1>1, <1>a, <1>b, <1>c
    <2>. QED  BY <2>1, <2>2 DEF SinkExact
  <1>23. SinkCovers'
    BY <1>2, <1>19 DEF SinkCovers
  <1>24. WithinEvery'
    <2>. SUFFICES ASSUME NEW x \in Keys, NEW s \in Scopes, s.period \in DOMAIN policies[x],
                         [key |-> x, scope |-> s] \notin excused
                  PROVE  Entry(x, s)'.spent + Entry(x, s)'.active <= policies[x][s.period]
      BY <1>2 DEF WithinEvery
    <2>1. CASE x = k /\ s \in scopes
      BY <1>1, <1>a, <1>b, <1>c, <1>3, <1>8, <1>9, <2>1 DEF p
    <2>2. CASE Entry(x, s)' = Entry(x, s)
      BY <2>2 DEF WithinEvery
    <2>3. CASE Entry(x, s)' = ZeroEntry
      <3>1. policies[x][s.period] \in 0 .. MaxMoney
        BY BudgetAssumption DEF TypeOK
      <3>. QED  BY <2>3, <3>1, <1>3 DEF ZeroEntry
    <2>. QED  BY <1>1, <1>a, <1>b, <1>c, <2>1, <2>2, <2>3
  <1>. QED  BY <1>15, <1>16, <1>17, <1>20, <1>21, <1>22, <1>23, <1>24

-----------------------------------------------------------------------------
(* Settlement.                                                             *)

(* An unsettled reservation keeps its key's state, and its generation.     *)
LEMMA PinnedStep ==
    ASSUME IInv, TypeOK', Lives', ActiveExact', torn \subseteq torn',
           \A k \in DOMAIN states' : /\ k \in DOMAIN states
                                     /\ states'[k].generation = states[k].generation,
           \A x \in Reservations : Pending(x)' /\ reservation'[x].scopes # {} =>
               /\ Pending(x) /\ reservation'[x].key = reservation[x].key
               /\ reservation'[x].generation = reservation[x].generation
               /\ reservation'[x].scopes = reservation[x].scopes
    PROVE  GenerationPinned'
  <1>. SUFFICES ASSUME NEW x \in Reservations, Pending(x)', reservation'[x].scopes # {},
                       reservation'[x].key \notin torn'
                PROVE  /\ reservation'[x].key \in DOMAIN states'
                       /\ states'[reservation'[x].key].generation = reservation'[x].generation
    BY DEF GenerationPinned, HasState
  <1>0. PICK k : k = reservation'[x].key
    OBVIOUS
  <1>1. PICK s : s \in reservation'[x].scopes
    OBVIOUS
  <1>2. s \in Scopes /\ k \in Keys /\ reservation'[x].amount \in Nat /\ reservation'[x].amount > 0
    BY <1>0, <1>1, BudgetAssumption DEF TypeOK, Lives
  <1>3. Entry(k, s)'.active = SumFunctionOnSet(AmountOf', HeldIn(k, s)')
    BY <1>0, <1>2 DEF ActiveExact
  <1>4. /\ IsFiniteSet(HeldIn(k, s)') /\ x \in HeldIn(k, s)'
        /\ \A y \in HeldIn(k, s)' : AmountOf'[y] \in Nat
        /\ AmountOf'[x] = reservation'[x].amount
    <2>1. HeldIn(k, s)' \subseteq Reservations
      BY DEF HeldIn
    <2>2. \A y \in Reservations : AmountOf'[y] = reservation'[y].amount /\ AmountOf'[y] \in Nat
      BY BudgetAssumption DEF TypeOK, AmountOf
    <2>3. x \in HeldIn(k, s)'
      BY <1>0, <1>1 DEF HeldIn, Pending
    <2>. QED  BY <2>1, <2>2, <2>3, BudgetAssumption, FS_Subset
  <1>5. /\ SumFunctionOnSet(AmountOf', HeldIn(k, s)') \in Nat
        /\ AmountOf'[x] <= SumFunctionOnSet(AmountOf', HeldIn(k, s)')
    <2>. DEFINE S == HeldIn(k, s)'
                f == AmountOf'
    <2>. HIDE DEF S, f
    <2>1. SumFunctionOnSet(f, S) \in Nat /\ f[x] <= SumFunctionOnSet(f, S)
      BY <1>4, SumNat DEF S, f
    <2>. QED  BY <2>1 DEF S, f
  <1>6. Entry(k, s)'.active > 0
    BY <1>2, <1>3, <1>4, <1>5
  <1>7. k \in DOMAIN states'
    BY <1>6 DEF Entry, HasState, ZeroEntry
  <1>8. /\ Pending(x) /\ reservation[x].key = k /\ reservation[x].scopes # {} /\ k \notin torn
        /\ reservation'[x].generation = reservation[x].generation
    BY <1>0
  <1>. QED  BY <1>0, <1>7, <1>8 DEF IInv, GenerationPinned

(* Steps that touch neither the states nor the sink, and take no           *)
(* reservation out of the books.                                           *)
LEMMA QuietStep ==
    ASSUME IInv, NEW r \in Reservations,
           UNCHANGED <<lastNow, states, policies, sequence, sunk, excused, torn>>,
           reservation' \in [Reservations -> ReservationRecord(sequence)], Lives',
           \A x \in Reservations \ {r} : reservation'[x] = reservation[x],
           /\ reservation'[r].key = reservation[r].key
           /\ reservation'[r].amount = reservation[r].amount
           /\ reservation'[r].generation = reservation[r].generation
           /\ reservation'[r].scopes = reservation[r].scopes
           /\ reservation'[r].owed = reservation[r].owed
           /\ reservation'[r].delta = reservation[r].delta,
           reservation[r].scopes # {} => (Pending(r)' <=> Pending(r)),
           reservation'[r].ticket = reservation[r].ticket
              \/ (reservation'[r].ticket = "spent" /\ reservation[r].owed = {})
    PROVE  IInv'
  <1>. USE DEF IInv
  <1>1. TypeOK'
    BY DEF TypeOK, ReservationRecord
  <1>2. StatesKnown'
    BY DEF StatesKnown
  <1>3. \A k, s : Entry(k, s)' = Entry(k, s) /\ (Stored(k, s)' <=> Stored(k, s))
                  /\ (Current(s)' <=> Current(s))
    BY DEF Entry, HasState, Stored, Current
  <1>4. \A k, s : /\ r \in HeldIn(k, s)' <=> r \in HeldIn(k, s)
                  /\ r \in OwedIn(k, s)' <=> r \in OwedIn(k, s)
                  /\ r \in Refundable(k, s)' => r \in Refundable(k, s)
    BY DEF HeldIn, OwedIn, Refundable, Pending
  <1>5. reservation[r].amount \in Nat /\ reservation[r].delta \in Int
    BY ReservationType
  <1>6. ASSUME NEW k, NEW s
        PROVE  /\ SumFunctionOnSet(AmountOf, HeldIn(k, s))' = SumFunctionOnSet(AmountOf, HeldIn(k, s))
               /\ SumFunctionOnSet(DeltaOf, OwedIn(k, s))' = SumFunctionOnSet(DeltaOf, OwedIn(k, s))
               /\ SumFunctionOnSet(AmountOf, Refundable(k, s))'
                    <= SumFunctionOnSet(AmountOf, Refundable(k, s))
               /\ SumFunctionOnSet(AmountOf, Refundable(k, s))' \in Int
    BY <1>1, <1>4, <1>5, BooksStep, SumTypes DEF PartOf
  <1>7. ActiveExact'
    BY <1>3, <1>6 DEF ActiveExact
  <1>8. GenerationPinned'
    <2>1. \A x \in Reservations : Pending(x)' /\ reservation'[x].scopes # {} =>
               /\ Pending(x) /\ reservation'[x].key = reservation[x].key
               /\ reservation'[x].generation = reservation[x].generation
               /\ reservation'[x].scopes = reservation[x].scopes
      BY DEF Pending
    <2>. QED  BY <1>1, <1>7, <2>1, PinnedStep
  <1>9. SinkExact'
    BY <1>3, <1>6 DEF SinkExact
  <1>10. SinkCovers'
    <2>. SUFFICES ASSUME NEW k \in Keys, NEW s \in Scopes
                  PROVE  sunk[k][s] >= SumFunctionOnSet(AmountOf, Refundable(k, s))'
      BY DEF SinkCovers
    <2>1. sunk[k][s] \in Int /\ sunk[k][s] >= SumFunctionOnSet(AmountOf, Refundable(k, s))
      BY DEF SinkCovers, TypeOK
    <2>. QED  BY <1>6, <2>1, SumTypes
  <1>11. WithinEvery'
    BY <1>3 DEF WithinEvery
  <1>. QED  BY <1>1, <1>2, <1>7, <1>8, <1>9, <1>10, <1>11

(* A charge is a representable amount that overflows no scope of its       *)
(* reservation.                                                            *)
LEMMA ChargeFacts ==
    ASSUME IInv, NEW r \in Reservations, NEW wanted \in 0 .. MaxMoney
    PROVE  /\ Charge(r, wanted) \in Money
           /\ Charge(r, wanted) # Unknown =>
                 /\ Charge(r, wanted) \in 0 .. MaxMoney
                 /\ \A s \in reservation[r].scopes :
                       Entry(reservation[r].key, s).spent + Charge(r, wanted) <= MaxMoney
  <1>1. reservation[r].amount \in 0 .. MaxMoney
    BY DEF IInv, TypeOK
  <1>. QED  BY <1>1, BudgetAssumption DEF Charge, Money, Unknown

(* The settlement of a reservation that holds something.                   *)
LEMMA ChargedStep ==
    ASSUME IInv, NEW r \in Reservations, NEW wanted \in 0 .. MaxMoney, NEW deferred \in BOOLEAN,
           deferred => wanted = reservation[r].amount, Settle(r, wanted, deferred),
           reservation[r].scopes # {}, Settleable(r), Charge(r, wanted) # Unknown
    PROVE  IInv'
  <1>. USE DEF IInv
  <1>k. PICK k : k = reservation[r].key
    OBVIOUS
  <1>. DEFINE amount == reservation[r].amount
              scopes == reservation[r].scopes
              charge == Charge(r, wanted)
              val(s) == IF s \in scopes THEN Released(states[k].entry[s], s, amount, charge)
                        ELSE states[k].entry[s]
              entry  == [s \in DOMAIN states[k].entry |-> val(s)]
              ticket == IF deferred /\ charge = wanted THEN "live" ELSE "none"
              owed   == IF charge = 0 THEN {} ELSE scopes
  <1>1. /\ Unsettled(r) /\ UNCHANGED <<lastNow, policies, sequence, sunk, torn>>
        /\ states' = StoreState(k, [states[k] EXCEPT !.entry = entry])
        /\ reservation' = [reservation EXCEPT ![r].state = "final", ![r].ticket = ticket,
                                              ![r].delta = charge, ![r].owed = owed]
        /\ excused' = IF charge > amount
                      THEN excused \cup {[key |-> k, scope |-> s] : s \in scopes} ELSE excused
    BY <1>k DEF Settle
  <1>2. /\ charge \in 0 .. MaxMoney /\ \A s \in scopes : Entry(k, s).spent + charge <= MaxMoney
        /\ MaxMoney \in Nat
    BY <1>k, ChargeFacts, BudgetAssumption
  <1>. HIDE DEF charge
  <1>3. /\ k \in DOMAIN states /\ k \in Keys /\ Valid(states[k])
        /\ \A s \in scopes : Entry(k, s).active >= amount
        /\ amount \in Nat /\ amount > 0 /\ amount <= MaxMoney /\ scopes \subseteq Scopes
        /\ StateRecord(states[k])
        /\ reservation[r].state = "open" /\ reservation[r].ticket = "none"
        /\ reservation[r].owed = {} /\ reservation[r].delta \in Int
    BY <1>1, <1>k, ReservationType DEF Settleable, HasState, Lives, StatesKnown, StateRecord, Unsettled
  <1>4. \A s \in scopes : s \in DOMAIN states[k].entry
    BY <1>3 DEF Entry, ZeroEntry, HasState
  <1>5. DOMAIN entry = DOMAIN states[k].entry /\ \A s \in DOMAIN entry : entry[s] = val(s)
    OBVIOUS
  <1>. HIDE DEF entry
  <1>6. /\ \A x, s : Entry(x, s)' = IF x = k THEN ValueIn(entry, s) ELSE Entry(x, s)
        /\ DOMAIN states' \subseteq DOMAIN states
        /\ \A x \in DOMAIN states \ {k} : x \in DOMAIN states' /\ states'[x] = states[x]
        /\ k \in DOMAIN states' => /\ states'[k].generation = states[k].generation
                                   /\ states'[k].entry = entry
                                   /\ StateRecord(states'[k])
    BY <1>1, <1>3, StoreEntry
  <1>7. ASSUME NEW s \in scopes
        PROVE  /\ s \in DOMAIN entry
               /\ Entry(k, s)' = entry[s] /\ entry[s] \in EntryRecord
               /\ Entry(k, s)'.spent = Entry(k, s).spent + charge
               /\ Entry(k, s)'.active = Entry(k, s).active - amount
               /\ Entry(k, s).spent \in Nat /\ Entry(k, s).active \in Nat
    <2>1. s \in DOMAIN entry /\ Entry(k, s) = states[k].entry[s]
      BY <1>3, <1>4, <1>5 DEF Entry, HasState
    <2>2. entry[s] = [spent |-> Entry(k, s).spent + charge,
                      active |-> Entry(k, s).active - amount]
      BY <1>5, <2>1 DEF Released
    <2>3. /\ Entry(k, s).spent \in Nat /\ Entry(k, s).active \in Nat
          /\ Entry(k, s).active <= MaxMoney
      BY <1>3, <2>1, <1>5, EntryType DEF Valid
    <2>4. Entry(k, s).active - amount \in 0 .. MaxMoney /\ Entry(k, s).spent + charge \in 0 .. MaxMoney
      BY <1>2, <1>3, <2>3
    <2>5. Entry(k, s)' = entry[s]
      BY <1>6, <2>1 DEF ValueIn
    <2>. QED  BY <2>1, <2>2, <2>3, <2>4, <2>5 DEF EntryRecord, Money
  <1>8. \A x, s : ~(x = k /\ s \in scopes) => Entry(x, s)' = Entry(x, s)
    BY <1>3, <1>5, <1>6 DEF ValueIn, Entry, HasState
  <1>9. \A s \in DOMAIN entry : s \in Scopes /\ entry[s] \in EntryRecord /\ Total \in DOMAIN entry
    <2>. TAKE s \in DOMAIN entry
    <2>1. CASE s \in scopes
      BY <1>3, <1>5, <1>7, <2>1 DEF TypeOK
    <2>2. CASE s \notin scopes
      BY <1>3, <1>5, <2>2 DEF TypeOK, EntryRecord
    <2>. QED  BY <2>1, <2>2
  <1>10. /\ \A x \in Reservations \ {r} : reservation'[x] = reservation[x]
         /\ reservation'[r].state = "final" /\ reservation'[r].ticket = ticket
         /\ reservation'[r].delta = charge /\ reservation'[r].owed = owed
         /\ reservation'[r].key = k /\ reservation'[r].amount = amount
         /\ reservation'[r].scopes = scopes /\ reservation'[r].generation = reservation[r].generation
         /\ reservation' \in [Reservations -> ReservationRecord(sequence)]
    <2>. DEFINE Rec == ReservationRecord(sequence)
                new == [reservation[r] EXCEPT !.state = "final", !.ticket = ticket,
                                              !.delta = charge, !.owed = owed]
    <2>1. reservation \in [Reservations -> Rec] /\ reservation[r] \in Rec
      BY DEF TypeOK, ReservationRecord
    <2>2. reservation' = [reservation EXCEPT ![r] = new]
      BY <1>1, <2>1
    <2>a. /\ ticket \in {"none", "live", "spent"} /\ charge \in -MaxMoney .. MaxMoney
          /\ owed \in SUBSET Scopes
      BY <1>2, <1>3
    <2>. HIDE DEF ticket, owed
    <2>3. /\ new \in Rec /\ new.state = "final" /\ new.ticket = ticket /\ new.delta = charge
          /\ new.owed = owed /\ new.key = k /\ new.amount = amount /\ new.scopes = scopes
          /\ new.generation = reservation[r].generation
      BY <1>k, <2>1, <2>a DEF ReservationRecord
    <2>. HIDE DEF Rec, new
    <2>. QED  BY <2>1, <2>2, <2>3 DEF Rec
  <1>11. TypeOK'
    <2>1. \A x \in DOMAIN states' :
             /\ states'[x].generation \in 1 .. sequence
             /\ Total \in DOMAIN states'[x].entry
             /\ DOMAIN states'[x].entry \subseteq Scopes
             /\ \A s \in DOMAIN states'[x].entry : states'[x].entry[s] \in EntryRecord
      <3>. TAKE x \in DOMAIN states'
      <3>1. CASE x = k
        <4>1. Total \in DOMAIN entry
          BY <1>3, <1>5 DEF TypeOK
        <4>. QED  BY <1>3, <1>6, <1>9, <3>1, <4>1 DEF TypeOK
      <3>2. CASE x # k
        BY <1>6, <3>2 DEF TypeOK, EntryRecord
      <3>. QED  BY <3>1, <3>2
    <2>2. /\ lastNow' \in Times /\ DOMAIN states' \subseteq Keys /\ policies' \in [Keys -> Policies]
          /\ sequence' \in Nat /\ sunk' \in [Keys -> [Scopes -> Int]] /\ torn' \subseteq Keys
      BY <1>1, <1>6 DEF TypeOK
    <2>3. /\ sequence' = sequence
          /\ reservation' \in [Reservations -> ReservationRecord(sequence')]
      BY <1>1, <1>10
    <2>. QED  BY <2>1, <2>2, <2>3 DEF TypeOK, ReservationRecord, EntryRecord
  <1>12. Lives'
    BY <1>2, <1>3, <1>10 DEF Lives
  <1>13. StatesKnown'
    <2>. SUFFICES ASSUME NEW x \in DOMAIN states'
                  PROVE  /\ StateRecord(states'[x])
                         /\ x \notin torn => \A s \in DOMAIN states'[x].entry :
                                                states'[x].entry[s].spent >= 0
      BY <1>1 DEF StatesKnown, StateRecord
    <2>1. CASE x = k
      <3>1. \A s \in DOMAIN entry : entry[s].spent >= 0
        <4>. TAKE s \in DOMAIN entry
        <4>1. CASE s \in scopes
          BY <1>2, <1>7, <4>1
        <4>2. CASE s \notin scopes
          BY <1>3, <1>5, <4>2 DEF Valid
        <4>. QED  BY <4>1, <4>2
      <3>. QED  BY <1>6, <2>1, <3>1
    <2>2. CASE x # k
      BY <1>6, <2>2 DEF StatesKnown, StateRecord
    <2>. QED  BY <2>1, <2>2
  <1>14. /\ \A x, s : /\ r \in HeldIn(x, s) <=> x = k /\ s \in scopes
                      /\ r \notin OwedIn(x, s) /\ r \notin Refundable(x, s)
                      /\ r \notin HeldIn(x, s)' /\ r \notin Refundable(x, s)'
                      /\ r \in OwedIn(x, s)' <=> x = k /\ s \in owed
    <2>1. ticket = "live" => owed = scopes
      BY <1>3
    <2>. QED  BY <1>3, <1>k, <1>10, <2>1 DEF HeldIn, OwedIn, Refundable
  <1>15. ASSUME NEW x, NEW s
         PROVE  /\ SumFunctionOnSet(AmountOf, HeldIn(x, s))'
                     = SumFunctionOnSet(AmountOf, HeldIn(x, s))
                          - IF x = k /\ s \in scopes THEN amount ELSE 0
                /\ SumFunctionOnSet(DeltaOf, OwedIn(x, s))'
                     = SumFunctionOnSet(DeltaOf, OwedIn(x, s))
                          + IF x = k /\ s \in scopes THEN charge ELSE 0
                /\ SumFunctionOnSet(AmountOf, Refundable(x, s))'
                     = SumFunctionOnSet(AmountOf, Refundable(x, s))
    <2>1. IF r \in OwedIn(x, s)' THEN charge = IF x = k /\ s \in scopes THEN charge ELSE 0
          ELSE 0 = IF x = k /\ s \in scopes THEN charge ELSE 0
      BY <1>14
    <2>. QED  BY <1>2, <1>3, <1>10, <1>11, <1>14, <2>1, BooksStep, SumTypes DEF PartOf
  <1>16. ActiveExact'
    <2>. SUFFICES ASSUME NEW x \in Keys \ torn, NEW s \in Scopes
                  PROVE  Entry(x, s)'.active = SumFunctionOnSet(AmountOf, HeldIn(x, s))'
      BY <1>1 DEF ActiveExact
    <2>1. Entry(x, s).active = SumFunctionOnSet(AmountOf, HeldIn(x, s))
      BY DEF ActiveExact
    <2>2. CASE x = k /\ s \in scopes
      BY <1>7, <1>15, <2>1, <2>2
    <2>3. CASE ~(x = k /\ s \in scopes)
      BY <1>8, <1>15, <2>1, <2>3, SumTypes
    <2>. QED  BY <2>2, <2>3
  <1>17. GenerationPinned'
    <2>1. \A x \in Reservations : Pending(x)' /\ reservation'[x].scopes # {} =>
               /\ Pending(x) /\ reservation'[x].key = reservation[x].key
               /\ reservation'[x].generation = reservation[x].generation
               /\ reservation'[x].scopes = reservation[x].scopes
      BY <1>10 DEF Pending
    <2>2. \A x \in DOMAIN states' : x \in DOMAIN states /\ states'[x].generation = states[x].generation
      BY <1>6
    <2>. QED  BY <1>1, <1>11, <1>12, <1>16, <2>1, <2>2, PinnedStep
  <1>18. SinkExact'
    <2>. SUFFICES ASSUME NEW x \in Keys \ torn, NEW s \in Scopes, Stored(x, s)' \/ Current(s)
                  PROVE  Entry(x, s)'.spent
                           = sunk[x][s] + SumFunctionOnSet(DeltaOf, OwedIn(x, s))'
      BY <1>1 DEF SinkExact, Current
    <2>1. Stored(x, s) \/ Current(s)
      BY <1>5, <1>6 DEF Stored, HasState
    <2>2. Entry(x, s).spent = sunk[x][s] + SumFunctionOnSet(DeltaOf, OwedIn(x, s))
          /\ sunk[x][s] \in Int
      BY <2>1 DEF SinkExact, TypeOK
    <2>3. CASE x = k /\ s \in scopes
      BY <1>2, <1>7, <1>15, <2>2, <2>3, SumTypes
    <2>4. CASE ~(x = k /\ s \in scopes)
      BY <1>8, <1>15, <2>2, <2>4, SumTypes
    <2>. QED  BY <2>3, <2>4
  <1>19. SinkCovers'
    BY <1>1, <1>15 DEF SinkCovers
  <1>20. WithinEvery'
    <2>. SUFFICES ASSUME NEW x \in Keys, NEW s \in Scopes, s.period \in DOMAIN policies[x],
                         [key |-> x, scope |-> s] \notin excused'
                  PROVE  Entry(x, s)'.spent + Entry(x, s)'.active <= policies[x][s.period]
      BY <1>1 DEF WithinEvery
    <2>1. Entry(x, s).spent + Entry(x, s).active <= policies[x][s.period]
      BY <1>1 DEF WithinEvery
    <2>2. policies[x][s.period] \in Int
      BY BudgetAssumption DEF TypeOK
    <2>3. CASE x = k /\ s \in scopes
      <3>1. charge <= amount
        BY <1>1, <1>2, <1>3, <2>3
      <3>. QED  BY <1>2, <1>3, <1>7, <2>1, <2>2, <2>3, <3>1
    <2>4. CASE ~(x = k /\ s \in scopes)
      BY <1>8, <2>1, <2>4
    <2>. QED  BY <2>3, <2>4
  <1>. QED  BY <1>11, <1>12, <1>13, <1>16, <1>17, <1>18, <1>19, <1>20

(* Settling a reservation keeps the invariant.                             *)
LEMMA SettleStep ==
    ASSUME IInv, NEW r \in Reservations, NEW wanted \in 0 .. MaxMoney, NEW deferred \in BOOLEAN,
           deferred => wanted = reservation[r].amount, Settle(r, wanted, deferred)
    PROVE  IInv'
  <1>1. CASE reservation[r].scopes # {} /\ Settleable(r) /\ Charge(r, wanted) # Unknown
    BY <1>1, ChargedStep
  <1>2. ASSUME NEW state \in {"final", "retained"}, state = "final" <=> reservation[r].scopes = {},
               reservation' = [reservation EXCEPT ![r].state = state],
               UNCHANGED <<lastNow, states, policies, sequence, sunk, excused, torn>>
        PROVE  IInv'
    <2>. DEFINE Rec == ReservationRecord(sequence)
                new == [reservation[r] EXCEPT !.state = state]
    <2>1. reservation \in [Reservations -> Rec] /\ reservation[r] \in Rec
      BY DEF IInv, TypeOK, ReservationRecord
    <2>2. reservation' = [reservation EXCEPT ![r] = new]
      BY <1>2, <2>1
    <2>3. /\ new \in Rec /\ new.state = state /\ new.ticket = reservation[r].ticket
          /\ new.delta = reservation[r].delta /\ new.owed = reservation[r].owed
          /\ new.key = reservation[r].key /\ new.amount = reservation[r].amount
          /\ new.scopes = reservation[r].scopes /\ new.generation = reservation[r].generation
      BY <2>1 DEF ReservationRecord
    <2>. HIDE DEF Rec, new
    <2>4. /\ reservation' \in [Reservations -> Rec] /\ reservation'[r] = new
          /\ \A x \in Reservations \ {r} : reservation'[x] = reservation[x]
      BY <2>1, <2>2, <2>3
    <2>5. reservation[r].state = "open"
      BY DEF Settle, Unsettled
    <2>6. Lives'
      BY <1>2, <2>3, <2>4, <2>5 DEF IInv, Lives
    <2>7. reservation[r].scopes # {} => (Pending(r)' <=> Pending(r))
      BY <1>2, <2>3, <2>4, <2>5 DEF Pending
    <2>. QED  BY <1>2, <2>3, <2>4, <2>6, <2>7, QuietStep DEF Rec
  <1>3. CASE ~(reservation[r].scopes # {} /\ Settleable(r) /\ Charge(r, wanted) # Unknown)
    <2>1. \E state \in {"final", "retained"} :
             /\ state = "final" <=> reservation[r].scopes = {}
             /\ reservation' = [reservation EXCEPT ![r].state = state]
             /\ UNCHANGED <<lastNow, states, policies, sequence, sunk, excused, torn>>
      BY <1>3 DEF Settle
    <2>. QED  BY <1>2, <2>1
  <1>. QED  BY <1>1, <1>3

(* One delta reaches the sink.                                             *)
LEMMA NotifyStep ==
    ASSUME IInv, NEW r \in Reservations, NEW s0 \in reservation[r].owed, Notify(r, s0)
    PROVE  IInv'
  <1>. USE DEF IInv
  <1>k. PICK k : k = reservation[r].key
    OBVIOUS
  <1>. DEFINE delta == reservation[r].delta
              amount == reservation[r].amount
  <1>1. /\ sunk' = [sunk EXCEPT ![k][s0] = @ + delta]
        /\ reservation' = [reservation EXCEPT ![r].owed = @ \ {s0}]
        /\ UNCHANGED <<lastNow, states, policies, sequence, excused, torn>>
    BY <1>k DEF Notify
  <1>2. /\ k \in Keys /\ s0 \in Scopes /\ delta \in Int /\ amount \in Nat
        /\ reservation[r].owed \subseteq reservation[r].scopes
        /\ s0 \in reservation[r].scopes
    BY <1>k, ReservationType DEF Lives
  <1>3. /\ \A x \in Reservations \ {r} : reservation'[x] = reservation[x]
        /\ reservation'[r].state = reservation[r].state
        /\ reservation'[r].ticket = reservation[r].ticket
        /\ reservation'[r].delta = delta /\ reservation'[r].owed = reservation[r].owed \ {s0}
        /\ reservation'[r].key = k /\ reservation'[r].amount = amount
        /\ reservation'[r].scopes = reservation[r].scopes
        /\ reservation'[r].generation = reservation[r].generation
        /\ reservation' \in [Reservations -> ReservationRecord(sequence)]
    <2>. DEFINE Rec == ReservationRecord(sequence)
                new == [reservation[r] EXCEPT !.owed = @ \ {s0}]
    <2>1. reservation \in [Reservations -> Rec] /\ reservation[r] \in Rec
      BY DEF TypeOK, ReservationRecord
    <2>2. reservation' = [reservation EXCEPT ![r] = new]
      BY <1>1, <2>1
    <2>3. /\ new \in Rec /\ new.state = reservation[r].state /\ new.ticket = reservation[r].ticket
          /\ new.delta = delta /\ new.owed = reservation[r].owed \ {s0} /\ new.key = k
          /\ new.amount = amount /\ new.scopes = reservation[r].scopes
          /\ new.generation = reservation[r].generation
      BY <1>k, <2>1 DEF ReservationRecord
    <2>. HIDE DEF Rec, new
    <2>. QED  BY <2>1, <2>2, <2>3 DEF Rec
  <1>4. /\ sunk \in [Keys -> [Scopes -> Int]] /\ sunk' \in [Keys -> [Scopes -> Int]]
        /\ \A x \in Keys, s \in Scopes :
              sunk'[x][s] = sunk[x][s] + IF x = k /\ s = s0 THEN delta ELSE 0
    <2>1. sunk \in [Keys -> [Scopes -> Int]]
      BY DEF TypeOK
    <2>2. sunk' = [sunk EXCEPT ![k] = [sunk[k] EXCEPT ![s0] = sunk[k][s0] + delta]]
      BY <1>1, <1>2, <2>1
    <2>3. [sunk[k] EXCEPT ![s0] = sunk[k][s0] + delta] \in [Scopes -> Int]
      BY <1>2, <2>1
    <2>4. sunk' \in [Keys -> [Scopes -> Int]]
      BY <1>2, <2>1, <2>2, <2>3
    <2>. QED  BY <1>2, <2>1, <2>2, <2>4
  <1>5. TypeOK'
    BY <1>1, <1>3, <1>4 DEF TypeOK, ReservationRecord
  <1>6. Lives'
    BY <1>3 DEF Lives
  <1>7. StatesKnown'
    BY <1>1 DEF StatesKnown
  <1>8. \A x, s : Entry(x, s)' = Entry(x, s) /\ (Stored(x, s)' <=> Stored(x, s))
                  /\ (Current(s)' <=> Current(s))
    BY <1>1 DEF Entry, HasState, Stored, Current
  <1>9. \A x, s : /\ r \in HeldIn(x, s)' <=> r \in HeldIn(x, s)
                  /\ r \in OwedIn(x, s)' <=> r \in OwedIn(x, s) /\ s # s0
                  /\ r \in OwedIn(k, s0)
                  /\ ~(x = k /\ s = s0) => /\ r \in Refundable(x, s)' <=> r \in Refundable(x, s)
                                           /\ r \in OwedIn(x, s)' <=> r \in OwedIn(x, s)
    BY <1>k, <1>2, <1>3 DEF HeldIn, OwedIn, Refundable
  <1>10. /\ r \in Refundable(k, s0) <=> reservation[r].ticket = "spent"
         /\ r \in Refundable(k, s0)' <=> reservation[r].ticket = "live"
    BY <1>k, <1>2, <1>3 DEF Refundable
  <1>11. ASSUME NEW x, NEW s
         PROVE  /\ SumFunctionOnSet(AmountOf, HeldIn(x, s))' = SumFunctionOnSet(AmountOf, HeldIn(x, s))
                /\ SumFunctionOnSet(DeltaOf, OwedIn(x, s))'
                     = SumFunctionOnSet(DeltaOf, OwedIn(x, s))
                          - IF x = k /\ s = s0 THEN delta ELSE 0
                /\ ~(x = k /\ s = s0) =>
                     SumFunctionOnSet(AmountOf, Refundable(x, s))'
                       = SumFunctionOnSet(AmountOf, Refundable(x, s))
    BY <1>2, <1>3, <1>5, <1>9, BooksStep, SumTypes DEF PartOf
  <1>12. SumFunctionOnSet(AmountOf, Refundable(k, s0))'
            <= SumFunctionOnSet(AmountOf, Refundable(k, s0)) + delta
    <2>1. SumFunctionOnSet(AmountOf, Refundable(k, s0))'
            = SumFunctionOnSet(AmountOf, Refundable(k, s0))
                 - PartOf(r, Refundable(k, s0), amount) + PartOf(r, Refundable(k, s0)', amount)
      BY <1>3, <1>5, BooksStep
    <2>2. SumFunctionOnSet(AmountOf, Refundable(k, s0)) \in Nat
      BY SumTypes
    <2>3. CASE reservation[r].ticket = "live"
      <3>1. delta = amount
        BY <2>3 DEF Lives
      <3>. QED  BY <1>2, <1>10, <2>1, <2>2, <2>3, <3>1 DEF PartOf
    <2>4. CASE reservation[r].ticket = "spent"
      <3>1. delta + amount >= 0
        BY <2>4 DEF Lives
      <3>. QED  BY <1>2, <1>10, <2>1, <2>2, <2>4, <3>1 DEF PartOf
    <2>5. CASE reservation[r].ticket = "none"
      <3>1. delta >= 0
        BY <2>5 DEF Lives
      <3>. QED  BY <1>2, <1>10, <2>1, <2>2, <2>5, <3>1 DEF PartOf
    <2>6. reservation[r].ticket \in {"none", "live", "spent"}
      BY DEF TypeOK
    <2>. QED  BY <2>3, <2>4, <2>5, <2>6
  <1>13. ActiveExact'
    BY <1>1, <1>8, <1>11 DEF ActiveExact
  <1>14. GenerationPinned'
    BY <1>1, <1>3 DEF GenerationPinned, Pending, HasState
  <1>15. SinkExact'
    <2>. SUFFICES ASSUME NEW x \in Keys \ torn, NEW s \in Scopes, Stored(x, s) \/ Current(s)
                  PROVE  Entry(x, s).spent
                           = sunk'[x][s] + SumFunctionOnSet(DeltaOf, OwedIn(x, s))'
      BY <1>1, <1>8 DEF SinkExact
    <2>1. Entry(x, s).spent = sunk[x][s] + SumFunctionOnSet(DeltaOf, OwedIn(x, s))
          /\ sunk[x][s] \in Int /\ SumFunctionOnSet(DeltaOf, OwedIn(x, s)) \in Int
      BY <1>4, SumTypes DEF SinkExact
    <2>. QED  BY <1>2, <1>4, <1>11, <2>1
  <1>16. SinkCovers'
    <2>. SUFFICES ASSUME NEW x \in Keys, NEW s \in Scopes
                  PROVE  sunk'[x][s] >= SumFunctionOnSet(AmountOf, Refundable(x, s))'
      BY DEF SinkCovers
    <2>1. /\ sunk[x][s] \in Int /\ sunk[x][s] >= SumFunctionOnSet(AmountOf, Refundable(x, s))
          /\ SumFunctionOnSet(AmountOf, Refundable(x, s)) \in Nat
      BY <1>4, SumTypes DEF SinkCovers
    <2>2. CASE x = k /\ s = s0
      <3>1. sunk'[x][s] = sunk[x][s] + delta
        BY <1>4, <2>2
      <3>2. SumFunctionOnSet(AmountOf, Refundable(x, s))' \in Int
        BY <1>2, <1>3, <1>5, <2>1, BooksStep DEF PartOf
      <3>. QED  BY <1>2, <1>12, <2>1, <2>2, <3>1, <3>2
    <2>3. CASE ~(x = k /\ s = s0)
      BY <1>4, <1>11, <2>1, <2>3
    <2>. QED  BY <2>2, <2>3
  <1>17. WithinEvery'
    BY <1>1, <1>8 DEF WithinEvery
  <1>. QED  BY <1>5, <1>6, <1>7, <1>13, <1>14, <1>15, <1>16, <1>17

-----------------------------------------------------------------------------
(* Deferred tickets.                                                       *)

(* What an Adjust by delta makes of the books of key k.                     *)
Adjusted(r, k, delta) ==
    /\ DOMAIN states' \subseteq DOMAIN states
    /\ \A x \in DOMAIN states \ {k} : x \in DOMAIN states' /\ states'[x] = states[x]
    /\ k \in DOMAIN states' => /\ states'[k].generation = states[k].generation
                               /\ StateRecord(states'[k])
                               /\ Total \in DOMAIN states'[k].entry
    /\ \A s : Entry(k, s)' \in EntryRecord
    /\ \A s : \/ Entry(k, s)' = Entry(k, s)
              \/ /\ s \in reservation[r].scopes
                 /\ Entry(k, s)' = UnknownEntry /\ k \in torn'
              \/ /\ s \in reservation[r].scopes
                 /\ Entry(k, s)'.active = Entry(k, s).active
                 /\ Entry(k, s)'.spent = Entry(k, s).spent + delta
                 /\ Entry(k, s)'.spent >= 0
    /\ k \in DOMAIN states' => DOMAIN states'[k].entry \subseteq Scopes
    /\ k \notin torn' =>
          /\ \A s : Stored(k, s)' => Stored(k, s)
          /\ \E hit \in BOOLEAN : \A s :
                /\ s \in reservation'[r].owed <=> hit /\ s \in reservation[r].scopes
                /\ Entry(k, s)'.spent = Entry(k, s).spent
                      + IF hit /\ s \in reservation[r].scopes THEN delta ELSE 0
    /\ \E owed \in SUBSET reservation[r].scopes :
          reservation' = [reservation EXCEPT ![r].ticket = "spent", ![r].delta = delta,
                                             ![r].owed = owed]
    /\ excused' = IF delta > 0
                  THEN excused \cup {[key |-> k, scope |-> s] : s \in reservation[r].scopes}
                  ELSE excused
    /\ torn' = torn \cup {k} \/ torn' = torn

(* What a late correction does to the ledger.                              *)
LEMMA AdjustEntries ==
    ASSUME IInv, NEW r \in Reservations, NEW usage \in 0 .. MaxMoney, LiveTicket(r),
           NEW k \in DOMAIN states, k = reservation[r].key, AdjustState(r, usage),
           NEW delta \in Int, delta = Correction(r, usage)
    PROVE  Adjusted(r, k, delta)
  <1>0. TypeOK /\ StatesKnown
    BY DEF IInv
  <1>. DEFINE scopes  == reservation[r].scopes
              applies(s) == /\ s \in DOMAIN states[k].entry
                            /\ states[k].entry[s].spent # Unknown
                            /\ states[k].entry[s].spent + delta \in 0 .. MaxMoney
              totalOK == Total \in scopes => applies(Total)
              missing == scopes \ DOMAIN states[k].entry
              val(s) == IF s \in missing THEN UnknownEntry
                        ELSE IF s \in scopes /\ delta # 0
                        THEN [states[k].entry[s] EXCEPT !.spent = @ + delta]
                        ELSE states[k].entry[s]
              entry == [s \in DOMAIN states[k].entry \cup missing |-> val(s)]
              ok == totalOK /\ (delta = 0 \/ \A s \in scopes : applies(s))
              owed == IF totalOK /\ delta # 0 THEN {s \in scopes : applies(s)} ELSE {}
  <1>1. /\ states' = IF ok THEN StoreState(k, [states[k] EXCEPT !.entry = entry]) ELSE states
        /\ torn' = IF missing # {} \/ (totalOK /\ delta # 0 /\ \E s \in scopes : ~applies(s))
                   THEN torn \cup {k} ELSE torn
        /\ reservation' = [reservation EXCEPT ![r].ticket = "spent", ![r].delta = delta,
                                              ![r].owed = owed]
    BY DEF AdjustState
  <1>. HIDE DEF applies, totalOK, missing, val, entry, ok, owed
  <1>2. reservation'[r].owed = owed
    <2>. DEFINE new == [reservation[r] EXCEPT !.ticket = "spent", !.delta = delta, !.owed = owed]
    <2>1. reservation \in [Reservations -> ReservationRecord(sequence)]
          /\ reservation[r] \in ReservationRecord(sequence)
      BY <1>0 DEF TypeOK, ReservationRecord
    <2>2. reservation' = [reservation EXCEPT ![r] = new]
      BY <1>1, <2>1
    <2>3. new.owed = owed
      BY <2>1 DEF ReservationRecord
    <2>. HIDE DEF new
    <2>. QED  BY <2>1, <2>2, <2>3
  <1>a. /\ \E o \in SUBSET scopes :
               reservation' = [reservation EXCEPT ![r].ticket = "spent", ![r].delta = delta,
                                                  ![r].owed = o]
        /\ excused' = IF delta > 0
                      THEN excused \cup {[key |-> k, scope |-> s] : s \in scopes} ELSE excused
        /\ torn' = torn \cup {k} \/ torn' = torn
    <2>1. owed \in SUBSET scopes
      BY DEF owed
    <2>2. torn' = torn \cup {k} \/ torn' = torn
      BY <1>1
    <2>3. excused' = IF delta > 0
                     THEN excused \cup {[key |-> k, scope |-> s] : s \in scopes} ELSE excused
      BY DEF AdjustState
    <2>4. reservation' = [reservation EXCEPT ![r].ticket = "spent", ![r].delta = delta,
                                             ![r].owed = owed]
      BY <1>1
    <2>. QED  BY <2>1, <2>2, <2>3, <2>4
  <1>3. /\ StateRecord(states[k]) /\ Total \in DOMAIN states[k].entry
        /\ DOMAIN states[k].entry \subseteq Scopes /\ scopes \subseteq Scopes
        /\ \A s \in DOMAIN states[k].entry : /\ states[k].entry[s] \in EntryRecord
                                             /\ states[k].entry[s].spent \in Int
                                             /\ Entry(k, s) = states[k].entry[s]
        /\ \A s : s \notin DOMAIN states[k].entry => Entry(k, s) = ZeroEntry
    BY <1>0, BudgetAssumption DEF TypeOK, StatesKnown, StateRecord, EntryRecord, Entry, HasState, Money,
                            Unknown
  <1>4. UnknownEntry \in EntryRecord /\ ZeroEntry \in EntryRecord /\ ZeroEntry.spent = 0
    BY BudgetAssumption DEF UnknownEntry, ZeroEntry, EntryRecord, Money
  <1>5. CASE ~ok
    <2>1. states' = states
      BY <1>1, <1>5
    <2>2. \A x, s : Entry(x, s)' = Entry(x, s) /\ (Stored(x, s)' <=> Stored(x, s))
      BY <2>1 DEF Entry, HasState, Stored
    <2>3. \A s : Entry(k, s) \in EntryRecord /\ Entry(k, s).spent \in Int
      BY <1>0, EntryType
    <2>4. k \notin torn' => owed = {}
      BY <1>1, <1>5 DEF ok, owed
    <2>5. k \notin torn' =>
             \E hit \in BOOLEAN : \A s :
                /\ s \in reservation'[r].owed <=> hit /\ s \in scopes
                /\ Entry(k, s)'.spent = Entry(k, s).spent + IF hit /\ s \in scopes THEN delta ELSE 0
      <3>. HAVE k \notin torn'
      <3>. DEFINE hit == FALSE
      <3>1. hit \in BOOLEAN
        OBVIOUS
      <3>2. ASSUME NEW s
            PROVE  /\ s \in reservation'[r].owed <=> hit /\ s \in scopes
                   /\ Entry(k, s)'.spent = Entry(k, s).spent + IF hit /\ s \in scopes THEN delta ELSE 0
        <4>1. reservation'[r].owed = {}
          BY <1>2, <2>4
        <4>2. Entry(k, s)' = Entry(k, s) /\ Entry(k, s).spent \in Int
          BY <2>2, <2>3
        <4>. QED  BY <4>1, <4>2
      <3>. HIDE DEF hit
      <3>. QED  BY <3>1, <3>2
    <2>. QED  BY <1>3, <1>a, <2>1, <2>2, <2>3, <2>5 DEF Adjusted
  <1>6. CASE ok
    <2>1. DOMAIN entry = DOMAIN states[k].entry \cup missing
          /\ \A s \in DOMAIN states[k].entry \cup missing : entry[s] = val(s)
      BY DEF entry
    <2>2. /\ \A s : Entry(k, s)' = ValueIn(entry, s)
          /\ DOMAIN states' \subseteq DOMAIN states
          /\ \A x \in DOMAIN states \ {k} : x \in DOMAIN states' /\ states'[x] = states[x]
          /\ k \in DOMAIN states' => /\ states'[k].generation = states[k].generation
                                     /\ states'[k].entry = entry
                                     /\ StateRecord(states'[k])
      <3>1. states' = StoreState(k, [states[k] EXCEPT !.entry = entry])
        BY <1>1, <1>6
      <3>2. StateRecord(states[k])
        BY <1>3
      <3>3. /\ \A x, s : Entry(x, s)' = IF x = k THEN ValueIn(entry, s) ELSE Entry(x, s)
            /\ DOMAIN states' \subseteq DOMAIN states
            /\ \A x \in DOMAIN states \ {k} : x \in DOMAIN states' /\ states'[x] = states[x]
            /\ k \in DOMAIN states' => /\ states'[k].generation = states[k].generation
                                       /\ states'[k].entry = entry
                                       /\ StateRecord(states'[k])
        BY <3>1, <3>2, StoreEntry, ZenonT(30)
      <3>. QED  BY <3>3
    <2>3. ASSUME NEW s
          PROVE  /\ Entry(k, s)' \in EntryRecord
                 /\ s \in missing => Entry(k, s)' = UnknownEntry /\ k \in torn'
                 /\ s \notin missing /\ ~(s \in scopes /\ delta # 0) => Entry(k, s)' = Entry(k, s)
                 /\ s \notin missing /\ s \in scopes /\ delta # 0 =>
                       /\ Entry(k, s)'.active = Entry(k, s).active
                       /\ Entry(k, s)'.spent = Entry(k, s).spent + delta
                       /\ Entry(k, s)'.spent >= 0
      <3>1. CASE s \in missing
        <4>1. Entry(k, s)' = UnknownEntry
          BY <2>1, <2>2, <3>1 DEF ValueIn, val
        <4>2. k \in torn'
          BY <1>1, <3>1
        <4>. QED  BY <1>4, <3>1, <4>1, <4>2
      <3>2. CASE s \notin missing /\ s \notin DOMAIN states[k].entry
        BY <1>3, <1>4, <2>1, <2>2, <3>2 DEF ValueIn, missing
      <3>3. CASE s \in DOMAIN states[k].entry /\ ~(s \in scopes /\ delta # 0)
        <4>1. entry[s] = states[k].entry[s] /\ s \in DOMAIN entry
          BY <2>1, <3>3 DEF val, missing
        <4>2. Entry(k, s)' = states[k].entry[s]
          BY <2>2, <4>1 DEF ValueIn
        <4>. QED  BY <1>3, <3>3, <4>2 DEF missing
      <3>4. CASE s \in DOMAIN states[k].entry /\ s \in scopes /\ delta # 0
        <4>1. Entry(k, s)' = [states[k].entry[s] EXCEPT !.spent = @ + delta]
          BY <2>1, <2>2, <3>4 DEF ValueIn, val, missing
        <4>2. states[k].entry[s] \in EntryRecord /\ Entry(k, s) = states[k].entry[s]
              /\ states[k].entry[s].spent + delta \in 0 .. MaxMoney
          BY <1>3, <1>6, <3>4 DEF ok, applies
        <4>3. /\ Entry(k, s)' \in EntryRecord /\ Entry(k, s)'.active = Entry(k, s).active
              /\ Entry(k, s)'.spent = Entry(k, s).spent + delta
          BY <4>1, <4>2 DEF EntryRecord, Money
        <4>. QED  BY <3>4, <4>2, <4>3 DEF missing
      <3>. QED  BY <3>1, <3>2, <3>3, <3>4
    <2>4. k \notin torn' =>
             /\ \A s : Stored(k, s)' => Stored(k, s)
             /\ \E hit \in BOOLEAN : \A s :
                   /\ s \in reservation'[r].owed <=> hit /\ s \in scopes
                   /\ Entry(k, s)'.spent = Entry(k, s).spent + IF hit /\ s \in scopes THEN delta ELSE 0
      <3>. HAVE k \notin torn'
      <3>1. missing = {}
        BY <1>1
      <3>2. \A s : Stored(k, s)' => Stored(k, s)
        BY <2>1, <2>2, <3>1 DEF Stored, HasState
      <3>. DEFINE hit == delta # 0
      <3>3. hit \in BOOLEAN
        OBVIOUS
      <3>4. ASSUME NEW s
            PROVE  /\ s \in reservation'[r].owed <=> hit /\ s \in scopes
                   /\ Entry(k, s)'.spent = Entry(k, s).spent + IF hit /\ s \in scopes THEN delta ELSE 0
        <4>1. Entry(k, s).spent \in Int
          BY <1>0, EntryType
        <4>2. s \in reservation'[r].owed <=> hit /\ s \in scopes
          BY <1>2, <1>6 DEF ok, owed
        <4>. QED  BY <2>3, <3>1, <4>1, <4>2
      <3>. QED  BY <3>2, <3>3, <3>4
    <2>5. DOMAIN entry \subseteq Scopes /\ Total \in DOMAIN entry
      BY <1>3, <2>1 DEF missing
    <2>6. \A s : \/ Entry(k, s)' = Entry(k, s)
                 \/ s \in scopes /\ Entry(k, s)' = UnknownEntry /\ k \in torn'
                 \/ /\ s \in scopes /\ Entry(k, s)'.active = Entry(k, s).active
                    /\ Entry(k, s)'.spent = Entry(k, s).spent + delta /\ Entry(k, s)'.spent >= 0
      BY <2>3 DEF missing
    <2>. QED  BY <1>a, <2>2, <2>3, <2>4, <2>5, <2>6 DEF Adjusted
  <1>. QED  BY <1>5, <1>6

(* A late correction that finds the state of its key keeps the invariant.  *)
LEMMA AdjustStateStep ==
    ASSUME IInv, NEW r \in Reservations, NEW usage \in 0 .. MaxMoney, LiveTicket(r),
           reservation[r].key \in DOMAIN states, AdjustState(r, usage),
           UNCHANGED <<lastNow, policies, sequence, sunk>>
    PROVE  IInv'
  <1>k. PICK k : k = reservation[r].key
    OBVIOUS
  <1>d. PICK delta : delta = Correction(r, usage)
    OBVIOUS
  <1>. DEFINE scopes == reservation[r].scopes
              amount == reservation[r].amount
  <1>1. /\ k \in Keys /\ k \in DOMAIN states /\ amount \in Nat /\ amount <= MaxMoney
        /\ scopes \subseteq Scopes /\ delta \in -MaxMoney .. MaxMoney /\ delta \in Int
        /\ delta + amount >= 0 /\ delta = usage - amount /\ MaxMoney \in Nat
    BY <1>k, <1>d, ReservationType, BudgetAssumption DEF IInv, Correction
  <1>a. Adjusted(r, k, delta)
    BY <1>k, <1>d, <1>1, AdjustEntries
  <1>2. /\ DOMAIN states' \subseteq DOMAIN states
        /\ \A x \in DOMAIN states \ {k} : x \in DOMAIN states' /\ states'[x] = states[x]
        /\ k \in DOMAIN states' => /\ states'[k].generation = states[k].generation
                                   /\ StateRecord(states'[k])
                                   /\ Total \in DOMAIN states'[k].entry
        /\ \A s : Entry(k, s)' \in EntryRecord
        /\ k \in DOMAIN states' => DOMAIN states'[k].entry \subseteq Scopes
    BY <1>a DEF Adjusted
  <1>3. \A s : \/ Entry(k, s)' = Entry(k, s)
               \/ s \in scopes /\ Entry(k, s)' = UnknownEntry /\ k \in torn'
               \/ /\ s \in scopes /\ Entry(k, s)'.active = Entry(k, s).active
                  /\ Entry(k, s)'.spent = Entry(k, s).spent + delta /\ Entry(k, s)'.spent >= 0
    BY <1>a DEF Adjusted
  <1>4. k \notin torn' =>
           /\ \A s : Stored(k, s)' => Stored(k, s)
           /\ \E hit \in BOOLEAN : \A s :
                 /\ s \in reservation'[r].owed <=> hit /\ s \in scopes
                 /\ Entry(k, s)'.spent = Entry(k, s).spent + IF hit /\ s \in scopes THEN delta ELSE 0
    BY <1>a DEF Adjusted
  <1>. USE DEF IInv
  <1>5. \A x, s : x # k => Entry(x, s)' = Entry(x, s) /\ (Stored(x, s)' <=> Stored(x, s))
    BY <1>2 DEF Entry, HasState, Stored
  <1>6. \A s : Stored(k, s)' => states'[k].entry[s] = Entry(k, s)'
    BY DEF Entry, HasState, Stored
  <1>7. \E owed \in SUBSET scopes :
           /\ reservation' = [reservation EXCEPT ![r].ticket = "spent", ![r].delta = delta,
                                                 ![r].owed = owed]
           /\ excused' = IF delta > 0
                         THEN excused \cup {[key |-> k, scope |-> s] : s \in scopes} ELSE excused
           /\ torn' = torn \cup {k} \/ torn' = torn
    BY <1>a DEF Adjusted
  <1>8. PICK owed \in SUBSET scopes :
           /\ reservation' = [reservation EXCEPT ![r].ticket = "spent", ![r].delta = delta,
                                                 ![r].owed = owed]
           /\ excused' = IF delta > 0
                         THEN excused \cup {[key |-> k, scope |-> s] : s \in scopes} ELSE excused
           /\ torn' = torn \cup {k} \/ torn' = torn
    BY <1>7
  <1>9. /\ \A x \in Reservations \ {r} : reservation'[x] = reservation[x]
        /\ reservation'[r].state = reservation[r].state /\ reservation'[r].ticket = "spent"
        /\ reservation'[r].delta = delta /\ reservation'[r].owed = owed
        /\ reservation'[r].key = k /\ reservation'[r].amount = amount
        /\ reservation'[r].scopes = scopes /\ reservation'[r].generation = reservation[r].generation
        /\ reservation' \in [Reservations -> ReservationRecord(sequence)]
    <2>. DEFINE Rec == ReservationRecord(sequence)
                new == [reservation[r] EXCEPT !.ticket = "spent", !.delta = delta, !.owed = owed]
    <2>1. reservation \in [Reservations -> Rec] /\ reservation[r] \in Rec
      BY DEF TypeOK, ReservationRecord
    <2>2. reservation' = [reservation EXCEPT ![r] = new]
      BY <1>8, <2>1
    <2>3. /\ new \in Rec /\ new.state = reservation[r].state /\ new.ticket = "spent"
          /\ new.delta = delta /\ new.owed = owed /\ new.key = k /\ new.amount = amount
          /\ new.scopes = scopes /\ new.generation = reservation[r].generation
      BY <1>k, <1>1, <2>1 DEF ReservationRecord
    <2>. HIDE DEF Rec, new
    <2>. QED  BY <2>1, <2>2, <2>3 DEF Rec
  <1>10. /\ reservation[r].state = "final" /\ reservation[r].ticket = "live"
         /\ reservation[r].owed = {} /\ (scopes # {} => amount > 0)
    BY DEF LiveTicket, Lives, TypeOK
  <1>11. TypeOK'
    <2>1. \A x \in DOMAIN states' :
             /\ states'[x].generation \in 1 .. sequence
             /\ Total \in DOMAIN states'[x].entry
             /\ DOMAIN states'[x].entry \subseteq Scopes
             /\ \A s \in DOMAIN states'[x].entry : states'[x].entry[s] \in EntryRecord
      <3>. TAKE x \in DOMAIN states'
      <3>1. CASE x = k
        <4>1. \A s \in DOMAIN states'[k].entry : states'[k].entry[s] \in EntryRecord
          BY <1>2, <1>6, <3>1 DEF Stored, HasState
        <4>. QED  BY <1>1, <1>2, <3>1, <4>1 DEF TypeOK
      <3>2. CASE x # k
        BY <1>2, <3>2 DEF TypeOK, EntryRecord
      <3>. QED  BY <3>1, <3>2
    <2>2. /\ lastNow' \in Times /\ DOMAIN states' \subseteq Keys /\ policies' \in [Keys -> Policies]
          /\ sequence' \in Nat /\ sunk' \in [Keys -> [Scopes -> Int]] /\ torn' \subseteq Keys
      BY <1>1, <1>2, <1>8 DEF TypeOK
    <2>3. reservation' \in [Reservations -> ReservationRecord(sequence')] /\ sequence' = sequence
      BY <1>9
    <2>. QED  BY <2>1, <2>2, <2>3 DEF TypeOK, ReservationRecord, EntryRecord
  <1>12. Lives'
    BY <1>1, <1>9, <1>10 DEF Lives
  <1>13. StatesKnown'
    <2>. SUFFICES ASSUME NEW x \in DOMAIN states'
                  PROVE  /\ StateRecord(states'[x])
                         /\ x \notin torn' => \A s \in DOMAIN states'[x].entry :
                                                states'[x].entry[s].spent >= 0
      BY DEF StatesKnown, StateRecord
    <2>1. CASE x = k
      <3>1. ASSUME k \notin torn', NEW s \in DOMAIN states'[k].entry
            PROVE  states'[k].entry[s].spent >= 0
        <4>1. states'[k].entry[s] = Entry(k, s)' /\ Stored(k, s)
          BY <1>4, <1>6, <2>1, <3>1 DEF Stored, HasState
        <4>2. Entry(k, s).spent >= 0
          BY <1>8, <3>1, <4>1 DEF StatesKnown, Stored, Entry, HasState
        <4>. QED  BY <1>3, <3>1, <4>1, <4>2
      <3>. QED  BY <1>2, <2>1, <3>1
    <2>2. CASE x # k
      BY <1>2, <1>8, <2>2 DEF StatesKnown, StateRecord
    <2>. QED  BY <2>1, <2>2
  <1>14. \A x, s : /\ r \notin HeldIn(x, s) /\ r \notin HeldIn(x, s)' /\ r \notin OwedIn(x, s)
                   /\ r \in OwedIn(x, s)' <=> x = k /\ s \in owed
                   /\ r \in Refundable(x, s)' => r \in Refundable(x, s)
    BY <1>k, <1>9, <1>10 DEF HeldIn, OwedIn, Refundable
  <1>15. ASSUME NEW x, NEW s
         PROVE  /\ SumFunctionOnSet(AmountOf, HeldIn(x, s))' = SumFunctionOnSet(AmountOf, HeldIn(x, s))
                /\ SumFunctionOnSet(DeltaOf, OwedIn(x, s))'
                     = SumFunctionOnSet(DeltaOf, OwedIn(x, s))
                          + IF x = k /\ s \in owed THEN delta ELSE 0
                /\ SumFunctionOnSet(AmountOf, Refundable(x, s))'
                     <= SumFunctionOnSet(AmountOf, Refundable(x, s))
                /\ SumFunctionOnSet(AmountOf, Refundable(x, s))' \in Int
    BY <1>1, <1>9, <1>11, <1>14, BooksStep, SumTypes DEF PartOf
  <1>16. ActiveExact'
    <2>. SUFFICES ASSUME NEW x \in Keys \ torn', NEW s \in Scopes
                  PROVE  Entry(x, s)'.active = Entry(x, s).active
      BY <1>8, <1>15 DEF ActiveExact
    <2>. QED  BY <1>3, <1>5
  <1>17. GenerationPinned'
    <2>1. \A x \in Reservations : Pending(x)' /\ reservation'[x].scopes # {} =>
               /\ Pending(x) /\ reservation'[x].key = reservation[x].key
               /\ reservation'[x].generation = reservation[x].generation
               /\ reservation'[x].scopes = reservation[x].scopes
      BY <1>9, <1>10 DEF Pending
    <2>2. \A x \in DOMAIN states' : x \in DOMAIN states /\ states'[x].generation = states[x].generation
      BY <1>2
    <2>3. torn \subseteq torn'
      BY <1>8
    <2>. QED  BY <1>11, <1>12, <1>16, <2>1, <2>2, <2>3, PinnedStep
  <1>18. SinkExact'
    <2>. SUFFICES ASSUME NEW x \in Keys \ torn', NEW s \in Scopes, Stored(x, s)' \/ Current(s)
                  PROVE  Entry(x, s)'.spent
                           = sunk[x][s] + SumFunctionOnSet(DeltaOf, OwedIn(x, s))'
      BY DEF SinkExact, Current
    <2>1. Stored(x, s) \/ Current(s)
      BY <1>4, <1>5
    <2>2. /\ Entry(x, s).spent = sunk[x][s] + SumFunctionOnSet(DeltaOf, OwedIn(x, s))
          /\ sunk[x][s] \in Int /\ SumFunctionOnSet(DeltaOf, OwedIn(x, s)) \in Int
      BY <1>8, <2>1, SumTypes DEF SinkExact, TypeOK
    <2>3. CASE x = k
      <3>1. PICK hit \in BOOLEAN : \A y :
               /\ y \in reservation'[r].owed <=> hit /\ y \in scopes
               /\ Entry(k, y)'.spent = Entry(k, y).spent + IF hit /\ y \in scopes THEN delta ELSE 0
        BY <1>4, <2>3
      <3>2. Entry(k, s)'.spent = Entry(k, s).spent + IF s \in owed THEN delta ELSE 0
        BY <1>9, <3>1
      <3>3. SumFunctionOnSet(DeltaOf, OwedIn(x, s))'
              = SumFunctionOnSet(DeltaOf, OwedIn(x, s)) + IF s \in owed THEN delta ELSE 0
        BY <1>15, <2>3
      <3>4. CASE s \in owed
        BY <1>1, <2>2, <2>3, <3>2, <3>3, <3>4
      <3>5. CASE s \notin owed
        BY <1>1, <2>2, <2>3, <3>2, <3>3, <3>5
      <3>. QED  BY <3>4, <3>5
    <2>4. CASE x # k
      BY <1>5, <1>15, <2>2, <2>4
    <2>. QED  BY <2>3, <2>4
  <1>19. SinkCovers'
    <2>. SUFFICES ASSUME NEW x \in Keys, NEW s \in Scopes
                  PROVE  sunk[x][s] >= SumFunctionOnSet(AmountOf, Refundable(x, s))'
      BY DEF SinkCovers
    <2>1. sunk[x][s] \in Int /\ sunk[x][s] >= SumFunctionOnSet(AmountOf, Refundable(x, s))
      BY DEF SinkCovers, TypeOK
    <2>. QED  BY <1>15, <2>1, SumTypes
  <1>20. WithinEvery'
    <2>. SUFFICES ASSUME NEW x \in Keys, NEW s \in Scopes, s.period \in DOMAIN policies[x],
                         [key |-> x, scope |-> s] \notin excused'
                  PROVE  Entry(x, s)'.spent + Entry(x, s)'.active <= policies[x][s.period]
      BY DEF WithinEvery
    <2>1. Entry(x, s).spent + Entry(x, s).active <= policies[x][s.period]
      BY <1>8 DEF WithinEvery
    <2>2. policies[x][s.period] \in Nat /\ Entry(x, s).spent \in Int /\ Entry(x, s).active \in Int
      BY BudgetAssumption, EntryType DEF TypeOK
    <2>3. CASE Entry(x, s)' = Entry(x, s)
      BY <2>1, <2>3
    <2>4. CASE x = k /\ s \in scopes /\ Entry(k, s)' = UnknownEntry
      BY <2>2, <2>4 DEF UnknownEntry, Unknown
    <2>5. CASE /\ x = k /\ s \in scopes /\ Entry(k, s)'.active = Entry(k, s).active
               /\ Entry(k, s)'.spent = Entry(k, s).spent + delta
      <3>1. delta <= 0
        BY <1>1, <1>8, <2>5
      <3>. QED  BY <1>1, <2>1, <2>2, <2>5, <3>1
    <2>. QED  BY <1>3, <1>5, <2>3, <2>4, <2>5
  <1>. QED  BY <1>11, <1>12, <1>13, <1>16, <1>17, <1>18, <1>19, <1>20

(* A ticket that is consumed without a correction.                         *)
LEMMA TicketDropped ==
    ASSUME IInv, NEW r \in Reservations, LiveTicket(r),
           reservation' = [reservation EXCEPT ![r].ticket = "spent"],
           UNCHANGED <<lastNow, states, policies, sequence, sunk, excused, torn>>
    PROVE  IInv'
  <1>. DEFINE Rec == ReservationRecord(sequence)
              new == [reservation[r] EXCEPT !.ticket = "spent"]
  <1>1. reservation \in [Reservations -> Rec] /\ reservation[r] \in Rec
    BY DEF IInv, TypeOK, ReservationRecord
  <1>2. reservation' = [reservation EXCEPT ![r] = new]
    BY <1>1
  <1>3. /\ new \in Rec /\ new.ticket = "spent" /\ new.state = reservation[r].state
        /\ new.delta = reservation[r].delta /\ new.owed = reservation[r].owed
        /\ new.key = reservation[r].key /\ new.amount = reservation[r].amount
        /\ new.scopes = reservation[r].scopes /\ new.generation = reservation[r].generation
    BY <1>1 DEF ReservationRecord
  <1>. HIDE DEF Rec, new
  <1>4. /\ reservation' \in [Reservations -> Rec] /\ reservation'[r] = new
        /\ \A x \in Reservations \ {r} : reservation'[x] = reservation[x]
    BY <1>1, <1>2, <1>3
  <1>5. reservation[r].amount \in Nat /\ reservation[r].ticket = "live" /\ reservation[r].owed = {}
    BY ReservationType DEF IInv, LiveTicket
  <1>6. Lives'
    BY <1>3, <1>4, <1>5 DEF IInv, Lives
  <1>7. Pending(r)' <=> Pending(r)
    BY <1>3, <1>4 DEF Pending
  <1>. QED  BY <1>3, <1>4, <1>5, <1>6, <1>7, QuietStep DEF Rec

(* A late correction keeps the invariant.                                  *)
LEMMA AdjustStep ==
    ASSUME IInv, NEW r \in Reservations, NEW usage \in Usages, Adjust(r, usage)
    PROVE  IInv'
  <1>1. /\ LiveTicket(r) /\ UNCHANGED <<lastNow, policies, sequence, sunk>>
        /\ \/ usage # Unknown /\ HasState(reservation[r].key) /\ AdjustState(r, usage)
           \/ /\ reservation' = [reservation EXCEPT ![r].ticket = "spent"]
              /\ UNCHANGED <<states, excused, torn>>
    BY DEF Adjust
  <1>2. usage # Unknown => usage \in 0 .. MaxMoney
    BY BudgetAssumption
  <1>. QED  BY <1>1, <1>2, AdjustStateStep, TicketDropped DEF HasState

-----------------------------------------------------------------------------
(* Replacing a policy keeps the invariant.                                 *)
LEMMA ReplacePolicyStep ==
    ASSUME IInv, NEW k \in Keys, NEW new \in Policies, ReplacePolicy(k, new)
    PROVE  IInv'
  <1>. USE DEF IInv
  <1>1. /\ policies' = [policies EXCEPT ![k] = new] /\ excused \subseteq excused'
        /\ UNCHANGED <<lastNow, states, sequence, reservation, sunk, torn>>
    BY DEF ReplacePolicy
  <1>2. ASSUME NEW s \in Scopes, s.period \in DOMAIN new,
               Entry(k, s).spent + Entry(k, s).active > new[s.period]
        PROVE  [key |-> k, scope |-> s] \in excused'
    BY <1>2 DEF ReplacePolicy
  <1>3. TypeOK' /\ Lives' /\ StatesKnown'
    BY <1>1 DEF TypeOK, Lives, StatesKnown
  <1>4. \A x, s : Entry(x, s)' = Entry(x, s) /\ (Stored(x, s)' <=> Stored(x, s))
                  /\ (Current(s)' <=> Current(s))
    BY <1>1 DEF Entry, HasState, Stored, Current
  <1>5. /\ AmountOf' = AmountOf /\ DeltaOf' = DeltaOf
        /\ \A x, s : /\ HeldIn(x, s)' = HeldIn(x, s) /\ OwedIn(x, s)' = OwedIn(x, s)
                     /\ Refundable(x, s)' = Refundable(x, s)
    BY <1>1 DEF AmountOf, DeltaOf, HeldIn, OwedIn, Refundable
  <1>6. ActiveExact' /\ SinkExact' /\ SinkCovers'
    BY <1>1, <1>4, <1>5 DEF ActiveExact, SinkExact, SinkCovers
  <1>7. GenerationPinned'
    BY <1>1 DEF GenerationPinned, Pending, HasState
  <1>8. WithinEvery'
    <2>. SUFFICES ASSUME NEW x \in Keys, NEW s \in Scopes, s.period \in DOMAIN policies'[x],
                         [key |-> x, scope |-> s] \notin excused'
                  PROVE  Entry(x, s).spent + Entry(x, s).active <= policies'[x][s.period]
      BY <1>4 DEF WithinEvery
    <2>1. policies'[x] = IF x = k THEN new ELSE policies[x]
      BY <1>1 DEF TypeOK
    <2>2. CASE x = k
      <3>1. /\ new[s.period] \in Int
            /\ Entry(k, s).spent \in Int /\ Entry(k, s).active \in Int
        BY <2>1, <2>2, BudgetAssumption, EntryType
      <3>. QED  BY <1>2, <2>1, <2>2, <3>1
    <2>3. CASE x # k
      BY <1>1, <2>1, <2>3 DEF WithinEvery
    <2>. QED  BY <2>2, <2>3
  <1>. QED  BY <1>3, <1>6, <1>7, <1>8

(* Every step keeps the invariant.                                         *)
LEMMA NextIInv == IInv /\ [Next]_budgetVars => IInv'
  <1>. SUFFICES ASSUME IInv, [Next]_budgetVars PROVE IInv'
    OBVIOUS
  <1>1. CASE UNCHANGED budgetVars
    <2>1. UNCHANGED <<lastNow, states, policies, sequence, reservation, sunk, excused, torn>>
      BY <1>1 DEF budgetVars
    <2>2. lastNow \in lastNow .. MaxTime
      BY BudgetAssumption DEF IInv, TypeOK, Times
    <2>3. reservation' \in [Reservations -> ReservationRecord(sequence)] /\ Lives'
      BY <2>1 DEF IInv, TypeOK, ReservationRecord, Lives
    <2>. QED  BY <2>1, <2>2, <2>3, CleanStep
  <1>2. ASSUME NEW r \in Reservations, NEW usage \in Usages, Commit(r, usage) PROVE IInv'
    <2>. DEFINE wanted == IF usage = Unknown THEN reservation[r].amount ELSE usage
    <2>1. Settle(r, wanted, FALSE)
      BY <1>2, Zenon DEF Commit
    <2>2. wanted \in 0 .. MaxMoney
      BY BudgetAssumption DEF IInv, TypeOK
    <2>. HIDE DEF wanted
    <2>. QED  BY <2>1, <2>2, SettleStep
  <1>3. ASSUME NEW r \in Reservations, NEW deferred \in BOOLEAN,
               Settle(r, reservation[r].amount, deferred)
        PROVE  IInv'
    <2>1. reservation[r].amount \in 0 .. MaxMoney
      BY DEF IInv, TypeOK
    <2>. QED  BY <1>3, <2>1, SettleStep
  <1>4. ASSUME NEW r \in Reservations, ReleaseBeforeUpstream(r) PROVE IInv'
    <2>. DEFINE wanted == 0
    <2>1. Settle(r, wanted, FALSE)
      BY <1>4, Zenon DEF ReleaseBeforeUpstream
    <2>2. wanted \in 0 .. MaxMoney
      BY BudgetAssumption
    <2>. HIDE DEF wanted
    <2>. QED  BY <2>1, <2>2, SettleStep
  <1>5. ASSUME NEW r \in Reservations, CompleteConservative(r) \/ CommitDeferred(r) PROVE IInv'
    BY <1>3, <1>5 DEF CompleteConservative, CommitDeferred
  <1>6. ASSUME NEW r \in Reservations, Invalidate(r) PROVE IInv'
    BY <1>6, TicketDropped DEF Invalidate
  <1>. QED  BY <1>1, <1>2, <1>4, <1>5, <1>6, AdjustStep, NotifyStep, ReserveStep,
               ReserveNothingStep, RefuseStep, RetryStep, ReplacePolicyStep DEF Next

-----------------------------------------------------------------------------
(***************************************************************************)
(* IInv, the inductive invariant above, holds of every reachable state of  *)
(* the limiter of internal/limiter/budget.go.                              *)
(***************************************************************************)
THEOREM BudgetInvariant == Spec => []IInv
  BY InitIInv, NextIInv, PTL DEF Spec

(***************************************************************************)
(* The budget ledger is exact: active amounts are those of the unsettled   *)
(* reservations, and each of these can still be settled, through           *)
(* rollovers, the deletion and recreation of a key's state, policy         *)
(* replacement and late adjustments (Reserve, settleReservation, Adjust    *)
(* and ReplacePolicy of internal/limiter/budget.go).                       *)
(***************************************************************************)
THEOREM BudgetLedgerExact == Spec => []LedgerExact
  <1>1. IInv => LedgerExact
    <2>. SUFFICES ASSUME IInv PROVE OpenIsSettleable
      BY DEF IInv, LedgerExact
    <2>. SUFFICES ASSUME NEW r \in Reservations, Unsettled(r), reservation[r].scopes # {},
                         reservation[r].key \notin torn,
                         \A s \in Scopes : Entry(reservation[r].key, s).spent
                             + Entry(reservation[r].key, s).active <= MaxMoney
                  PROVE  Settleable(r)
      BY DEF OpenIsSettleable
    <2>. DEFINE k == reservation[r].key
    <2>1. k \in Keys /\ HasState(k) /\ states[k].generation = reservation[r].generation
      BY ReservationType DEF IInv, GenerationPinned, Pending, Unsettled
    <2>2. ASSUME NEW s \in Scopes
          PROVE  /\ Entry(k, s).active = SumFunctionOnSet(AmountOf, HeldIn(k, s))
                 /\ Entry(k, s).active \in Nat
      BY <2>1, SumTypes DEF IInv, ActiveExact
    <2>3. Valid(states[k])
      <3>. SUFFICES ASSUME NEW s \in DOMAIN states[k].entry
                    PROVE  LET e == states[k].entry[s] IN
                           e.spent >= 0 /\ e.active >= 0 /\ e.spent + e.active <= MaxMoney
        BY DEF Valid
      <3>1. s \in Scopes /\ states[k].entry[s] = Entry(k, s) /\ states[k].entry[s].spent >= 0
        BY <2>1 DEF IInv, TypeOK, Entry, HasState, StatesKnown
      <3>. QED  BY <2>2, <3>1
    <2>4. ASSUME NEW s \in reservation[r].scopes
          PROVE  Entry(k, s).active >= reservation[r].amount
      <3>1. s \in Scopes /\ r \in HeldIn(k, s)
        BY ReservationType DEF IInv, HeldIn, Unsettled
      <3>2. /\ reservation[r].amount <= SumFunctionOnSet(AmountOf, HeldIn(k, s))
            /\ reservation[r].amount \in Nat
        BY <3>1, SumTypes, ReservationType DEF IInv
      <3>. QED  BY <2>2, <3>1, <3>2
    <2>. QED  BY <2>1, <2>3, <2>4 DEF Settleable
  <1>. QED  BY <1>1, BudgetInvariant, PTL

(***************************************************************************)
(* Admission never lets spend and reservations pass a limit of the current *)
(* policy in the current period: only a cost above its estimate, or a      *)
(* limit that was cut below what was used, can (Reserve, ReplacePolicy).   *)
(***************************************************************************)
THEOREM BudgetWithinLimit == Spec => []WithinLimit
  <1>1. IInv => WithinLimit
    <2>. SUFFICES ASSUME IInv, NEW k \in Keys, NEW d \in DOMAIN policies[k],
                         [key |-> k, scope |-> Scope(d, lastNow)] \notin excused
                  PROVE  Entry(k, Scope(d, lastNow)).spent + Entry(k, Scope(d, lastNow)).active
                            <= policies[k][d]
      BY DEF WithinLimit
    <2>1. d \in Periods /\ lastNow \in Times
      BY BudgetAssumption DEF IInv, TypeOK
    <2>2. Scope(d, lastNow) \in Scopes /\ Scope(d, lastNow).period = d
      BY <2>1, ScopeFacts
    <2>. QED  BY <2>2 DEF IInv, WithinEvery
  <1>. QED  BY <1>1, BudgetInvariant, PTL

(***************************************************************************)
(* The rows the sink is told of converge to the spend in memory and are    *)
(* never negative on the way, although deltas are delivered one by one     *)
(* after the mutex is released (notifyBudgetDelta).                        *)
(***************************************************************************)
THEOREM BudgetSinkConverges == Spec => []SinkAgrees
  <1>1. IInv => SinkAgrees
    <2>. SUFFICES ASSUME IInv PROVE SinkAgrees
      OBVIOUS
    <2>1. ASSUME NEW k \in DOMAIN states \ torn, NEW s \in DOMAIN states[k].entry
          PROVE  states[k].entry[s].spent
                    = sunk[k][s] + SumFunctionOnSet(DeltaOf, OwedIn(k, s))
      <3>1. k \in Keys /\ s \in Scopes /\ Stored(k, s) /\ Entry(k, s) = states[k].entry[s]
        BY DEF IInv, TypeOK, Stored, HasState, Entry
      <3>. QED  BY <3>1 DEF IInv, SinkExact
    <2>2. ASSUME NEW k \in Keys, NEW s \in Scopes PROVE sunk[k][s] >= 0
      <3>1. /\ sunk[k][s] \in Int /\ SumFunctionOnSet(AmountOf, Refundable(k, s)) \in Nat
            /\ sunk[k][s] >= SumFunctionOnSet(AmountOf, Refundable(k, s))
        BY SumTypes DEF IInv, TypeOK, SinkCovers
      <3>. QED  BY <3>1
    <2>. QED  BY <2>1, <2>2 DEF SinkAgrees
  <1>. QED  BY <1>1, BudgetInvariant, PTL
=============================================================================
