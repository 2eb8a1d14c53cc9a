--------------------------- MODULE ServiceProofs ----------------------------
(***************************************************************************)
(* Proofs about the services that share no state with one another: the     *)
(* request-rate limiter (RequestLimiter), the gateway keys (KeyRegistry),  *)
(* token usage across restarts (TokenRecovery), the analytics coordinators *)
(* (AnalyticsCoordinator), the admin sessions (AdminSessions) and the      *)
(* request history (RequestHistory).  Each part states its inductive       *)
(* invariant, proves that every action preserves it, and derives what the  *)
(* run of MCServices checks.                                               *)
(***************************************************************************)
EXTENDS RequestLimiter, KeyRegistry, TokenRecovery, AnalyticsCoordinator, AdminSessions,
        RequestHistory, SumTheorems, SequenceTheorems

(***************************************************************************)
(* The request-rate limiter.  WithinRequestWindow speaks of the admissions *)
(* of all time, the limiter remembers one window start per counter.  The   *)
(* invariant ties the two: a counter holds exactly the admissions of the   *)
(* window it remembers, no admission is of a window after the current one, *)
(* and those of the current window are still counted.                      *)
(***************************************************************************)

RateWindows == UNION RatePolicies

RateIDs == RateKeys \X RateWindows

CountersExact ==
    \A kw \in DOMAIN counts :
        LET x == <<kw[1], kw[2], counts[kw].start>>
        IN  x \in DOMAIN admissions /\ admissions[x] = counts[kw].count

AdmissionsPast ==
    \A x \in DOMAIN admissions :
        /\ x[3] <= FixedWindowStart(lastNow, x[2].duration)
        /\ x[3] = FixedWindowStart(lastNow, x[2].duration) =>
                /\ <<x[1], x[2]>> \in DOMAIN counts
                /\ counts[<<x[1], x[2]>>].start = x[3]

RateTypeOK ==
    /\ wall \in Nat /\ lastNow \in Nat
    /\ DOMAIN counts \subseteq RateIDs
    /\ DOMAIN admissions \subseteq RateKeys \X RateWindows \X Nat
    /\ \A x \in DOMAIN admissions : admissions[x] \in Nat \ {0}

RateInv == RateTypeOK /\ CountersExact /\ AdmissionsPast /\ WithinRequestWindow

-----------------------------------------------------------------------------
(* The start of the fixed window of a later instant is no earlier, and     *)
(* the window contains the instant.                                        *)
LEMMA WindowStart ==
    ASSUME NEW t \in Nat, NEW d \in Nat \ {0}
    PROVE  /\ FixedWindowStart(t, d) \in Nat
           /\ FixedWindowStart(t, d) <= t /\ t < FixedWindowStart(t, d) + d
  <1>1. t % d \in 0 .. d - 1
    OBVIOUS
  <1>2. t - (t % d) \in Nat
    BY SMTT(30)
  <1>. QED  BY <1>1, <1>2 DEF FixedWindowStart

(* Window starts follow the clock.                                         *)
LEMMA WindowStartAdvances ==
    ASSUME NEW t \in Nat, NEW u \in Nat, t <= u, NEW d \in Nat \ {0}
    PROVE  FixedWindowStart(t, d) <= FixedWindowStart(u, d)
  <1>1. t - (t % d) <= u - (u % d)
    BY SMTT(30)
  <1>. QED  BY <1>1 DEF FixedWindowStart

(* The windows of a policy, and of every policy, are positive.             *)
LEMMA RateWindowFacts ==
    \A w \in RateWindows : w.amount \in Nat \ {0} /\ w.duration \in Nat \ {0}
  BY RateAssumption DEF RateWindows

(* The clock of the limiter is a time and does not go back.                *)
LEMMA CurrentTimeFacts ==
    ASSUME RateInv
    PROVE  CurrentTime \in Nat /\ lastNow <= CurrentTime
  BY DEF RateInv, RateTypeOK, CurrentTime

-----------------------------------------------------------------------------
(* No counter exists at the start.                                         *)
LEMMA RateInitInv == RateInit => RateInv
  BY DEF RateInit, RateInv, RateTypeOK, CountersExact, AdmissionsPast, WithinRequestWindow

(* Sweeping the counters keeps those of the window the clock is in.        *)
LEMMA DiscardKeeps ==
    ASSUME RateInv, NEW t \in Nat, lastNow <= t, NEW kept, kept = DiscardExpired(counts, t)
    PROVE  /\ DOMAIN kept \subseteq DOMAIN counts
           /\ \A kw \in DOMAIN kept : kept[kw] = counts[kw]
           /\ \A x \in DOMAIN admissions :
                x[3] = FixedWindowStart(t, x[2].duration) =>
                    <<x[1], x[2]>> \in DOMAIN kept /\ kept[<<x[1], x[2]>>].start = x[3]
  <1>1. DOMAIN kept = {kw \in DOMAIN counts : counts[kw].start + kw[2].duration > t}
    BY DEF DiscardExpired, Restrict
  <1>2. \A kw \in DOMAIN kept : kept[kw] = counts[kw]
    BY DEF DiscardExpired, Restrict
  <1>3. ASSUME NEW x \in DOMAIN admissions, x[3] = FixedWindowStart(t, x[2].duration)
        PROVE  <<x[1], x[2]>> \in DOMAIN kept /\ kept[<<x[1], x[2]>>].start = x[3]
    <2>1. x[2].duration \in Nat \ {0} /\ x[3] \in Nat /\ lastNow \in Nat
      BY RateWindowFacts DEF RateInv, RateTypeOK
    <2>2. FixedWindowStart(lastNow, x[2].duration) <= FixedWindowStart(t, x[2].duration)
      BY <2>1, WindowStartAdvances
    <2>3. FixedWindowStart(lastNow, x[2].duration) \in Nat
      BY <2>1, WindowStart
    <2>4. x[3] = FixedWindowStart(lastNow, x[2].duration)
      <3>1. x[3] <= FixedWindowStart(lastNow, x[2].duration)
        BY DEF RateInv, AdmissionsPast
      <3>. QED  BY <2>1, <2>2, <2>3, <1>3, <3>1
    <2>5. <<x[1], x[2]>> \in DOMAIN counts /\ counts[<<x[1], x[2]>>].start = x[3]
      BY <2>4 DEF RateInv, AdmissionsPast
    <2>6. x[3] + x[2].duration > t
      BY <2>1, <1>3, WindowStart
    <2>. QED  BY <2>5, <2>6, <1>1, <1>2
  <1>. QED  BY <1>1, <1>2, <1>3

(* Allow charges every window of an admitted request once, and nothing for *)
(* a refused one.                                                          *)
LEMMA AllowStep ==
    ASSUME RateInv, NEW key \in RateKeys, NEW windows \in RatePolicies, Allow(key, windows)
    PROVE  RateInv'
  <1>. DEFINE t == CurrentTime
              kept == DiscardExpired(counts, t)
              admitted == Exhausted(kept, key, windows, t) = {}
              charged == {<<key, w>> : w \in windows}
              new == {<<key, w, FixedWindowStart(t, w.duration)>> : w \in windows}
  <1>1. t \in Nat /\ lastNow <= t /\ lastNow \in Nat
    BY CurrentTimeFacts DEF RateInv, RateTypeOK
  <1>2. lastNow' = t /\ wall' = wall
    BY DEF Allow
  <1>3. windows \subseteq RateWindows
    BY DEF RateWindows
  <1>4. \A w \in RateWindows : /\ w.duration \in Nat \ {0} /\ w.amount \in Nat \ {0}
                               /\ FixedWindowStart(t, w.duration) \in Nat
    BY <1>1, RateWindowFacts, WindowStart
  <1>5. /\ DOMAIN kept \subseteq DOMAIN counts
        /\ \A kw \in DOMAIN kept : kept[kw] = counts[kw]
        /\ \A x \in DOMAIN admissions :
                x[3] = FixedWindowStart(t, x[2].duration) =>
                    <<x[1], x[2]>> \in DOMAIN kept /\ kept[<<x[1], x[2]>>].start = x[3]
    <2>. HIDE DEF t, kept
    <2>. QED  BY <1>1, DiscardKeeps DEF kept
  <1>6. \A x \in DOMAIN admissions :
            /\ x \in RateKeys \X RateWindows \X Nat /\ admissions[x] \in Nat \ {0}
            /\ x[3] <= FixedWindowStart(t, x[2].duration)
    <2>1. ASSUME NEW x \in DOMAIN admissions
          PROVE  x[3] <= FixedWindowStart(t, x[2].duration)
      <3>1. x[2] \in RateWindows /\ x[3] \in Nat
        BY DEF RateInv, RateTypeOK
      <3>2. x[2].duration \in Nat \ {0}
        BY <3>1, <1>4
      <3>3. FixedWindowStart(lastNow, x[2].duration) <= FixedWindowStart(t, x[2].duration)
        BY <3>2, <1>1, WindowStartAdvances
      <3>4. FixedWindowStart(lastNow, x[2].duration) \in Nat /\ FixedWindowStart(t, x[2].duration) \in Nat
        BY <3>1, <3>2, <1>1, <1>4, WindowStart
      <3>5. x[3] <= FixedWindowStart(lastNow, x[2].duration)
        BY DEF RateInv, AdmissionsPast
      <3>. QED  BY <3>1, <3>3, <3>4, <3>5
    <2>. QED  BY <2>1 DEF RateInv, RateTypeOK
  <1>7. CASE ~admitted
    <2>1. counts' = kept /\ admissions' = admissions
      BY <1>7 DEF Allow
    <2>. HIDE DEF t, kept, admitted
    <2>2. RateTypeOK'
      BY <1>1, <1>2, <1>5, <2>1 DEF RateInv, RateTypeOK
    <2>3. CountersExact'
      BY <1>5, <2>1 DEF RateInv, CountersExact
    <2>4. AdmissionsPast'
      BY <1>2, <1>5, <1>6, <2>1 DEF AdmissionsPast
    <2>5. WithinRequestWindow'
      BY <2>1 DEF RateInv, WithinRequestWindow
    <2>. QED  BY <2>2, <2>3, <2>4, <2>5 DEF RateInv
  <1>8. CASE admitted
    <2>1. /\ DOMAIN counts' = DOMAIN kept \cup charged
          /\ \A kw \in DOMAIN counts' :
                counts'[kw] = IF kw \in charged
                              THEN [start |-> FixedWindowStart(t, kw[2].duration),
                                    count |-> Count(kept, key, kw[2], t) + 1]
                              ELSE kept[kw]
      BY <1>8 DEF Allow
    <2>2. /\ DOMAIN admissions' = DOMAIN admissions \cup new
          /\ \A x \in DOMAIN admissions' :
                admissions'[x] = (IF x \in DOMAIN admissions THEN admissions[x] ELSE 0)
                                 + (IF x \in new THEN 1 ELSE 0)
      BY <1>8 DEF Allow, Spent
    <2>3. ASSUME NEW w \in windows
          PROVE  LET x == <<key, w, FixedWindowStart(t, w.duration)>>
                     n == IF x \in DOMAIN admissions THEN admissions[x] ELSE 0
                 IN  Count(kept, key, w, t) = n /\ n \in Nat /\ n < w.amount
      <3>. DEFINE x == <<key, w, FixedWindowStart(t, w.duration)>>
      <3>0. w \in RateWindows
        BY <1>3
      <3>1. Count(kept, key, w, t) < w.amount \/ ~(Count(kept, key, w, t) \in Int)
        <4>1. ~(Count(kept, key, w, t) >= w.amount)
          BY <1>8 DEF Exhausted
        <4>. QED  BY <4>1, <3>0, <1>4
      <3>. HIDE DEF t, kept, admitted
      <3>2. CASE x \in DOMAIN admissions
        <4>1. x[1] = key /\ x[2] = w /\ x[3] = FixedWindowStart(t, w.duration)
          OBVIOUS
        <4>2. <<key, w>> \in DOMAIN kept /\ kept[<<key, w>>].start = x[3]
          BY <1>5, <3>2, <4>1
        <4>3. Count(kept, key, w, t) = counts[<<key, w>>].count
          BY <4>1, <4>2, <1>5 DEF Count
        <4>4. counts[<<key, w>>].count = admissions[x]
          BY <4>1, <4>2, <1>5 DEF RateInv, CountersExact
        <4>. QED  BY <4>3, <4>4, <3>2, <3>1, <1>6
      <3>3. CASE x \notin DOMAIN admissions
        <4>1. ~(<<key, w>> \in DOMAIN kept /\ kept[<<key, w>>].start = FixedWindowStart(t, w.duration))
          BY <3>3, <1>5 DEF RateInv, CountersExact
        <4>2. Count(kept, key, w, t) = 0
          BY <4>1 DEF Count
        <4>. QED  BY <4>2, <3>3, <3>0, <1>4
      <3>. QED  BY <3>2, <3>3
    <2>. HIDE DEF t, kept, admitted
    <2>4. RateTypeOK'
      <3>1. DOMAIN counts' \subseteq RateIDs
        BY <2>1, <1>3, <1>5 DEF RateInv, RateTypeOK, RateIDs
      <3>3. new \subseteq RateKeys \X RateWindows \X Nat
        BY <1>3, <1>4
      <3>4. DOMAIN admissions' \subseteq RateKeys \X RateWindows \X Nat
        BY <3>3, <2>2, <1>6
      <3>5. \A x \in DOMAIN admissions' : admissions'[x] \in Nat \ {0}
        BY <2>2, <1>6
      <3>. QED  BY <3>1, <3>4, <3>5, <1>1, <1>2 DEF RateInv, RateTypeOK
    <2>5. CountersExact'
      <3>1. ASSUME NEW kw \in DOMAIN counts'
            PROVE  LET x == <<kw[1], kw[2], counts'[kw].start>>
                   IN  x \in DOMAIN admissions' /\ admissions'[x] = counts'[kw].count
        <4>1. CASE kw \in charged
          <5>1. PICK w \in windows : kw = <<key, w>>
            BY <4>1
          <5>2. kw[1] = key /\ kw[2] = w
            BY <5>1
          <5>3. counts'[kw].start = FixedWindowStart(t, w.duration)
                /\ counts'[kw].count = Count(kept, key, w, t) + 1
            <6>1. counts'[kw] = [start |-> FixedWindowStart(t, kw[2].duration),
                                 count |-> Count(kept, key, kw[2], t) + 1]
              BY <2>1, <4>1
            <6>. QED  BY <6>1, <5>2
          <5>4. <<key, w, FixedWindowStart(t, w.duration)>> \in new
            OBVIOUS
          <5>. HIDE DEF new
          <5>. QED  BY <2>2, <2>3, <5>2, <5>3, <5>4
        <4>2. CASE kw \notin charged
          <5>1. kw \in DOMAIN kept /\ counts'[kw] = counts[kw] /\ kw \in DOMAIN counts
            BY <2>1, <4>2, <1>5
          <5>2. kw = <<kw[1], kw[2]>>
            BY <5>1 DEF RateInv, RateTypeOK, RateIDs
          <5>. DEFINE x == <<kw[1], kw[2], counts[kw].start>>
          <5>3. x \in DOMAIN admissions /\ admissions[x] = counts[kw].count
            BY <5>1 DEF RateInv, CountersExact
          <5>4. x \notin new
            BY <4>2, <5>2
          <5>5. admissions[x] \in Nat
            BY <5>3, <1>6
          <5>. QED  BY <5>1, <5>3, <5>4, <5>5, <2>2
        <4>. QED  BY <4>1, <4>2
      <3>. QED  BY <3>1 DEF CountersExact
    <2>6. AdmissionsPast'
      <3>1. ASSUME NEW x \in DOMAIN admissions'
            PROVE  /\ x[3] <= FixedWindowStart(t, x[2].duration)
                   /\ x[3] = FixedWindowStart(t, x[2].duration) =>
                        /\ <<x[1], x[2]>> \in DOMAIN counts'
                        /\ counts'[<<x[1], x[2]>>].start = x[3]
        <4>1. CASE x \in new
          <5>1. PICK w \in windows : x = <<key, w, FixedWindowStart(t, w.duration)>>
            BY <4>1
          <5>2. x[1] = key /\ x[2] = w /\ x[3] = FixedWindowStart(t, w.duration) /\ x[3] \in Nat
            BY <5>1, <1>3, <1>4
          <5>3. <<key, w>> \in charged
            OBVIOUS
          <5>4. <<key, w>> \in DOMAIN counts'
            BY <5>3, <2>1
          <5>5. counts'[<<key, w>>].start = FixedWindowStart(t, w.duration)
            <6>1. counts'[<<key, w>>] = [start |-> FixedWindowStart(t, w.duration),
                                         count |-> Count(kept, key, w, t) + 1]
              BY <5>3, <5>4, <2>1
            <6>. QED  BY <6>1
          <5>. QED  BY <5>2, <5>4, <5>5
        <4>2. CASE x \notin new
          <5>1. x \in DOMAIN admissions
            BY <4>2, <2>2
          <5>2. ASSUME x[3] = FixedWindowStart(t, x[2].duration)
                PROVE  /\ <<x[1], x[2]>> \in DOMAIN counts'
                       /\ counts'[<<x[1], x[2]>>].start = x[3]
            <6>1. <<x[1], x[2]>> \in DOMAIN kept /\ kept[<<x[1], x[2]>>].start = x[3]
              BY <5>1, <5>2, <1>5
            <6>2. <<x[1], x[2]>> \in DOMAIN counts'
              BY <6>1, <2>1
            <6>3. counts'[<<x[1], x[2]>>].start = x[3]
              <7>1. CASE <<x[1], x[2]>> \in charged
                <8>1. counts'[<<x[1], x[2]>>] = [start |-> FixedWindowStart(t, x[2].duration),
                                                 count |-> Count(kept, key, x[2], t) + 1]
                  BY <7>1, <6>2, <2>1
                <8>. QED  BY <8>1, <5>2
              <7>2. CASE <<x[1], x[2]>> \notin charged
                <8>1. counts'[<<x[1], x[2]>>] = kept[<<x[1], x[2]>>]
                  BY <7>2, <6>2, <2>1
                <8>. QED  BY <8>1, <6>1
              <7>. QED  BY <7>1, <7>2
            <6>. QED  BY <6>2, <6>3
          <5>. QED  BY <5>1, <5>2, <1>6
        <4>. QED  BY <4>1, <4>2
      <3>. QED  BY <3>1, <1>2 DEF AdmissionsPast
    <2>7. WithinRequestWindow'
      <3>1. ASSUME NEW x \in DOMAIN admissions'
            PROVE  admissions'[x] <= x[2].amount
        <4>1. CASE x \in new
          <5>1. PICK w \in windows : x = <<key, w, FixedWindowStart(t, w.duration)>>
            BY <4>1
          <5>2. x[2] = w /\ w.amount \in Nat
            BY <5>1, <1>3, <1>4
          <5>. HIDE DEF new
          <5>. QED  BY <4>1, <5>1, <5>2, <2>2, <2>3
        <4>2. CASE x \notin new
          <5>1. x \in DOMAIN admissions /\ admissions[x] \in Nat
            BY <4>2, <2>2, <1>6
          <5>. HIDE DEF new
          <5>. QED  BY <4>2, <5>1, <2>2 DEF RateInv, WithinRequestWindow
        <4>. QED  BY <4>1, <4>2
      <3>. QED  BY <3>1 DEF WithinRequestWindow
    <2>. QED  BY <2>4, <2>5, <2>6, <2>7 DEF RateInv
  <1>. QED  BY <1>7, <1>8

(* Setting the clock, back or forth, and stuttering.                       *)
LEMMA RateNextInv == RateInv /\ [RateNext]_rateVars => RateInv'
  <1>. SUFFICES ASSUME RateInv, [RateNext]_rateVars PROVE RateInv'
    OBVIOUS
  <1>1. ASSUME NEW t \in 0 .. MaxRateTime, SetClock(t) PROVE RateInv'
    BY <1>1 DEF SetClock, RateInv, RateTypeOK, CountersExact, AdmissionsPast, WithinRequestWindow
  <1>2. CASE UNCHANGED rateVars
    BY <1>2 DEF rateVars, RateInv, RateTypeOK, CountersExact, AdmissionsPast, WithinRequestWindow
  <1>. QED  BY <1>1, <1>2, AllowStep DEF RateNext

(* In every reachable state the counters agree with the admissions.        *)
THEOREM RateInvariant == RateSpec => []RateInv
  BY RateInitInv, RateNextInv, PTL DEF RateSpec

(* Allow admits no key more often in a fixed window than the window's      *)
(* amount, however the wall clock is set back and whatever policies the    *)
(* principal carries in between.                                           *)
THEOREM RequestWindowsHold == RateSpec => []WithinRequestWindow
  <1>1. RateInv => WithinRequestWindow
    BY DEF RateInv
  <1>. QED  BY <1>1, RateInvariant, PTL

-----------------------------------------------------------------------------
(* A quotient rounded up covers the dividend.                              *)
LEMMA RoundedUp ==
    ASSUME NEW n \in Nat, NEW d \in Nat \ {0}
    PROVE  /\ (n + d - 1) \div d \in Nat
           /\ ((n + d - 1) \div d) * d \in Nat
           /\ ((n + d - 1) \div d) * d >= n
  <1>. DEFINE m == n + d - 1
  <1>1. m \in Nat
    OBVIOUS
  <1>2. m = (m \div d) * d + (m % d) /\ m \div d \in Nat /\ m % d \in 0 .. d - 1
    BY <1>1, SMTT(30)
  <1>3. (m \div d) * d \in Nat
    BY <1>2
  <1>. QED  BY <1>2, <1>3

(* Retry-After is rounded up: it never ends before the reset.              *)
LEMMA RetryReachesReset ==
    ASSUME NEW t \in Nat, NEW reset \in Nat
    PROVE  /\ t + RetryAfterSeconds(t, reset) * Second \in Nat
           /\ t + RetryAfterSeconds(t, reset) * Second >= reset
           /\ t + RetryAfterSeconds(t, reset) * Second >= t
  <1>1. Second \in Nat \ {0}
    BY RateAssumption
  <1>2. CASE reset <= t
    BY <1>1, <1>2 DEF RetryAfterSeconds
  <1>3. CASE ~(reset <= t)
    <2>. DEFINE q == (reset - t + Second - 1) \div Second
    <2>1. reset - t \in Nat
      BY <1>3
    <2>2. q * Second \in Nat /\ q * Second >= reset - t
      BY <2>1, <1>1, RoundedUp
    <2>3. RetryAfterSeconds(t, reset) = q
      BY <1>3 DEF RetryAfterSeconds
    <2>. HIDE DEF q
    <2>. QED  BY <2>2, <2>3
  <1>. QED  BY <1>2, <1>3

(* A window that is full now is empty at its reset, and one with room now  *)
(* has room later, if nothing is admitted in between.                      *)
LEMMA RoomAfterReset ==
    ASSUME RateInv, NEW key \in RateKeys, NEW w \in RateWindows, NEW t \in Nat, t >= lastNow,
           \/ ~(Count(counts, key, w, lastNow) >= w.amount)
           \/ t >= ResetOf(w, lastNow)
    PROVE  ~(Count(counts, key, w, t) >= w.amount)
  <1>1. w.duration \in Nat \ {0} /\ w.amount \in Nat \ {0} /\ lastNow \in Nat
    BY RateWindowFacts DEF RateInv, RateTypeOK
  <1>. DEFINE now == FixedWindowStart(lastNow, w.duration)
              then == FixedWindowStart(t, w.duration)
              kw == <<key, w>>
  <1>2. now \in Nat /\ then \in Nat /\ now <= then /\ t < then + w.duration
    BY <1>1, WindowStart, WindowStartAdvances
  <1>3. CASE kw \in DOMAIN counts /\ counts[kw].start = then
    <2>1. counts[kw].start <= now
      <3>. DEFINE x == <<kw[1], kw[2], counts[kw].start>>
      <3>1. x \in DOMAIN admissions
        BY <1>3 DEF RateInv, CountersExact
      <3>2. x[3] <= FixedWindowStart(lastNow, x[2].duration)
        BY <3>1 DEF RateInv, AdmissionsPast
      <3>. QED  BY <3>2
    <2>2. counts[kw].start = now
      BY <2>1, <1>2, <1>3
    <2>3. Count(counts, key, w, lastNow) = Count(counts, key, w, t)
      BY <2>2, <1>3 DEF Count
    <2>4. ~(t >= ResetOf(w, lastNow))
      BY <1>1, <1>2, <1>3, <2>2 DEF ResetOf
    <2>. QED  BY <2>3, <2>4
  <1>4. CASE ~(kw \in DOMAIN counts /\ counts[kw].start = then)
    <2>1. Count(counts, key, w, t) = 0
      BY <1>4 DEF Count
    <2>. QED  BY <2>1, <1>1
  <1>. QED  BY <1>3, <1>4

(* The invariant entails that a refused client that waits is admitted.     *)
LEMMA RetryFromInvariant == RateInv => RetryAdmits
  <1>. SUFFICES ASSUME RateInv, NEW key \in RateKeys, NEW windows \in RatePolicies,
                       Exhausted(counts, key, windows, lastNow) # {}
                PROVE  LET full == Exhausted(counts, key, windows, lastNow)
                           wait == RetryAfterSeconds(lastNow, ResetAt(full, lastNow))
                       IN  Exhausted(counts, key, windows, lastNow + wait * Second) = {}
    BY DEF RetryAdmits
  <1>. DEFINE full == Exhausted(counts, key, windows, lastNow)
              resets == {ResetOf(w, lastNow) : w \in full}
              t == lastNow + RetryAfterSeconds(lastNow, ResetAt(full, lastNow)) * Second
  <1>1. full \subseteq windows /\ windows \subseteq RateWindows /\ lastNow \in Nat
    BY DEF Exhausted, RateWindows, RateInv, RateTypeOK
  <1>2. \A w \in RateWindows : ResetOf(w, lastNow) \in Nat
    <2>1. ASSUME NEW w \in RateWindows PROVE ResetOf(w, lastNow) \in Nat
      <3>1. w.duration \in Nat \ {0}
        BY RateWindowFacts
      <3>. QED  BY <3>1, <1>1, WindowStart DEF ResetOf
    <2>. QED  BY <2>1
  <1>3. IsFiniteSet(resets)
    <2>1. IsFiniteSet(full)
      BY <1>1, RateAssumption, FS_Subset
    <2>. HIDE DEF full
    <2>. DEFINE f == [w \in full |-> ResetOf(w, lastNow)]
    <2>2. f \in Surjection(full, resets)
      BY DEF Surjection
    <2>. QED  BY <2>1, <2>2, FS_Surjection
  <1>4. resets # {} /\ resets \subseteq Nat
    BY <1>1, <1>2
  <1>5. Max(resets) \in Nat /\ \A y \in resets : y <= Max(resets)
    <2>. HIDE DEF resets
    <2>. QED  BY <1>3, <1>4, MaxFacts
  <1>6. ResetAt(full, lastNow) = Max(resets)
    BY DEF ResetAt
  <1>. HIDE DEF resets
  <1>7. t \in Nat /\ t >= Max(resets) /\ t >= lastNow
    <2>. HIDE DEF full
    <2>. QED  BY <1>1, <1>5, <1>6, RetryReachesReset
  <1>8. ASSUME NEW w \in windows
        PROVE  ~(Count(counts, key, w, t) >= w.amount)
    <2>. HIDE DEF t
    <2>1. CASE w \in full
      <3>1. ResetOf(w, lastNow) \in resets
        BY <2>1 DEF resets
      <3>2. t >= ResetOf(w, lastNow)
        <4>1. ResetOf(w, lastNow) <= Max(resets) /\ ResetOf(w, lastNow) \in Nat
          BY <3>1, <1>4, <1>5
        <4>. QED  BY <4>1, <1>5, <1>7
      <3>. QED  BY <3>2, <1>1, <1>7, RoomAfterReset
    <2>2. CASE w \notin full
      <3>1. ~(Count(counts, key, w, lastNow) >= w.amount)
        BY <2>2 DEF Exhausted
      <3>. QED  BY <3>1, <1>1, <1>7, RoomAfterReset
    <2>. QED  BY <2>1, <2>2
  <1>. QED  BY <1>8 DEF Exhausted

(* The Retry-After of a refusal is long enough: the latest of the reset    *)
(* times of the exhausted windows, rounded up to seconds.                  *)
THEOREM RetryAfterSuffices == RateSpec => []RetryAdmits
  BY RetryFromInvariant, RateInvariant, PTL

-----------------------------------------------------------------------------
(***************************************************************************)
(* The gateway keys.  AcknowledgedHolds compares three maps that different *)
(* steps write; the invariant adds what the holder of refreshMu carries    *)
(* between the read of the table and the publication.  KeyListingExact     *)
(* speaks of a finished traversal; the invariant says how far one that has *)
(* not finished has come.                                                  *)
(***************************************************************************)

Snapshots == UNION {[D -> Settings] : D \in SUBSET KeyIDs}
KeyRows == [setting : Settings, created : CreatedTimes, seq : Nat]

(* The progress of an admin request: what it carries at each step.         *)
CreateWaiting == [step : {"create lock", "create prepare"}, attempt : Nat]
CreatePrepared ==
    [step : {"create insert", "publish"}, attempt : Nat, key : KeyIDs,
     created : CreatedTimes, prepared : Snapshots]
UpdateWaiting ==
    [step : {"update lock", "update prepare"}, key : KeyIDs, setting : Settings]
UpdatePrepared ==
    [step : {"update write", "publish"}, key : KeyIDs, setting : Settings,
     prepared : Snapshots]
AdminRecords ==
    {IdleAdmin} \cup CreateWaiting \cup CreatePrepared \cup UpdateWaiting \cup UpdatePrepared

LockedSteps == {"create prepare", "create insert", "update prepare", "update write", "publish"}

TableOK ==
    /\ apiKeys = [k \in DOMAIN apiKeys |-> apiKeys[k]]
    /\ DOMAIN apiKeys \subseteq KeyIDs /\ IsFiniteSet(DOMAIN apiKeys)
    /\ \A k \in DOMAIN apiKeys :
            apiKeys[k] \in KeyRows /\ apiKeys[k].seq <= Cardinality(DOMAIN apiKeys)

AdminOK ==
    /\ admin \in [Admins -> AdminRecords]
    /\ \A a \in Admins : admin[a].step \in LockedSteps <=> refreshMu = a
    /\ refreshMu \in Admins \cup {NoAdmin}

(* What the holder of the mutex will publish is the table as it will be.   *)
PreparedExact ==
    \A a \in Admins :
        /\ AdminAt(a, "create insert") =>
                admin[a].prepared = With(SettingsOf(apiKeys), admin[a].key, DefaultSetting)
        /\ AdminAt(a, "update write") =>
                /\ admin[a].key \in DOMAIN apiKeys
                /\ admin[a].prepared = With(SettingsOf(apiKeys), admin[a].key, admin[a].setting)
        /\ AdminAt(a, "publish") =>
                admin[a].key \in DOMAIN apiKeys /\ admin[a].prepared = SettingsOf(apiKeys)

AnswersKnown == DOMAIN acknowledged \subseteq DOMAIN apiKeys

(* The listing in progress: the keys due are those its fence admits, those *)
(* seen are the ones not after the bookmark, newest first.                 *)
Due == {k \in DOMAIN apiKeys : apiKeys[k].seq <= keyLister.cursor.snapshot}
Seen == {keyLister.seen[i] : i \in DOMAIN keyLister.seen}
ListingSorted ==
    \A i, j \in DOMAIN keyLister.seen : i < j => Newer(keyLister.seen[i], keyLister.seen[j])

ListerRecords ==
    [step : {"idle", "page", "complete"},
     cursor : [snapshot : Nat, created : Nat, id : Nat],
     seen : Seq(KeyIDs), due : SUBSET KeyIDs, listings : Nat]

ListingOK ==
    /\ keyLister \in ListerRecords
    /\ keyLister.step \in {"page", "complete"} =>
            Seen \subseteq DOMAIN apiKeys /\ ListingSorted
    /\ keyLister.step = "complete" => Seen = keyLister.due
    /\ keyLister.step = "page" =>
            /\ keyLister.due = Due
            /\ keyLister.cursor.snapshot <= Cardinality(DOMAIN apiKeys)
            /\ Seen = Due \ Page
            /\ keyLister.cursor.created # 0 =>
                    /\ keyLister.cursor.id \in DOMAIN apiKeys
                    /\ keyLister.cursor.created = apiKeys[keyLister.cursor.id].created

KeyInv == /\ TableOK /\ AdminOK /\ PreparedExact /\ AnswersKnown /\ AcknowledgedHolds
          /\ ListingOK

-----------------------------------------------------------------------------
(* The helpers.                                                            *)

(* The settings of a table, and of a table with one row more or changed.   *)
LEMMA SettingsOfWith ==
    ASSUME NEW table, NEW k, NEW row
    PROVE  SettingsOf(With(table, k, row)) = With(SettingsOf(table), k, row.setting)
  <1>. DEFINE f == SettingsOf(With(table, k, row))
              g == With(SettingsOf(table), k, row.setting)
  <1>1. DOMAIN f = DOMAIN table \cup {k} /\ DOMAIN g = DOMAIN table \cup {k}
    BY DEF With, SettingsOf
  <1>2. \A x \in DOMAIN table \cup {k} : f[x] = g[x]
    BY DEF With, SettingsOf
  <1>3. f = [x \in DOMAIN table \cup {k} |-> f[x]] /\ g = [x \in DOMAIN table \cup {k} |-> g[x]]
    BY DEF With, SettingsOf
  <1>. HIDE DEF f, g
  <1>4. f = g
    BY <1>2, <1>3
  <1>. QED  BY <1>4 DEF f, g

(* The settings of the table are a snapshot.                               *)
LEMMA SettingsTyped ==
    ASSUME TableOK
    PROVE  SettingsOf(apiKeys) \in Snapshots
  <1>1. SettingsOf(apiKeys) \in [DOMAIN apiKeys -> Settings]
    BY DEF SettingsOf, TableOK, KeyRows
  <1>. QED  BY <1>1 DEF Snapshots, TableOK

(* A snapshot with one key changed is a snapshot.                          *)
LEMMA WithTyped ==
    ASSUME NEW f \in Snapshots, NEW k \in KeyIDs, NEW s \in Settings
    PROVE  With(f, k, s) \in Snapshots
  <1>1. PICK D \in SUBSET KeyIDs : f \in [D -> Settings]
    BY DEF Snapshots
  <1>2. With(f, k, s) \in [D \cup {k} -> Settings]
    BY <1>1 DEF With
  <1>3. D \cup {k} \in SUBSET KeyIDs
    OBVIOUS
  <1>. QED  BY <1>2, <1>3 DEF Snapshots

(* The step of an admin request tells what it carries.                     *)
LEMMA AdminKinds ==
    ASSUME NEW r \in AdminRecords
    PROVE  /\ r.step \in {"create lock", "create prepare"} => r \in CreateWaiting
           /\ r.step = "create insert" => r \in CreatePrepared
           /\ r.step \in {"update lock", "update prepare"} => r \in UpdateWaiting
           /\ r.step = "update write" => r \in UpdatePrepared
           /\ r.step = "publish" => r \in CreatePrepared \cup UpdatePrepared
  <1>1. \A q \in CreateWaiting : q.step \in {"create lock", "create prepare"}
    BY DEF CreateWaiting
  <1>2. \A q \in CreatePrepared : q.step \in {"create insert", "publish"}
    BY DEF CreatePrepared
  <1>3. \A q \in UpdateWaiting : q.step \in {"update lock", "update prepare"}
    BY DEF UpdateWaiting
  <1>4. \A q \in UpdatePrepared : q.step \in {"update write", "publish"}
    BY DEF UpdatePrepared
  <1>5. IdleAdmin.step = "idle"
    BY DEF IdleAdmin
  <1>. QED  BY <1>1, <1>2, <1>3, <1>4, <1>5 DEF AdminRecords

(* At most one admin request is between Lock and Unlock.                   *)
LEMMA OneHolder ==
    ASSUME AdminOK, NEW a \in Admins, NEW b \in Admins,
           admin[a].step \in LockedSteps, admin[b].step \in LockedSteps
    PROVE  a = b
  BY DEF AdminOK

(* Being published depends on the progress of the admins only.             *)
LEMMA SomeonePublishes ==
    ASSUME AdminOK, NEW a \in Admins, AdminAt(a, "publish"), NEW k
    PROVE  BeingPublished(k) <=> k = admin[a].key
  BY OneHolder DEF BeingPublished, AdminAt, LockedSteps

(* While the holder of refreshMu has not reached its publication, nothing  *)
(* is between the table and the snapshot.                                  *)
LEMMA NobodyPublishes ==
    ASSUME AdminOK, NEW a \in Admins, admin[a].step \in LockedSteps, ~AdminAt(a, "publish"), NEW k
    PROVE  ~BeingPublished(k)
  BY OneHolder DEF BeingPublished, AdminAt, LockedSteps

(* The table keeps the rows a listing has seen or owes, and new rows are   *)
(* numbered above its fence.                                               *)
LEMMA ListingFrame ==
    ASSUME TableOK, ListingOK, keyLister' = keyLister,
           DOMAIN apiKeys \subseteq DOMAIN apiKeys',
           Cardinality(DOMAIN apiKeys)' \in Nat,
           Cardinality(DOMAIN apiKeys)' >= Cardinality(DOMAIN apiKeys),
           \A k \in DOMAIN apiKeys : /\ apiKeys'[k].created = apiKeys[k].created
                                     /\ apiKeys'[k].seq = apiKeys[k].seq,
           \A k \in DOMAIN apiKeys' \ DOMAIN apiKeys :
                apiKeys'[k].seq \in Nat /\ apiKeys'[k].seq > Cardinality(DOMAIN apiKeys)
    PROVE  ListingOK'
  <1>1. Cardinality(DOMAIN apiKeys) \in Nat
    BY FS_CardinalityType DEF TableOK
  <1>2. Seen' = Seen
    BY DEF Seen
  <1>3. keyLister \in ListerRecords
    BY DEF ListingOK
  <1>4. ASSUME keyLister.step \in {"page", "complete"}
        PROVE  Seen \subseteq DOMAIN apiKeys' /\ ListingSorted'
    <2>1. Seen \subseteq DOMAIN apiKeys /\ ListingSorted
      BY <1>4 DEF ListingOK
    <2>2. \A i \in DOMAIN keyLister.seen : keyLister.seen[i] \in DOMAIN apiKeys
      BY <2>1 DEF Seen
    <2>3. \A k, l \in DOMAIN apiKeys : Newer(k, l)' <=> Newer(k, l)
      BY DEF Newer
    <2>. QED  BY <2>1, <2>2, <2>3 DEF ListingSorted
  <1>5. ASSUME keyLister.step = "page"
        PROVE  /\ keyLister.due = Due'
               /\ keyLister.cursor.snapshot <= Cardinality(DOMAIN apiKeys)'
               /\ Seen = Due' \ Page'
               /\ keyLister.cursor.created # 0 =>
                    /\ keyLister.cursor.id \in DOMAIN apiKeys'
                    /\ keyLister.cursor.created = apiKeys'[keyLister.cursor.id].created
    <2>1. keyLister.cursor.snapshot \in Nat
      BY <1>3 DEF ListerRecords
    <2>2. keyLister.cursor.snapshot <= Cardinality(DOMAIN apiKeys)
      BY <1>5 DEF ListingOK
    <2>3. \A k \in DOMAIN apiKeys' \ DOMAIN apiKeys : ~(apiKeys'[k].seq <= keyLister.cursor.snapshot)
      BY <1>1, <2>1, <2>2
    <2>4. Due' = Due
      BY <2>3 DEF Due
    <2>5. \A k \in DOMAIN apiKeys : AfterKeyBookmark(k)' <=> AfterKeyBookmark(k)
      BY DEF AfterKeyBookmark
    <2>6. Page' = Page
      BY <2>3, <2>5 DEF Page
    <2>7. keyLister.cursor.snapshot <= Cardinality(DOMAIN apiKeys)'
      BY <1>1, <2>1, <2>2
    <2>. QED  BY <2>4, <2>6, <2>7, <1>5 DEF ListingOK
  <1>6. ASSUME keyLister.step = "complete" PROVE Seen = keyLister.due
    BY <1>6 DEF ListingOK
  <1>. QED  BY <1>2, <1>3, <1>4, <1>5, <1>6 DEF ListingOK

(* A step that changes neither the table nor the lister keeps what the     *)
(* traversal has shown.                                                    *)
LEMMA ListingSame ==
    ASSUME TableOK, ListingOK, apiKeys' = apiKeys, keyLister' = keyLister
    PROVE  ListingOK'
  <1>1. Cardinality(DOMAIN apiKeys) \in Nat
    BY FS_CardinalityType DEF TableOK
  <1>2. Cardinality(DOMAIN apiKeys)' = Cardinality(DOMAIN apiKeys)
    OBVIOUS
  <1>. QED  BY <1>1, <1>2, ListingFrame

(* One admin request moves, and takes, keeps or returns the mutex.         *)
LEMMA AdminMoves ==
    ASSUME AdminOK, NEW a \in Admins, NEW r \in AdminRecords, admin' = [admin EXCEPT ![a] = r],
           \/ r.step \in LockedSteps /\ refreshMu' = a /\ refreshMu \in {a, NoAdmin}
           \/ r.step \notin LockedSteps /\ refreshMu = a /\ refreshMu' = NoAdmin
           \/ r.step \notin LockedSteps /\ refreshMu # a /\ refreshMu' = refreshMu
    PROVE  AdminOK' /\ admin'[a] = r /\ \A b \in Admins : b # a => admin'[b] = admin[b]
  <1>1. admin' \in [Admins -> AdminRecords] /\ admin'[a] = r
        /\ \A b \in Admins : b # a => admin'[b] = admin[b]
    BY DEF AdminOK
  <1>2. NoAdmin \notin Admins
    BY KeyRegistryAssumption
  <1>3. \A b \in Admins : admin'[b].step \in LockedSteps <=> refreshMu' = b
    BY <1>1, <1>2 DEF AdminOK
  <1>. QED  BY <1>1, <1>3 DEF AdminOK

(* A move that leaves the table, the snapshot and the answers as they are. *)
LEMMA QuietMove ==
    ASSUME KeyInv, NEW a \in Admins, NEW r \in AdminRecords, admin' = [admin EXCEPT ![a] = r],
           UNCHANGED <<apiKeys, published, acknowledged, keyLister>>,
           \/ r.step \in LockedSteps /\ refreshMu' = a /\ refreshMu \in {a, NoAdmin}
           \/ r.step \notin LockedSteps /\ refreshMu = a /\ refreshMu' = NoAdmin
           \/ r.step \notin LockedSteps /\ refreshMu # a /\ refreshMu' = refreshMu,
           ~AdminAt(a, "publish"),
           r.step = "create insert" =>
                r.prepared = With(SettingsOf(apiKeys), r.key, DefaultSetting),
           r.step = "update write" =>
                /\ r.key \in DOMAIN apiKeys
                /\ r.prepared = With(SettingsOf(apiKeys), r.key, r.setting),
           r.step = "publish" =>
                r.key \in DOMAIN apiKeys /\ r.prepared = SettingsOf(apiKeys)
    PROVE  KeyInv'
  <1>1. AdminOK' /\ admin'[a] = r /\ \A b \in Admins : b # a => admin'[b] = admin[b]
    BY AdminMoves DEF KeyInv
  <1>2. TableOK' /\ AnswersKnown'
    BY DEF KeyInv, TableOK, AnswersKnown
  <1>3. ListingOK'
    BY ListingSame DEF KeyInv
  <1>4. PreparedExact'
    <2>1. ASSUME NEW b \in Admins
          PROVE  /\ AdminAt(b, "create insert")' =>
                        admin'[b].prepared = With(SettingsOf(apiKeys), admin'[b].key, DefaultSetting)
                 /\ AdminAt(b, "update write")' =>
                        /\ admin'[b].key \in DOMAIN apiKeys
                        /\ admin'[b].prepared = With(SettingsOf(apiKeys), admin'[b].key, admin'[b].setting)
                 /\ AdminAt(b, "publish")' =>
                        admin'[b].key \in DOMAIN apiKeys /\ admin'[b].prepared = SettingsOf(apiKeys)
      <3>1. CASE b = a
        BY <3>1, <1>1 DEF AdminAt
      <3>2. CASE b # a
        BY <3>2, <1>1 DEF AdminAt, KeyInv, PreparedExact
      <3>. QED  BY <3>1, <3>2
    <2>2. SettingsOf(apiKeys)' = SettingsOf(apiKeys)
      BY DEF SettingsOf
    <2>. QED  BY <2>1, <2>2 DEF PreparedExact
  <1>5. \A k : BeingPublished(k) => BeingPublished(k)'
    BY <1>1 DEF BeingPublished, AdminAt
  <1>6. AcknowledgedHolds'
    BY <1>5 DEF KeyInv, AcknowledgedHolds
  <1>. QED  BY <1>1, <1>2, <1>3, <1>4, <1>6 DEF KeyInv

(* The holder of the mutex changed the table and moves on, or leaves.      *)
LEMMA SettingsTypedNext ==
    ASSUME TableOK' PROVE SettingsOf(apiKeys)' \in Snapshots
  <1>1. SettingsOf(apiKeys)' \in [DOMAIN apiKeys' -> Settings]
    BY DEF SettingsOf, TableOK, KeyRows
  <1>. QED  BY <1>1 DEF Snapshots, TableOK

(* Only the listing moves.                                                 *)
LEMMA ListingMoves ==
    ASSUME KeyInv, UNCHANGED <<apiKeys, published, refreshMu, admin, acknowledged>>, ListingOK'
    PROVE  KeyInv'
  <1>1. TableOK' /\ AnswersKnown'
    BY DEF KeyInv, TableOK, AnswersKnown
  <1>2. AdminOK'
    BY DEF KeyInv, AdminOK
  <1>3. PreparedExact'
    BY DEF KeyInv, PreparedExact, AdminAt, SettingsOf, With
  <1>4. AcknowledgedHolds'
    BY DEF KeyInv, AcknowledgedHolds, BeingPublished, AdminAt
  <1>. QED  BY <1>1, <1>2, <1>3, <1>4 DEF KeyInv

(* Nothing but the usage of the keys changes.                              *)
LEMMA KeyUnchanged ==
    ASSUME KeyInv, UNCHANGED <<apiKeys, published, refreshMu, admin, acknowledged, keyLister>>
    PROVE  KeyInv'
  <1>1. ListingOK'
    BY ListingSame DEF KeyInv
  <1>. QED  BY <1>1, ListingMoves

-----------------------------------------------------------------------------
(* The steps.                                                              *)

(* The empty table, snapshot and history agree.                            *)
LEMMA KeyInitInv == KeyInit => KeyInv
  <1>. SUFFICES ASSUME KeyInit PROVE KeyInv
    OBVIOUS
  <1>1. DOMAIN apiKeys = {} /\ DOMAIN acknowledged = {}
    BY DEF KeyInit
  <1>2. TableOK
    BY <1>1, FS_EmptySet DEF TableOK, KeyInit
  <1>3. AdminOK
    BY KeyRegistryAssumption DEF AdminOK, KeyInit, AdminRecords, IdleAdmin, LockedSteps
  <1>4. PreparedExact
    BY DEF PreparedExact, KeyInit, AdminAt, IdleAdmin
  <1>5. AnswersKnown /\ AcknowledgedHolds
    BY <1>1 DEF AnswersKnown, AcknowledgedHolds
  <1>6. ListingOK
    BY DEF ListingOK, KeyInit, ListerRecords, FreshKeyLister, NoKeyCursor
  <1>. QED  BY <1>2, <1>3, <1>4, <1>5, <1>6 DEF KeyInv

(* Creating begins outside the lock and changes no map.                    *)
LEMMA BeginCreateStep ==
    ASSUME KeyInv, NEW a \in Admins, BeginCreate(a)
    PROVE  KeyInv'
  <1>. DEFINE r == [step |-> "create lock", attempt |-> 1]
  <1>1. r \in AdminRecords
    BY DEF AdminRecords, CreateWaiting, UpdateWaiting
  <1>2. refreshMu # a /\ r.step \notin LockedSteps
    BY DEF KeyInv, AdminOK, BeginCreate, AdminAt, LockedSteps
  <1>3. ~AdminAt(a, "publish")
    BY DEF BeginCreate, AdminAt
  <1>. QED  BY <1>1, <1>2, <1>3, QuietMove DEF BeginCreate

(* So does updating.                                                       *)
LEMMA BeginUpdateStep ==
    ASSUME KeyInv, NEW a \in Admins, NEW k \in KeyIDs, NEW s \in Settings, BeginUpdate(a, k, s)
    PROVE  KeyInv'
  <1>. DEFINE r == [step |-> "update lock", key |-> k, setting |-> s]
  <1>1. r \in AdminRecords
    BY DEF AdminRecords, CreateWaiting, UpdateWaiting
  <1>2. refreshMu # a /\ r.step \notin LockedSteps
    BY DEF KeyInv, AdminOK, BeginUpdate, AdminAt, LockedSteps
  <1>3. ~AdminAt(a, "publish")
    BY DEF BeginUpdate, AdminAt
  <1>. QED  BY <1>1, <1>2, <1>3, QuietMove DEF BeginUpdate

(* Taking refreshMu: the new holder carries nothing yet.                   *)
LEMMA LockStep ==
    ASSUME KeyInv, NEW a \in Admins, Lock(a)
    PROVE  KeyInv'
  <1>0. admin[a] \in AdminRecords /\ admin \in [Admins -> AdminRecords]
    BY DEF KeyInv, AdminOK
  <1>1. CASE AdminAt(a, "create lock") /\ ToStep(a, "create prepare")
    <2>. DEFINE r == [admin[a] EXCEPT !.step = "create prepare"]
    <2>1. r \in AdminRecords /\ r.step = "create prepare"
      <3>1. admin[a] \in CreateWaiting
        BY <1>0, <1>1, AdminKinds DEF AdminAt
      <3>. QED  BY <3>1 DEF AdminRecords, CreateWaiting
    <2>2. admin' = [admin EXCEPT ![a] = r]
      BY <1>0, <1>1 DEF ToStep
    <2>3. r.step \in LockedSteps /\ refreshMu' = a /\ refreshMu = NoAdmin
      BY <2>1 DEF LockedSteps, Lock, RefreshFree
    <2>4. ~AdminAt(a, "publish")
      BY <1>1 DEF AdminAt
    <2>. HIDE DEF r
    <2>. QED  BY <2>1, <2>2, <2>3, <2>4, QuietMove DEF Lock
  <1>2. CASE AdminAt(a, "update lock") /\ ToStep(a, "update prepare")
    <2>. DEFINE r == [admin[a] EXCEPT !.step = "update prepare"]
    <2>1. r \in AdminRecords /\ r.step = "update prepare"
      <3>1. admin[a] \in UpdateWaiting
        BY <1>0, <1>2, AdminKinds DEF AdminAt
      <3>. QED  BY <3>1 DEF AdminRecords, UpdateWaiting
    <2>2. admin' = [admin EXCEPT ![a] = r]
      BY <1>0, <1>2 DEF ToStep
    <2>3. r.step \in LockedSteps /\ refreshMu' = a /\ refreshMu = NoAdmin
      BY <2>1 DEF LockedSteps, Lock, RefreshFree
    <2>4. ~AdminAt(a, "publish")
      BY <1>2 DEF AdminAt
    <2>. HIDE DEF r
    <2>. QED  BY <2>1, <2>2, <2>3, <2>4, QuietMove DEF Lock
  <1>. QED  BY <1>1, <1>2 DEF Lock

(* An operation that ends without having written.                          *)
LEMMA QuietUnlock ==
    ASSUME KeyInv, NEW a \in Admins, admin[a].step \in LockedSteps, ~AdminAt(a, "publish"),
           Unlock(a), UNCHANGED <<apiKeys, published, acknowledged, keyLister>>
    PROVE  KeyInv'
  <1>1. IdleAdmin \in AdminRecords /\ IdleAdmin.step \notin LockedSteps /\ IdleAdmin.step = "idle"
    BY DEF AdminRecords, IdleAdmin, LockedSteps
  <1>2. refreshMu = a
    BY DEF KeyInv, AdminOK
  <1>. QED  BY <1>1, <1>2, QuietMove DEF Unlock

(* A caller that stops waiting for the lock leaves all maps alone.         *)
LEMMA GiveUpStep ==
    ASSUME KeyInv, NEW a \in Admins, GiveUp(a)
    PROVE  KeyInv'
  BY QuietUnlock DEF GiveUp, LockedSteps, AdminAt

(* The record of a new key is drawn up, not yet inserted.                  *)
LEMMA PrepareCreateStep ==
    ASSUME KeyInv, NEW a \in Admins, NEW k \in KeyIDs, NEW t \in CreatedTimes,
           PrepareCreate(a, k, t)
    PROVE  KeyInv'
  <1>. DEFINE r == [step |-> "create insert", attempt |-> admin[a].attempt, key |-> k,
                    created |-> t, prepared |-> With(SettingsOf(apiKeys), k, DefaultSetting)]
  <1>1. admin[a].attempt \in Nat
    <2>1. admin[a] \in CreateWaiting
      BY AdminKinds DEF PrepareCreate, AdminAt, KeyInv, AdminOK
    <2>. QED  BY <2>1 DEF CreateWaiting
  <1>2. With(SettingsOf(apiKeys), k, DefaultSetting) \in Snapshots
    BY SettingsTyped, WithTyped, KeyRegistryAssumption DEF KeyInv
  <1>3. r \in AdminRecords
    BY <1>1, <1>2 DEF AdminRecords, CreatePrepared
  <1>4. r.step \in LockedSteps /\ refreshMu = a
    BY DEF PrepareCreate, AdminAt, KeyInv, AdminOK, LockedSteps
  <1>5. ~AdminAt(a, "publish")
    BY DEF PrepareCreate, AdminAt
  <1>. QED  BY <1>3, <1>4, <1>5, QuietMove DEF PrepareCreate

(* A refused insert tries another identity or unlocks; the table is        *)
(* unchanged.                                                              *)
LEMMA InsertConflictsStep ==
    ASSUME KeyInv, NEW a \in Admins, InsertConflicts(a)
    PROVE  KeyInv'
  <1>1. admin[a].step \in LockedSteps /\ ~AdminAt(a, "publish") /\ refreshMu = a
    BY DEF InsertConflicts, AdminAt, KeyInv, AdminOK, LockedSteps
  <1>2. CASE admin[a].attempt < MaxCreateAttempts
    <2>. DEFINE r == [step |-> "create prepare", attempt |-> admin[a].attempt + 1]
    <2>1. admin[a].attempt \in Nat
      <3>1. admin[a] \in CreatePrepared
        BY AdminKinds DEF InsertConflicts, AdminAt, KeyInv, AdminOK
      <3>. QED  BY <3>1 DEF CreatePrepared
    <2>2. r \in AdminRecords /\ r.step \in LockedSteps
      <3>1. r \in CreateWaiting
        BY <2>1 DEF CreateWaiting
      <3>. QED  BY <3>1 DEF AdminRecords, LockedSteps
    <2>. QED  BY <1>1, <1>2, <2>2, QuietMove DEF InsertConflicts
  <1>3. CASE ~(admin[a].attempt < MaxCreateAttempts)
    BY <1>1, <1>3, QuietUnlock DEF InsertConflicts
  <1>. QED  BY <1>2, <1>3

(* The update draws up the next snapshot from the table under the lock, or *)
(* unlocks.                                                                *)
LEMMA PrepareUpdateStep ==
    ASSUME KeyInv, NEW a \in Admins, PrepareUpdate(a)
    PROVE  KeyInv'
  <1>1. admin[a].step \in LockedSteps /\ ~AdminAt(a, "publish") /\ refreshMu = a
    BY DEF PrepareUpdate, AdminAt, KeyInv, AdminOK, LockedSteps
  <1>. DEFINE k == admin[a].key
              s == admin[a].setting
  <1>2. CASE k \notin DOMAIN apiKeys \/ k \in conflicted
    BY <1>1, <1>2, QuietUnlock DEF PrepareUpdate
  <1>3. CASE ~(k \notin DOMAIN apiKeys \/ k \in conflicted)
    <2>. DEFINE r == [step |-> IF apiKeys[k].setting = s THEN "publish" ELSE "update write",
                      key |-> k, setting |-> s, prepared |-> With(SettingsOf(apiKeys), k, s)]
    <2>1. k \in KeyIDs /\ s \in Settings
      <3>1. admin[a] \in UpdateWaiting
        BY AdminKinds DEF PrepareUpdate, AdminAt, KeyInv, AdminOK
      <3>. QED  BY <3>1 DEF UpdateWaiting
    <2>2. With(SettingsOf(apiKeys), k, s) \in Snapshots
      BY <2>1, SettingsTyped, WithTyped DEF KeyInv
    <2>3. r \in AdminRecords /\ r.step \in LockedSteps
      BY <2>1, <2>2 DEF AdminRecords, UpdatePrepared, LockedSteps
    <2>4. apiKeys[k].setting = s => With(SettingsOf(apiKeys), k, s) = SettingsOf(apiKeys)
      BY <1>3 DEF With, SettingsOf
    <2>5. admin' = [admin EXCEPT ![a] = r] /\ refreshMu' = refreshMu
      BY <1>3 DEF PrepareUpdate
    <2>6. /\ r.step = "publish" => r.prepared = SettingsOf(apiKeys)
          /\ r.prepared = With(SettingsOf(apiKeys), r.key, r.setting)
          /\ r.key \in DOMAIN apiKeys /\ r.step # "create insert"
      BY <1>3, <2>4
    <2>. HIDE DEF r, k, s
    <2>. QED  BY <1>1, <2>3, <2>5, <2>6, QuietMove DEF PrepareUpdate
  <1>. QED  BY <1>2, <1>3

(* A failed write unlocks with the table unchanged.                        *)
LEMMA UpdateFailsStep ==
    ASSUME KeyInv, NEW a \in Admins, UpdateFails(a)
    PROVE  KeyInv'
  BY QuietUnlock DEF UpdateFails, LockedSteps, AdminAt

-----------------------------------------------------------------------------
(* A write of the holder of the mutex.  The table changes at one key; the  *)
(* key is not acknowledged, or it is about to be published.                *)
LEMMA WriteKeeps ==
    ASSUME KeyInv, NEW a \in Admins, NEW r \in AdminRecords, admin' = [admin EXCEPT ![a] = r],
           admin[a].step \in LockedSteps, ~AdminAt(a, "publish"),
           UNCHANGED <<published, acknowledged, keyLister>>,
           TableOK', ListingOK', DOMAIN apiKeys \subseteq DOMAIN apiKeys',
           NEW k \in DOMAIN apiKeys',
           \A x \in DOMAIN apiKeys : x # k => apiKeys'[x] = apiKeys[x],
           \/ /\ r.step = "publish" /\ refreshMu' = refreshMu
              /\ r.key = k /\ r.prepared = SettingsOf(apiKeys)'
           \/ /\ r.step = "idle" /\ refreshMu' = NoAdmin
              /\ k \notin DOMAIN apiKeys
    PROVE  KeyInv'
  <1>0. refreshMu = a /\ r.step \in LockedSteps <=> r.step = "publish"
    BY DEF KeyInv, AdminOK, LockedSteps
  <1>1. AdminOK' /\ admin'[a] = r /\ \A b \in Admins : b # a => admin'[b] = admin[b]
    <2>1. refreshMu = a
      BY DEF KeyInv, AdminOK
    <2>2. \/ r.step \in LockedSteps /\ refreshMu' = a
          \/ r.step \notin LockedSteps /\ refreshMu' = NoAdmin
      BY <2>1 DEF LockedSteps
    <2>. QED  BY <2>1, <2>2, AdminMoves DEF KeyInv
  <1>2. \A b \in Admins : b # a => admin[b].step \notin LockedSteps
    BY OneHolder DEF KeyInv
  <1>3. PreparedExact'
    <2>1. ASSUME NEW b \in Admins
          PROVE  /\ ~AdminAt(b, "create insert")' /\ ~AdminAt(b, "update write")'
                 /\ AdminAt(b, "publish")' =>
                        admin'[b].key \in DOMAIN apiKeys' /\ admin'[b].prepared = SettingsOf(apiKeys)'
      <3>1. CASE b = a
        BY <3>1, <1>1 DEF AdminAt
      <3>2. CASE b # a
        BY <3>2, <1>1, <1>2 DEF AdminAt, LockedSteps
      <3>. QED  BY <3>1, <3>2
    <2>. QED  BY <2>1 DEF PreparedExact
  <1>4. AnswersKnown'
    BY DEF KeyInv, AnswersKnown
  <1>5. AcknowledgedHolds'
    <2>1. ASSUME NEW x \in DOMAIN acknowledged, ~BeingPublished(x)'
          PROVE  /\ x \in DOMAIN apiKeys' /\ apiKeys'[x].setting = acknowledged[x]
                 /\ x \in DOMAIN published /\ published[x] = acknowledged[x]
      <3>1. ~BeingPublished(x)
        BY NobodyPublishes DEF KeyInv
      <3>2. x # k
        <4>1. CASE r.step = "publish" /\ r.key = k
          BY <4>1, <1>1, <2>1 DEF BeingPublished, AdminAt
        <4>2. CASE k \notin DOMAIN apiKeys
          BY <4>2 DEF KeyInv, AnswersKnown
        <4>. QED  BY <4>1, <4>2
      <3>3. x \in DOMAIN apiKeys /\ apiKeys[x].setting = acknowledged[x]
            /\ x \in DOMAIN published /\ published[x] = acknowledged[x]
        BY <3>1 DEF KeyInv, AcknowledgedHolds
      <3>. QED  BY <3>2, <3>3
    <2>. QED  BY <2>1 DEF AcknowledgedHolds
  <1>. QED  BY <1>1, <1>3, <1>4, <1>5 DEF KeyInv

(* The row of a create is numbered above every row.                        *)
LEMMA InsertStep ==
    ASSUME KeyInv, NEW a \in Admins, Insert(a)
    PROVE  KeyInv'
  <1>. DEFINE k == admin[a].key
              n == Cardinality(DOMAIN apiKeys)
              row == [setting |-> DefaultSetting, created |-> admin[a].created, seq |-> n + 1]
  <1>1. admin[a] \in CreatePrepared /\ admin \in [Admins -> AdminRecords]
    BY AdminKinds DEF Insert, AdminAt, KeyInv, AdminOK
  <1>2. k \in KeyIDs /\ admin[a].created \in CreatedTimes /\ k \notin DOMAIN apiKeys
    BY <1>1 DEF CreatePrepared, Insert
  <1>3. n \in Nat /\ IsFiniteSet(DOMAIN apiKeys)
    BY FS_CardinalityType DEF KeyInv, TableOK
  <1>4. apiKeys' = With(apiKeys, k, row)
    BY DEF Insert, Inserted
  <1>5. row \in KeyRows /\ row.seq = n + 1
    BY <1>2, <1>3, KeyRegistryAssumption DEF KeyRows
  <1>. HIDE DEF row
  <1>6. /\ DOMAIN apiKeys' = DOMAIN apiKeys \cup {k} /\ apiKeys'[k] = row
        /\ \A x \in DOMAIN apiKeys : x # k => apiKeys'[x] = apiKeys[x]
    BY <1>4 DEF With
  <1>7. Cardinality(DOMAIN apiKeys)' = n + 1 /\ IsFiniteSet(DOMAIN apiKeys)'
    BY <1>2, <1>3, <1>6, FS_AddElement
  <1>8. TableOK'
    <2>1. apiKeys' = [x \in DOMAIN apiKeys' |-> apiKeys'[x]]
      BY <1>4 DEF With
    <2>2. \A x \in DOMAIN apiKeys' : apiKeys'[x] \in KeyRows /\ apiKeys'[x].seq <= n + 1
      <3>1. ASSUME NEW x \in DOMAIN apiKeys'
            PROVE  apiKeys'[x] \in KeyRows /\ apiKeys'[x].seq <= n + 1
        <4>1. CASE x = k
          BY <4>1, <1>3, <1>5, <1>6
        <4>2. CASE x # k
          <5>1. x \in DOMAIN apiKeys /\ apiKeys'[x] = apiKeys[x]
            BY <4>2, <1>6
          <5>2. apiKeys[x] \in KeyRows /\ apiKeys[x].seq <= n
            BY <5>1 DEF KeyInv, TableOK
          <5>3. apiKeys[x].seq \in Nat
            BY <5>2 DEF KeyRows
          <5>. QED  BY <5>1, <5>2, <5>3, <1>3
        <4>. QED  BY <4>1, <4>2
      <3>. QED  BY <3>1
    <2>3. DOMAIN apiKeys' \subseteq KeyIDs
      BY <1>2, <1>6 DEF KeyInv, TableOK
    <2>. QED  BY <2>1, <2>2, <2>3, <1>7 DEF TableOK
  <1>9. ListingOK'
    <2>1. \A x \in DOMAIN apiKeys : apiKeys'[x] = apiKeys[x]
      BY <1>2, <1>6
    <2>2. \A x \in DOMAIN apiKeys' \ DOMAIN apiKeys : apiKeys'[x].seq = n + 1
      BY <1>5, <1>6
    <2>3. keyLister' = keyLister
      BY DEF Insert
    <2>. QED  BY <2>1, <2>2, <2>3, <1>3, <1>6, <1>7, ListingFrame DEF KeyInv
  <1>10. admin[a].step \in LockedSteps /\ ~AdminAt(a, "publish")
    BY DEF Insert, AdminAt, LockedSteps
  <1>11. k \in DOMAIN apiKeys'
    BY <1>6
  <1>12. CASE ToStep(a, "publish") /\ UNCHANGED refreshMu
    <2>. DEFINE r == [admin[a] EXCEPT !.step = "publish"]
    <2>1. r \in CreatePrepared /\ r.step = "publish" /\ r.key = k /\ r.prepared = admin[a].prepared
      BY <1>1 DEF CreatePrepared
    <2>2. admin' = [admin EXCEPT ![a] = r]
      BY <1>1, <1>12 DEF ToStep
    <2>3. r.prepared = SettingsOf(apiKeys)'
      <3>1. admin[a].prepared = With(SettingsOf(apiKeys), k, DefaultSetting)
        BY DEF Insert, KeyInv, PreparedExact
      <3>2. SettingsOf(With(apiKeys, k, row)) = With(SettingsOf(apiKeys), k, row.setting)
        BY SettingsOfWith
      <3>3. row.setting = DefaultSetting
        BY DEF row
      <3>4. SettingsOf(apiKeys)' = SettingsOf(With(apiKeys, k, row))
        BY <1>4 DEF SettingsOf
      <3>. QED  BY <2>1, <3>1, <3>2, <3>3, <3>4
    <2>4. r \in AdminRecords
      BY <2>1 DEF AdminRecords
    <2>. HIDE DEF r, k
    <2>5. UNCHANGED <<published, acknowledged, keyLister>>
      BY DEF Insert
    <2>. QED  BY <1>6, <1>8, <1>9, <1>10, <1>11, <1>12, <2>1, <2>2, <2>3, <2>4, <2>5, WriteKeeps
  <1>13. CASE Unlock(a)
    <2>1. IdleAdmin \in AdminRecords /\ IdleAdmin.step = "idle"
      BY DEF AdminRecords, IdleAdmin
    <2>2. UNCHANGED <<published, acknowledged, keyLister>>
      BY DEF Insert
    <2>. HIDE DEF k
    <2>. QED  BY <1>2, <1>6, <1>8, <1>9, <1>10, <1>11, <1>13, <2>1, <2>2, WriteKeeps DEF Unlock
  <1>. QED  BY <1>12, <1>13 DEF Insert

(* The row is written while its holder has the lock; until the publication *)
(* the key counts as being published.                                      *)
LEMMA UpdatePolicyRecordStep ==
    ASSUME KeyInv, NEW a \in Admins, UpdatePolicyRecord(a)
    PROVE  KeyInv'
  <1>. DEFINE k == admin[a].key
              s == admin[a].setting
              row == [apiKeys[k] EXCEPT !.setting = s]
              r == [admin[a] EXCEPT !.step = "publish"]
  <1>1. admin[a] \in UpdatePrepared /\ admin \in [Admins -> AdminRecords]
    BY AdminKinds DEF UpdatePolicyRecord, AdminAt, KeyInv, AdminOK
  <1>2. k \in DOMAIN apiKeys /\ admin[a].prepared = With(SettingsOf(apiKeys), k, s) /\ s \in Settings
    BY <1>1 DEF UpdatePolicyRecord, KeyInv, PreparedExact, UpdatePrepared
  <1>3. apiKeys[k] \in KeyRows
    BY <1>2 DEF KeyInv, TableOK
  <1>4. row \in KeyRows /\ row.seq = apiKeys[k].seq /\ row.created = apiKeys[k].created
        /\ row.setting = s
    BY <1>2, <1>3 DEF KeyRows
  <1>5. apiKeys' = [apiKeys EXCEPT ![k] = row]
    BY DEF UpdatePolicyRecord
  <1>. HIDE DEF row
  <1>6. /\ DOMAIN apiKeys' = DOMAIN apiKeys /\ apiKeys'[k] = row
        /\ \A x \in DOMAIN apiKeys : x # k => apiKeys'[x] = apiKeys[x]
    BY <1>2, <1>5
  <1>7. TableOK'
    <2>1. apiKeys' = [x \in DOMAIN apiKeys' |-> apiKeys'[x]]
      BY <1>5
    <2>2. \A x \in DOMAIN apiKeys : /\ apiKeys'[x] \in KeyRows
                                    /\ apiKeys'[x].seq <= Cardinality(DOMAIN apiKeys)
      BY <1>2, <1>4, <1>6 DEF KeyInv, TableOK
    <2>. QED  BY <2>1, <2>2, <1>6 DEF KeyInv, TableOK
  <1>8. ListingOK'
    <2>1. Cardinality(DOMAIN apiKeys) \in Nat
      BY FS_CardinalityType DEF KeyInv, TableOK
    <2>2. Cardinality(DOMAIN apiKeys)' = Cardinality(DOMAIN apiKeys)
      BY <1>6
    <2>3. \A x \in DOMAIN apiKeys : apiKeys'[x].created = apiKeys[x].created
                                    /\ apiKeys'[x].seq = apiKeys[x].seq
      BY <1>4, <1>6
    <2>4. keyLister' = keyLister
      BY DEF UpdatePolicyRecord
    <2>. QED  BY <2>1, <2>2, <2>3, <2>4, <1>6, ListingFrame DEF KeyInv
  <1>9. r \in UpdatePrepared /\ r.step = "publish" /\ r.key = k /\ r.prepared = admin[a].prepared
    BY <1>1 DEF UpdatePrepared
  <1>10. admin' = [admin EXCEPT ![a] = r]
    BY <1>1 DEF UpdatePolicyRecord, ToStep
  <1>11. r.prepared = SettingsOf(apiKeys)'
    <2>1. apiKeys' = With(apiKeys, k, row)
      <3>1. DOMAIN apiKeys \cup {k} = DOMAIN apiKeys
        BY <1>2
      <3>. QED  BY <3>1, <1>2, <1>5 DEF With, KeyInv, TableOK
    <2>2. SettingsOf(With(apiKeys, k, row)) = With(SettingsOf(apiKeys), k, row.setting)
      BY SettingsOfWith
    <2>3. SettingsOf(apiKeys)' = SettingsOf(With(apiKeys, k, row))
      BY <2>1 DEF SettingsOf
    <2>. QED  BY <1>2, <1>4, <1>9, <2>2, <2>3
  <1>12. r \in AdminRecords
    BY <1>9 DEF AdminRecords
  <1>13. admin[a].step \in LockedSteps /\ ~AdminAt(a, "publish")
    BY DEF UpdatePolicyRecord, AdminAt, LockedSteps
  <1>14. UNCHANGED <<refreshMu, published, acknowledged, keyLister>>
    BY DEF UpdatePolicyRecord
  <1>. HIDE DEF r, k
  <1>. QED  BY <1>2, <1>6, <1>7, <1>8, <1>9, <1>10, <1>11, <1>12, <1>13, <1>14, WriteKeeps

(* The snapshot becomes the table, and the answer says so.                 *)
LEMMA PublishStep ==
    ASSUME KeyInv, NEW a \in Admins, Publish(a)
    PROVE  KeyInv'
  <1>. DEFINE k == admin[a].key
  <1>1. k \in DOMAIN apiKeys /\ admin[a].prepared = SettingsOf(apiKeys)
    BY DEF Publish, KeyInv, PreparedExact
  <1>2. UNCHANGED <<apiKeys, keyLister>>
    BY DEF Publish
  <1>3. TableOK'
    BY <1>2 DEF KeyInv, TableOK
  <1>4. ListingOK'
    BY <1>2, ListingSame DEF KeyInv
  <1>5. refreshMu = a
    BY DEF Publish, AdminAt, KeyInv, AdminOK, LockedSteps
  <1>6. AdminOK' /\ admin'[a] = IdleAdmin /\ \A b \in Admins : b # a => admin'[b] = admin[b]
    <2>1. IdleAdmin \in AdminRecords /\ IdleAdmin.step \notin LockedSteps
      BY DEF AdminRecords, IdleAdmin, LockedSteps
    <2>. QED  BY <2>1, <1>5, AdminMoves DEF Publish, Unlock, KeyInv
  <1>7. \A b \in Admins : admin'[b].step \notin LockedSteps
    <2>1. \A b \in Admins : b # a => admin[b].step \notin LockedSteps
      BY <1>5 DEF KeyInv, AdminOK
    <2>2. IdleAdmin.step \notin LockedSteps
      BY DEF IdleAdmin, LockedSteps
    <2>. QED  BY <1>6, <2>1, <2>2
  <1>8. PreparedExact'
    BY <1>7 DEF PreparedExact, AdminAt, LockedSteps
  <1>9. acknowledged' = With(acknowledged, k, apiKeys[k].setting) /\ published' = SettingsOf(apiKeys)
    BY <1>1 DEF Publish, SettingsOf
  <1>10. /\ DOMAIN acknowledged' = DOMAIN acknowledged \cup {k}
         /\ acknowledged'[k] = apiKeys[k].setting
         /\ \A x \in DOMAIN acknowledged : x # k => acknowledged'[x] = acknowledged[x]
    BY <1>9 DEF With
  <1>11. AnswersKnown'
    BY <1>1, <1>2, <1>10 DEF KeyInv, AnswersKnown
  <1>12. AcknowledgedHolds'
    <2>1. ASSUME NEW x \in DOMAIN acknowledged'
          PROVE  x \in DOMAIN apiKeys /\ apiKeys[x].setting = acknowledged'[x]
      <3>1. CASE x = k
        BY <3>1, <1>1, <1>10
      <3>2. CASE x # k
        <4>1. ~BeingPublished(x)
          BY <3>2, SomeonePublishes DEF KeyInv, Publish
        <4>. QED  BY <3>2, <4>1, <1>10 DEF KeyInv, AcknowledgedHolds
      <3>. QED  BY <3>1, <3>2
    <2>2. \A x \in DOMAIN apiKeys : x \in DOMAIN published' /\ published'[x] = apiKeys[x].setting
      BY <1>9 DEF SettingsOf
    <2>. QED  BY <2>1, <2>2, <1>2 DEF AcknowledgedHolds
  <1>. QED  BY <1>3, <1>4, <1>6, <1>8, <1>11, <1>12 DEF KeyInv

(* A restart loads the table; what was written and not answered is taken   *)
(* for acknowledged.                                                       *)
LEMMA RestartStep ==
    ASSUME KeyInv, Restart
    PROVE  KeyInv'
  <1>1. TableOK'
    BY DEF Restart, KeyInv, TableOK
  <1>2. \A a \in Admins : admin'[a] = IdleAdmin
    BY DEF Restart
  <1>3. AdminOK'
    <2>1. IdleAdmin \in AdminRecords /\ IdleAdmin.step \notin LockedSteps
      BY DEF AdminRecords, IdleAdmin, LockedSteps
    <2>2. NoAdmin \notin Admins
      BY KeyRegistryAssumption
    <2>. QED  BY <2>1, <2>2, <1>2 DEF Restart, AdminOK
  <1>4. PreparedExact'
    <2>1. \A a \in Admins : admin'[a].step = "idle"
      BY <1>2 DEF IdleAdmin
    <2>. QED  BY <2>1 DEF PreparedExact, AdminAt
  <1>5. AnswersKnown'
    BY DEF Restart, KeyInv, AnswersKnown
  <1>6. AcknowledgedHolds'
    <2>1. ASSUME NEW x \in DOMAIN acknowledged
          PROVE  x \in DOMAIN apiKeys /\ apiKeys[x].setting = acknowledged'[x]
      <3>0. x \in DOMAIN apiKeys
        BY DEF KeyInv, AnswersKnown
      <3>1. CASE BeingPublished(x)
        BY <3>0, <3>1 DEF Restart, BeingPublished
      <3>2. CASE ~BeingPublished(x)
        <4>1. acknowledged'[x] = acknowledged[x]
          BY <3>2 DEF Restart, BeingPublished
        <4>. QED  BY <3>0, <3>2, <4>1 DEF KeyInv, AcknowledgedHolds
      <3>. QED  BY <3>1, <3>2
    <2>2. DOMAIN acknowledged' = DOMAIN acknowledged
      BY DEF Restart
    <2>3. \A x \in DOMAIN apiKeys : x \in DOMAIN published' /\ published'[x] = apiKeys[x].setting
      BY DEF Restart, SettingsOf
    <2>. QED  BY <2>1, <2>2, <2>3 DEF AcknowledgedHolds, Restart
  <1>7. ListingOK'
    <2>1. keyLister.listings \in Nat
      BY DEF KeyInv, ListingOK, ListerRecords
    <2>2. keyLister' = [FreshKeyLister EXCEPT !.listings = keyLister.listings]
      BY DEF Restart
    <2>3. keyLister' \in ListerRecords /\ keyLister'.step = "idle"
      <3>1. keyLister' = [step |-> "idle", cursor |-> NoKeyCursor, seen |-> <<>>, due |-> {},
                          listings |-> keyLister.listings]
        BY <2>2 DEF FreshKeyLister
      <3>2. NoKeyCursor \in [snapshot : Nat, created : Nat, id : Nat]
        BY DEF NoKeyCursor
      <3>. QED  BY <2>1, <3>1, <3>2 DEF ListerRecords
    <2>. QED  BY <2>3 DEF ListingOK
  <1>. QED  BY <1>1, <1>3, <1>4, <1>5, <1>6, <1>7 DEF KeyInv

(* Reported usage may put a new policy in conflict; it changes no map.     *)
LEMMA UsageChangesStep ==
    ASSUME KeyInv, NEW k \in KeyIDs, UsageChanges(k)
    PROVE  KeyInv'
  <1>1. UNCHANGED <<apiKeys, published, refreshMu, admin, acknowledged, keyLister>>
    BY DEF UsageChanges
  <1>. QED  BY <1>1, KeyUnchanged

-----------------------------------------------------------------------------
(* The listing.                                                            *)

(* Keys are ordered strictly and totally by (created_at, id).              *)
LEMMA NewerOrders ==
    ASSUME TableOK
    PROVE  /\ \A k \in DOMAIN apiKeys : k \in Nat /\ apiKeys[k].created \in Nat \ {0}
           /\ \A k \in DOMAIN apiKeys : ~Newer(k, k)
           /\ \A k, l, m \in DOMAIN apiKeys : Newer(k, l) /\ Newer(l, m) => Newer(k, m)
           /\ \A k, l \in DOMAIN apiKeys : k = l \/ Newer(k, l) \/ Newer(l, k)
  <1>1. \A k \in DOMAIN apiKeys : k \in Nat /\ apiKeys[k].created \in Nat \ {0}
    BY KeyRegistryAssumption DEF TableOK, KeyRows
  <1>. QED  BY <1>1 DEF Newer

(* Ordered enumerates a set of keys, newest first.                         *)
LEMMA OrderedFacts ==
    ASSUME TableOK, NEW list, list \subseteq DOMAIN apiKeys
    PROVE  /\ Cardinality(list) \in Nat /\ IsFiniteSet(list)
           /\ Ordered(list) \in [1 .. Cardinality(list) -> list]
           /\ \A k \in list : \E i \in 1 .. Cardinality(list) : Ordered(list)[i] = k
           /\ \A i, j \in 1 .. Cardinality(list) :
                i < j => Newer(Ordered(list)[i], Ordered(list)[j])
  <1>. DEFINE R == {p \in list \X list : Newer(p[1], p[2])}
              n == Cardinality(list)
  <1>1. IsFiniteSet(list) /\ n \in Nat
    BY FS_Subset, FS_CardinalityType DEF TableOK
  <1>2. \A k, l \in list : <<k, l>> \in R <=> Newer(k, l)
    OBVIOUS
  <1>3. StrictOrder(R, list)
    <2>. HIDE DEF R
    <2>. QED  BY <1>2, NewerOrders DEF StrictOrder
  <1>4. \A k \in list : Rank(k, list) = 1 + Cardinality(Ahead(R, list, k))
    <2>1. \A k \in list : {l \in list : Newer(l, k)} = Ahead(R, list, k)
      BY <1>2 DEF Ahead
    <2>. QED  BY <2>1 DEF Rank
  <1>5. /\ \A k \in list : Rank(k, list) \in 1 .. n
        /\ \A k, l \in list : <<k, l>> \in R <=>
                Cardinality(Ahead(R, list, k)) < Cardinality(Ahead(R, list, l))
        /\ \A i \in 1 .. n : \E k \in list : Rank(k, list) = i
    <2>. HIDE DEF R
    <2>. QED  BY <1>1, <1>3, <1>4, Ranks
  <1>6. \A k, l \in list : Newer(k, l) <=> Rank(k, list) < Rank(l, list)
    <2>1. \A k \in list : Cardinality(Ahead(R, list, k)) \in Nat
      <3>1. \A k \in list : Ahead(R, list, k) \subseteq list
        BY DEF Ahead
      <3>. HIDE DEF R
      <3>. QED  BY <3>1, <1>1, FS_Subset, FS_CardinalityType
    <2>. HIDE DEF R
    <2>2. ASSUME NEW k \in list, NEW l \in list
          PROVE  Newer(k, l) <=> Rank(k, list) < Rank(l, list)
      <3>1. Rank(k, list) = 1 + Cardinality(Ahead(R, list, k))
            /\ Rank(l, list) = 1 + Cardinality(Ahead(R, list, l))
        BY <1>4
      <3>2. Newer(k, l) <=> Cardinality(Ahead(R, list, k)) < Cardinality(Ahead(R, list, l))
        BY <1>2, <1>5
      <3>. QED  BY <3>1, <3>2, <2>1
    <2>. QED  BY <2>2
  <1>. HIDE DEF R
  <1>7. \A i \in 1 .. n : Ordered(list)[i] \in list /\ Rank(Ordered(list)[i], list) = i
    BY <1>5 DEF Ordered
  <1>8. Ordered(list) \in [1 .. n -> list]
    BY <1>5 DEF Ordered
  <1>9. ASSUME NEW i \in 1 .. n, NEW j \in 1 .. n, i < j
        PROVE  Newer(Ordered(list)[i], Ordered(list)[j])
    BY <1>6, <1>7, <1>9
  <1>10. ASSUME NEW k \in list
         PROVE  \E i \in 1 .. n : Ordered(list)[i] = k
    <2>1. Rank(k, list) \in 1 .. n
      BY <1>5
    <2>2. PICK i \in 1 .. n : i = Rank(k, list)
      BY <2>1
    <2>3. Rank(Ordered(list)[i], list) = Rank(k, list) /\ Ordered(list)[i] \in list
      BY <1>7, <2>2
    <2>4. ~Newer(Ordered(list)[i], k) /\ ~Newer(k, Ordered(list)[i])
      <3>1. Rank(k, list) \in Nat
        BY <2>1, <1>1
      <3>. QED  BY <1>6, <2>3, <3>1
    <2>5. Ordered(list)[i] = k
      BY <2>3, <2>4, NewerOrders
    <2>. QED  BY <2>5
  <1>. QED  BY <1>1, <1>8, <1>9, <1>10

(* A listing begins: every key is due and none is seen.                    *)
LEMMA BeginKeyListingStep ==
    ASSUME KeyInv, BeginKeyListing
    PROVE  KeyInv'
  <1>1. UNCHANGED <<apiKeys, published, refreshMu, admin, acknowledged>>
    BY DEF BeginKeyListing
  <1>2. Cardinality(DOMAIN apiKeys) \in Nat /\ keyLister.listings \in Nat
        /\ DOMAIN apiKeys \in SUBSET KeyIDs
    BY FS_CardinalityType DEF KeyInv, TableOK, ListingOK, ListerRecords
  <1>3. keyLister' = [step |-> "page",
                      cursor |-> [snapshot |-> Cardinality(DOMAIN apiKeys), created |-> 0, id |-> 0],
                      seen |-> <<>>, due |-> DOMAIN apiKeys,
                      listings |-> keyLister.listings + 1]
    BY DEF BeginKeyListing, NoKeyCursor
  <1>4. keyLister' \in ListerRecords
    <2>1. [snapshot |-> Cardinality(DOMAIN apiKeys), created |-> 0, id |-> 0]
                \in [snapshot : Nat, created : Nat, id : Nat]
      BY <1>2
    <2>2. keyLister.listings + 1 \in Nat
      BY <1>2
    <2>. QED  BY <1>2, <1>3, <2>1, <2>2 DEF ListerRecords
  <1>5. /\ keyLister'.step = "page" /\ keyLister'.seen = <<>> /\ keyLister'.due = DOMAIN apiKeys
        /\ keyLister'.cursor.snapshot = Cardinality(DOMAIN apiKeys)
        /\ keyLister'.cursor.created = 0
    BY <1>3
  <1>6. Seen' = {} /\ ListingSorted'
    BY <1>5 DEF Seen, ListingSorted
  <1>a. \A k \in DOMAIN apiKeys : apiKeys[k].seq <= Cardinality(DOMAIN apiKeys)
    BY DEF KeyInv, TableOK
  <1>7. Due' = DOMAIN apiKeys
    BY <1>1, <1>5, <1>a DEF Due
  <1>8. Page' = DOMAIN apiKeys
    BY <1>1, <1>5, <1>a DEF Page
  <1>9. ListingOK'
    BY <1>1, <1>2, <1>4, <1>5, <1>6, <1>7, <1>8 DEF ListingOK
  <1>. QED  BY <1>1, <1>9, ListingMoves

(* What a listing has seen is newer than what it has still to return.      *)
LEMMA SeenNewer ==
    ASSUME KeyInv, keyLister.step = "page", NEW s \in Seen, NEW k \in Page
    PROVE  Newer(s, k)
  <1>1. Seen = Due \ Page /\ Page \subseteq DOMAIN apiKeys /\ Due \subseteq DOMAIN apiKeys
    BY DEF KeyInv, ListingOK, Page, Due
  <1>. DEFINE c == keyLister.cursor
  <1>2. CASE c.created = 0
    <2>1. Page = Due
      BY <1>2 DEF Page, Due
    <2>. QED  BY <1>1, <2>1
  <1>3. CASE c.created # 0
    <2>1. c.id \in DOMAIN apiKeys /\ c.created = apiKeys[c.id].created
      BY <1>3 DEF KeyInv, ListingOK
    <2>2. \A x \in DOMAIN apiKeys : AfterKeyBookmark(x) <=> Newer(c.id, x)
      <3>1. \A x \in DOMAIN apiKeys : x \in Nat /\ apiKeys[x].created \in Nat
        BY NewerOrders DEF KeyInv
      <3>. QED  BY <2>1, <3>1 DEF AfterKeyBookmark, Newer
    <2>3. Newer(c.id, k)
      BY <1>3, <2>2, <1>1 DEF Page
    <2>4. ~Newer(c.id, s)
      BY <1>1, <1>3, <2>2 DEF Page, Due
    <2>5. s = c.id \/ Newer(s, c.id)
      BY <1>1, <2>1, <2>4, NewerOrders DEF KeyInv
    <2>. QED  BY <1>1, <2>1, <2>3, <2>5, NewerOrders DEF KeyInv
  <1>. QED  BY <1>2, <1>3

(* The first rows of the page are appended: the listing stays sorted.      *)
LEMMA PageAppended ==
    ASSUME KeyInv, keyLister.step = "page", NEW n \in Nat, n <= Cardinality(Page),
           NEW t \in Seq(KeyIDs), Len(t) = n, \A i \in 1 .. n : t[i] = Ordered(Page)[i],
           keyLister'.seen = keyLister.seen \o t, apiKeys' = apiKeys
    PROVE  /\ Seen' = Seen \cup {t[i] : i \in 1 .. n}
           /\ {t[i] : i \in 1 .. n} \subseteq Page
           /\ ListingSorted'
           /\ keyLister'.seen \in Seq(KeyIDs)
  <1>. DEFINE list == Ordered(Page)
  <1>s. PICK s : s = keyLister.seen
    OBVIOUS
  <1>u. PICK u : u = keyLister'.seen
    OBVIOUS
  <1>0. Page \subseteq DOMAIN apiKeys /\ TableOK
    BY DEF Page, KeyInv
  <1>1. /\ Cardinality(Page) \in Nat
        /\ list \in [1 .. Cardinality(Page) -> Page]
        /\ \A i, j \in 1 .. Cardinality(Page) : i < j => Newer(list[i], list[j])
    BY <1>0, OrderedFacts
  <1>2. s \in Seq(KeyIDs) /\ Len(s) \in Nat /\ DOMAIN s = 1 .. Len(s) /\ DOMAIN t = 1 .. n
    <2>1. s \in Seq(KeyIDs)
      BY <1>s DEF KeyInv, ListingOK, ListerRecords
    <2>. QED  BY <2>1
  <1>3. /\ u \in Seq(KeyIDs) /\ DOMAIN u = 1 .. Len(s) + n
        /\ \A i \in 1 .. Len(s) + n : u[i] = IF i <= Len(s) THEN s[i] ELSE t[i - Len(s)]
        /\ Range(u) = Range(s) \cup Range(t)
    <2>1. s \in Seq(KeyIDs) /\ u = s \o t
      BY <1>2, <1>s, <1>u
    <2>2. u \in Seq(KeyIDs) /\ DOMAIN u = 1 .. Len(s) + Len(t) /\ Len(s) \in Nat /\ Len(t) \in Nat
      BY ONLY <2>1
    <2>3. \A i \in 1 .. Len(s) + Len(t) : u[i] = IF i <= Len(s) THEN s[i] ELSE t[i - Len(s)]
      BY ONLY <2>1
    <2>4. DOMAIN s = 1 .. Len(s) /\ DOMAIN t = 1 .. Len(t)
      BY ONLY <2>1
    <2>5. Range(u) = Range(s) \cup Range(t)
      BY ONLY <2>2, <2>3, <2>4, RangeAppended
    <2>6. DOMAIN u = 1 .. Len(s) + n
          /\ \A i \in 1 .. Len(s) + n : u[i] = IF i <= Len(s) THEN s[i] ELSE t[i - Len(s)]
      BY <2>2, <2>3
    <2>. QED  BY <2>2, <2>5, <2>6
  <1>4. Seen' = Seen \cup {t[i] : i \in 1 .. n}
    <2>1. Seen' = Range(u) /\ Seen = Range(s)
      BY <1>s, <1>u, Zenon DEF Seen, Range
    <2>2. Range(t) = {t[i] : i \in 1 .. n}
      BY <1>2 DEF Range
    <2>. QED  BY <1>3, <2>1, <2>2, Zenon
  <1>5. \A i \in 1 .. n : t[i] \in Page
    <2>. SUFFICES ASSUME NEW i \in 1 .. n
                  PROVE  t[i] \in Page
      OBVIOUS
    <2>1. i \in 1 .. Cardinality(Page) /\ t[i] = list[i]
      BY <1>1
    <2>. HIDE DEF list
    <2>. QED  BY <1>1, <2>1
  <1>6. ASSUME NEW i \in 1 .. Len(s) + n, NEW j \in 1 .. Len(s) + n, i < j
        PROVE  Newer(u[i], u[j])
    <2>1. CASE j <= Len(s)
      <3>1. i \in DOMAIN s /\ j \in DOMAIN s /\ u[i] = s[i] /\ u[j] = s[j]
        BY <1>2, <1>3, <1>6, <2>1
      <3>2. ListingSorted
        BY DEF KeyInv, ListingOK
      <3>. QED  BY <1>s, <3>1, <3>2, <1>6 DEF ListingSorted
    <2>2. CASE i <= Len(s) /\ ~(j <= Len(s))
      <3>1. i \in DOMAIN s /\ u[i] = s[i] /\ j - Len(s) \in 1 .. n
            /\ u[j] = t[j - Len(s)]
        BY ONLY <1>2, <1>3, <2>2
      <3>2. s[i] \in Seen /\ t[j - Len(s)] \in Page
        BY <1>s, <3>1, <1>5 DEF Seen
      <3>. QED  BY <3>1, <3>2, SeenNewer
    <2>3. CASE ~(i <= Len(s)) /\ ~(j <= Len(s))
      <3>1. /\ i - Len(s) \in 1 .. n /\ j - Len(s) \in 1 .. n /\ i - Len(s) < j - Len(s)
            /\ u[i] = t[i - Len(s)] /\ u[j] = t[j - Len(s)]
        BY ONLY <1>2, <1>3, <1>6, <2>3
      <3>2. i - Len(s) \in 1 .. Cardinality(Page) /\ j - Len(s) \in 1 .. Cardinality(Page)
        BY <3>1, <1>1
      <3>3. Newer(list[i - Len(s)], list[j - Len(s)])
        BY <3>1, <3>2, <1>1
      <3>. QED  BY <3>1, <3>3
    <2>. QED  BY <1>2, <1>6, <2>1, <2>2, <2>3
  <1>7. ListingSorted'
    <2>1. \A k, l : Newer(k, l)' <=> Newer(k, l)
      BY DEF Newer
    <2>. QED  BY <1>u, <1>3, <1>6, <2>1 DEF ListingSorted
  <1>. QED  BY <1>u, <1>3, <1>4, <1>5, <1>7

(* A page is returned.                                                     *)
LEMMA ListPageStep ==
    ASSUME KeyInv, ListPage
    PROVE  KeyInv'
  <1>1. UNCHANGED <<apiKeys, published, refreshMu, admin, acknowledged>> /\ keyLister.step = "page"
    BY DEF ListPage
  <1>. DEFINE list == Ordered(Page)
              n == Cardinality(Page)
              last == list[KeyPageLimit]
  <1>2. Page \subseteq DOMAIN apiKeys /\ TableOK /\ DOMAIN apiKeys \subseteq KeyIDs
    BY DEF Page, KeyInv, TableOK
  <1>3. /\ n \in Nat /\ list \in [1 .. n -> Page]
        /\ \A k \in Page : \E i \in 1 .. n : list[i] = k
        /\ \A i, j \in 1 .. n : i < j => Newer(list[i], list[j])
    BY <1>2, OrderedFacts
  <1>4. list \in Seq(KeyIDs) /\ Len(list) = n
    <2>1. list \in [1 .. n -> KeyIDs]
      BY <1>2, <1>3
    <2>. HIDE DEF list, n
    <2>. QED  BY <1>3, <2>1
  <1>5. keyLister \in ListerRecords
    BY DEF KeyInv, ListingOK
  <1>6. /\ keyLister.due = Due /\ keyLister.cursor.snapshot <= Cardinality(DOMAIN apiKeys)
        /\ Seen = Due \ Page /\ Seen \subseteq DOMAIN apiKeys
    BY <1>1 DEF KeyInv, ListingOK
  <1>7. Page \subseteq Due /\ Due \subseteq DOMAIN apiKeys
    BY DEF Page, Due
  <1>8. CASE Len(list) <= KeyPageLimit
    <2>1. keyLister' = [keyLister EXCEPT !.step = "complete", !.seen = keyLister.seen \o list]
      BY <1>8 DEF ListPage
    <2>2. /\ keyLister'.seen = keyLister.seen \o list /\ keyLister'.step = "complete"
          /\ keyLister'.due = keyLister.due /\ keyLister'.cursor = keyLister.cursor
          /\ keyLister'.listings = keyLister.listings
      BY <1>5, <2>1 DEF ListerRecords
    <2>3. /\ Seen' = Seen \cup {list[i] : i \in 1 .. n}
          /\ {list[i] : i \in 1 .. n} \subseteq Page
          /\ ListingSorted' /\ keyLister'.seen \in Seq(KeyIDs)
      <3>. HIDE DEF list, n
      <3>1. \A i \in 1 .. n : list[i] = Ordered(Page)[i]
        BY DEF list
      <3>2. n <= Cardinality(Page)
        BY <1>3 DEF n
      <3>. QED  BY <1>1, <1>3, <1>4, <2>2, <3>1, <3>2, PageAppended
    <2>4. Seen' = Due
      <3>1. Page \subseteq {list[i] : i \in 1 .. n}
        BY <1>3
      <3>. QED  BY <2>3, <3>1, <1>6, <1>7
    <2>5. keyLister' \in ListerRecords
      BY <1>5, <2>1, <2>2, <2>3 DEF ListerRecords
    <2>6. ListingOK'
      BY <1>1, <1>6, <1>7, <2>2, <2>3, <2>4, <2>5 DEF ListingOK
    <2>. QED  BY <1>1, <2>6, ListingMoves
  <1>9. CASE ~(Len(list) <= KeyPageLimit)
    <2>0. KeyPageLimit \in Nat \ {0} /\ KeyPageLimit \in 1 .. n /\ KeyPageLimit < n
      BY <1>3, <1>4, <1>9, KeyRegistryAssumption
    <2>. DEFINE t == SubSeq(list, 1, KeyPageLimit)
                c == [snapshot |-> keyLister.cursor.snapshot, created |-> apiKeys[last].created,
                      id |-> last]
    <2>1. keyLister' = [keyLister EXCEPT !.cursor = c, !.seen = keyLister.seen \o t]
      BY <1>9 DEF ListPage
    <2>2. last \in Page /\ last \in DOMAIN apiKeys
      BY <1>2, <1>3, <2>0
    <2>3. last \in Nat /\ apiKeys[last].created \in Nat \ {0} /\ keyLister.cursor.snapshot \in Nat
      BY <1>2, <1>5, <2>2, NewerOrders DEF ListerRecords
    <2>4. c \in [snapshot : Nat, created : Nat, id : Nat]
      BY <2>3
    <2>5. /\ keyLister'.seen = keyLister.seen \o t /\ keyLister'.step = "page"
          /\ keyLister'.due = keyLister.due /\ keyLister'.cursor = c
          /\ keyLister'.listings = keyLister.listings
      BY <1>1, <1>5, <2>1 DEF ListerRecords
    <2>6. t \in Seq(KeyIDs) /\ Len(t) = KeyPageLimit
          /\ \A i \in 1 .. KeyPageLimit : t[i] = list[i]
      <3>. HIDE DEF list, n
      <3>. QED  BY <1>3, <1>4, <2>0, SubSeqProperties
    <2>. HIDE DEF t
    <2>7. /\ Seen' = Seen \cup {t[i] : i \in 1 .. KeyPageLimit}
          /\ {t[i] : i \in 1 .. KeyPageLimit} \subseteq Page
          /\ ListingSorted' /\ keyLister'.seen \in Seq(KeyIDs)
      <3>1. KeyPageLimit <= Cardinality(Page)
        BY <1>3, <2>0
      <3>. QED  BY <1>1, <2>0, <2>5, <2>6, <3>1, PageAppended
    <2>8. Due' = Due
      BY <1>1, <2>5 DEF Due
    <2>9. Page' = {k \in Due : Newer(last, k)}
      <3>1. keyLister'.cursor.created # 0 /\ keyLister'.cursor.snapshot = keyLister.cursor.snapshot
            /\ keyLister'.cursor.id = last /\ keyLister'.cursor.created = apiKeys[last].created
        BY <2>3, <2>5
      <3>2. ASSUME NEW k \in DOMAIN apiKeys
            PROVE  AfterKeyBookmark(k)' <=> Newer(last, k)
        <4>1. k \in Nat /\ apiKeys[k].created \in Nat
          BY <1>2, NewerOrders
        <4>. QED  BY <1>1, <2>3, <3>1, <4>1 DEF AfterKeyBookmark, Newer
      <3>. QED  BY <1>1, <3>1, <3>2 DEF Page, Due
    <2>10. Seen' = Due \ Page'
      <3>. DEFINE P == {k \in Due : Newer(last, k)}
      <3>1. ASSUME NEW k \in Seen' PROVE k \in Due /\ ~Newer(last, k)
        <4>1. CASE k \in Seen
          <5>1. Newer(k, last) /\ k \in Due
            BY <4>1, <1>1, <1>6, <2>2, SeenNewer
          <5>. QED  BY <5>1, <1>2, <1>7, <2>2, NewerOrders
        <4>2. CASE k \notin Seen
          <5>1. PICK i \in 1 .. KeyPageLimit : k = t[i]
            BY <2>7, <4>2
          <5>2. k = list[i] /\ i \in 1 .. n /\ k \in Page
            BY <5>1, <2>0, <2>6, <1>3
          <5>3. i = KeyPageLimit \/ i < KeyPageLimit
            BY <5>1, <2>0
          <5>4. k = last \/ Newer(k, last)
            BY <5>2, <5>3, <2>0, <1>3
          <5>. QED  BY <5>2, <5>4, <1>2, <1>7, <2>2, NewerOrders
        <4>. QED  BY <4>1, <4>2
      <3>2. ASSUME NEW k \in Due, ~Newer(last, k) PROVE k \in Seen'
        <4>1. CASE k \in Page
          <5>1. PICK i \in 1 .. n : list[i] = k
            BY <4>1, <1>3
          <5>2. ~(KeyPageLimit < i)
            BY <5>1, <3>2, <2>0, <1>3
          <5>3. i \in 1 .. KeyPageLimit
            BY <5>1, <5>2, <2>0, <1>3
          <5>4. t[i] = k
            BY <5>1, <5>3, <2>6
          <5>. QED  BY <5>3, <5>4, <2>7
        <4>2. CASE k \notin Page
          BY <4>2, <1>6, <2>7
        <4>. QED  BY <4>1, <4>2
      <3>. QED  BY <2>9, <3>1, <3>2
    <2>11. keyLister' \in ListerRecords
      BY <1>5, <2>1, <2>4, <2>5, <2>7 DEF ListerRecords
    <2>12. Seen' \subseteq DOMAIN apiKeys
      BY <1>2, <1>6, <2>7
    <2>13. /\ keyLister'.cursor.snapshot = keyLister.cursor.snapshot
           /\ keyLister'.cursor.id = last /\ keyLister'.cursor.created = apiKeys[last].created
      BY <2>5
    <2>. HIDE DEF c, last, list
    <2>14. ListingOK'
      BY <1>1, <1>6, <2>2, <2>5, <2>7, <2>8, <2>10, <2>11, <2>12, <2>13 DEF ListingOK
    <2>. QED  BY <1>1, <2>14, ListingMoves
  <1>. QED  BY <1>8, <1>9

(* Every step of KeyRegistry preserves the invariant.                      *)
LEMMA KeyNextInv == KeyInv /\ [KeyNext]_keyVars => KeyInv'
  <1>. SUFFICES ASSUME KeyInv, [KeyNext]_keyVars PROVE KeyInv'
    OBVIOUS
  <1>1. CASE UNCHANGED keyVars
    BY <1>1, KeyUnchanged DEF keyVars
  <1>2. ASSUME NEW a \in Admins,
               \/ BeginCreate(a) \/ Lock(a) \/ GiveUp(a) \/ Insert(a) \/ InsertConflicts(a)
               \/ PrepareUpdate(a) \/ UpdatePolicyRecord(a) \/ UpdateFails(a) \/ Publish(a)
        PROVE  KeyInv'
    BY <1>2, BeginCreateStep, LockStep, GiveUpStep, InsertStep, InsertConflictsStep,
       PrepareUpdateStep, UpdatePolicyRecordStep, UpdateFailsStep, PublishStep
  <1>3. ASSUME NEW a \in Admins, NEW k \in KeyIDs, NEW s \in Settings, BeginUpdate(a, k, s)
        PROVE  KeyInv'
    BY <1>3, BeginUpdateStep
  <1>4. ASSUME NEW a \in Admins, NEW k \in KeyIDs, NEW t \in CreatedTimes, PrepareCreate(a, k, t)
        PROVE  KeyInv'
    BY <1>4, PrepareCreateStep
  <1>5. ASSUME NEW k \in KeyIDs, UsageChanges(k) PROVE KeyInv'
    BY <1>5, UsageChangesStep
  <1>. QED  BY <1>1, <1>2, <1>3, <1>4, <1>5, RestartStep, BeginKeyListingStep, ListPageStep
            DEF KeyNext

(* In every reachable state the table, the snapshot, the answers and the   *)
(* listing agree as far as the steps in progress allow.                    *)
THEOREM KeyInvariant == KeySpec => []KeyInv
  BY KeyInitInv, KeyNextInv, PTL DEF KeySpec

(* What create or updatePolicy answered holds in the table and in the      *)
(* snapshot requests are authenticated with, whatever other admins, crashes*)
(* and refused or failed writes come in between.                           *)
THEOREM AnswersHold == KeySpec => []AcknowledgedHolds
  <1>1. KeyInv => AcknowledgedHolds
    BY DEF KeyInv
  <1>. QED  BY <1>1, KeyInvariant, PTL

(* A finished listing has returned the keys of its first page's table,     *)
(* each once, newest first, whatever was created meanwhile.                *)
THEOREM ListingIsExact == KeySpec => []KeyListingExact
  <1>1. KeyInv => KeyListingExact
    BY DEF KeyInv, ListingOK, KeyListingExact, Seen, ListingSorted
  <1>. QED  BY <1>1, KeyInvariant, PTL

-----------------------------------------------------------------------------
(***************************************************************************)
(* Token usage across restarts.  While the gateway serves, memory is what  *)
(* the rows and the pending deltas add up to; while it does not, and the   *)
(* last stop was clean, the rows and the rows of the retired table that    *)
(* are still to be promoted hold what was owed.                            *)
(***************************************************************************)

\* Functions from buckets to amounts.
Amounts(f) == DOMAIN f \subseteq Buckets /\ \A b \in DOMAIN f : f[b] \in Int

RecoveryTypeOK ==
    /\ Amounts(rows) /\ Amounts(memory) /\ Amounts(pending)
    /\ DOMAIN legacy \subseteq Durations /\ \A d \in DOMAIN legacy : legacy[d] \in Int
    /\ policyRow \subseteq TokenWindows
    /\ period \in [Durations -> 0 .. MaxPeriod]
    /\ process \in {"down", "promoting", "loading", "serving", "refused"}

\* What start-up will leave in a bucket.
Recovered(b) ==
    IF b[2] = 0 /\ b[1].duration \in DOMAIN legacy /\ Matches(b[1].duration) = {b[1]}
    THEN legacy[b[1].duration] ELSE Amount(rows, b)

MigratedOnce == process \in {"loading", "serving"} => DOMAIN legacy = {}
NothingPending == process # "serving" => DOMAIN pending = {}

ServingExact ==
    process = "serving" => \A b \in Buckets : ~ Expired(b) =>
        /\ Amount(memory, b) = Amount(rows, b) + Amount(pending, b)
        /\ Amount(memory, b) # 0 => b[1] \in policyRow

RestartExact ==
    process # "serving" /\ clean => \A b \in Buckets : ~ Expired(b) =>
        /\ b \in DOMAIN rows => b[1] \in policyRow
        /\ b[1] \in policyRow => Recovered(b) = owed[b]

RecoveryInv ==
    /\ RecoveryTypeOK
    /\ MigratedOnce /\ NothingPending
    /\ ServingExact /\ RestartExact
    /\ CleanRestartAccepted

(* A bucket and the fields it is made of.                                  *)
LEMMA BucketFacts ==
    ASSUME RecoveryTypeOK
    PROVE  /\ \A b \in Buckets : /\ b[1] \in TokenWindows /\ b[2] \in Nat
                                 /\ b[1].duration \in Durations
                                 /\ period[b[1].duration] \in Nat
           /\ \A w \in TokenWindows : <<w, 0>> \in Buckets
           /\ \A w \in TokenWindows : w.duration \in Durations
           /\ \A d \in Durations : period[d] \in 0 .. MaxPeriod
  <1>1. MaxPeriod \in Nat /\ \A w \in TokenWindows : w.duration \in Durations
    BY TokenRecoveryAssumption
  <1>2. \A d \in Durations : period[d] \in 0 .. MaxPeriod
    BY DEF RecoveryTypeOK
  <1>3. \A b \in Buckets : b[1] \in TokenWindows /\ b[2] \in Nat
    BY <1>1 DEF Buckets
  <1>4. \A w \in TokenWindows : <<w, 0>> \in Buckets
    BY <1>1 DEF Buckets
  <1>. QED  BY <1>1, <1>2, <1>3, <1>4

(* The amounts of a map that holds only what has not expired.              *)
LEMMA UnexpiredAmounts ==
    ASSUME NEW f, Amounts(f)
    PROVE  /\ Amounts(Unexpired(f))
           /\ \A b : b \in DOMAIN Unexpired(f) <=> b \in DOMAIN f /\ ~ Expired(b)
           /\ \A b : ~ Expired(b) => Amount(Unexpired(f), b) = Amount(f, b)
  BY DEF Amounts, Unexpired, Amount

(* The amount of a bucket is a number, recorded or not.                    *)
LEMMA AmountType ==
    ASSUME NEW f, Amounts(f), NEW b
    PROVE  Amount(f, b) \in Int
  BY DEF Amounts, Amount

(* Adding to one bucket.                                                   *)
LEMMA AddAmounts ==
    ASSUME NEW f, Amounts(f), NEW b \in Buckets, NEW n \in Int
    PROVE  /\ Amounts(Add(f, b, n))
           /\ \A c : Amount(Add(f, b, n), c) = IF c = b THEN Amount(f, b) + n ELSE Amount(f, c)
  <1>1. Amount(f, b) \in Int
    BY AmountType
  <1>. QED  BY <1>1 DEF Amounts, Add, Amount

(* Folding the pending deltas into the rows drops what comes to zero.      *)
LEMMA FlushedAmounts ==
    ASSUME Amounts(rows), Amounts(pending)
    PROVE  /\ Amounts(Flushed)
           /\ \A b : Amount(Flushed, b) = Amount(rows, b) + Amount(pending, b)
           /\ \A b \in DOMAIN Flushed : Amount(rows, b) + Amount(pending, b) # 0
  <1>. DEFINE D == DOMAIN rows \cup DOMAIN pending
              sum == [b \in D |-> Amount(rows, b) + Amount(pending, b)]
              E == {c \in DOMAIN sum : sum[c] # 0}
  <1>1. \A b : Amount(rows, b) \in Int /\ Amount(pending, b) \in Int
    BY AmountType
  <1>2. DOMAIN sum = D /\ \A b \in D : sum[b] = Amount(rows, b) + Amount(pending, b)
    OBVIOUS
  <1>3. Flushed = [b \in E |-> sum[b]]
    BY DEF Flushed
  <1>. HIDE DEF sum
  <1>4. DOMAIN Flushed = E /\ \A b \in E : Flushed[b] = sum[b]
    BY <1>3
  <1>5. \A b : b \notin D => Amount(rows, b) = 0 /\ Amount(pending, b) = 0
    BY DEF Amount
  <1>6. D \subseteq Buckets
    BY DEF Amounts
  <1>7. Amounts(Flushed)
    BY <1>1, <1>2, <1>4, <1>6 DEF Amounts
  <1>8. \A b \in DOMAIN Flushed : Amount(rows, b) + Amount(pending, b) # 0
    BY <1>2, <1>4
  <1>9. ASSUME NEW b
        PROVE  Amount(Flushed, b) = Amount(rows, b) + Amount(pending, b)
    <2>1. CASE b \in E
      BY <1>2, <1>4, <2>1 DEF Amount
    <2>2. CASE b \notin E /\ b \in D
      <3>1. Amount(rows, b) + Amount(pending, b) = 0
        BY <1>2, <2>2
      <3>2. Amount(Flushed, b) = 0
        BY <1>4, <2>2 DEF Amount
      <3>. QED  BY <3>1, <3>2
    <2>3. CASE b \notin D
      <3>1. Amount(rows, b) = 0 /\ Amount(pending, b) = 0
        BY <1>5, <2>3
      <3>2. b \notin DOMAIN Flushed
        BY <1>2, <1>4, <2>3
      <3>3. Amount(Flushed, b) = 0
        BY <3>2 DEF Amount
      <3>. QED  BY <3>1, <3>3
    <2>. QED  BY <2>1, <2>2, <2>3
  <1>. QED  BY <1>7, <1>8, <1>9

(* The initial states.                                                     *)
LEMMA RecoveryInitial == RecoveryInit => RecoveryInv
  <1>. SUFFICES ASSUME RecoveryInit PROVE RecoveryInv
    OBVIOUS
  <1>1. PICK present \in SUBSET Durations, amounts \in [Durations -> 1 .. MaxCharge] :
         /\ legacy = [d \in present |-> amounts[d]]
         /\ \E paired \in SUBSET {w \in policyRow : w.duration \in present /\ Matches(w.duration) = {w}} :
              rows = [b \in {<<w, 0>> : w \in paired} |-> amounts[b[1].duration]]
    BY DEF RecoveryInit
  <1>2. PICK paired \in SUBSET policyRow :
          rows = [b \in {<<w, 0>> : w \in paired} |-> amounts[b[1].duration]]
    BY <1>1
  <1>3. /\ policyRow \subseteq TokenWindows /\ MaxPeriod \in Nat
        /\ \A w \in TokenWindows : w.duration \in Durations
        /\ \A d \in Durations : amounts[d] \in Int
    BY TokenRecoveryAssumption, <1>1 DEF RecoveryInit
  <1>4. /\ DOMAIN rows = {<<w, 0>> : w \in paired}
        /\ \A b \in DOMAIN rows : rows[b] = amounts[b[1].duration]
    BY <1>2
  <1>5. \A b \in DOMAIN rows : b \in Buckets /\ b[1] \in policyRow
    BY <1>2, <1>3, <1>4 DEF Buckets
  <1>6. Amounts(rows)
    BY <1>3, <1>4, <1>5 DEF Amounts
  <1>7. DOMAIN memory = {} /\ DOMAIN pending = {}
    BY DEF RecoveryInit
  <1>8. Amounts(memory) /\ Amounts(pending)
    BY <1>7 DEF Amounts
  <1>9. period \in [Durations -> 0 .. MaxPeriod]
    BY <1>3 DEF RecoveryInit
  <1>10. DOMAIN legacy \subseteq Durations /\ \A d \in DOMAIN legacy : legacy[d] \in Int
    BY <1>1, <1>3
  <1>11. process = "down"
    BY DEF RecoveryInit
  <1>12. RecoveryTypeOK
    BY <1>3, <1>6, <1>8, <1>9, <1>10, <1>11 DEF RecoveryTypeOK
  <1>13. \A b \in Buckets : Recovered(b) = owed[b]
    BY DEF RecoveryInit, Recovered
  <1>14. RestartExact
    BY <1>5, <1>13 DEF RestartExact
  <1>. QED  BY <1>7, <1>11, <1>12, <1>14
            DEF RecoveryInv, MigratedOnce, NothingPending, ServingExact, CleanRestartAccepted

(* Start-up deletes the rows of past periods, of both tables.              *)
LEMMA DeleteExpiredStep ==
    ASSUME RecoveryInv, DeleteExpired
    PROVE  RecoveryInv'
  <1>1. /\ process = "down" /\ process' = "promoting"
        /\ UNCHANGED <<policyRow, period, memory, pending, clean, owed>>
        /\ rows' = Unexpired(rows)
        /\ legacy' = [d \in {e \in DOMAIN legacy : period[e] = 0} |-> legacy[d]]
    BY DEF DeleteExpired
  <1>2. RecoveryTypeOK /\ NothingPending /\ RestartExact
    BY DEF RecoveryInv
  <1>3. /\ Amounts(rows') /\ \A b : b \in DOMAIN rows' <=> b \in DOMAIN rows /\ ~ Expired(b)
        /\ \A b : ~ Expired(b) => Amount(rows', b) = Amount(rows, b)
    BY <1>1, <1>2, UnexpiredAmounts DEF RecoveryTypeOK
  <1>4. /\ DOMAIN legacy' = {e \in DOMAIN legacy : period[e] = 0}
        /\ \A d \in DOMAIN legacy' : legacy'[d] = legacy[d]
    BY <1>1
  <1>5. RecoveryTypeOK'
    <2>1. Amounts(rows') /\ Amounts(memory') /\ Amounts(pending')
      BY <1>1, <1>2, <1>3 DEF RecoveryTypeOK
    <2>2. DOMAIN legacy' \subseteq Durations /\ \A d \in DOMAIN legacy' : legacy'[d] \in Int
      BY <1>2, <1>4 DEF RecoveryTypeOK
    <2>3. policyRow' \subseteq TokenWindows /\ period' \in [Durations -> 0 .. MaxPeriod]
      BY <1>1, <1>2 DEF RecoveryTypeOK
    <2>4. Amounts(rows)' /\ Amounts(memory)' /\ Amounts(pending)'
      BY <2>1 DEF Amounts
    <2>. QED  BY <1>1, <2>2, <2>3, <2>4 DEF RecoveryTypeOK
  <1>6. RestartExact'
    <2>. SUFFICES ASSUME clean, NEW b \in Buckets, ~ Expired(b)
                  PROVE  /\ b \in DOMAIN rows' => b[1] \in policyRow
                         /\ b[1] \in policyRow => Recovered(b)' = owed[b]
      BY <1>1 DEF RestartExact, Expired
    <2>1. /\ b \in DOMAIN rows => b[1] \in policyRow
          /\ b[1] \in policyRow => Recovered(b) = owed[b]
      BY <1>1, <1>2 DEF RestartExact
    <2>2. Amount(rows', b) = Amount(rows, b) /\ (b \in DOMAIN rows' => b \in DOMAIN rows)
      BY <1>3
    <2>3. \A d : Matches(d)' = Matches(d)
      BY <1>1 DEF Matches
    <2>4. b[2] = 0 => period[b[1].duration] = 0
      BY <1>2, BucketFacts DEF Expired
    <2>5. b[2] = 0 => (b[1].duration \in DOMAIN legacy' <=> b[1].duration \in DOMAIN legacy)
      BY <1>4, <2>4
    <2>6. Recovered(b)' = Recovered(b)
      BY <1>4, <2>2, <2>3, <2>5 DEF Recovered
    <2>. QED  BY <2>1, <2>2, <2>6
  <1>. QED  BY <1>1, <1>2, <1>5, <1>6
            DEF RecoveryInv, MigratedOnce, NothingPending, ServingExact, CleanRestartAccepted

(* The type of a state in which one map at most is new.                    *)
LEMMA RecoveryTypeKept ==
    ASSUME RecoveryTypeOK, Amounts(rows'), Amounts(memory'), Amounts(pending'),
           DOMAIN legacy' \subseteq Durations, \A d \in DOMAIN legacy' : legacy'[d] \in Int,
           policyRow' \subseteq TokenWindows, period' \in [Durations -> 0 .. MaxPeriod],
           process' \in {"down", "promoting", "loading", "serving", "refused"}
    PROVE  RecoveryTypeOK'
  <1>1. Amounts(rows)' /\ Amounts(memory)' /\ Amounts(pending)'
    BY DEF Amounts
  <1>. QED  BY <1>1 DEF RecoveryTypeOK

(* Steps that leave the tables, the policy and the clock alone.            *)
LEMMA TablesKept ==
    ASSUME UNCHANGED <<rows, legacy, policyRow, period, owed>>
    PROVE  /\ \A d : Matches(d)' = Matches(d)
           /\ \A b : Recovered(b)' = Recovered(b) /\ (Expired(b)' <=> Expired(b))
  <1>1. \A d : Matches(d)' = Matches(d)
    BY DEF Matches
  <1>2. \A b : Amount(rows, b)' = Amount(rows, b) /\ (Expired(b)' <=> Expired(b))
    BY DEF Amount, Expired
  <1>. QED  BY <1>1, <1>2 DEF Recovered

(* A row of the retired table becomes an identity row, in one transaction. *)
LEMMA PromoteLegacyStep ==
    ASSUME RecoveryInv, NEW d \in Durations, PromoteLegacy(d)
    PROVE  RecoveryInv'
  <1>1. /\ process = "promoting" /\ d \in DOMAIN legacy
        /\ legacy' = [e \in DOMAIN legacy \ {d} |-> legacy[e]]
        /\ UNCHANGED <<policyRow, period, memory, pending, process, clean, owed>>
    BY DEF PromoteLegacy
  <1>2. PICK w \in Matches(d) : Matches(d) = {w} /\ rows' = Promoted(w, d)
    BY DEF PromoteLegacy
  <1>3. RecoveryTypeOK /\ NothingPending /\ RestartExact
    BY DEF RecoveryInv
  <1>4. w \in policyRow /\ w.duration = d /\ w \in TokenWindows /\ legacy[d] \in Int
    BY <1>1, <1>2, <1>3 DEF Matches, RecoveryTypeOK
  <1>5. <<w, 0>> \in Buckets
    BY <1>3, <1>4, BucketFacts
  <1>6. /\ DOMAIN rows' = DOMAIN rows \cup {<<w, 0>>}
        /\ \A b \in DOMAIN rows' : rows'[b] = IF b = <<w, 0>> THEN legacy[d] ELSE rows[b]
    BY <1>2 DEF Promoted
  <1>7. Amounts(rows')
    BY <1>3, <1>4, <1>5, <1>6 DEF Amounts, RecoveryTypeOK
  <1>8. /\ DOMAIN legacy' = DOMAIN legacy \ {d}
        /\ \A e \in DOMAIN legacy' : legacy'[e] = legacy[e]
    BY <1>1
  <1>9. RecoveryTypeOK'
    <2>1. DOMAIN legacy' \subseteq Durations /\ \A e \in DOMAIN legacy' : legacy'[e] \in Int
      BY <1>3, <1>8 DEF RecoveryTypeOK
    <2>2. /\ Amounts(memory') /\ Amounts(pending') /\ policyRow' \subseteq TokenWindows
          /\ period' \in [Durations -> 0 .. MaxPeriod]
          /\ process' \in {"down", "promoting", "loading", "serving", "refused"}
      BY <1>1, <1>3 DEF RecoveryTypeOK
    <2>. QED  BY <1>3, <1>7, <2>1, <2>2, RecoveryTypeKept
  <1>10. RestartExact'
    <2>. SUFFICES ASSUME clean, NEW b \in Buckets, ~ Expired(b)
                  PROVE  /\ b \in DOMAIN rows' => b[1] \in policyRow
                         /\ b[1] \in policyRow => Recovered(b)' = owed[b]
      BY <1>1 DEF RestartExact, Expired
    <2>1. /\ b \in DOMAIN rows => b[1] \in policyRow
          /\ b[1] \in policyRow => Recovered(b) = owed[b]
      BY <1>1, <1>3 DEF RestartExact
    <2>2. \A e : Matches(e)' = Matches(e)
      BY <1>1 DEF Matches
    <2>3. CASE b = <<w, 0>>
      <3>1. b[1] = w /\ b[2] = 0 /\ b \in DOMAIN rows' /\ rows'[b] = legacy[d]
        BY <1>6, <2>3
      <3>2. Recovered(b) = legacy[d]
        BY <1>1, <1>2, <1>4, <3>1 DEF Recovered
      <3>3. Amount(rows', b) = legacy[d]
        BY <3>1 DEF Amount
      <3>4. Recovered(b)' = legacy[d]
        BY <1>4, <1>8, <3>1, <3>3 DEF Recovered
      <3>. QED  BY <1>4, <2>1, <3>1, <3>2, <3>4
    <2>4. CASE b # <<w, 0>>
      <3>1. (b \in DOMAIN rows' <=> b \in DOMAIN rows) /\ Amount(rows', b) = Amount(rows, b)
        BY <1>6, <2>4 DEF Amount
      <3>2. b[2] = 0 => b[1] # w
        BY <2>4, <1>3, BucketFacts DEF Buckets
      <3>3. b[2] = 0 /\ b[1].duration = d => Matches(d) # {b[1]}
        BY <1>2, <3>2
      <3>4. Recovered(b)' = Recovered(b)
        <4>1. CASE b[2] = 0 /\ b[1].duration = d
          BY <1>2, <1>8, <2>2, <3>1, <3>3, <4>1 DEF Recovered
        <4>2. CASE ~(b[2] = 0 /\ b[1].duration = d)
          BY <1>8, <2>2, <3>1, <4>2 DEF Recovered
        <4>. QED  BY <4>1, <4>2
      <3>. QED  BY <2>1, <3>1, <3>4
    <2>. QED  BY <2>3, <2>4
  <1>. QED  BY <1>1, <1>3, <1>9, <1>10
            DEF RecoveryInv, MigratedOnce, NothingPending, ServingExact, CleanRestartAccepted

(* Start-up refuses a row it cannot place, or completes the migration.     *)
LEMMA MigrationEndsStep ==
    ASSUME RecoveryInv, CompleteLegacyMigration \/ \E d \in Durations : RefuseLegacy(d)
    PROVE  RecoveryInv'
  <1>1. /\ process = "promoting"
        /\ UNCHANGED <<rows, legacy, policyRow, period, memory, pending, clean, owed>>
        /\ \/ process' = "loading" /\ DOMAIN legacy = {}
           \/ process' = "refused" /\ \E d \in DOMAIN legacy : Cardinality(Matches(d)) # 1
    BY DEF CompleteLegacyMigration, RefuseLegacy
  <1>2. /\ \A d : Matches(d)' = Matches(d)
        /\ \A b : Recovered(b)' = Recovered(b) /\ (Expired(b)' <=> Expired(b))
    BY <1>1, TablesKept
  <1>3. RecoveryTypeOK'
    BY <1>1, RecoveryTypeKept DEF RecoveryInv, RecoveryTypeOK
  <1>4. RestartExact'
    BY <1>1, <1>2 DEF RecoveryInv, RestartExact
  <1>5. CleanRestartAccepted'
    BY <1>1, <1>2 DEF CleanRestartAccepted
  <1>. QED  BY <1>1, <1>3, <1>4, <1>5
            DEF RecoveryInv, MigratedOnce, NothingPending, ServingExact

(* The rows are loaded, unless one has no window in the policy.            *)
LEMMA LoadRowsStep ==
    ASSUME RecoveryInv, LoadRows
    PROVE  RecoveryInv'
  <1>1. /\ process = "loading"
        /\ UNCHANGED <<rows, legacy, policyRow, period, pending, clean, owed>>
    BY DEF LoadRows
  <1>2. /\ \A d : Matches(d)' = Matches(d)
        /\ \A b : Recovered(b)' = Recovered(b) /\ (Expired(b)' <=> Expired(b))
    BY <1>1, TablesKept
  <1>3. RecoveryTypeOK /\ MigratedOnce /\ NothingPending /\ RestartExact
    BY DEF RecoveryInv
  <1>4. /\ Amounts(Unexpired(rows))
        /\ \A b : b \in DOMAIN Unexpired(rows) <=> b \in DOMAIN rows /\ ~ Expired(b)
        /\ \A b : ~ Expired(b) => Amount(Unexpired(rows), b) = Amount(rows, b)
    BY <1>3, UnexpiredAmounts DEF RecoveryTypeOK
  <1>5. CASE \A b \in DOMAIN Unexpired(rows) : b[1] \in policyRow
    <2>1. process' = "serving" /\ memory' = Unexpired(rows)
      BY <1>5 DEF LoadRows
    <2>2. RecoveryTypeOK'
      BY <1>1, <1>3, <1>4, <2>1, RecoveryTypeKept DEF RecoveryTypeOK
    <2>3. ASSUME NEW b \in Buckets, ~ Expired(b)
          PROVE  /\ Amount(memory', b) = Amount(rows, b) + Amount(pending, b)
                 /\ Amount(memory', b) # 0 => b[1] \in policyRow
      <3>1. Amount(memory', b) = Amount(rows, b) /\ Amount(rows, b) \in Int
        BY <1>3, <1>4, <2>1, <2>3, AmountType DEF RecoveryTypeOK
      <3>2. Amount(pending, b) = 0
        BY <1>1, <1>3 DEF NothingPending, Amount
      <3>3. Amount(rows, b) # 0 => b \in DOMAIN Unexpired(rows)
        BY <1>4, <2>3 DEF Amount
      <3>. QED  BY <1>5, <3>1, <3>2, <3>3
    <2>4. ServingExact'
      <3>1. \A b : Amount(rows, b)' = Amount(rows, b) /\ Amount(pending, b)' = Amount(pending, b)
                    /\ Amount(memory, b)' = Amount(memory', b)
        BY <1>1 DEF Amount
      <3>. QED  BY <1>1, <1>2, <2>3, <3>1 DEF ServingExact
    <2>. QED  BY <1>1, <1>3, <2>1, <2>2, <2>4
              DEF RecoveryInv, MigratedOnce, NothingPending, RestartExact, CleanRestartAccepted
  <1>6. CASE ~ \A b \in DOMAIN Unexpired(rows) : b[1] \in policyRow
    <2>1. process' = "refused" /\ memory' = memory
      BY <1>6 DEF LoadRows
    <2>2. ~ clean
      BY <1>1, <1>3, <1>4, <1>6 DEF RestartExact, Amounts
    <2>3. RecoveryTypeOK'
      BY <1>1, <1>3, <2>1, RecoveryTypeKept DEF RecoveryTypeOK
    <2>. QED  BY <1>1, <1>3, <2>1, <2>2, <2>3
              DEF RecoveryInv, MigratedOnce, NothingPending, RestartExact, ServingExact,
                  CleanRestartAccepted
  <1>. QED  BY <1>5, <1>6

(* Steps of a gateway that keeps serving owe only what memory means.       *)
LEMMA ServingKept ==
    ASSUME RecoveryInv, process = "serving", process' = "serving", UNCHANGED <<legacy, clean, owed>>,
           RecoveryTypeOK',
           \A b \in Buckets : ~ Expired(b)' =>
                /\ Amount(memory', b) = Amount(rows', b) + Amount(pending', b)
                /\ Amount(memory', b) # 0 => b[1] \in policyRow'
    PROVE  RecoveryInv'
  <1>1. \A b : /\ Amount(rows, b)' = Amount(rows', b) /\ Amount(pending, b)' = Amount(pending', b)
               /\ Amount(memory, b)' = Amount(memory', b)
    BY DEF Amount
  <1>2. ServingExact'
    BY <1>1 DEF ServingExact
  <1>. QED  BY <1>2 DEF RecoveryInv, MigratedOnce, NothingPending, RestartExact, CleanRestartAccepted

(* A charge or a correction, in one window.                                *)
LEMMA CommitStep ==
    ASSUME RecoveryInv, NEW w \in TokenWindows, NEW n \in {-1, 1}, Commit(w, n)
    PROVE  RecoveryInv'
  <1>. DEFINE b == <<w, period[w.duration]>>
  <1>1. /\ process = "serving" /\ w \in policyRow
        /\ memory' = Add(Unexpired(memory), b, n) /\ pending' = Add(pending, b, n)
        /\ UNCHANGED <<rows, legacy, policyRow, period, process, clean, owed>>
    BY DEF Commit
  <1>2. RecoveryTypeOK /\ ServingExact
    BY DEF RecoveryInv
  <1>3. b \in Buckets /\ n \in Int
    BY <1>2, BucketFacts DEF Buckets
  <1>4. ~ Expired(b)
    BY <1>2, BucketFacts DEF Expired
  <1>. HIDE DEF b
  <1>5. /\ Amounts(Unexpired(memory))
        /\ \A c : ~ Expired(c) => Amount(Unexpired(memory), c) = Amount(memory, c)
    BY <1>2, UnexpiredAmounts DEF RecoveryTypeOK
  <1>6. /\ Amounts(memory')
        /\ \A c : Amount(memory', c) = IF c = b THEN Amount(Unexpired(memory), b) + n
                                       ELSE Amount(Unexpired(memory), c)
    BY <1>1, <1>3, <1>5, AddAmounts
  <1>7. /\ Amounts(pending')
        /\ \A c : Amount(pending', c) = IF c = b THEN Amount(pending, b) + n ELSE Amount(pending, c)
    BY <1>1, <1>2, <1>3, AddAmounts DEF RecoveryTypeOK
  <1>8. RecoveryTypeOK'
    BY <1>1, <1>2, <1>6, <1>7, RecoveryTypeKept DEF RecoveryTypeOK
  <1>9. ASSUME NEW c \in Buckets, ~ Expired(c)'
        PROVE  /\ Amount(memory', c) = Amount(rows', c) + Amount(pending', c)
               /\ Amount(memory', c) # 0 => c[1] \in policyRow'
    <2>1. ~ Expired(c)
      BY <1>1, <1>9 DEF Expired
    <2>2. /\ Amount(memory, c) = Amount(rows, c) + Amount(pending, c)
          /\ Amount(memory, c) # 0 => c[1] \in policyRow
      BY <1>1, <1>2, <2>1 DEF ServingExact
    <2>3. Amount(memory, c) \in Int /\ Amount(rows, c) \in Int /\ Amount(pending, c) \in Int
      BY <1>2, AmountType DEF RecoveryTypeOK
    <2>4. CASE c = b
      <3>1. Amount(memory', c) = Amount(memory, c) + n /\ Amount(pending', c) = Amount(pending, c) + n
        BY <1>4, <1>5, <1>6, <1>7, <2>4
      <3>2. c[1] \in policyRow'
        BY <1>1, <2>4 DEF b
      <3>3. Amount(memory', c) = Amount(rows, c) + Amount(pending', c)
        BY <1>3, <2>2, <2>3, <3>1
      <3>. QED  BY <1>1, <3>2, <3>3
    <2>5. CASE c # b
      <3>1. Amount(memory', c) = Amount(memory, c) /\ Amount(pending', c) = Amount(pending, c)
        BY <1>5, <1>6, <1>7, <2>1, <2>5
      <3>. QED  BY <1>1, <2>2, <3>1
    <2>. QED  BY <2>4, <2>5
  <1>. QED  BY <1>1, <1>8, <1>9, ServingKept

(* The accumulator writes its deltas.                                      *)
LEMMA FlushStep ==
    ASSUME RecoveryInv, Flush
    PROVE  RecoveryInv'
  <1>1. /\ process = "serving" /\ rows' = Flushed /\ pending' = <<>>
        /\ UNCHANGED <<legacy, policyRow, period, memory, process, clean, owed>>
    BY DEF Flush
  <1>2. RecoveryTypeOK /\ ServingExact
    BY DEF RecoveryInv
  <1>3. Amounts(rows') /\ \A b : Amount(rows', b) = Amount(rows, b) + Amount(pending, b)
    BY <1>1, <1>2, FlushedAmounts DEF RecoveryTypeOK
  <1>4. DOMAIN pending' = {}
    BY <1>1
  <1>5. Amounts(pending') /\ \A b : Amount(pending', b) = 0
    BY <1>4 DEF Amounts, Amount
  <1>6. RecoveryTypeOK'
    BY <1>1, <1>2, <1>3, <1>5, RecoveryTypeKept DEF RecoveryTypeOK
  <1>7. ASSUME NEW c \in Buckets, ~ Expired(c)'
        PROVE  /\ Amount(memory', c) = Amount(rows', c) + Amount(pending', c)
               /\ Amount(memory', c) # 0 => c[1] \in policyRow'
    <2>1. ~ Expired(c)
      BY <1>1, <1>7 DEF Expired
    <2>2. /\ Amount(memory, c) = Amount(rows, c) + Amount(pending, c)
          /\ Amount(memory, c) # 0 => c[1] \in policyRow
      BY <1>1, <1>2, <2>1 DEF ServingExact
    <2>3. Amount(rows', c) \in Int /\ Amount(rows', c) = Amount(memory, c) /\ Amount(pending', c) = 0
      BY <1>3, <1>5, <2>2, AmountType
    <2>. QED  BY <1>1, <2>2, <2>3
  <1>. QED  BY <1>1, <1>6, <1>7, ServingKept

(* A policy is replaced: a window that goes has no debt.                   *)
LEMMA ReplacePolicyStep ==
    ASSUME RecoveryInv, NEW windows \in TokenPolicies, ReplacePolicy(windows)
    PROVE  RecoveryInv'
  <1>1. /\ process = "serving" /\ policyRow' = windows /\ memory' = Unexpired(memory)
        /\ \A b \in DOMAIN Unexpired(memory) : b[1] \notin windows => memory[b] = 0
        /\ UNCHANGED <<rows, legacy, period, pending, process, clean, owed>>
    BY DEF ReplacePolicy
  <1>2. RecoveryTypeOK /\ ServingExact
    BY DEF RecoveryInv
  <1>3. /\ Amounts(memory') /\ \A c : c \in DOMAIN memory' <=> c \in DOMAIN memory /\ ~ Expired(c)
        /\ \A c : ~ Expired(c) => Amount(memory', c) = Amount(memory, c)
    BY <1>1, <1>2, UnexpiredAmounts DEF RecoveryTypeOK
  <1>4. policyRow' \subseteq TokenWindows
    BY <1>1, TokenRecoveryAssumption
  <1>5. RecoveryTypeOK'
    BY <1>1, <1>2, <1>3, <1>4, RecoveryTypeKept DEF RecoveryTypeOK
  <1>6. ASSUME NEW c \in Buckets, ~ Expired(c)'
        PROVE  /\ Amount(memory', c) = Amount(rows', c) + Amount(pending', c)
               /\ Amount(memory', c) # 0 => c[1] \in policyRow'
    <2>1. ~ Expired(c)
      BY <1>1, <1>6 DEF Expired
    <2>2. Amount(memory, c) = Amount(rows, c) + Amount(pending, c)
      BY <1>1, <1>2, <2>1 DEF ServingExact
    <2>3. Amount(memory', c) = Amount(memory, c)
      BY <1>3, <2>1
    <2>4. Amount(memory, c) # 0 => c \in DOMAIN memory /\ memory[c] # 0
      BY DEF Amount
    <2>5. Amount(memory, c) # 0 => c[1] \in windows
      BY <1>1, <1>3, <2>1, <2>4
    <2>. QED  BY <1>1, <2>2, <2>3, <2>5
  <1>. QED  BY <1>1, <1>5, <1>6, ServingKept

(* Time passes a boundary: buckets expire, none comes back.                *)
LEMMA NextPeriodStep ==
    ASSUME RecoveryInv, NEW d \in Durations, NextPeriod(d)
    PROVE  RecoveryInv'
  <1>1. /\ period[d] < MaxPeriod /\ period' = [period EXCEPT ![d] = @ + 1]
        /\ UNCHANGED <<rows, legacy, policyRow, memory, pending, process, clean, owed>>
    BY DEF NextPeriod
  <1>2. RecoveryTypeOK /\ MaxPeriod \in Nat
    BY TokenRecoveryAssumption DEF RecoveryInv
  <1>3. period[d] \in 0 .. MaxPeriod /\ period[d] + 1 \in 0 .. MaxPeriod
    BY <1>1, <1>2, BucketFacts
  <1>4. period' \in [Durations -> 0 .. MaxPeriod]
    BY <1>1, <1>2, <1>3 DEF RecoveryTypeOK
  <1>5. \A b \in Buckets : ~ Expired(b)' => ~ Expired(b)
    <2>. SUFFICES ASSUME NEW b \in Buckets, ~ Expired(b)' PROVE ~ Expired(b)
      OBVIOUS
    <2>1. b[2] \in Nat /\ b[1].duration \in Durations /\ period[b[1].duration] \in Nat
      BY <1>2, BucketFacts
    <2>2. period'[b[1].duration] = period[b[1].duration] \/ period'[b[1].duration] = period[b[1].duration] + 1
      BY <1>1, <1>2, <2>1 DEF RecoveryTypeOK
    <2>. QED  BY <2>1, <2>2 DEF Expired
  <1>6. RecoveryTypeOK'
    BY <1>1, <1>2, <1>4, RecoveryTypeKept DEF RecoveryTypeOK
  <1>7. /\ \A b : Matches(b)' = Matches(b)
        /\ \A b : /\ Amount(rows, b)' = Amount(rows, b) /\ Amount(pending, b)' = Amount(pending, b)
                  /\ Amount(memory, b)' = Amount(memory, b)
    BY <1>1 DEF Matches, Amount
  <1>8. \A b : Recovered(b)' = Recovered(b)
    BY <1>1, <1>7 DEF Recovered
  <1>9. ServingExact'
    BY <1>1, <1>5, <1>7 DEF RecoveryInv, ServingExact
  <1>10. RestartExact'
    BY <1>1, <1>5, <1>8 DEF RecoveryInv, RestartExact
  <1>11. CleanRestartAccepted'
    BY <1>1, <1>7 DEF RecoveryInv, CleanRestartAccepted
  <1>. QED  BY <1>1, <1>6, <1>9, <1>10, <1>11 DEF RecoveryInv, MigratedOnce, NothingPending

(* A graceful stop writes what memory holds, and memory is owed.           *)
LEMMA GracefulStopStep ==
    ASSUME RecoveryInv, GracefulStop
    PROVE  RecoveryInv'
  <1>1. /\ process = "serving" /\ process' = "down" /\ memory' = <<>> /\ pending' = <<>>
        /\ rows' = Flushed /\ owed' = [b \in Buckets |-> Amount(memory, b)]
        /\ UNCHANGED <<legacy, policyRow, period>>
    BY DEF GracefulStop, Stop
  <1>2. RecoveryTypeOK /\ ServingExact /\ DOMAIN legacy = {}
    BY <1>1 DEF RecoveryInv, MigratedOnce
  <1>3. /\ Amounts(rows') /\ \A b : Amount(rows', b) = Amount(rows, b) + Amount(pending, b)
        /\ \A b \in DOMAIN rows' : Amount(rows, b) + Amount(pending, b) # 0
    BY <1>1, <1>2, FlushedAmounts DEF RecoveryTypeOK
  <1>4. DOMAIN pending' = {} /\ DOMAIN memory' = {}
    BY <1>1
  <1>5. Amounts(pending') /\ Amounts(memory')
    BY <1>4 DEF Amounts
  <1>6. RecoveryTypeOK'
    BY <1>1, <1>2, <1>3, <1>5, RecoveryTypeKept DEF RecoveryTypeOK
  <1>7. ASSUME NEW b \in Buckets, ~ Expired(b)'
        PROVE  /\ b \in DOMAIN rows' => b[1] \in policyRow'
               /\ Recovered(b)' = owed'[b]
    <2>1. ~ Expired(b)
      BY <1>1, <1>7 DEF Expired
    <2>2. /\ Amount(memory, b) = Amount(rows, b) + Amount(pending, b)
          /\ Amount(memory, b) # 0 => b[1] \in policyRow
      BY <1>1, <1>2, <2>1 DEF ServingExact
    <2>3. Recovered(b)' = Amount(rows', b)
      BY <1>1, <1>2 DEF Recovered, Amount
    <2>. QED  BY <1>1, <1>3, <2>2, <2>3
  <1>8. RestartExact'
    BY <1>7 DEF RestartExact
  <1>. QED  BY <1>1, <1>4, <1>6, <1>8
            DEF RecoveryInv, MigratedOnce, NothingPending, ServingExact, CleanRestartAccepted

(* The process dies: a clean state stays clean only before it serves.      *)
LEMMA DieStep ==
    ASSUME RecoveryInv, Die
    PROVE  RecoveryInv'
  <1>1. /\ process \in {"promoting", "loading", "serving"} /\ process' = "down"
        /\ memory' = <<>> /\ pending' = <<>>
        /\ clean' = (clean /\ process # "serving")
        /\ UNCHANGED <<rows, legacy, policyRow, period, owed>>
    BY DEF Die, Stop
  <1>2. DOMAIN pending' = {} /\ DOMAIN memory' = {}
    BY <1>1
  <1>3. Amounts(pending') /\ Amounts(memory')
    BY <1>2 DEF Amounts
  <1>4. RecoveryTypeOK'
    BY <1>1, <1>3, RecoveryTypeKept DEF RecoveryInv, RecoveryTypeOK
  <1>5. \A b : Recovered(b)' = Recovered(b) /\ (Expired(b)' <=> Expired(b))
    BY <1>1, TablesKept
  <1>6. clean' => clean /\ process # "serving"
    BY <1>1
  <1>7. RestartExact'
    BY <1>1, <1>5, <1>6 DEF RecoveryInv, RestartExact
  <1>. QED  BY <1>1, <1>2, <1>4, <1>7
            DEF RecoveryInv, MigratedOnce, NothingPending, ServingExact, CleanRestartAccepted

(* Every step of TokenRecovery preserves the invariant.                    *)
LEMMA RecoveryStep == RecoveryInv /\ [RecoveryNext]_recoveryVars => RecoveryInv'
  <1>. SUFFICES ASSUME RecoveryInv, [RecoveryNext]_recoveryVars PROVE RecoveryInv'
    OBVIOUS
  <1>1. CASE UNCHANGED recoveryVars
    <2>1. /\ UNCHANGED <<rows, legacy, policyRow, period, memory, pending>>
          /\ UNCHANGED <<process, clean, owed>>
      BY <1>1 DEF recoveryVars
    <2>2. \A b : Recovered(b)' = Recovered(b) /\ (Expired(b)' <=> Expired(b)) /\ Matches(b)' = Matches(b)
      BY <2>1, TablesKept
    <2>3. RecoveryTypeOK'
      BY <2>1, RecoveryTypeKept DEF RecoveryInv, RecoveryTypeOK
    <2>4. ServingExact'
      BY <2>1, <2>2 DEF RecoveryInv, ServingExact, Amount
    <2>5. RestartExact'
      BY <2>1, <2>2 DEF RecoveryInv, RestartExact
    <2>6. CleanRestartAccepted'
      BY <2>1, <2>2 DEF RecoveryInv, CleanRestartAccepted
    <2>. QED  BY <2>1, <2>3, <2>4, <2>5, <2>6 DEF RecoveryInv, MigratedOnce, NothingPending
  <1>2. CASE DeleteExpired
    BY <1>2, DeleteExpiredStep
  <1>3. CASE CompleteLegacyMigration \/ \E d \in Durations : RefuseLegacy(d)
    BY <1>3, MigrationEndsStep
  <1>4. CASE LoadRows
    BY <1>4, LoadRowsStep
  <1>5. CASE \E d \in Durations : PromoteLegacy(d)
    BY <1>5, PromoteLegacyStep
  <1>6. CASE \E d \in Durations : NextPeriod(d)
    BY <1>6, NextPeriodStep
  <1>7. CASE \E w \in TokenWindows, n \in {-1, 1} : Commit(w, n)
    BY <1>7, CommitStep
  <1>8. CASE Flush
    BY <1>8, FlushStep
  <1>9. CASE GracefulStop
    BY <1>9, GracefulStopStep
  <1>10. CASE Die
    BY <1>10, DieStep
  <1>11. CASE \E p \in TokenPolicies : ReplacePolicy(p)
    BY <1>11, ReplacePolicyStep
  <1>. QED  BY <1>1, <1>2, <1>3, <1>4, <1>5, <1>6, <1>7, <1>8, <1>9, <1>10, <1>11 DEF RecoveryNext

(***************************************************************************)
(* The invariant of the restarts: memory is what rows and pending deltas   *)
(* add up to while the gateway serves, and after a clean stop the two      *)
(* tables hold what was owed (run, UpsertCommittedDeltas, LoadUnexpired).  *)
(***************************************************************************)
THEOREM RecoveryInvariant == RecoverySpec => []RecoveryInv
  BY RecoveryInitial, RecoveryStep, PTL DEF RecoverySpec

(***************************************************************************)
(* After a clean stop the next start-up is refused only for a row of the   *)
(* retired table that the policy does not determine, never for a row of a  *)
(* window that updatePolicy let go.                                        *)
(***************************************************************************)
THEOREM RestartAccepted == RecoverySpec => []CleanRestartAccepted
  <1>1. RecoveryInv => CleanRestartAccepted
    BY DEF RecoveryInv
  <1>. QED  BY <1>1, RecoveryInvariant, PTL

(* The step that loads the rows loads what was owed.                       *)
LEMMA LoadKeepsUsage ==
    ASSUME RecoveryInv, [RecoveryNext]_recoveryVars, process = "loading", process' = "serving", clean,
           NEW b \in Buckets, ~ Expired(b), b[1] \in policyRow
    PROVE  Amount(memory', b) = owed[b]
  <1>1. LoadRows
    BY DEF RecoveryNext, recoveryVars, DeleteExpired, CompleteLegacyMigration, PromoteLegacy, RefuseLegacy,
           NextPeriod, Commit, Flush, GracefulStop, Die, Stop, ReplacePolicy
  <1>2. memory' = Unexpired(rows)
    BY <1>1 DEF LoadRows
  <1>3. Amount(memory', b) = Amount(rows, b)
    BY <1>2, UnexpiredAmounts DEF RecoveryInv, RecoveryTypeOK
  <1>4. Recovered(b) = owed[b]
    BY DEF RecoveryInv, RestartExact
  <1>5. DOMAIN legacy = {}
    BY DEF RecoveryInv, MigratedOnce
  <1>6. Recovered(b) = Amount(rows, b)
    BY <1>5 DEF Recovered
  <1>. QED  BY <1>3, <1>4, <1>6

(***************************************************************************)
(* What the limiter loads at a clean start is what was owed at the stop,   *)
(* for every bucket that has not expired, however often start-up died      *)
(* between its transactions (PromoteLegacy, LoadUnexpired).                *)
(***************************************************************************)
THEOREM UsageKept == RecoverySpec => RestartKeepsUsage
  <1>1. RecoveryInv /\ [RecoveryNext]_recoveryVars =>
          [process = "loading" /\ process' = "serving" /\ clean =>
             \A b \in Buckets : ~ Expired(b) /\ b[1] \in policyRow => Amount(memory', b) = owed[b]]_recoveryVars
    BY LoadKeepsUsage
  <1>. QED  BY <1>1, RecoveryInvariant, PTL DEF RecoverySpec, RestartKeepsUsage

-----------------------------------------------------------------------------
(***************************************************************************)
(* The analytics coordinators.  GateExact counts the callers that compute  *)
(* against the gate; that the count stays exact needs every flight and its *)
(* leader to know each other (FlightsLed), so that a place is taken and    *)
(* given back once.  OwnCancellationOnly needs what a flight tells its     *)
(* waiters of its leader's cancellation (CancellationsTold).               *)
(***************************************************************************)
Asked == Queries \cup {CHOOSE q \in Queries : TRUE}
CallerRecords ==
    [at : {"idle", "attempt", "waiting", "running", "update", "returned"},
     query : Asked, leader : Callers, attempt : Nat,
     cancelled : BOOLEAN, result : {"none", "value", "failed", "cancelled", "capacity", "leader_canceled"}]
FlightRecords ==
    [done : BOOLEAN, err : {"none", "failed", "cancelled"}, leaderCanceled : BOOLEAN]

CoordinatorTypeOK ==
    /\ caller \in [Callers -> CallerRecords]
    /\ flight \in [Callers -> FlightRecords]
    /\ cacheOrder \in [Coordinators -> Seq(Queries)]
    /\ DOMAIN cache \subseteq Queries /\ DOMAIN inFlight \subseteq Queries
    /\ \A c \in Callers : caller[c].at # "idle" => caller[c].query \in Queries

GateCounts ==
    /\ IsFiniteSet(Running) /\ gateActive = Cardinality(Running)
    /\ gateActive <= GateCapacity

\* A flight and its leader know each other.
FlightsLed ==
    /\ \A q \in DOMAIN inFlight : inFlight[q] \in Running /\ QueryOf(inFlight[q]) = q
    /\ \A c \in Running : QueryOf(c) \in DOMAIN inFlight /\ inFlight[QueryOf(c)] = c

\* The order of a coordinator lists its cached queries, each once.
OrderExact ==
    \A k \in Coordinators :
        /\ IsInjective(cacheOrder[k])
        /\ Range(cacheOrder[k]) = {q \in DOMAIN cache : q.coordinator = k}
        /\ Len(cacheOrder[k]) <= MaxCache

CancellationsTold ==
    \A c \in Callers :
        /\ flight[c].err = "cancelled" => caller[c].cancelled
        /\ flight[c].done => caller[c].at = "returned"
        /\ flight[c].done /\ flight[c].err = "cancelled" => flight[c].leaderCanceled
        /\ caller[c].result = "cancelled" => caller[c].cancelled

CoordinatorInv ==
    /\ CoordinatorTypeOK
    /\ GateCounts /\ FlightsLed /\ OrderExact /\ CancellationsTold

(* The first occurrence in an order without repetition is the only one.    *)
LEMMA FirstRemoved ==
    ASSUME NEW S, NEW s \in Seq(S), IsInjective(s), NEW e
    PROVE  /\ RemoveFirst(s, e) \in Seq(S)
           /\ IsInjective(RemoveFirst(s, e))
           /\ Range(RemoveFirst(s, e)) = Range(s) \ {e}
           /\ Len(RemoveFirst(s, e)) <= Len(s)
  <1>1. CASE ~ \E i \in 1 .. Len(s) : s[i] = e
    <2>1. RemoveFirst(s, e) = s
      BY <1>1 DEF RemoveFirst
    <2>2. e \notin Range(s)
      BY <1>1 DEF Range
    <2>. QED  BY <2>1, <2>2
  <1>2. CASE \E i \in 1 .. Len(s) : s[i] = e
    <2>. DEFINE I == {i \in 1 .. Len(s) : s[i] = e}
    <2>1. PICK n \in 1 .. Len(s) : s[n] = e
      BY <1>2
    <2>2. I = {n}
      BY <2>1 DEF IsInjective
    <2>3. SelectInSeq(s, LAMBDA v : v = e) = n
      <3>1. SelectInSeq(s, LAMBDA v : v = e) = Min(I)
        BY <2>2 DEF SelectInSeq
      <3>2. Min(I) = n
        BY <2>1, <2>2 DEF Min
      <3>. QED  BY <3>1, <3>2
    <2>4. RemoveFirst(s, e) = SubSeq(s, 1, n - 1) \o SubSeq(s, n + 1, Len(s))
      BY <1>2, <2>3 DEF RemoveFirst, RemoveAt
    <2>. DEFINE l == SubSeq(s, 1, n - 1)
                r == SubSeq(s, n + 1, Len(s))
                u == l \o r
    <2>5. Len(s) \in Nat /\ n \in Nat /\ 1 <= n /\ n <= Len(s) /\ DOMAIN s = 1 .. Len(s)
      BY <2>1
    <2>6. l \in Seq(S) /\ Len(l) = n - 1 /\ \A i \in 1 .. n - 1 : l[i] = s[i]
      BY <2>5, SubSeqProperties
    <2>7. r \in Seq(S) /\ Len(r) = Len(s) - n /\ \A i \in 1 .. Len(s) - n : r[i] = s[i + n]
      <3>0. n + 1 \in 1 .. Len(s) + 1
        BY <2>5
      <3>1. r \in Seq(S) /\ Len(r) = Len(s) - n
        <4>1. \A m \in 1 .. Len(s) + 1 : SubSeq(s, m, Len(s)) \in Seq(S)
              /\ Len(SubSeq(s, m, Len(s))) = Len(s) - m + 1
          BY <2>5
        <4>. HIDE DEF r
        <4>2. r \in Seq(S) /\ Len(r) = Len(s) - (n + 1) + 1
          BY <3>0, <4>1 DEF r
        <4>. QED  BY <2>5, <4>2
      <3>2. \A i \in 1 .. Len(s) - n : r[i] = s[i + n]
        BY <2>5
      <3>. QED  BY <3>1, <3>2
    <2>. HIDE DEF l, r
    <2>a. l \in Seq(S) /\ r \in Seq(S)
      BY <2>6, <2>7
    <2>8. /\ u \in Seq(S) /\ DOMAIN u = 1 .. Len(l) + Len(r) /\ Len(u) = Len(l) + Len(r)
          /\ \A i \in 1 .. Len(l) + Len(r) : u[i] = IF i <= Len(l) THEN l[i] ELSE r[i - Len(l)]
      BY ONLY <2>a
    <2>. HIDE DEF u
    <2>9. DOMAIN u = 1 .. Len(s) - 1 /\ Len(u) = Len(s) - 1
      BY <2>5, <2>6, <2>7, <2>8
    <2>10. \A i \in 1 .. Len(s) - 1 : u[i] = IF i < n THEN s[i] ELSE s[i + 1]
      <3>. SUFFICES ASSUME NEW i \in 1 .. Len(s) - 1
                    PROVE  u[i] = IF i < n THEN s[i] ELSE s[i + 1]
        OBVIOUS
      <3>1. u[i] = IF i <= n - 1 THEN l[i] ELSE r[i - (n - 1)]
        BY <2>5, <2>6, <2>7, <2>8
      <3>2. CASE i < n
        BY <2>5, <2>6, <3>1, <3>2
      <3>3. CASE ~(i < n)
        <4>1. i - (n - 1) \in 1 .. Len(s) - n /\ i - (n - 1) + n = i + 1
          BY <2>5, <3>3
        <4>2. r[i - (n - 1)] = s[i - (n - 1) + n]
          BY <2>7, <4>1
        <4>. QED  BY <2>5, <3>1, <3>3, <4>1, <4>2
      <3>. QED  BY <3>2, <3>3
    <2>11. IsInjective(u)
      <3>. SUFFICES ASSUME NEW i \in 1 .. Len(s) - 1, NEW j \in 1 .. Len(s) - 1, u[i] = u[j]
                    PROVE  i = j
        BY <2>9 DEF IsInjective
      <3>. DEFINE f(k) == IF k < n THEN k ELSE k + 1
      <3>1. f(i) \in DOMAIN s /\ f(j) \in DOMAIN s
        BY <2>5
      <3>2. u[i] = s[f(i)] /\ u[j] = s[f(j)]
        BY <2>10
      <3>3. f(i) = f(j)
        <4>. HIDE DEF f
        <4>. QED  BY <3>1, <3>2 DEF IsInjective
      <3>. QED  BY <2>5, <3>3
    <2>12. Range(u) = Range(s) \ {e}
      <3>1. ASSUME NEW i \in DOMAIN u PROVE u[i] \in Range(s) \ {e}
        <4>1. CASE i < n
          <5>1. u[i] = s[i] /\ i \in DOMAIN s /\ i # n
            BY <2>5, <2>9, <2>10, <3>1, <4>1
          <5>. QED  BY <2>1, <2>5, <5>1 DEF Range, IsInjective
        <4>2. CASE ~(i < n)
          <5>1. u[i] = s[i + 1] /\ i + 1 \in DOMAIN s /\ i + 1 # n
            BY <2>5, <2>9, <2>10, <3>1, <4>2
          <5>. QED  BY <2>1, <2>5, <5>1 DEF Range, IsInjective
        <4>. QED  BY <4>1, <4>2
      <3>2. ASSUME NEW i \in DOMAIN s, s[i] # e PROVE s[i] \in Range(u)
        <4>1. CASE i < n
          <5>1. i \in DOMAIN u /\ u[i] = s[i]
            BY <2>5, <2>9, <2>10, <3>2, <4>1
          <5>. QED  BY <5>1 DEF Range
        <4>2. CASE ~(i < n)
          <5>1. i # n
            BY <2>1, <3>2
          <5>2. i - 1 \in DOMAIN u /\ ~(i - 1 < n) /\ i - 1 + 1 = i
            BY <2>5, <2>9, <4>2, <5>1
          <5>3. u[i - 1] = s[i]
            BY <2>9, <2>10, <5>2
          <5>. QED  BY <5>2, <5>3 DEF Range
        <4>. QED  BY <4>1, <4>2
      <3>3. Range(u) \subseteq Range(s) \ {e}
        BY <3>1 DEF Range
      <3>4. Range(s) \ {e} \subseteq Range(u)
        BY <3>2 DEF Range
      <3>. QED  BY <3>3, <3>4
    <2>13. RemoveFirst(s, e) = u
      BY <2>4 DEF u, l, r
    <2>. QED  BY <2>5, <2>8, <2>9, <2>11, <2>12, <2>13
  <1>. QED  BY <1>1, <1>2

(* An order without repetition is as long as the set it lists.             *)
LEMMA InjectiveLength ==
    ASSUME NEW S, NEW s \in Seq(S), IsInjective(s)
    PROVE  IsFiniteSet(Range(s)) /\ Cardinality(Range(s)) = Len(s)
  <1>1. Len(s) \in Nat /\ DOMAIN s = 1 .. Len(s)
    OBVIOUS
  <1>2. s \in [1 .. Len(s) -> Range(s)]
    <2>1. s = [i \in 1 .. Len(s) |-> s[i]]
      OBVIOUS
    <2>2. \A i \in 1 .. Len(s) : s[i] \in Range(s)
      BY <1>1 DEF Range
    <2>. QED  BY <2>1, <2>2
  <1>3. s \in Bijection(1 .. Len(s), Range(s))
    <2>1. s \in Injection(1 .. Len(s), Range(s))
      BY <1>2 DEF Injection
    <2>2. \A x \in Range(s) : \E i \in 1 .. Len(s) : s[i] = x
      BY <1>1 DEF Range
    <2>3. s \in Surjection(1 .. Len(s), Range(s))
      BY <1>2, <2>2 DEF Surjection
    <2>. QED  BY <2>1, <2>3 DEF Bijection
  <1>4. ExistsBijection(1 .. Len(s), Range(s))
    BY <1>3 DEF ExistsBijection
  <1>. QED  BY <1>1, <1>4, FS_NatBijection, FS_CountingElements

(* A newer entry goes last; the oldest of a full order go.                 *)
LEMMA NewestLast ==
    ASSUME NEW S, NEW s \in Seq(S), IsInjective(s), NEW e \in S, e \notin Range(s)
    PROVE  /\ Append(s, e) \in Seq(S) /\ IsInjective(Append(s, e))
           /\ Range(Append(s, e)) = Range(s) \cup {e}
           /\ Len(Append(s, e)) = Len(s) + 1
  <1>. DEFINE u == Append(s, e)
  <1>1. Len(s) \in Nat /\ DOMAIN s = 1 .. Len(s)
    OBVIOUS
  <1>2. /\ u \in Seq(S) /\ DOMAIN u = 1 .. Len(s) + 1 /\ Len(u) = Len(s) + 1
        /\ \A i \in 1 .. Len(s) : u[i] = s[i]
    OBVIOUS
  <1>3. u[Len(s) + 1] = e
    OBVIOUS
  <1>. HIDE DEF u
  <1>4. ASSUME NEW i \in DOMAIN u PROVE i = Len(s) + 1 \/ (i \in DOMAIN s /\ u[i] = s[i])
    <2>1. i \in 1 .. Len(s) + 1
      BY <1>2
    <2>2. i = Len(s) + 1 \/ i \in 1 .. Len(s)
      BY <1>1, <2>1
    <2>3. i \in 1 .. Len(s) => i \in DOMAIN s /\ u[i] = s[i]
      BY <1>1, <1>2
    <2>. QED  BY <2>2, <2>3
  <1>5. \A i \in DOMAIN s : i \in DOMAIN u /\ u[i] = s[i] /\ s[i] # e
    BY <1>1, <1>2 DEF Range
  <1>6. Len(s) + 1 \in DOMAIN u
    BY <1>1, <1>2
  <1>7. IsInjective(u)
    BY <1>3, <1>4, <1>5 DEF IsInjective
  <1>8. Range(u) = Range(s) \cup {e}
    BY <1>3, <1>4, <1>5, <1>6 DEF Range
  <1>. QED  BY <1>2, <1>7, <1>8 DEF u

(* The rest of a sequence without repetitions after its oldest members     *)
(* were dropped.                                                           *)
LEMMA OldestCut ==
    ASSUME NEW S, NEW s \in Seq(S), IsInjective(s), NEW m \in 1 .. Len(s) + 1
    PROVE  LET u == SubSeq(s, m, Len(s))
           IN  /\ u \in Seq(S) /\ IsInjective(u) /\ Range(u) \subseteq Range(s)
               /\ Len(u) = Len(s) - m + 1
  <1>. DEFINE u == SubSeq(s, m, Len(s))
  <1>1. Len(s) \in Nat /\ DOMAIN s = 1 .. Len(s)
    OBVIOUS
  <1>2. /\ u \in Seq(S) /\ Len(u) = Len(s) - m + 1 /\ DOMAIN u = 1 .. Len(s) - m + 1
        /\ \A i \in 1 .. Len(s) - m + 1 : u[i] = s[m + i - 1]
    BY <1>1
  <1>. HIDE DEF u
  <1>3. \A i \in DOMAIN u : m + i - 1 \in DOMAIN s /\ u[i] = s[m + i - 1]
    BY <1>1, <1>2
  <1>4. IsInjective(u)
    <2>. SUFFICES ASSUME NEW i \in DOMAIN u, NEW j \in DOMAIN u, u[i] = u[j]
                  PROVE  i = j
      BY DEF IsInjective
    <2>1. m + i - 1 = m + j - 1
      BY <1>3 DEF IsInjective
    <2>. QED  BY <1>1, <1>2, <2>1
  <1>5. Range(u) \subseteq Range(s)
    BY <1>3 DEF Range
  <1>. QED  BY <1>2, <1>4, <1>5 DEF u

-----------------------------------------------------------------------------
(* The order of the coordinator of a query, without it.                    *)
LEMMA WithoutFacts ==
    ASSUME CoordinatorTypeOK, OrderExact, NEW q \in Queries
    PROVE  /\ q.coordinator \in Coordinators
           /\ OrderWithout(q) \in [Coordinators -> Seq(Queries)]
           /\ \A k \in Coordinators : k # q.coordinator => OrderWithout(q)[k] = cacheOrder[k]
           /\ IsInjective(OrderWithout(q)[q.coordinator])
           /\ Range(OrderWithout(q)[q.coordinator])
                = {x \in DOMAIN cache : x.coordinator = q.coordinator} \ {q}
           /\ Len(OrderWithout(q)[q.coordinator]) <= MaxCache
  <1>. DEFINE k == q.coordinator
              o == cacheOrder[k]
  <1>1. k \in Coordinators
    BY DEF Coordinators
  <1>2. /\ o \in Seq(Queries) /\ IsInjective(o) /\ Len(o) <= MaxCache
        /\ Range(o) = {x \in DOMAIN cache : x.coordinator = k}
    BY <1>1 DEF CoordinatorTypeOK, OrderExact
  <1>3. /\ RemoveFirst(o, q) \in Seq(Queries) /\ IsInjective(RemoveFirst(o, q))
        /\ Range(RemoveFirst(o, q)) = Range(o) \ {q} /\ Len(RemoveFirst(o, q)) <= Len(o)
    BY <1>2, FirstRemoved
  <1>4. /\ OrderWithout(q) \in [Coordinators -> Seq(Queries)]
        /\ OrderWithout(q)[k] = RemoveFirst(o, q)
        /\ \A l \in Coordinators : l # k => OrderWithout(q)[l] = cacheOrder[l]
    BY <1>1, <1>3 DEF OrderWithout, CoordinatorTypeOK
  <1>5. Len(RemoveFirst(o, q)) <= MaxCache
    BY <1>2, <1>3, CoordinatorAssumption
  <1>. QED  BY <1>1, <1>2, <1>3, <1>4, <1>5

(* A hit moves its query to the end of the order.                          *)
LEMMA HitOrder ==
    ASSUME CoordinatorTypeOK, OrderExact, NEW q \in Queries, q \in DOMAIN cache, cache' = cache,
           cacheOrder' = [OrderWithout(q) EXCEPT ![q.coordinator] = Append(@, q)]
    PROVE  cacheOrder' \in [Coordinators -> Seq(Queries)] /\ OrderExact'
  <1>. DEFINE k == q.coordinator
              o == OrderWithout(q)[k]
  <1>1. /\ k \in Coordinators /\ OrderWithout(q) \in [Coordinators -> Seq(Queries)]
        /\ \A l \in Coordinators : l # k => OrderWithout(q)[l] = cacheOrder[l]
        /\ IsInjective(o) /\ Range(o) = {x \in DOMAIN cache : x.coordinator = k} \ {q}
    BY WithoutFacts
  <1>2. o \in Seq(Queries) /\ q \notin Range(o)
    BY <1>1
  <1>. HIDE DEF o
  <1>3. /\ Append(o, q) \in Seq(Queries) /\ IsInjective(Append(o, q))
        /\ Range(Append(o, q)) = Range(o) \cup {q} /\ Len(Append(o, q)) = Len(o) + 1
    BY <1>1, <1>2, NewestLast
  <1>4. /\ cacheOrder' \in [Coordinators -> Seq(Queries)] /\ cacheOrder'[k] = Append(o, q)
        /\ \A l \in Coordinators : l # k => cacheOrder'[l] = cacheOrder[l]
    BY <1>1, <1>3 DEF o
  <1>5. Range(cacheOrder'[k]) = {x \in DOMAIN cache' : x.coordinator = k}
    <2>1. Range(cacheOrder'[k]) = ({x \in DOMAIN cache : x.coordinator = k} \ {q}) \cup {q}
      BY <1>1, <1>3, <1>4, Zenon
    <2>2. q \in {x \in DOMAIN cache : x.coordinator = k}
      OBVIOUS
    <2>. QED  BY <2>1, <2>2
  <1>6. Len(cacheOrder'[k]) <= MaxCache
    <2>1. Range(cacheOrder'[k]) = Range(cacheOrder[k])
      BY <1>1, <1>5 DEF OrderExact
    <2>2. Cardinality(Range(cacheOrder'[k])) = Len(cacheOrder'[k])
      BY <1>1, <1>3, <1>4, InjectiveLength
    <2>3. Cardinality(Range(cacheOrder[k])) = Len(cacheOrder[k]) /\ Len(cacheOrder[k]) <= MaxCache
      BY <1>1, InjectiveLength DEF OrderExact, CoordinatorTypeOK
    <2>. QED  BY <2>1, <2>2, <2>3
  <1>7. IsInjective(cacheOrder'[k])
    BY <1>3, <1>4
  <1>8. ASSUME NEW l \in Coordinators
        PROVE  /\ IsInjective(cacheOrder'[l])
               /\ Range(cacheOrder'[l]) = {x \in DOMAIN cache' : x.coordinator = l}
               /\ Len(cacheOrder'[l]) <= MaxCache
    <2>1. CASE l = k
      BY <1>5, <1>6, <1>7, <2>1
    <2>2. CASE l # k
      BY <1>4, <2>2 DEF OrderExact
    <2>. QED  BY <2>1, <2>2
  <1>9. OrderExact'
    BY <1>8 DEF OrderExact, IsInjective, Range
  <1>. QED  BY <1>4, <1>9

(* An expired entry leaves the cache and the order.                        *)
LEMMA MissOrder ==
    ASSUME CoordinatorTypeOK, OrderExact, NEW q \in Queries, cache' = Removed(cache, q),
           cacheOrder' = IF q \in DOMAIN cache THEN OrderWithout(q) ELSE cacheOrder
    PROVE  /\ cacheOrder' \in [Coordinators -> Seq(Queries)] /\ OrderExact'
           /\ DOMAIN cache' \subseteq Queries
  <1>. DEFINE k == q.coordinator
  <1>1. /\ k \in Coordinators /\ OrderWithout(q) \in [Coordinators -> Seq(Queries)]
        /\ \A l \in Coordinators : l # k => OrderWithout(q)[l] = cacheOrder[l]
        /\ IsInjective(OrderWithout(q)[k]) /\ Len(OrderWithout(q)[k]) <= MaxCache
        /\ Range(OrderWithout(q)[k]) = {x \in DOMAIN cache : x.coordinator = k} \ {q}
    BY WithoutFacts
  <1>2. DOMAIN cache' = DOMAIN cache \ {q} /\ DOMAIN cache \subseteq Queries
    BY DEF Removed, CoordinatorTypeOK
  <1>3. cacheOrder' \in [Coordinators -> Seq(Queries)]
    BY <1>1 DEF CoordinatorTypeOK
  <1>4. ASSUME NEW l \in Coordinators
        PROVE  /\ IsInjective(cacheOrder'[l])
               /\ Range(cacheOrder'[l]) = {x \in DOMAIN cache' : x.coordinator = l}
               /\ Len(cacheOrder'[l]) <= MaxCache
    <2>1. /\ IsInjective(cacheOrder[l]) /\ Len(cacheOrder[l]) <= MaxCache
          /\ Range(cacheOrder[l]) = {x \in DOMAIN cache : x.coordinator = l}
      BY DEF OrderExact
    <2>2. CASE q \notin DOMAIN cache
      BY <1>2, <2>1, <2>2
    <2>3. CASE q \in DOMAIN cache /\ l = k
      BY <1>1, <1>2, <2>3
    <2>4. CASE q \in DOMAIN cache /\ l # k
      BY <1>1, <1>2, <2>1, <2>4
    <2>. QED  BY <2>2, <2>3, <2>4
  <1>5. OrderExact'
    BY <1>4 DEF OrderExact, IsInjective, Range
  <1>. QED  BY <1>2, <1>3, <1>5

(* A result is cached, and the oldest entries make room for it.            *)
LEMMA SetCacheOrder ==
    ASSUME CoordinatorTypeOK, OrderExact, NEW q \in Queries, SetCache(q)
    PROVE  /\ cacheOrder' \in [Coordinators -> Seq(Queries)] /\ OrderExact'
           /\ DOMAIN cache' \subseteq Queries
  <1>. DEFINE k == q.coordinator
              order == OrderWithout(q)[k]
              kept == IF Len(order) < MaxCache THEN order
                      ELSE SubSeq(order, Len(order) - MaxCache + 2, Len(order))
              evicted == Range(order) \ Range(kept)
  <1>1. /\ k \in Coordinators /\ OrderWithout(q) \in [Coordinators -> Seq(Queries)]
        /\ IsInjective(order) /\ Len(order) <= MaxCache
        /\ Range(order) = {x \in DOMAIN cache : x.coordinator = k} \ {q}
    BY WithoutFacts
  <1>2. /\ cache' = [x \in (DOMAIN cache \ evicted) \cup {q} |-> IF x = q THEN cacheTime ELSE cache[x]]
        /\ cacheOrder' = [cacheOrder EXCEPT ![k] = Append(kept, q)]
    BY DEF SetCache
  <1>3. order \in Seq(Queries) /\ Len(order) \in Nat /\ MaxCache \in Nat \ {0}
    <2>1. order \in Seq(Queries)
      BY <1>1
    <2>. HIDE DEF order
    <2>. QED  BY <2>1, CoordinatorAssumption
  <1>. HIDE DEF order
  <1>4. /\ kept \in Seq(Queries) /\ IsInjective(kept) /\ Range(kept) \subseteq Range(order)
        /\ Len(kept) + 1 <= MaxCache
    <2>1. CASE Len(order) < MaxCache
      BY <1>1, <1>3, <2>1
    <2>2. CASE ~(Len(order) < MaxCache)
      <3>. DEFINE m == Len(order) - MaxCache + 2
                  u == SubSeq(order, m, Len(order))
      <3>1. m \in 1 .. Len(order) + 1 /\ Len(order) = MaxCache
        BY <1>1, <1>3, <2>2
      <3>2. kept = u
        BY <2>2
      <3>3. u \in Seq(Queries) /\ IsInjective(u) /\ Range(u) \subseteq Range(order) /\ Len(u) = Len(order) - m + 1
        <4>. HIDE DEF m
        <4>. QED  BY <1>1, <1>3, <3>1, OldestCut
      <3>. HIDE DEF u
      <3>4. Len(u) + 1 <= MaxCache
        BY <1>3, <3>1, <3>3
      <3>. HIDE DEF kept
      <3>. QED  BY <3>2, <3>3, <3>4
    <2>. QED  BY <2>1, <2>2
  <1>. HIDE DEF kept
  <1>5. q \notin Range(kept)
    BY <1>1, <1>4
  <1>6. /\ Append(kept, q) \in Seq(Queries) /\ IsInjective(Append(kept, q))
        /\ Range(Append(kept, q)) = Range(kept) \cup {q} /\ Len(Append(kept, q)) = Len(kept) + 1
    BY <1>4, <1>5, NewestLast
  <1>7. /\ cacheOrder' \in [Coordinators -> Seq(Queries)] /\ cacheOrder'[k] = Append(kept, q)
        /\ \A l \in Coordinators : l # k => cacheOrder'[l] = cacheOrder[l]
    BY <1>1, <1>2, <1>6 DEF CoordinatorTypeOK
  <1>8. DOMAIN cache' = (DOMAIN cache \ evicted) \cup {q}
    BY <1>2
  <1>9. \A x \in evicted : x \in DOMAIN cache /\ x.coordinator = k /\ x # q /\ x \notin Range(kept)
    BY <1>1
  <1>10. \A x \in Range(kept) : x \in DOMAIN cache /\ x.coordinator = k /\ x \notin evicted
    BY <1>1, <1>4
  <1>11. \A x \in DOMAIN cache : x.coordinator = k /\ x # q /\ x \notin evicted => x \in Range(kept)
    BY <1>1
  <1>. HIDE DEF evicted
  <1>12. Range(cacheOrder'[k]) = {x \in DOMAIN cache' : x.coordinator = k}
    BY <1>6, <1>7, <1>8, <1>10, <1>11
  <1>13. ASSUME NEW l \in Coordinators
         PROVE  /\ IsInjective(cacheOrder'[l])
                /\ Range(cacheOrder'[l]) = {x \in DOMAIN cache' : x.coordinator = l}
                /\ Len(cacheOrder'[l]) <= MaxCache
    <2>1. CASE l = k
      BY <1>4, <1>6, <1>7, <1>12, <2>1
    <2>2. CASE l # k
      <3>1. /\ IsInjective(cacheOrder[l]) /\ Len(cacheOrder[l]) <= MaxCache
            /\ Range(cacheOrder[l]) = {x \in DOMAIN cache : x.coordinator = l}
        BY DEF OrderExact
      <3>2. {x \in DOMAIN cache' : x.coordinator = l} = {x \in DOMAIN cache : x.coordinator = l}
        BY <1>8, <1>9, <2>2
      <3>. QED  BY <1>7, <2>2, <3>1, <3>2
    <2>. QED  BY <2>1, <2>2
  <1>14. OrderExact'
    BY <1>13 DEF OrderExact, IsInjective, Range
  <1>15. DOMAIN cache' \subseteq Queries
    BY <1>8 DEF CoordinatorTypeOK
  <1>. QED  BY <1>7, <1>14, <1>15

-----------------------------------------------------------------------------
(* No call has begun: the caches and the flights are empty.                *)
LEMMA CoordinatorInitial == CoordinatorInit => CoordinatorInv
  <1>. SUFFICES ASSUME CoordinatorInit PROVE CoordinatorInv
    OBVIOUS
  <1>1. \A c \in Callers : caller[c].at = "idle" /\ caller[c].result = "none"
    <2>. DEFINE first == CHOOSE q \in Queries : TRUE
    <2>1. caller = [c \in Callers |-> [at |-> "idle", query |-> first, leader |-> c, attempt |-> 0,
                                       cancelled |-> FALSE, result |-> "none"]]
      BY DEF CoordinatorInit
    <2>. HIDE DEF first
    <2>. QED  BY <2>1
  <1>2. \A c \in Callers : ~flight[c].done /\ flight[c].err = "none"
    BY DEF CoordinatorInit
  <1>3. caller \in [Callers -> CallerRecords]
    BY DEF CoordinatorInit, CallerRecords, Asked
  <1>4. flight \in [Callers -> FlightRecords]
    BY DEF CoordinatorInit, FlightRecords
  <1>5. /\ cacheOrder \in [Coordinators -> Seq(Queries)] /\ \A k \in Coordinators : cacheOrder[k] = <<>>
        /\ DOMAIN cache = {} /\ DOMAIN inFlight = {} /\ gateActive = 0
    BY DEF CoordinatorInit
  <1>6. CoordinatorTypeOK
    BY <1>1, <1>3, <1>4, <1>5 DEF CoordinatorTypeOK
  <1>7. Running = {}
    BY <1>1 DEF Running
  <1>8. GateCounts
    BY <1>5, <1>7, FS_EmptySet, CoordinatorAssumption DEF GateCounts
  <1>9. FlightsLed
    BY <1>5, <1>7 DEF FlightsLed
  <1>10. OrderExact
    <2>1. DOMAIN <<>> = {} /\ Len(<<>>) = 0
      OBVIOUS
    <2>2. IsInjective(<<>>) /\ Range(<<>>) = {}
      BY <2>1 DEF IsInjective, Range
    <2>3. Len(<<>>) <= MaxCache
      BY <2>1, CoordinatorAssumption
    <2>. QED  BY <1>5, <2>2, <2>3 DEF OrderExact
  <1>11. CancellationsTold
    BY <1>1, <1>2 DEF CancellationsTold
  <1>. QED  BY <1>6, <1>8, <1>9, <1>10, <1>11 DEF CoordinatorInv

(* A call that returns.                                                    *)
LEMMA ReturnFacts ==
    ASSUME caller \in [Callers -> CallerRecords], NEW c \in Callers,
           NEW result \in {"value", "failed", "cancelled", "capacity", "leader_canceled"}, Return(c, result)
    PROVE  /\ caller' \in [Callers -> CallerRecords]
           /\ \A d \in Callers \ {c} : caller'[d] = caller[d]
           /\ caller'[c].at = "returned" /\ caller'[c].result = result
           /\ caller'[c].cancelled = caller[c].cancelled /\ caller'[c].query = caller[c].query
  <1>1. caller' = [caller EXCEPT ![c] = [caller[c] EXCEPT !.at = "returned", !.result = result]]
    BY DEF Return
  <1>2. [caller[c] EXCEPT !.at = "returned", !.result = result] \in CallerRecords
    <2>1. caller[c] \in CallerRecords
      OBVIOUS
    <2>2. result \in {"none", "value", "failed", "cancelled", "capacity", "leader_canceled"}
      OBVIOUS
    <2>. QED  BY <2>1, <2>2 DEF CallerRecords
  <1>3. caller' \in [Callers -> CallerRecords] /\ \A d \in Callers \ {c} : caller'[d] = caller[d]
    BY <1>1, <1>2
  <1>4. caller'[c] = [caller[c] EXCEPT !.at = "returned", !.result = result]
    BY <1>1
  <1>5. /\ caller'[c].at = "returned" /\ caller'[c].result = result
        /\ caller'[c].cancelled = caller[c].cancelled /\ caller'[c].query = caller[c].query
    BY <1>4 DEF CallerRecords
  <1>. QED  BY <1>3, <1>5

(* A step of one caller that neither begins nor ends a query.              *)
LEMMA CallerMoves ==
    ASSUME CoordinatorInv, NEW c \in Callers,
           caller' \in [Callers -> CallerRecords],
           \A d \in Callers \ {c} : caller'[d] = caller[d],
           caller'[c].at \in {"running", "update"} <=> caller[c].at \in {"running", "update"},
           caller[c].at \in {"running", "update"} => caller'[c].query = caller[c].query,
           caller'[c].query \in Queries,
           caller[c].cancelled => caller'[c].cancelled,
           flight[c].done => caller'[c].at = "returned",
           caller'[c].result = "cancelled" => caller'[c].cancelled,
           gateActive' = gateActive, inFlight' = inFlight, flight' = flight,
           OrderExact', cacheOrder' \in [Coordinators -> Seq(Queries)], DOMAIN cache' \subseteq Queries
    PROVE  CoordinatorInv'
  <1>1. CoordinatorTypeOK'
    BY DEF CoordinatorInv, CoordinatorTypeOK
  <1>2. Running' = Running /\ \A d \in Running : QueryOf(d)' = QueryOf(d)
    BY DEF Running, QueryOf
  <1>3. GateCounts'
    BY <1>2 DEF CoordinatorInv, GateCounts
  <1>4. FlightsLed'
    <2>1. \A q \in DOMAIN inFlight : inFlight[q] \in Running /\ QueryOf(inFlight[q]) = q
      BY DEF CoordinatorInv, FlightsLed
    <2>2. \A d \in Running : QueryOf(d) \in DOMAIN inFlight /\ inFlight[QueryOf(d)] = d
      BY DEF CoordinatorInv, FlightsLed
    <2>3. \A q \in DOMAIN inFlight : QueryOf(inFlight[q])' = q
      BY <2>1 DEF QueryOf, Running
    <2>. QED  BY <1>2, <2>1, <2>2, <2>3 DEF FlightsLed
  <1>5. CancellationsTold'
    BY DEF CoordinatorInv, CancellationsTold
  <1>. QED  BY <1>1, <1>3, <1>4, <1>5 DEF CoordinatorInv

(* Steps that leave the caches alone.                                      *)
LEMMA CacheKept ==
    ASSUME CoordinatorInv, cache' = cache, cacheOrder' = cacheOrder
    PROVE  OrderExact' /\ cacheOrder' \in [Coordinators -> Seq(Queries)] /\ DOMAIN cache' \subseteq Queries
  BY DEF CoordinatorInv, OrderExact, CoordinatorTypeOK, IsInjective, Range

(* A call begins: it holds no place of the gate.                           *)
LEMMA BeginDoStep ==
    ASSUME CoordinatorInv, NEW c \in Callers, NEW q \in Queries, BeginDo(c, q)
    PROVE  CoordinatorInv'
  <1>1. /\ caller[c].at = "idle" /\ caller' = [caller EXCEPT ![c].at = "attempt", ![c].query = q]
        /\ UNCHANGED <<gateActive, cache, cacheOrder, inFlight, flight>>
    BY DEF BeginDo, CallerAt
  <1>2. caller \in [Callers -> CallerRecords] /\ (caller[c].result = "cancelled" => caller[c].cancelled)
        /\ ~flight[c].done
    BY <1>1 DEF CoordinatorInv, CoordinatorTypeOK, CancellationsTold
  <1>3. /\ caller' \in [Callers -> CallerRecords] /\ \A d \in Callers \ {c} : caller'[d] = caller[d]
        /\ caller'[c].at = "attempt" /\ caller'[c].query = q /\ caller'[c].result = caller[c].result
        /\ caller'[c].cancelled = caller[c].cancelled
    BY <1>1, <1>2 DEF CallerRecords, Asked
  <1>. QED  BY <1>1, <1>2, <1>3, CallerMoves, CacheKept

(* A caller is cancelled; its flight goes on.                              *)
LEMMA CancelCallerStep ==
    ASSUME CoordinatorInv, NEW c \in Callers, CancelCaller(c)
    PROVE  CoordinatorInv'
  <1>1. /\ caller[c].at \in {"attempt", "waiting", "running", "update"}
        /\ caller' = [caller EXCEPT ![c].cancelled = TRUE]
        /\ UNCHANGED <<gateActive, cache, cacheOrder, inFlight, flight>>
    BY DEF CancelCaller
  <1>2. caller \in [Callers -> CallerRecords] /\ caller[c].query \in Queries /\ ~flight[c].done
    BY <1>1 DEF CoordinatorInv, CoordinatorTypeOK, CancellationsTold
  <1>3. /\ caller' \in [Callers -> CallerRecords] /\ \A d \in Callers \ {c} : caller'[d] = caller[d]
        /\ caller'[c].at = caller[c].at /\ caller'[c].query = caller[c].query
        /\ caller'[c].cancelled
    BY <1>1, <1>2 DEF CallerRecords
  <1>. QED  BY <1>1, <1>2, <1>3, CallerMoves, CacheKept

(* A call that returns without having led a query that is still running.   *)
LEMMA ReturnStep ==
    ASSUME CoordinatorInv, NEW c \in Callers, caller[c].at \in {"attempt", "waiting"},
           NEW result \in {"value", "failed", "cancelled", "capacity", "leader_canceled"}, Return(c, result),
           result = "cancelled" => caller[c].cancelled,
           gateActive' = gateActive, inFlight' = inFlight, flight' = flight,
           OrderExact', cacheOrder' \in [Coordinators -> Seq(Queries)], DOMAIN cache' \subseteq Queries
    PROVE  CoordinatorInv'
  <1>1. caller \in [Callers -> CallerRecords] /\ caller[c].query \in Queries
    BY DEF CoordinatorInv, CoordinatorTypeOK
  <1>2. /\ caller' \in [Callers -> CallerRecords] /\ \A d \in Callers \ {c} : caller'[d] = caller[d]
        /\ caller'[c].at = "returned" /\ caller'[c].result = result
        /\ caller'[c].cancelled = caller[c].cancelled /\ caller'[c].query = caller[c].query
    BY <1>1, ReturnFacts
  <1>. QED  BY <1>1, <1>2, CallerMoves

(* An attempt that gives up returns and leaves the flights alone.          *)
LEMMA AttemptGivesUpStep ==
    ASSUME CoordinatorInv, NEW c \in Callers, AttemptGivesUp(c)
    PROVE  CoordinatorInv'
  <1>. DEFINE result == IF caller[c].attempt >= MaxDoAttempts THEN "leader_canceled" ELSE "cancelled"
  <1>1. /\ caller[c].at = "attempt" /\ Return(c, result)
        /\ UNCHANGED <<gateActive, cache, cacheOrder, inFlight, flight>>
    BY DEF AttemptGivesUp, CallerAt
  <1>2. result \in {"cancelled", "leader_canceled"} /\ (result = "cancelled" => caller[c].cancelled)
    BY DEF AttemptGivesUp, Gives
  <1>. HIDE DEF result
  <1>. QED  BY <1>1, <1>2, CacheKept, ReturnStep

(* A hit moves its query to the newest place of the order and joins no     *)
(* flight.                                                                 *)
LEMMA AttemptHitStep ==
    ASSUME CoordinatorInv, NEW c \in Callers, AttemptHit(c)
    PROVE  CoordinatorInv'
  <1>. DEFINE q == QueryOf(c)
  <1>1. /\ caller[c].at = "attempt" /\ Return(c, "value") /\ q \in DOMAIN cache
        /\ cacheOrder' = [OrderWithout(q) EXCEPT ![q.coordinator] = Append(@, q)]
        /\ UNCHANGED <<gateActive, cache, inFlight, flight>>
    BY DEF AttemptHit, CallerAt, CacheHit
  <1>2. CoordinatorTypeOK /\ OrderExact /\ q \in Queries /\ DOMAIN cache \subseteq Queries
    BY <1>1 DEF CoordinatorInv, CoordinatorTypeOK, QueryOf
  <1>. HIDE DEF q
  <1>3. cacheOrder' \in [Coordinators -> Seq(Queries)] /\ OrderExact'
    BY <1>1, <1>2, HitOrder
  <1>. QED  BY <1>1, <1>2, <1>3, ReturnStep

(* A waiter whose flight is done, or whose client went away.               *)
LEMMA WaitsStep ==
    ASSUME CoordinatorInv, NEW c \in Callers, Waits(c)
    PROVE  CoordinatorInv'
  <1>. DEFINE f == flight[caller[c].leader]
  <1>0. caller \in [Callers -> CallerRecords] /\ flight \in [Callers -> FlightRecords]
    BY DEF CoordinatorInv, CoordinatorTypeOK
  <1>1. caller[c].at = "waiting" /\ UNCHANGED <<gateActive, cache, cacheOrder, inFlight, flight>>
    BY DEF Waits, FlightDone, WaiterLeaves, CallerAt
  <1>2. caller[c].leader \in Callers /\ f.err \in {"none", "failed", "cancelled"}
    <2>1. caller[c].leader \in Callers
      BY <1>0 DEF CallerRecords
    <2>. QED  BY <1>0, <2>1 DEF FlightRecords
  <1>3. f.done /\ f.err = "cancelled" => f.leaderCanceled
    BY <1>2 DEF CoordinatorInv, CancellationsTold
  <1>4. caller[c].query \in Queries /\ ~flight[c].done
    BY <1>1 DEF CoordinatorInv, CoordinatorTypeOK, CancellationsTold
  <1>5. CASE FlightDone(c) /\ Retries(c)
    <2>1. caller' = [caller EXCEPT ![c].at = "attempt", ![c].attempt = @ + 1]
      BY <1>5 DEF FlightDone
    <2>2. /\ caller' \in [Callers -> CallerRecords] /\ \A d \in Callers \ {c} : caller'[d] = caller[d]
          /\ caller'[c].at = "attempt" /\ caller'[c].query = caller[c].query
          /\ caller'[c].result = caller[c].result /\ caller'[c].cancelled = caller[c].cancelled
      BY <1>0, <2>1 DEF CallerRecords
    <2>3. caller[c].result = "cancelled" => caller[c].cancelled
      BY DEF CoordinatorInv, CancellationsTold
    <2>. QED  BY <1>1, <1>4, <2>2, <2>3, CallerMoves, CacheKept
  <1>6. CASE FlightDone(c) /\ ~Retries(c)
    <2>. DEFINE result == IF f.err = "none" THEN "value" ELSE f.err
    <2>1. f.done /\ Return(c, result)
      BY <1>6 DEF FlightDone
    <2>2. f.err = "cancelled" => caller[c].cancelled
      BY <1>3, <1>6, <2>1 DEF Retries
    <2>3. result \in {"value", "failed", "cancelled"} /\ (result = "cancelled" => caller[c].cancelled)
      BY <1>2, <2>2
    <2>. HIDE DEF result
    <2>. QED  BY <1>1, <2>1, <2>3, CacheKept, ReturnStep
  <1>7. CASE WaiterLeaves(c)
    BY <1>1, <1>7, CacheKept, ReturnStep DEF WaiterLeaves
  <1>. QED  BY <1>5, <1>6, <1>7 DEF Waits

(* A miss joins a flight, is turned away, or leads a flight.               *)
LEMMA AttemptMissStep ==
    ASSUME CoordinatorInv, NEW c \in Callers, AttemptMiss(c)
    PROVE  CoordinatorInv'
  <1>. DEFINE q == QueryOf(c)
  <1>1. /\ caller[c].at = "attempt" /\ cache' = Removed(cache, q) /\ flight' = flight
        /\ cacheOrder' = IF q \in DOMAIN cache THEN OrderWithout(q) ELSE cacheOrder
    BY DEF AttemptMiss, CallerAt
  <1>2. /\ CoordinatorTypeOK /\ OrderExact /\ q \in Queries /\ q = caller[c].query
        /\ caller \in [Callers -> CallerRecords]
    BY <1>1 DEF CoordinatorInv, CoordinatorTypeOK, QueryOf
  <1>3. /\ cacheOrder' \in [Coordinators -> Seq(Queries)] /\ OrderExact'
        /\ DOMAIN cache' \subseteq Queries
    <2>. HIDE DEF q
    <2>. QED  BY <1>1, <1>2, MissOrder
  <1>4. ~flight[c].done /\ (caller[c].result = "cancelled" => caller[c].cancelled)
    BY <1>1 DEF CoordinatorInv, CancellationsTold
  <1>5. c \notin Running
    BY <1>1 DEF Running
  <1>6. CASE q \in DOMAIN inFlight
    <2>1. /\ caller' = [caller EXCEPT ![c].at = "waiting", ![c].leader = inFlight[q]]
          /\ gateActive' = gateActive /\ inFlight' = inFlight
      BY <1>6 DEF AttemptMiss
    <2>2. inFlight[q] \in Callers
      BY <1>6 DEF CoordinatorInv, FlightsLed, Running
    <2>3. /\ caller' \in [Callers -> CallerRecords] /\ \A d \in Callers \ {c} : caller'[d] = caller[d]
          /\ caller'[c].at = "waiting" /\ caller'[c].query = caller[c].query
          /\ caller'[c].result = caller[c].result /\ caller'[c].cancelled = caller[c].cancelled
      <3>. DEFINE leader == inFlight[q]
                  r == [caller[c] EXCEPT !.at = "waiting", !.leader = leader]
      <3>1. caller' = [caller EXCEPT ![c] = r]
        BY <2>1
      <3>. HIDE DEF leader
      <3>2. r \in CallerRecords
        <4>1. caller[c] \in CallerRecords
          BY <1>2
        <4>2. leader \in Callers
          BY <2>2 DEF leader
        <4>. QED  BY <4>1, <4>2 DEF CallerRecords
      <3>3. caller'[c] = r
        BY <1>2, <3>1
      <3>4. /\ r.at = "waiting" /\ r.query = caller[c].query /\ r.result = caller[c].result
            /\ r.cancelled = caller[c].cancelled
        BY <1>2 DEF CallerRecords
      <3>. HIDE DEF r
      <3>. QED  BY <1>2, <3>1, <3>2, <3>3, <3>4
    <2>. QED  BY <1>1, <1>2, <1>3, <1>4, <2>1, <2>3, CallerMoves
  <1>7. CASE q \notin DOMAIN inFlight /\ Return(c, "capacity") /\ gateActive' = gateActive /\ inFlight' = inFlight
    BY <1>1, <1>3, <1>7, ReturnStep
  <1>8. CASE /\ q \notin DOMAIN inFlight /\ gateActive < GateCapacity /\ gateActive' = gateActive + 1
             /\ inFlight' = [x \in DOMAIN inFlight \cup {q} |-> IF x = q THEN c ELSE inFlight[x]]
             /\ caller' = [caller EXCEPT ![c].at = "running"]
    <2>1. /\ caller' \in [Callers -> CallerRecords] /\ \A d \in Callers \ {c} : caller'[d] = caller[d]
          /\ caller'[c].at = "running" /\ caller'[c].query = caller[c].query
          /\ caller'[c].result = caller[c].result /\ caller'[c].cancelled = caller[c].cancelled
      BY <1>2, <1>8 DEF CallerRecords
    <2>2. /\ DOMAIN inFlight' = DOMAIN inFlight \cup {q} /\ inFlight'[q] = c
          /\ \A x \in DOMAIN inFlight : x # q /\ inFlight'[x] = inFlight[x]
      BY <1>8
    <2>3. Running' = Running \cup {c}
      BY <2>1 DEF Running
    <2>4. \A d \in Callers : QueryOf(d)' = QueryOf(d)
      BY <2>1 DEF QueryOf
    <2>5. CoordinatorTypeOK'
      BY <1>1, <1>2, <1>3, <2>1, <2>2 DEF CoordinatorTypeOK
    <2>6. GateCounts'
      <3>1. IsFiniteSet(Running) /\ gateActive = Cardinality(Running) /\ Cardinality(Running) \in Nat
        BY FS_CardinalityType DEF CoordinatorInv, GateCounts
      <3>2. IsFiniteSet(Running \cup {c}) /\ Cardinality(Running \cup {c}) = Cardinality(Running) + 1
        BY <1>5, <3>1, FS_AddElement
      <3>3. gateActive + 1 <= GateCapacity
        BY <1>8, <3>1, CoordinatorAssumption
      <3>. QED  BY <1>8, <2>3, <3>1, <3>2, <3>3 DEF GateCounts
    <2>7. FlightsLed'
      <3>1. \A x \in DOMAIN inFlight : inFlight[x] \in Running /\ QueryOf(inFlight[x]) = x
        BY DEF CoordinatorInv, FlightsLed
      <3>2. \A d \in Running : d \in Callers /\ QueryOf(d) \in DOMAIN inFlight /\ inFlight[QueryOf(d)] = d
        BY DEF CoordinatorInv, FlightsLed, Running
      <3>3. ASSUME NEW x \in DOMAIN inFlight'
            PROVE  inFlight'[x] \in Running' /\ caller'[inFlight'[x]].query = x
        <4>1. CASE x = q
          <5>1. inFlight'[x] = c /\ caller'[c].query = x
            BY <1>2, <2>1, <2>2, <4>1
          <5>. QED  BY <2>3, <5>1
        <4>2. CASE x # q
          <5>1. x \in DOMAIN inFlight /\ inFlight'[x] = inFlight[x] /\ inFlight[x] \in Callers /\ inFlight[x] # c
            BY <1>5, <2>2, <3>1, <3>3, <4>2 DEF Running
          <5>2. caller'[inFlight[x]].query = QueryOf(inFlight[x])
            BY <2>1, <5>1 DEF QueryOf
          <5>. QED  BY <2>3, <3>1, <5>1, <5>2
        <4>. QED  BY <4>1, <4>2
      <3>4. ASSUME NEW d \in Running'
            PROVE  caller'[d].query \in DOMAIN inFlight' /\ inFlight'[caller'[d].query] = d
        <4>1. CASE d = c
          BY <1>2, <2>1, <2>2, <4>1
        <4>2. CASE d # c
          <5>1. d \in Running
            BY <2>3, <4>2
          <5>2. caller'[d].query = QueryOf(d)
            BY <2>1, <3>2, <4>2, <5>1 DEF QueryOf
          <5>. QED  BY <2>2, <3>2, <5>1, <5>2
        <4>. QED  BY <4>1, <4>2
      <3>. QED  BY <3>3, <3>4 DEF FlightsLed, QueryOf
    <2>8. CancellationsTold'
      BY <1>1, <1>4, <2>1 DEF CoordinatorInv, CancellationsTold
    <2>. QED  BY <1>3, <2>5, <2>6, <2>7, <2>8 DEF CoordinatorInv
  <1>. QED  BY <1>6, <1>7, <1>8 DEF AttemptMiss

(* The aggregation returns.                                                *)
LEMMA QueryReturnsStep ==
    ASSUME CoordinatorInv, NEW c \in Callers, NEW err \in {"none", "failed", "cancelled"}, QueryReturns(c, err)
    PROVE  CoordinatorInv'
  <1>1. /\ caller[c].at = "running" /\ (err = "cancelled" => caller[c].cancelled)
        /\ flight' = [flight EXCEPT ![c].err = err]
        /\ caller' = [caller EXCEPT ![c].at = "update"]
        /\ UNCHANGED <<gateActive, cache, cacheOrder, inFlight>>
    BY DEF QueryReturns, CallerAt
  <1>2. caller \in [Callers -> CallerRecords] /\ flight \in [Callers -> FlightRecords]
    BY DEF CoordinatorInv, CoordinatorTypeOK
  <1>3. /\ caller' \in [Callers -> CallerRecords] /\ \A d \in Callers \ {c} : caller'[d] = caller[d]
        /\ caller'[c].at = "update" /\ caller'[c].query = caller[c].query
        /\ caller'[c].result = caller[c].result /\ caller'[c].cancelled = caller[c].cancelled
    BY <1>1, <1>2 DEF CallerRecords
  <1>4. /\ flight' \in [Callers -> FlightRecords] /\ \A d \in Callers \ {c} : flight'[d] = flight[d]
        /\ flight'[c].err = err /\ flight'[c].done = flight[c].done
    BY <1>1, <1>2 DEF FlightRecords
  <1>5. Running' = Running
    BY <1>1, <1>3 DEF Running
  <1>6. \A d \in Callers : QueryOf(d)' = QueryOf(d)
    BY <1>3 DEF QueryOf
  <1>7. CoordinatorTypeOK'
    BY <1>1, <1>3, <1>4 DEF CoordinatorInv, CoordinatorTypeOK
  <1>8. GateCounts'
    BY <1>1, <1>5 DEF CoordinatorInv, GateCounts
  <1>9. FlightsLed'
    <2>1. \A x \in DOMAIN inFlight : inFlight[x] \in Running /\ inFlight[x] \in Callers /\ QueryOf(inFlight[x]) = x
      BY DEF CoordinatorInv, FlightsLed, Running
    <2>2. \A d \in Running : d \in Callers /\ QueryOf(d) \in DOMAIN inFlight /\ inFlight[QueryOf(d)] = d
      BY DEF CoordinatorInv, FlightsLed, Running
    <2>3. \A x \in DOMAIN inFlight : QueryOf(inFlight[x])' = x
      BY <1>1, <1>3, <2>1 DEF QueryOf
    <2>. QED  BY <1>1, <1>5, <1>6, <2>1, <2>2, <2>3 DEF FlightsLed
  <1>10. CancellationsTold'
    <2>1. ~flight[c].done /\ (caller[c].result = "cancelled" => caller[c].cancelled)
      BY <1>1 DEF CoordinatorInv, CancellationsTold
    <2>. QED  BY <1>1, <1>3, <1>4, <2>1 DEF CoordinatorInv, CancellationsTold
  <1>. QED  BY <1>1, <1>7, <1>8, <1>9, <1>10, CacheKept DEF CoordinatorInv

(* The leader gives up its place, its flight and its result.               *)
LEMMA UpdateStep ==
    ASSUME CoordinatorInv, NEW c \in Callers, Update(c)
    PROVE  CoordinatorInv'
  <1>. DEFINE q == QueryOf(c)
              result == IF flight[c].err = "none" THEN "value" ELSE flight[c].err
  <1>1. /\ caller[c].at = "update" /\ gateActive' = Released(c) /\ inFlight' = Removed(inFlight, q)
        /\ flight' = [flight EXCEPT ![c].done = TRUE, ![c].leaderCanceled = LeaderCanceled(c)]
        /\ Return(c, result)
    BY DEF Update, CallerAt
  <1>2. /\ CoordinatorTypeOK /\ OrderExact /\ q \in Queries /\ q = caller[c].query
        /\ caller \in [Callers -> CallerRecords] /\ flight \in [Callers -> FlightRecords]
    BY <1>1 DEF CoordinatorInv, CoordinatorTypeOK, QueryOf
  <1>3. /\ cacheOrder' \in [Coordinators -> Seq(Queries)] /\ OrderExact'
        /\ DOMAIN cache' \subseteq Queries
    <2>1. SetCache(q) \/ (cache' = cache /\ cacheOrder' = cacheOrder)
      BY DEF Update
    <2>. HIDE DEF q
    <2>. QED  BY <1>2, <2>1, SetCacheOrder, CacheKept
  <1>4. flight[c].err \in {"none", "failed", "cancelled"} /\ caller[c].cancelled \in BOOLEAN
    BY <1>2 DEF FlightRecords, CallerRecords
  <1>5. result \in {"value", "failed", "cancelled"} /\ (result = "cancelled" => caller[c].cancelled)
        /\ (flight[c].err = "cancelled" => caller[c].cancelled)
    BY <1>4 DEF CoordinatorInv, CancellationsTold
  <1>. HIDE DEF result
  <1>6. /\ caller' \in [Callers -> CallerRecords] /\ \A d \in Callers \ {c} : caller'[d] = caller[d]
        /\ caller'[c].at = "returned" /\ caller'[c].result = result
        /\ caller'[c].cancelled = caller[c].cancelled /\ caller'[c].query = caller[c].query
    BY <1>1, <1>2, <1>5, ReturnFacts
  <1>7. /\ flight' \in [Callers -> FlightRecords] /\ \A d \in Callers \ {c} : flight'[d] = flight[d]
        /\ flight'[c].err = flight[c].err /\ flight'[c].leaderCanceled = caller[c].cancelled
    <2>1. flight' = [flight EXCEPT ![c] = [flight[c] EXCEPT !.done = TRUE, !.leaderCanceled = caller[c].cancelled]]
      BY <1>1 DEF LeaderCanceled
    <2>2. [flight[c] EXCEPT !.done = TRUE, !.leaderCanceled = caller[c].cancelled] \in FlightRecords
      BY <1>2, <1>4 DEF FlightRecords
    <2>3. flight'[c] = [flight[c] EXCEPT !.done = TRUE, !.leaderCanceled = caller[c].cancelled]
      BY <1>2, <2>1
    <2>4. flight'[c].err = flight[c].err /\ flight'[c].leaderCanceled = caller[c].cancelled
      BY <1>2, <2>3 DEF FlightRecords
    <2>. QED  BY <1>2, <2>1, <2>2, <2>4
  <1>8. c \in Running /\ Running' = Running \ {c}
    BY <1>1, <1>6 DEF Running
  <1>9. \A d \in Callers : QueryOf(d)' = QueryOf(d)
    BY <1>6 DEF QueryOf
  <1>10. /\ DOMAIN inFlight' = DOMAIN inFlight \ {q}
         /\ \A x \in DOMAIN inFlight' : inFlight'[x] = inFlight[x]
    BY <1>1 DEF Removed
  <1>11. CoordinatorTypeOK'
    BY <1>2, <1>3, <1>6, <1>7, <1>10 DEF CoordinatorTypeOK
  <1>12. GateCounts'
    <2>1. /\ IsFiniteSet(Running) /\ gateActive = Cardinality(Running) /\ Cardinality(Running) \in Nat
          /\ gateActive <= GateCapacity
      BY FS_CardinalityType DEF CoordinatorInv, GateCounts
    <2>2. IsFiniteSet(Running \ {c}) /\ Cardinality(Running \ {c}) = Cardinality(Running) - 1
      BY <1>8, <2>1, FS_RemoveElement
    <2>3. Cardinality(Running \ {c}) \in Nat
      BY <2>2, FS_CardinalityType
    <2>4. gateActive' = gateActive - 1
      BY <1>1, <2>1, <2>2, <2>3 DEF Released
    <2>5. gateActive - 1 <= GateCapacity
      BY <2>1, CoordinatorAssumption
    <2>. QED  BY <1>8, <2>1, <2>2, <2>4, <2>5 DEF GateCounts
  <1>13. FlightsLed'
    <2>1. \A x \in DOMAIN inFlight : inFlight[x] \in Running /\ inFlight[x] \in Callers /\ QueryOf(inFlight[x]) = x
      BY DEF CoordinatorInv, FlightsLed, Running
    <2>2. \A d \in Running : d \in Callers /\ QueryOf(d) \in DOMAIN inFlight /\ inFlight[QueryOf(d)] = d
      BY DEF CoordinatorInv, FlightsLed, Running
    <2>3. ASSUME NEW x \in DOMAIN inFlight'
          PROVE  inFlight'[x] \in Running' /\ caller'[inFlight'[x]].query = x
      <3>1. x \in DOMAIN inFlight /\ x # q /\ inFlight'[x] = inFlight[x]
        BY <1>10
      <3>2. inFlight[x] # c
        BY <2>1, <3>1
      <3>3. caller'[inFlight[x]].query = QueryOf(inFlight[x])
        BY <1>6, <2>1, <3>1, <3>2 DEF QueryOf
      <3>. QED  BY <1>8, <2>1, <3>1, <3>2, <3>3
    <2>4. ASSUME NEW d \in Running'
          PROVE  caller'[d].query \in DOMAIN inFlight' /\ inFlight'[caller'[d].query] = d
      <3>1. d \in Running /\ d # c
        BY <1>8
      <3>2. caller'[d].query = QueryOf(d)
        BY <1>6, <2>2, <3>1 DEF QueryOf
      <3>3. QueryOf(d) # q
        BY <1>8, <2>2, <3>1
      <3>. QED  BY <1>10, <2>2, <3>1, <3>2, <3>3
    <2>. QED  BY <2>3, <2>4 DEF FlightsLed, QueryOf
  <1>14. CancellationsTold'
    BY <1>5, <1>6, <1>7 DEF CoordinatorInv, CancellationsTold
  <1>. QED  BY <1>3, <1>11, <1>12, <1>13, <1>14 DEF CoordinatorInv

(* Every step of AnalyticsCoordinator preserves the invariant.             *)
LEMMA CoordinatorStep == CoordinatorInv /\ [CoordinatorNext]_coordinatorVars => CoordinatorInv'
  <1>. SUFFICES ASSUME CoordinatorInv, [CoordinatorNext]_coordinatorVars PROVE CoordinatorInv'
    OBVIOUS
  <1>1. CASE UNCHANGED coordinatorVars \/ CacheTick
    <2>1. UNCHANGED <<gateActive, cache, cacheOrder, inFlight, flight, caller>>
      BY <1>1 DEF coordinatorVars, CacheTick
    <2>2. CoordinatorTypeOK' /\ Running' = Running
      BY <2>1 DEF CoordinatorInv, CoordinatorTypeOK, Running
    <2>3. GateCounts' /\ CancellationsTold'
      BY <2>1, <2>2 DEF CoordinatorInv, GateCounts, CancellationsTold
    <2>4. FlightsLed'
      BY <2>1, <2>2 DEF CoordinatorInv, FlightsLed, QueryOf
    <2>. QED  BY <2>1, <2>2, <2>3, <2>4, CacheKept DEF CoordinatorInv
  <1>2. ASSUME NEW c \in Callers, NEW q \in Queries, BeginDo(c, q) PROVE CoordinatorInv'
    BY <1>2, BeginDoStep
  <1>3. ASSUME NEW c \in Callers, CancelCaller(c) PROVE CoordinatorInv'
    BY <1>3, CancelCallerStep
  <1>4. ASSUME NEW c \in Callers, Attempt(c) PROVE CoordinatorInv'
    BY <1>4, AttemptGivesUpStep, AttemptHitStep, AttemptMissStep DEF Attempt
  <1>5. ASSUME NEW c \in Callers, Leads(c) PROVE CoordinatorInv'
    BY <1>5, UpdateStep, QueryReturnsStep DEF Leads
  <1>6. ASSUME NEW c \in Callers, Waits(c) PROVE CoordinatorInv'
    BY <1>6, WaitsStep
  <1>. QED  BY <1>1, <1>2, <1>3, <1>4, <1>5, <1>6 DEF CoordinatorNext

(***************************************************************************)
(* The invariant of the coordinators: the gate counts the leaders, a       *)
(* flight and its leader know each other, the order lists the cache once,  *)
(* and a cancelled flight is marked as such before its waiters wake.       *)
(***************************************************************************)
THEOREM CoordinatorInvariant == CoordinatorSpec => []CoordinatorInv
  BY CoordinatorInitial, CoordinatorStep, PTL DEF CoordinatorSpec

(***************************************************************************)
(* For any number of callers, queries and coordinators the gate counts     *)
(* exactly the running queries, no query runs twice at a time, and the     *)
(* cache and its LRU order agree and stay within maxCache (Gate, Do,       *)
(* setCache, touch).                                                       *)
(***************************************************************************)
THEOREM GateHolds == CoordinatorSpec => []GateExact
  <1>1. ASSUME CoordinatorInv PROVE GateExact
    <2>1. gateActive = Cardinality(Running) /\ gateActive <= GateCapacity
      BY <1>1 DEF CoordinatorInv, GateCounts
    <2>2. /\ \A q \in DOMAIN inFlight : inFlight[q] \in Running /\ QueryOf(inFlight[q]) = q
          /\ \A c, d \in Running : QueryOf(c) = QueryOf(d) => c = d
      BY <1>1 DEF CoordinatorInv, FlightsLed
    <2>3. ASSUME NEW k \in Coordinators
          PROVE  /\ Range(cacheOrder[k]) = {q \in DOMAIN cache : q.coordinator = k}
                 /\ Len(cacheOrder[k]) = Cardinality(Range(cacheOrder[k]))
                 /\ Len(cacheOrder[k]) <= MaxCache
      <3>1. cacheOrder[k] \in Seq(Queries) /\ IsInjective(cacheOrder[k])
        BY <1>1 DEF CoordinatorInv, CoordinatorTypeOK, OrderExact
      <3>2. Cardinality(Range(cacheOrder[k])) = Len(cacheOrder[k])
        BY <3>1, InjectiveLength
      <3>. QED  BY <1>1, <3>2 DEF CoordinatorInv, OrderExact
    <2>. QED  BY <2>1, <2>2, <2>3 DEF GateExact
  <1>. QED  BY <1>1, CoordinatorInvariant, PTL

(***************************************************************************)
(* A caller of Do gets the error of a cancelled context only when its own  *)
(* context was cancelled: the leader marks its flight before close(done),  *)
(* and a waiter that is still wanted retries.                              *)
(***************************************************************************)
THEOREM OnlyOwnCancellation == CoordinatorSpec => []OwnCancellationOnly
  <1>1. CoordinatorInv => OwnCancellationOnly
    BY DEF CoordinatorInv, CancellationsTold, OwnCancellationOnly
  <1>. QED  BY <1>1, CoordinatorInvariant, PTL

-----------------------------------------------------------------------------
(***************************************************************************)
(* The admin sessions.  An address is locked at a failure, and attempts    *)
(* that were let in before go on to fail: LockoutBound is carried by the   *)
(* rounds of lockouts an entry has been through (RoundOf), each of which   *)
(* lets every browser in once more, and a round lasts LockoutDuration of   *)
(* the Window in which the entry lives.                                    *)
(***************************************************************************)
BrowserRecords ==
    [at : {"idle", "credential", "rotate", "create", "csrf", "accepted", "revoke"},
     cookie : Nat, address : Addresses \cup {NoCookie}]
SessionRecords == [created : Nat, last : Nat]
FailureRecords == [count : Nat, first : Nat, last : Nat, lockedUntil : Nat]

BrowsersOK ==
    /\ browser \in [Browsers -> BrowserRecords]
    /\ \A b \in Browsers : browser[b].cookie <= logins

\* A stored session was not revoked and has the age of its login.
StoreExact ==
    /\ sessionClock \in Nat /\ logins \in Nat
    /\ born \in [SessionIDs -> Nat]
    /\ revoked \subseteq 1 .. logins
    /\ IsFiniteSet(DOMAIN sessions) /\ Cardinality(DOMAIN sessions) <= MaxSessions
    /\ \A id \in DOMAIN sessions :
            /\ id \in 1 .. logins /\ id \in SessionIDs /\ id \notin revoked
            /\ sessions[id] \in SessionRecords /\ sessions[id].created = born[id]

\* The attempts of an address that were admitted and not yet judged.
Attempting(a) == {b \in Browsers : browser[b].at = "credential" /\ browser[b].address = a}
Admitted(k) == LockingCount - 1 + k * Cardinality(Browsers)

\* In its k-th round an address has at most k failures for each browser over
\* the limit; while it is locked that includes the attempts in flight.
RoundOf(a, k) ==
    LET e == failures[a] IN
    /\ (k - 1) * LockoutDuration <= Window
    /\ e.first + k * LockoutDuration <= e.lockedUntil
    /\ e.count <= Admitted(k)
    /\ sessionClock < e.lockedUntil => e.count + Cardinality(Attempting(a)) <= Admitted(k)

FailuresExact ==
    /\ IsFiniteSet(DOMAIN failures) /\ Cardinality(DOMAIN failures) <= MaxTrackedIPs
    /\ \A a \in DOMAIN failures :
            /\ failures[a] \in FailureRecords
            /\ failures[a].first <= sessionClock
            /\ failures[a].lockedUntil <= sessionClock + LockoutDuration
            /\ failures[a].count >= LockingCount => \E k \in Nat \ {0} : RoundOf(a, k)

SessionInv == BrowsersOK /\ StoreExact /\ FailuresExact

-----------------------------------------------------------------------------
(* No session exists and no failure is remembered.                         *)
LEMMA SessionInitial == SessionInit => SessionInv
  <1>. SUFFICES ASSUME SessionInit PROVE SessionInv
    OBVIOUS
  <1>1. \A b \in Browsers : browser[b] = [at |-> "idle", cookie |-> 0, address |-> 0]
    BY DEF SessionInit, Idle, NoCookie
  <1>2. browser \in [Browsers -> BrowserRecords]
    BY DEF SessionInit, Idle, NoCookie, BrowserRecords
  <1>3. BrowsersOK
    BY <1>1, <1>2 DEF BrowsersOK, SessionInit
  <1>4. DOMAIN sessions = {} /\ DOMAIN failures = {}
    BY DEF SessionInit
  <1>5. StoreExact
    BY <1>4, FS_EmptySet, SessionAssumption DEF StoreExact, SessionInit
  <1>6. FailuresExact
    BY <1>4, FS_EmptySet, SessionAssumption DEF FailuresExact
  <1>. QED  BY <1>3, <1>5, <1>6 DEF SessionInv

(* A handler goes on to its next step.                                     *)
LEMMA GoToFacts ==
    ASSUME BrowsersOK, NEW b \in Browsers, logins' = logins,
           NEW step \in {"rotate", "create", "csrf", "accepted", "revoke"}, GoTo(b, step)
    PROVE  BrowsersOK' /\ \A a : Attempting(a)' \subseteq Attempting(a)
  <1>1. browser \in [Browsers -> BrowserRecords] /\ browser' = [browser EXCEPT ![b].at = step]
    BY DEF BrowsersOK, GoTo
  <1>2. /\ browser' \in [Browsers -> BrowserRecords] /\ browser'[b].at = step
        /\ browser'[b].cookie = browser[b].cookie
        /\ \A c \in Browsers \ {b} : browser'[c] = browser[c]
    BY <1>1 DEF BrowserRecords
  <1>3. BrowsersOK'
    BY <1>2 DEF BrowsersOK
  <1>4. \A a : Attempting(a)' \subseteq Attempting(a)
    BY <1>2 DEF Attempting
  <1>. QED  BY <1>3, <1>4

(* A handler answers.                                                      *)
LEMMA AnswerFacts ==
    ASSUME BrowsersOK, NEW b \in Browsers, logins \in Nat, logins' \in Nat, logins <= logins',
           NEW cookie \in Nat, cookie <= logins', Answer(b, cookie)
    PROVE  /\ BrowsersOK'
           /\ \A a : Attempting(a)' \subseteq Attempting(a) /\ b \notin Attempting(a)'
  <1>1. /\ browser \in [Browsers -> BrowserRecords]
        /\ browser' = [browser EXCEPT ![b] = [at |-> "idle", cookie |-> cookie, address |-> NoCookie]]
    BY DEF BrowsersOK, Answer, Idle
  <1>2. [at |-> "idle", cookie |-> cookie, address |-> NoCookie] \in BrowserRecords
    BY DEF BrowserRecords
  <1>3. /\ browser' \in [Browsers -> BrowserRecords]
        /\ browser'[b] = [at |-> "idle", cookie |-> cookie, address |-> NoCookie]
        /\ \A c \in Browsers \ {b} : browser'[c] = browser[c]
    BY <1>1, <1>2
  <1>4. browser'[b].at = "idle" /\ browser'[b].cookie = cookie
    BY <1>3
  <1>5. BrowsersOK'
    <2>1. ASSUME NEW c \in Browsers PROVE browser'[c].cookie <= logins'
      <3>1. CASE c = b
        BY <1>4, <3>1
      <3>2. CASE c # b
        <4>1. browser[c].cookie \in Nat /\ browser[c].cookie <= logins /\ browser'[c] = browser[c]
          BY <1>3, <3>2 DEF BrowsersOK, BrowserRecords
        <4>. QED  BY <4>1
      <3>. QED  BY <3>1, <3>2
    <2>. QED  BY <1>3, <2>1 DEF BrowsersOK
  <1>6. \A a : Attempting(a)' \subseteq Attempting(a) /\ b \notin Attempting(a)'
    BY <1>3, <1>4 DEF Attempting
  <1>. QED  BY <1>5, <1>6

(* No more logins are under way from an address than there are browsers.   *)
LEMMA AttemptingFinite ==
    ASSUME NEW a
    PROVE  IsFiniteSet(Attempting(a)) /\ Cardinality(Attempting(a)) \in Nat
           /\ Cardinality(Attempting(a)) <= Cardinality(Browsers) /\ Cardinality(Browsers) \in Nat
  <1>1. IsFiniteSet(Browsers) /\ Attempting(a) \subseteq Browsers
    BY SessionAssumption DEF Attempting
  <1>. QED  BY <1>1, FS_Subset, FS_CardinalityType

(* What the limiter knows of an address.                                   *)
EntryExact(a) ==
    /\ failures[a] \in FailureRecords
    /\ failures[a].first <= sessionClock
    /\ failures[a].lockedUntil <= sessionClock + LockoutDuration
    /\ failures[a].count >= LockingCount => \E k \in Nat \ {0} : RoundOf(a, k)

(* What FailuresExact says of each remembered address on its own.          *)
LEMMA EntryAlone == FailuresExact <=>
    /\ IsFiniteSet(DOMAIN failures) /\ Cardinality(DOMAIN failures) <= MaxTrackedIPs
    /\ \A a \in DOMAIN failures : EntryExact(a)
  BY DEF FailuresExact, EntryExact

(* An entry stays exact as time passes and attempts are judged; an attempt *)
(* is added only where the address is not locked.                          *)
LEMMA EntryKept ==
    ASSUME NEW a, EntryExact(a), failures'[a] = failures[a],
           sessionClock \in Nat, sessionClock' \in Nat, sessionClock <= sessionClock',
           sessionClock' < failures[a].lockedUntil => Attempting(a)' \subseteq Attempting(a)
    PROVE  EntryExact(a)'
  <1>1. /\ failures[a] \in FailureRecords /\ failures[a].first <= sessionClock
        /\ failures[a].lockedUntil <= sessionClock + LockoutDuration
        /\ failures[a].count >= LockingCount => \E k \in Nat \ {0} : RoundOf(a, k)
    BY DEF EntryExact
  <1>2. failures[a].first \in Nat /\ failures[a].lockedUntil \in Nat /\ failures[a].count \in Nat
    BY <1>1 DEF FailureRecords
  <1>3. failures[a].first <= sessionClock' /\ failures[a].lockedUntil <= sessionClock' + LockoutDuration
    BY <1>1, <1>2, SessionAssumption
  <1>4. ASSUME NEW k \in Nat \ {0}, RoundOf(a, k)
        PROVE  RoundOf(a, k)'
    <2>1. /\ (k - 1) * LockoutDuration <= Window
          /\ failures[a].first + k * LockoutDuration <= failures[a].lockedUntil
          /\ failures[a].count <= Admitted(k)
          /\ sessionClock < failures[a].lockedUntil =>
                  failures[a].count + Cardinality(Attempting(a)) <= Admitted(k)
      BY <1>4 DEF RoundOf
    <2>2. ASSUME sessionClock' < failures[a].lockedUntil
          PROVE  failures[a].count + Cardinality(Attempting(a)') <= Admitted(k)
      <3>1. sessionClock < failures[a].lockedUntil
        BY <1>2, <2>2
      <3>2. Attempting(a)' \subseteq Attempting(a)
        BY <2>2
      <3>3. Cardinality(Attempting(a)') \in Nat /\ Cardinality(Attempting(a)) \in Nat
            /\ Cardinality(Attempting(a)') <= Cardinality(Attempting(a))
        BY <3>2, AttemptingFinite, FS_Subset, FS_CardinalityType
      <3>4. LockingCount \in Nat /\ k * Cardinality(Browsers) \in Nat
        BY AttemptingFinite, Distributes, SessionAssumption DEF LockingCount
      <3>5. Admitted(k) \in Int
        BY <3>4 DEF Admitted
      <3>. QED  BY <1>2, <2>1, <3>1, <3>3, <3>5
    <2>. QED  BY <2>1, <2>2 DEF RoundOf, Admitted
  <1>. QED  BY <1>1, <1>3, <1>4 DEF EntryExact

(* Some entries go, and the others stay exact.                             *)
LEMMA FailuresKept ==
    ASSUME FailuresExact, sessionClock \in Nat, sessionClock' \in Nat, sessionClock <= sessionClock',
           DOMAIN failures' \subseteq DOMAIN failures,
           \A a \in DOMAIN failures' : failures'[a] = failures[a],
           \A a \in DOMAIN failures' : sessionClock' < failures[a].lockedUntil =>
                Attempting(a)' \subseteq Attempting(a)
    PROVE  FailuresExact'
  <1>1. IsFiniteSet(DOMAIN failures) /\ Cardinality(DOMAIN failures) <= MaxTrackedIPs
    BY DEF FailuresExact
  <1>2. /\ IsFiniteSet(DOMAIN failures') /\ Cardinality(DOMAIN failures') <= Cardinality(DOMAIN failures)
        /\ Cardinality(DOMAIN failures') \in Nat /\ Cardinality(DOMAIN failures) \in Nat
    BY <1>1, FS_Subset, FS_CardinalityType
  <1>3. Cardinality(DOMAIN failures') <= MaxTrackedIPs
    BY <1>1, <1>2, SessionAssumption
  <1>4. ASSUME NEW a \in DOMAIN failures' PROVE EntryExact(a)'
    <2>1. a \in DOMAIN failures /\ failures'[a] = failures[a] /\ EntryExact(a)
      BY EntryAlone
    <2>. QED  BY <2>1, EntryKept
  <1>. QED  BY <1>2, <1>3, <1>4 DEF FailuresExact, EntryExact

(* The attempts only become fewer, and the limiter is left alone.          *)
LEMMA LimiterLeft ==
    ASSUME FailuresExact, sessionClock \in Nat, sessionClock' \in Nat, sessionClock <= sessionClock',
           failures' = failures, \A a : Attempting(a)' \subseteq Attempting(a)
    PROVE  FailuresExact'
  BY FailuresKept

(* The store is left alone while time passes.                              *)
LEMMA StoreKept ==
    ASSUME StoreExact, UNCHANGED storeVars, sessionClock' \in Nat
    PROVE  StoreExact'
  BY DEF StoreExact, storeVars

-----------------------------------------------------------------------------
(* The steps.                                                              *)

(* Time passes: entries may expire, none is changed.                       *)
LEMMA SessionTickStep == SessionInv /\ SessionTick => SessionInv'
  <1>. SUFFICES ASSUME SessionInv, SessionTick PROVE SessionInv'
    OBVIOUS
  <1>1. /\ sessionClock \in Nat /\ sessionClock' \in Nat /\ sessionClock <= sessionClock'
        /\ UNCHANGED <<storeVars, limiterVars, browser>>
    BY DEF SessionInv, StoreExact, SessionTick
  <1>2. BrowsersOK'
    BY <1>1 DEF SessionInv, BrowsersOK, storeVars
  <1>3. \A a : Attempting(a)' = Attempting(a)
    BY <1>1 DEF Attempting
  <1>. QED  BY <1>1, <1>2, <1>3, LimiterLeft, StoreKept DEF SessionInv, limiterVars

(* A handler that leaves the store and the limiter alone.                  *)
LEMMA HandlerStep ==
    ASSUME SessionInv, NEW b \in Browsers, UNCHANGED <<sessionClock, storeVars, limiterVars>>,
           \/ \E step \in {"rotate", "create", "csrf", "accepted", "revoke"} : GoTo(b, step)
           \/ \E cookie \in Nat : cookie <= logins /\ Answer(b, cookie)
    PROVE  SessionInv'
  <1>1. /\ BrowsersOK /\ StoreExact /\ FailuresExact /\ sessionClock \in Nat /\ logins \in Nat
        /\ logins' = logins /\ failures' = failures /\ sessionClock' = sessionClock
    BY DEF SessionInv, StoreExact, storeVars, limiterVars
  <1>2. BrowsersOK' /\ \A a : Attempting(a)' \subseteq Attempting(a)
    <2>1. CASE \E step \in {"rotate", "create", "csrf", "accepted", "revoke"} : GoTo(b, step)
      BY <1>1, <2>1, GoToFacts
    <2>2. CASE \E cookie \in Nat : cookie <= logins /\ Answer(b, cookie)
      BY <1>1, <2>2, AnswerFacts
    <2>. QED  BY <2>1, <2>2
  <1>. QED  BY <1>1, <1>2, LimiterLeft, StoreKept DEF SessionInv

(* The cookie of a browser was drawn by a login.                           *)
LEMMA CookieFacts ==
    ASSUME SessionInv, NEW b \in Browsers
    PROVE  Cookie(b) \in Nat /\ Cookie(b) <= logins /\ logins \in Nat /\ NoCookie \in Nat /\ NoCookie <= logins
  BY DEF SessionInv, BrowsersOK, BrowserRecords, Cookie, NoCookie, StoreExact

(* A login that the lockout lets through is one more attempt under way.    *)
LEMMA LoginAllowedStep ==
    ASSUME SessionInv, NEW b \in Browsers, NEW a \in Addresses, LoginAllowed(b, a)
    PROVE  SessionInv'
  <1>1. /\ BrowsersOK /\ StoreExact /\ FailuresExact /\ sessionClock \in Nat
        /\ logins' = logins /\ sessionClock' = sessionClock /\ UNCHANGED storeVars
        /\ browser \in [Browsers -> BrowserRecords]
        /\ browser' = [browser EXCEPT ![b].at = "credential", ![b].address = a]
        /\ ~Locked(a)
        /\ failures' = IF a \in DOMAIN failures /\ Stale(a) THEN Without(failures, {a}) ELSE failures
    BY DEF SessionInv, StoreExact, storeVars, LoginAllowed, BrowsersOK, AttemptAllowed
  <1>2. /\ browser' \in [Browsers -> BrowserRecords]
        /\ browser'[b].cookie = browser[b].cookie /\ browser'[b].address = a
        /\ \A c \in Browsers \ {b} : browser'[c] = browser[c]
    BY <1>1 DEF BrowserRecords
  <1>3. BrowsersOK'
    BY <1>1, <1>2 DEF BrowsersOK
  <1>4. \A x : x # a => Attempting(x)' \subseteq Attempting(x)
    BY <1>2 DEF Attempting
  <1>5. DOMAIN failures' \subseteq DOMAIN failures /\ \A x \in DOMAIN failures' : failures'[x] = failures[x]
    BY <1>1 DEF Without, Restrict
  <1>6. \A x \in DOMAIN failures' : sessionClock' < failures[x].lockedUntil =>
                Attempting(x)' \subseteq Attempting(x)
    BY <1>1, <1>4, <1>5 DEF Locked
  <1>7. sessionClock' \in Nat /\ sessionClock <= sessionClock'
    BY <1>1
  <1>. QED  BY <1>1, <1>3, <1>5, <1>6, <1>7, FailuresKept, StoreKept DEF SessionInv

(* The right credential ends the attempt and the failures of its address   *)
(* are forgotten.                                                          *)
LEMMA LoginMatchedStep ==
    ASSUME SessionInv, NEW b \in Browsers, LoginMatched(b)
    PROVE  SessionInv'
  <1>1. /\ BrowsersOK /\ StoreExact /\ FailuresExact /\ sessionClock \in Nat
        /\ logins' = logins /\ sessionClock' = sessionClock /\ UNCHANGED storeVars
        /\ failures' = Without(failures, {browser[b].address}) /\ GoTo(b, "rotate")
    BY DEF SessionInv, StoreExact, storeVars, LoginMatched
  <1>2. BrowsersOK' /\ \A a : Attempting(a)' \subseteq Attempting(a)
    BY <1>1, GoToFacts
  <1>3. DOMAIN failures' \subseteq DOMAIN failures /\ \A x \in DOMAIN failures' : failures'[x] = failures[x]
    BY <1>1 DEF Without, Restrict
  <1>4. sessionClock' \in Nat /\ sessionClock <= sessionClock'
    BY <1>1
  <1>. QED  BY <1>1, <1>2, <1>3, <1>4, FailuresKept, StoreKept DEF SessionInv

(* The session of a cookie ends: it leaves the store and never comes back. *)
LEMMA RevokeFacts ==
    ASSUME StoreExact, NEW id \in Nat, id <= logins, Revoke(id),
           UNCHANGED <<sessionClock, born, logins>>
    PROVE  StoreExact'
  <1>1. /\ sessionClock \in Nat /\ logins \in Nat /\ born \in [SessionIDs -> Nat]
        /\ revoked \subseteq 1 .. logins
        /\ IsFiniteSet(DOMAIN sessions) /\ Cardinality(DOMAIN sessions) <= MaxSessions
        /\ \A i \in DOMAIN sessions :
              /\ i \in 1 .. logins /\ i \in SessionIDs /\ i \notin revoked
              /\ sessions[i] \in SessionRecords /\ sessions[i].created = born[i]
    BY DEF StoreExact
  <1>2. /\ DOMAIN sessions' = DOMAIN sessions \ {id}
        /\ \A i \in DOMAIN sessions' : sessions'[i] = sessions[i]
    BY DEF Revoke, Without, Restrict
  <1>3. revoked' \subseteq revoked \cup {id} /\ (revoked' # revoked => id # 0)
    BY DEF Revoke, NoCookie
  <1>4. revoked' \subseteq 1 .. logins
    BY <1>1, <1>3
  <1>5. IsFiniteSet(DOMAIN sessions') /\ Cardinality(DOMAIN sessions') <= MaxSessions
    <2>1. DOMAIN sessions' \subseteq DOMAIN sessions
      BY <1>2
    <2>2. /\ IsFiniteSet(DOMAIN sessions') /\ Cardinality(DOMAIN sessions') <= Cardinality(DOMAIN sessions)
          /\ Cardinality(DOMAIN sessions') \in Nat /\ Cardinality(DOMAIN sessions) \in Nat
      BY <1>1, <2>1, FS_Subset, FS_CardinalityType
    <2>. QED  BY <1>1, <2>2, SessionAssumption
  <1>6. \A i \in DOMAIN sessions' :
              /\ i \in 1 .. logins /\ i \in SessionIDs /\ i \notin revoked'
              /\ sessions'[i] \in SessionRecords /\ sessions'[i].created = born[i]
    BY <1>1, <1>2, <1>3
  <1>. QED  BY <1>1, <1>4, <1>5, <1>6 DEF StoreExact, SessionIDs

(* The session the login replaces is ended.                                *)
LEMMA LoginRotatesStep ==
    ASSUME SessionInv, NEW b \in Browsers, LoginRotates(b)
    PROVE  SessionInv'
  <1>1. /\ BrowsersOK /\ StoreExact /\ FailuresExact /\ sessionClock \in Nat
        /\ logins' = logins /\ sessionClock' = sessionClock /\ born' = born /\ failures' = failures
        /\ Revoke(Cookie(b)) /\ GoTo(b, "create")
    BY DEF SessionInv, StoreExact, LoginRotates, limiterVars
  <1>2. BrowsersOK' /\ \A a : Attempting(a)' \subseteq Attempting(a)
    BY <1>1, GoToFacts
  <1>3. StoreExact'
    BY <1>1, CookieFacts, RevokeFacts
  <1>4. sessionClock' \in Nat /\ sessionClock <= sessionClock'
    BY <1>1
  <1>. QED  BY <1>1, <1>2, <1>3, <1>4, LimiterLeft DEF SessionInv

(* The session of a logout is ended.                                       *)
LEMMA LogoutRevokesStep ==
    ASSUME SessionInv, NEW b \in Browsers, LogoutRevokes(b)
    PROVE  SessionInv'
  <1>1. /\ BrowsersOK /\ StoreExact /\ FailuresExact /\ sessionClock \in Nat
        /\ logins' = logins /\ sessionClock' = sessionClock /\ born' = born /\ failures' = failures
        /\ Revoke(Cookie(b)) /\ Answer(b, NoCookie)
    BY DEF SessionInv, StoreExact, LogoutRevokes, limiterVars
  <1>2. BrowsersOK' /\ \A a : Attempting(a)' \subseteq Attempting(a)
    BY <1>1, CookieFacts, AnswerFacts
  <1>3. StoreExact'
    BY <1>1, CookieFacts, RevokeFacts
  <1>4. sessionClock' \in Nat /\ sessionClock <= sessionClock'
    BY <1>1
  <1>. QED  BY <1>1, <1>2, <1>3, <1>4, LimiterLeft DEF SessionInv

(* A session that is looked up is touched, or dropped when it has expired. *)
LEMMA GotFacts ==
    ASSUME StoreExact, NEW id, Got(id), UNCHANGED <<sessionClock, born, revoked, logins>>
    PROVE  StoreExact'
  <1>1. /\ sessionClock \in Nat /\ logins \in Nat /\ born \in [SessionIDs -> Nat]
        /\ revoked \subseteq 1 .. logins
        /\ IsFiniteSet(DOMAIN sessions) /\ Cardinality(DOMAIN sessions) <= MaxSessions
        /\ \A i \in DOMAIN sessions :
              /\ i \in 1 .. logins /\ i \in SessionIDs /\ i \notin revoked
              /\ sessions[i] \in SessionRecords /\ sessions[i].created = born[i]
    BY DEF StoreExact
  <1>2. /\ DOMAIN sessions' \subseteq DOMAIN sessions
        /\ \A i \in DOMAIN sessions' : sessions'[i] \in SessionRecords /\ sessions'[i].created = born[i]
    <2>1. CASE Live(id)
      <3>1. sessions' = [sessions EXCEPT ![id].last = sessionClock] /\ id \in DOMAIN sessions
        BY <2>1 DEF Got, Live
      <3>2. /\ DOMAIN sessions' = DOMAIN sessions
            /\ \A i \in DOMAIN sessions \ {id} : sessions'[i] = sessions[i]
            /\ sessions'[id] = [sessions[id] EXCEPT !.last = sessionClock]
        BY <3>1
      <3>3. sessions[id] \in SessionRecords /\ sessions[id].created = born[id]
        BY <1>1, <3>1
      <3>4. sessions'[id] \in SessionRecords /\ sessions'[id].created = born[id]
        BY <1>1, <3>2, <3>3 DEF SessionRecords
      <3>. QED  BY <1>1, <3>2, <3>4
    <2>2. CASE ~Live(id)
      BY <1>1, <2>2 DEF Got, Without, Restrict
    <2>. QED  BY <2>1, <2>2
  <1>3. IsFiniteSet(DOMAIN sessions') /\ Cardinality(DOMAIN sessions') <= MaxSessions
    <2>1. /\ IsFiniteSet(DOMAIN sessions') /\ Cardinality(DOMAIN sessions') <= Cardinality(DOMAIN sessions)
          /\ Cardinality(DOMAIN sessions') \in Nat /\ Cardinality(DOMAIN sessions) \in Nat
      BY <1>1, <1>2, FS_Subset, FS_CardinalityType
    <2>. QED  BY <1>1, <2>1, SessionAssumption
  <1>4. \A i \in DOMAIN sessions' :
              /\ i \in 1 .. logins /\ i \in SessionIDs /\ i \notin revoked
              /\ sessions'[i] \in SessionRecords /\ sessions'[i].created = born[i]
    BY <1>1, <1>2
  <1>. QED  BY <1>1, <1>3, <1>4 DEF StoreExact, SessionIDs

(* Looking a session up refreshes it or finds it expired.                  *)
LEMMA GetSessionStep ==
    ASSUME SessionInv, NEW b \in Browsers, NEW unsafe \in BOOLEAN, GetSession(b, unsafe)
    PROVE  SessionInv'
  <1>1. /\ BrowsersOK /\ StoreExact /\ FailuresExact /\ sessionClock \in Nat
        /\ logins' = logins /\ sessionClock' = sessionClock /\ born' = born /\ failures' = failures
        /\ revoked' = revoked /\ Got(Cookie(b))
        /\ IF ~Live(Cookie(b)) THEN Answer(b, NoCookie)
           ELSE GoTo(b, IF unsafe THEN "csrf" ELSE "accepted")
    BY DEF SessionInv, StoreExact, GetSession, limiterVars
  <1>2. BrowsersOK' /\ \A a : Attempting(a)' \subseteq Attempting(a)
    <2>1. CASE ~Live(Cookie(b))
      BY <1>1, <2>1, CookieFacts, AnswerFacts
    <2>2. CASE Live(Cookie(b))
      BY <1>1, <2>2, GoToFacts
    <2>. QED  BY <2>1, <2>2
  <1>3. StoreExact'
    BY <1>1, GotFacts
  <1>4. sessionClock' \in Nat /\ sessionClock <= sessionClock'
    BY <1>1
  <1>. QED  BY <1>1, <1>2, <1>3, <1>4, LimiterLeft DEF SessionInv

-----------------------------------------------------------------------------
(* A login creates a session under an ID drawn for the first time; the     *)
(* store makes room for it first.                                          *)
LEMMA CreateStep ==
    ASSUME SessionInv, NEW b \in Browsers, Create(b)
    PROVE  SessionInv'
  <1>. DEFINE id == logins + 1
              kept == {i \in DOMAIN sessions : ~IsExpired(sessions[i])}
              oldest == {i \in kept : \A j \in kept : sessions[i].last <= sessions[j].last}
              fresh == [created |-> sessionClock, last |-> sessionClock]
  <1>1. /\ BrowsersOK /\ StoreExact /\ FailuresExact
        /\ sessionClock' = sessionClock /\ failures' = failures /\ revoked' = revoked
        /\ logins < MaxLogins /\ logins' = id /\ born' = [born EXCEPT ![id] = sessionClock]
        /\ Answer(b, id)
    BY DEF SessionInv, Create, limiterVars
  <1>2. /\ sessionClock \in Nat /\ logins \in Nat /\ born \in [SessionIDs -> Nat]
        /\ revoked \subseteq 1 .. logins
        /\ IsFiniteSet(DOMAIN sessions) /\ Cardinality(DOMAIN sessions) <= MaxSessions
        /\ \A i \in DOMAIN sessions :
              /\ i \in 1 .. logins /\ i \in SessionIDs /\ i \notin revoked
              /\ sessions[i] \in SessionRecords /\ sessions[i].created = born[i]
    BY <1>1 DEF StoreExact
  <1>3. PICK victims \in IF Cardinality(kept) >= MaxSessions THEN {{i} : i \in oldest} ELSE {{}} :
              sessions' = [i \in (kept \ victims) \cup {id} |-> IF i = id THEN fresh ELSE sessions[i]]
    BY DEF Create
  <1>. DEFINE stay == kept \ victims
  <1>4. id \in Nat /\ id \in SessionIDs /\ id \notin 1 .. logins /\ logins <= id
    BY <1>1, <1>2, SessionAssumption DEF SessionIDs
  <1>5. BrowsersOK' /\ \A a : Attempting(a)' \subseteq Attempting(a)
    BY <1>1, <1>2, <1>4, AnswerFacts
  <1>6. stay \subseteq DOMAIN sessions /\ DOMAIN sessions' = stay \cup {id} /\ id \notin stay
    BY <1>2, <1>3, <1>4
  <1>7. IsFiniteSet(stay) /\ Cardinality(stay) + 1 <= MaxSessions /\ Cardinality(stay) \in Nat
    <2>1. /\ kept \subseteq DOMAIN sessions /\ IsFiniteSet(kept) /\ Cardinality(kept) \in Nat
          /\ Cardinality(kept) <= Cardinality(DOMAIN sessions) /\ Cardinality(DOMAIN sessions) \in Nat
      BY <1>2, FS_Subset, FS_CardinalityType
    <2>2. CASE Cardinality(kept) >= MaxSessions
      <3>1. PICK v \in oldest : victims = {v}
        BY <1>3, <2>2
      <3>2. stay = kept \ {v} /\ v \in kept
        BY <3>1
      <3>3. IsFiniteSet(kept \ {v}) /\ Cardinality(kept \ {v}) = Cardinality(kept) - 1
        BY <2>1, <3>2, FS_RemoveElement
      <3>4. Cardinality(kept \ {v}) \in Nat
        BY <3>3, FS_CardinalityType
      <3>5. Cardinality(kept \ {v}) + 1 <= MaxSessions
        BY <1>2, <2>1, <3>3, <3>4, SessionAssumption
      <3>. QED  BY <3>2, <3>3, <3>4, <3>5
    <2>3. CASE ~(Cardinality(kept) >= MaxSessions)
      <3>1. stay = kept
        BY <1>3, <2>3
      <3>. QED  BY <2>1, <2>3, <3>1, SessionAssumption
    <2>. QED  BY <2>2, <2>3
  <1>8. IsFiniteSet(DOMAIN sessions') /\ Cardinality(DOMAIN sessions') <= MaxSessions
    <2>. HIDE DEF stay
    <2>1. IsFiniteSet(stay \cup {id}) /\ Cardinality(stay \cup {id}) = Cardinality(stay) + 1
      BY <1>6, <1>7, FS_AddElement
    <2>. QED  BY <1>6, <1>7, <2>1
  <1>9. ASSUME NEW i \in DOMAIN sessions'
        PROVE  /\ i \in 1 .. logins' /\ i \in SessionIDs /\ i \notin revoked'
               /\ sessions'[i] \in SessionRecords /\ sessions'[i].created = born'[i]
    <2>1. CASE i = id
      <3>1. sessions'[i] = fresh
        BY <1>3, <1>6, <2>1
      <3>2. i \in 1 .. logins' /\ i \in SessionIDs /\ i \notin revoked' /\ born'[i] = sessionClock
        BY <1>1, <1>2, <1>4, <2>1
      <3>. QED  BY <1>2, <3>1, <3>2 DEF SessionRecords
    <2>2. CASE i # id
      <3>1. i \in DOMAIN sessions /\ sessions'[i] = sessions[i]
        BY <1>3, <1>6, <2>2
      <3>2. i \in 1 .. logins /\ i \in SessionIDs /\ i \notin revoked
            /\ sessions[i] \in SessionRecords /\ sessions[i].created = born[i]
        BY <1>2, <3>1
      <3>3. i \in 1 .. logins' /\ born'[i] = born[i]
        BY <1>1, <1>2, <2>2, <3>2
      <3>. QED  BY <1>1, <3>1, <3>2, <3>3
    <2>. QED  BY <2>1, <2>2
  <1>10. sessionClock' \in Nat /\ logins' \in Nat /\ born' \in [SessionIDs -> Nat] /\ revoked' \subseteq 1 .. logins'
    BY <1>1, <1>2, <1>4
  <1>11. StoreExact'
    BY <1>8, <1>9, <1>10 DEF StoreExact, SessionIDs
  <1>12. sessionClock <= sessionClock'
    BY <1>1, <1>2
  <1>. QED  BY <1>1, <1>2, <1>5, <1>10, <1>11, <1>12, LimiterLeft DEF SessionInv

-----------------------------------------------------------------------------
(* The addresses that stay tracked leave room for one more.                *)
LEMMA EvictionFacts ==
    ASSUME FailuresExact, NEW tracked \in TrackedAfterEviction
    PROVE  /\ tracked \subseteq DOMAIN failures /\ IsFiniteSet(tracked)
           /\ Cardinality(tracked) \in Nat /\ Cardinality(tracked) + 1 <= MaxTrackedIPs
  <1>. DEFINE fresh == {x \in DOMAIN failures : ~Stale(x)}
  <1>1. IsFiniteSet(DOMAIN failures) /\ Cardinality(DOMAIN failures) <= MaxTrackedIPs
    BY DEF FailuresExact
  <1>2. /\ fresh \subseteq DOMAIN failures /\ IsFiniteSet(fresh) /\ Cardinality(fresh) \in Nat
        /\ Cardinality(fresh) <= Cardinality(DOMAIN failures) /\ Cardinality(DOMAIN failures) \in Nat
    BY <1>1, FS_Subset, FS_CardinalityType
  <1>3. CASE Cardinality(DOMAIN failures) < MaxTrackedIPs
    <2>1. tracked = DOMAIN failures
      BY <1>3 DEF TrackedAfterEviction
    <2>. QED  BY <1>1, <1>2, <1>3, <2>1, SessionAssumption
  <1>4. CASE ~(Cardinality(DOMAIN failures) < MaxTrackedIPs) /\ Cardinality(fresh) < MaxTrackedIPs
    <2>1. tracked = fresh
      BY <1>4 DEF TrackedAfterEviction
    <2>. QED  BY <1>2, <1>4, <2>1, SessionAssumption
  <1>5. CASE ~(Cardinality(DOMAIN failures) < MaxTrackedIPs) /\ ~(Cardinality(fresh) < MaxTrackedIPs)
    <2>1. PICK v \in fresh : tracked = fresh \ {v}
      BY <1>5 DEF TrackedAfterEviction
    <2>2. IsFiniteSet(fresh \ {v}) /\ Cardinality(fresh \ {v}) = Cardinality(fresh) - 1
      BY <1>2, <2>1, FS_RemoveElement
    <2>. QED  BY <1>1, <1>2, <1>5, <2>1, <2>2, FS_CardinalityType, SessionAssumption
  <1>. QED  BY <1>3, <1>4, <1>5

(* One more failure of an address within its window: it opens a round when *)
(* the address was not locked, and uses up an attempt in flight when it    *)
(* was.                                                                    *)
LEMMA CountedFacts ==
    ASSUME NEW a, EntryExact(a), sessionClock \in Nat, sessionClock' = sessionClock,
           sessionClock - failures[a].first <= Window, failures'[a] = Counted(failures[a]),
           Cardinality(Attempting(a)') + 1 <= Cardinality(Attempting(a))
    PROVE  EntryExact(a)'
  <1>. DEFINE e == failures[a]
              N == Cardinality(Browsers)
              L == LockoutDuration
              now == Cardinality(Attempting(a))
              then == Cardinality(Attempting(a)')
  <1>1. /\ e \in FailureRecords /\ e.first <= sessionClock /\ e.lockedUntil <= sessionClock + L
        /\ e.count >= LockingCount => \E k \in Nat \ {0} : RoundOf(a, k)
    BY DEF EntryExact
  <1>2. e.first \in Nat /\ e.last \in Nat /\ e.lockedUntil \in Nat /\ e.count \in Nat
    BY <1>1 DEF FailureRecords
  <1>3. /\ N \in Nat /\ now \in Nat /\ then \in Nat /\ now <= N
        /\ L \in Nat \ {0} /\ LockingCount \in Nat /\ LockingCount >= MaxAttempts
        /\ MaxAttempts \in Nat /\ Window \in Nat
    <2>1. then \in Nat
      <3>1. IsFiniteSet(Browsers) /\ Attempting(a)' \subseteq Browsers
        BY SessionAssumption DEF Attempting
      <3>. QED  BY <3>1, FS_Subset, FS_CardinalityType
    <2>. QED  BY <2>1, AttemptingFinite, SessionAssumption DEF LockingCount
  <1>4. /\ failures'[a].count = e.count + 1 /\ failures'[a].first = e.first
        /\ failures'[a].last = sessionClock
        /\ failures'[a].lockedUntil = IF e.count + 1 >= MaxAttempts THEN sessionClock + L ELSE e.lockedUntil
        /\ failures'[a] \in FailureRecords
    BY <1>2, <1>3 DEF Counted, FailureRecords
  <1>. HIDE DEF e, N, L, now, then
  <1>5. failures'[a].lockedUntil <= sessionClock' + L /\ failures'[a].first <= sessionClock'
    BY <1>1, <1>2, <1>3, <1>4
  <1>6. ASSUME failures'[a].count >= LockingCount
        PROVE  \E k \in Nat \ {0} : RoundOf(a, k)'
    <2>1. failures'[a].lockedUntil = sessionClock + L
      BY <1>2, <1>3, <1>4, <1>6
    <2>2. SUFFICES ASSUME TRUE
                   PROVE  \E k \in Nat \ {0} :
                             /\ (k - 1) * L <= Window
                             /\ e.first + k * L <= sessionClock + L
                             /\ e.count + 1 + then <= LockingCount - 1 + k * N
      <3>1. PICK k \in Nat \ {0} :
                             /\ (k - 1) * L <= Window
                             /\ e.first + k * L <= sessionClock + L
                             /\ e.count + 1 + then <= LockingCount - 1 + k * N
        BY <2>2
      <3>2. k * N \in Nat
        BY <1>3, Distributes
      <3>3. e.count + 1 <= LockingCount - 1 + k * N
        BY <1>2, <1>3, <3>1, <3>2
      <3>4. RoundOf(a, k)'
        BY <1>4, <2>1, <3>1, <3>3 DEF RoundOf, Admitted, e, L, N, then
      <3>. QED  BY <3>4
    <2>3. then + 1 <= now
      BY DEF then, now
    <2>4. CASE e.count < LockingCount
      <3>1. e.count + 1 + then <= LockingCount - 1 + N
        BY <1>2, <1>3, <2>3, <2>4
      <3>2. (1 - 1) * L = 0 /\ 1 * L = L /\ 1 * N = N
        BY <1>3
      <3>3. /\ (1 - 1) * L <= Window /\ e.first + 1 * L <= sessionClock + L
            /\ e.count + 1 + then <= LockingCount - 1 + 1 * N
        BY <1>1, <1>2, <1>3, <3>1, <3>2
      <3>. QED  BY <3>3
    <2>5. CASE e.count >= LockingCount
      <3>1. PICK k \in Nat \ {0} : RoundOf(a, k)
        BY <1>1, <2>5
      <3>2. /\ (k - 1) * L <= Window /\ e.first + k * L <= e.lockedUntil
            /\ e.count <= LockingCount - 1 + k * N
            /\ sessionClock < e.lockedUntil => e.count + now <= LockingCount - 1 + k * N
        BY <3>1 DEF RoundOf, Admitted, e, L, N, now
      <3>3. k * L \in Nat /\ k * N \in Nat /\ (k + 1) * L = k * L + L /\ (k + 1) * N = k * N + N
        BY <1>3, Distributes
      <3>4. CASE sessionClock < e.lockedUntil
        <4>1. e.first + k * L <= sessionClock + L
          BY <1>1, <1>2, <1>3, <3>2, <3>3
        <4>2. e.count + 1 + then <= LockingCount - 1 + k * N
          BY <1>2, <1>3, <2>3, <3>2, <3>3, <3>4
        <4>. QED  BY <3>2, <4>1, <4>2
      <3>5. CASE ~(sessionClock < e.lockedUntil)
        <4>1. k * L <= Window
          BY <1>2, <1>3, <3>2, <3>3, <3>5 DEF e
        <4>2. e.first + (k + 1) * L <= sessionClock + L
          BY <1>2, <1>3, <3>2, <3>3, <3>5
        <4>3. e.count + 1 + then <= LockingCount - 1 + (k + 1) * N
          BY <1>2, <1>3, <2>3, <3>2, <3>3
        <4>4. (k + 1) - 1 = k /\ k + 1 \in Nat \ {0}
          OBVIOUS
        <4>. QED  BY <4>1, <4>2, <4>3, <4>4
      <3>. QED  BY <3>4, <3>5
    <2>. QED  BY <1>2, <1>3, <2>4, <2>5
  <1>. QED  BY <1>4, <1>5, <1>6 DEF EntryExact, L

(* A failed login is counted where its address is still tracked.           *)
LEMMA LoginRejectedStep ==
    ASSUME SessionInv, NEW b \in Browsers, LoginRejected(b)
    PROVE  SessionInv'
  <1>. DEFINE a == browser[b].address
  <1>1. /\ BrowsersOK /\ StoreExact /\ FailuresExact /\ sessionClock \in Nat /\ logins \in Nat
        /\ logins' = logins /\ sessionClock' = sessionClock /\ UNCHANGED storeVars
        /\ RecordFailure(a) /\ Answer(b, Cookie(b)) /\ At(b, "credential")
    BY DEF SessionInv, StoreExact, storeVars, LoginRejected
  <1>2. BrowsersOK' /\ \A x : Attempting(x)' \subseteq Attempting(x) /\ b \notin Attempting(x)'
    BY <1>1, CookieFacts, AnswerFacts
  <1>3. PICK tracked \in TrackedAfterEviction :
            failures' = [x \in tracked \cup {a} |->
                IF x # a THEN failures[x]
                ELSE IF x \in tracked /\ sessionClock - failures[x].first <= Window
                     THEN Counted(failures[x]) ELSE FirstFailure]
    BY <1>1 DEF RecordFailure
  <1>4. /\ tracked \subseteq DOMAIN failures /\ IsFiniteSet(tracked)
        /\ Cardinality(tracked) \in Nat /\ Cardinality(tracked) + 1 <= MaxTrackedIPs
    BY <1>1, EvictionFacts
  <1>5. DOMAIN failures' = tracked \cup {a}
    BY <1>3
  <1>6. IsFiniteSet(DOMAIN failures') /\ Cardinality(DOMAIN failures') <= MaxTrackedIPs
    <2>1. /\ IsFiniteSet(tracked \cup {a}) /\ Cardinality(tracked \cup {a}) \in Nat
          /\ Cardinality(tracked \cup {a}) <= Cardinality(tracked) + 1
      BY <1>4, OneMore
    <2>. QED  BY <1>4, <1>5, <2>1, SessionAssumption
  <1>7. ASSUME NEW x \in DOMAIN failures' PROVE EntryExact(x)'
    <2>1. x \in DOMAIN failures => EntryExact(x)
      BY <1>1, EntryAlone
    <2>2. CASE x # a
      <3>1. x \in DOMAIN failures /\ failures'[x] = failures[x]
        BY <1>3, <1>4, <1>5, <2>2
      <3>2. sessionClock' \in Nat /\ sessionClock <= sessionClock'
        BY <1>1
      <3>. QED  BY <1>1, <1>2, <2>1, <3>1, <3>2, EntryKept
    <2>3. CASE x = a /\ x \in tracked /\ sessionClock - failures[x].first <= Window
      <3>1. x \in DOMAIN failures /\ failures'[x] = Counted(failures[x])
        BY <1>3, <1>4, <1>5, <2>3
      <3>2. b \in Attempting(x)
        BY <1>1, <2>3 DEF Attempting, At
      <3>3. Cardinality(Attempting(x)') + 1 <= Cardinality(Attempting(x))
        <4>1. IsFiniteSet(Attempting(x)) /\ Attempting(x)' \subseteq Attempting(x) \ {b}
          BY <1>2, AttemptingFinite
        <4>2. /\ IsFiniteSet(Attempting(x) \ {b})
              /\ Cardinality(Attempting(x) \ {b}) = Cardinality(Attempting(x)) - 1
          BY <3>2, <4>1, FS_RemoveElement
        <4>3. /\ Cardinality(Attempting(x)') <= Cardinality(Attempting(x) \ {b})
              /\ Cardinality(Attempting(x)') \in Nat /\ Cardinality(Attempting(x)) \in Nat
          BY <4>1, <4>2, FS_Subset, FS_CardinalityType
        <4>. QED  BY <4>2, <4>3
      <3>. QED  BY <1>1, <2>1, <2>3, <3>1, <3>3, CountedFacts
    <2>4. CASE x = a /\ ~(x \in tracked /\ sessionClock - failures[x].first <= Window)
      <3>1. failures'[x] = [count |-> 1, first |-> sessionClock, last |-> sessionClock, lockedUntil |-> 0]
        BY <1>3, <1>5, <2>4 DEF FirstFailure
      <3>2. LockingCount \in Nat /\ LockingCount > 1 /\ LockoutDuration \in Nat
        BY SessionAssumption DEF LockingCount
      <3>3. failures'[x] \in FailureRecords
        BY <1>1, <3>1 DEF FailureRecords
      <3>4. failures'[x].count = 1 /\ failures'[x].first = sessionClock /\ failures'[x].lockedUntil = 0
        BY <3>1
      <3>. QED  BY <1>1, <3>2, <3>3, <3>4 DEF EntryExact
    <2>. QED  BY <2>2, <2>3, <2>4
  <1>8. FailuresExact'
    BY <1>6, <1>7 DEF FailuresExact, EntryExact
  <1>. QED  BY <1>1, <1>2, <1>8, StoreKept DEF SessionInv

(* A step of the handlers keeps the invariant.                             *)
LEMMA SessionStep == SessionInv /\ [SessionNext]_sessionVars => SessionInv'
  <1>. SUFFICES ASSUME SessionInv, [SessionNext]_sessionVars PROVE SessionInv'
    OBVIOUS
  <1>1. CASE SessionTick
    BY <1>1, SessionTickStep
  <1>2. ASSUME NEW b \in Browsers, NEW a \in Addresses, LoginAllowed(b, a) PROVE SessionInv'
    BY <1>2, LoginAllowedStep
  <1>3. ASSUME NEW b \in Browsers, LoginRejected(b) PROVE SessionInv'
    BY <1>3, LoginRejectedStep
  <1>4. ASSUME NEW b \in Browsers, LoginMatched(b) PROVE SessionInv'
    BY <1>4, LoginMatchedStep
  <1>5. ASSUME NEW b \in Browsers, LoginRotates(b) PROVE SessionInv'
    BY <1>5, LoginRotatesStep
  <1>6. ASSUME NEW b \in Browsers, Create(b) PROVE SessionInv'
    BY <1>6, CreateStep
  <1>7. ASSUME NEW b \in Browsers, NEW unsafe \in BOOLEAN, GetSession(b, unsafe) PROVE SessionInv'
    BY <1>7, GetSessionStep
  <1>8. ASSUME NEW b \in Browsers, LogoutRevokes(b) PROVE SessionInv'
    BY <1>8, LogoutRevokesStep
  <1>9. ASSUME NEW b \in Browsers,
               LoginMalformed(b) \/ UnsafeRejected(b) \/ RequestAnswered(b)
        PROVE  SessionInv'
    <2>1. UNCHANGED <<sessionClock, storeVars, limiterVars>> /\ Answer(b, Cookie(b))
      BY <1>9 DEF LoginMalformed, UnsafeRejected, RequestAnswered
    <2>. QED  BY <2>1, CookieFacts, HandlerStep
  <1>10. ASSUME NEW b \in Browsers, ValidateCSRF(b) PROVE SessionInv'
    <2>1. /\ UNCHANGED <<sessionClock, storeVars, limiterVars>>
          /\ GoTo(b, "accepted") \/ Answer(b, Cookie(b))
      BY <1>10 DEF ValidateCSRF
    <2>. QED  BY <2>1, CookieFacts, HandlerStep
  <1>11. ASSUME NEW b \in Browsers, LogoutChecked(b) PROVE SessionInv'
    <2>1. /\ UNCHANGED <<sessionClock, storeVars, limiterVars>>
          /\ GoTo(b, "revoke") \/ Answer(b, NoCookie)
      BY <1>11 DEF LogoutChecked
    <2>. QED  BY <2>1, CookieFacts, HandlerStep
  <1>12. ASSUME NEW b \in Browsers, NEW c \in Browsers, CopyCookie(b, c) PROVE SessionInv'
    <2>1. /\ UNCHANGED <<sessionClock, storeVars, limiterVars>> /\ Answer(b, Cookie(c))
      BY <1>12 DEF CopyCookie
    <2>. QED  BY <2>1, CookieFacts, HandlerStep
  <1>13. CASE UNCHANGED sessionVars
    BY <1>13 DEF sessionVars, storeVars, limiterVars, SessionInv, BrowsersOK, StoreExact,
                 FailuresExact, RoundOf, Attempting
  <1>. QED  BY <1>1, <1>2, <1>3, <1>4, <1>5, <1>6, <1>7, <1>8, <1>9, <1>10, <1>11, <1>12, <1>13
            DEF SessionNext

(***************************************************************************)
(* The invariant of the admin sessions: no stored session was revoked, and *)
(* each has the age of its login; the failures of an address exceed the    *)
(* limit only by the attempts that could be in flight in each round.       *)
(***************************************************************************)
THEOREM SessionInvariant == SessionSpec => []SessionInv
  BY SessionInitial, SessionStep, PTL DEF SessionSpec

(***************************************************************************)
(* Failed logins, tracked addresses and sessions stay bounded, whatever    *)
(* handlers interleave between AttemptAllowed and RecordFailure.           *)
(***************************************************************************)
THEOREM LockoutHolds == SessionSpec => []LockoutBound
  <1>1. SessionInv => LockoutBound
    <2>. SUFFICES ASSUME SessionInv PROVE LockoutBound
      OBVIOUS
    <2>1. FailuresExact /\ StoreExact
      BY DEF SessionInv
    <2>2. ASSUME NEW a \in DOMAIN failures
          PROVE  failures[a].count <= LockingCount - 1 + Rounds * Cardinality(Browsers)
      <3>1. EntryExact(a)
        BY <2>1, EntryAlone
      <3>2. /\ failures[a].count \in Nat
            /\ failures[a].count >= LockingCount => \E k \in Nat \ {0} : RoundOf(a, k)
        BY <3>1 DEF EntryExact, FailureRecords
      <3>3. /\ LockingCount \in Nat /\ Window \in Nat /\ LockoutDuration \in Nat \ {0}
            /\ Cardinality(Browsers) \in Nat
        BY SessionAssumption, AttemptingFinite DEF LockingCount
      <3>4. Window \div LockoutDuration \in Nat
        <4>1. 0 * LockoutDuration <= Window
          BY <3>3
        <4>. QED  BY <3>3, <4>1, QuotientLargest
      <3>5. Rounds \in Nat /\ Rounds * Cardinality(Browsers) \in Nat
        BY <3>3, <3>4, Distributes DEF Rounds
      <3>6. CASE failures[a].count < LockingCount
        BY <3>2, <3>3, <3>5, <3>6
      <3>7. CASE failures[a].count >= LockingCount
        <4>1. PICK k \in Nat \ {0} : RoundOf(a, k)
          BY <3>2, <3>7
        <4>2. (k - 1) * LockoutDuration <= Window
              /\ failures[a].count <= LockingCount - 1 + k * Cardinality(Browsers)
          BY <4>1 DEF RoundOf, Admitted
        <4>3. k - 1 \in Nat /\ k - 1 <= Window \div LockoutDuration
          <5>1. k - 1 \in Nat
            OBVIOUS
          <5>. QED  BY <3>3, <4>2, <5>1, QuotientLargest
        <4>4. k <= Rounds
          BY <3>4, <4>3 DEF Rounds
        <4>5. k * Cardinality(Browsers) <= Rounds * Cardinality(Browsers)
          BY <3>3, <3>5, <4>4, ProductMonotone
        <4>6. k * Cardinality(Browsers) \in Nat
          BY <3>3, Distributes
        <4>. QED  BY <3>2, <3>3, <3>5, <4>2, <4>5, <4>6
      <3>. QED  BY <3>2, <3>3, <3>6, <3>7
    <2>. QED  BY <2>1, <2>2 DEF LockoutBound, FailuresExact, StoreExact
  <1>. QED  BY <1>1, SessionInvariant, PTL

(***************************************************************************)
(* No step accepts a request on a session that was ended by a logout or a  *)
(* rotation, or that is older than the absolute timeout.                   *)
(***************************************************************************)
THEOREM EndedRefused == SessionSpec => EndedSessionRefused
  <1>. DEFINE Refused == \A b \in Browsers : Accepts(b) =>
            /\ Cookie(b) \notin revoked
            /\ sessionClock - born[Cookie(b)] <= AbsoluteTimeout
  <1>1. SessionInv /\ [SessionNext]_sessionVars => [Refused]_sessionVars
    <2>. SUFFICES ASSUME SessionInv, SessionNext, NEW b \in Browsers, Accepts(b)
                  PROVE  /\ Cookie(b) \notin revoked
                         /\ sessionClock - born[Cookie(b)] <= AbsoluteTimeout
      OBVIOUS
    <2>1. browser \in [Browsers -> BrowserRecords] /\ browser[b].at # "accepted" /\ browser'[b].at = "accepted"
      BY DEF SessionInv, BrowsersOK, Accepts, At
    <2>2. Live(Cookie(b))
      <3>1. ASSUME NEW c \in Browsers, NEW step, GoTo(c, step)
            PROVE  c = b /\ step = "accepted"
        BY <2>1, <3>1 DEF GoTo, BrowserRecords
      <3>2. ASSUME NEW c \in Browsers, NEW cookie, Answer(c, cookie) PROVE FALSE
        BY <2>1, <3>2 DEF Answer, Idle, BrowserRecords
      <3>3. ASSUME NEW c \in Browsers, NEW a \in Addresses, LoginAllowed(c, a) PROVE FALSE
        BY <2>1, <3>3 DEF LoginAllowed, BrowserRecords
      <3>4. ~SessionTick
        BY <2>1 DEF SessionTick
      <3>5. ASSUME NEW c \in Browsers,
                   LoginRejected(c) \/ LoginMalformed(c) \/ Create(c) \/ UnsafeRejected(c)
                   \/ RequestAnswered(c) \/ LogoutRevokes(c) \/ \E d \in Browsers : CopyCookie(c, d)
            PROVE  FALSE
        BY <3>2, <3>5 DEF LoginRejected, LoginMalformed, Create, UnsafeRejected, RequestAnswered,
                          LogoutRevokes, CopyCookie
      <3>6. ASSUME NEW c \in Browsers, LoginMatched(c) \/ LoginRotates(c) \/ LogoutChecked(c) PROVE FALSE
        <4>1. GoTo(c, "rotate") \/ GoTo(c, "create") \/ GoTo(c, "revoke") \/ Answer(c, NoCookie)
          BY <3>6 DEF LoginMatched, LoginRotates, LogoutChecked
        <4>. QED  BY <3>1, <3>2, <4>1
      <3>7. ASSUME NEW c \in Browsers, NEW unsafe \in BOOLEAN, GetSession(c, unsafe)
            PROVE  Live(Cookie(b))
        BY <3>1, <3>2, <3>7 DEF GetSession
      <3>8. ASSUME NEW c \in Browsers, ValidateCSRF(c)
            PROVE  Live(Cookie(b))
        BY <3>1, <3>2, <3>8 DEF ValidateCSRF, TokenMatches
      <3>. QED  BY <3>3, <3>4, <3>5, <3>6, <3>7, <3>8 DEF SessionNext
    <2>3. Cookie(b) \in DOMAIN sessions /\ ~(sessionClock - sessions[Cookie(b)].created > AbsoluteTimeout)
      BY <2>2 DEF Live, IsExpired
    <2>4. /\ Cookie(b) \notin revoked /\ sessions[Cookie(b)] \in SessionRecords
          /\ sessions[Cookie(b)].created = born[Cookie(b)] /\ sessionClock \in Nat
      BY <2>3 DEF SessionInv, StoreExact
    <2>5. sessions[Cookie(b)].created \in Nat
      BY <2>4 DEF SessionRecords
    <2>. QED  BY <2>3, <2>4, <2>5, SessionAssumption
  <1>2. EndedSessionRefused <=> [][Refused]_sessionVars
    BY DEF EndedSessionRefused
  <1>. QED  BY <1>1, <1>2, SessionInvariant, PTL DEF SessionSpec

-----------------------------------------------------------------------------
(***************************************************************************)
(* The request history and its traversal.  TraversalExact speaks of a      *)
(* finished traversal; the invariant says what has been listed of the rows *)
(* its fence admitted when it stands at a bookmark (BookmarkOK), and that  *)
(* none of these rows has gone unless the deletion number moved on         *)
(* (PopulationOK).                                                         *)
(***************************************************************************)
HistoryRows ==
    [id : Nat \ {0}, key : Filters, finished : Nat, bodies : BOOLEAN, seq : Nat \ {0}]

\* No two rows have one ID or one insertion number.
HistoryTableOK ==
    /\ nextSequence \in Nat \ {0} /\ deletionSeq \in Nat
    /\ IsFiniteSet(requests)
    /\ \A r \in requests : r \in HistoryRows /\ r.seq < nextSequence
    /\ \A r, s \in requests : r.id = s.id \/ r.seq = s.seq => r = s

HistoryCursors == [snapshot : Nat, finished : Nat, id : Nat, filter : Filters, deletion : Nat]

Traversals ==
    [at : {"idle", "fence", "query", "more", "bookmark", "complete", "expired"},
     cursor : HistoryCursors, filter : Filters, snapshot : Nat, deletion : Nat,
     listed : Seq(HistoryRows), population : SUBSET Nat, atFence : SUBSET Nat, count : Nat]

Underway == lister.at \in {"query", "more", "bookmark"}

ListedSorted ==
    \A i, j \in DOMAIN lister.listed : i < j => Older(lister.listed[j], lister.listed[i])

(* A row is selected exactly if the fence admitted it, and as long as no   *)
(* row has gone since then, they are all there.                            *)
PopulationOK ==
    lister.at \notin {"idle", "fence"} =>
        /\ lister.population = lister.atFence
        /\ \A n \in lister.population : n <= lister.snapshot
        /\ \A r \in requests :
                r.seq \in lister.population <=> Selects(lister.filter, lister.snapshot, r)
        /\ lister.deletion <= deletionSeq
        /\ lister.deletion = deletionSeq => lister.population \subseteq Numbers(requests)

(* The bookmark separates what is listed from what is not.                 *)
BookmarkOK ==
    Underway =>
        /\ lister.cursor.id = 0 => lister.listed = <<>>
        /\ lister.cursor.id # 0 =>
              /\ lister.cursor.filter = lister.filter
              /\ lister.cursor.snapshot = lister.snapshot
              /\ lister.cursor.deletion = lister.deletion
        /\ \A i \in DOMAIN lister.listed : ~Older(lister.listed[i], lister.cursor)
        /\ \A r \in requests :
                r.seq \in lister.population /\ ~AfterBookmark(r) => r.seq \in Listed

TraversalOK ==
    /\ lister \in Traversals
    /\ lister.snapshot < nextSequence
    /\ lister.at \in {"idle", "fence"} =>
            lister.listed = <<>> /\ lister.cursor = NoCursor
    /\ lister.at = "more" => lister.cursor.id # 0
    /\ ListedSorted
    /\ Listed \subseteq lister.population
    /\ lister.at = "complete" =>
            \A r \in requests : r.seq \in lister.population => r.seq \in Listed

HistoryInv == HistoryTableOK /\ TraversalOK /\ PopulationOK /\ BookmarkOK

-----------------------------------------------------------------------------
(* The numbers that are listed.                                            *)
LEMMA ListedFacts ==
    /\ \A n : n \in Listed <=> \E i \in DOMAIN lister.listed : lister.listed[i].seq = n
    /\ \A list, n : n \in Numbers(list) <=> \E r \in list : r.seq = n
  BY DEF Listed, Numbers, Range

(* An empty table and no traversal.                                        *)
LEMMA HistoryInitial == HistoryInit => HistoryInv
  <1>. SUFFICES ASSUME HistoryInit PROVE HistoryInv
    OBVIOUS
  <1>1. HistoryTableOK
    BY FS_EmptySet DEF HistoryInit, HistoryTableOK
  <1>2. lister = [at |-> "idle", cursor |-> NoCursor, filter |-> NoKey, snapshot |-> 0,
                  deletion |-> 0, listed |-> <<>>, population |-> {}, atFence |-> {}, count |-> 0]
    BY DEF HistoryInit, FreshLister
  <1>3. NoCursor \in HistoryCursors /\ NoKey \in Filters
    BY DEF NoCursor, HistoryCursors, Filters, Unknown, NoKey
  <1>4. lister \in Traversals
    <2>1. <<>> \in Seq(HistoryRows)
      OBVIOUS
    <2>. QED  BY <1>2, <1>3, <2>1 DEF Traversals
  <1>5. lister.at = "idle" /\ lister.listed = <<>> /\ lister.cursor = NoCursor /\ lister.snapshot = 0
    BY <1>2
  <1>6. Listed = {} /\ ListedSorted
    BY <1>5, ListedFacts DEF ListedSorted
  <1>7. TraversalOK
    BY <1>4, <1>5, <1>6 DEF TraversalOK, HistoryInit
  <1>. QED  BY <1>1, <1>5, <1>7 DEF HistoryInv, PopulationOK, BookmarkOK, Underway

(* After the bookmark, in the order of the listing.                        *)
LEMMA AfterFacts ==
    ASSUME NEW r, r.id \in Nat, r.finished \in Nat,
           lister.cursor.id \in Nat, lister.cursor.finished \in Nat
    PROVE  AfterBookmark(r) <=> (lister.cursor.id = 0 \/ Older(r, lister.cursor))
  BY DEF AfterBookmark, Older, Unknown

(* The parts of a traversal.                                               *)
LEMMA TraversalType ==
    ASSUME TraversalOK
    PROVE  /\ lister.cursor \in HistoryCursors /\ lister.filter \in Filters
           /\ lister.snapshot \in Nat /\ lister.deletion \in Nat /\ lister.count \in Nat
           /\ lister.listed \in Seq(HistoryRows)
           /\ lister.cursor.id \in Nat /\ lister.cursor.finished \in Nat
           /\ lister.cursor.snapshot \in Nat /\ lister.cursor.deletion \in Nat
           /\ \A n \in lister.population : n \in Nat
           /\ lister.at \in {"idle", "fence", "query", "more", "bookmark", "complete", "expired"}
  <1>1. lister \in Traversals
    BY DEF TraversalOK
  <1>2. /\ lister.cursor \in HistoryCursors /\ lister.filter \in Filters
        /\ lister.snapshot \in Nat /\ lister.deletion \in Nat /\ lister.count \in Nat
        /\ lister.listed \in Seq(HistoryRows) /\ lister.population \in SUBSET Nat
        /\ lister.at \in {"idle", "fence", "query", "more", "bookmark", "complete", "expired"}
    BY <1>1 DEF Traversals
  <1>3. /\ lister.cursor.id \in Nat /\ lister.cursor.finished \in Nat
        /\ lister.cursor.snapshot \in Nat /\ lister.cursor.deletion \in Nat
    BY <1>2 DEF HistoryCursors
  <1>. QED  BY <1>2, <1>3

-----------------------------------------------------------------------------
(* The table moves: what remains of the rows keeps its ID, key, time and   *)
(* number, a new row has a new number, and a row that goes is counted.     *)
LEMMA TableMoves ==
    ASSUME HistoryInv, HistoryTableOK', lister' = lister, nextSequence <= nextSequence',
           deletionSeq <= deletionSeq',
           \A r \in requests' :
                \/ r.seq >= nextSequence
                \/ \E q \in requests : /\ q.seq = r.seq /\ q.id = r.id
                                       /\ q.key = r.key /\ q.finished = r.finished,
           deletionSeq' = deletionSeq => Numbers(requests) \subseteq Numbers(requests')
    PROVE  HistoryInv'
  <1>1. /\ HistoryTableOK /\ TraversalOK /\ PopulationOK /\ BookmarkOK
        /\ nextSequence \in Nat /\ nextSequence' \in Nat /\ deletionSeq \in Nat /\ deletionSeq' \in Nat
    BY DEF HistoryInv, HistoryTableOK
  <1>2. Listed' = Listed
    BY DEF Listed
  <1>3. ASSUME NEW r \in requests', r.seq <= lister.snapshot
        PROVE  \E q \in requests : /\ q.seq = r.seq /\ q.id = r.id
                                   /\ q.key = r.key /\ q.finished = r.finished
    <2>1. ~(r.seq >= nextSequence)
      <3>1. lister.snapshot \in Nat /\ lister.snapshot < nextSequence /\ r.seq \in Nat
        BY <1>1, TraversalType DEF TraversalOK, HistoryTableOK, HistoryRows
      <3>. QED  BY <1>1, <1>3, <3>1
    <2>. QED  BY <2>1
  <1>4. TraversalOK'
    <2>1. lister.snapshot < nextSequence'
      BY <1>1, TraversalType DEF TraversalOK
    <2>2. ASSUME lister.at = "complete", NEW r \in requests', r.seq \in lister.population
          PROVE  r.seq \in Listed
      <3>1. r.seq <= lister.snapshot
        BY <1>1, <2>2 DEF PopulationOK
      <3>. QED  BY <1>1, <1>3, <2>2, <3>1 DEF TraversalOK
    <2>. QED  BY <1>1, <1>2, <2>1, <2>2 DEF TraversalOK, ListedSorted
  <1>5. PopulationOK'
    <2>. SUFFICES ASSUME lister.at \notin {"idle", "fence"}
                  PROVE  PopulationOK'
      BY DEF PopulationOK
    <2>1. /\ lister.population = lister.atFence
          /\ \A n \in lister.population : n <= lister.snapshot
          /\ \A r \in requests :
                r.seq \in lister.population <=> Selects(lister.filter, lister.snapshot, r)
          /\ lister.deletion <= deletionSeq
          /\ lister.deletion = deletionSeq => lister.population \subseteq Numbers(requests)
      BY <1>1 DEF PopulationOK
    <2>2. ASSUME NEW r \in requests'
          PROVE  r.seq \in lister.population <=> Selects(lister.filter, lister.snapshot, r)
      <3>1. CASE r.seq <= lister.snapshot
        <4>1. PICK q \in requests : q.seq = r.seq /\ q.key = r.key
          BY <1>3, <3>1
        <4>. QED  BY <2>1, <4>1 DEF Selects
      <3>2. CASE ~(r.seq <= lister.snapshot)
        BY <2>1, <3>2 DEF Selects
      <3>. QED  BY <3>1, <3>2
    <2>3. lister.deletion <= deletionSeq'
          /\ (lister.deletion = deletionSeq' => lister.population \subseteq Numbers(requests'))
      <3>1. lister.deletion \in Nat
        BY <1>1, TraversalType
      <3>2. lister.deletion = deletionSeq' => deletionSeq' = deletionSeq
        BY <1>1, <2>1, <3>1
      <3>. QED  BY <1>1, <2>1, <3>1, <3>2
    <2>. QED  BY <2>1, <2>2, <2>3 DEF PopulationOK, Selects
  <1>6. BookmarkOK'
    <2>. SUFFICES ASSUME Underway
                  PROVE  BookmarkOK'
      BY DEF BookmarkOK, Underway
    <2>1. /\ lister.cursor.id = 0 => lister.listed = <<>>
          /\ lister.cursor.id # 0 =>
                /\ lister.cursor.filter = lister.filter
                /\ lister.cursor.snapshot = lister.snapshot
                /\ lister.cursor.deletion = lister.deletion
          /\ \A i \in DOMAIN lister.listed : ~Older(lister.listed[i], lister.cursor)
          /\ \A r \in requests :
                r.seq \in lister.population /\ ~AfterBookmark(r) => r.seq \in Listed
      BY <1>1 DEF BookmarkOK
    <2>2. ASSUME NEW r \in requests', r.seq \in lister.population, ~AfterBookmark(r)
          PROVE  r.seq \in Listed
      <3>1. r.seq <= lister.snapshot
        BY <1>1, <2>2 DEF PopulationOK, Underway
      <3>2. PICK q \in requests : q.seq = r.seq /\ q.id = r.id /\ q.finished = r.finished
        BY <1>3, <3>1
      <3>3. ~AfterBookmark(q)
        BY <2>2, <3>2 DEF AfterBookmark
      <3>. QED  BY <2>1, <2>2, <3>2, <3>3
    <2>3. \A r : AfterBookmark(r)' <=> AfterBookmark(r)
      BY DEF AfterBookmark
    <2>. QED  BY <1>2, <2>1, <2>2, <2>3 DEF BookmarkOK, Older
  <1>. QED  BY <1>4, <1>5, <1>6 DEF HistoryInv

(* Persist numbers a row beyond every fence.                               *)
LEMMA PersistStep ==
    ASSUME HistoryInv, NEW record \in Arrivals, Persist(record)
    PROVE  HistoryInv'
  <1>. DEFINE row == [id |-> record.id, key |-> record.key, finished |-> record.finished,
                      bodies |-> record.bodies, seq |-> nextSequence]
  <1>1. /\ requests' = requests \cup {row} /\ nextSequence' = nextSequence + 1
        /\ deletionSeq' = deletionSeq /\ lister' = lister
        /\ record.key \in Filters /\ \A r \in requests : r.id # record.id
    BY DEF Persist
  <1>2. /\ nextSequence \in Nat \ {0} /\ deletionSeq \in Nat /\ IsFiniteSet(requests)
        /\ \A r \in requests : r \in HistoryRows /\ r.seq < nextSequence /\ r.seq \in Nat
        /\ \A r, s \in requests : r.id = s.id \/ r.seq = s.seq => r = s
    BY DEF HistoryInv, HistoryTableOK, HistoryRows
  <1>3. row \in HistoryRows
    BY <1>1, <1>2, HistoryAssumption DEF HistoryRows
  <1>4. row.seq = nextSequence /\ row.id = record.id
    OBVIOUS
  <1>. HIDE DEF row
  <1>5. HistoryTableOK'
    <2>1. IsFiniteSet(requests')
      BY <1>1, <1>2, FS_AddElement
    <2>2. \A r \in requests' : r \in HistoryRows /\ r.seq < nextSequence'
      BY <1>1, <1>2, <1>3, <1>4
    <2>3. \A r \in requests : r.id # row.id /\ r.seq # row.seq
      BY <1>1, <1>2, <1>4
    <2>4. \A r, s \in requests' : r.id = s.id \/ r.seq = s.seq => r = s
      BY <1>1, <1>2, <2>3
    <2>. QED  BY <1>1, <1>2, <2>1, <2>2, <2>4 DEF HistoryTableOK
  <1>6. Numbers(requests) \subseteq Numbers(requests')
    BY <1>1 DEF Numbers
  <1>7. nextSequence <= nextSequence' /\ deletionSeq <= deletionSeq'
    BY <1>1, <1>2
  <1>8. \A r \in requests' : r.seq >= nextSequence \/ r \in requests
    BY <1>1, <1>2, <1>4
  <1>. QED  BY <1>1, <1>5, <1>6, <1>7, <1>8, TableMoves

(* DeleteBodiesBefore touches no row's identity.                           *)
LEMMA DeleteBodiesStep ==
    ASSUME HistoryInv, NEW b, NEW c, DeleteBodiesBefore(b, c)
    PROVE  HistoryInv'
  <1>. DEFINE due == OldestOf({r \in Before(b) : r.bodies}, RetentionLimit)
              After(r) == IF r \in due THEN [r EXCEPT !.bodies = FALSE] ELSE r
              f == [r \in requests |-> After(r)]
  <1>1. /\ requests' = {After(r) : r \in requests}
        /\ nextSequence' = nextSequence /\ deletionSeq' = deletionSeq /\ lister' = lister
    BY DEF DeleteBodiesBefore
  <1>2. /\ nextSequence \in Nat \ {0} /\ deletionSeq \in Nat /\ IsFiniteSet(requests)
        /\ \A r \in requests : r \in HistoryRows /\ r.seq < nextSequence
        /\ \A r, s \in requests : r.id = s.id \/ r.seq = s.seq => r = s
    BY DEF HistoryInv, HistoryTableOK
  <1>. HIDE DEF due
  <1>3. ASSUME NEW r \in requests
        PROVE  /\ After(r) \in HistoryRows /\ After(r).seq = r.seq /\ After(r).id = r.id
               /\ After(r).key = r.key /\ After(r).finished = r.finished
    BY <1>2 DEF HistoryRows
  <1>. HIDE DEF After
  <1>4. f \in Surjection(requests, requests')
    BY <1>1 DEF Surjection
  <1>5. IsFiniteSet(requests')
    BY <1>2, <1>4, FS_Surjection
  <1>6. \A r \in requests' : r \in HistoryRows /\ r.seq < nextSequence'
    BY <1>1, <1>2, <1>3
  <1>7. \A r, s \in requests' : r.id = s.id \/ r.seq = s.seq => r = s
    <2>. SUFFICES ASSUME NEW r \in requests', NEW s \in requests', r.id = s.id \/ r.seq = s.seq
                  PROVE  r = s
      OBVIOUS
    <2>1. PICK p \in requests, q \in requests : r = After(p) /\ s = After(q)
      BY <1>1
    <2>2. p.id = q.id \/ p.seq = q.seq
      BY <1>3, <2>1
    <2>. QED  BY <1>2, <2>1, <2>2
  <1>8. HistoryTableOK'
    BY <1>1, <1>2, <1>5, <1>6, <1>7 DEF HistoryTableOK
  <1>9. Numbers(requests) \subseteq Numbers(requests')
    BY <1>1, <1>3, ListedFacts
  <1>10. ASSUME NEW r \in requests'
         PROVE  \E q \in requests : /\ q.seq = r.seq /\ q.id = r.id
                                    /\ q.key = r.key /\ q.finished = r.finished
    <2>1. PICK q \in requests : r = After(q)
      BY <1>1
    <2>. QED  BY <1>3, <2>1
  <1>11. nextSequence <= nextSequence' /\ deletionSeq <= deletionSeq'
    BY <1>1, <1>2
  <1>. QED  BY <1>1, <1>8, <1>9, <1>10, <1>11, TableMoves

(* DeleteMetadataBefore counts every row it removes.                       *)
LEMMA DeleteMetadataStep ==
    ASSUME HistoryInv, DeleteMetadataBefore
    PROVE  HistoryInv'
  <1>. DEFINE due == OldestOf(Before(retention.cutoff), RetentionLimit)
  <1>1. /\ requests' = requests \ due /\ deletionSeq' = deletionSeq + Cardinality(due)
        /\ nextSequence' = nextSequence /\ lister' = lister
    BY DEF DeleteMetadataBefore
  <1>2. /\ nextSequence \in Nat \ {0} /\ deletionSeq \in Nat /\ IsFiniteSet(requests)
        /\ \A r \in requests : r \in HistoryRows /\ r.seq < nextSequence
        /\ \A r, s \in requests : r.id = s.id \/ r.seq = s.seq => r = s
    BY DEF HistoryInv, HistoryTableOK
  <1>3. due \subseteq requests
    BY DEF OldestOf, Before
  <1>. HIDE DEF due
  <1>4. IsFiniteSet(due) /\ Cardinality(due) \in Nat /\ (Cardinality(due) = 0 => due = {})
    BY <1>2, <1>3, FS_Subset, FS_CardinalityType, FS_EmptySet
  <1>5. HistoryTableOK'
    <2>1. IsFiniteSet(requests')
      BY <1>1, <1>2, FS_Subset
    <2>. QED  BY <1>1, <1>2, <1>4, <2>1 DEF HistoryTableOK
  <1>6. deletionSeq' = deletionSeq => Numbers(requests) \subseteq Numbers(requests')
    <2>1. deletionSeq' = deletionSeq => Cardinality(due) = 0
      BY <1>1, <1>2, <1>4
    <2>. QED  BY <1>1, <1>4, <2>1
  <1>7. nextSequence <= nextSequence' /\ deletionSeq <= deletionSeq'
    BY <1>1, <1>2, <1>4
  <1>. QED  BY <1>1, <1>5, <1>6, <1>7, TableMoves

-----------------------------------------------------------------------------
(* The traversal.                                                          *)

(* The high-water mark of the insertions.                                  *)
LEMMA MaxSequenceFacts ==
    ASSUME HistoryTableOK
    PROVE  MaxSequence \in Nat /\ MaxSequence < nextSequence
  <1>. DEFINE S == {0} \cup Numbers(requests)
  <1>1. /\ nextSequence \in Nat \ {0} /\ IsFiniteSet(requests)
        /\ \A r \in requests : r.seq \in Nat /\ r.seq < nextSequence
    BY DEF HistoryTableOK, HistoryRows
  <1>2. IsFiniteSet(Numbers(requests))
    <2>. DEFINE f == [r \in requests |-> r.seq]
    <2>1. f \in Surjection(requests, Numbers(requests))
      BY DEF Surjection, Numbers
    <2>. QED  BY <1>1, <2>1, FS_Surjection
  <1>3. IsFiniteSet(S)
    BY <1>2, FS_Singleton, FS_Union
  <1>4. S # {} /\ \A x \in S : x \in Nat /\ x < nextSequence
    BY <1>1 DEF Numbers
  <1>5. Max(S) \in S
    <2>. HIDE DEF S
    <2>. QED  BY <1>3, <1>4, MaxFacts
  <1>6. MaxSequence = Max(S)
    BY DEF MaxSequence
  <1>. HIDE DEF S
  <1>. QED  BY <1>4, <1>5, <1>6

(* The client begins, or starts over.                                      *)
LEMMA FreshStep ==
    ASSUME HistoryInv, UNCHANGED <<requests, nextSequence, deletionSeq>>,
           NEW at \in {"idle", "fence"}, NEW filter \in Filters, NEW snapshot \in Nat,
           snapshot < nextSequence, NEW count \in Nat,
           lister' = [at |-> at, cursor |-> NoCursor, filter |-> filter, snapshot |-> snapshot,
                      deletion |-> 0, listed |-> <<>>, population |-> {}, atFence |-> {},
                      count |-> count]
    PROVE  HistoryInv'
  <1>1. HistoryTableOK'
    BY DEF HistoryInv, HistoryTableOK
  <1>2. NoCursor \in HistoryCursors
    BY DEF NoCursor, HistoryCursors, Filters, Unknown, NoKey
  <1>3. lister' \in Traversals
    <2>1. <<>> \in Seq(HistoryRows)
      OBVIOUS
    <2>. QED  BY <1>2, <2>1 DEF Traversals
  <1>4. lister'.at = at /\ lister'.listed = <<>> /\ lister'.cursor = NoCursor /\ lister'.snapshot = snapshot
    OBVIOUS
  <1>5. Listed' = {} /\ ListedSorted'
    BY <1>4 DEF ListedSorted, Listed, Numbers, Range
  <1>6. TraversalOK'
    BY <1>3, <1>4, <1>5 DEF TraversalOK
  <1>. QED  BY <1>1, <1>4, <1>6 DEF HistoryInv, PopulationOK, BookmarkOK, Underway

(* A traversal begins at its fence with nothing listed.                    *)
LEMMA BeginTraversalStep ==
    ASSUME HistoryInv, NEW filter \in Filters, BeginTraversal(filter)
    PROVE  HistoryInv'
  <1>1. lister' = [at |-> "fence", cursor |-> NoCursor, filter |-> filter, snapshot |-> MaxSequence,
                   deletion |-> 0, listed |-> <<>>, population |-> {}, atFence |-> {},
                   count |-> lister.count + 1]
    BY DEF BeginTraversal, FreshLister
  <1>2. MaxSequence \in Nat /\ MaxSequence < nextSequence /\ lister.count + 1 \in Nat
    BY MaxSequenceFacts, TraversalType DEF HistoryInv
  <1>3. UNCHANGED <<requests, nextSequence, deletionSeq>>
    BY DEF BeginTraversal
  <1>. HIDE DEF MaxSequence
  <1>. QED  BY <1>1, <1>2, <1>3, FreshStep

(* A traversal that ended leaves nothing behind.                           *)
LEMMA EndTraversalStep ==
    ASSUME HistoryInv, EndTraversal
    PROVE  HistoryInv'
  <1>1. lister' = [at |-> "idle", cursor |-> NoCursor, filter |-> NoKey, snapshot |-> 0,
                   deletion |-> 0, listed |-> <<>>, population |-> {}, atFence |-> {},
                   count |-> lister.count]
    BY DEF EndTraversal, FreshLister
  <1>2. NoKey \in Filters /\ 0 < nextSequence /\ lister.count \in Nat
    BY TraversalType DEF HistoryInv, HistoryTableOK, Filters
  <1>3. UNCHANGED <<requests, nextSequence, deletionSeq>>
    BY DEF EndTraversal
  <1>. QED  BY <1>1, <1>2, <1>3, FreshStep

(* The fence is read: the rows it admits are the population.               *)
LEMMA ReadFenceStep ==
    ASSUME HistoryInv, ReadFence
    PROVE  HistoryInv'
  <1>. DEFINE list == Numbers(Selected(lister.filter, lister.snapshot))
  <1>1. /\ lister.at = "fence" /\ UNCHANGED <<requests, nextSequence, deletionSeq>>
        /\ lister' = [lister EXCEPT !.at = "query", !.deletion = deletionSeq,
                          !.population = list, !.atFence = list]
    BY DEF ReadFence
  <1>2. HistoryTableOK /\ HistoryTableOK' /\ TraversalOK /\ lister \in Traversals
    BY <1>1 DEF HistoryInv, HistoryTableOK, TraversalOK
  <1>3. /\ \A r \in requests : r.seq \in Nat /\ r \in HistoryRows
        /\ \A r, s \in requests : r.seq = s.seq => r = s
        /\ deletionSeq \in Nat
    BY <1>2 DEF HistoryTableOK, HistoryRows
  <1>4. \A n : n \in list <=> \E r \in requests : r.seq = n /\ Selects(lister.filter, lister.snapshot, r)
    BY DEF Numbers, Selected
  <1>5. list \in SUBSET Nat
    BY <1>3, <1>4
  <1>. HIDE DEF list
  <1>6. lister' \in Traversals
    BY <1>1, <1>2, <1>3, <1>5 DEF Traversals
  <1>7. /\ lister'.at = "query" /\ lister'.deletion = deletionSeq /\ lister'.population = list
        /\ lister'.atFence = list /\ lister'.listed = <<>> /\ lister'.cursor = NoCursor
        /\ lister'.snapshot = lister.snapshot /\ lister'.filter = lister.filter
        /\ lister.snapshot < nextSequence
    BY <1>1, <1>2 DEF Traversals, TraversalOK
  <1>8. Listed' = {} /\ ListedSorted'
    BY <1>7 DEF ListedSorted, Listed, Numbers, Range
  <1>9. TraversalOK'
    BY <1>1, <1>6, <1>7, <1>8 DEF TraversalOK
  <1>10. PopulationOK'
    <2>1. \A n \in list : n <= lister.snapshot
      BY <1>4 DEF Selects
    <2>2. \A r \in requests : r.seq \in list <=> Selects(lister.filter, lister.snapshot, r)
      BY <1>3, <1>4
    <2>3. list \subseteq Numbers(requests)
      BY <1>4 DEF Numbers
    <2>. QED  BY <1>1, <1>3, <1>7, <2>1, <2>2, <2>3 DEF PopulationOK, Selects
  <1>11. BookmarkOK'
    <2>1. lister'.cursor.id = 0 /\ lister'.listed = <<>>
      BY <1>7 DEF NoCursor
    <2>2. \A r : AfterBookmark(r)'
      BY <2>1 DEF AfterBookmark
    <2>. QED  BY <2>1, <2>2 DEF BookmarkOK
  <1>. QED  BY <1>2, <1>9, <1>10, <1>11 DEF HistoryInv

(* The traversal goes on within its fence, or its cursor has expired.      *)
LEMMA MovesOn ==
    ASSUME HistoryInv, Underway, UNCHANGED <<requests, nextSequence, deletionSeq>>,
           lister' \in Traversals, lister'.at \in {"query", "bookmark", "expired"},
           lister'.cursor = lister.cursor, lister'.filter = lister.filter,
           lister'.snapshot = lister.snapshot, lister'.deletion = lister.deletion,
           lister'.listed = lister.listed, lister'.population = lister.population,
           lister'.atFence = lister.atFence
    PROVE  HistoryInv'
  <1>1. HistoryTableOK'
    BY DEF HistoryInv, HistoryTableOK
  <1>2. Listed' = Listed
    BY DEF Listed
  <1>3. TraversalOK'
    BY <1>2 DEF HistoryInv, TraversalOK, ListedSorted
  <1>4. PopulationOK'
    BY DEF HistoryInv, PopulationOK, Underway, Selects
  <1>5. BookmarkOK'
    <2>1. \A r : AfterBookmark(r)' <=> AfterBookmark(r)
      BY DEF AfterBookmark
    <2>. QED  BY <1>2, <2>1 DEF HistoryInv, BookmarkOK, Older
  <1>. QED  BY <1>1, <1>3, <1>4, <1>5 DEF HistoryInv

(* A step that changes neither the table nor the traversal keeps the       *)
(* invariant.                                                              *)
LEMMA HistoryUnchanged ==
    ASSUME HistoryInv, UNCHANGED <<requests, nextSequence, deletionSeq, lister>>
    PROVE  HistoryInv'
  BY DEF HistoryInv, HistoryTableOK, TraversalOK, PopulationOK, BookmarkOK, Underway,
         ListedSorted, Listed, Selects, AfterBookmark, Older

(* A later page: the fence it reads is the one of its cursor.              *)
LEMMA ContinueStep ==
    ASSUME HistoryInv, NEW filter \in Filters, Continue(filter)
    PROVE  HistoryInv'
  <1>1. lister.at = "more" /\ UNCHANGED <<requests, nextSequence, deletionSeq>>
    BY DEF Continue
  <1>2. /\ lister \in Traversals /\ Underway
        /\ lister.cursor.filter = lister.filter /\ lister.cursor.snapshot = lister.snapshot
        /\ lister.cursor.deletion = lister.deletion
    BY <1>1 DEF HistoryInv, TraversalOK, BookmarkOK, Underway
  <1>3. CASE filter # lister.cursor.filter
    BY <1>1, <1>3, HistoryUnchanged DEF Continue
  <1>4. CASE filter = lister.cursor.filter /\ ~FenceHolds
    <2>1. lister' = [lister EXCEPT !.at = "expired"]
      BY <1>4 DEF Continue
    <2>2. /\ lister' \in Traversals /\ lister'.at = "expired"
          /\ lister'.cursor = lister.cursor /\ lister'.filter = lister.filter
          /\ lister'.snapshot = lister.snapshot /\ lister'.deletion = lister.deletion
          /\ lister'.listed = lister.listed /\ lister'.population = lister.population
          /\ lister'.atFence = lister.atFence
      BY <1>2, <2>1 DEF Traversals
    <2>. QED  BY <1>1, <1>2, <2>2, MovesOn
  <1>5. CASE filter = lister.cursor.filter /\ FenceHolds
    <2>. DEFINE list == Numbers(Selected(lister.filter, lister.snapshot))
    <2>1. lister' = [lister EXCEPT !.at = "bookmark", !.snapshot = lister.snapshot,
                           !.deletion = deletionSeq, !.atFence = list]
      BY <1>2, <1>5 DEF Continue
    <2>2. deletionSeq = lister.deletion
      BY <1>2, <1>5 DEF FenceHolds
    <2>3. list = lister.population
      <3>1. /\ \A r \in requests :
                  r.seq \in lister.population <=> Selects(lister.filter, lister.snapshot, r)
            /\ lister.population \subseteq Numbers(requests)
        BY <1>1, <2>2 DEF HistoryInv, PopulationOK
      <3>2. \A n : n \in list <=> \E r \in requests : r.seq = n /\ Selects(lister.filter, lister.snapshot, r)
        BY DEF Numbers, Selected
      <3>3. \A n \in lister.population : \E r \in requests : r.seq = n
        BY <3>1 DEF Numbers
      <3>. HIDE DEF list
      <3>4. \A n : n \in list => n \in lister.population
        BY <3>1, <3>2
      <3>5. \A n : n \in lister.population => n \in list
        BY <3>1, <3>2, <3>3
      <3>. QED  BY <3>4, <3>5
    <2>4. lister.population = lister.atFence
      BY <1>1 DEF HistoryInv, PopulationOK
    <2>. HIDE DEF list
    <2>5. /\ lister' \in Traversals /\ lister'.at = "bookmark"
          /\ lister'.cursor = lister.cursor /\ lister'.filter = lister.filter
          /\ lister'.snapshot = lister.snapshot /\ lister'.deletion = lister.deletion
          /\ lister'.listed = lister.listed /\ lister'.population = lister.population
          /\ lister'.atFence = lister.atFence
      BY <1>2, <2>1, <2>2, <2>3, <2>4 DEF Traversals
    <2>. QED  BY <1>1, <1>2, <2>5, MovesOn
  <1>. QED  BY <1>3, <1>4, <1>5

(* The traversal goes on from its bookmark, or has expired when the row of *)
(* the bookmark is gone.                                                   *)
LEMMA CheckBookmarkStep ==
    ASSUME HistoryInv, CheckBookmark
    PROVE  HistoryInv'
  <1>1. /\ lister.at = "bookmark" /\ UNCHANGED <<requests, nextSequence, deletionSeq>>
        /\ \E at \in {"query", "expired"} : lister' = [lister EXCEPT !.at = at]
    BY DEF CheckBookmark
  <1>2. lister \in Traversals /\ Underway
    BY <1>1 DEF HistoryInv, TraversalOK, Underway
  <1>3. PICK at \in {"query", "expired"} : lister' = [lister EXCEPT !.at = at]
    BY <1>1
  <1>4. /\ lister' \in Traversals /\ lister'.at = at
        /\ lister'.cursor = lister.cursor /\ lister'.filter = lister.filter
        /\ lister'.snapshot = lister.snapshot /\ lister'.deletion = lister.deletion
        /\ lister'.listed = lister.listed /\ lister'.population = lister.population
        /\ lister'.atFence = lister.atFence
    BY <1>2, <1>3 DEF Traversals
  <1>. QED  BY <1>1, <1>2, <1>4, MovesOn

-----------------------------------------------------------------------------
(* The query.                                                              *)

(* Rows are ordered strictly and totally by (finished_at, request_id).     *)
LEMMA OlderOrders ==
    ASSUME HistoryTableOK
    PROVE  /\ \A r \in requests : r.id \in Nat /\ r.finished \in Nat
           /\ \A r \in requests : ~Older(r, r)
           /\ \A r, s, t \in requests : Older(r, s) /\ Older(s, t) => Older(r, t)
           /\ \A r, s \in requests : r = s \/ Older(r, s) \/ Older(s, r)
  <1>1. \A r \in requests : r.id \in Nat /\ r.finished \in Nat
    BY DEF HistoryTableOK, HistoryRows
  <1>2. \A r, s \in requests : r.id = s.id => r = s
    BY DEF HistoryTableOK
  <1>3. \A r, s, t \in requests : Older(r, s) /\ Older(s, t) => Older(r, t)
    BY <1>1 DEF Older
  <1>4. \A r, s \in requests : r = s \/ Older(r, s) \/ Older(s, r)
    BY <1>1, <1>2 DEF Older
  <1>. QED  BY <1>1, <1>3, <1>4 DEF Older

(* NewestFirst enumerates a set of rows in that order.                     *)
LEMMA NewestFirstFacts ==
    ASSUME HistoryTableOK, NEW list, list \subseteq requests
    PROVE  /\ Cardinality(list) \in Nat /\ IsFiniteSet(list)
           /\ NewestFirst(list) \in [1 .. Cardinality(list) -> list]
           /\ \A r \in list : \E i \in 1 .. Cardinality(list) : NewestFirst(list)[i] = r
           /\ \A i, j \in 1 .. Cardinality(list) :
                i < j => Older(NewestFirst(list)[j], NewestFirst(list)[i])
  <1>. DEFINE R == {p \in list \X list : Older(p[2], p[1])}
              n == Cardinality(list)
  <1>1. IsFiniteSet(list) /\ n \in Nat
    BY FS_Subset, FS_CardinalityType DEF HistoryTableOK
  <1>2. \A r, s \in list : <<r, s>> \in R <=> Older(s, r)
    OBVIOUS
  <1>3. StrictOrder(R, list)
    <2>. HIDE DEF R
    <2>. QED  BY <1>2, OlderOrders DEF StrictOrder
  <1>4. \A r \in list : Place(r, list) = 1 + Cardinality(Ahead(R, list, r))
    <2>1. \A r \in list : {s \in list : Older(r, s)} = Ahead(R, list, r)
      BY <1>2 DEF Ahead
    <2>. QED  BY <2>1 DEF Place
  <1>5. /\ \A r \in list : Place(r, list) \in 1 .. n
        /\ \A r, s \in list : <<r, s>> \in R <=>
                Cardinality(Ahead(R, list, r)) < Cardinality(Ahead(R, list, s))
        /\ \A i \in 1 .. n : \E r \in list : Place(r, list) = i
    <2>. HIDE DEF R
    <2>. QED  BY <1>1, <1>3, <1>4, Ranks
  <1>6. \A r, s \in list : Older(s, r) <=> Place(r, list) < Place(s, list)
    <2>1. \A r \in list : Cardinality(Ahead(R, list, r)) \in Nat
      <3>1. \A r \in list : Ahead(R, list, r) \subseteq list
        BY DEF Ahead
      <3>. HIDE DEF R
      <3>. QED  BY <3>1, <1>1, FS_Subset, FS_CardinalityType
    <2>. HIDE DEF R
    <2>2. ASSUME NEW r \in list, NEW s \in list
          PROVE  Older(s, r) <=> Place(r, list) < Place(s, list)
      <3>1. Place(r, list) = 1 + Cardinality(Ahead(R, list, r))
            /\ Place(s, list) = 1 + Cardinality(Ahead(R, list, s))
        BY <1>4
      <3>2. Older(s, r) <=> Cardinality(Ahead(R, list, r)) < Cardinality(Ahead(R, list, s))
        BY <1>2, <1>5
      <3>. QED  BY <3>1, <3>2, <2>1
    <2>. QED  BY <2>2
  <1>. HIDE DEF R
  <1>7. \A i \in 1 .. n : NewestFirst(list)[i] \in list /\ Place(NewestFirst(list)[i], list) = i
    BY <1>5 DEF NewestFirst
  <1>8. NewestFirst(list) \in [1 .. n -> list]
    BY <1>5 DEF NewestFirst
  <1>9. ASSUME NEW i \in 1 .. n, NEW j \in 1 .. n, i < j
        PROVE  Older(NewestFirst(list)[j], NewestFirst(list)[i])
    BY <1>6, <1>7, <1>9
  <1>10. ASSUME NEW r \in list
         PROVE  \E i \in 1 .. n : NewestFirst(list)[i] = r
    <2>1. Place(r, list) \in 1 .. n
      BY <1>5
    <2>2. PICK i \in 1 .. n : i = Place(r, list)
      BY <2>1
    <2>3. Place(NewestFirst(list)[i], list) = Place(r, list) /\ NewestFirst(list)[i] \in list
      BY <1>7, <2>2
    <2>4. ~Older(NewestFirst(list)[i], r) /\ ~Older(r, NewestFirst(list)[i])
      <3>1. Place(r, list) \in Nat
        BY <2>1, <1>1
      <3>. QED  BY <1>6, <2>3, <3>1
    <2>5. NewestFirst(list)[i] = r
      BY <2>3, <2>4, OlderOrders
    <2>. QED  BY <2>5
  <1>. QED  BY <1>1, <1>8, <1>9, <1>10

(* What remains is older than what is listed.                              *)
LEMMA RemainingFacts ==
    ASSUME HistoryInv, lister.at = "query"
    PROVE  /\ Remaining \subseteq requests
           /\ \A r \in Remaining : r.seq \in lister.population /\ r \in HistoryRows
           /\ \A r \in requests : r.seq \in lister.population /\ r \notin Remaining => r.seq \in Listed
           /\ \A r \in Remaining : \A i \in DOMAIN lister.listed : Older(r, lister.listed[i])
  <1>1. /\ HistoryTableOK /\ TraversalOK /\ PopulationOK /\ BookmarkOK /\ Underway
        /\ \A r \in requests :
              r.seq \in lister.population <=> Selects(lister.filter, lister.snapshot, r)
        /\ \A r \in requests : r \in HistoryRows
    BY DEF HistoryInv, PopulationOK, HistoryTableOK, Underway
  <1>2. \A r : r \in Remaining <=>
            r \in requests /\ Selects(lister.filter, lister.snapshot, r) /\ AfterBookmark(r)
    BY DEF Remaining, Selected
  <1>3. /\ \A r \in requests : r.seq \in lister.population /\ ~AfterBookmark(r) => r.seq \in Listed
        /\ lister.cursor.id = 0 => lister.listed = <<>>
        /\ \A i \in DOMAIN lister.listed : ~Older(lister.listed[i], lister.cursor)
    BY <1>1 DEF BookmarkOK
  <1>4. ASSUME NEW r \in Remaining, NEW i \in DOMAIN lister.listed
        PROVE  Older(r, lister.listed[i])
    <2>1. /\ lister.listed \in Seq(HistoryRows) /\ lister.cursor.id \in Nat
          /\ lister.cursor.finished \in Nat
      BY <1>1, TraversalType
    <2>2. r.id \in Nat /\ r.finished \in Nat
      BY <1>1, <1>2, <1>4 DEF HistoryRows
    <2>3. lister.listed[i] \in HistoryRows
      BY <1>4, <2>1
    <2>4. lister.listed[i].id \in Nat /\ lister.listed[i].finished \in Nat
      BY <2>3 DEF HistoryRows
    <2>5. lister.cursor.id # 0
      BY <1>3, <1>4
    <2>6. Older(r, lister.cursor)
      BY <1>2, <1>4, <2>1, <2>2, <2>5, AfterFacts
    <2>7. ~Older(lister.listed[i], lister.cursor)
      BY <1>3, <1>4
    <2>. QED  BY <2>1, <2>2, <2>4, <2>6, <2>7 DEF Older
  <1>. QED  BY <1>1, <1>2, <1>3, <1>4

(* The first rows of what remains are appended: the listing stays sorted   *)
(* and within the population.                                              *)
LEMMA RowsAppended ==
    ASSUME HistoryInv, lister.at = "query", NEW n \in Nat, n <= Cardinality(Remaining),
           NEW t \in Seq(HistoryRows), Len(t) = n,
           \A i \in 1 .. n : t[i] = NewestFirst(Remaining)[i],
           lister'.listed = lister.listed \o t
    PROVE  /\ lister'.listed \in Seq(HistoryRows)
           /\ \A x \in Range(lister'.listed) : x \in Range(lister.listed) \/ x \in Range(t)
           /\ \A m : m \in Listed' <=> m \in Listed \/ \E i \in 1 .. n : t[i].seq = m
           /\ \A i \in 1 .. n : t[i] \in Remaining
           /\ ListedSorted'
  <1>. DEFINE list == NewestFirst(Remaining)
  <1>s. PICK s : s = lister.listed
    OBVIOUS
  <1>u. PICK u : u = lister'.listed
    OBVIOUS
  <1>0. Remaining \subseteq requests /\ HistoryTableOK
    BY RemainingFacts DEF HistoryInv
  <1>1. /\ Cardinality(Remaining) \in Nat
        /\ list \in [1 .. Cardinality(Remaining) -> Remaining]
        /\ \A i, j \in 1 .. Cardinality(Remaining) : i < j => Older(list[j], list[i])
    BY <1>0, NewestFirstFacts
  <1>2. s \in Seq(HistoryRows) /\ Len(s) \in Nat /\ DOMAIN s = 1 .. Len(s) /\ DOMAIN t = 1 .. n
    <2>1. s \in Seq(HistoryRows)
      BY <1>s, TraversalType DEF HistoryInv
    <2>. QED  BY <2>1
  <1>3. /\ u \in Seq(HistoryRows) /\ DOMAIN u = 1 .. Len(s) + n
        /\ \A i \in 1 .. Len(s) + n : u[i] = IF i <= Len(s) THEN s[i] ELSE t[i - Len(s)]
        /\ Range(u) = Range(s) \cup Range(t)
    <2>1. s \in Seq(HistoryRows) /\ u = s \o t /\ t \in Seq(HistoryRows)
      BY <1>2, <1>s, <1>u
    <2>2. u \in Seq(HistoryRows) /\ DOMAIN u = 1 .. Len(s) + Len(t) /\ Len(s) \in Nat /\ Len(t) \in Nat
      BY ONLY <2>1
    <2>3. \A i \in 1 .. Len(s) + Len(t) : u[i] = IF i <= Len(s) THEN s[i] ELSE t[i - Len(s)]
      BY ONLY <2>1
    <2>4. DOMAIN s = 1 .. Len(s) /\ DOMAIN t = 1 .. Len(t)
      BY ONLY <2>1
    <2>5. Range(u) = Range(s) \cup Range(t)
      BY ONLY <2>2, <2>3, <2>4, RangeAppended
    <2>6. DOMAIN u = 1 .. Len(s) + n
          /\ \A i \in 1 .. Len(s) + n : u[i] = IF i <= Len(s) THEN s[i] ELSE t[i - Len(s)]
      BY <2>2, <2>3
    <2>. QED  BY <2>2, <2>5, <2>6
  <1>4. \A m : m \in Listed' <=> m \in Listed \/ \E i \in 1 .. n : t[i].seq = m
    <2>1. Listed' = Numbers(Range(u)) /\ Listed = Numbers(Range(s))
      BY <1>s, <1>u DEF Listed, Numbers
    <2>2. \A m : m \in Numbers(Range(u)) <=> m \in Numbers(Range(s)) \/ m \in Numbers(Range(t))
      BY <1>3 DEF Numbers
    <2>3. \A m : m \in Numbers(Range(t)) <=> \E i \in 1 .. n : t[i].seq = m
      BY <1>2 DEF Numbers, Range
    <2>. QED  BY <2>1, <2>2, <2>3
  <1>5. \A i \in 1 .. n : t[i] \in Remaining
    <2>. SUFFICES ASSUME NEW i \in 1 .. n
                  PROVE  t[i] \in Remaining
      OBVIOUS
    <2>1. i \in 1 .. Cardinality(Remaining) /\ t[i] = list[i]
      BY <1>1
    <2>. HIDE DEF list
    <2>. QED  BY <1>1, <2>1
  <1>6. ASSUME NEW i \in 1 .. Len(s) + n, NEW j \in 1 .. Len(s) + n, i < j
        PROVE  Older(u[j], u[i])
    <2>1. CASE j <= Len(s)
      <3>1. i \in DOMAIN s /\ j \in DOMAIN s /\ u[i] = s[i] /\ u[j] = s[j]
        BY <1>2, <1>3, <1>6, <2>1
      <3>2. ListedSorted
        BY DEF HistoryInv, TraversalOK
      <3>. QED  BY <1>s, <3>1, <3>2, <1>6 DEF ListedSorted
    <2>2. CASE i <= Len(s) /\ ~(j <= Len(s))
      <3>1. i \in DOMAIN s /\ u[i] = s[i] /\ j - Len(s) \in 1 .. n
            /\ u[j] = t[j - Len(s)]
        BY ONLY <1>2, <1>3, <2>2
      <3>2. t[j - Len(s)] \in Remaining
        BY <3>1, <1>5
      <3>. QED  BY <1>s, <3>1, <3>2, RemainingFacts
    <2>3. CASE ~(i <= Len(s)) /\ ~(j <= Len(s))
      <3>1. /\ i - Len(s) \in 1 .. n /\ j - Len(s) \in 1 .. n /\ i - Len(s) < j - Len(s)
            /\ u[i] = t[i - Len(s)] /\ u[j] = t[j - Len(s)]
        BY ONLY <1>2, <1>3, <1>6, <2>3
      <3>2. i - Len(s) \in 1 .. Cardinality(Remaining) /\ j - Len(s) \in 1 .. Cardinality(Remaining)
        BY <3>1, <1>1
      <3>3. Older(list[j - Len(s)], list[i - Len(s)])
        BY <3>1, <3>2, <1>1
      <3>. QED  BY <3>1, <3>3
    <2>. QED  BY <1>2, <1>6, <2>1, <2>2, <2>3
  <1>7. ListedSorted'
    BY <1>u, <1>3, <1>6 DEF ListedSorted, Older
  <1>8. \A x \in Range(lister'.listed) : x \in Range(lister.listed) \/ x \in Range(t)
    BY <1>s, <1>u, <1>3
  <1>. QED  BY <1>u, <1>3, <1>4, <1>5, <1>7, <1>8

(* The page that is returned, and the bookmark that follows it.            *)
LEMMA QueryStep ==
    ASSUME HistoryInv, Query
    PROVE  HistoryInv'
  <1>. DEFINE list == NewestFirst(Remaining)
              n == Cardinality(Remaining)
              last == list[PageLimit]
  <1>1. lister.at = "query" /\ UNCHANGED <<requests, nextSequence, deletionSeq>>
    BY DEF Query
  <1>2. /\ HistoryTableOK /\ HistoryTableOK' /\ TraversalOK /\ lister \in Traversals
        /\ \A r \in requests : r \in HistoryRows
    BY <1>1 DEF HistoryInv, HistoryTableOK, TraversalOK
  <1>3. /\ Remaining \subseteq requests
        /\ \A r \in Remaining : r.seq \in lister.population /\ r \in HistoryRows
        /\ \A r \in requests : r.seq \in lister.population /\ r \notin Remaining => r.seq \in Listed
        /\ \A r \in Remaining : \A i \in DOMAIN lister.listed : Older(r, lister.listed[i])
    BY <1>1, RemainingFacts
  <1>4. /\ n \in Nat /\ list \in [1 .. n -> Remaining]
        /\ \A r \in Remaining : \E i \in 1 .. n : list[i] = r
        /\ \A i, j \in 1 .. n : i < j => Older(list[j], list[i])
    BY <1>2, <1>3, NewestFirstFacts
  <1>5. list \in Seq(HistoryRows) /\ Len(list) = n
    <2>1. list \in [1 .. n -> HistoryRows]
      BY <1>3, <1>4
    <2>. HIDE DEF list, n
    <2>. QED  BY <1>4, <2>1
  <1>6. /\ lister.snapshot < nextSequence /\ Listed \subseteq lister.population
        /\ PopulationOK
    BY DEF HistoryInv, TraversalOK
  <1>7. CASE Len(list) <= PageLimit
    <2>1. lister' = [lister EXCEPT !.at = "complete", !.cursor = NoCursor,
                                   !.listed = lister.listed \o list]
      BY <1>7 DEF Query
    <2>2. /\ lister'.at = "complete" /\ lister'.listed = lister.listed \o list
          /\ lister'.filter = lister.filter /\ lister'.snapshot = lister.snapshot
          /\ lister'.deletion = lister.deletion /\ lister'.population = lister.population
          /\ lister'.atFence = lister.atFence
      BY <1>2, <2>1 DEF Traversals
    <2>3. /\ lister'.listed \in Seq(HistoryRows) /\ ListedSorted'
          /\ \A m : m \in Listed' <=> m \in Listed \/ \E i \in 1 .. n : list[i].seq = m
      <3>. HIDE DEF list, n
      <3>1. \A i \in 1 .. n : list[i] = NewestFirst(Remaining)[i]
        BY DEF list
      <3>2. n <= Cardinality(Remaining)
        BY <1>4 DEF n
      <3>. QED  BY <1>1, <1>4, <1>5, <2>2, <3>1, <3>2, RowsAppended
    <2>4. lister' \in Traversals
      <3>1. NoCursor \in HistoryCursors
        BY DEF NoCursor, HistoryCursors, Filters, Unknown, NoKey
      <3>. QED  BY <1>2, <2>1, <2>2, <2>3, <3>1 DEF Traversals
    <2>5. \A m : m \in Listed' => m \in lister.population
      BY <1>3, <1>4, <1>6, <2>3
    <2>6. ASSUME NEW r \in requests, r.seq \in lister.population PROVE r.seq \in Listed'
      <3>1. CASE r \in Remaining
        BY <1>4, <2>3, <3>1
      <3>2. CASE r \notin Remaining
        BY <1>3, <2>3, <2>6, <3>2
      <3>. QED  BY <3>1, <3>2
    <2>7. TraversalOK'
      BY <1>1, <1>6, <2>2, <2>3, <2>4, <2>5, <2>6 DEF TraversalOK
    <2>8. PopulationOK'
      BY <1>1, <1>6, <2>2 DEF PopulationOK, Selects
    <2>. QED  BY <1>2, <2>2, <2>7, <2>8 DEF HistoryInv, BookmarkOK, Underway
  <1>8. CASE ~(Len(list) <= PageLimit)
    <2>0. PageLimit \in Nat \ {0} /\ PageLimit \in 1 .. n /\ PageLimit < n
      BY <1>4, <1>5, <1>8, HistoryAssumption
    <2>. DEFINE t == SubSeq(list, 1, PageLimit)
                c == [snapshot |-> lister.snapshot, finished |-> last.finished, id |-> last.id,
                      filter |-> lister.filter, deletion |-> lister.deletion]
    <2>1. lister' = [lister EXCEPT !.at = "more", !.listed = lister.listed \o t, !.cursor = c]
      BY <1>8 DEF Query
    <2>2. last \in Remaining /\ last \in requests /\ last \in HistoryRows
      BY <1>3, <1>4, <2>0
    <2>3. /\ last.id \in Nat \ {0} /\ last.finished \in Nat
          /\ lister.snapshot \in Nat /\ lister.deletion \in Nat /\ lister.filter \in Filters
      BY <1>2, <2>2, TraversalType DEF HistoryRows
    <2>4. c \in HistoryCursors
      BY <2>3 DEF HistoryCursors
    <2>5. /\ lister'.at = "more" /\ lister'.listed = lister.listed \o t /\ lister'.cursor = c
          /\ lister'.filter = lister.filter /\ lister'.snapshot = lister.snapshot
          /\ lister'.deletion = lister.deletion /\ lister'.population = lister.population
          /\ lister'.atFence = lister.atFence
      BY <1>2, <2>1 DEF Traversals
    <2>6. /\ t \in Seq(HistoryRows) /\ Len(t) = PageLimit /\ DOMAIN t = 1 .. PageLimit
          /\ \A i \in 1 .. PageLimit : t[i] = list[i]
      <3>. HIDE DEF list, n
      <3>1. /\ t \in Seq(HistoryRows) /\ Len(t) = PageLimit
            /\ \A i \in 1 .. PageLimit : t[i] = list[i]
        BY <1>4, <1>5, <2>0, SubSeqProperties
      <3>. HIDE DEF t
      <3>2. DOMAIN t = 1 .. Len(t)
        BY ONLY <3>1
      <3>. QED  BY <3>1, <3>2
    <2>. HIDE DEF t
    <2>7. /\ lister'.listed \in Seq(HistoryRows) /\ ListedSorted'
          /\ \A x \in Range(lister'.listed) : x \in Range(lister.listed) \/ x \in Range(t)
          /\ \A m : m \in Listed' <=> m \in Listed \/ \E i \in 1 .. PageLimit : t[i].seq = m
          /\ \A i \in 1 .. PageLimit : t[i] \in Remaining
      <3>1. PageLimit <= Cardinality(Remaining)
        BY <1>4, <2>0
      <3>. QED  BY <1>1, <2>0, <2>5, <2>6, <3>1, RowsAppended
    <2>8. lister' \in Traversals
      BY <1>2, <2>1, <2>4, <2>5, <2>7 DEF Traversals
    <2>9. \A m : m \in Listed' => m \in lister.population
      BY <1>3, <1>6, <2>7
    <2>10. /\ lister'.cursor.id = last.id /\ lister'.cursor.finished = last.finished
           /\ lister'.cursor.filter = lister.filter /\ lister'.cursor.snapshot = lister.snapshot
           /\ lister'.cursor.deletion = lister.deletion
      BY <2>5
    <2>. HIDE DEF c
    <2>11. TraversalOK'
      BY <1>1, <1>6, <2>3, <2>5, <2>7, <2>8, <2>9, <2>10 DEF TraversalOK
    <2>12. PopulationOK'
      BY <1>1, <1>6, <2>5 DEF PopulationOK, Selects
    <2>13. ASSUME NEW x \in Range(lister'.listed)
           PROVE  ~Older(x, last)
      <3>1. CASE x \in Range(lister.listed)
        <4>1. PICK i \in DOMAIN lister.listed : x = lister.listed[i]
          BY <3>1 DEF Range
        <4>2. Older(last, x)
          BY <1>3, <2>2, <4>1
        <4>3. x.id \in Nat /\ x.finished \in Nat
          <5>1. lister.listed \in Seq(HistoryRows)
            BY <1>2, TraversalType
          <5>2. x \in HistoryRows
            BY <4>1, <5>1
          <5>. QED  BY <5>2 DEF HistoryRows
        <4>. QED  BY <2>3, <4>2, <4>3 DEF Older
      <3>2. CASE x \in Range(t)
        <4>1. PICK i \in 1 .. PageLimit : x = t[i]
          BY <2>6, <3>2 DEF Range
        <4>2. x = list[i] /\ i \in 1 .. n /\ x \in requests
          BY <1>3, <1>4, <2>0, <2>6, <2>7, <4>1
        <4>3. i = PageLimit \/ i < PageLimit
          BY <2>0, <4>1
        <4>4. x = last \/ Older(last, x)
          BY <1>4, <2>0, <4>2, <4>3
        <4>5. x.id \in Nat /\ x.finished \in Nat
          BY <1>2, <4>2, OlderOrders
        <4>. QED  BY <2>3, <4>4, <4>5 DEF Older
      <3>. QED  BY <2>7, <3>1, <3>2
    <2>14. \A i \in DOMAIN lister'.listed : ~Older(lister'.listed[i], lister'.cursor)
      <3>1. \A i \in DOMAIN lister'.listed : lister'.listed[i] \in Range(lister'.listed)
        BY DEF Range
      <3>. QED  BY <2>10, <2>13, <3>1 DEF Older
    <2>15. ASSUME NEW r \in requests, r.seq \in lister.population, ~AfterBookmark(r)'
           PROVE  r.seq \in Listed'
      <3>1. CASE r \notin Remaining
        BY <1>3, <2>7, <2>15, <3>1
      <3>2. CASE r \in Remaining
        <4>1. PICK i \in 1 .. n : list[i] = r
          BY <1>4, <3>2
        <4>2. r.id \in Nat /\ r.finished \in Nat
          BY <1>2, OlderOrders
        <4>3. ~Older(r, last)
          BY <2>3, <2>10, <2>15, <4>2 DEF AfterBookmark, Older, Unknown
        <4>4. ~(PageLimit < i)
          BY <1>4, <2>0, <4>1, <4>3
        <4>5. i \in 1 .. PageLimit
          BY <1>4, <2>0, <4>1, <4>4
        <4>6. t[i] = r
          BY <2>6, <4>1, <4>5
        <4>. QED  BY <2>7, <4>5, <4>6
      <3>. QED  BY <3>1, <3>2
    <2>16. BookmarkOK'
      BY <1>1, <2>3, <2>5, <2>10, <2>14, <2>15 DEF BookmarkOK, Older
    <2>. QED  BY <1>2, <2>11, <2>12, <2>16 DEF HistoryInv
  <1>. QED  BY <1>7, <1>8

(* A step of the table, of retention or of the client keeps the invariant. *)
LEMMA HistoryStep == HistoryInv /\ [HistoryNext]_historyVars => HistoryInv'
  <1>. SUFFICES ASSUME HistoryInv, [HistoryNext]_historyVars PROVE HistoryInv'
    OBVIOUS
  <1>1. ASSUME NEW record \in Arrivals, Persist(record) PROVE HistoryInv'
    BY <1>1, PersistStep
  <1>2. ASSUME NEW b \in Cutoffs, NEW c \in Cutoffs, DeleteBodiesBefore(b, c) PROVE HistoryInv'
    BY <1>2, DeleteBodiesStep
  <1>3. ASSUME NEW f \in Filters, BeginTraversal(f) \/ Continue(f) PROVE HistoryInv'
    BY <1>3, BeginTraversalStep, ContinueStep
  <1>4. CASE UNCHANGED historyVars
    BY <1>4, HistoryUnchanged DEF historyVars
  <1>. QED  BY <1>1, <1>2, <1>3, <1>4, DeleteMetadataStep, ReadFenceStep, CheckBookmarkStep,
               QueryStep, EndTraversalStep DEF HistoryNext

(***************************************************************************)
(* The invariant of the request history: the rows a traversal selects are  *)
(* those its fence admitted, as far as they are still there, and its       *)
(* bookmark separates the listed ones from those that remain.              *)
(***************************************************************************)
THEOREM HistoryInvariant == HistorySpec => []HistoryInv
  BY HistoryInitial, HistoryStep, PTL DEF HistorySpec

(***************************************************************************)
(* Pages are newest first without a row twice, and a traversal that ends   *)
(* has missed no row of its population that is still in the table,         *)
(* whatever Persist and retention do between the statements of             *)
(* listRequests.                                                           *)
(***************************************************************************)
THEOREM TraversalsExact == HistorySpec => []TraversalExact
  <1>1. HistoryInv => TraversalExact
    <2>. SUFFICES ASSUME HistoryInv PROVE TraversalExact
      OBVIOUS
    <2>1. ListedSorted /\ Listed \subseteq lister.population
      BY DEF HistoryInv, TraversalOK
    <2>2. ASSUME lister.at = "complete"
          PROVE  /\ lister.population = lister.atFence
                 /\ lister.population \ Listed \subseteq lister.atFence \ Numbers(requests)
      <3>1. lister.population = lister.atFence
        BY <2>2 DEF HistoryInv, PopulationOK
      <3>2. \A r \in requests : r.seq \in lister.population => r.seq \in Listed
        BY <2>2 DEF HistoryInv, TraversalOK
      <3>. QED  BY <3>1, <3>2, ListedFacts
    <2>. QED  BY <2>1, <2>2 DEF TraversalExact, ListedSorted
  <1>. QED  BY <1>1, HistoryInvariant, PTL
=============================================================================
