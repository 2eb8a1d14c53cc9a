--------------------------- MODULE RequestLimiter ---------------------------
(***************************************************************************)
(* The per-key request-rate limiter of internal/limiter/request.go.        *)
(*                                                                         *)
(* Allow is one critical section.  The wall clock may be set back between  *)
(* two calls; the limiter's own clock may not.  A counter belongs to a key *)
(* and a window (amount and duration) and remembers one window start, so   *)
(* that a policy replacement which keeps a window keeps its counter.       *)
(***************************************************************************)
EXTENDS Integers, FiniteSets, FiniteSetsExt, Functions

CONSTANTS
    RateKeys,       \* API keys
    RatePolicies,   \* the window lists principals carry: sets of [amount, duration]
    Second,         \* clock ticks in a second
    MaxRateTime,    \* bound on the wall clock
    MaxAdmissions   \* bound on the admitted requests

\* normalizeWindows refuses a window whose amount or duration is not positive.
ASSUME RateAssumption ==
    /\ Second \in Nat \ {0}
    /\ \A windows \in RatePolicies :
            /\ IsFiniteSet(windows)
            /\ \A w \in windows : w.amount \in Nat \ {0} /\ w.duration \in Nat \ {0}

VARIABLES
    wall,       \* what limiter.now returns
    lastNow,    \* limiter.lastNow
    counts,     \* limiter.counts: <<key, window>> -> [start, count]
    admissions  \* history: <<key, window, start>> -> requests admitted

rateVars == <<wall, lastNow, counts, admissions>>

RateInit ==
    /\ wall = 0
    /\ lastNow = 0
    /\ counts = <<>>
    /\ admissions = <<>>

\* Time passes, or the wall clock is corrected, backwards too.
SetClock(t) ==
    /\ wall' = t
    /\ t # wall
    /\ UNCHANGED <<lastNow, counts, admissions>>

\* Mutant of CurrentTime: the wall clock is used as it is.
WallTime == wall

CurrentTime == IF wall < lastNow THEN lastNow ELSE wall

FixedWindowStart(t, duration) == t - (t % duration)

ResetOf(w, t) == FixedWindowStart(t, w.duration) + w.duration

Count(c, key, w, t) ==
    IF <<key, w>> \in DOMAIN c /\ c[<<key, w>>].start = FixedWindowStart(t, w.duration)
    THEN c[<<key, w>>].count ELSE 0

Exhausted(c, key, windows, t) == {w \in windows : Count(c, key, w, t) >= w.amount}

DiscardExpired(c, t) ==
    Restrict(c, {kw \in DOMAIN c : c[kw].start + kw[2].duration > t})

\* Mutant of ResetAt: the first exhausted window to reset decides.
EarliestReset(windows, t) == Min({ResetOf(w, t) : w \in windows})

\* The reset of a refusal: the latest of the exhausted windows.
ResetAt(windows, t) == Max({ResetOf(w, t) : w \in windows})

Spent(f, key, windows, t) ==
    LET new == {<<key, w, FixedWindowStart(t, w.duration)>> : w \in windows}
    IN  [x \in DOMAIN f \cup new |->
            (IF x \in DOMAIN f THEN f[x] ELSE 0) + (IF x \in new THEN 1 ELSE 0)]

(* Allow: every window has room and each is charged, or none is charged.   *)
(* A refusal still advances the clock and sweeps the counters.             *)
Allow(key, windows) ==
    LET t == CurrentTime
        kept == DiscardExpired(counts, t)
        admitted == Exhausted(kept, key, windows, t) = {}
        charged == {<<key, w>> : w \in windows}
    IN  /\ lastNow' = t
        /\ counts' = IF ~admitted THEN kept
                     ELSE [kw \in DOMAIN kept \cup charged |->
                              IF kw \in charged
                              THEN [start |-> FixedWindowStart(t, kw[2].duration),
                                    count |-> Count(kept, key, kw[2], t) + 1]
                              ELSE kept[kw]]
        /\ admissions' = IF admitted THEN Spent(admissions, key, windows, t) ELSE admissions
        /\ UNCHANGED wall

RateNext ==
    \/ \E t \in 0..MaxRateTime : SetClock(t)
    \/ \E key \in RateKeys, windows \in RatePolicies :
            /\ \A x \in DOMAIN admissions : admissions[x] < MaxAdmissions
            /\ Allow(key, windows)

RateSpec == RateInit /\ [][RateNext]_rateVars

-----------------------------------------------------------------------------
(* Properties                                                              *)

RetryAfterSeconds(t, reset) ==
    IF reset <= t THEN 1 ELSE (reset - t + Second - 1) \div Second

(***************************************************************************)
(* However the wall clock moves, no key is admitted more often in one      *)
(* fixed window than the amount of a policy window allows.                 *)
(***************************************************************************)
WithinRequestWindow ==
    \A x \in DOMAIN admissions : admissions[x] <= x[2].amount

(***************************************************************************)
(* A refused client that waits for the Retry-After it was given, measured  *)
(* from the clock that refused it, finds room if nobody else came.         *)
(***************************************************************************)
RetryAdmits ==
    \A key \in RateKeys, windows \in RatePolicies :
        LET full == Exhausted(counts, key, windows, lastNow)
            wait == RetryAfterSeconds(lastNow, ResetAt(full, lastNow))
        IN  full # {} => Exhausted(counts, key, windows, lastNow + wait * Second) = {}
=============================================================================
