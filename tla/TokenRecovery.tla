---------------------------- MODULE TokenRecovery ----------------------------
(***************************************************************************)
(* Token usage across restarts: the rows of usage_bucket_identities, the   *)
(* rows of the retired usage_buckets table, the policy document of a key,  *)
(* and the start-up of the gateway that reconciles the three before it     *)
(* serves.  A row whose window is not in the policy makes start-up refuse: *)
(* the gateway stays down.                                                 *)
(*                                                                         *)
(* One key is enough: no step of start-up relates two keys.  While the     *)
(* gateway serves, the token limiter and the accumulator appear by their   *)
(* effect, a committed amount per bucket and a pending delta per bucket;   *)
(* TokenLimiter and DeltaAccumulator model them step by step.  A bucket is *)
(* a window and the number of its period.  The clock does not step back.   *)
(***************************************************************************)
EXTENDS Integers, FiniteSets

CONSTANTS
    TokenWindows,   \* [amount, duration] records
    TokenPolicies,  \* sets of windows a policy document may name
    Durations,      \* the bucket_seconds of the windows
    MaxPeriod,      \* bound on the periods of a duration
    MaxCharge,      \* bound on the tokens of a bucket
    MaxStops        \* bound on the stops of the process

ASSUME TokenRecoveryAssumption ==
    /\ \A w \in TokenWindows : w.amount \in Nat /\ w.duration \in Durations
    /\ TokenPolicies \subseteq SUBSET TokenWindows
    /\ MaxPeriod \in Nat

VARIABLES
    rows,      \* usage_bucket_identities: bucket -> committed_tokens
    legacy,    \* usage_buckets: duration -> committed_tokens, of the period now
    policyRow, \* policy_json of the key
    period,    \* duration -> number of the current period
    memory,    \* TokenLimiter.buckets: bucket -> committed
    pending,   \* the accumulator: bucket -> delta
    process,   \* "down", "promoting", "loading", "serving", "refused"
    stops,
    clean,     \* history: the last stop wrote every pending delta
    owed       \* history: what the usage of each bucket was at a clean stop

recoveryVars == <<rows, legacy, policyRow, period, memory, pending, process, stops,
                  clean, owed>>

Buckets == TokenWindows \X (0 .. MaxPeriod)
Expired(b) == b[2] < period[b[1].duration]
Amount(f, b) == IF b \in DOMAIN f THEN f[b] ELSE 0
Unexpired(f) == [b \in {c \in DOMAIN f : ~ Expired(c)} |-> f[b]]

\* The windows of the policy a row of the retired table can belong to.
Matches(d) == {w \in policyRow : w.duration = d}

\* The v2 table may be left by an older version, alone or beside the identity
\* row that was checkpointed from it.  PromoteLegacy would refuse a pair whose
\* amounts differ; migration 005 leaves none.
RecoveryInit ==
    /\ policyRow \in TokenPolicies
    /\ period = [d \in Durations |-> 0]
    /\ \E present \in SUBSET Durations, amounts \in [Durations -> 1 .. MaxCharge] :
         /\ legacy = [d \in present |-> amounts[d]]
         /\ \E paired \in SUBSET {w \in policyRow : w.duration \in present /\ Matches(w.duration) = {w}} :
              rows = [b \in {<<w, 0>> : w \in paired} |-> amounts[b[1].duration]]
    /\ memory = <<>> /\ pending = <<>>
    /\ process = "down" /\ stops = 0 /\ clean = TRUE
    /\ owed = [b \in Buckets |->
         IF b[2] = 0 /\ b[1].duration \in DOMAIN legacy /\ Matches(b[1].duration) = {b[1]}
         THEN legacy[b[1].duration] ELSE Amount(rows, b)]

(***************************************************************************)
(* Start-up.                                                               *)
(***************************************************************************)
DeleteExpired ==
    /\ process = "down"
    /\ rows' = Unexpired(rows)
    /\ legacy' = [d \in {e \in DOMAIN legacy : period[e] = 0} |-> legacy[d]]
    /\ process' = "promoting"
    /\ UNCHANGED <<policyRow, period, memory, pending, stops, clean, owed>>

\* Mutant: the legacy amount is added to an identity row that already has it.
PromotedAgain(w, d) ==
    [b \in DOMAIN rows \cup {<<w, 0>>} |->
        IF b = <<w, 0>> THEN Amount(rows, b) + legacy[d] ELSE rows[b]]
Promoted(w, d) ==
    [b \in DOMAIN rows \cup {<<w, 0>>} |-> IF b = <<w, 0>> THEN legacy[d] ELSE rows[b]]

\* One transaction: the identity row appears and the source row goes.
PromoteLegacy(d) ==
    /\ process = "promoting" /\ d \in DOMAIN legacy
    /\ \E w \in Matches(d) :
         /\ Matches(d) = {w}
         /\ <<w, 0>> \in DOMAIN rows => rows[<<w, 0>>] = legacy[d]
         /\ rows' = Promoted(w, d)
    /\ legacy' = [e \in DOMAIN legacy \ {d} |-> legacy[e]]
    /\ UNCHANGED <<policyRow, period, memory, pending, process, stops, clean, owed>>

\* No window, or several, have the duration of the row: never guessed.
RefuseLegacy(d) ==
    /\ process = "promoting" /\ d \in DOMAIN legacy
    /\ Cardinality(Matches(d)) # 1
    /\ process' = "refused"
    /\ UNCHANGED <<rows, legacy, policyRow, period, memory, pending, stops, clean, owed>>

CompleteLegacyMigration ==
    /\ process = "promoting" /\ DOMAIN legacy = {}
    /\ process' = "loading"
    /\ UNCHANGED <<rows, legacy, policyRow, period, memory, pending, stops, clean, owed>>

LoadRows ==
    /\ process = "loading"
    /\ IF \A b \in DOMAIN Unexpired(rows) : b[1] \in policyRow
       THEN process' = "serving" /\ memory' = Unexpired(rows)
       ELSE process' = "refused" /\ UNCHANGED memory
    /\ UNCHANGED <<rows, legacy, policyRow, period, pending, stops, clean, owed>>

(***************************************************************************)
(* Serving.                                                                *)
(***************************************************************************)
Add(f, b, n) ==
    [c \in DOMAIN f \cup {b} |-> IF c = b THEN Amount(f, b) + n ELSE f[c]]

\* A settled reservation charges, a ticket corrects a charge, in every window
\* the policy has; both are sent to the accumulator.
Commit(w, n) ==
    LET b == <<w, period[w.duration]>> IN
    /\ process = "serving" /\ w \in policyRow
    /\ Amount(memory, b) + n \in 0 .. MaxCharge
    /\ memory' = Add(Unexpired(memory), b, n)
    /\ pending' = Add(pending, b, n)
    /\ UNCHANGED <<rows, legacy, policyRow, period, process, stops, clean, owed>>

\* Mutant: the zero rows a refund leaves are kept.
FlushedWithZeroRows ==
    [b \in DOMAIN rows \cup DOMAIN pending |-> Amount(rows, b) + Amount(pending, b)]
Flushed ==
    LET sum == [b \in DOMAIN rows \cup DOMAIN pending |-> Amount(rows, b) + Amount(pending, b)]
    IN  [b \in {c \in DOMAIN sum : sum[c] # 0} |-> sum[b]]

Flush ==
    /\ process = "serving" /\ pending # <<>>
    /\ rows' = Flushed /\ pending' = <<>>
    /\ UNCHANGED <<legacy, policyRow, period, memory, process, stops, clean, owed>>

\* updatePolicy: a window that is dropped has no debt left in memory.
ReplacePolicy(windows) ==
    /\ process = "serving" /\ windows # policyRow
    /\ \A b \in DOMAIN Unexpired(memory) : b[1] \notin windows => memory[b] = 0
    /\ policyRow' = windows
    /\ memory' = Unexpired(memory)
    /\ UNCHANGED <<rows, legacy, period, pending, process, stops, clean, owed>>

\* Time passes a boundary of the windows of duration d.  Start-up deletes and
\* loads by one reading of the clock, so that one period is current throughout;
\* LoadCommitted reads it again, and only drops a bucket that expired since.
NextPeriod(d) ==
    /\ period[d] < MaxPeriod /\ process \notin {"promoting", "loading"}
    /\ period' = [period EXCEPT ![d] = @ + 1]
    /\ UNCHANGED <<rows, legacy, policyRow, memory, pending, process, stops, clean, owed>>

Stop == stops < MaxStops /\ stops' = stops + 1 /\ process' = "down" /\ memory' = <<>> /\ pending' = <<>>

\* shutdownGateway with a token.Shutdown that flushed everything.
GracefulStop ==
    /\ process = "serving" /\ Stop
    /\ rows' = Flushed
    /\ clean' = TRUE
    /\ owed' = [b \in Buckets |-> Amount(memory, b)]
    /\ UNCHANGED <<legacy, policyRow, period>>

\* The process dies: pending deltas are lost.  A death during start-up loses none.
Die ==
    /\ process \in {"promoting", "loading", "serving"} /\ Stop
    /\ clean' = (clean /\ process # "serving")
    /\ UNCHANGED <<rows, legacy, policyRow, period, owed>>

RecoveryNext ==
    \/ DeleteExpired \/ CompleteLegacyMigration \/ LoadRows
    \/ \E d \in Durations : PromoteLegacy(d) \/ RefuseLegacy(d) \/ NextPeriod(d)
    \/ \E w \in TokenWindows, n \in {-1, 1} : Commit(w, n)
    \/ Flush \/ GracefulStop \/ Die
    \/ \E p \in TokenPolicies : ReplacePolicy(p)

RecoverySpec == RecoveryInit /\ [][RecoveryNext]_recoveryVars

-----------------------------------------------------------------------------

\* After a graceful stop, or a death during start-up, the next start-up is not
\* refused for a row that no longer matches the policy: every window that
\* updatePolicy let go had its rows removed.  Only a v2 row whose duration
\* the policy does not determine is refused (run, UpsertCommittedDeltas,
\* allowsPolicyReplacementLocked).
CleanRestartAccepted ==
    process = "refused" /\ clean => \E d \in DOMAIN legacy : Cardinality(Matches(d)) # 1

\* What the limiter loads at a clean start is what was owed at the stop, for
\* every bucket that has not expired since: v2 rows are promoted exactly
\* once however often start-up dies between its transactions (PromoteLegacy,
\* CompleteLegacyMigration, LoadUnexpired).
RestartKeepsUsage ==
    [][process = "loading" /\ process' = "serving" /\ clean =>
         \A b \in Buckets : ~ Expired(b) /\ b[1] \in policyRow => Amount(memory', b) = owed[b]]_recoveryVars
=============================================================================
