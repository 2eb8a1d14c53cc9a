-------------------------- MODULE DeltaAccumulator --------------------------
(***************************************************************************)
(* The aggregate accumulators of internal/storage: usage_accumulator.go    *)
(* and budget_accumulator.go, with the bucket rows they write.             *)
(*                                                                         *)
(* Sink merges a committed delta into the pending map and wakes one worker *)
(* goroutine, which takes the whole map, writes it in one transaction and  *)
(* restores it when the write fails; Shutdown closes the sink, joins the   *)
(* worker and writes what is left.  Sink never waits for SQL: deltas go on *)
(* arriving between the worker's steps.                                    *)
(*                                                                         *)
(* The two files differ in three places, selected by Kind: what restore    *)
(* does with an entry that cancels out, whether a successful write clears  *)
(* lastErr, and whether the retry wait notices stop.                       *)
(***************************************************************************)
EXTENDS Integers, Sequences

CONSTANTS
    Kind,        \* "usage" or "budget": which of the two files
    Buckets,     \* bucket identities
    Deltas,      \* committed deltas a limiter may emit
    MaxInt,      \* the largest int64 (scaled down)
    MaxSinks,    \* bound: accepted deltas between two starts
    MaxCrashes   \* bound: crashes

ASSUME AccumulatorAssumption ==
    /\ Kind \in {"usage", "budget"}
    /\ MaxInt \in Nat /\ MaxSinks \in Nat /\ MaxCrashes \in Nat
    /\ Deltas \subseteq Int \ {0}

VARIABLES
    pending,    \* the pending map; a bucket without an entry has 0
    flight,     \* the batch taken and not yet written; 0 as in pending
    accepting,  \* accepting
    wake,       \* the wake channel of capacity 1 holds a token
    stop,       \* the stop channel is closed
    cancelled,  \* the worker's context is cancelled
    lastErr,    \* lastErr is not nil
    worker,     \* where the worker goroutine is
    shutdown,   \* where the caller of Shutdown is
    durable,    \* the rows on disk; a bucket without a row has 0
    log,        \* the accepted totals after every delta since the last start
    taken,      \* the moment of the log the batch in flight reaches
    at,         \* the moment of the log that is on disk
    crashes     \* crashes so far

accVars == <<pending, flight, accepting, wake, stop, cancelled, lastErr, worker,
             shutdown, durable, log, taken, at, crashes>>

Nothing == [b \in Buckets |-> 0]
Int64   == -MaxInt - 1 .. MaxInt
Amounts == 0 .. MaxInt

(* The totals the limiter has handed to the sink.                          *)
Accepted == log[Len(log)]

Init ==
    /\ pending = Nothing /\ flight = Nothing
    /\ accepting = TRUE /\ wake = FALSE /\ stop = FALSE
    /\ cancelled = FALSE /\ lastErr = FALSE
    /\ worker = "idle" /\ shutdown = "none"
    /\ durable = Nothing
    /\ log = <<Nothing>> /\ taken = 1 /\ at = 1
    /\ crashes = 0

-----------------------------------------------------------------------------
(* Merging, with checkedSignedAdd.                                         *)

(* Sink: an entry that reaches zero is deleted, a sum that overflows is    *)
(* not stored.                                                             *)
Merge(p, d) == IF p + d \in Int64 THEN p + d ELSE p

(* restore: the usage accumulator stores a sum that is not zero, and       *)
(* otherwise leaves the entry it found.                                    *)
\* Mutant: the batch replaces what arrived while it was being written.
RestoreMergeOverwrites(p, d) == IF d # 0 THEN d ELSE p

RestoreMerge(p, d) ==
    IF Kind = "usage" /\ p + d = 0 THEN p ELSE Merge(p, d)

(* The limiters keep the totals they emit in range (SinkNeverNegative of   *)
(* TokenLimiter and BudgetLimiter): what the guard assumes.                *)
\* Mutant: a delta arriving after Shutdown closed the sink is taken in.
SinkIgnoringAccepting(b, d) ==
    /\ Accepted[b] + d \in Amounts
    /\ Len(log) <= MaxSinks
    /\ pending' = [pending EXCEPT ![b] = Merge(@, d)]
    /\ lastErr' = (lastErr \/ pending[b] + d \notin Int64)
    /\ wake' = (wake \/ pending[b] + d \in Int64)
    /\ log' = Append(log, [Accepted EXCEPT ![b] = @ + d])
    /\ UNCHANGED <<flight, accepting, stop, cancelled, worker, shutdown, durable,
                   taken, at, crashes>>

(* A delta is accepted; after Shutdown closed the sink it is ignored.      *)
Sink(b, d) ==
    /\ accepting
    /\ Accepted[b] + d \in Amounts
    /\ Len(log) <= MaxSinks
    /\ pending' = [pending EXCEPT ![b] = Merge(@, d)]
    /\ lastErr' = (lastErr \/ pending[b] + d \notin Int64)
    /\ wake' = (wake \/ pending[b] + d \in Int64)
    /\ log' = Append(log, [Accepted EXCEPT ![b] = @ + d])
    /\ UNCHANGED <<flight, accepting, stop, cancelled, worker, shutdown, durable,
                   taken, at, crashes>>

-----------------------------------------------------------------------------
(* The repository: one transaction for the whole batch.  A negative delta  *)
(* needs a row that covers it, or the transaction is rolled back.          *)

Writable == \A b \in Buckets : flight[b] < 0 => durable[b] + flight[b] >= 0

Write ==
    /\ Writable
    /\ durable' = [b \in Buckets |-> durable[b] + flight[b]]
    /\ at' = taken
    /\ flight' = Nothing
    /\ UNCHANGED pending

TakeBatch ==
    /\ flight' = pending
    /\ pending' = Nothing
    /\ taken' = Len(log)

Restore ==
    /\ pending' = [b \in Buckets |-> RestoreMerge(pending[b], flight[b])]
    /\ flight' = Nothing
    /\ UNCHANGED <<durable, at>>

RestoreOverflows ==
    \E b \in Buckets : flight[b] # 0 /\ pending[b] + flight[b] \notin Int64

-----------------------------------------------------------------------------
(* The worker: run and flushRetry.                                         *)

WorkerUnchanged == UNCHANGED <<accepting, stop, cancelled, shutdown, log, crashes>>

(* run chooses freely between a token and stop when both are ready.        *)
Wake ==
    /\ worker = "idle" /\ wake
    /\ wake' = FALSE /\ worker' = "flush"
    /\ WorkerUnchanged
    /\ UNCHANGED <<pending, flight, lastErr, durable, taken, at>>

Exit ==
    /\ worker = "idle" /\ stop
    /\ worker' = "exited"
    /\ WorkerUnchanged
    /\ UNCHANGED <<pending, flight, wake, lastErr, durable, taken, at>>

(* take, at the start of flush.                                            *)
Take ==
    /\ worker = "flush"
    /\ TakeBatch
    /\ worker' = IF pending = Nothing THEN "check" ELSE "write"
    /\ WorkerUnchanged
    /\ UNCHANGED <<wake, lastErr, durable, at>>

WriteSucceeds ==
    /\ worker = "write"
    /\ Write
    /\ lastErr' = (Kind = "usage" /\ lastErr)
    /\ worker' = "check"
    /\ WorkerUnchanged
    /\ UNCHANGED <<wake, taken>>

WriteFails ==
    /\ worker = "write"
    /\ Restore
    /\ lastErr' = TRUE
    /\ worker' = "check"
    /\ WorkerUnchanged
    /\ UNCHANGED <<wake, taken>>

(* flushRetry stops when nothing is pending or the last write succeeded.   *)
\* Mutant: a failed batch waits for the next delta to wake the worker.
CheckNeverRetries ==
    /\ worker = "check"
    /\ worker' = "idle"
    /\ WorkerUnchanged
    /\ UNCHANGED <<pending, flight, wake, lastErr, durable, taken, at>>

Check ==
    /\ worker = "check"
    /\ worker' = IF pending = Nothing \/ ~lastErr THEN "idle" ELSE "backoff"
    /\ WorkerUnchanged
    /\ UNCHANGED <<pending, flight, wake, lastErr, durable, taken, at>>

(* The retry wait: the timer fires, the context is cancelled or, in the    *)
(* budget accumulator only, stop is closed.                                *)
Retry ==
    /\ worker = "backoff"
    /\ worker' = "flush"
    /\ WorkerUnchanged
    /\ UNCHANGED <<pending, flight, wake, lastErr, durable, taken, at>>

\* Mutant: the wait notices a cancelled context only.
GiveUpOnCancel ==
    /\ worker = "backoff" /\ cancelled
    /\ worker' = "idle"
    /\ WorkerUnchanged
    /\ UNCHANGED <<pending, flight, wake, lastErr, durable, taken, at>>

GiveUp ==
    /\ worker = "backoff"
    /\ cancelled \/ (Kind = "budget" /\ stop)
    /\ worker' = "idle"
    /\ WorkerUnchanged
    /\ UNCHANGED <<pending, flight, wake, lastErr, durable, taken, at>>

-----------------------------------------------------------------------------
(* Shutdown, called once by the process owner.                             *)

ShutdownUnchanged == UNCHANGED <<wake, worker, log, crashes>>

ShutdownBegin ==
    /\ shutdown = "none"
    /\ accepting' = FALSE /\ stop' = TRUE
    /\ shutdown' = "joining"
    /\ ShutdownUnchanged
    /\ UNCHANGED <<pending, flight, cancelled, lastErr, durable, taken, at>>

ShutdownJoined ==
    /\ shutdown = "joining" /\ worker = "exited"
    /\ shutdown' = "take"
    /\ ShutdownUnchanged
    /\ UNCHANGED <<pending, flight, accepting, stop, cancelled, lastErr, durable, taken, at>>

(* The deadline passes first: the worker is cancelled, not waited for.     *)
ShutdownDeadline ==
    /\ shutdown = "joining"
    /\ shutdown' = "failed" /\ cancelled' = TRUE
    /\ ShutdownUnchanged
    /\ UNCHANGED <<pending, flight, accepting, stop, lastErr, durable, taken, at>>

ShutdownTake ==
    /\ shutdown = "take"
    /\ TakeBatch
    /\ shutdown' = IF pending = Nothing THEN "ok" ELSE "write"
    /\ ShutdownUnchanged
    /\ UNCHANGED <<accepting, stop, cancelled, lastErr, durable, at>>

ShutdownWriteSucceeds ==
    /\ shutdown = "write"
    /\ Write
    /\ shutdown' = "take"
    /\ ShutdownUnchanged
    /\ UNCHANGED <<accepting, stop, cancelled, lastErr, taken>>

ShutdownWriteFails ==
    /\ shutdown = "write"
    /\ Restore
    /\ lastErr' = (lastErr \/ RestoreOverflows)
    /\ shutdown' = "failed"
    /\ ShutdownUnchanged
    /\ UNCHANGED <<accepting, stop, cancelled, taken>>

(* The process dies at any moment and starts again: the limiters load the  *)
(* rows, and everything in memory is new.                                  *)
Crash ==
    /\ crashes < MaxCrashes
    /\ crashes' = crashes + 1
    /\ pending' = Nothing /\ flight' = Nothing
    /\ accepting' = TRUE /\ wake' = FALSE /\ stop' = FALSE
    /\ cancelled' = FALSE /\ lastErr' = FALSE
    /\ worker' = "idle" /\ shutdown' = "none"
    /\ log' = SubSeq(log, 1, at) /\ taken' = at
    /\ UNCHANGED <<durable, at>>

-----------------------------------------------------------------------------
Worker == Wake \/ Exit \/ Take \/ WriteSucceeds \/ WriteFails \/ Check \/ Retry \/ GiveUp

Owner ==
    \/ ShutdownBegin \/ ShutdownJoined \/ ShutdownDeadline
    \/ ShutdownTake \/ ShutdownWriteSucceeds \/ ShutdownWriteFails

Next ==
    \/ \E b \in Buckets, d \in Deltas : Sink(b, d)
    \/ Worker
    \/ Owner
    \/ Crash

Spec == Init /\ [][Next]_accVars

-----------------------------------------------------------------------------
(* Properties.                                                             *)

TypeOK ==
    /\ pending \in [Buckets -> Int] /\ flight \in [Buckets -> Int]
    /\ accepting \in BOOLEAN /\ wake \in BOOLEAN /\ stop \in BOOLEAN
    /\ cancelled \in BOOLEAN /\ lastErr \in BOOLEAN
    /\ worker \in {"idle", "flush", "write", "check", "backoff", "exited"}
    /\ shutdown \in {"none", "joining", "take", "write", "ok", "failed"}
    /\ durable \in [Buckets -> Amounts]
    /\ log \in Seq([Buckets -> Amounts])
    /\ at \in 1 .. Len(log) /\ taken \in at .. Len(log)
    /\ crashes \in 0 .. MaxCrashes

(***************************************************************************)
(* Nothing is lost and nothing is counted twice while the process lives:   *)
(* what is on disk, in flight and pending adds up to what was accepted, in *)
(* every bucket, through failed writes and restored batches.  (Sink, take, *)
(* restore, and the repository's transaction.)                             *)
(***************************************************************************)
Conservation ==
    \A b \in Buckets : durable[b] + flight[b] + pending[b] = Accepted[b]

(***************************************************************************)
(* A batch can always be written: the refunds in it are covered by rows    *)
(* that are on disk or in the same batch.  A batch that is not would be    *)
(* restored and refused forever, with every bucket that shares it.         *)
(***************************************************************************)
BatchIsWritable == \A b \in Buckets : durable[b] + flight[b] \in Amounts

(***************************************************************************)
(* A Shutdown that reports success has made every accepted delta durable.  *)
(***************************************************************************)
ShutdownFlushed == shutdown = "ok" => durable = Accepted

(***************************************************************************)
(* The accumulator implements a write-behind ledger: the rows of all       *)
(* buckets together are always those of one moment of the past, never an   *)
(* older one than before, and a crash loses only what came after it.       *)
(***************************************************************************)
Ledger == INSTANCE WriteBehind WITH Totals <- [Buckets -> Amounts]
ImplementsLedger == Ledger!Spec

(***************************************************************************)
(* While the process serves, everything accepted becomes durable, however  *)
(* often writes fail, and without further deltas to wake the worker, if a  *)
(* write that is tried again and again succeeds in the end.                *)
(***************************************************************************)
EventuallyDurable ==
    SF_accVars(WriteSucceeds) => []<>(durable = Accepted \/ shutdown # "none")

(***************************************************************************)
(* Closing stop ends the budget worker although every write fails: a       *)
(* Shutdown without a deadline returns, and the owner may close SQLite.    *)
(***************************************************************************)
StopEndsWorker == []<>(stop => worker = "exited")
=============================================================================
