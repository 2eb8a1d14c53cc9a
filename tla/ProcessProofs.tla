---------------------------- MODULE ProcessProofs ----------------------------
(***************************************************************************)
(* Proofs about the gateway as a process that ends: the accumulator that   *)
(* writes behind the limiters (DeltaAccumulator) and the order in which    *)
(* the process starts and stops (GatewayProcess).                          *)
(***************************************************************************)
EXTENDS DeltaAccumulator, GatewayProcess, SequenceTheorems, TLAPS

(***************************************************************************)
(* Proofs about DeltaAccumulator for every set of buckets, every set of    *)
(* deltas and every width of the integers, for the budget accumulator.     *)
(*                                                                         *)
(* Conservation is not inductive: a batch is written without a look at     *)
(* what the write does to the rows, and Shutdown takes a batch of its own. *)
(* The strengthening says where a batch may be (Phases), that the rows are *)
(* those of a moment of the log (RowsAreVersion), and that the batch in    *)
(* flight completes them to a later moment (BatchReachesVersion).          *)
(***************************************************************************)

RowsAreVersion == durable = log[at]

BatchReachesVersion ==
    flight # Nothing =>
        /\ at < taken
        /\ \A b \in Buckets : durable[b] + flight[b] = log[taken][b]

Phases ==
    /\ flight # Nothing <=> worker = "write" \/ shutdown = "write"
    /\ shutdown \in {"take", "write", "ok"} => worker = "exited"
    /\ accepting <=> shutdown = "none"
    /\ shutdown = "ok" => pending = Nothing /\ flight = Nothing

IInv ==
    /\ TypeOK
    /\ Conservation
    /\ RowsAreVersion
    /\ BatchReachesVersion
    /\ Phases

USE AccumulatorAssumption

-----------------------------------------------------------------------------
(* Facts about a state that satisfies the invariant.                       *)

(* The versions of the log are amounts.                                    *)
LEMMA AcceptedType ==
    ASSUME TypeOK
    PROVE  /\ Len(log) \in Nat \ {0}
           /\ Accepted \in [Buckets -> Amounts]
           /\ log[at] \in [Buckets -> Amounts]
           /\ log[taken] \in [Buckets -> Amounts]
BY DEF TypeOK, Accepted

(* So are the cells of the accumulator.                                    *)
LEMMA CellTypes ==
    ASSUME TypeOK, NEW b \in Buckets
    PROVE  /\ pending[b] \in Int /\ flight[b] \in Int /\ Nothing[b] = 0
           /\ durable[b] \in Int /\ durable[b] \in 0 .. MaxInt
           /\ Accepted[b] \in Int /\ Accepted[b] \in 0 .. MaxInt
<1>1. pending[b] \in Int /\ flight[b] \in Int /\ Nothing[b] = 0
  BY DEF TypeOK, Nothing
<1>2. durable[b] \in 0 .. MaxInt /\ Accepted[b] \in 0 .. MaxInt
  BY AcceptedType DEF TypeOK, Amounts
<1> QED
  BY <1>1, <1>2

(* An idle accumulator's pending map completes the rows to the newest      *)
(* moment of the log; if it is not empty, that moment is later than at.    *)
LEMMA PendingReachesAccepted ==
    ASSUME IInv, flight = Nothing
    PROVE  /\ \A b \in Buckets : durable[b] + pending[b] = Accepted[b]
           /\ pending # Nothing => at < Len(log)
<1>1. \A b \in Buckets : durable[b] + pending[b] = Accepted[b]
  BY CellTypes DEF IInv, Conservation
<1>2. ASSUME at = Len(log) PROVE pending = Nothing
  <2>1. \A b \in Buckets : pending[b] = 0
    <3> SUFFICES ASSUME NEW b \in Buckets PROVE pending[b] = 0
      OBVIOUS
    <3>1. Accepted[b] = durable[b]
      BY <1>2 DEF IInv, RowsAreVersion, Accepted
    <3> QED
      BY <3>1, <1>1, CellTypes DEF IInv
  <2> QED
    BY <2>1 DEF IInv, TypeOK, Nothing
<1>3. at \in 1 .. Len(log) /\ Len(log) \in Nat
  BY AcceptedType DEF IInv, TypeOK
<1> QED
  BY <1>1, <1>2, <1>3

(* A restored batch never overflows an entry, so that restore only adds.   *)
LEMMA RestoreAdds ==
    ASSUME IInv, Kind = "budget", NEW b \in Buckets
    PROVE  RestoreMerge(pending[b], flight[b]) = pending[b] + flight[b]
<1>1. /\ pending[b] \in Int /\ flight[b] \in Int
      /\ durable[b] \in 0 .. MaxInt /\ Accepted[b] \in 0 .. MaxInt
  BY CellTypes DEF IInv
<1>2. pending[b] + flight[b] = Accepted[b] - durable[b]
  BY <1>1 DEF IInv, Conservation
<1> QED
  BY <1>1, <1>2 DEF RestoreMerge, Merge, Int64

(* An accepted delta never overflows an entry.                             *)
LEMMA SinkAdds ==
    ASSUME IInv, NEW b \in Buckets, NEW d \in Deltas, Accepted[b] + d \in Amounts
    PROVE  Merge(pending[b], d) = pending[b] + d
<1>1. /\ pending[b] \in Int /\ flight[b] \in Int /\ d \in Int
      /\ durable[b] \in 0 .. MaxInt /\ Accepted[b] + d \in 0 .. MaxInt
      /\ Accepted[b] \in Int
  BY CellTypes DEF IInv, Amounts
<1>2. durable[b] + flight[b] \in 0 .. MaxInt
  <2>1. CASE flight = Nothing
    BY <2>1, <1>1 DEF Nothing
  <2>2. CASE flight # Nothing
    BY <2>2, <1>1, AcceptedType DEF IInv, BatchReachesVersion, Amounts
  <2> QED BY <2>1, <2>2
<1>3. pending[b] + d = (Accepted[b] + d) - (durable[b] + flight[b])
  BY <1>1 DEF IInv, Conservation
<1> QED
  BY <1>1, <1>2, <1>3 DEF Merge, Int64

-----------------------------------------------------------------------------
(* The invariant holds initially and is preserved by every step.           *)

(* The empty accumulator satisfies the invariant.                          *)
LEMMA InitIInv == Init => IInv
<1> SUFFICES ASSUME Init PROVE IInv
  OBVIOUS
<1>1. Nothing \in [Buckets -> Amounts] /\ Nothing \in [Buckets -> Int]
  BY DEF Nothing, Amounts
<1>2. log = <<Nothing>> /\ Len(log) = 1 /\ log[1] = Nothing
  BY DEF Init
<1>3. log \in Seq([Buckets -> Amounts])
  BY <1>1 DEF Init
<1>4. TypeOK
  <2>1. at \in 1 .. Len(log) /\ taken \in at .. Len(log) /\ crashes \in 0 .. MaxCrashes
    BY <1>2 DEF Init
  <2>2. /\ pending \in [Buckets -> Int] /\ flight \in [Buckets -> Int]
        /\ durable \in [Buckets -> Amounts]
    BY <1>1 DEF Init
  <2> QED
    BY <1>3, <2>1, <2>2 DEF Init, TypeOK
<1> QED
  BY <1>2, <1>4 DEF Init, IInv, Conservation, RowsAreVersion, BatchReachesVersion,
     Phases, Accepted, Nothing

(* An accepted delta is a new version of the log and is pending.           *)
LEMMA SinkStep ==
    ASSUME IInv, NEW b \in Buckets, NEW d \in Deltas, Sink(b, d)
    PROVE  IInv'
<1> DEFINE total == [Accepted EXCEPT ![b] = @ + d]
<1>1. /\ total \in [Buckets -> Amounts]
      /\ log' = Append(log, total)
  BY AcceptedType DEF IInv, Sink
<1>2. /\ Len(log') = Len(log) + 1
      /\ log' \in Seq([Buckets -> Amounts])
      /\ \A i \in 1 .. Len(log) : log'[i] = log[i]
      /\ Accepted' = total
  BY <1>1, AcceptedType DEF IInv, TypeOK, Accepted
<1>3. pending' = [pending EXCEPT ![b] = @ + d]
  BY SinkAdds DEF Sink, IInv, TypeOK
<1>4. TypeOK'
  BY <1>2, <1>3, AcceptedType DEF IInv, TypeOK, Sink
<1>5. Conservation'
  <2> SUFFICES ASSUME NEW c \in Buckets
               PROVE  durable'[c] + flight'[c] + pending'[c] = Accepted'[c]
    BY DEF Conservation
  <2>1. durable[c] + flight[c] + pending[c] = Accepted[c]
    BY DEF IInv, Conservation
  <2>2. durable' = durable /\ flight' = flight
    BY DEF Sink
  <2>3. pending'[c] = (IF c = b THEN pending[c] + d ELSE pending[c])
    BY <1>3 DEF IInv, TypeOK
  <2>4. Accepted'[c] = (IF c = b THEN Accepted[c] + d ELSE Accepted[c])
    BY <1>2, AcceptedType DEF IInv
  <2> QED
    BY <2>1, <2>2, <2>3, <2>4, CellTypes DEF IInv
<1>6. RowsAreVersion' /\ BatchReachesVersion'
  BY <1>2 DEF IInv, TypeOK, Sink, RowsAreVersion, BatchReachesVersion
<1>7. Phases'
  BY DEF IInv, Phases, Sink
<1> QED
  BY <1>4, <1>5, <1>6, <1>7 DEF IInv

(* The three operations on a batch, whoever performs them.                 *)
LEMMA TakeBatchStep ==
    ASSUME IInv, flight = Nothing, TakeBatch, UNCHANGED <<durable, at, log>>
    PROVE  /\ pending' \in [Buckets -> Int] /\ flight' \in [Buckets -> Int]
           /\ taken' \in at .. Len(log)
           /\ Conservation' /\ RowsAreVersion' /\ BatchReachesVersion'
<1>1. /\ pending' = Nothing /\ flight' = pending /\ taken' = Len(log)
      /\ durable' = durable /\ at' = at /\ log' = log /\ Accepted' = Accepted
  BY DEF TakeBatch, Accepted
<1>2. Nothing \in [Buckets -> Int]
  BY DEF Nothing
<1>3. /\ pending' \in [Buckets -> Int] /\ flight' \in [Buckets -> Int]
      /\ taken' \in at .. Len(log)
  BY <1>1, <1>2, AcceptedType DEF IInv, TypeOK
<1>4. Conservation'
  BY <1>1, PendingReachesAccepted, CellTypes DEF IInv, Conservation
<1>5. RowsAreVersion'
  BY <1>1 DEF IInv, RowsAreVersion
<1>6. BatchReachesVersion'
  BY <1>1, PendingReachesAccepted DEF BatchReachesVersion, Accepted
<1> QED
  BY <1>3, <1>4, <1>5, <1>6

(* A committed batch brings the rows to the version it was taken at.       *)
LEMMA WriteStep ==
    ASSUME IInv, flight # Nothing, Write, UNCHANGED <<log, taken>>
    PROVE  /\ flight' = Nothing /\ flight' \in [Buckets -> Int]
           /\ durable' \in [Buckets -> Amounts]
           /\ at' \in 1 .. Len(log) /\ at' = taken /\ at < at'
           /\ Conservation' /\ RowsAreVersion' /\ BatchReachesVersion'
<1>1. /\ durable' = [b \in Buckets |-> durable[b] + flight[b]]
      /\ flight' = Nothing /\ pending' = pending /\ at' = taken
      /\ log' = log /\ taken' = taken /\ Accepted' = Accepted
  BY DEF Write, Accepted
<1>2. durable' = log[taken]
  BY <1>1, AcceptedType DEF IInv, BatchReachesVersion
<1>3. /\ durable' \in [Buckets -> Amounts]
      /\ at' \in 1 .. Len(log) /\ at < at'
      /\ flight' \in [Buckets -> Int]
  BY <1>1, <1>2, AcceptedType DEF IInv, TypeOK, BatchReachesVersion, Nothing
<1>4. Conservation'
  BY <1>1 DEF IInv, TypeOK, Conservation, Amounts, Nothing
<1>5. RowsAreVersion' /\ BatchReachesVersion'
  BY <1>1, <1>2 DEF RowsAreVersion, BatchReachesVersion
<1> QED
  BY <1>1, <1>3, <1>4, <1>5

(* A batch that was not written is pending again.                          *)
LEMMA RestoreStep ==
    ASSUME IInv, Kind = "budget", Restore, UNCHANGED log
    PROVE  /\ flight' = Nothing
           /\ pending' \in [Buckets -> Int] /\ flight' \in [Buckets -> Int]
           /\ Conservation' /\ RowsAreVersion' /\ BatchReachesVersion'
<1>1. /\ pending' = [b \in Buckets |-> pending[b] + flight[b]]
      /\ flight' = Nothing /\ durable' = durable /\ at' = at /\ log' = log
      /\ Accepted' = Accepted
  BY RestoreAdds DEF Restore, Accepted
<1>2. pending' \in [Buckets -> Int] /\ flight' \in [Buckets -> Int]
  BY <1>1 DEF IInv, TypeOK, Nothing
<1>3. Conservation'
  BY <1>1 DEF IInv, TypeOK, Conservation, Amounts, Nothing
<1>4. RowsAreVersion' /\ BatchReachesVersion'
  BY <1>1 DEF IInv, RowsAreVersion, BatchReachesVersion
<1> QED
  BY <1>1, <1>2, <1>3, <1>4

-----------------------------------------------------------------------------
(* The worker.                                                             *)

(* The worker's own moves change no amount.                                *)
LEMMA WorkerMoves ==
    ASSUME IInv, Wake \/ Exit \/ Check \/ Retry \/ GiveUp
    PROVE  IInv'
<1> USE DEF IInv, Wake, Exit, Check, Retry, GiveUp, WorkerUnchanged
<1>1. /\ pending' = pending /\ flight' = flight /\ durable' = durable /\ log' = log
      /\ taken' = taken /\ at' = at /\ shutdown' = shutdown /\ accepting' = accepting
      /\ stop' = stop /\ cancelled' = cancelled /\ lastErr' = lastErr
      /\ crashes' = crashes
  OBVIOUS
<1>2. /\ wake' \in BOOLEAN /\ worker # "write" /\ worker # "exited"
      /\ worker' \in {"idle", "flush", "backoff", "exited"}
  BY DEF TypeOK
<1>3. TypeOK'
  BY <1>1, <1>2 DEF TypeOK
<1>4. Conservation' /\ RowsAreVersion' /\ BatchReachesVersion'
  BY <1>1 DEF Conservation, RowsAreVersion, BatchReachesVersion, Accepted
<1>5. Phases'
  BY <1>1, <1>2 DEF Phases
<1> QED
  BY <1>3, <1>4, <1>5

(* The worker takes a batch.                                               *)
LEMMA TakeStep == ASSUME IInv, Take PROVE IInv'
<1>1. flight = Nothing
  BY DEF IInv, Phases, Take
<1>2. /\ TakeBatch /\ UNCHANGED <<durable, at, log>>
      /\ UNCHANGED <<accepting, stop, cancelled, shutdown, crashes, wake, lastErr>>
      /\ worker = "flush" /\ worker' = IF pending = Nothing THEN "check" ELSE "write"
  BY DEF Take, WorkerUnchanged
<1>3. TypeOK'
  BY <1>1, <1>2, TakeBatchStep DEF IInv, TypeOK
<1>4. Conservation' /\ RowsAreVersion' /\ BatchReachesVersion'
  BY <1>1, <1>2, TakeBatchStep
<1>5. Phases'
  BY <1>1, <1>2 DEF IInv, Phases, TakeBatch
<1> QED
  BY <1>3, <1>4, <1>5 DEF IInv

(* Its transaction commits.                                                *)
LEMMA WriteSucceedsStep == ASSUME IInv, WriteSucceeds PROVE IInv'
<1>1. /\ Write /\ UNCHANGED <<log, taken>>
      /\ UNCHANGED <<accepting, stop, cancelled, shutdown, crashes, wake, pending>>
      /\ worker = "write" /\ worker' = "check"
      /\ lastErr' = (Kind = "usage" /\ lastErr)
  BY DEF WriteSucceeds, WorkerUnchanged, Write
<1>2. flight # Nothing /\ shutdown \notin {"take", "write", "ok"}
  BY <1>1 DEF IInv, Phases
<1>3. TypeOK'
  BY <1>1, <1>2, WriteStep DEF IInv, TypeOK
<1>4. Phases'
  BY <1>1, <1>2, WriteStep DEF IInv, Phases
<1> QED
  BY <1>1, <1>2, <1>3, <1>4, WriteStep DEF IInv

(* Its transaction fails.                                                  *)
LEMMA WriteFailsStep == ASSUME IInv, Kind = "budget", WriteFails PROVE IInv'
<1>1. /\ Restore /\ UNCHANGED <<durable, at, log, taken>>
      /\ UNCHANGED <<accepting, stop, cancelled, shutdown, crashes, wake>>
      /\ worker = "write" /\ worker' = "check" /\ lastErr' = TRUE
  BY DEF WriteFails, WorkerUnchanged, Restore
<1>2. shutdown \notin {"take", "write", "ok"}
  BY <1>1 DEF IInv, Phases
<1>3. TypeOK'
  BY <1>1, RestoreStep DEF IInv, TypeOK
<1>4. Phases'
  BY <1>1, <1>2, RestoreStep DEF IInv, Phases
<1> QED
  BY <1>1, <1>3, <1>4, RestoreStep DEF IInv

-----------------------------------------------------------------------------
(* Shutdown and crashes.                                                   *)

(* The owner's moves of a shutdown change no amount.                       *)
LEMMA OwnerMoves ==
    ASSUME IInv, ShutdownBegin \/ ShutdownJoined \/ ShutdownDeadline
    PROVE  IInv'
<1> USE DEF IInv, ShutdownBegin, ShutdownJoined, ShutdownDeadline, ShutdownUnchanged
<1>1. /\ pending' = pending /\ flight' = flight /\ durable' = durable /\ log' = log
      /\ taken' = taken /\ at' = at /\ worker' = worker /\ lastErr' = lastErr
      /\ wake' = wake /\ crashes' = crashes
  OBVIOUS
<1>2. /\ accepting' \in BOOLEAN /\ stop' \in BOOLEAN /\ cancelled' \in BOOLEAN
      /\ shutdown \in {"none", "joining"} /\ shutdown' \in {"joining", "take", "failed"}
  BY DEF TypeOK
<1>3. TypeOK'
  BY <1>1, <1>2 DEF TypeOK
<1>4. Conservation' /\ RowsAreVersion' /\ BatchReachesVersion'
  BY <1>1 DEF Conservation, RowsAreVersion, BatchReachesVersion, Accepted
<1>5. accepting' <=> shutdown' = "none"
  BY <1>2 DEF Phases
<1>6. shutdown' = "take" => worker = "exited"
  OBVIOUS
<1>7. Phases'
  BY <1>1, <1>2, <1>5, <1>6 DEF Phases
<1> QED
  BY <1>3, <1>4, <1>7

(* Shutdown takes what the worker left.                                    *)
LEMMA ShutdownTakeStep == ASSUME IInv, ShutdownTake PROVE IInv'
<1>1. flight = Nothing /\ worker = "exited"
  BY DEF IInv, Phases, ShutdownTake
<1>2. /\ TakeBatch /\ UNCHANGED <<durable, at, log>>
      /\ UNCHANGED <<accepting, stop, cancelled, worker, crashes, wake, lastErr>>
      /\ shutdown = "take" /\ shutdown' = IF pending = Nothing THEN "ok" ELSE "write"
  BY DEF ShutdownTake, ShutdownUnchanged
<1>3. TypeOK'
  BY <1>1, <1>2, TakeBatchStep DEF IInv, TypeOK
<1>4. Conservation' /\ RowsAreVersion' /\ BatchReachesVersion'
  BY <1>1, <1>2, TakeBatchStep
<1>5. Phases'
  BY <1>1, <1>2 DEF IInv, Phases, TakeBatch
<1> QED
  BY <1>3, <1>4, <1>5 DEF IInv

(* Its transaction commits.                                                *)
LEMMA ShutdownWriteSucceedsStep == ASSUME IInv, ShutdownWriteSucceeds PROVE IInv'
<1>1. /\ Write /\ UNCHANGED <<log, taken>>
      /\ UNCHANGED <<accepting, stop, cancelled, worker, crashes, wake, pending, lastErr>>
      /\ shutdown = "write" /\ shutdown' = "take"
  BY DEF ShutdownWriteSucceeds, ShutdownUnchanged, Write
<1>2. flight # Nothing /\ worker = "exited"
  BY <1>1 DEF IInv, Phases
<1>3. TypeOK'
  BY <1>1, <1>2, WriteStep DEF IInv, TypeOK
<1>4. Phases'
  BY <1>1, <1>2, WriteStep DEF IInv, Phases
<1> QED
  BY <1>1, <1>2, <1>3, <1>4, WriteStep DEF IInv

(* Its transaction fails.                                                  *)
LEMMA ShutdownWriteFailsStep ==
    ASSUME IInv, Kind = "budget", ShutdownWriteFails PROVE IInv'
<1>1. /\ Restore /\ UNCHANGED <<durable, at, log, taken>>
      /\ UNCHANGED <<accepting, stop, cancelled, worker, crashes, wake>>
      /\ shutdown = "write" /\ shutdown' = "failed"
      /\ lastErr' = (lastErr \/ RestoreOverflows)
  BY DEF ShutdownWriteFails, ShutdownUnchanged, Restore
<1>2. worker = "exited" /\ lastErr' \in BOOLEAN
  BY <1>1 DEF IInv, Phases, TypeOK
<1>3. TypeOK'
  BY <1>1, <1>2, RestoreStep DEF IInv, TypeOK
<1>4. Phases'
  BY <1>1, <1>2, RestoreStep DEF IInv, Phases
<1> QED
  BY <1>1, <1>3, <1>4, RestoreStep DEF IInv

(* A crash keeps the rows and forgets the rest.                            *)
LEMMA CrashStep == ASSUME IInv, Crash PROVE IInv'
<1>1. /\ Nothing \in [Buckets -> Int]
      /\ pending' = Nothing /\ flight' = Nothing /\ durable' = durable /\ at' = at
      /\ taken' = at /\ log' = SubSeq(log, 1, at)
  BY DEF Crash, Nothing
<1>2. at \in 1 .. Len(log) /\ at \in Nat /\ log \in Seq([Buckets -> Amounts])
  BY AcceptedType DEF IInv, TypeOK
<1>3. /\ log' \in Seq([Buckets -> Amounts]) /\ Len(log') = at
      /\ log'[at] = log[at]
  BY <1>1, <1>2, SubSeqProperties
<1>4. TypeOK'
  <2>1. at' \in 1 .. Len(log') /\ taken' \in at' .. Len(log')
    BY <1>1, <1>2, <1>3
  <2>2. crashes' \in 0 .. MaxCrashes
    BY DEF Crash, IInv, TypeOK
  <2> QED
    BY <1>1, <1>3, <2>1, <2>2 DEF IInv, TypeOK, Crash
<1>5. RowsAreVersion' /\ BatchReachesVersion'
  BY <1>1, <1>3 DEF IInv, RowsAreVersion, BatchReachesVersion
<1>6. Conservation'
  <2> SUFFICES ASSUME NEW b \in Buckets
               PROVE  durable'[b] + flight'[b] + pending'[b] = Accepted'[b]
    BY DEF Conservation
  <2>1. Accepted' = durable
    BY <1>1, <1>3 DEF IInv, RowsAreVersion, Accepted
  <2> QED
    BY <1>1, <2>1, CellTypes DEF IInv
<1>7. Phases'
  BY <1>1 DEF Phases, Crash
<1> QED
  BY <1>4, <1>5, <1>6, <1>7 DEF IInv

(* Every step of the budget accumulator preserves the invariant.           *)
LEMMA NextIInv ==
    ASSUME Kind = "budget"
    PROVE  IInv /\ [Next]_accVars => IInv'
<1> SUFFICES ASSUME IInv, [Next]_accVars PROVE IInv'
  OBVIOUS
<1>1. CASE \E b \in Buckets, d \in Deltas : Sink(b, d)
  BY <1>1, SinkStep
<1>2. CASE Worker
  BY <1>2, WorkerMoves, TakeStep, WriteSucceedsStep, WriteFailsStep DEF Worker
<1>3. CASE Owner
  BY <1>3, OwnerMoves, ShutdownTakeStep, ShutdownWriteSucceedsStep,
     ShutdownWriteFailsStep DEF Owner
<1>4. CASE Crash
  BY <1>4, CrashStep
<1>5. CASE UNCHANGED accVars
  BY <1>5 DEF IInv, TypeOK, Conservation, RowsAreVersion, BatchReachesVersion, Phases,
     Accepted, accVars
<1> QED
  BY <1>1, <1>2, <1>3, <1>4, <1>5 DEF Next

-----------------------------------------------------------------------------
(* The theorems.  The budget accumulator is the one whose restore deletes  *)
(* an entry that cancels out; for the usage accumulator Conservation fails.*)

(* The strengthened invariant is inductive.                                *)
THEOREM InductiveInvariant ==
    ASSUME Kind = "budget"
    PROVE  Spec => []IInv
<1>1. Init => IInv
  BY InitIInv
<1>2. IInv /\ [Next]_accVars => IInv'
  BY NextIInv
<1> QED
  BY <1>1, <1>2, PTL DEF Spec

(* No committed delta is lost or counted twice by Sink, take, the write,   *)
(* restore and Shutdown, whatever is interleaved.                          *)
THEOREM NothingLost ==
    ASSUME Kind = "budget"
    PROVE  Spec => []Conservation
<1>1. IInv => Conservation
  BY DEF IInv
<1> QED
  BY <1>1, InductiveInvariant, PTL

(* No batch the worker or Shutdown holds can make a row negative: no write *)
(* is refused by the guarded update of the repository.                     *)
THEOREM BatchesAreWritable ==
    ASSUME Kind = "budget"
    PROVE  Spec => []BatchIsWritable
<1>1. IInv => BatchIsWritable
  <2> SUFFICES ASSUME IInv, NEW b \in Buckets PROVE durable[b] + flight[b] \in Amounts
    BY DEF BatchIsWritable
  <2>1. CASE flight = Nothing
    BY <2>1, CellTypes DEF IInv, Amounts
  <2>2. CASE flight # Nothing
    BY <2>2, AcceptedType DEF IInv, BatchReachesVersion
  <2> QED
    BY <2>1, <2>2
<1> QED
  BY <1>1, InductiveInvariant, PTL

(* When Shutdown returns nil the rows are what the limiters have emitted.  *)
THEOREM ShutdownMeansFlushed ==
    ASSUME Kind = "budget"
    PROVE  Spec => []ShutdownFlushed
<1>1. IInv => ShutdownFlushed
  <2> SUFFICES ASSUME IInv, shutdown = "ok" PROVE durable = Accepted
    BY DEF ShutdownFlushed
  <2>1. pending = Nothing /\ flight = Nothing
    BY DEF IInv, Phases
  <2>2. \A b \in Buckets : durable[b] = Accepted[b]
    BY <2>1, PendingReachesAccepted, CellTypes DEF IInv
  <2> QED
    BY <2>2, AcceptedType DEF IInv, TypeOK
<1> QED
  BY <1>1, InductiveInvariant, PTL

-----------------------------------------------------------------------------
(* Every step of the accumulator is a step of the ledger or leaves it as   *)
(* it is.                                                                  *)
LEMMA StepRefines ==
    ASSUME Kind = "budget", IInv, [Next]_accVars
    PROVE  [Ledger!Next]_(Ledger!ledgerVars)
<1> USE DEF Ledger!ledgerVars
<1>1. ASSUME NEW b \in Buckets, NEW d \in Deltas, Sink(b, d) PROVE Ledger!Accept
  <2>1. [Accepted EXCEPT ![b] = @ + d] \in [Buckets -> Amounts]
    BY <1>1, AcceptedType DEF IInv, Sink
  <2> QED
    BY <1>1, <2>1 DEF Sink, Ledger!Accept
<1>2. ASSUME Write, flight # Nothing, UNCHANGED <<log, taken>> PROVE Ledger!Persist
  <2>1. taken \in at + 1 .. Len(log)
    BY <1>2, AcceptedType DEF IInv, TypeOK, BatchReachesVersion
  <2>2. at' = taken /\ durable' = log[taken]
    BY <1>2, WriteStep DEF IInv, RowsAreVersion
  <2> QED
    BY <1>2, <2>1, <2>2 DEF Ledger!Persist
<1>3. CASE WriteSucceeds \/ ShutdownWriteSucceeds
  <2>1. Write /\ flight # Nothing /\ UNCHANGED <<log, taken>>
    BY <1>3 DEF WriteSucceeds, ShutdownWriteSucceeds, WorkerUnchanged, ShutdownUnchanged,
       IInv, Phases
  <2> QED
    BY <1>2, <2>1 DEF Ledger!Next
<1>4. CASE Crash
  BY <1>4 DEF Crash, Ledger!Crash, Ledger!Next
<1>5. CASE \/ Wake \/ Exit \/ Take \/ WriteFails \/ Check \/ Retry \/ GiveUp
           \/ ShutdownBegin \/ ShutdownJoined \/ ShutdownDeadline \/ ShutdownTake
           \/ ShutdownWriteFails \/ UNCHANGED accVars
  <2>1. UNCHANGED <<log, durable, at>>
    BY <1>5 DEF Wake, Exit, Take, WriteFails, Check, Retry, GiveUp, ShutdownBegin,
       ShutdownJoined, ShutdownDeadline, ShutdownTake, ShutdownWriteFails, Restore,
       WorkerUnchanged, ShutdownUnchanged, accVars
  <2> QED
    BY <2>1
<1> QED
  BY <1>1, <1>3, <1>4, <1>5 DEF Next, Worker, Owner, Ledger!Next

(* The budget accumulator implements the write-behind ledger: the rows are *)
(* those of one moment of the past, move forward only, and a crash loses   *)
(* only what came after.                                                   *)
THEOREM ImplementsWriteBehind ==
    ASSUME Kind = "budget"
    PROVE  Spec => ImplementsLedger
<1>1. Init => Ledger!Init
  BY DEF Init, Ledger!Init, Nothing, Amounts
<1>2. IInv /\ [Next]_accVars => [Ledger!Next]_(Ledger!ledgerVars)
  BY StepRefines
<1> QED
  BY <1>1, <1>2, InductiveInvariant, PTL DEF Spec, ImplementsLedger, Ledger!Spec

-----------------------------------------------------------------------------
(***************************************************************************)
(* Proofs about GatewayProcess: how the process ends, for any number of    *)
(* requests and probes and any capacity of the two queues.                 *)
(*                                                                         *)
(* What is checked on a stopped gateway (the database closed, a queue      *)
(* joined) is decided long before: by the order in which run asks its      *)
(* parts to stop, and by the fact that none of them starts again.  The     *)
(* inductive invariant records both: which parts of the process can have   *)
(* been reached at each place of main (MainOrder, HttpOrder), and what     *)
(* each queue's owner knows once it has been told to stop (CompletionOrder,*)
(* HistoryOrder).                                                          *)
(***************************************************************************)

StartingAt == {"starting", "wait ready", "serving"}
StoppingAt == {"http", "wait", "usage", "token", "budget", "completion",
               "completion join", "history", "close"}
StoppedAt == {"closed", "exited"}

HandlerStates == {"absent", "none", "dispatched", "running", "done"}
ProbeRecords == [next : Nat, pass : BOOLEAN, verdict : {"none", "ready", "unready"}]
EmissionRecords == [step : {"none", "entered", "admitted", "logged", "emitted"},
                    by : {"handler", "usage"}]
SaverRecords == [state : {"idle", "writing", "done"}, stop : BOOLEAN]
CompletionRecords ==
    [accepting : BOOLEAN, queue : Seq(Requests), stop : BOOLEAN,
     worker : {"run", "drain", "done"}, joined : BOOLEAN]
HistoryRecords ==
    [accepting : BOOLEAN, queue : Seq(Requests), stop : BOOLEAN, abort : BOOLEAN,
     worker : {"none", "retention", "run", "persist", "persist drain", "drain", "done"},
     started : {"no", "ok", "failed"}]

MainTypeOK ==
    /\ main \in StartingAt \cup StoppingAt \cup StoppedAt
    /\ ending \in {"no", "signal", "cleanup"}
    /\ deadline \in BOOLEAN /\ db \in {"open", "closed"} /\ usage \in {"run", "stop", "done"}

HttpTypeOK ==
    /\ listening \in BOOLEAN /\ httpErr \in BOOLEAN /\ draining \in BOOLEAN
    /\ handler \in [Requests \cup Probes -> HandlerStates]
    /\ serving \in Int
    /\ probe \in [Probes -> ProbeRecords]

WorkerTypeOK ==
    /\ emission \in [Requests -> EmissionRecords]
    /\ saver \in [Savers -> SaverRecords]
    /\ completion \in CompletionRecords
    /\ history \in HistoryRecords

ProcessTypeOK == MainTypeOK /\ HttpTypeOK /\ WorkerTypeOK

Idle(r) == handler[r] \in {"absent", "none"}
Quiet(r) == handler[r] \notin {"dispatched", "running"}

\* A process that has not been told to end is starting or serving, or start-up
\* failed; what a readiness probe asks about changes only afterwards.
MainOrder ==
    /\ main \in StartingAt => ending = "no"
    /\ main \in StoppingAt => ending # "no"
    /\ ending = "no" => usage = "run"
    /\ ending = "signal" => draining
    /\ db = "closed" => main \in StoppedAt

\* Handlers exist only after the listener opened, and once server.Shutdown has
\* returned nil none is left and none comes.
HttpOrder ==
    /\ listening => main \in {"serving", "http"}
    /\ ending = "no" /\ main # "serving" => \A r \in Requests \cup Probes : Idle(r)
    /\ ending = "signal" /\ main # "http" =>
         httpErr \/ \A r \in Requests \cup Probes : Quiet(r)

\* The database is closed by shutdownGateway only under OwnersDone, and an owner
\* that is done stays so.
ClosedOrder == db = "closed" /\ ending = "signal" => OwnersDone

\* From the moment Shutdown has seen no enqueue in flight, none is admitted.
CompletionSettled == main = "completion join" \/ completion.joined

CompletionOrder ==
    /\ completion.stop =>
         main \in {"completion join", "history", "close"} \cup StoppedAt
    /\ completion.worker # "run" => completion.stop
    /\ completion.joined => completion.worker = "done"
    /\ CompletionSettled =>
         /\ ~ completion.accepting
         /\ \A r \in Requests : emission[r].step # "admitted"
         /\ completion.worker = "done" => completion.queue = <<>>

HistoryOrder ==
    /\ history.stop => ~ history.accepting
    /\ history.worker \in {"drain", "persist drain", "done"} => history.stop
    /\ history.worker = "done" => history.queue = <<>>

ProcessIInv ==
    /\ ProcessTypeOK /\ MainOrder /\ HttpOrder /\ ClosedOrder
    /\ CompletionOrder /\ HistoryOrder

-----------------------------------------------------------------------------
(* The steps in groups that touch the same variables.                      *)

HandlerSteps ==
    \/ \E r \in Requests \cup Probes : Dispatch(r) \/ HandlerEnters(r)
    \/ \E r \in Requests : RequestEnds(r)
    \/ \E p \in Probes : RunCheck(p) \/ ProbeAnswers(p)

EmissionSteps ==
    \E r \in Requests :
       Transfer(r) \/ Enqueue(r) \/ EnqueueChecks(r) \/ EnqueueSends(r) \/ Submit(r)

SaverSteps ==
    \E s \in Savers : SaverWrites(s) \/ SaverWrote(s) \/ SaverEnds(s) \/ StopSaver(s)

CompletionSteps == CompletionWrites \/ CompletionStops \/ StopCompletion

HistorySteps ==
    HistoryStarts \/ HistoryTakes \/ HistoryPersisted \/ HistoryStops \/ StopHistory

\* The steps that move main or the deadline and, at most, what they say.
MoveSteps ==
    \/ StartFails \/ StartWorkers \/ Serve \/ StartupAborted \/ Signal \/ ServeFails
    \/ DeadlineExpires \/ CloseListener \/ HttpShutdown \/ HandlersWaited \/ UsageJoined
    \/ \E s \in Savers : SaverJoined(s)
    \/ CloseCompletion \/ CompletionJoined \/ HistoryJoined \/ CloseDatabase \/ ProcessExit

(* The groups are all the steps there are.                                 *)
LEMMA StepsGrouped ==
    ProcessNext => \/ HandlerSteps \/ EmissionSteps \/ SaverSteps \/ CompletionSteps
                   \/ HistorySteps \/ MoveSteps \/ DrainUsage \/ UsageEnds
  BY DEF ProcessNext, MainStep, HandlerSteps, EmissionSteps, SaverSteps, CompletionSteps,
         HistorySteps, MoveSteps

-----------------------------------------------------------------------------
(* ProcessTypeOK.                                                          *)

(* The start is well typed.                                                *)
LEMMA TypeInit == ProcessInit => ProcessTypeOK
  <1> SUFFICES ASSUME ProcessInit PROVE ProcessTypeOK
    OBVIOUS
  <1>1. MainTypeOK
    BY DEF ProcessInit, MainTypeOK, StartingAt
  <1>2. HttpTypeOK
    <2>1. PICK clients \in ClientSets :
             handler = [r \in Requests \cup Probes |-> IF r \in clients THEN "none" ELSE "absent"]
      BY DEF ProcessInit
    <2>2. handler \in [Requests \cup Probes -> HandlerStates]
      BY <2>1 DEF HandlerStates
    <2>3. probe \in [Probes -> ProbeRecords]
      BY DEF ProcessInit, ProbeRecords
    <2>4. listening \in BOOLEAN /\ httpErr \in BOOLEAN /\ draining \in BOOLEAN
      BY Zenon DEF ProcessInit
    <2>5. serving \in Int
      BY DEF ProcessInit
    <2> QED
      BY <2>2, <2>3, <2>4, <2>5, Zenon DEF HttpTypeOK
  <1>3. WorkerTypeOK
    BY DEF ProcessInit, WorkerTypeOK, EmissionRecords, SaverRecords, CompletionRecords,
           HistoryRecords
  <1> QED
    BY <1>1, <1>2, <1>3 DEF ProcessTypeOK

\* What the steps of each group do not touch.
LEMMA HandlersLeave == HandlerSteps => UNCHANGED <<mainVars, workerVars, listening, httpErr, draining>>
  BY DEF HandlerSteps, Dispatch, HandlerEnters, RequestEnds, RunCheck, ProbeAnswers

(* What the emission of a record does not touch.                           *)
LEMMA EmissionLeaves == EmissionSteps => UNCHANGED <<mainVars, httpVars, usage, saver>>
  BY DEF EmissionSteps, Transfer, Enqueue, EnqueueChecks, EnqueueSends, Submit

(* What the savers do not touch.                                           *)
LEMMA SaversLeave == SaverSteps => UNCHANGED <<mainVars, httpVars, emission, usage, completion, history>>
  BY DEF SaverSteps, SaverWrites, SaverWrote, SaverEnds, StopSaver

(* What the completion writer does not touch.                              *)
LEMMA CompletionLeaves ==
    CompletionSteps => UNCHANGED <<mainVars, httpVars, emission, usage, saver, history>>
  BY DEF CompletionSteps, CompletionWrites, CompletionStops, StopCompletion

(* What the history worker does not touch.                                 *)
LEMMA HistoryLeaves ==
    HistorySteps => UNCHANGED <<mainVars, httpVars, emission, usage, saver, completion>>
  BY DEF HistorySteps, HistoryStarts, HistoryTakes, HistoryPersisted, HistoryStops, StopHistory

(* What the main goroutine does not touch.                                 *)
LEMMA MovesLeave == MoveSteps => UNCHANGED <<handler, probe, emission, usage, saver>>
  BY DEF MoveSteps, StartFails, StartWorkers, Serve, StartupAborted, Signal, ServeFails,
         DeadlineExpires, CloseListener, HttpShutdown, HandlersWaited, UsageJoined, SaverJoined,
         CloseCompletion, CompletionJoined, HistoryJoined, CloseDatabase, ProcessExit,
         httpVars, workerVars, mainVars

(* The record of a probe after one more check.                             *)
LEMMA ProbeMoves ==
    ASSUME NEW q \in ProbeRecords, NEW n \in Nat, NEW b \in BOOLEAN
    PROVE  [q EXCEPT !.next = n, !.pass = b] \in ProbeRecords
  BY DEF ProbeRecords

(* Handlers and probes keep the types.                                     *)
LEMMA TypeHandlers == ProcessTypeOK /\ HandlerSteps => ProcessTypeOK'
  <1> SUFFICES ASSUME ProcessTypeOK, HandlerSteps PROVE ProcessTypeOK'
    OBVIOUS
  <1>1. MainTypeOK' /\ WorkerTypeOK'
    BY HandlersLeave DEF ProcessTypeOK, MainTypeOK, WorkerTypeOK, mainVars, workerVars
  <1>2. handler' \in [Requests \cup Probes -> HandlerStates]
    BY DEF HandlerSteps, Dispatch, HandlerEnters, RequestEnds, RunCheck, ProbeAnswers, Leaves,
           ProcessTypeOK, HttpTypeOK, HandlerStates
  <1>3. serving' \in Int
    <2>1. serving' = serving \/ serving' = serving + 1 \/ serving' = serving - 1
      BY DEF HandlerSteps, Dispatch, HandlerEnters, RequestEnds, RunCheck, ProbeAnswers, Leaves
    <2> QED
      BY <2>1 DEF ProcessTypeOK, HttpTypeOK
  <1>4. probe' \in [Probes -> ProbeRecords]
    <2>1. CASE UNCHANGED probe
      BY <2>1 DEF ProcessTypeOK, HttpTypeOK
    <2>2. ASSUME NEW p \in Probes, RunCheck(p) PROVE probe' \in [Probes -> ProbeRecords]
      <3> DEFINE passed == probe[p].pass /\ CheckPasses(Checks[probe[p].next])
                 new == [probe[p] EXCEPT !.next = probe[p].next + 1, !.pass = passed]
      <3>1. probe' = [probe EXCEPT ![p] = new]
        BY <2>2 DEF RunCheck, ProcessTypeOK, HttpTypeOK
      <3>2. /\ probe[p] \in ProbeRecords
            /\ passed \in BOOLEAN
            /\ probe[p].next + 1 \in Nat
        BY DEF ProcessTypeOK, HttpTypeOK, ProbeRecords
      <3>3. new \in ProbeRecords
        BY <3>2, ProbeMoves
      <3> QED
        BY <3>1, <3>3 DEF ProcessTypeOK, HttpTypeOK
    <2>3. ASSUME NEW p \in Probes, ProbeAnswers(p) PROVE probe' \in [Probes -> ProbeRecords]
      BY <2>3 DEF ProbeAnswers, ProcessTypeOK, HttpTypeOK, ProbeRecords
    <2> QED
      BY <2>1, <2>2, <2>3 DEF HandlerSteps, Dispatch, HandlerEnters, RequestEnds
  <1> QED
    BY <1>1, <1>2, <1>3, <1>4, HandlersLeave DEF ProcessTypeOK, HttpTypeOK

(* The record of the history worker after a move of its queue.             *)
LEMMA HistoryQueue ==
    ASSUME NEW h \in HistoryRecords
    PROVE  /\ h.queue \in Seq(Requests)
           /\ h.queue # <<>> => Tail(h.queue) \in Seq(Requests)
           /\ \A r \in Requests : [h EXCEPT !.queue = Append(@, r)] \in HistoryRecords
           /\ [h EXCEPT !.worker = "retention"] \in HistoryRecords
           /\ [h EXCEPT !.abort = TRUE, !.queue = <<>>] \in HistoryRecords
  <1>1. h.queue \in Seq(Requests)
    BY DEF HistoryRecords
  <1>2. h.queue # <<>> => Tail(h.queue) \in Seq(Requests)
    BY <1>1
  <1>3. ASSUME NEW r \in Requests PROVE [h EXCEPT !.queue = Append(@, r)] \in HistoryRecords
    <2>1. Append(h.queue, r) \in Seq(Requests)
      BY <1>1
    <2> QED
      BY <2>1 DEF HistoryRecords
  <1>4. [h EXCEPT !.worker = "retention"] \in HistoryRecords
    BY DEF HistoryRecords
  <1>5. [h EXCEPT !.abort = TRUE, !.queue = <<>>] \in HistoryRecords
    <2>1. <<>> \in Seq(Requests)
      OBVIOUS
    <2> QED
      BY <2>1 DEF HistoryRecords
  <1> QED
    BY <1>1, <1>2, <1>3, <1>4, <1>5

(* The emission of a record keeps the types.                               *)
LEMMA TypeEmission == ProcessTypeOK /\ EmissionSteps => ProcessTypeOK'
  <1> SUFFICES ASSUME ProcessTypeOK, EmissionSteps PROVE ProcessTypeOK'
    OBVIOUS
  <1>1. MainTypeOK' /\ HttpTypeOK'
    BY EmissionLeaves DEF ProcessTypeOK, MainTypeOK, HttpTypeOK, mainVars, httpVars
  <1>2. emission' \in [Requests -> EmissionRecords]
    BY DEF EmissionSteps, Transfer, Enqueue, EnqueueChecks, EnqueueSends, Submit,
           ProcessTypeOK, WorkerTypeOK, EmissionRecords
  <1>3. completion' \in CompletionRecords
    <2>1. UNCHANGED completion
          \/ \E r \in Requests : completion' = [completion EXCEPT !.queue = Append(@, r)]
      BY DEF EmissionSteps, Transfer, Enqueue, EnqueueChecks, EnqueueSends, Submit
    <2>2. completion \in CompletionRecords
      BY DEF ProcessTypeOK, WorkerTypeOK
    <2>3. ASSUME NEW c \in CompletionRecords, NEW r \in Requests
          PROVE  [c EXCEPT !.queue = Append(@, r)] \in CompletionRecords
      <3>1. Append(c.queue, r) \in Seq(Requests)
        BY DEF CompletionRecords
      <3> QED  BY <3>1 DEF CompletionRecords
    <2> QED
      BY <2>1, <2>2, <2>3
  <1>4. history' \in HistoryRecords
    <2>1. UNCHANGED history
          \/ \E r \in Requests : history' = [history EXCEPT !.queue = Append(@, r)]
      BY DEF EmissionSteps, Transfer, Enqueue, EnqueueChecks, EnqueueSends, Submit
    <2> QED
      BY <2>1, HistoryQueue DEF ProcessTypeOK, WorkerTypeOK
  <1> QED
    BY <1>1, <1>2, <1>3, <1>4, EmissionLeaves DEF ProcessTypeOK, WorkerTypeOK

(* The savers keep the types.                                              *)
LEMMA TypeSavers == ProcessTypeOK /\ SaverSteps => ProcessTypeOK'
  <1> SUFFICES ASSUME ProcessTypeOK, SaverSteps PROVE ProcessTypeOK'
    OBVIOUS
  <1>1. MainTypeOK' /\ HttpTypeOK'
    BY SaversLeave DEF ProcessTypeOK, MainTypeOK, HttpTypeOK, mainVars, httpVars
  <1>2. saver' \in [Savers -> SaverRecords]
    <2>1. PICK s \in Savers :
             \/ \E x \in {"idle", "writing", "done"} : saver' = [saver EXCEPT ![s].state = x]
             \/ saver' = [saver EXCEPT ![s].stop = TRUE]
      BY DEF SaverSteps, SaverWrites, SaverWrote, SaverEnds, StopSaver
    <2> QED
      BY <2>1 DEF ProcessTypeOK, WorkerTypeOK, SaverRecords
  <1> QED
    BY <1>1, <1>2, SaversLeave DEF ProcessTypeOK, WorkerTypeOK

(* The completion writer and the history worker keep the types.            *)
LEMMA TypeQueues == ProcessTypeOK /\ (CompletionSteps \/ HistorySteps) => ProcessTypeOK'
  <1> SUFFICES ASSUME ProcessTypeOK, CompletionSteps \/ HistorySteps PROVE ProcessTypeOK'
    OBVIOUS
  <1>1. MainTypeOK' /\ HttpTypeOK'
    BY CompletionLeaves, HistoryLeaves
       DEF ProcessTypeOK, MainTypeOK, HttpTypeOK, mainVars, httpVars
  <1>2. CASE CompletionSteps
    <2>1. completion' \in CompletionRecords
      <3>1. completion.queue # <<>> => Tail(completion.queue) \in Seq(Requests)
        BY DEF ProcessTypeOK, WorkerTypeOK, CompletionRecords
      <3> QED
        BY <1>2, <3>1 DEF CompletionSteps, CompletionWrites, CompletionStops, StopCompletion,
               ProcessTypeOK, WorkerTypeOK, CompletionRecords
    <2> QED
      BY <1>1, <1>2, <2>1, CompletionLeaves DEF ProcessTypeOK, WorkerTypeOK
  <1>3. CASE HistorySteps
    <2>1. history' \in HistoryRecords
      <3> USE DEF ProcessTypeOK, WorkerTypeOK, HistoryRecords
      <3>1. CASE HistoryStarts \/ HistoryPersisted \/ HistoryStops \/ StopHistory
        BY <3>1 DEF HistoryStarts, HistoryPersisted, HistoryStops, StopHistory, HistoryWorker
      <3>2. CASE HistoryTakes
        <4>1. Tail(history.queue) \in Seq(Requests)
          BY <3>2, HistoryQueue DEF HistoryTakes
        <4> QED
          BY <3>2, <4>1 DEF HistoryTakes
      <3> QED
        BY <1>3, <3>1, <3>2 DEF HistorySteps
    <2> QED
      BY <1>1, <1>3, <2>1, HistoryLeaves DEF ProcessTypeOK, WorkerTypeOK
  <1> QED
    BY <1>2, <1>3

(* The main goroutine and the usage worker keep the types.                 *)
LEMMA TypeMoves == ProcessTypeOK /\ (MoveSteps \/ DrainUsage \/ UsageEnds) => ProcessTypeOK'
  <1> SUFFICES ASSUME ProcessTypeOK, MoveSteps \/ DrainUsage \/ UsageEnds PROVE ProcessTypeOK'
    OBVIOUS
  <1>1. CASE DrainUsage \/ UsageEnds
    BY <1>1 DEF DrainUsage, UsageEnds, ProcessTypeOK, MainTypeOK, HttpTypeOK, WorkerTypeOK,
                mainVars, httpVars
  <1>2. CASE MoveSteps
    <2> USE DEF StartFails, StartWorkers, Serve, StartupAborted, Signal, ServeFails,
           DeadlineExpires, CloseListener, HttpShutdown, HandlersWaited, UsageJoined, SaverJoined,
           CloseCompletion, CompletionJoined, HistoryJoined, CloseDatabase, ProcessExit
    <2>1. main' \in StartingAt \cup StoppingAt \cup StoppedAt
      BY <1>2 DEF MoveSteps, WaitEnds, SaverAfter, StartingAt, StoppingAt, StoppedAt,
         ProcessTypeOK, MainTypeOK, mainVars
    <2>2. UNCHANGED usage /\ ending' \in {"no", "signal", "cleanup"} /\ deadline' \in BOOLEAN
          /\ db' \in {"open", "closed"}
      BY <1>2, MovesLeave DEF MoveSteps, ProcessTypeOK, MainTypeOK, mainVars
    <2>3. /\ listening' \in {listening, TRUE, FALSE} /\ httpErr' \in {httpErr, TRUE}
          /\ draining' \in {draining, TRUE} /\ serving' \in {serving, serving - 1}
      BY <1>2 DEF MoveSteps, httpVars
    <2>6. /\ listening' \in BOOLEAN /\ httpErr' \in BOOLEAN /\ draining' \in BOOLEAN
      BY <2>3, Zenon DEF ProcessTypeOK, HttpTypeOK
    <2>7. serving' \in Int
      BY <2>3 DEF ProcessTypeOK, HttpTypeOK
    <2>4. completion' \in CompletionRecords
      BY <1>2 DEF MoveSteps, ProcessTypeOK, WorkerTypeOK, CompletionRecords, workerVars
    <2>5. history' \in HistoryRecords
      <3>1. \/ UNCHANGED history
            \/ history' = [history EXCEPT !.worker = "retention"]
            \/ history' = [history EXCEPT !.abort = TRUE, !.queue = <<>>]
        BY <1>2 DEF MoveSteps, workerVars
      <3> QED
        BY <3>1, HistoryQueue DEF ProcessTypeOK, WorkerTypeOK
    <2> QED
      BY <1>2, <2>1, <2>2, <2>4, <2>5, <2>6, <2>7, MovesLeave
         DEF ProcessTypeOK, MainTypeOK, HttpTypeOK, WorkerTypeOK
  <1> QED
    BY <1>1, <1>2

-----------------------------------------------------------------------------
(* The order of the stops.                                                 *)

(* Every step keeps the order of the shutdown sequence.                    *)
LEMMA MainOrderStep == ProcessTypeOK /\ MainOrder /\ ProcessNext => MainOrder'
  <1> SUFFICES ASSUME ProcessTypeOK, MainOrder, ProcessNext PROVE MainOrder'
    OBVIOUS
  <1> USE DEF MainOrder, httpVars, workerVars, mainVars, StartingAt, StoppingAt, StoppedAt
  <1>1. CASE HandlerSteps \/ EmissionSteps \/ SaverSteps \/ CompletionSteps \/ HistorySteps
    BY <1>1, HandlersLeave, EmissionLeaves, SaversLeave, CompletionLeaves, HistoryLeaves
  <1>2. CASE DrainUsage \/ UsageEnds
    BY <1>2 DEF DrainUsage, UsageEnds
  <1>3. CASE MoveSteps
    <2>1. CASE StartFails \/ StartWorkers \/ Serve \/ StartupAborted \/ Signal \/ ServeFails
      BY <2>1 DEF StartFails, StartWorkers, Serve, StartupAborted, Signal, ServeFails
    <2>2. CASE DeadlineExpires \/ CloseListener \/ HttpShutdown \/ HandlersWaited \/ UsageJoined
      BY <2>2 DEF DeadlineExpires, CloseListener, HttpShutdown, HandlersWaited, UsageJoined,
                  WaitEnds
    <2>3. ASSUME NEW s \in Savers, SaverJoined(s) PROVE MainOrder'
      <3>1. main \in {"token", "budget"} /\ main' \in {"budget", "completion", "exited"}
        BY <2>3 DEF SaverJoined, SaverAfter, WaitEnds, Savers
      <3>2. UNCHANGED <<ending, db, draining, usage>>
        BY <2>3 DEF SaverJoined
      <3> QED
        BY <3>1, <3>2
    <2>4. CASE CloseCompletion \/ CompletionJoined \/ HistoryJoined \/ CloseDatabase \/ ProcessExit
      BY <2>4 DEF CloseCompletion, CompletionJoined, HistoryJoined, CloseDatabase, ProcessExit
    <2> QED
      BY <1>3, <2>1, <2>2, <2>3, <2>4 DEF MoveSteps
  <1> QED
    BY StepsGrouped, <1>1, <1>2, <1>3

(* Every step keeps the HTTP server in step with the shutdown sequence.    *)
LEMMA HttpOrderStep ==
    ProcessTypeOK /\ MainOrder /\ HttpOrder /\ ProcessNext => HttpOrder'
  <1> SUFFICES ASSUME ProcessTypeOK, MainOrder, HttpOrder, ProcessNext PROVE HttpOrder'
    OBVIOUS
  <1>t. handler \in [Requests \cup Probes -> HandlerStates]
    BY DEF ProcessTypeOK, HttpTypeOK
  <1>1. CASE EmissionSteps \/ SaverSteps \/ CompletionSteps \/ HistorySteps \/ DrainUsage \/ UsageEnds
    BY <1>1, EmissionLeaves, SaversLeave, CompletionLeaves, HistoryLeaves
       DEF DrainUsage, UsageEnds, HttpOrder, Idle, Quiet, mainVars, httpVars
  <1>2. CASE HandlerSteps
    <2> UNCHANGED <<main, ending, listening, httpErr>>
      BY <1>2, HandlersLeave DEF mainVars
    <2>1. ASSUME listening = FALSE, NEW q \in Requests \cup Probes
          PROVE  (Idle(q) => Idle(q)') /\ (Quiet(q) => Quiet(q)')
      BY <1>2, <1>t, <2>1 DEF HandlerSteps, Dispatch, HandlerEnters, RequestEnds, RunCheck,
         ProbeAnswers, Leaves, Idle, Quiet, HandlerStates
    <2>2. (ending = "no" /\ main # "serving") \/ (ending = "signal" /\ main # "http") => listening = FALSE
      BY DEF HttpOrder, MainOrder, StartingAt, StoppingAt, ProcessTypeOK, HttpTypeOK
    <2> QED
      BY <2>1, <2>2 DEF HttpOrder
  <1>3. CASE MoveSteps
    <2> UNCHANGED handler
      BY <1>3, MovesLeave
    <2> DEFINE AllIdle == \A r \in Requests \cup Probes : Idle(r)
               AllQuiet == \A r \in Requests \cup Probes : Quiet(r)
    <2>a. (AllIdle' <=> AllIdle) /\ (AllQuiet' <=> AllQuiet)
      BY DEF Idle, Quiet
    <2>b. HttpOrder <=>
             /\ listening => main \in {"serving", "http"}
             /\ ending = "no" /\ main # "serving" => AllIdle
             /\ ending = "signal" /\ main # "http" => httpErr \/ AllQuiet
      BY DEF HttpOrder
    <2>c. HttpOrder' <=>
             /\ listening' => main' \in {"serving", "http"}
             /\ ending' = "no" /\ main' # "serving" => AllIdle'
             /\ ending' = "signal" /\ main' # "http" => httpErr' \/ AllQuiet'
      BY DEF HttpOrder
    <2>d. (\A r \in DOMAIN handler : handler[r] \notin {"dispatched", "running"}) => AllQuiet
      BY <1>t DEF Quiet
    <2> HIDE DEF AllIdle, AllQuiet
    <2> USE <2>a, <2>b, <2>c DEF MainOrder, StartingAt, StoppingAt, StoppedAt
    <2>1. CASE StartFails \/ StartWorkers \/ Serve \/ StartupAborted
      BY <2>1 DEF StartFails, StartWorkers, Serve, StartupAborted, httpVars
    <2>2. CASE Signal \/ ServeFails \/ CloseListener
      BY <2>2 DEF Signal, ServeFails, CloseListener, mainVars
    <2>3. CASE HttpShutdown
      BY <2>3, <2>d DEF HttpShutdown
    <2>4. CASE DeadlineExpires \/ HandlersWaited \/ UsageJoined
      BY <2>4 DEF DeadlineExpires, HandlersWaited, UsageJoined, WaitEnds, httpVars
    <2>5. ASSUME NEW s \in Savers, SaverJoined(s) PROVE HttpOrder'
      <3>1. main \in {"token", "budget"} /\ main' \in {"budget", "completion", "exited"}
        BY <2>5 DEF SaverJoined, SaverAfter, WaitEnds, Savers
      <3>2. UNCHANGED <<ending, listening, httpErr>>
        BY <2>5 DEF SaverJoined, httpVars
      <3> QED
        BY <3>1, <3>2
    <2>6. CASE CloseCompletion \/ CompletionJoined \/ HistoryJoined \/ CloseDatabase \/ ProcessExit
      BY <2>6 DEF CloseCompletion, CompletionJoined, HistoryJoined, CloseDatabase, ProcessExit, httpVars
    <2> QED
      BY <1>3, <2>1, <2>2, <2>3, <2>4, <2>5, <2>6 DEF MoveSteps
  <1> QED
    BY StepsGrouped, <1>1, <1>2, <1>3

\* An owner of the database that is done has returned for good; only start-up
\* starts the history worker.
LEMMA OwnersStayDone ==
    ProcessTypeOK /\ OwnersDone /\ main # "starting" /\ ProcessNext => OwnersDone'
  <1> SUFFICES ASSUME ProcessTypeOK, OwnersDone, main # "starting", ProcessNext PROVE OwnersDone'
    OBVIOUS
  <1>1. ASSUME NEW s \in Savers PROVE saver'[s].state = "done"
    <2>1. CASE SaverSteps
      BY <2>1 DEF SaverSteps, SaverWrites, SaverWrote, SaverEnds, StopSaver, OwnersDone,
             ProcessTypeOK, WorkerTypeOK, SaverRecords
    <2>2. CASE UNCHANGED saver
      BY <2>2 DEF OwnersDone
    <2> QED
      BY <2>1, <2>2, StepsGrouped, HandlersLeave, EmissionLeaves, CompletionLeaves, HistoryLeaves,
         MovesLeave DEF DrainUsage, UsageEnds, workerVars
  <1>2. history'.worker = "done"
    <2> USE DEF OwnersDone, ProcessTypeOK, WorkerTypeOK, HistoryRecords
    <2>1. CASE UNCHANGED history
      BY <2>1
    <2>2. CASE EmissionSteps
      BY <2>2 DEF EmissionSteps, Transfer, Enqueue, EnqueueChecks, EnqueueSends, Submit
    <2>3. CASE HistorySteps
      BY <2>3 DEF HistorySteps, HistoryStarts, HistoryTakes, HistoryPersisted, HistoryStops,
                  StopHistory, HistoryWorker
    <2>4. CASE MoveSteps
      <3>1. \/ UNCHANGED history
            \/ history' = [history EXCEPT !.abort = TRUE, !.queue = <<>>]
        BY <2>4 DEF MoveSteps, StartFails, StartWorkers, Serve, StartupAborted, Signal, ServeFails,
           DeadlineExpires, CloseListener, HttpShutdown, HandlersWaited, UsageJoined, SaverJoined,
           CloseCompletion, CompletionJoined, HistoryJoined, CloseDatabase, ProcessExit, workerVars
      <3> QED
        BY <3>1
    <2> QED
      BY <2>1, <2>2, <2>3, <2>4, StepsGrouped, HandlersLeave, SaversLeave, CompletionLeaves
         DEF DrainUsage, UsageEnds, workerVars
  <1> QED
    BY <1>1, <1>2 DEF OwnersDone

\* Only StartFails, before the workers exist, and CloseDatabase close the database.
LEMMA ClosedOrderStep ==
    ProcessTypeOK /\ MainOrder /\ ClosedOrder /\ ProcessNext => ClosedOrder'
  <1> SUFFICES ASSUME ProcessTypeOK, MainOrder, ClosedOrder, ProcessNext,
                      db' = "closed", ending' = "signal"
               PROVE  OwnersDone'
    BY DEF ClosedOrder
  <1>1. CASE db = "closed"
    <2>1. main \in StoppedAt
      BY <1>1 DEF MainOrder
    <2>2. ending = "signal"
      BY <2>1, StepsGrouped, HandlersLeave, EmissionLeaves, SaversLeave, CompletionLeaves,
         HistoryLeaves
         DEF DrainUsage, UsageEnds, mainVars, StoppedAt, MoveSteps, StartFails, StartWorkers,
             Serve, StartupAborted, Signal, ServeFails,
             DeadlineExpires, CloseListener, HttpShutdown, HandlersWaited, UsageJoined, SaverJoined,
             CloseCompletion, CompletionJoined, HistoryJoined, CloseDatabase, ProcessExit
    <2> QED
      BY <1>1, <2>1, <2>2, OwnersStayDone DEF ClosedOrder, StoppedAt
  <1>2. CASE db # "closed"
    <2>1. StartFails \/ CloseDatabase
      BY <1>2, StepsGrouped, HandlersLeave, EmissionLeaves, SaversLeave, CompletionLeaves,
         HistoryLeaves
         DEF DrainUsage, UsageEnds, mainVars, MoveSteps, StartWorkers,
             Serve, StartupAborted, Signal, ServeFails,
             DeadlineExpires, CloseListener, HttpShutdown, HandlersWaited, UsageJoined, SaverJoined,
             CloseCompletion, CompletionJoined, HistoryJoined, ProcessExit
    <2>2. CASE StartFails
      BY <2>2 DEF StartFails, MainOrder, StartingAt
    <2>3. CASE CloseDatabase
      BY <2>3, <1>2 DEF CloseDatabase, OwnersDone, workerVars
    <2> QED
      BY <2>1, <2>2, <2>3
  <1> QED
    BY <1>1, <1>2

\* Where main can come from and go to around the completion logger.
LEMMA MoveStopped ==
    ASSUME MoveSteps, main \in {"completion join", "history", "close"} \cup StoppedAt
    PROVE  main' \in {"completion join", "history", "close"} \cup StoppedAt
  <1>1. CASE \E s \in Savers : SaverJoined(s)
    BY <1>1 DEF SaverJoined, Savers, StoppedAt
  <1> QED
    BY <1>1 DEF MoveSteps, StartFails, StartWorkers, Serve, StartupAborted, Signal, ServeFails,
       DeadlineExpires, CloseListener, HttpShutdown, HandlersWaited, UsageJoined,
       CloseCompletion, CompletionJoined, HistoryJoined, CloseDatabase, ProcessExit, mainVars, StoppedAt

(* The completion writer is joined only after it was closed.               *)
LEMMA MoveToJoin ==
    ASSUME MoveSteps, main' = "completion join"
    PROVE  main = "completion join" \/ CloseCompletion
  <1>1. CASE \E s \in Savers : SaverJoined(s)
    BY <1>1 DEF SaverJoined, SaverAfter, WaitEnds, Savers
  <1> QED
    BY <1>1 DEF MoveSteps, StartFails, StartWorkers, Serve, StartupAborted, Signal, ServeFails,
       DeadlineExpires, CloseListener, HttpShutdown, HandlersWaited, UsageJoined, WaitEnds,
       CompletionJoined, HistoryJoined, CloseDatabase, ProcessExit, mainVars

(* Every step keeps the completion writer in step with the shutdown        *)
(* sequence.                                                               *)
LEMMA CompletionOrderStep ==
    ProcessTypeOK /\ MainOrder /\ CompletionOrder /\ ProcessNext => CompletionOrder'
  <1> SUFFICES ASSUME ProcessTypeOK, CompletionOrder, ProcessNext PROVE CompletionOrder'
    OBVIOUS
  <1>t. completion \in CompletionRecords /\ emission \in [Requests -> EmissionRecords]
    BY DEF ProcessTypeOK, WorkerTypeOK
  <1>1. CASE HandlerSteps \/ SaverSteps \/ HistorySteps \/ DrainUsage \/ UsageEnds
    BY <1>1, HandlersLeave, SaversLeave, HistoryLeaves
       DEF DrainUsage, UsageEnds, CompletionOrder, CompletionSettled, mainVars, workerVars
  <1>2. CASE EmissionSteps
    <2> UNCHANGED main
      BY <1>2, EmissionLeaves DEF mainVars
    <2>1. PICK r \in Requests :
             Transfer(r) \/ Enqueue(r) \/ EnqueueChecks(r) \/ EnqueueSends(r) \/ Submit(r)
      BY <1>2 DEF EmissionSteps
    <2>2. CASE EnqueueSends(r)
      <3>1. ~ CompletionSettled
        BY <2>2 DEF EnqueueSends, CompletionOrder
      <3>2. /\ completion'.stop = completion.stop /\ completion'.worker = completion.worker
            /\ completion'.joined = completion.joined
        BY <2>2, <1>t DEF EnqueueSends, CompletionRecords
      <3> QED
        BY <3>1, <3>2 DEF CompletionOrder, CompletionSettled
    <2>3. CASE ~ EnqueueSends(r)
      <3>1. UNCHANGED completion
        BY <2>1, <2>3 DEF Transfer, Enqueue, EnqueueChecks, Submit
      <3>2. ASSUME ~ completion.accepting, NEW q \in Requests, emission[q].step # "admitted"
            PROVE  emission'[q].step # "admitted"
        BY <2>1, <2>3, <3>2, <1>t DEF Transfer, Enqueue, EnqueueChecks, Submit, EmissionRecords
      <3> QED
        BY <3>1, <3>2 DEF CompletionOrder, CompletionSettled
    <2> QED
      BY <2>2, <2>3
  <1>3. CASE CompletionSteps
    BY <1>3, <1>t, CompletionLeaves
       DEF CompletionSteps, CompletionWrites, CompletionStops, StopCompletion,
           CompletionOrder, CompletionSettled, CompletionRecords, mainVars
  <1>4. CASE MoveSteps
    <2> UNCHANGED emission
      BY <1>4, MovesLeave
    <2>1. CASE CloseCompletion
      <3>1. completion'.stop /\ UNCHANGED <<completion.worker, completion.accepting, completion.joined>>
        BY <2>1, <1>t DEF CloseCompletion, CompletionRecords
      <3>2. completion.worker = "run" /\ ~ completion.joined
        BY <2>1 DEF CloseCompletion, CompletionOrder, StoppedAt
      <3>3. main' = "completion join" => \A r \in Requests : emission[r].step # "admitted"
        BY <2>1 DEF CloseCompletion, InFlight
      <3>4. ~ completion.accepting /\ main' \in {"completion join", "history"}
        BY <2>1 DEF CloseCompletion
      <3> QED
        BY <3>1, <3>2, <3>3, <3>4 DEF CompletionOrder, CompletionSettled
    <2>2. CASE CompletionJoined
      <3>1. UNCHANGED <<completion.stop, completion.worker, completion.accepting, completion.queue>>
        BY <2>2, <1>t DEF CompletionJoined, CompletionRecords
      <3>2. main = "completion join" /\ main' = "history"
        BY <2>2 DEF CompletionJoined
      <3>3. completion'.joined => completion.worker = "done"
        BY <2>2, <1>t DEF CompletionJoined, CompletionRecords, CompletionOrder
      <3> QED
        BY <3>1, <3>2, <3>3 DEF CompletionOrder, CompletionSettled
    <2>3. CASE UNCHANGED completion
      <3>1. completion.stop => main' \in {"completion join", "history", "close"} \cup StoppedAt
        BY <1>4, MoveStopped DEF CompletionOrder
      <3>2. main' = "completion join" => main = "completion join" \/ CloseCompletion
        BY <1>4, MoveToJoin
      <3> QED
        BY <2>1, <2>3, <3>1, <3>2 DEF CompletionOrder, CompletionSettled
    <2> QED
      BY <1>4, <2>1, <2>2, <2>3 DEF MoveSteps, StartFails, StartWorkers, Serve, StartupAborted, Signal,
         ServeFails, DeadlineExpires, CloseListener, HttpShutdown, HandlersWaited, UsageJoined,
         SaverJoined, HistoryJoined, CloseDatabase, ProcessExit, workerVars
  <1> QED
    BY StepsGrouped, <1>1, <1>2, <1>3, <1>4

(* Every step keeps the history worker in step with its own stop.          *)
LEMMA HistoryOrderStep == ProcessTypeOK /\ HistoryOrder /\ ProcessNext => HistoryOrder'
  <1> SUFFICES ASSUME ProcessTypeOK, HistoryOrder, ProcessNext PROVE HistoryOrder'
    OBVIOUS
  <1>t. history \in HistoryRecords
    BY DEF ProcessTypeOK, WorkerTypeOK
  <1> USE DEF HistoryOrder
  <1>1. CASE UNCHANGED history
    BY <1>1
  <1>2. CASE EmissionSteps
    BY <1>2, <1>t DEF EmissionSteps, Transfer, Enqueue, EnqueueChecks, EnqueueSends, Submit,
                HistoryAccepts, HistoryRecords
  <1>3. CASE HistorySteps
    <2>1. CASE HistoryStarts
      BY <2>1, <1>t DEF HistoryStarts, HistoryRecords
    <2>2. CASE HistoryTakes
      BY <2>2, <1>t DEF HistoryTakes, HistoryRecords
    <2>3. CASE HistoryPersisted
      BY <2>3, <1>t DEF HistoryPersisted, HistoryWorker, HistoryRecords
    <2>4. CASE HistoryStops
      BY <2>4, <1>t DEF HistoryStops, HistoryWorker, HistoryRecords
    <2>5. CASE StopHistory
      BY <2>5, <1>t DEF StopHistory, HistoryRecords
    <2> QED
      BY <1>3, <2>1, <2>2, <2>3, <2>4, <2>5 DEF HistorySteps
  <1>4. CASE MoveSteps
    <2>1. \/ UNCHANGED history
          \/ history' = [history EXCEPT !.worker = "retention"]
          \/ history' = [history EXCEPT !.abort = TRUE, !.queue = <<>>]
      BY <1>4 DEF MoveSteps, StartFails, StartWorkers, Serve, StartupAborted, Signal, ServeFails,
         DeadlineExpires, CloseListener, HttpShutdown, HandlersWaited, UsageJoined, SaverJoined,
         CloseCompletion, CompletionJoined, HistoryJoined, CloseDatabase, ProcessExit, workerVars
    <2> QED
      BY <2>1, <1>t DEF HistoryRecords
  <1> QED
    BY StepsGrouped, <1>1, <1>2, <1>3, <1>4, HandlersLeave, SaversLeave, CompletionLeaves
       DEF DrainUsage, UsageEnds, workerVars

-----------------------------------------------------------------------------
(* The invariant holds when the process starts.                            *)
LEMMA ProcessInitially == ProcessInit => ProcessIInv
  <1> SUFFICES ASSUME ProcessInit PROVE ProcessIInv
    OBVIOUS
  <1>1. ProcessTypeOK
    BY TypeInit
  <1>2. \A r \in Requests \cup Probes : Idle(r)
    BY DEF ProcessInit, Idle
  <1>3. MainOrder /\ HttpOrder /\ ClosedOrder
    BY <1>2 DEF ProcessInit, MainOrder, HttpOrder, ClosedOrder, StartingAt, StoppingAt, StoppedAt
  <1>4. CompletionOrder
    BY DEF ProcessInit, CompletionOrder, CompletionSettled
  <1>5. HistoryOrder
    BY DEF ProcessInit, HistoryOrder
  <1> QED
    BY <1>1, <1>3, <1>4, <1>5 DEF ProcessIInv

(* Every step keeps the invariant.                                         *)
LEMMA ProcessStep == ProcessIInv /\ [ProcessNext]_processVars => ProcessIInv'
  <1> SUFFICES ASSUME ProcessIInv, [ProcessNext]_processVars PROVE ProcessIInv'
    OBVIOUS
  <1>1. CASE ProcessNext
    <2>1. ProcessTypeOK'
      BY <1>1, StepsGrouped, TypeHandlers, TypeEmission, TypeSavers, TypeQueues, TypeMoves
         DEF ProcessIInv
    <2> QED
      BY <1>1, <2>1, MainOrderStep, HttpOrderStep, ClosedOrderStep, CompletionOrderStep,
         HistoryOrderStep DEF ProcessIInv
  <1>2. CASE UNCHANGED processVars
    <2>1. ProcessTypeOK'
      BY <1>2 DEF processVars, ProcessIInv, ProcessTypeOK, MainTypeOK, HttpTypeOK, WorkerTypeOK
    <2>2. MainOrder' /\ HttpOrder' /\ ClosedOrder'
      BY <1>2 DEF processVars, ProcessIInv, MainOrder, HttpOrder, ClosedOrder, Idle, Quiet, OwnersDone
    <2>3. CompletionOrder' /\ HistoryOrder'
      BY <1>2 DEF processVars, ProcessIInv, CompletionOrder, HistoryOrder, CompletionSettled
    <2> QED
      BY <2>1, <2>2, <2>3 DEF ProcessIInv
  <1> QED
    BY <1>1, <1>2

(* In every reachable state of the process the shutdown sequence of main,  *)
(* the HTTP server, the completion writer and the history worker are in    *)
(* step: what has been closed was drained by its owner first.              *)
THEOREM ProcessInvariant == ProcessSpec => []ProcessIInv
  BY ProcessInitially, ProcessStep, PTL DEF ProcessSpec

\* The database is closed by a shutdown only when no accumulator and no history
\* write can be in a repository call, and no handler either unless net/http gave
\* up on its connections, however many requests and probes there are
\* (shutdownGateway, server.Shutdown).
THEOREM ClosedAfterOwners == ProcessSpec => []DatabaseOutlivesOwners
  <1>1. ProcessIInv => DatabaseOutlivesOwners
    <2> SUFFICES ASSUME ProcessIInv, db = "closed", ending = "signal"
                 PROVE  /\ history.worker \notin InRepository
                        /\ \A s \in Savers : saver[s].state # "writing"
                        /\ httpErr \/ \A r \in DOMAIN handler :
                                         handler[r] \notin {"dispatched", "running"}
      BY DEF DatabaseOutlivesOwners
    <2>1. OwnersDone
      BY DEF ProcessIInv, ClosedOrder
    <2>2. main # "http"
      BY DEF ProcessIInv, MainOrder, StoppedAt
    <2>3. httpErr \/ \A r \in DOMAIN handler : handler[r] \notin {"dispatched", "running"}
      BY <2>2 DEF ProcessIInv, HttpOrder, Quiet, ProcessTypeOK, HttpTypeOK
    <2> QED
      BY <2>1, <2>3 DEF OwnersDone, InRepository
  <1> QED
    BY <1>1, ProcessInvariant, PTL

\* CompletionLogger.Shutdown that returned nil leaves no record behind and none
\* follows, and a history worker that is done has emptied its queue, for any
\* number of requests racing the stop and any capacity of the queues.
THEOREM StopsStrandNothing == ProcessSpec => []RecordsNotStranded
  <1>1. ProcessIInv => RecordsNotStranded
    BY DEF ProcessIInv, CompletionOrder, CompletionSettled, HistoryOrder, RecordsNotStranded
  <1> QED
    BY <1>1, ProcessInvariant, PTL

\* A probe that answers ready tells the truth at that moment, though its checks
\* were made one by one before (Readiness.Check).
THEOREM ReadyAnswersTrue == ProcessSpec => ReadyIsTrue
  <1>1. ASSUME ProcessIInv, ProcessNext, NEW p \in Probes,
               probe'[p].verdict = "ready", probe[p].verdict = "none", ending # "cleanup"
        PROVE  ~ draining /\ db = "open" /\ usage = "run"
    <2>1. ProbeAnswers(p)
      <3>1. probe' # probe
        BY <1>1
      <3>2. HandlerSteps
        BY <1>1, <3>1, StepsGrouped, EmissionLeaves, SaversLeave, CompletionLeaves, HistoryLeaves,
           MovesLeave DEF DrainUsage, UsageEnds, httpVars
      <3>3. ASSUME NEW q \in Probes, RunCheck(q) PROVE FALSE
        <4>1. probe'[p].verdict = probe[p].verdict
          BY <1>1, <3>3 DEF RunCheck, ProcessIInv, ProcessTypeOK, HttpTypeOK, ProbeRecords
        <4> QED
          BY <1>1, <4>1
      <3>4. ASSUME NEW q \in Probes, ProbeAnswers(q) PROVE q = p
        BY <1>1, <3>4 DEF ProbeAnswers, ProcessIInv, ProcessTypeOK, HttpTypeOK, ProbeRecords
      <3> QED
        BY <3>1, <3>2, <3>3, <3>4 DEF HandlerSteps, Dispatch, HandlerEnters, RequestEnds
    <2>2. ~ draining
      BY <2>1, <1>1 DEF ProbeAnswers, Ready, ProcessIInv, ProcessTypeOK, HttpTypeOK, ProbeRecords
    <2>3. ending = "no"
      BY <2>2, <1>1 DEF ProcessIInv, MainOrder, ProcessTypeOK, MainTypeOK
    <2>4. main = "serving"
      BY <1>1, <2>1, <2>3 DEF ProbeAnswers, ProcessIInv, HttpOrder, Idle
    <2> QED
      BY <2>2, <2>3, <2>4, <1>1
         DEF ProcessIInv, MainOrder, ProcessTypeOK, MainTypeOK, StoppedAt
  <1>2. ProcessIInv /\ [ProcessNext]_processVars =>
           [\A p \in Probes :
              probe'[p].verdict = "ready" /\ probe[p].verdict = "none" /\ ending # "cleanup" =>
                 ~ draining /\ db = "open" /\ usage = "run"]_processVars
    BY <1>1
  <1> QED
    BY <1>2, ProcessInvariant, PTL DEF ProcessSpec, ReadyIsTrue
=============================================================================
