-------------------------- MODULE AccountingProofs --------------------------
(***************************************************************************)
(* Proofs about the accounting of one request, before and after the        *)
(* upstream call: the worker that corrects charges (UsageObservation) and  *)
(* what a request reserves (ReservationPlan).                              *)
(***************************************************************************)
EXTENDS UsageObservation, ReservationPlan, SumTheorems

(***************************************************************************)
(* Proofs about UsageObservation: for any number of requests, any kinds of *)
(* ticket and any capacity of the queue, the observation worker strands no *)
(* slot, no ticket and no job, each completion record goes out once, and a *)
(* Shutdown that timed out is followed by no new adjustment.               *)
(*                                                                         *)
(* NothingStranded is not inductive: that a live ticket has exactly one    *)
(* holder rests on where a job can be (JobsPlaced), on what the worker     *)
(* holds where it is (WorkerHolds), and that a stop that returned nil has  *)
(* settled everything on the order in which Drain and Shutdown close the   *)
(* worker's doors (StopOrder).                                             *)
(***************************************************************************)

Settled == {"ended", "logged", "returned"}
HoldsJob == {"parse", "parsed", "adjust", "finish", "unclaim", "processed"}
Claimed == {"adjust", "finish", "unclaim"}

Queued(r) == \E i \in DOMAIN queue : queue[i] = r

\* A job is in one place at a time: the queue, once, or the worker; its
\* submitter is past submit.
JobsPlaced ==
    /\ \A i, j \in DOMAIN queue : queue[i] = queue[j] => i = j
    /\ \A i \in DOMAIN queue : handler[queue[i]] \in Settled /\ queue[i] # worker.job
    /\ worker.job # None => handler[worker.job] \in Settled

\* The worker holds a job exactly between taking it and Processed; active is
\* that job unless drainQueued took it, which happens in a drain only.
WorkerHolds ==
    /\ worker.at \in HoldsJob <=> worker.job # None
    /\ active # None => active = worker.job
    /\ worker.job # None /\ active = None => draining /\ ~accepting
    /\ worker.at = "drainQueued" => draining /\ ~accepting
    /\ worker.at = "done" => ~accepting /\ queue = <<>>

\* A live ticket is with a submitter, in the queue, or with the worker before
\* it has consumed it.
LivePlaced ==
    \A r \in Requests : Live(r) =>
        InSubmit(r) \/ Queued(r) \/ (worker.job = r /\ worker.at \in {"parse", "parsed", "adjust"})

\* Drain and Shutdown close the doors in this order, and a drain throws no job
\* away before its deadline.
StopOrder ==
    /\ stopper.at = "none" => accepting /\ ~stopped /\ ~draining
    /\ stopper.at = "flagged" => draining
    /\ stopper.at = "claimed" => ~draining
    /\ stopper.at \notin {"none", "flagged"} => ~accepting
    /\ stopped => ~accepting
    /\ stopper.at = "joined" => worker.at = "done"
    /\ stopper.at \in {"none", "flagged"} => discarded = {}
    /\ draining /\ stopper.at # "expired" => discarded = {}
    /\ ~draining /\ ~accepting => queue = <<>>

\* The phase follows the worker, and the deadline of a Shutdown finds a worker
\* that has not claimed yet with its phase taken away.
PhaseOrder ==
    /\ phase = "adjusting" => worker.at \in Claimed
    /\ stopper.at \in {"swapping", "swapped", "expired"} /\ ~draining
         /\ worker.at \in {"parse", "parsed"} => phase = "terminal"

FiniteHolding == IsFiniteSet(Holding)

RecordExact(o) ==
    /\ o.emitted = IF o.finalized THEN 1 ELSE 0
    /\ o.finalized => o.completed

RecordsExact == \A r \in Requests : RecordExact(record[r])

IInv ==
    /\ TypeOK /\ SlotsExact /\ FiniteHolding
    /\ JobsPlaced /\ WorkerHolds /\ LivePlaced
    /\ StopOrder /\ PhaseOrder /\ RecordsExact

-----------------------------------------------------------------------------
(* The completion record.                                                  *)

Ownerships == [transferred : BOOLEAN, enriched : BOOLEAN, completed : BOOLEAN,
               finalized : BOOLEAN, emitted : Nat]

\* Setting the enriched, completed or transferred flag of a record.
LEMMA FlagsKept ==
    ASSUME NEW o \in Ownerships
    PROVE  /\ [o EXCEPT !.transferred = TRUE] \in Ownerships
           /\ [o EXCEPT !.enriched = TRUE] \in Ownerships
           /\ [o EXCEPT !.completed = TRUE] \in Ownerships
           /\ [o EXCEPT !.finalized = TRUE, !.emitted = @ + 1] \in Ownerships
  <1>1. o.emitted + 1 \in Nat
    BY DEF Ownerships
  <1>2. [o EXCEPT !.finalized = TRUE, !.emitted = o.emitted + 1] \in Ownerships
    BY <1>1 DEF Ownerships
  <1> QED
    BY <1>2 DEF Ownerships

(* Emitting a record that was not final is emitting it once.               *)
LEMMA EmitExact ==
    ASSUME NEW o \in Ownerships, NEW c \in BOOLEAN, RecordExact(o), ~ o.finalized,
           c => o.completed
    PROVE  Emit(o, c) \in Ownerships /\ RecordExact(Emit(o, c))
  <1>1. CASE ~ c
    BY <1>1 DEF Emit
  <1>2. CASE c
    <2>1. Emit(o, c) = [o EXCEPT !.finalized = TRUE, !.emitted = @ + 1]
      BY <1>2 DEF Emit
    <2>2. o.emitted = 0 /\ o.completed
      BY <1>2 DEF RecordExact
    <2>3. Emit(o, c).emitted = 1
      BY <2>1, <2>2 DEF Ownerships
    <2>4. Emit(o, c).finalized /\ Emit(o, c).completed = o.completed
      BY <2>1 DEF Ownerships
    <2> QED
      BY <2>1, <2>2, <2>3, <2>4, FlagsKept DEF RecordExact
  <1> QED
    BY <1>1, <1>2

(* finish emits at most once.                                              *)
LEMMA FinishExact ==
    ASSUME NEW o \in Ownerships, RecordExact(o)
    PROVE  Finish(o) \in Ownerships /\ RecordExact(Finish(o))
  <1>1. CASE o.enriched \/ o.finalized
    BY <1>1 DEF Finish
  <1>2. CASE ~ (o.enriched \/ o.finalized)
    <2> DEFINE e == [o EXCEPT !.enriched = TRUE]
    <2>1. /\ e \in Ownerships /\ e.finalized = o.finalized /\ e.completed = o.completed
          /\ e.emitted = o.emitted
      BY FlagsKept DEF Ownerships
    <2>2. RecordExact(e) /\ ~ e.finalized
      BY <1>2, <2>1 DEF RecordExact
    <2>3. Finish(o) = Emit(e, o.completed) /\ o.completed \in BOOLEAN
      BY <1>2 DEF Finish, Ownerships
    <2> HIDE DEF e
    <2> QED
      BY <2>1, <2>2, <2>3, EmitExact
  <1> QED
    BY <1>1, <1>2

(* complete emits at most once.                                            *)
LEMMA CompleteExact ==
    ASSUME NEW o \in Ownerships, RecordExact(o)
    PROVE  Complete(o) \in Ownerships /\ RecordExact(Complete(o))
  <1>1. CASE o.completed \/ o.finalized
    BY <1>1 DEF Complete
  <1>2. CASE ~ (o.completed \/ o.finalized)
    <2> DEFINE e == [o EXCEPT !.completed = TRUE]
               c == ~ o.transferred \/ o.enriched
    <2>1. /\ e \in Ownerships /\ e.finalized = o.finalized /\ e.completed
          /\ e.emitted = o.emitted
      BY FlagsKept DEF Ownerships
    <2>2. RecordExact(e) /\ ~ e.finalized
      BY <1>2, <2>1 DEF RecordExact
    <2>3. Complete(o) = Emit(e, c) /\ c \in BOOLEAN
      BY <1>2 DEF Complete
    <2> HIDE DEF e, c
    <2> QED
      BY <2>1, <2>2, <2>3, EmitExact
  <1> QED
    BY <1>1, <1>2

(* transfer emits nothing twice.                                           *)
LEMMA TransferExact ==
    ASSUME NEW o \in Ownerships, RecordExact(o)
    PROVE  Transfer(o) \in Ownerships /\ RecordExact(Transfer(o))
  <1>1. /\ Transfer(o) \in Ownerships
        /\ Transfer(o).finalized = o.finalized /\ Transfer(o).completed = o.completed
        /\ Transfer(o).emitted = o.emitted
    BY FlagsKept DEF Transfer, Ownerships
  <1> QED
    BY <1>1 DEF RecordExact

\* Every step leaves a record alone or does one of the three operations on it.
RecordsMoved ==
    /\ record' = [r \in Requests |-> record'[r]]
    /\ \A r \in Requests : record'[r] \in {record[r], Finish(record[r]),
                                           Complete(record[r]), Transfer(record[r])}

(* A step that touches no record.                                          *)
LEMMA RecordSame == TypeOK /\ UNCHANGED record => RecordsMoved
  BY DEF TypeOK, RecordsMoved

(* A step that finishes the records of a set of jobs.                      *)
LEMMA RecordsFinished ==
    ASSUME TypeOK, NEW jobs,
           record' = [r \in Requests |-> IF r \in jobs THEN Finish(record[r]) ELSE record[r]]
    PROVE  RecordsMoved
  BY DEF RecordsMoved

(* A step that calls one of the three operations on one record.            *)
LEMMA RecordOneMoved ==
    ASSUME TypeOK, NEW r \in Requests,
           NEW o \in {record[r], Finish(record[r]), Complete(record[r]), Transfer(record[r])},
           record' = [record EXCEPT ![r] = o]
    PROVE  RecordsMoved
  BY DEF TypeOK, RecordsMoved

(* What a handler does to the records.                                     *)
LEMMA HandlersMoveRecords ==
    ASSUME TypeOK, NEW r \in Requests, RequestEnds(r) \/ HandlerStep(r)
    PROVE  RecordsMoved
  <1>1. ASSUME NEW observed \in BOOLEAN, SettleInline(r, observed) PROVE RecordsMoved
    BY <1>1, RecordOneMoved, RecordSame DEF SettleInline
  <1>2. ASSUME NEW reserved \in SUBSET Kinds, HandOff(r, reserved) PROVE RecordsMoved
    BY <1>2, RecordOneMoved, RecordSame DEF HandOff
  <1>3. CASE TakeSlot(r)
    BY <1>3, RecordSame DEF TakeSlot
  <1>4. CASE Saturated(r)
    BY <1>4, RecordsFinished DEF Saturated, Invalidate
  <1>5. CASE CheckAccepting(r)
    BY <1>5, RecordSame, RecordsFinished DEF CheckAccepting, GiveUpSlot, Invalidate
  <1>6. CASE Enqueue(r)
    BY <1>6, RecordSame, RecordsFinished DEF Enqueue, GiveUpSlot, Invalidate
  <1>7. CASE CompleteRecord(r)
    BY <1>7, RecordOneMoved DEF CompleteRecord
  <1> QED
    BY <1>1, <1>2, <1>3, <1>4, <1>5, <1>6, <1>7 DEF RequestEnds, HandlerStep

(* What the worker does to the records.                                    *)
LEMMA WorkerMovesRecords == TypeOK /\ WorkerStep => RecordsMoved
  <1> SUFFICES ASSUME TypeOK, WorkerStep PROVE RecordsMoved
    OBVIOUS
  <1>1. CASE WorkerStops
    BY <1>1, RecordSame, RecordsFinished DEF WorkerStops, EndRun, DiscardQueued, Invalidate
  <1>2. CASE Claim
    BY <1>2, RecordSame, RecordsFinished DEF Claim, EndRun, DiscardQueued, Invalidate
  <1>3. CASE ParseFails
    BY <1>3, RecordsFinished DEF ParseFails, Invalidate
  <1>4. CASE BeginAdjust
    BY <1>4, RecordSame, RecordsFinished DEF BeginAdjust, Invalidate
  <1>5. CASE FinishRecord
    <2>1. record' = [record EXCEPT ![worker.job] = Finish(@)]
      BY <1>5 DEF FinishRecord
    <2> QED
      BY <2>1 DEF TypeOK, RecordsMoved
  <1>6. CASE WorkerWakes \/ DrainQueued \/ FinishAdjust \/ Processed
    BY <1>6, RecordSame DEF WorkerWakes, DrainQueued, FinishAdjust, Processed
  <1>7. CASE \E known \in BOOLEAN : Parse(known)
    BY <1>7, RecordSame DEF Parse
  <1>8. CASE \E outcome \in [Kinds -> {"adjusted", "invalid"}] : Adjust(outcome)
    BY <1>8, RecordSame DEF Adjust
  <1> QED
    BY <1>1, <1>2, <1>3, <1>4, <1>5, <1>6, <1>7, <1>8 DEF WorkerStep

(* What drain and shutdown do to the records.                              *)
LEMMA StopperMovesRecords ==
    TypeOK /\ (DrainBegin \/ ShutdownBegin \/ Expire \/ StopperStep) => RecordsMoved
  <1> SUFFICES ASSUME TypeOK, DrainBegin \/ ShutdownBegin \/ Expire \/ StopperStep
               PROVE  RecordsMoved
    OBVIOUS
  <1>1. CASE ShutdownFinishActive
    BY <1>1 DEF ShutdownFinishActive, RecordsMoved
  <1>2. CASE ShutdownBegin
    BY <1>2, RecordsFinished DEF ShutdownBegin, DiscardQueued, Invalidate
  <1>3. CASE DrainRemainder
    BY <1>3, RecordsFinished DEF DrainRemainder, DiscardQueued, Invalidate
  <1>4. CASE DrainBegin \/ Expire \/ DrainClose \/ CloseStop \/ Joined \/ ExpireAgain
    BY <1>4, RecordSame DEF DrainBegin, Expire, DrainClose, CloseStop, Joined, ExpireAgain
  <1> QED
    BY <1>1, <1>2, <1>3, <1>4 DEF StopperStep

(* Every step keeps the records exact.                                     *)
LEMMA RecordsStep ==
    TypeOK /\ RecordsExact /\ Next => record' \in [Requests -> Ownerships] /\ RecordsExact'
  <1> SUFFICES ASSUME TypeOK, RecordsExact, Next
               PROVE  record' \in [Requests -> Ownerships] /\ RecordsExact'
    OBVIOUS
  <1>0. RecordsMoved
    BY HandlersMoveRecords, WorkerMovesRecords, StopperMovesRecords DEF Next
  <1>1. ASSUME NEW r \in Requests PROVE record'[r] \in Ownerships /\ RecordExact(record'[r])
    <2>1. record[r] \in Ownerships /\ RecordExact(record[r])
      BY DEF TypeOK, Ownerships, RecordsExact
    <2> QED
      BY <1>0, <2>1, FinishExact, CompleteExact, TransferExact DEF RecordsMoved
  <1>2. record' = [r \in Requests |-> record'[r]]
    BY <1>0 DEF RecordsMoved
  <1> QED
    BY <1>1, <1>2 DEF RecordsExact, RecordExact

-----------------------------------------------------------------------------
(* Slots, queue and submitters.                                            *)

\* What a step does to the slots, the queue and the submitters between the two
\* critical sections of submit.
SlotsMoved ==
    \/ UNCHANGED <<slots, queue>> /\ Holding' = Holding
    \/ \E r \in Requests \ Holding :
          slots > 0 /\ slots' = slots - 1 /\ UNCHANGED queue /\ Holding' = Holding \cup {r}
    \/ \E r \in Holding : slots' = slots + 1 /\ UNCHANGED queue /\ Holding' = Holding \ {r}
    \/ \E r \in Holding :
          UNCHANGED slots /\ queue' = Append(queue, r) /\ Holding' = Holding \ {r}
    \/ queue # <<>> /\ slots' = slots + 1 /\ queue' = Tail(queue) /\ Holding' = Holding
    \/ slots' = slots + Len(queue) /\ queue' = <<>> /\ Holding' = Holding

(* What the move of one handler does to the set of slot holders.           *)
LEMMA HandlerOnly ==
    ASSUME handler \in [Requests -> HandlerAt], NEW r \in Requests, NEW x \in HandlerAt,
           handler' = [handler EXCEPT ![r] = x]
    PROVE  /\ handler' \in [Requests -> HandlerAt]
           /\ x \in {"holding", "checked"} => Holding' = Holding \cup {r}
           /\ x \notin {"holding", "checked"} => Holding' = Holding \ {r}
  BY DEF Holding

(* What a handler does to the slots and the queue.                         *)
LEMMA HandlersMoveSlots ==
    ASSUME TypeOK, NEW r \in Requests, RequestEnds(r) \/ HandlerStep(r)
    PROVE  SlotsMoved /\ handler' \in [Requests -> HandlerAt]
  <1>t. handler \in [Requests -> HandlerAt]
    BY DEF TypeOK
  <1> USE DEF channel
  <1>h. (r \in Holding <=> handler[r] \in {"holding", "checked"}) /\ Holding \subseteq Requests
    BY DEF Holding
  <1>1. ASSUME NEW observed \in BOOLEAN, SettleInline(r, observed)
        PROVE  SlotsMoved /\ handler' \in [Requests -> HandlerAt]
    <2>1. handler[r] = "serving" /\ handler' = [handler EXCEPT ![r] = "ended"]
          /\ UNCHANGED <<slots, queue>>
      BY <1>1 DEF SettleInline
    <2>2. Holding' = Holding \ {r} /\ handler' \in [Requests -> HandlerAt]
      BY <2>1, <1>t, HandlerOnly DEF HandlerAt
    <2> QED
      BY <2>1, <2>2, <1>h DEF SlotsMoved
  <1>2. ASSUME NEW reserved \in SUBSET Kinds, HandOff(r, reserved)
        PROVE  SlotsMoved /\ handler' \in [Requests -> HandlerAt]
    <2>1. handler[r] = "serving" /\ UNCHANGED <<slots, queue>>
      BY <1>2 DEF HandOff
    <2>2. PICK x \in {"submit", "ended"} : handler' = [handler EXCEPT ![r] = x]
      BY <1>2 DEF HandOff
    <2>3. Holding' = Holding \ {r} /\ handler' \in [Requests -> HandlerAt]
      BY <2>2, <1>t, HandlerOnly DEF HandlerAt
    <2> QED
      BY <2>1, <2>3, <1>h DEF SlotsMoved
  <1>3. CASE TakeSlot(r)
    <2>1. handler[r] = "submit" /\ handler' = [handler EXCEPT ![r] = "holding"]
          /\ slots > 0 /\ slots' = slots - 1 /\ UNCHANGED queue
      BY <1>3 DEF TakeSlot
    <2>2. Holding' = Holding \cup {r} /\ handler' \in [Requests -> HandlerAt]
      BY <2>1, <1>t, HandlerOnly DEF HandlerAt
    <2> QED
      BY <2>1, <2>2, <1>h DEF SlotsMoved
  <1>4. CASE Saturated(r)
    <2>1. handler[r] = "submit" /\ handler' = [handler EXCEPT ![r] = "ended"]
          /\ UNCHANGED <<slots, queue>>
      BY <1>4 DEF Saturated
    <2>2. Holding' = Holding \ {r} /\ handler' \in [Requests -> HandlerAt]
      BY <2>1, <1>t, HandlerOnly DEF HandlerAt
    <2> QED
      BY <2>1, <2>2, <1>h DEF SlotsMoved
  <1>5. ASSUME handler[r] \in {"holding", "checked"}, GiveUpSlot(r)
        PROVE  SlotsMoved /\ handler' \in [Requests -> HandlerAt]
    <2>1. handler' = [handler EXCEPT ![r] = "ended"] /\ slots' = slots + 1 /\ UNCHANGED queue
      BY <1>5 DEF GiveUpSlot
    <2>2. Holding' = Holding \ {r} /\ handler' \in [Requests -> HandlerAt]
      BY <2>1, <1>t, HandlerOnly DEF HandlerAt
    <2> QED
      BY <1>5, <2>1, <2>2, <1>h DEF SlotsMoved
  <1>6. CASE CheckAccepting(r)
    <2>1. CASE accepting
      <3>1. handler[r] = "holding" /\ handler' = [handler EXCEPT ![r] = "checked"]
            /\ UNCHANGED <<slots, queue>>
        BY <1>6, <2>1 DEF CheckAccepting
      <3>2. Holding' = Holding \cup {r} /\ handler' \in [Requests -> HandlerAt]
        BY <3>1, <1>t, HandlerOnly DEF HandlerAt
      <3> QED
        BY <3>1, <3>2, <1>h DEF SlotsMoved
    <2>2. CASE ~ accepting
      BY <1>5, <1>6, <2>2 DEF CheckAccepting
    <2> QED
      BY <2>1, <2>2
  <1>7. CASE Enqueue(r)
    <2>1. CASE accepting /\ Len(queue) < Capacity
      <3>1. handler[r] = "checked" /\ handler' = [handler EXCEPT ![r] = "ended"]
            /\ UNCHANGED slots /\ queue' = Append(queue, r)
        BY <1>7, <2>1 DEF Enqueue
      <3>2. Holding' = Holding \ {r} /\ handler' \in [Requests -> HandlerAt]
        BY <3>1, <1>t, HandlerOnly DEF HandlerAt
      <3> QED
        BY <3>1, <3>2, <1>h DEF SlotsMoved
    <2>2. CASE ~ (accepting /\ Len(queue) < Capacity)
      BY <1>5, <1>7, <2>2 DEF Enqueue
    <2> QED
      BY <2>1, <2>2
  <1>8. CASE CompleteRecord(r)
    <2>1. handler[r] \in {"ended", "logged"} /\ UNCHANGED <<slots, queue>>
      BY <1>8 DEF CompleteRecord
    <2>2. PICK x \in {"logged", "returned"} : handler' = [handler EXCEPT ![r] = x]
      BY <1>8 DEF CompleteRecord
    <2>3. Holding' = Holding \ {r} /\ handler' \in [Requests -> HandlerAt]
      BY <2>2, <1>t, HandlerOnly DEF HandlerAt
    <2> QED
      BY <2>1, <2>3, <1>h DEF SlotsMoved
  <1> QED
    BY <1>1, <1>2, <1>3, <1>4, <1>6, <1>7, <1>8 DEF RequestEnds, HandlerStep

(* What everyone else does to the slots and the queue.                     *)
LEMMA OthersMoveSlots ==
    WorkerStep \/ DrainBegin \/ ShutdownBegin \/ Expire \/ StopperStep
        => SlotsMoved /\ UNCHANGED handler
  <1> SUFFICES ASSUME WorkerStep \/ DrainBegin \/ ShutdownBegin \/ Expire \/ StopperStep
               PROVE  SlotsMoved /\ UNCHANGED handler
    OBVIOUS
  <1>1. UNCHANGED handler
    BY DEF WorkerStep, WorkerStops, WorkerWakes, Claim, DrainQueued, ParseFails, Parse, BeginAdjust,
       Adjust, FinishRecord, FinishAdjust, Processed, DrainBegin, ShutdownBegin, Expire, StopperStep,
       DrainClose, ShutdownFinishActive, CloseStop, Joined, ExpireAgain, DrainRemainder
  <1>2. Holding' = Holding
    BY <1>1 DEF Holding
  <1>3. \/ UNCHANGED <<slots, queue>>
        \/ queue # <<>> /\ slots' = slots + 1 /\ queue' = Tail(queue)
        \/ slots' = slots + Len(queue) /\ queue' = <<>>
    BY DEF WorkerStep, WorkerStops, WorkerWakes, Claim, DrainQueued, ParseFails, Parse, BeginAdjust,
       Adjust, FinishRecord, FinishAdjust, Processed, DrainBegin, ShutdownBegin, Expire, StopperStep,
       DrainClose, ShutdownFinishActive, CloseStop, Joined, ExpireAgain, DrainRemainder,
       EndRun, DiscardQueued, TakeJob, channel
  <1> QED
    BY <1>1, <1>2, <1>3 DEF SlotsMoved

(* Every such move keeps the count of slots exact and within capacity.     *)
LEMMA SlotsStep ==
    ASSUME TypeOK, SlotsExact, FiniteHolding, SlotsMoved
    PROVE  /\ slots' \in 0..Capacity /\ queue' \in Seq(Requests) /\ Len(queue') <= Capacity
           /\ SlotsExact' /\ FiniteHolding'
  <1>t. /\ slots \in Nat /\ queue \in Seq(Requests) /\ Capacity \in Nat
        /\ Len(queue) \in Nat
    BY CapacityAssumption DEF TypeOK
  <1>c. Cardinality(Holding) \in Nat
    BY FS_CardinalityType DEF FiniteHolding
  <1>e. slots + Len(queue) + Cardinality(Holding) = Capacity
    BY DEF SlotsExact
  <1> SUFFICES slots' \in Nat /\ queue' \in Seq(Requests) /\ IsFiniteSet(Holding')
               /\ slots' + Len(queue') + Cardinality(Holding') = Capacity
    <2>1. ASSUME slots' \in Nat, queue' \in Seq(Requests), IsFiniteSet(Holding'),
                 slots' + Len(queue') + Cardinality(Holding') = Capacity
          PROVE  /\ slots' \in 0..Capacity /\ Len(queue') <= Capacity
      <3>1. Cardinality(Holding') \in Nat /\ Len(queue') \in Nat
        BY <2>1, FS_CardinalityType
      <3> QED
        BY <2>1, <3>1, <1>t
    <2> QED
      BY <2>1 DEF SlotsExact, FiniteHolding
  <1>1. CASE UNCHANGED <<slots, queue>> /\ Holding' = Holding
    BY <1>1, <1>t, <1>e DEF FiniteHolding
  <1>2. ASSUME NEW r \in Requests \ Holding,
               slots > 0 /\ slots' = slots - 1 /\ UNCHANGED queue /\ Holding' = Holding \cup {r}
        PROVE  slots' \in Nat /\ queue' \in Seq(Requests) /\ IsFiniteSet(Holding')
               /\ slots' + Len(queue') + Cardinality(Holding') = Capacity
    <2>1. IsFiniteSet(Holding') /\ Cardinality(Holding') = Cardinality(Holding) + 1
      BY <1>2, FS_AddElement DEF FiniteHolding
    <2> QED
      BY <1>2, <2>1, <1>t, <1>c, <1>e
  <1>3. ASSUME NEW r \in Holding, Holding' = Holding \ {r}
        PROVE  IsFiniteSet(Holding') /\ Cardinality(Holding') = Cardinality(Holding) - 1
    BY <1>3, FS_RemoveElement DEF FiniteHolding
  <1>4. ASSUME NEW r \in Holding,
               slots' = slots + 1 /\ UNCHANGED queue /\ Holding' = Holding \ {r}
        PROVE  slots' \in Nat /\ queue' \in Seq(Requests) /\ IsFiniteSet(Holding')
               /\ slots' + Len(queue') + Cardinality(Holding') = Capacity
    <2>1. IsFiniteSet(Holding') /\ Cardinality(Holding') = Cardinality(Holding) - 1
      BY <1>3, <1>4
    <2> QED
      BY <1>4, <2>1, <1>t, <1>c, <1>e
  <1>5. ASSUME NEW r \in Holding,
               UNCHANGED slots /\ queue' = Append(queue, r) /\ Holding' = Holding \ {r}
        PROVE  slots' \in Nat /\ queue' \in Seq(Requests) /\ IsFiniteSet(Holding')
               /\ slots' + Len(queue') + Cardinality(Holding') = Capacity
    <2>1. r \in Requests
      BY DEF Holding
    <2>2. queue' \in Seq(Requests) /\ Len(queue') = Len(queue) + 1
      BY <1>5, <2>1, <1>t
    <2>3. IsFiniteSet(Holding') /\ Cardinality(Holding') = Cardinality(Holding) - 1
      BY <1>3, <1>5
    <2> QED
      BY <1>5, <2>2, <2>3, <1>t, <1>c, <1>e
  <1>6. CASE queue # <<>> /\ slots' = slots + 1 /\ queue' = Tail(queue) /\ Holding' = Holding
    <2>1. queue' \in Seq(Requests) /\ Len(queue') = Len(queue) - 1
      BY <1>6, <1>t
    <2> QED
      BY <1>6, <2>1, <1>t, <1>c, <1>e DEF FiniteHolding
  <1>7. CASE slots' = slots + Len(queue) /\ queue' = <<>> /\ Holding' = Holding
    <2>1. queue' \in Seq(Requests) /\ Len(queue') = 0
      BY <1>7
    <2> QED
      BY <1>7, <2>1, <1>t, <1>c, <1>e DEF FiniteHolding
  <1> QED
    BY <1>1, <1>2, <1>4, <1>5, <1>6, <1>7 DEF SlotsMoved

-----------------------------------------------------------------------------
(* Tickets.                                                                *)

TicketSets == [Kinds -> TicketIn]
Alive(t) == \E k \in Kinds : t[k] = "live"

(* Consuming a ticket set leaves no live ticket in it.                     *)
LEMMA ConsumeEnds ==
    ASSUME NEW t \in TicketSets, NEW outcome \in [Kinds -> {"adjusted", "invalid"}]
    PROVE  Consume(t, outcome) \in TicketSets /\ ~ Alive(Consume(t, outcome))
  BY DEF Consume, TicketSets, Alive, TicketIn

(* Invalidating a ticket set leaves no live ticket in it.                  *)
LEMMA InvalidEnds ==
    ASSUME NEW t \in TicketSets
    PROVE  Consume(t, AllInvalid) \in TicketSets /\ ~ Alive(Consume(t, AllInvalid))
  <1>1. AllInvalid \in [Kinds -> {"adjusted", "invalid"}]
    BY DEF AllInvalid
  <1> QED
    BY <1>1, ConsumeEnds

\* Tickets are consumed; only HandOff makes live ones, for the request whose
\* handler then is in submit.
TicketsMoved ==
    /\ ticket' \in [Requests -> TicketSets]
    /\ \A r \in Requests :
          Alive(ticket'[r]) => Alive(ticket[r]) \/ (handler[r] = "serving" /\ handler'[r] = "submit")

(* A step that touches no ticket.                                          *)
LEMMA TicketSame == TypeOK /\ UNCHANGED ticket => TicketsMoved
  BY DEF TypeOK, TicketsMoved, TicketSets

\* invalidateObservationJob leaves no live ticket in the jobs it is given.
LEMMA TicketsInvalid ==
    ASSUME TypeOK, NEW jobs,
           ticket' = [r \in Requests |-> IF r \in jobs THEN Consume(ticket[r], AllInvalid)
                                                       ELSE ticket[r]]
    PROVE  TicketsMoved /\ \A r \in Requests \cap jobs : ~ Alive(ticket'[r])
  <1>1. ASSUME NEW r \in Requests
        PROVE  /\ ticket[r] \in TicketSets
               /\ Consume(ticket[r], AllInvalid) \in TicketSets
               /\ ~ Alive(Consume(ticket[r], AllInvalid))
    BY InvalidEnds DEF TypeOK, TicketSets
  <1> QED
    BY <1>1 DEF TicketsMoved

(* What a handler does to the tickets.                                     *)
LEMMA HandlersMoveTickets ==
    ASSUME TypeOK, NEW r \in Requests, RequestEnds(r) \/ HandlerStep(r)
    PROVE  TicketsMoved
  <1>1. ASSUME NEW observed \in BOOLEAN, SettleInline(r, observed) PROVE TicketsMoved
    BY <1>1, TicketSame DEF SettleInline
  <1>2. ASSUME NEW reserved \in SUBSET Kinds, HandOff(r, reserved) PROVE TicketsMoved
    <2>t. ticket \in [Requests -> TicketSets] /\ handler \in [Requests -> HandlerAt]
      BY DEF TypeOK, TicketSets
    <2>1. CASE Transferable(record[r])
      <3> DEFINE new == [k \in Kinds |-> IF k \in reserved THEN "live" ELSE "none"]
      <3>1. ticket' = [ticket EXCEPT ![r] = new] /\ handler[r] = "serving"
            /\ handler' = [handler EXCEPT ![r] = "submit"]
        BY <1>2, <2>1 DEF HandOff
      <3>2. new \in TicketSets
        BY DEF TicketSets, TicketIn
      <3> HIDE DEF new
      <3> QED
        BY <2>t, <3>1, <3>2 DEF TicketsMoved
    <2>2. CASE ~ Transferable(record[r])
      <3> DEFINE new == [k \in Kinds |-> IF k \in reserved THEN "invalid" ELSE "none"]
      <3>1. ticket' = [ticket EXCEPT ![r] = new]
        BY <1>2, <2>2 DEF HandOff
      <3>2. new \in TicketSets /\ ~ Alive(new)
        BY DEF TicketSets, TicketIn, Alive
      <3> HIDE DEF new
      <3> QED
        BY <2>t, <3>1, <3>2 DEF TicketsMoved
    <2> QED
      BY <2>1, <2>2
  <1>3. CASE TakeSlot(r) \/ CompleteRecord(r)
    BY <1>3, TicketSame DEF TakeSlot, CompleteRecord
  <1>4. CASE Saturated(r)
    BY <1>4, TicketsInvalid DEF Saturated, Invalidate
  <1>5. CASE CheckAccepting(r)
    BY <1>5, TicketSame, TicketsInvalid DEF CheckAccepting, GiveUpSlot, Invalidate
  <1>6. CASE Enqueue(r)
    BY <1>6, TicketSame, TicketsInvalid DEF Enqueue, GiveUpSlot, Invalidate
  <1> QED
    BY <1>1, <1>2, <1>3, <1>4, <1>5, <1>6 DEF RequestEnds, HandlerStep

(* Adjusting ends the tickets of the job at hand.                          *)
LEMMA AdjustEnds ==
    ASSUME TypeOK, NEW outcome \in [Kinds -> {"adjusted", "invalid"}], Adjust(outcome)
    PROVE  TicketsMoved /\ \A r \in Requests : r = worker.job => ~ Alive(ticket'[r])
  <1>t. ticket \in [Requests -> TicketSets]
    BY DEF TypeOK, TicketSets
  <1>1. ticket' = [ticket EXCEPT ![worker.job] = Consume(@, outcome)]
    BY DEF Adjust
  <1>2. ASSUME NEW r \in Requests
        PROVE  /\ ticket[r] \in TicketSets
               /\ Consume(ticket[r], outcome) \in TicketSets
               /\ ~ Alive(Consume(ticket[r], outcome))
    BY <1>t, ConsumeEnds
  <1> QED
    BY <1>t, <1>1, <1>2 DEF TicketsMoved

(* What the worker does to the tickets.                                    *)
LEMMA WorkerMovesTickets == TypeOK /\ WorkerStep => TicketsMoved
  <1> SUFFICES ASSUME TypeOK, WorkerStep PROVE TicketsMoved
    OBVIOUS
  <1>1. CASE WorkerStops
    BY <1>1, TicketSame, TicketsInvalid DEF WorkerStops, EndRun, DiscardQueued, Invalidate
  <1>2. CASE Claim
    BY <1>2, TicketSame, TicketsInvalid DEF Claim, EndRun, DiscardQueued, Invalidate
  <1>3. CASE ParseFails
    BY <1>3, TicketsInvalid DEF ParseFails, Invalidate
  <1>4. CASE BeginAdjust
    BY <1>4, TicketSame, TicketsInvalid DEF BeginAdjust, Invalidate
  <1>5. CASE WorkerWakes \/ DrainQueued \/ FinishRecord \/ FinishAdjust \/ Processed
    BY <1>5, TicketSame DEF WorkerWakes, DrainQueued, FinishRecord, FinishAdjust, Processed
  <1>6. CASE \E known \in BOOLEAN : Parse(known)
    BY <1>6, TicketSame DEF Parse
  <1>7. CASE \E outcome \in [Kinds -> {"adjusted", "invalid"}] : Adjust(outcome)
    BY <1>7, AdjustEnds
  <1> QED
    BY <1>1, <1>2, <1>3, <1>4, <1>5, <1>6, <1>7 DEF WorkerStep

(* What drain and shutdown do to the tickets.                              *)
LEMMA StopperMovesTickets ==
    TypeOK /\ (DrainBegin \/ ShutdownBegin \/ Expire \/ StopperStep) => TicketsMoved
  <1> SUFFICES ASSUME TypeOK, DrainBegin \/ ShutdownBegin \/ Expire \/ StopperStep
               PROVE  TicketsMoved
    OBVIOUS
  <1>1. CASE ShutdownBegin
    BY <1>1, TicketsInvalid DEF ShutdownBegin, DiscardQueued, Invalidate
  <1>2. CASE DrainRemainder
    BY <1>2, TicketsInvalid DEF DrainRemainder, DiscardQueued, Invalidate
  <1>3. CASE DrainBegin \/ Expire \/ DrainClose \/ ShutdownFinishActive \/ CloseStop \/ Joined
             \/ ExpireAgain
    BY <1>3, TicketSame DEF DrainBegin, Expire, DrainClose, ShutdownFinishActive, CloseStop, Joined,
       ExpireAgain
  <1> QED
    BY <1>1, <1>2, <1>3 DEF StopperStep

-----------------------------------------------------------------------------
(* The other variables.                                                    *)

Jobs == Requests \cup {None}
WorkerRecords == [at : WorkerAt, job : Jobs, known : BOOLEAN]
StopperRecords == [at : StopperAt, job : Jobs]

\* Where the worker can go, and with which job.
WorkerMoved ==
    \/ UNCHANGED worker
    \/ \E x \in WorkerAt : worker' = [worker EXCEPT !.at = x]
    \/ queue # <<>> /\ worker' = [worker EXCEPT !.at = "parse", !.job = Head(queue)]
    \/ \E b \in BOOLEAN : worker' = [worker EXCEPT !.at = "parsed", !.known = b]
    \/ \E x \in WorkerAt : worker' = [worker EXCEPT !.job = None, !.known = FALSE, !.at = x]

(* What each step of the worker does to its own state.                     *)
LEMMA WorkerStepMoves == WorkerStep => WorkerMoved
  <1> SUFFICES ASSUME WorkerStep PROVE WorkerMoved
    OBVIOUS
  <1> USE DEF WorkerMoved, WorkerAt
  <1>1. CASE WorkerStops
    BY <1>1 DEF WorkerStops, EndRun
  <1>2. CASE Claim
    BY <1>2 DEF Claim, EndRun
  <1>3. CASE WorkerWakes \/ DrainQueued \/ ParseFails
    BY <1>3 DEF WorkerWakes, DrainQueued, ParseFails
  <1>4. CASE BeginAdjust \/ FinishRecord \/ FinishAdjust
    BY <1>4 DEF BeginAdjust, FinishRecord, FinishAdjust
  <1>5. CASE \E known \in BOOLEAN : Parse(known)
    BY <1>5 DEF Parse
  <1>6. CASE \E outcome \in [Kinds -> {"adjusted", "invalid"}] : Adjust(outcome)
    BY <1>6 DEF Adjust
  <1>7. CASE Processed
    <2>1. CASE active = None
      BY <1>7, <2>1 DEF Processed
    <2>2. CASE active # None
      BY <1>7, <2>2 DEF Processed
    <2> QED
      BY <2>1, <2>2
  <1> QED
    BY <1>1, <1>2, <1>3, <1>4, <1>5, <1>6, <1>7 DEF WorkerStep

(* The state of the worker keeps its type.                                 *)
LEMMA WorkerTyped == TypeOK /\ WorkerMoved => worker' \in WorkerRecords
  <1> SUFFICES ASSUME TypeOK, WorkerMoved PROVE worker' \in WorkerRecords
    OBVIOUS
  <1>1. worker \in WorkerRecords
    BY DEF TypeOK, WorkerRecords, Jobs
  <1>2. queue # <<>> => Head(queue) \in Jobs
    BY DEF TypeOK, Jobs
  <1>3. ASSUME NEW x \in WorkerAt PROVE [worker EXCEPT !.at = x] \in WorkerRecords
    BY <1>1 DEF WorkerRecords
  <1>4. ASSUME NEW x \in WorkerAt
        PROVE  [worker EXCEPT !.job = None, !.known = FALSE, !.at = x] \in WorkerRecords
    BY <1>1 DEF WorkerRecords, Jobs
  <1>5. ASSUME queue # <<>>
        PROVE  [worker EXCEPT !.at = "parse", !.job = Head(queue)] \in WorkerRecords
    BY <1>1, <1>2, <1>5 DEF WorkerRecords, WorkerAt
  <1>6. ASSUME NEW b \in BOOLEAN
        PROVE  [worker EXCEPT !.at = "parsed", !.known = b] \in WorkerRecords
    BY <1>1 DEF WorkerRecords, WorkerAt
  <1> QED
    BY <1>1, <1>3, <1>4, <1>5, <1>6 DEF WorkerMoved

\* The steps of the handlers, of the worker and of the stopper leave the others'
\* places alone.
LEMMA HandlersLeave ==
    ASSUME NEW r \in Requests, RequestEnds(r) \/ HandlerStep(r)
    PROVE  UNCHANGED <<lifecycle, active, worker, discarded>>
  BY DEF RequestEnds, HandlerStep, SettleInline, HandOff, TakeSlot, Saturated, CheckAccepting,
         GiveUpSlot, Enqueue, CompleteRecord

(* What the worker does not touch.                                         *)
LEMMA WorkerLeaves == WorkerStep => UNCHANGED <<accepting, draining, stopped, stopper, handler>>
  BY DEF WorkerStep, WorkerStops, WorkerWakes, Claim, DrainQueued, ParseFails, Parse, BeginAdjust,
         Adjust, FinishRecord, FinishAdjust, Processed, lifecycle

(* What drain and shutdown do not touch.                                   *)
LEMMA StopperLeaves ==
    DrainBegin \/ ShutdownBegin \/ Expire \/ StopperStep => UNCHANGED <<active, worker, handler, wake>>
  BY DEF DrainBegin, ShutdownBegin, Expire, StopperStep, DrainClose, ShutdownFinishActive, CloseStop,
         Joined, ExpireAgain, DrainRemainder, channel

(* The types of what the worker shares.                                    *)
LEMMA WorkerScalars ==
    TypeOK /\ WorkerStep =>
        /\ wake' \in BOOLEAN /\ active' \in Jobs /\ phase' \in {"idle", "adjusting", "terminal"}
        /\ discarded' \subseteq Requests
  <1> SUFFICES ASSUME TypeOK, WorkerStep
               PROVE  /\ wake' \in BOOLEAN /\ active' \in Jobs
                      /\ phase' \in {"idle", "adjusting", "terminal"}
                      /\ discarded' \subseteq Requests
    OBVIOUS
  <1>q. (queue # <<>> => Head(queue) \in Jobs) /\ ToSet(queue) \subseteq Requests
    BY DEF TypeOK, Jobs, ToSet
  <1>1. wake' = wake \/ wake' = FALSE
    BY DEF WorkerStep, WorkerStops, WorkerWakes, Claim, DrainQueued, ParseFails, Parse, BeginAdjust,
       Adjust, FinishRecord, FinishAdjust, Processed, channel
  <1>2. active' = active \/ active' = None \/ (queue # <<>> /\ active' = Head(queue))
    BY DEF WorkerStep, WorkerStops, WorkerWakes, Claim, DrainQueued, ParseFails, Parse, BeginAdjust,
       Adjust, FinishRecord, FinishAdjust, Processed
  <1>3. phase' = phase \/ phase' = "adjusting" \/ phase' = "idle"
    BY DEF WorkerStep, WorkerStops, WorkerWakes, Claim, DrainQueued, ParseFails, Parse, BeginAdjust,
       Adjust, FinishRecord, FinishAdjust, Processed, lifecycle
  <1>4. discarded' = discarded \/ discarded' = discarded \cup ToSet(queue)
    BY DEF WorkerStep, WorkerStops, WorkerWakes, Claim, DrainQueued, ParseFails, Parse, BeginAdjust,
       Adjust, FinishRecord, FinishAdjust, Processed, EndRun, DiscardQueued
  <1>5. active' \in Jobs
    BY <1>2, <1>q DEF TypeOK, Jobs
  <1>6. wake' \in BOOLEAN
    BY <1>1, Zenon DEF TypeOK
  <1> QED
    BY <1>3, <1>4, <1>5, <1>6, <1>q DEF TypeOK

(* The types of what drain and shutdown share.                             *)
LEMMA StopperScalars ==
    TypeOK /\ (DrainBegin \/ ShutdownBegin \/ Expire \/ StopperStep) =>
        /\ accepting' \in BOOLEAN /\ draining' \in BOOLEAN /\ stopped' \in BOOLEAN
        /\ phase' \in {"idle", "adjusting", "terminal"}
        /\ stopper' \in StopperRecords
        /\ discarded' \subseteq Requests
  <1> SUFFICES ASSUME TypeOK, DrainBegin \/ ShutdownBegin \/ Expire \/ StopperStep
               PROVE  /\ accepting' \in BOOLEAN /\ draining' \in BOOLEAN /\ stopped' \in BOOLEAN
                      /\ phase' \in {"idle", "adjusting", "terminal"}
                      /\ stopper' \in StopperRecords
                      /\ discarded' \subseteq Requests
    OBVIOUS
  <1> USE DEF StopperStep
  <1>1. accepting' \in {accepting, FALSE} /\ draining' \in {draining, TRUE}
        /\ stopped' \in {stopped, TRUE} /\ phase' \in {phase, "terminal"}
    BY DEF DrainBegin, ShutdownBegin, Expire, DrainClose, ShutdownFinishActive, CloseStop,
       Joined, ExpireAgain, DrainRemainder
  <1>2. stopper' \in StopperRecords
    <2>1. stopper \in StopperRecords /\ active \in Jobs
      BY DEF TypeOK, StopperRecords, Jobs
    <2>2. \/ \E x \in StopperAt : stopper' = [stopper EXCEPT !.at = x]
          \/ stopper' = [at |-> "claimed", job |-> active]
          \/ stopper' = [at |-> "closed", job |-> None]
      BY DEF DrainBegin, ShutdownBegin, Expire, DrainClose, ShutdownFinishActive, CloseStop,
         Joined, ExpireAgain, DrainRemainder, StopperAt
    <2> QED
      BY <2>1, <2>2 DEF StopperRecords, Jobs, StopperAt
  <1>3. discarded' = discarded \/ discarded' = discarded \cup ToSet(queue)
    BY DEF DrainBegin, ShutdownBegin, Expire, DrainClose, ShutdownFinishActive, CloseStop,
       Joined, ExpireAgain, DrainRemainder, DiscardQueued
  <1>4. ToSet(queue) \subseteq Requests
    BY DEF TypeOK, ToSet
  <1>5. accepting' \in BOOLEAN /\ draining' \in BOOLEAN /\ stopped' \in BOOLEAN
    BY <1>1, Zenon DEF TypeOK
  <1> QED
    BY <1>1, <1>2, <1>3, <1>4, <1>5 DEF TypeOK

(* Every step keeps the types.                                             *)
LEMMA TypeStep ==
    ASSUME TypeOK, SlotsExact, FiniteHolding, RecordsExact, Next
    PROVE  TypeOK' /\ SlotsExact' /\ FiniteHolding' /\ RecordsExact'
  <1>1. SlotsMoved /\ TicketsMoved /\ handler' \in [Requests -> HandlerAt]
    BY HandlersMoveSlots, OthersMoveSlots, HandlersMoveTickets, WorkerMovesTickets,
       StopperMovesTickets DEF Next, TypeOK
  <1>2. /\ slots' \in 0..Capacity /\ queue' \in Seq(Requests) /\ Len(queue') <= Capacity
        /\ SlotsExact' /\ FiniteHolding'
    BY <1>1, SlotsStep
  <1>3. record' \in [Requests -> Ownerships] /\ RecordsExact'
    BY RecordsStep
  <1>4. ticket' \in [Requests -> TicketSets]
    BY <1>1 DEF TicketsMoved
  <1>5. /\ wake' \in BOOLEAN /\ accepting' \in BOOLEAN /\ draining' \in BOOLEAN
        /\ stopped' \in BOOLEAN /\ active' \in Jobs /\ phase' \in {"idle", "adjusting", "terminal"}
        /\ worker' \in WorkerRecords /\ stopper' \in StopperRecords /\ discarded' \subseteq Requests
    <2>t. /\ wake \in BOOLEAN /\ accepting \in BOOLEAN /\ draining \in BOOLEAN
          /\ stopped \in BOOLEAN /\ active \in Jobs /\ phase \in {"idle", "adjusting", "terminal"}
          /\ worker \in WorkerRecords /\ stopper \in StopperRecords /\ discarded \subseteq Requests
      BY DEF TypeOK, Jobs, WorkerRecords, StopperRecords
    <2>1. ASSUME NEW r \in Requests, RequestEnds(r) \/ HandlerStep(r)
          PROVE  UNCHANGED <<accepting, draining, stopped, phase, stopper, active, worker, discarded>>
                 /\ wake' \in BOOLEAN
      <3>1. UNCHANGED <<accepting, draining, stopped, phase, stopper, active, worker, discarded>>
        BY <2>1, HandlersLeave DEF lifecycle
      <3>2. wake' = wake \/ wake' = TRUE
        BY <2>1 DEF RequestEnds, HandlerStep, SettleInline, HandOff, TakeSlot, Saturated,
           CheckAccepting, GiveUpSlot, Enqueue, CompleteRecord, channel
      <3>3. wake' \in BOOLEAN
        BY <2>t, <3>2, Zenon
      <3> QED
        BY <3>1, <3>3
    <2>2. CASE WorkerStep
      BY <2>2, <2>t, WorkerLeaves, WorkerStepMoves, WorkerTyped, WorkerScalars
    <2>3. CASE DrainBegin \/ ShutdownBegin \/ Expire \/ StopperStep
      BY <2>3, <2>t, StopperLeaves, StopperScalars
    <2> QED
      BY <2>t, <2>1, <2>2, <2>3 DEF Next
  <1>6. TypeOK'
    BY <1>1, <1>2, <1>3, <1>4, <1>5
       DEF TypeOK, TicketSets, Ownerships, Jobs, WorkerRecords, StopperRecords
  <1> QED
    BY <1>2, <1>3, <1>6

-----------------------------------------------------------------------------
(* Where the jobs are.                                                     *)

(* A handler that has settled its job stays settled.                       *)
LEMMA SettledStays ==
    ASSUME TypeOK, Next, NEW q \in Requests, handler[q] \in Settled
    PROVE  handler'[q] \in Settled
  <1>1. ASSUME NEW r \in Requests, RequestEnds(r) \/ HandlerStep(r) PROVE handler'[q] \in Settled
    BY <1>1 DEF RequestEnds, HandlerStep, SettleInline, HandOff, TakeSlot, Saturated,
       CheckAccepting, GiveUpSlot, Enqueue, CompleteRecord, TypeOK, Settled
  <1> QED
    BY <1>1, OthersMoveSlots DEF Next

\* What a step does to the queue and the worker's job together.
QueueMoved ==
    \/ UNCHANGED queue /\ worker'.job \in {worker.job, None}
    \/ \E r \in Requests : /\ handler[r] = "checked" /\ handler'[r] = "ended" /\ accepting
                           /\ queue' = Append(queue, r) /\ UNCHANGED worker
    \/ /\ queue # <<>> /\ queue' = Tail(queue) /\ worker'.job = Head(queue)
       /\ worker'.at = "parse" /\ worker.job = None
    \/ queue' = <<>> /\ worker'.job = worker.job

(* What a handler does to the queue.                                       *)
LEMMA HandlersMoveQueue ==
    ASSUME TypeOK, NEW r \in Requests, RequestEnds(r) \/ HandlerStep(r)
    PROVE  QueueMoved
  <1>1. UNCHANGED worker
    BY HandlersLeave
  <1>2. \/ UNCHANGED queue
        \/ handler[r] = "checked" /\ accepting /\ queue' = Append(queue, r)
           /\ handler' = [handler EXCEPT ![r] = "ended"]
    BY DEF RequestEnds, HandlerStep, SettleInline, HandOff, TakeSlot, Saturated,
       CheckAccepting, GiveUpSlot, Enqueue, CompleteRecord, channel
  <1> QED
    BY <1>1, <1>2 DEF QueueMoved, TypeOK

(* What the worker does to the queue.                                      *)
LEMMA WorkerMovesQueue == TypeOK /\ WorkerHolds /\ WorkerStep => QueueMoved
  <1> SUFFICES ASSUME TypeOK, WorkerHolds, WorkerStep PROVE QueueMoved
    OBVIOUS
  <1>t. worker \in WorkerRecords
    BY DEF TypeOK, WorkerRecords, Jobs
  <1>1. CASE UNCHANGED queue /\ (\E x \in WorkerAt : worker' = [worker EXCEPT !.at = x])
    BY <1>t, <1>1 DEF QueueMoved, WorkerRecords
  <1>2. CASE WorkerStops
    BY <1>t, <1>1, <1>2 DEF WorkerStops, EndRun, DiscardQueued, QueueMoved, WorkerRecords, WorkerAt
  <1>3. CASE Claim
    <2>1. worker.job = None
      BY <1>3 DEF Claim, WorkerHolds, HoldsJob
    <2>2. CASE ~ accepting
      BY <1>t, <1>1, <1>3, <2>2 DEF Claim, EndRun, DiscardQueued, QueueMoved, WorkerRecords, WorkerAt
    <2>3. CASE accepting
      BY <1>t, <1>1, <1>3, <2>1, <2>3 DEF Claim, TakeJob, QueueMoved, WorkerRecords, WorkerAt, channel
    <2> QED
      BY <2>2, <2>3
  <1>4. CASE DrainQueued
    <2>1. worker.job = None
      BY <1>4 DEF DrainQueued, WorkerHolds, HoldsJob
    <2> QED
      BY <1>t, <1>1, <1>4, <2>1 DEF DrainQueued, TakeJob, QueueMoved, WorkerRecords, WorkerAt
  <1>5. CASE WorkerWakes \/ ParseFails \/ BeginAdjust \/ FinishRecord \/ FinishAdjust
    BY <1>1, <1>5 DEF WorkerWakes, ParseFails, BeginAdjust, FinishRecord, FinishAdjust, channel, WorkerAt
  <1>6. CASE \E known \in BOOLEAN : Parse(known)
    BY <1>6, <1>t DEF Parse, QueueMoved, WorkerRecords, channel
  <1>7. CASE \E outcome \in [Kinds -> {"adjusted", "invalid"}] : Adjust(outcome)
    BY <1>1, <1>7 DEF Adjust, channel, WorkerAt
  <1>8. CASE Processed
    BY <1>8, <1>t DEF Processed, QueueMoved, WorkerRecords, channel
  <1> QED
    BY <1>2, <1>3, <1>4, <1>5, <1>6, <1>7, <1>8 DEF WorkerStep

(* What drain and shutdown do to the queue.                                *)
LEMMA StopperMovesQueue ==
    DrainBegin \/ ShutdownBegin \/ Expire \/ StopperStep => QueueMoved
  BY StopperLeaves DEF DrainBegin, ShutdownBegin, Expire, StopperStep, DrainClose,
     ShutdownFinishActive, CloseStop, Joined, ExpireAgain, DrainRemainder, DiscardQueued, channel,
     QueueMoved

(* Every step keeps a job in one place of the queue or the worker.         *)
LEMMA JobsPlacedStep ==
    ASSUME TypeOK, TypeOK', WorkerHolds, JobsPlaced, Next
    PROVE  QueueMoved /\ JobsPlaced'
  <1>1. QueueMoved
    BY HandlersMoveQueue, WorkerMovesQueue, StopperMovesQueue DEF Next
  <1>q. queue \in Seq(Requests) /\ handler' \in [Requests -> HandlerAt]
    BY DEF TypeOK
  <1>w. worker.job \in Jobs /\ (worker.job # None => worker.job \in Requests)
    BY DEF TypeOK, WorkerRecords, Jobs
  <1>2. CASE UNCHANGED queue /\ worker'.job \in {worker.job, None}
    <2>1. ASSUME NEW i \in DOMAIN queue
          PROVE  queue[i] \in Requests /\ handler'[queue[i]] \in Settled /\ queue[i] # worker'.job
      BY <1>2, <1>q, SettledStays, NoneAssumption DEF JobsPlaced
    <2>2. worker'.job # None => handler'[worker'.job] \in Settled
      BY <1>2, <1>w, SettledStays DEF JobsPlaced
    <2> QED
      BY <1>1, <1>2, <2>1, <2>2 DEF JobsPlaced
  <1>3. ASSUME NEW r \in Requests, handler[r] = "checked", handler'[r] = "ended",
               queue' = Append(queue, r), UNCHANGED worker
        PROVE  JobsPlaced'
    <2>1. /\ DOMAIN queue' = 1..(Len(queue) + 1) /\ DOMAIN queue = 1..Len(queue)
          /\ Len(queue) \in Nat
          /\ \A i \in 1..Len(queue) : queue'[i] = queue[i]
          /\ queue'[Len(queue) + 1] = r
      BY <1>3, <1>q
    <2>2. ASSUME NEW i \in 1..Len(queue)
          PROVE  queue[i] # r /\ queue[i] \in Requests /\ handler'[queue[i]] \in Settled
                 /\ queue[i] # worker'.job
      BY <1>3, <1>q, <2>1, SettledStays DEF JobsPlaced, Settled
    <2>3. r # worker'.job /\ handler'[r] \in Settled
      BY <1>3, NoneAssumption DEF JobsPlaced, Settled
    <2>4. \A i, j \in DOMAIN queue' : queue'[i] = queue'[j] => i = j
      BY <2>1, <2>2 DEF JobsPlaced
    <2>5. \A i \in DOMAIN queue' : handler'[queue'[i]] \in Settled /\ queue'[i] # worker'.job
      BY <2>1, <2>2, <2>3
    <2>6. worker'.job # None => handler'[worker'.job] \in Settled
      BY <1>3, <1>w, SettledStays DEF JobsPlaced
    <2> QED
      BY <2>4, <2>5, <2>6 DEF JobsPlaced
  <1>4. CASE queue # <<>> /\ queue' = Tail(queue) /\ worker'.job = Head(queue)
    <2>1. /\ DOMAIN queue = 1..Len(queue) /\ Len(queue) \in Nat /\ Len(queue) > 0
          /\ DOMAIN queue' = 1..(Len(queue) - 1)
          /\ \A i \in 1..(Len(queue) - 1) : queue'[i] = queue[i + 1]
          /\ Head(queue) = queue[1]
      BY <1>4, <1>q
    <2>2. ASSUME NEW i \in 1..Len(queue)
          PROVE  queue[i] \in Requests /\ handler'[queue[i]] \in Settled
      BY <1>q, <2>1, SettledStays DEF JobsPlaced
    <2>3. \A i, j \in 1..Len(queue) : queue[i] = queue[j] => i = j
      BY <2>1 DEF JobsPlaced
    <2>4. \A i, j \in DOMAIN queue' : queue'[i] = queue'[j] => i = j
      BY <2>1, <2>3
    <2>5. \A i \in DOMAIN queue' : handler'[queue'[i]] \in Settled /\ queue'[i] # worker'.job
      BY <1>4, <2>1, <2>2, <2>3
    <2>6. handler'[worker'.job] \in Settled
      BY <1>4, <2>1, <2>2
    <2> QED
      BY <1>1, <2>4, <2>5, <2>6 DEF JobsPlaced
  <1>5. CASE queue' = <<>> /\ worker'.job = worker.job
    <2>1. DOMAIN queue' = {}
      BY <1>5
    <2>2. worker'.job # None => handler'[worker'.job] \in Settled
      BY <1>5, <1>w, SettledStays DEF JobsPlaced
    <2> QED
      BY <1>1, <2>1, <2>2 DEF JobsPlaced
  <1> QED
    BY <1>1, <1>2, <1>3, <1>4, <1>5 DEF QueueMoved

-----------------------------------------------------------------------------
(* The order of a stop.                                                    *)

\* A handler adds to the queue only while the worker accepts.
LEMMA HandlersAppend ==
    ASSUME NEW r \in Requests, RequestEnds(r) \/ HandlerStep(r), ~ accepting
    PROVE  UNCHANGED queue
  BY DEF RequestEnds, HandlerStep, SettleInline, HandOff, TakeSlot, Saturated,
     CheckAccepting, GiveUpSlot, Enqueue, CompleteRecord, channel

(* Every step keeps the job of the worker out of the queue.                *)
LEMMA WorkerHoldsStep ==
    ASSUME TypeOK, WorkerHolds, StopOrder, Next
    PROVE  WorkerHolds'
  <1>t. worker \in WorkerRecords /\ active \in Jobs
    BY DEF TypeOK, WorkerRecords, Jobs
  <1>1. ASSUME NEW r \in Requests, RequestEnds(r) \/ HandlerStep(r) PROVE WorkerHolds'
    <2>1. UNCHANGED <<accepting, draining, active, worker>>
      BY <1>1, HandlersLeave DEF lifecycle
    <2> QED
      BY <1>1, <2>1, HandlersAppend DEF WorkerHolds
  <1>2. CASE WorkerStep
    <2>1. UNCHANGED <<accepting, draining>>
      BY <1>2, WorkerLeaves
    <2> USE DEF WorkerHolds, WorkerRecords, HoldsJob
    <2>2. CASE WorkerStops
      <3>1. ~ accepting
        BY <2>2 DEF WorkerStops, StopOrder
      <3>2. UNCHANGED active
        BY <2>2 DEF WorkerStops
      <3> QED
        BY <1>t, <2>1, <2>2, <3>1, <3>2 DEF WorkerStops, EndRun, DiscardQueued
    <2>3. CASE Claim
      <3>1. CASE ~ accepting
        BY <1>t, <2>1, <2>3, <3>1 DEF Claim, EndRun, DiscardQueued
      <3>2. CASE accepting /\ queue # <<>>
        <4>1. Head(queue) # None
          BY <3>2, NoneAssumption DEF TypeOK
        <4> QED
          BY <1>t, <2>1, <2>3, <3>2, <4>1 DEF Claim, TakeJob
      <3>3. CASE accepting /\ queue = <<>>
        BY <1>t, <2>1, <2>3, <3>3 DEF Claim, channel
      <3> QED
        BY <3>1, <3>2, <3>3
    <2>4. CASE DrainQueued
      <3>1. queue # <<>> => Head(queue) # None
        BY NoneAssumption DEF TypeOK
      <3> QED
        BY <1>t, <2>1, <2>4, <3>1 DEF DrainQueued, TakeJob
    <2>5. CASE WorkerWakes
      BY <1>t, <2>1, <2>5 DEF WorkerWakes
    <2>6. CASE ParseFails
      BY <1>t, <2>1, <2>6 DEF ParseFails, channel
    <2>7. CASE BeginAdjust
      BY <1>t, <2>1, <2>7 DEF BeginAdjust, channel
    <2>8. CASE FinishRecord \/ FinishAdjust
      BY <1>t, <2>1, <2>8 DEF FinishRecord, FinishAdjust, channel
    <2>9. CASE \E known \in BOOLEAN : Parse(known)
      BY <1>t, <2>1, <2>9 DEF Parse, channel
    <2>10. CASE \E outcome \in [Kinds -> {"adjusted", "invalid"}] : Adjust(outcome)
      BY <1>t, <2>1, <2>10 DEF Adjust, channel
    <2>11. CASE Processed
      BY <1>t, <2>1, <2>11 DEF Processed, channel
    <2> QED
      BY <1>2, <2>2, <2>3, <2>4, <2>5, <2>6, <2>7, <2>8, <2>9, <2>10, <2>11 DEF WorkerStep
  <1>3. CASE DrainBegin \/ ShutdownBegin \/ Expire \/ StopperStep
    <2>1. UNCHANGED <<active, worker>>
      BY <1>3, StopperLeaves
    <2>2. /\ accepting' => accepting
          /\ draining => draining'
          /\ queue' = queue \/ queue' = <<>>
      BY <1>3 DEF DrainBegin, ShutdownBegin, Expire, StopperStep, DrainClose,
         ShutdownFinishActive, CloseStop, Joined, ExpireAgain, DrainRemainder, DiscardQueued, channel
    <2> QED
      BY <2>1, <2>2 DEF WorkerHolds
  <1> QED
    BY <1>1, <1>2, <1>3 DEF Next

(* Every step keeps the order in which the worker stops.                   *)
LEMMA StopOrderStep ==
    ASSUME TypeOK, WorkerHolds, StopOrder, Next
    PROVE  StopOrder'
  <1>t. worker \in WorkerRecords /\ stopper \in StopperRecords
    BY DEF TypeOK, WorkerRecords, StopperRecords, Jobs
  <1>1. ASSUME NEW r \in Requests, RequestEnds(r) \/ HandlerStep(r) PROVE StopOrder'
    <2>1. UNCHANGED <<accepting, draining, stopped, stopper, worker, discarded>>
      BY <1>1, HandlersLeave DEF lifecycle
    <2> QED
      BY <1>1, <2>1, HandlersAppend DEF StopOrder
  <1>2. CASE WorkerStep
    <2>1. UNCHANGED <<accepting, draining, stopped, stopper>>
      BY <1>2, WorkerLeaves
    <2>2. worker.at = "done" => FALSE
      BY <1>2 DEF WorkerStep, WorkerStops, WorkerWakes, Claim, DrainQueued, ParseFails, Parse,
         BeginAdjust, Adjust, FinishRecord, FinishAdjust, Processed
    <2>3. queue = <<>> => queue' = <<>>
      BY <1>2 DEF WorkerStep, WorkerStops, WorkerWakes, Claim, DrainQueued, ParseFails, Parse,
         BeginAdjust, Adjust, FinishRecord, FinishAdjust, Processed, EndRun, DiscardQueued, channel
    <2>4. discarded' = discarded \/ (~ draining /\ ~ accepting)
      <3>1. stopped => ~ accepting
        BY DEF StopOrder
      <3> QED
        BY <1>2, <3>1 DEF WorkerStep, WorkerStops, WorkerWakes, Claim, DrainQueued, ParseFails, Parse,
         BeginAdjust, Adjust, FinishRecord, FinishAdjust, Processed, EndRun
    <2> QED
      BY <2>1, <2>2, <2>3, <2>4 DEF StopOrder
  <1>3. CASE DrainBegin \/ ShutdownBegin \/ Expire \/ StopperStep
    <2>1. UNCHANGED worker
      BY <1>3, StopperLeaves
    <2> USE DEF StopOrder, StopperRecords
    <2>2. CASE DrainBegin
      BY <1>t, <2>1, <2>2 DEF DrainBegin, channel
    <2>3. CASE ShutdownBegin
      BY <1>t, <2>1, <2>3 DEF ShutdownBegin, DiscardQueued
    <2>4. CASE Expire
      BY <1>t, <2>1, <2>4 DEF Expire, channel
    <2>5. CASE DrainClose
      BY <1>t, <2>1, <2>5 DEF DrainClose, channel
    <2>6. CASE ShutdownFinishActive
      BY <1>t, <2>1, <2>6 DEF ShutdownFinishActive, channel
    <2>7. CASE CloseStop \/ Joined
      BY <1>t, <2>1, <2>7 DEF CloseStop, Joined, channel
    <2>8. CASE ExpireAgain
      BY <1>t, <2>1, <2>8 DEF ExpireAgain, channel
    <2>9. CASE DrainRemainder
      BY <1>t, <2>1, <2>9 DEF DrainRemainder, DiscardQueued
    <2> QED
      BY <1>3, <2>2, <2>3, <2>4, <2>5, <2>6, <2>7, <2>8, <2>9 DEF StopperStep
  <1> QED
    BY <1>1, <1>2, <1>3 DEF Next

(* Every step keeps the phase in step with the worker.                     *)
LEMMA PhaseOrderStep ==
    ASSUME TypeOK, WorkerHolds, StopOrder, PhaseOrder, Next
    PROVE  PhaseOrder'
  <1>t. worker \in WorkerRecords /\ stopper \in StopperRecords /\ phase \in {"idle", "adjusting", "terminal"}
    BY DEF TypeOK, WorkerRecords, StopperRecords, Jobs
  <1>1. ASSUME NEW r \in Requests, RequestEnds(r) \/ HandlerStep(r) PROVE PhaseOrder'
    BY <1>1, HandlersLeave DEF lifecycle, PhaseOrder
  <1>2. CASE WorkerStep
    <2>1. UNCHANGED <<accepting, draining, stopper>>
      BY <1>2, WorkerLeaves
    <2> USE DEF PhaseOrder, WorkerRecords, Claimed
    <2>2. CASE WorkerStops \/ WorkerWakes
      BY <1>t, <2>1, <2>2 DEF WorkerStops, WorkerWakes, EndRun, lifecycle
    <2>3. CASE Claim
      <3>1. UNCHANGED phase /\ phase # "adjusting"
        BY <2>3 DEF Claim, lifecycle
      <3>2. CASE accepting
        BY <2>1, <3>1, <3>2 DEF StopOrder
      <3>3. CASE ~ accepting
        <4>1. worker'.at \in {"drainQueued", "done"}
          BY <1>t, <2>3, <3>3 DEF Claim, EndRun
        <4> QED
          BY <3>1, <4>1
      <3> QED
        BY <3>2, <3>3
    <2>4. CASE DrainQueued
      <3>1. draining /\ UNCHANGED phase /\ phase # "adjusting"
        BY <2>4 DEF DrainQueued, lifecycle, WorkerHolds
      <3> QED
        BY <2>1, <3>1
    <2>5. CASE ParseFails \/ FinishRecord \/ Processed
      BY <1>t, <2>1, <2>5 DEF ParseFails, FinishRecord, Processed, lifecycle
    <2>6. CASE BeginAdjust
      BY <1>t, <2>1, <2>6 DEF BeginAdjust
    <2>7. CASE FinishAdjust
      BY <1>t, <2>1, <2>7 DEF FinishAdjust
    <2>8. CASE \E known \in BOOLEAN : Parse(known)
      BY <1>t, <2>1, <2>8 DEF Parse, lifecycle
    <2>9. CASE \E outcome \in [Kinds -> {"adjusted", "invalid"}] : Adjust(outcome)
      BY <1>t, <2>1, <2>9 DEF Adjust, lifecycle
    <2> QED
      BY <1>2, <2>2, <2>3, <2>4, <2>5, <2>6, <2>7, <2>8, <2>9 DEF WorkerStep
  <1>3. CASE DrainBegin \/ ShutdownBegin \/ Expire \/ StopperStep
    <2>1. UNCHANGED worker
      BY <1>3, StopperLeaves
    <2> USE DEF PhaseOrder, StopperRecords, Claimed
    <2>2. CASE DrainBegin \/ DrainClose \/ ShutdownFinishActive \/ CloseStop \/ Joined
      BY <1>t, <2>1, <2>2 DEF DrainBegin, DrainClose, ShutdownFinishActive, CloseStop, Joined
    <2>3. CASE ShutdownBegin \/ DrainRemainder
      BY <1>t, <2>1, <2>3 DEF ShutdownBegin, DrainRemainder
    <2>4. CASE Expire
      BY <1>t, <2>1, <2>4 DEF Expire
    <2>5. CASE ExpireAgain
      BY <1>t, <2>1, <2>5 DEF ExpireAgain
    <2> QED
      BY <1>3, <2>2, <2>3, <2>4, <2>5 DEF StopperStep
  <1> QED
    BY <1>1, <1>2, <1>3 DEF Next

-----------------------------------------------------------------------------
(* Every live ticket has its place.                                        *)

WorkerOwns(r) == worker.job = r /\ worker.at \in {"parse", "parsed", "adjust"}
Placed(r) == InSubmit(r) \/ Queued(r) \/ WorkerOwns(r)

(* A request is live when its tickets are.                                 *)
LEMMA LiveIsAlive ==
    /\ LivePlaced <=> \A r \in Requests : Alive(ticket[r]) => Placed(r)
    /\ LivePlaced' <=> \A r \in Requests : Alive(ticket'[r]) => Placed(r)'
  BY DEF LivePlaced, Live, Alive, Placed, WorkerOwns

\* A job that is queued or with the worker has a handler that is past submit.
LEMMA PlacedAfter ==
    ASSUME TypeOK, JobsPlaced, NEW r \in Requests, Queued(r) \/ WorkerOwns(r)
    PROVE  handler[r] \in Settled
  BY NoneAssumption DEF JobsPlaced, Queued, WorkerOwns

(* A handler leaves no live ticket without an owner.                       *)
LEMMA HandlersPlace ==
    ASSUME TypeOK, JobsPlaced, LivePlaced, NEW r \in Requests, RequestEnds(r) \/ HandlerStep(r)
    PROVE  LivePlaced'
  <1>t. handler \in [Requests -> HandlerAt] /\ queue \in Seq(Requests)
    BY DEF TypeOK
  <1>w. UNCHANGED worker
    BY HandlersLeave
  <1>q. UNCHANGED queue \/ queue' = Append(queue, r)
    BY DEF RequestEnds, HandlerStep, SettleInline, HandOff, TakeSlot, Saturated,
       CheckAccepting, GiveUpSlot, Enqueue, CompleteRecord, channel
  <1>m. TicketsMoved
    BY HandlersMoveTickets
  <1>k. ASSUME NEW q \in Requests, Queued(q) PROVE Queued(q)'
    BY <1>k, <1>q, <1>t DEF Queued
  <1> SUFFICES ASSUME NEW q \in Requests, Alive(ticket'[q]) PROVE Placed(q)'
    BY LiveIsAlive
  <1>1. CASE q # r
    <2>1. handler'[q] = handler[q]
      BY <1>1, <1>t DEF RequestEnds, HandlerStep, SettleInline, HandOff, TakeSlot, Saturated,
         CheckAccepting, GiveUpSlot, Enqueue, CompleteRecord
    <2>2. Placed(q)
      BY <1>m, <2>1, LiveIsAlive DEF TicketsMoved
    <2> QED
      BY <2>1, <2>2, <1>k, <1>w DEF Placed, InSubmit, WorkerOwns
  <1>2. CASE q = r
    <2>1. handler[r] = "serving" => ~ Alive(ticket[r])
      <3>1. handler[r] = "serving" => ~ Placed(r)
        BY PlacedAfter DEF Placed, InSubmit, Settled
      <3> QED
        BY <3>1, LiveIsAlive
    <2>2. ASSUME NEW observed \in BOOLEAN, SettleInline(r, observed) PROVE FALSE
      BY <1>2, <2>1, <2>2 DEF SettleInline
    <2>3. ASSUME NEW reserved \in SUBSET Kinds, HandOff(r, reserved) PROVE Placed(q)'
      <3>1. handler[r] = "serving"
        BY <2>3 DEF HandOff
      <3> QED
        BY <1>2, <1>m, <2>1, <3>1 DEF TicketsMoved, Placed, InSubmit
    <2>4. CASE TakeSlot(r)
      BY <1>2, <1>t, <2>4 DEF TakeSlot, Placed, InSubmit
    <2>5. ASSUME Invalidate({r}) PROVE FALSE
      <3>1. ~ Alive(ticket'[r])
        BY <2>5, TicketsInvalid DEF Invalidate
      <3> QED
        BY <1>2, <3>1
    <2>6. CASE Saturated(r)
      BY <2>5, <2>6 DEF Saturated
    <2>7. CASE CheckAccepting(r)
      <3>1. CASE accepting
        BY <1>2, <1>t, <2>7, <3>1 DEF CheckAccepting, Placed, InSubmit
      <3>2. CASE ~ accepting
        BY <2>5, <2>7, <3>2 DEF CheckAccepting, GiveUpSlot
      <3> QED
        BY <3>1, <3>2
    <2>8. CASE Enqueue(r)
      <3>1. CASE accepting /\ Len(queue) < Capacity
        <4>1. queue' = Append(queue, r)
          BY <2>8, <3>1 DEF Enqueue
        <4>2. Len(queue) + 1 \in DOMAIN queue' /\ queue'[Len(queue) + 1] = r
          BY <4>1, <1>t
        <4> QED
          BY <1>2, <4>2 DEF Placed, Queued
      <3>2. CASE ~ (accepting /\ Len(queue) < Capacity)
        BY <2>5, <2>8, <3>2 DEF Enqueue, GiveUpSlot
      <3> QED
        BY <3>1, <3>2
    <2>9. CASE CompleteRecord(r)
      <3>1. handler[r] \in {"ended", "logged"} /\ UNCHANGED ticket
        BY <2>9 DEF CompleteRecord
      <3>2. Queued(r) \/ WorkerOwns(r)
        BY <1>2, <3>1, LiveIsAlive DEF Placed, InSubmit
      <3> QED
        BY <1>2, <1>k, <1>w, <3>2 DEF Placed, WorkerOwns
    <2> QED
      BY <2>2, <2>3, <2>4, <2>6, <2>7, <2>8, <2>9 DEF RequestEnds, HandlerStep
  <1> QED
    BY <1>1, <1>2

\* discardQueuedLocked leaves no live ticket in the jobs it throws away.
LEMMA DiscardPlaces ==
    ASSUME TypeOK, LivePlaced, DiscardQueued, UNCHANGED handler, UNCHANGED worker
    PROVE  LivePlaced'
  <1>1. TicketsMoved /\ \A r \in Requests \cap ToSet(queue) : ~ Alive(ticket'[r])
    BY TicketsInvalid DEF DiscardQueued, Invalidate
  <1> SUFFICES ASSUME NEW q \in Requests, Alive(ticket'[q]) PROVE Placed(q)'
    BY LiveIsAlive
  <1>2. ~ Queued(q)
    BY <1>1 DEF Queued, ToSet
  <1>3. Placed(q)
    BY <1>1, LiveIsAlive DEF TicketsMoved
  <1> QED
    BY <1>2, <1>3 DEF Placed, InSubmit, WorkerOwns

(* The worker leaves no live ticket without an owner.                      *)
LEMMA WorkerPlaces ==
    ASSUME TypeOK, WorkerHolds, LivePlaced, WorkerStep
    PROVE  LivePlaced'
  <1>t. worker \in WorkerRecords /\ queue \in Seq(Requests)
    BY DEF TypeOK, WorkerRecords, Jobs
  <1>h. UNCHANGED handler
    BY WorkerLeaves
  <1>m. TicketsMoved
    BY WorkerMovesTickets
  <1>p. ASSUME NEW q \in Requests, Alive(ticket'[q]) PROVE Placed(q) /\ (InSubmit(q)' <=> InSubmit(q))
    BY <1>h, <1>m, <1>p, LiveIsAlive DEF TicketsMoved, InSubmit
  <1> SUFFICES ASSUME NEW q \in Requests, Alive(ticket'[q]) PROVE Placed(q)'
    BY LiveIsAlive
  <1>o. CASE WorkerOwns(q)' /\ WorkerOwns(q)
    BY <1>o DEF Placed
  <1>e. ASSUME EndRun, worker.at \in {"select", "claim"} PROVE Placed(q)'
    <2>1. ~ WorkerOwns(q)
      BY <1>e, NoneAssumption DEF WorkerOwns
    <2>2. CASE draining
      BY <1>e, <1>p, <2>1, <2>2 DEF EndRun, Placed, Queued
    <2>3. CASE ~ draining
      <3>1. \A r \in Requests \cap ToSet(queue) : ~ Alive(ticket'[r])
        BY <1>e, <2>3, TicketsInvalid DEF EndRun, DiscardQueued, Invalidate
      <3>2. ~ Queued(q)
        BY <3>1 DEF Queued, ToSet
      <3> QED
        BY <1>p, <2>1, <3>2 DEF Placed
    <2> QED
      BY <2>2, <2>3
  <1>j. ASSUME queue # <<>>, queue' = Tail(queue), worker' = [worker EXCEPT !.at = "parse", !.job = Head(queue)],
               worker.at \in {"claim", "drainQueued"}
        PROVE  Placed(q)'
    <2>1. ~ WorkerOwns(q)
      BY <1>j, NoneAssumption DEF WorkerOwns
    <2>2. worker'.at = "parse" /\ worker'.job = queue[1]
      BY <1>j, <1>t DEF WorkerRecords
    <2>3. ASSUME Queued(q) PROVE Placed(q)'
      <3>1. PICK i \in DOMAIN queue : queue[i] = q
        BY <2>3 DEF Queued
      <3>2. CASE i = 1
        BY <2>2, <3>1, <3>2 DEF Placed, WorkerOwns
      <3>3. CASE i # 1
        <4>1. i - 1 \in DOMAIN queue' /\ queue'[i - 1] = q
          BY <1>j, <1>t, <3>1, <3>3
        <4> QED
          BY <4>1 DEF Placed, Queued
      <3> QED
        BY <3>2, <3>3
    <2> QED
      BY <1>p, <2>1, <2>3 DEF Placed
  <1>i. ASSUME Invalidate({worker.job}), UNCHANGED queue PROVE Placed(q)'
    <2>1. q # worker.job
      <3>1. \A r \in Requests \cap {worker.job} : ~ Alive(ticket'[r])
        BY <1>i, TicketsInvalid DEF Invalidate
      <3> QED
        BY <3>1
    <2> QED
      BY <1>i, <1>p, <2>1 DEF Placed, WorkerOwns, Queued
  <1>n. ASSUME UNCHANGED queue, WorkerOwns(q) => WorkerOwns(q)' PROVE Placed(q)'
    BY <1>n, <1>p DEF Placed, Queued
  <1> USE DEF channel
  <1>1. CASE WorkerStops
    BY <1>1, <1>e DEF WorkerStops
  <1>2. CASE Claim
    <2>1. CASE ~ accepting
      BY <1>2, <1>e, <2>1 DEF Claim
    <2>2. CASE accepting /\ queue # <<>>
      BY <1>2, <1>j, <2>2 DEF Claim, TakeJob
    <2>3. CASE accepting /\ queue = <<>>
      BY <1>2, <1>n, <2>3 DEF Claim, WorkerOwns
    <2> QED
      BY <2>1, <2>2, <2>3
  <1>3. CASE DrainQueued
    BY <1>3, <1>j, <1>n DEF DrainQueued, TakeJob, WorkerOwns
  <1>4. CASE ParseFails
    BY <1>4, <1>i DEF ParseFails
  <1>5. CASE BeginAdjust
    <2>1. CASE phase # "idle"
      BY <1>5, <1>i, <2>1 DEF BeginAdjust
    <2>2. CASE phase = "idle"
      BY <1>5, <1>n, <1>t, <2>2 DEF BeginAdjust, WorkerOwns, WorkerRecords
    <2> QED
      BY <2>1, <2>2
  <1>6. ASSUME NEW outcome \in [Kinds -> {"adjusted", "invalid"}], Adjust(outcome) PROVE Placed(q)'
    <2>1. q # worker.job
      BY <1>6, AdjustEnds
    <2> QED
      BY <1>6, <1>n, <2>1 DEF Adjust, WorkerOwns
  <1>7. CASE WorkerWakes \/ FinishRecord \/ FinishAdjust \/ Processed
    BY <1>7, <1>n DEF WorkerWakes, FinishRecord, FinishAdjust, Processed, WorkerOwns
  <1>8. ASSUME NEW known \in BOOLEAN, Parse(known) PROVE Placed(q)'
    BY <1>8, <1>n, <1>t DEF Parse, WorkerOwns, WorkerRecords
  <1> QED
    BY <1>1, <1>2, <1>3, <1>4, <1>5, <1>6, <1>7, <1>8 DEF WorkerStep

(* Drain and shutdown leave no live ticket without an owner.               *)
LEMMA StopperPlaces ==
    ASSUME TypeOK, LivePlaced, DrainBegin \/ ShutdownBegin \/ Expire \/ StopperStep
    PROVE  LivePlaced'
  <1>1. UNCHANGED <<worker, handler>>
    BY StopperLeaves
  <1>2. CASE ShutdownBegin \/ DrainRemainder
    BY <1>1, <1>2, DiscardPlaces DEF ShutdownBegin, DrainRemainder
  <1>3. CASE DrainBegin \/ Expire \/ DrainClose \/ ShutdownFinishActive \/ CloseStop \/ Joined
             \/ ExpireAgain
    <2>1. UNCHANGED <<queue, ticket>>
      BY <1>3 DEF DrainBegin, Expire, DrainClose, ShutdownFinishActive, CloseStop, Joined,
         ExpireAgain, channel
    <2> QED
      BY <1>1, <2>1 DEF LivePlaced, Live, InSubmit, Queued
  <1> QED
    BY <1>2, <1>3 DEF StopperStep

-----------------------------------------------------------------------------
(* No job exists at the start.                                             *)
LEMMA Initially == Init => IInv
  <1> SUFFICES ASSUME Init PROVE IInv
    OBVIOUS
  <1>c. Capacity \in Nat /\ Capacity > 0
    BY CapacityAssumption
  <1>1. worker \in WorkerRecords /\ stopper \in StopperRecords
    BY DEF Init, WorkerRecords, StopperRecords, WorkerAt, StopperAt, Jobs
  <1>2. record \in [Requests -> Ownerships] /\ RecordsExact
    BY DEF Init, FreshRecord, Ownerships, RecordsExact, RecordExact
  <1>3. ticket \in [Requests -> TicketSets] /\ \A r \in Requests : ~ Live(r)
    BY DEF Init, TicketSets, TicketIn, Live
  <1>4. handler \in [Requests -> HandlerAt] /\ Holding = {}
    BY DEF Init, HandlerAt, Holding
  <1>5. queue \in Seq(Requests) /\ Len(queue) = 0 /\ DOMAIN queue = {}
    BY DEF Init
  <1>6. wake \in BOOLEAN /\ accepting \in BOOLEAN /\ draining \in BOOLEAN /\ stopped \in BOOLEAN
    BY Zenon DEF Init
  <1>7. TypeOK
    BY <1>c, <1>1, <1>2, <1>3, <1>4, <1>5, <1>6
       DEF Init, TypeOK, WorkerRecords, StopperRecords, Ownerships, TicketSets, Jobs
  <1>8. SlotsExact /\ FiniteHolding
    <2>1. Cardinality(Holding) = 0 /\ IsFiniteSet(Holding)
      BY <1>4, FS_EmptySet
    <2> QED
      BY <1>c, <1>5, <2>1 DEF Init, SlotsExact, FiniteHolding
  <1>9. JobsPlaced /\ WorkerHolds /\ LivePlaced
    BY <1>3, <1>5 DEF Init, JobsPlaced, WorkerHolds, LivePlaced, HoldsJob
  <1>10. StopOrder /\ PhaseOrder
    BY DEF Init, StopOrder, PhaseOrder
  <1> QED
    BY <1>2, <1>7, <1>8, <1>9, <1>10 DEF IInv

(* Every step keeps the invariant.                                         *)
LEMMA Stepwise == IInv /\ [Next]_vars => IInv'
  <1> SUFFICES ASSUME IInv, [Next]_vars PROVE IInv'
    OBVIOUS
  <1>1. CASE Next
    <2>1. /\ TypeOK /\ SlotsExact /\ FiniteHolding /\ RecordsExact
          /\ JobsPlaced /\ WorkerHolds /\ LivePlaced /\ StopOrder /\ PhaseOrder
      BY DEF IInv
    <2>2. TypeOK' /\ SlotsExact' /\ FiniteHolding' /\ RecordsExact'
      BY <1>1, <2>1, TypeStep
    <2>3. JobsPlaced' /\ WorkerHolds'
      BY <1>1, <2>1, <2>2, JobsPlacedStep, WorkerHoldsStep
    <2>4. StopOrder' /\ PhaseOrder'
      BY <1>1, <2>1, StopOrderStep, PhaseOrderStep
    <2>5. LivePlaced'
      BY <1>1, <2>1, HandlersPlace, WorkerPlaces, StopperPlaces DEF Next
    <2> QED
      BY <2>2, <2>3, <2>4, <2>5 DEF IInv
  <1>2. CASE UNCHANGED vars
    <2>1. TypeOK' /\ SlotsExact' /\ FiniteHolding' /\ RecordsExact'
      BY <1>2 DEF vars, IInv, TypeOK, SlotsExact, FiniteHolding, Holding, RecordsExact, RecordExact
    <2>2. JobsPlaced' /\ WorkerHolds' /\ LivePlaced'
      BY <1>2 DEF vars, IInv, JobsPlaced, WorkerHolds, LivePlaced, Live, InSubmit, Queued
    <2>3. StopOrder' /\ PhaseOrder'
      BY <1>2 DEF vars, IInv, StopOrder, PhaseOrder
    <2> QED
      BY <2>1, <2>2, <2>3 DEF IInv
  <1> QED
    BY <1>1, <1>2

\* The inductive invariant: every job, ticket and slot has its place, whatever
\* submit, run, Drain and Shutdown do to each other.
THEOREM ObservationInvariant == Spec => []IInv
  BY Initially, Stepwise, PTL DEF Spec

\* No completion record is emitted twice, nor before its handler completed it,
\* for any number of requests (completionOwnership.finish, complete).
THEOREM EmittedOnce == Spec => []RecordOnce
  <1>1. IInv => RecordOnce
    BY DEF IInv, RecordsExact, RecordExact, RecordOnce, TypeOK
  <1> QED
    BY <1>1, ObservationInvariant, PTL

(* A live request is owned by exactly one of handler, queue and worker.    *)
LEMMA OneOwner ==
    ASSUME IInv, NEW r \in Requests, Live(r)
    PROVE  Cardinality({i \in DOMAIN queue : queue[i] = r})
           + (IF InSubmit(r) THEN 1 ELSE 0)
           + (IF worker.job = r THEN 1 ELSE 0) = 1
  <1>i. TypeOK /\ JobsPlaced /\ LivePlaced
    BY DEF IInv
  <1>r. r # None
    BY NoneAssumption
  <1>1. Placed(r)
    BY <1>i DEF LivePlaced, Placed, WorkerOwns
  <1>2. ASSUME ~ Queued(r) PROVE Cardinality({i \in DOMAIN queue : queue[i] = r}) = 0
    <2>1. {i \in DOMAIN queue : queue[i] = r} = {}
      BY <1>2 DEF Queued
    <2> QED
      BY <2>1, FS_EmptySet
  <1>3. ASSUME Queued(r)
        PROVE  /\ Cardinality({i \in DOMAIN queue : queue[i] = r}) = 1
               /\ ~ InSubmit(r) /\ worker.job # r
    <2>1. PICK i \in DOMAIN queue : queue[i] = r
      BY <1>3 DEF Queued
    <2>2. {j \in DOMAIN queue : queue[j] = r} = {i}
      BY <1>i, <2>1 DEF JobsPlaced
    <2>3. handler[r] \in Settled /\ worker.job # r
      BY <1>i, <2>1 DEF JobsPlaced
    <2> QED
      BY <2>2, <2>3, FS_Singleton DEF InSubmit, Settled
  <1>4. worker.job = r => ~ InSubmit(r)
    BY <1>i, <1>r DEF JobsPlaced, InSubmit, Settled
  <1>5. ~ Queued(r) => InSubmit(r) \/ worker.job = r
    BY <1>1 DEF Placed, WorkerOwns
  <1>6. CASE Queued(r)
    BY <1>3, <1>6
  <1>7. CASE ~ Queued(r)
    BY <1>2, <1>4, <1>5, <1>7
  <1> QED
    BY <1>6, <1>7

\* Nothing is stranded by the observation worker, for any number of requests
\* and any capacity: the slots add up, every live ticket has exactly one
\* holder, and a Drain or Shutdown that returned nil left no accepted ticket
\* live and, when it was a Drain, threw no job away.
THEOREM StrandsNothing == Spec => []NothingStranded
  <1>1. IInv => NothingStranded
    <2> SUFFICES ASSUME IInv PROVE NothingStranded
      OBVIOUS
    <2>1. LiveTicketOwned
      BY OneOwner DEF LiveTicketOwned
    <2>2. JoinedIsSettled
      <3> SUFFICES ASSUME stopper.at = "joined"
                   PROVE  queue = <<>> /\ \A r \in Requests : Live(r) => InSubmit(r)
        BY DEF JoinedIsSettled
      <3>1. worker.at = "done"
        BY DEF IInv, StopOrder
      <3>2. queue = <<>> /\ worker.job = None
        BY <3>1 DEF IInv, WorkerHolds, HoldsJob
      <3> QED
        BY <3>2, NoneAssumption DEF IInv, LivePlaced, Queued
    <2>3. DrainKeepsJobs
      BY DEF IInv, StopOrder, DrainKeepsJobs
    <2> QED
      BY <2>1, <2>2, <2>3 DEF IInv, NothingStranded
  <1> QED
    BY <1>1, ObservationInvariant, PTL

\* Once a Shutdown has returned its deadline error the worker claims no further
\* adjustment: the two compare-and-swaps of the deadline leave it no phase to
\* claim, and the emptied queue no other job (Shutdown, beginAdjust).
THEOREM NoClaimAfterShutdown == Spec => ShutdownEndsAdjusting
  <1>1. ASSUME IInv, Next, stopper.at = "expired", ~ draining, worker.at # "adjust"
        PROVE  worker'.at # "adjust"
    <2>t. worker \in WorkerRecords
      BY <1>1 DEF IInv, TypeOK, WorkerRecords, Jobs
    <2>1. worker.at = "parsed" => phase = "terminal"
      BY <1>1 DEF IInv, PhaseOrder
    <2>2. ASSUME NEW r \in Requests, RequestEnds(r) \/ HandlerStep(r) PROVE UNCHANGED worker
      BY <2>2, HandlersLeave
    <2>3. CASE WorkerStep
      BY <1>1, <2>t, <2>1, <2>3 DEF WorkerStep, WorkerStops, WorkerWakes, Claim, DrainQueued,
         ParseFails, Parse, BeginAdjust, Adjust, FinishRecord, FinishAdjust, Processed, EndRun,
         WorkerRecords
    <2> QED
      BY <1>1, <2>2, <2>3, StopperLeaves DEF Next
  <1>2. IInv /\ [Next]_vars =>
           [stopper.at = "expired" /\ ~draining /\ worker.at # "adjust"
              => worker'.at # "adjust"]_vars
    BY <1>1
  <1> QED
    BY <1>2, ObservationInvariant, PTL DEF Spec, ShutdownEndsAdjusting

-----------------------------------------------------------------------------
(***************************************************************************)
(* Proofs about ReservationPlan: for every pricing table, key policy and   *)
(* request, what an admitted request holds can be reserved and covers any  *)
(* usage within its token plan.                                            *)
(*                                                                         *)
(* ReservationCovers compares the cost of the reported usage with the      *)
(* amount that was held; the invariant says that both are prices under the *)
(* one rule that was selected (MoneyHeld, AnswerOK), that its rates passed *)
(* validation (TableOK), and the rest is that a price rounded up is        *)
(* monotone (CostFacts).                                                   *)
(***************************************************************************)
PlanSteps == {"load", "not started", "arrive", "inspect", "plan", "refused", "admitted",
              "answered"}
Counted(n) == n \in Nat \/ n = Absent
PricedRule(rule) == rule.inputRate \in 0 .. MaxMoney /\ rule.outputRate \in 0 .. MaxMoney

\* The compiled rules are finitely many, with the rates that validation let in.
TableOK ==
    /\ IsFiniteSet(DOMAIN table) /\ \A i \in DOMAIN table : i \in Nat
    /\ \A i \in DOMAIN table : PricedRule(table[i])

\* Nothing is known of a request that has not been read; then its own fields.
MetadataOK ==
    /\ metadata = {} \/ metadata = {[model |-> request.model, limits |-> request.limits]}
    /\ planStep \in {"load", "not started", "arrive", "inspect"} => metadata = {}
    /\ request \in ModelRequests \/ planStep \in {"load", "not started", "arrive"}

\* A token plan that can be reserved.
PlanUsable(plan) ==
    /\ plan.input \in Nat /\ plan.output \in Nat \ {0}
    /\ plan.input + plan.output <= MaxTokenCount
Fallbacks == [input |-> FallbackInput, output |-> FallbackOutput]

\* What an admitted request holds: the amount is the price of its token plan
\* under the one rule that was selected.
TokensHeld ==
    Planned /\ request.path # "models" /\ (keyPolicy.tokens \/ keyPolicy.budget) =>
        PlanUsable(tokenPlan) /\ (metadata = {} => tokenPlan = Fallbacks)
HoldsPrice(rule) ==
    /\ pricing = {rule} /\ PricedRule(rule)
    /\ budgetPlan = TokenCost(tokenPlan.input, tokenPlan.output, rule) /\ budgetPlan # Absent
    /\ budgetPlan = 0 => rule.inputRate = 0 /\ rule.outputRate = 0
MoneyHeld ==
    Planned /\ request.path # "models" /\ keyPolicy.budget =>
        PlanUsable(tokenPlan) /\ \E rule \in pricing : HoldsPrice(rule)

\* What the upstream reported has been priced by that rule.
AnswerOK ==
    planStep = "answered" =>
        /\ Counted(reported.input) /\ Counted(reported.output)
        /\ cost = CalculateActualCost(reported)

PlanInv ==
    /\ planStep \in PlanSteps
    /\ TableOK /\ MetadataOK /\ TokensHeld /\ MoneyHeld /\ AnswerOK

(* The first position of a nonempty set is one of its members.             *)
LEMMA FirstIn ==
    ASSUME NEW S, S # {}, \A x \in S : x \in Nat, IsFiniteSet(S)
    PROVE  First(S) \in S
  <1>1. \E x \in S : \A y \in S : x <= y
    BY LeastExists
  <1>. QED  BY <1>1 DEF First

(* So is the last one.                                                     *)
LEMMA LatestIn ==
    ASSUME NEW S, S # {}, \A x \in S : x \in Nat, IsFiniteSet(S)
    PROVE  Latest(S) \in S
  <1>1. Max(S) \in S /\ \A y \in S : y <= Max(S)
    BY MaxFacts
  <1>. HIDE DEF Max
  <1>2. \E x \in S : \A y \in S : y <= x
    BY <1>1
  <1>. QED  BY <1>2 DEF Latest

(* The constants are numbers.                                              *)
LEMMA PlanConstants ==
    /\ MaxMoney \in Nat \ {0} /\ RateScale \in Nat \ {0} /\ MaxTokenCount \in Nat \ {0}
    /\ FallbackInput \in Nat \ {0} /\ FallbackOutput \in Nat \ {0}
    /\ FallbackInput + FallbackOutput <= MaxTokenCount
    /\ MessageFrameTokens \in Nat /\ ToolFrameTokens \in Nat
    /\ Absent = -1
  BY PlanAssumption DEF Absent

(* An estimate of text is a count, or Absent.                              *)
LEMMA ContentFacts ==
    ASSUME NEW parts, IsFiniteSet(DOMAIN parts),
           \A j \in DOMAIN parts : parts[j] \in Nat \cup {-1}
    PROVE  Counted(EstimateContent(parts))
  <1>1. CASE \E i \in DOMAIN parts : parts[i] = Absent
    BY <1>1 DEF EstimateContent, Counted
  <1>2. CASE ~ \E i \in DOMAIN parts : parts[i] = Absent
    <2>1. \A j \in DOMAIN parts : parts[j] \in Nat
      BY <1>2 DEF Absent
    <2>2. SumFunctionOnSet(parts, DOMAIN parts) \in Nat
      BY <2>1, SumNat
    <2>3. SumFunction(parts) \in Nat
      BY <2>2 DEF SumFunction
    <2>. QED  BY <1>2, <2>3 DEF EstimateContent, Counted
  <1>. QED  BY <1>1, <1>2

(* The item of a request that can be estimated.                            *)
ItemShaped(item) ==
    /\ item.field \in {"messages", "input", "instructions", "tools"}
    /\ IsFiniteSet(DOMAIN item.parts)
    /\ \A j \in DOMAIN item.parts : item.parts[j] \in Nat \cup {-1}

(* So is the estimate of one item.                                         *)
LEMMA ItemFacts ==
    ASSUME NEW item, ItemShaped(item)
    PROVE  Counted(EstimateItem(item))
  <1>1. Counted(EstimateContent(item.parts))
    BY ContentFacts DEF ItemShaped
  <1>2. ASSUME NEW frame \in Nat, NEW n, Counted(n)
        PROVE  Counted(Framed(frame, n))
    BY <1>2 DEF Framed, Counted, Absent
  <1>3. Counted(EstimateMessage(item))
    BY <1>1, <1>2, PlanConstants DEF EstimateMessage
  <1>4. Counted(EstimateInputItem(item))
    BY <1>1, <1>3 DEF EstimateInputItem, Counted
  <1>5. Counted(EstimateTool(item))
    BY <1>1, <1>2, PlanConstants DEF EstimateTool, Counted
  <1>. QED  BY <1>1, <1>3, <1>4, <1>5 DEF EstimateItem, ItemShaped

(* And that of the whole request, which fits a count.                      *)
LEMMA EstimateFacts ==
    ASSUME NEW items, IsFiniteSet(DOMAIN items), \A i \in DOMAIN items : ItemShaped(items[i])
    PROVE  Counted(EstimateInputTokens(items))
  <1>. DEFINE estimates == [i \in DOMAIN items |-> EstimateItem(items[i])]
  <1>1. \A i \in DOMAIN items : Counted(estimates[i])
    BY ItemFacts
  <1>2. DOMAIN estimates = DOMAIN items
    OBVIOUS
  <1>3. CASE \A i \in DOMAIN items : estimates[i] # Absent
    <2>1. \A i \in DOMAIN items : estimates[i] \in Nat
      BY <1>1, <1>3 DEF Counted
    <2>. HIDE DEF estimates
    <2>2. SumFunctionOnSet(estimates, DOMAIN items) \in Nat
      BY <2>1, SumNat
    <2>3. SumFunction(estimates) \in Nat
      BY <2>2, <1>2 DEF SumFunction
    <2>. QED  BY <2>3 DEF EstimateInputTokens, Counted, estimates
  <1>4. CASE \E i \in DOMAIN items : estimates[i] = Absent
    BY <1>4 DEF EstimateInputTokens, Counted
  <1>. QED  BY <1>3, <1>4

\* The output limits of a request.
LimitsShaped(limits) == \A name \in DOMAIN limits : limits[name] \in Int

(* A plan is NoPlan or can be reserved.                                    *)
LEMMA PlanFacts ==
    ASSUME NEW estimate, Counted(estimate), NEW limits, LimitsShaped(limits),
           NEW responses \in BOOLEAN
    PROVE  \/ PlanReservation(estimate, limits, responses) = NoPlan
           \/ PlanUsable(PlanReservation(estimate, limits, responses))
  <1>. DEFINE names == OutputLimits(responses)
              given == {i \in DOMAIN names : names[i] \in DOMAIN limits}
              usable == {i \in given : limits[names[i]] # 0}
              input == IF keyPolicy.estimate /\ estimate # Absent THEN estimate ELSE FallbackInput
              output == IF usable = {} THEN FallbackOutput ELSE limits[names[First(usable)]]
              refused == \/ \E i \in given : limits[names[i]] < 0
                         \/ input + output > MaxTokenCount \/ input + output <= 0
  <1>1. PlanReservation(estimate, limits, responses) =
            IF refused THEN NoPlan ELSE [input |-> input, output |-> output]
    BY DEF PlanReservation
  <1>2. DOMAIN names \subseteq 1 .. 3
    BY DEF OutputLimits
  <1>3. IsFiniteSet(usable) /\ \A i \in usable : i \in Nat
    <2>1. usable \subseteq 1 .. 3
      BY <1>2
    <2>. HIDE DEF usable
    <2>2. 1 \in Int /\ 3 \in Int
      OBVIOUS
    <2>3. IsFiniteSet(1 .. 3)
      BY ONLY <2>2, FS_Interval
    <2>4. IsFiniteSet(usable)
      BY ONLY <2>1, <2>3, FS_Subset
    <2>. QED  BY <2>1, <2>4
  <1>4. usable # {} => First(usable) \in usable
    <2>. HIDE DEF usable
    <2>. QED  BY <1>3, FirstIn
  <1>5. \A i \in given : limits[names[i]] \in Int
    <2>. HIDE DEF names
    <2>. QED  BY DEF LimitsShaped
  <1>6. input \in Nat
    BY PlanConstants DEF Counted
  <1>7. CASE refused
    BY <1>1, <1>7
  <1>8. CASE ~refused
    <2>1. output \in Nat \ {0}
      <3>1. CASE usable = {}
        BY <3>1, PlanConstants
      <3>2. CASE usable # {}
        <4>. DEFINE i == First(usable)
        <4>1. i \in usable
          BY <3>2, <1>4
        <4>. HIDE DEF i
        <4>2. i \in given /\ limits[names[i]] # 0
          BY <4>1
        <4>3. limits[names[i]] \in Int /\ ~(limits[names[i]] < 0)
          <5>. HIDE DEF given
          <5>. QED  BY <4>2, <1>5, <1>8
        <4>4. output = limits[names[i]]
          BY <3>2 DEF i
        <4>. HIDE DEF output
        <4>. QED  BY <4>2, <4>3, <4>4
      <3>. QED  BY <3>1, <3>2
    <2>2. input + output <= MaxTokenCount
      <3>1. ~(input + output > MaxTokenCount)
        BY <1>8
      <3>. HIDE DEF input, output
      <3>. QED  BY <2>1, <1>6, <3>1, PlanConstants
    <2>. HIDE DEF input, output, refused
    <2>. QED  BY <1>1, <1>6, <1>8, <2>1, <2>2 DEF PlanUsable
  <1>. QED  BY <1>7, <1>8

(* Without limits and without an estimate the plan is the fallbacks.       *)
LEMMA FallbackFacts ==
    ASSUME NEW responses \in BOOLEAN
    PROVE  /\ PlanReservation(Absent, <<>>, responses) = Fallbacks
           /\ Fallbacks # NoPlan /\ PlanUsable(Fallbacks)
  <1>1. DOMAIN <<>> = {}
    OBVIOUS
  <1>2. \A S : {i \in S : OutputLimits(responses)[i] \in DOMAIN <<>>} = {}
    BY <1>1
  <1>3. PlanReservation(Absent, <<>>, responses) = Fallbacks
    BY <1>2, PlanConstants DEF PlanReservation, Fallbacks
  <1>. QED  BY <1>3, PlanConstants DEF Fallbacks, NoPlan, PlanUsable

(* What the assumption says of one request.                                *)
LEMMA RequestFacts ==
    ASSUME NEW incoming \in ModelRequests
    PROVE  LimitsShaped(incoming.limits) /\ Counted(EstimateInputTokens(incoming.items))
  <1>1. LimitsShaped(incoming.limits)
    BY PlanAssumption DEF LimitsShaped
  <1>2. IsFiniteSet(DOMAIN incoming.items)
        /\ \A i \in DOMAIN incoming.items : ItemShaped(incoming.items[i])
    BY PlanAssumption DEF ItemShaped
  <1>. QED  BY <1>1, <1>2, EstimateFacts

(* ServeHTTP's token plan can be reserved, and is the fallbacks when the   *)
(* request could not be read.                                              *)
LEMMA TokenPlanFacts ==
    ASSUME MetadataOK, request \in ModelRequests, request.path # "models"
    PROVE  PlanUsable(MakeTokenPlan) /\ (metadata = {} => MakeTokenPlan = Fallbacks)
  <1>. DEFINE responses == request.path = "responses"
              known == metadata # {} /\ EligibleTokenRequest /\ keyPolicy.estimate
              estimate == IF known THEN EstimateInputTokens(request.items) ELSE Absent
              limits == IF metadata = {} THEN <<>> ELSE (CHOOSE m \in metadata : TRUE).limits
              plan == PlanReservation(estimate, limits, responses)
  <1>1. MakeTokenPlan = IF plan = NoPlan THEN PlanReservation(Absent, <<>>, responses) ELSE plan
    BY DEF MakeTokenPlan
  <1>2. Counted(estimate)
    BY RequestFacts DEF Counted
  <1>3. LimitsShaped(limits)
    <2>1. CASE metadata = {}
      BY <2>1 DEF LimitsShaped
    <2>2. CASE metadata # {}
      <3>1. PICK data : metadata = {data} /\ data.limits = request.limits
        <4>. DEFINE data == [model |-> request.model, limits |-> request.limits]
        <4>1. metadata = {data} /\ data.limits = request.limits
          BY <2>2 DEF MetadataOK
        <4>. QED  BY <4>1
      <3>2. (CHOOSE m \in metadata : TRUE) = data
        BY <3>1
      <3>3. (CHOOSE m \in metadata : TRUE).limits = request.limits
        BY <3>1, <3>2
      <3>4. limits = request.limits
        BY <2>2, <3>3
      <3>. QED  BY <3>4, RequestFacts
    <2>. QED  BY <2>1, <2>2
  <1>4. responses \in BOOLEAN
    OBVIOUS
  <1>5. metadata = {} => estimate = Absent /\ limits = <<>>
    OBVIOUS
  <1>. HIDE DEF responses, estimate, limits
  <1>6. plan = NoPlan \/ PlanUsable(plan)
    BY <1>2, <1>3, <1>4, PlanFacts
  <1>7. /\ PlanReservation(Absent, <<>>, responses) = Fallbacks
        /\ Fallbacks # NoPlan /\ PlanUsable(Fallbacks)
    BY <1>4, FallbackFacts
  <1>. QED  BY <1>1, <1>5, <1>6, <1>7

(* The rules selected for a model are none or one rule of the table.       *)
LEMMA ResolveFacts ==
    ASSUME TableOK, NEW name
    PROVE  Resolve(name) = {} \/ \E rule : Resolve(name) = {rule} /\ PricedRule(rule)
  <1>1. ASSUME NEW S \in SUBSET (DOMAIN table), S # {}
        PROVE  First(S) \in DOMAIN table /\ Latest(S) \in DOMAIN table
    <2>1. IsFiniteSet(S) /\ \A i \in S : i \in Nat
      BY FS_Subset DEF TableOK
    <2>. QED  BY <1>1, <2>1, FirstIn, LatestIn
  <1>2. \A i \in DOMAIN table : PricedRule(table[i])
    BY DEF TableOK
  <1>3. ExactRules(name) \in SUBSET (DOMAIN table) /\ GlobRules(name) \in SUBSET (DOMAIN table)
    BY DEF ExactRules, GlobRules
  <1>4. CASE name # <<>> /\ ExactRules(name) # {}
    <2>1. Latest(ExactRules(name)) \in DOMAIN table
      BY <1>1, <1>3, <1>4
    <2>2. Resolve(name) = {table[Latest(ExactRules(name))]}
      BY <1>4 DEF Resolve
    <2>. QED  BY <2>1, <2>2, <1>2
  <1>5. CASE name # <<>> /\ ExactRules(name) = {} /\ GlobRules(name) # {}
    <2>1. First(GlobRules(name)) \in DOMAIN table
      BY <1>1, <1>3, <1>5
    <2>2. Resolve(name) = {table[First(GlobRules(name))]}
      BY <1>5 DEF Resolve
    <2>. QED  BY <2>1, <2>2, <1>2
  <1>6. CASE name = <<>> \/ (ExactRules(name) = {} /\ GlobRules(name) = {})
    BY <1>6 DEF Resolve
  <1>. QED  BY <1>4, <1>5, <1>6

(* So are the rules of a request.                                          *)
LEMMA RulesFacts ==
    ASSUME TableOK, MetadataOK
    PROVE  RulesOfModel = {} \/ \E rule : RulesOfModel = {rule} /\ PricedRule(rule)
  <1>1. CASE metadata = {}
    BY <1>1 DEF RulesOfModel
  <1>2. CASE metadata # {}
    <2>1. PICK m : metadata = {m}
      BY <1>2 DEF MetadataOK
    <2>2. RulesOfModel = Resolve(m.model)
      <3>. HIDE DEF Resolve
      <3>. QED  BY <2>1 DEF RulesOfModel
    <2>. QED  BY <2>2, ResolveFacts
  <1>. QED  BY <1>1, <1>2

(* A quotient, times the divisor, is at most the dividend.                 *)
LEMMA QuotientAtMost ==
    ASSUME NEW n \in Nat, NEW d \in Nat \ {0}
    PROVE  n \div d \in Nat /\ (n \div d) * d <= n
  <1>1. n = (n \div d) * d + (n % d) /\ n \div d \in Nat /\ n % d \in 0 .. d - 1
    BY SMTT(30)
  <1>. DEFINE q == n \div d
              r == n % d
  <1>. HIDE DEF q, r
  <1>2. n = q * d + r /\ q \in Nat /\ r \in 0 .. d - 1
    BY <1>1 DEF q, r
  <1>3. q * d <= n
    <2>1. q * d \in Nat
      BY <1>2
    <2>. DEFINE product == q * d
    <2>. HIDE DEF product
    <2>2. n = product + r /\ product \in Nat /\ r \in 0 .. d - 1
      BY <1>2, <2>1 DEF product
    <2>3. product <= n
      BY <2>2
    <2>. QED  BY <2>3 DEF product
  <1>. QED  BY <1>2, <1>3 DEF q

\* The price of so many parts, rounded up once.
Price(n) == (n + RateScale - 1) \div RateScale

(* A price that fits the limit fits as an amount, and prices are ordered   *)
(* as the exact amounts are.                                               *)
LEMMA PriceFacts ==
    ASSUME NEW m \in Nat, NEW n \in Nat, m <= n, n <= MaxMoney * RateScale
    PROVE  Price(n) \in 0 .. MaxMoney /\ Price(m) \in Nat /\ Price(m) <= Price(n)
  <1>. DEFINE d == RateScale
              q == Price(n)
              p == Price(m)
              top == MaxMoney * d
  <1>1. d \in Nat \ {0} /\ MaxMoney \in Nat /\ top \in Nat
    BY PlanConstants
  <1>2. n + d - 1 \in Nat /\ m + d - 1 \in Nat
    BY <1>1
  <1>3. q \in Nat /\ q * d <= n + d - 1 /\ p \in Nat /\ p * d <= m + d - 1
    BY <1>1, <1>2, QuotientAtMost DEF Price
  <1>4. p <= q
    <2>1. p * d \in Nat
      BY <1>1, <1>3
    <2>2. p * d <= n + d - 1
      BY <2>1, <1>1, <1>2, <1>3
    <2>3. p <= (n + d - 1) \div d
      BY <2>2, <1>1, <1>2, <1>3, QuotientLargest
    <2>. QED  BY <2>3 DEF Price
  <1>5. q <= MaxMoney
    <2>1. ASSUME MaxMoney + 1 <= q PROVE FALSE
      <3>1. (MaxMoney + 1) * d <= q * d
        BY <2>1, <1>1, <1>3, ProductMonotone
      <3>2. (MaxMoney + 1) * d = top + d
        BY <1>1, Distributes
      <3>3. q * d \in Nat
        BY <1>1, <1>3
      <3>. DEFINE product == q * d
      <3>. HIDE DEF product, top
      <3>4. top + d <= product /\ product <= n + d - 1 /\ product \in Nat /\ n <= top /\ top \in Nat
        BY <3>1, <3>2, <3>3, <1>1, <1>3 DEF product, top
      <3>. HIDE DEF d
      <3>. QED  BY <3>4, <1>1
    <2>. HIDE DEF q
    <2>. QED  BY <2>1, <1>1, <1>3
  <1>. QED  BY <1>3, <1>4, <1>5

\* The exact price, in parts of RateScale.
Parts(input, output, rule) == input * rule.inputRate + output * rule.outputRate

(* A usage within a plan is not dearer than the plan.                      *)
LEMMA PartsFacts ==
    ASSUME NEW a \in Nat, NEW b \in Nat, NEW c \in Nat, NEW d \in Nat, a <= c, b <= d,
           NEW rule, PricedRule(rule)
    PROVE  /\ Parts(a, b, rule) \in Nat /\ Parts(c, d, rule) \in Nat
           /\ Parts(a, b, rule) <= Parts(c, d, rule)
  <1>. DEFINE i == rule.inputRate
              o == rule.outputRate
  <1>1. i \in Nat /\ o \in Nat
    BY PlanConstants DEF PricedRule
  <1>. HIDE DEF i, o
  <1>2. a * i <= c * i /\ b * o <= d * o
    BY <1>1, ProductMonotone
  <1>3. a * i \in Nat /\ c * i \in Nat /\ b * o \in Nat /\ d * o \in Nat
    BY <1>1
  <1>4. ASSUME NEW ai \in Nat, NEW ci \in Nat, NEW bo \in Nat, NEW do \in Nat, ai <= ci, bo <= do
        PROVE  ai + bo <= ci + do /\ ai + bo \in Nat /\ ci + do \in Nat
    BY <1>4
  <1>5. /\ a * i + b * o <= c * i + d * o
        /\ a * i + b * o \in Nat /\ c * i + d * o \in Nat
    BY <1>2, <1>3, <1>4
  <1>. QED  BY <1>5 DEF Parts, i, o

(* The price of a plan, if there is one, is an amount, and covers every    *)
(* usage within the plan.                                                  *)
LEMMA CostFacts ==
    ASSUME NEW a \in Nat, NEW b \in Nat, NEW c \in Nat, NEW d \in Nat, a <= c, b <= d,
           NEW rule, PricedRule(rule), TokenCost(c, d, rule) # Absent
    PROVE  /\ TokenCost(c, d, rule) \in 0 .. MaxMoney
           /\ TokenCost(a, b, rule) # Absent /\ TokenCost(a, b, rule) <= TokenCost(c, d, rule)
  <1>. DEFINE m == Parts(a, b, rule)
              n == Parts(c, d, rule)
              top == MaxMoney * RateScale
  <1>1. m \in Nat /\ n \in Nat /\ m <= n
    BY PartsFacts
  <1>2. /\ TokenCost(c, d, rule) = IF n > top THEN Absent ELSE Price(n)
        /\ TokenCost(a, b, rule) = IF m > top THEN Absent ELSE Price(m)
    BY DEF TokenCost, Parts, Price
  <1>3. top \in Nat
    BY PlanConstants
  <1>. HIDE DEF m, n, top
  <1>4. n <= top /\ m <= top
    BY <1>1, <1>2, <1>3
  <1>5. TokenCost(c, d, rule) = Price(n) /\ TokenCost(a, b, rule) = Price(m)
    BY <1>1, <1>2, <1>3, <1>4
  <1>6. Price(n) \in 0 .. MaxMoney /\ Price(m) \in Nat /\ Price(m) <= Price(n)
    BY <1>1, <1>4, PriceFacts DEF top
  <1>. QED  BY <1>5, <1>6 DEF Absent

(* The amount of a budgeted request is the price of its plan under its     *)
(* rule, and zero only where that rule is free.                            *)
LEMMA BudgetFacts ==
    ASSUME NEW plan, NEW rules, BudgetAmount(plan, rules) # Absent,
           rules = {} \/ \E rule : rules = {rule} /\ PricedRule(rule)
    PROVE  \E rule \in rules :
             /\ rules = {rule} /\ PricedRule(rule)
             /\ BudgetAmount(plan, rules) = TokenCost(plan.input, plan.output, rule)
             /\ BudgetAmount(plan, rules) = 0 => rule.inputRate = 0 /\ rule.outputRate = 0
  <1>1. rules # {}
    BY DEF BudgetAmount
  <1>2. PICK rule : rules = {rule} /\ PricedRule(rule)
    BY <1>1
  <1>3. (CHOOSE r \in rules : TRUE) = rule
    BY <1>2
  <1>4. /\ BudgetAmount(plan, rules) = TokenCost(plan.input, plan.output, rule)
        /\ BudgetAmount(plan, rules) = 0 => rule.inputRate = 0 /\ rule.outputRate = 0
    <2>. HIDE DEF TokenCost
    <2>1. BudgetAmount(plan, rules) =
             IF TokenCost(plan.input, plan.output, rule) = 0
                /\ (rule.inputRate # 0 \/ rule.outputRate # 0)
             THEN Absent ELSE TokenCost(plan.input, plan.output, rule)
      BY <1>1, <1>3 DEF BudgetAmount, CalculateReservationCost
    <2>. QED  BY <2>1 DEF Absent
  <1>5. rule \in rules
    BY <1>2
  <1>. QED  BY <1>2, <1>4, <1>5

(* Before a configuration is loaded nothing is held.                       *)
LEMMA PlanInitial ==
    ASSUME PlanInit
    PROVE  PlanInv
  <1>1. DOMAIN table = {}
    BY DEF PlanInit
  <1>2. TableOK
    BY <1>1, FS_EmptySet DEF TableOK
  <1>3. planStep = "load" /\ metadata = {}
    BY DEF PlanInit
  <1>. QED  BY <1>2, <1>3 DEF PlanInv, MetadataOK, TokensHeld, MoneyHeld, AnswerOK, Planned, PlanSteps

(* A table that validation accepts is finite and priced; one it refuses    *)
(* leaves nothing behind.                                                  *)
LEMMA LoadPricingStep ==
    ASSUME PlanInv, NEW rules \in PricingTables, LoadPricing(rules)
    PROVE  PlanInv'
  <1>1. TableOK'
    <2>1. CASE TableValid(rules) /\ table' = CompiledTable(rules)
      <3>1. DOMAIN table' = DOMAIN rules /\ DOMAIN rules = 1 .. Len(rules) /\ Len(rules) \in Nat
        BY <2>1, PlanAssumption DEF CompiledTable
      <3>2. IsFiniteSet(1 .. Len(rules))
        BY <3>1, FS_Interval
      <3>3. \A i \in DOMAIN rules : PricedRule(table'[i])
        BY <2>1 DEF CompiledTable, TableValid, RuleValid, RateValid, PricedRule
      <3>. QED  BY <3>1, <3>2, <3>3 DEF TableOK, PricedRule
    <2>2. CASE table' = table
      BY <2>2 DEF PlanInv, TableOK, PricedRule
    <2>. QED  BY <2>1, <2>2 DEF LoadPricing
  <1>2. /\ planStep = "load" /\ planStep' \in {"arrive", "not started"}
        /\ UNCHANGED <<keyPolicy, request, metadata, tokenPlan, budgetPlan, pricing, cost, reported>>
    BY DEF LoadPricing
  <1>3. MetadataOK'
    BY <1>2 DEF PlanInv, MetadataOK
  <1>. QED  BY <1>1, <1>2, <1>3 DEF PlanInv, TokensHeld, MoneyHeld, AnswerOK, Planned, PlanSteps

(* A request has arrived.                                                  *)
LEMMA ArriveStep ==
    ASSUME PlanInv, NEW policy \in KeyPolicies, NEW incoming \in ModelRequests,
           Arrive(policy, incoming)
    PROVE  PlanInv'
  <1>1. /\ planStep = "arrive" /\ planStep' = "inspect" /\ request' = incoming
        /\ metadata' = metadata /\ table' = table
    BY DEF Arrive
  <1>2. TableOK'
    BY <1>1 DEF PlanInv, TableOK, PricedRule
  <1>3. MetadataOK'
    BY <1>1 DEF PlanInv, MetadataOK
  <1>. QED  BY <1>1, <1>2, <1>3 DEF PlanInv, TokensHeld, MoneyHeld, AnswerOK, Planned, PlanSteps

(* Its metadata are its own fields.                                        *)
LEMMA InspectStep ==
    ASSUME PlanInv, Inspect
    PROVE  PlanInv'
  <1>1. /\ planStep = "inspect" /\ planStep' \in {"refused", "plan"}
        /\ request' = request /\ metadata' = ParseRequestMetadata /\ table' = table
    BY DEF Inspect
  <1>2. TableOK'
    BY <1>1 DEF PlanInv, TableOK, PricedRule
  <1>3. MetadataOK'
    BY <1>1 DEF PlanInv, MetadataOK, ParseRequestMetadata
  <1>. QED  BY <1>1, <1>2, <1>3 DEF PlanInv, TokensHeld, MoneyHeld, AnswerOK, Planned, PlanSteps

(* An admitted request holds a usable plan and its price.                  *)
LEMMA MakePlansStep ==
    ASSUME PlanInv, MakePlans
    PROVE  PlanInv'
  <1>. DEFINE budgeted == keyPolicy.budget /\ request.path # "models"
              amount == BudgetAmount(MakeTokenPlan, RulesOfModel)
  <1>1. /\ planStep = "plan" /\ planStep' \in {"refused", "admitted"}
        /\ UNCHANGED <<table, keyPolicy, request, metadata, cost, reported>>
    BY DEF MakePlans
  <1>2. TableOK'
    BY <1>1 DEF PlanInv, TableOK, PricedRule
  <1>3. MetadataOK'
    BY <1>1 DEF PlanInv, MetadataOK
  <1>4. AnswerOK' /\ planStep' \in PlanSteps
    BY <1>1 DEF AnswerOK, PlanSteps
  <1>5. CASE planStep' = "refused"
    BY <1>2, <1>3, <1>4, <1>5 DEF PlanInv, TokensHeld, MoneyHeld, Planned
  <1>6. CASE planStep' = "admitted"
    <2>1. /\ ~(budgeted /\ (metadata = {} \/ amount = Absent))
          /\ tokenPlan' = IF keyPolicy.tokens \/ budgeted THEN MakeTokenPlan ELSE NoPlan
          /\ budgetPlan' = IF budgeted THEN amount ELSE Absent
          /\ pricing' = RulesOfModel
      BY <1>6 DEF MakePlans
    <2>2. request.path # "models" =>
             PlanUsable(MakeTokenPlan) /\ (metadata = {} => MakeTokenPlan = Fallbacks)
      <3>1. request \in ModelRequests /\ MetadataOK
        BY <1>1 DEF PlanInv, MetadataOK
      <3>. QED  BY <3>1, TokenPlanFacts
    <2>3. request.path # "models" /\ (keyPolicy.tokens \/ keyPolicy.budget) => tokenPlan' = MakeTokenPlan
      BY <2>1
    <2>4. TokensHeld'
      BY <1>1, <2>2, <2>3 DEF TokensHeld, PlanUsable, Fallbacks
    <2>5. MoneyHeld'
      <3>1. ASSUME budgeted
            PROVE  PlanUsable(tokenPlan)' /\ \E rule \in pricing' : HoldsPrice(rule)'
        <4>1. tokenPlan' = MakeTokenPlan /\ budgetPlan' = amount /\ amount # Absent
          BY <2>1, <3>1
        <4>2. PlanUsable(tokenPlan)'
          BY <4>1, <2>2, <3>1 DEF PlanUsable
        <4>3. RulesOfModel = {} \/ \E rule : RulesOfModel = {rule} /\ PricedRule(rule)
          BY RulesFacts DEF PlanInv
        <4>. HIDE DEF budgeted
        <4>4. PICK rule \in RulesOfModel :
                /\ RulesOfModel = {rule} /\ PricedRule(rule)
                /\ amount = TokenCost(MakeTokenPlan.input, MakeTokenPlan.output, rule)
                /\ amount = 0 => rule.inputRate = 0 /\ rule.outputRate = 0
          BY <4>1, <4>3, BudgetFacts
        <4>. HIDE DEF amount
        <4>5. HoldsPrice(rule)'
          BY <2>1, <4>1, <4>4 DEF HoldsPrice, PricedRule, TokenCost
        <4>. QED  BY <2>1, <4>2, <4>4, <4>5
      <3>. QED  BY <3>1, <1>1 DEF MoneyHeld
    <2>. QED  BY <1>2, <1>3, <1>4, <2>4, <2>5 DEF PlanInv
  <1>. QED  BY <1>1, <1>5, <1>6

(* The reported usage is priced by the rule that was selected.             *)
LEMMA ReportStep ==
    ASSUME PlanInv, NEW input \in TokenCounts \cup {Absent}, NEW output \in TokenCounts \cup {Absent},
           Report(input, output)
    PROVE  PlanInv'
  <1>1. /\ planStep = "admitted" /\ planStep' = "answered"
        /\ reported' = [input |-> input, output |-> output]
        /\ cost' = CalculateActualCost(reported')
        /\ UNCHANGED <<table, keyPolicy, request, metadata, tokenPlan, budgetPlan, pricing>>
    BY DEF Report
  <1>2. TableOK'
    BY <1>1 DEF PlanInv, TableOK, PricedRule
  <1>3. MetadataOK'
    BY <1>1 DEF PlanInv, MetadataOK
  <1>4. AnswerOK'
    <2>1. \A n \in TokenCounts \cup {Absent} : n \in Nat \/ n = -1
      BY PlanAssumption DEF Absent
    <2>2. CalculateActualCost(reported') = CalculateActualCost(reported)'
      BY <1>1 DEF CalculateActualCost, TokenCost
    <2>. QED  BY <1>1, <2>1, <2>2 DEF AnswerOK, Counted, Absent
  <1>5. TokensHeld'
    BY <1>1 DEF PlanInv, TokensHeld, Planned, PlanUsable, Fallbacks
  <1>6. MoneyHeld'
    BY <1>1 DEF PlanInv, MoneyHeld, Planned, PlanUsable, HoldsPrice, PricedRule, TokenCost
  <1>. QED  BY <1>1, <1>2, <1>3, <1>4, <1>5, <1>6 DEF PlanInv, PlanSteps

(* The inductive invariant holds of every state.                           *)
THEOREM PlanInvariant == PlanSpec => []PlanInv
  <1>1. PlanInit => PlanInv
    BY PlanInitial
  <1>2. PlanInv /\ [PlanNext]_planVars => PlanInv'
    <2>. SUFFICES ASSUME PlanInv, [PlanNext]_planVars PROVE PlanInv'
      OBVIOUS
    <2>1. CASE UNCHANGED planVars
      BY <2>1 DEF planVars, PlanInv, TableOK, PricedRule, MetadataOK, TokensHeld, MoneyHeld, AnswerOK,
                  Planned, PlanUsable, Fallbacks, HoldsPrice, TokenCost, Counted, CalculateActualCost
    <2>. QED  BY <2>1, LoadPricingStep, ArriveStep, InspectStep, MakePlansStep, ReportStep DEF PlanNext
  <1>. QED  BY <1>1, <1>2, PTL DEF PlanSpec

(* Every admitted request holds the tokens and the money it needs.         *)
THEOREM ReservationsCover == PlanSpec => []ReservationCovers
  <1>1. ASSUME PlanInv PROVE ReservationCovers
    <2>. SUFFICES ASSUME Planned PROVE TokensReserved /\ MoneyReserved
      BY DEF ReservationCovers
    <2>1. TokensReserved
      BY <1>1, PlanConstants DEF PlanInv, TokensHeld, TokensReserved, PlanUsable, Fallbacks
    <2>2. ASSUME keyPolicy.budget, request.path # "models"
          PROVE  /\ budgetPlan \in 0 .. MaxMoney
                 /\ budgetPlan = 0 => \A rule \in pricing : rule.inputRate = 0 /\ rule.outputRate = 0
                 /\ /\ planStep = "answered" /\ Absent \notin {reported.input, reported.output}
                    /\ reported.input <= tokenPlan.input /\ reported.output <= tokenPlan.output
                    => cost # Absent /\ cost <= budgetPlan
      <3>1. PlanUsable(tokenPlan) /\ \E rule \in pricing : HoldsPrice(rule)
        BY <1>1, <2>2 DEF PlanInv, MoneyHeld
      <3>2. PICK rule \in pricing : HoldsPrice(rule)
        BY <3>1
      <3>3. /\ pricing = {rule} /\ PricedRule(rule)
            /\ budgetPlan = TokenCost(tokenPlan.input, tokenPlan.output, rule) /\ budgetPlan # Absent
            /\ budgetPlan = 0 => rule.inputRate = 0 /\ rule.outputRate = 0
        BY <3>2 DEF HoldsPrice
      <3>4. tokenPlan.input \in Nat /\ tokenPlan.output \in Nat
        BY <3>1 DEF PlanUsable
      <3>5. budgetPlan \in 0 .. MaxMoney
        <4>1. 0 <= tokenPlan.input /\ 0 <= tokenPlan.output
          BY <3>4
        <4>. HIDE DEF TokenCost
        <4>. QED  BY <3>3, <3>4, <4>1, CostFacts
      <3>6. ASSUME planStep = "answered", Absent \notin {reported.input, reported.output},
                   reported.input <= tokenPlan.input, reported.output <= tokenPlan.output
            PROVE  cost # Absent /\ cost <= budgetPlan
        <4>1. /\ reported.input \in Nat /\ reported.output \in Nat
              /\ cost = CalculateActualCost(reported)
          BY <1>1, <3>6 DEF PlanInv, AnswerOK, Counted
        <4>2. (CHOOSE r \in pricing : TRUE) = rule
          BY <3>3
        <4>3. cost = TokenCost(reported.input, reported.output, rule)
          BY <4>1, <4>2, <3>3, <3>6 DEF CalculateActualCost
        <4>. HIDE DEF TokenCost
        <4>. QED  BY <4>1, <4>3, <3>3, <3>4, <3>6, CostFacts
      <3>. QED  BY <3>3, <3>5, <3>6
    <2>. QED  BY <2>1, <2>2 DEF MoneyReserved
  <1>2. PlanInv => ReservationCovers
    BY <1>1
  <1>. QED  BY <1>2, PlanInvariant, PTL
=============================================================================
