----------------------------- MODULE WriteBehind -----------------------------
(***************************************************************************)
(* What the delta accumulators of internal/storage promise the limiters:   *)
(* accepted totals are made durable behind their back.                     *)
(*                                                                         *)
(* The log holds the totals after every accepted delta, oldest first.  The *)
(* durable totals are always those of one moment of the log, for all the   *)
(* buckets at once, and move forward in it only.  A crash loses the part   *)
(* of the log that was not durable, and nothing else.                      *)
(***************************************************************************)
EXTENDS Integers, Sequences

CONSTANT Totals     \* the totals a moment of the log may hold

VARIABLES
    log,      \* accepted totals, a nonempty sequence
    durable,  \* the totals on disk
    at        \* the moment of the log that is on disk

ledgerVars == <<log, durable, at>>

Init ==
    /\ log \in {<<t>> : t \in Totals}
    /\ at = 1
    /\ durable = log[1]

Accept ==
    /\ \E t \in Totals : log' = Append(log, t)
    /\ UNCHANGED <<durable, at>>

Persist ==
    /\ \E i \in at + 1 .. Len(log) : at' = i /\ durable' = log[i]
    /\ UNCHANGED log

Crash ==
    /\ log' = SubSeq(log, 1, at)
    /\ UNCHANGED <<durable, at>>

Next == Accept \/ Persist \/ Crash

Spec == Init /\ [][Next]_ledgerVars
=============================================================================
