---------------------------- MODULE SinkRecovery ----------------------------
(***************************************************************************)
(* A SinkRecovery object under the most general caller its class comment    *)
(* allows: calls are serialised (every caller holds the sink's lock), a     *)
(* reopen is reported in the same critical section it was granted in, and   *)
(* everything else comes in any order.  In particular a rescan may be       *)
(* reported late, twice or never, and a configure() or the write() of a     *)
(* still dead stream may come between the rescan and its report.            *)
(***************************************************************************)
EXTENDS SinkRecoveryOps

CONSTANT MaxNow   \* bound of the clock

ASSUME MaxNowAssumption == MaxNow \in Nat

VARIABLES
    recovery,     \* the object
    now,          \* the monotonic clock the main loop reads
    handed_at,    \* history: when rescan_due() last said yes (NOT_STAMPED: never)
    report        \* history: what became of that attempt in the current stream

vars == <<recovery, now, handed_at, report>>

Init ==
    /\ recovery = fresh_recovery
    /\ now = 0
    /\ handed_at = NOT_STAMPED
    /\ report = "none"

-----------------------------------------------------------------------------
\* write() finds the stream dead and asks; a grant is reported at once.
Reopen(recovered) ==
    /\ recovery' = IF reopen_due(recovery)
                   THEN reopen_done(after_reopen_due(recovery), recovered)
                   ELSE after_reopen_due(recovery)
    /\ UNCHANGED <<now, handed_at, report>>

\* The main loop's tick asks, behind pending(), whether to make the second attempt.
Poll ==
    /\ pending(recovery)
    /\ recovery' = after_rescan_due(recovery, now)
    /\ IF rescan_due(recovery, now)
       THEN handed_at' = now /\ report' = "none"
       ELSE UNCHANGED <<handed_at, report>>
    /\ UNCHANGED now

\* A report, whether or not an attempt is outstanding.
Report(recovered) ==
    /\ recovery' = rescan_done(recovery, recovered)
    /\ report' = IF recovery.rescan_in_flight
                 THEN IF recovered THEN "recovered" ELSE "failed"
                 ELSE report
    /\ UNCHANGED <<now, handed_at>>

\* configure() really got a stream running.
Reset ==
    /\ recovery' = fresh_recovery
    /\ report' = "none"
    /\ UNCHANGED <<now, handed_at>>

Tick ==
    /\ now < MaxNow
    /\ now' = now + 1
    /\ UNCHANGED <<recovery, handed_at, report>>

Next ==
    \/ \E recovered \in BOOLEAN : Reopen(recovered)
    \/ Poll
    \/ \E recovered \in BOOLEAN : Report(recovered)
    \/ Reset
    \/ Tick

Spec == Init /\ [][Next]_vars

\* main()'s loop ticks every sink for as long as the program runs, and time passes.
FairSpec == Spec /\ WF_vars(Poll) /\ WF_vars(Tick)

-----------------------------------------------------------------------------
\* The fields and histories have their types.
TypeOK ==
    /\ recovery \in Recovery
    /\ now \in Nat
    /\ handed_at \in Nat \cup {NOT_STAMPED}
    /\ report \in {"none", "failed", "recovered"}

\* rescan_due() says yes at most SINK_RESCAN_ATTEMPTS times per configured
\* stream.  No guard of it looks at the count: only rescan_done() does, so the
\* bound rests on no path re-arming an attempt behind its back.
AttemptsWithinBudget == recovery.rescan_attempts <= SINK_RESCAN_ATTEMPTS

\* While an attempt is out, or once the second attempt is retired, nothing is
\* owed: a write() that keeps finding the stream dead cannot re-arm it.
NothingOwedOnceOut ==
    recovery.rescan_in_flight \/ recovery.rescan_spent => ~ pending(recovery)

\* What holds of a stream's recovery at every moment, whoever calls what and when: it
\* stays within its budget, and what is out or retired is not owed again.
KeepsItsBudget == TypeOK /\ AttemptsWithinBudget /\ NothingOwedOnceOut

\* What the delays are meant to be: each twice the one before, up to the ceiling.
ladder[n \in Nat] ==
    IF n = 0 THEN SINK_RESCAN_DELAY_MS
    ELSE IF 2 * ladder[n - 1] <= SINK_RESCAN_MAX_DELAY_MS
         THEN 2 * ladder[n - 1]
         ELSE SINK_RESCAN_MAX_DELAY_MS

HandsOut ==
    /\ recovery'.rescan_attempts = recovery.rescan_attempts + 1
    /\ recovery'.rescan_in_flight

\* "Cycles are floored this far apart whatever the server does": two attempts
\* are never closer than SINK_RESCAN_DELAY_MS, even when the stream between
\* them was reconfigured and its budget refilled.
RescansSpaced ==
    [][HandsOut /\ handed_at # NOT_STAMPED
         => now >= handed_at + SINK_RESCAN_DELAY_MS]_vars

\* A retry waits longer than the attempt before it did: the n-th retry of one
\* stream comes at least the n-th rung of the ladder after the attempt before.
RetriesBackOff ==
    [][HandsOut /\ recovery.rescan_attempts > 0
         => now >= handed_at + ladder[recovery.rescan_attempts]]_vars

\* "Never twice without a rescan_done(false) in between", so a caller that
\* reports nothing gets exactly one attempt per stream.
RetryNeedsFailure ==
    [][HandsOut /\ recovery.rescan_attempts > 0 => report = "failed"]_vars

\* What holds of every attempt handed out: it is earned by a failure, it is no closer to
\* the one before than the floor between two streams', and no closer than the ladder
\* says within one.
AttemptsPaced == RescansSpaced /\ RetriesBackOff /\ RetryNeedsFailure

\* An escalation is not forgotten and its deadline does not slip: once stamped,
\* with the deadline within the clock's bound, the attempt is made, or a stream
\* that came up makes it moot.
OwedIsAttempted ==
    /\ pending(recovery)
    /\ recovery.rescan_at_ms # NOT_STAMPED
    /\ recovery.rescan_at_ms <= MaxNow
    ~> ~ pending(recovery)
=============================================================================
