----------------------------- MODULE SinkProofs -----------------------------
(***************************************************************************)
(* For every delay, ceiling, budget and clock bound: the recovery policy's  *)
(* types, the attempt budget, and the spacing and back-off of the second    *)
(* attempts.  And for every format, volume, length of a ramp and size of a  *)
(* queue: what the PulseAudio, PipeWire and ALSA sinks promise of what they *)
(* play, of the gain they play it at and of when a stream is open.          *)
(***************************************************************************)
EXTENDS SinkRecovery, Outputs, FirstOrderInduction, SequenceTheorems, TLAPS

-----------------------------------------------------------------------------
(* The recursive functions satisfy the equations that define them.          *)

\* The loop's delay starts at the first delay and doubles until the ceiling.
LEMMA DoubledDef ==
    /\ doubled \in [Nat -> Nat]
    /\ doubled[0] = SINK_RESCAN_DELAY_MS
    /\ \A n \in Nat : doubled[n + 1] = IF doubled[n] < SINK_RESCAN_MAX_DELAY_MS
                                       THEN 2 * doubled[n]
                                       ELSE doubled[n]
<1>1. doubled = Doubling(SINK_RESCAN_DELAY_MS, SINK_RESCAN_MAX_DELAY_MS)
  BY DEF doubled, Doubling
<1>2. SINK_RESCAN_DELAY_MS \in Nat /\ SINK_RESCAN_MAX_DELAY_MS \in Nat
  BY RecoveryConstants
<1>. DEFINE f == Doubling(SINK_RESCAN_DELAY_MS, SINK_RESCAN_MAX_DELAY_MS)
<1>3. /\ f \in [Nat -> Nat]
      /\ f[0] = SINK_RESCAN_DELAY_MS
      /\ \A n \in Nat : f[n + 1] = IF f[n] < SINK_RESCAN_MAX_DELAY_MS THEN 2 * f[n] ELSE f[n]
  BY <1>2, DoublingDelay, Zenon
<1>4. doubled = f
  BY <1>1
<1>. HIDE DEF f
<1>. QED
  BY <1>3, <1>4

\* The ladder starts at the first delay; each rung is twice the last, up to the ceiling.
LEMMA LadderDef ==
    /\ ladder \in [Nat -> Nat]
    /\ ladder[0] = SINK_RESCAN_DELAY_MS
    /\ \A n \in Nat : ladder[n + 1] = IF 2 * ladder[n] <= SINK_RESCAN_MAX_DELAY_MS
                                      THEN 2 * ladder[n]
                                      ELSE SINK_RESCAN_MAX_DELAY_MS
<1>. DEFINE step == [x \in Nat |-> IF 2 * x <= SINK_RESCAN_MAX_DELAY_MS
                               THEN 2 * x ELSE SINK_RESCAN_MAX_DELAY_MS]
            body(f) == [n \in Nat |-> IF n = 0 THEN SINK_RESCAN_DELAY_MS
                                      ELSE IF 2 * f[n - 1] <= SINK_RESCAN_MAX_DELAY_MS
                                           THEN 2 * f[n - 1]
                                           ELSE SINK_RESCAN_MAX_DELAY_MS]
<1>1. step \in [Nat -> Nat] /\ SINK_RESCAN_DELAY_MS \in Nat
  BY RecoveryConstants
<1>2. PICK f \in [Nat -> Nat] : /\ f[0] = SINK_RESCAN_DELAY_MS
                                /\ \A n \in Nat : f[n + 1] = step[f[n]]
  <2>. HIDE DEF step
  <2>. QED
    BY <1>1, PrimitiveRecursion
<1>3. ASSUME NEW n \in Nat
      PROVE  f[n] = body(f)[n]
  <2>1. CASE n = 0
    BY <1>2, <2>1
  <2>2. CASE n # 0
    <3>1. n - 1 \in Nat /\ (n - 1) + 1 = n
      BY <2>2
    <3>2. f[n] = step[f[n - 1]] /\ f[n - 1] \in Nat
      BY <1>2, <3>1
    <3>. QED
      BY <2>2, <3>2
  <2>. QED
    BY <2>1, <2>2
<1>4. f = body(f)
  BY <1>3
<1>5. ladder = body(ladder)
  BY <1>4 DEF ladder
<1>6. ladder[0] = SINK_RESCAN_DELAY_MS
  BY <1>5
<1>7. ASSUME NEW n \in Nat
      PROVE  ladder[n + 1] = IF 2 * ladder[n] <= SINK_RESCAN_MAX_DELAY_MS
                             THEN 2 * ladder[n]
                             ELSE SINK_RESCAN_MAX_DELAY_MS
  <2>1. n + 1 \in Nat /\ n + 1 # 0 /\ (n + 1) - 1 = n
    OBVIOUS
  <2>. QED
    BY <1>5, <2>1
<1>8. \A n \in Nat : ladder[n] \in Nat
  <2>. DEFINE T == {n \in Nat : ladder[n] \in Nat}
  <2>1. 0 \in T
    BY <1>1, <1>6
  <2>2. ASSUME NEW n \in Nat, n \in T
        PROVE  n + 1 \in T
    BY <1>7, <2>2, RecoveryConstants
  <2>. HIDE DEF T
  <2>3. Nat \subseteq T
    BY <2>1, <2>2, InductionOverNat
  <2>. QED
    BY <2>3 DEF T
<1>. QED
  BY <1>5, <1>6, <1>7, <1>8

\* The loop of the code climbs the ladder: capping the loop's delay at its end
\* gives what capping it at every turn gives.
LEMMA DelayIsLadder ==
    \A n \in Nat : delay_for_(n) = ladder[n]
<1>. DEFINE T == {n \in Nat : \/ doubled[n] = ladder[n]
                            \/ /\ doubled[n] >= SINK_RESCAN_MAX_DELAY_MS
                               /\ ladder[n] = SINK_RESCAN_MAX_DELAY_MS}
<1>1. 0 \in T
  BY DoubledDef, LadderDef
<1>2. ASSUME NEW n \in Nat, n \in T
      PROVE  n + 1 \in T
  <2>1. doubled[n] \in Nat /\ ladder[n] \in Nat
    BY DoubledDef, LadderDef
  <2>2. doubled[n + 1] = IF doubled[n] < SINK_RESCAN_MAX_DELAY_MS
                         THEN 2 * doubled[n]
                         ELSE doubled[n]
    BY DoubledDef
  <2>3. ladder[n + 1] = IF 2 * ladder[n] <= SINK_RESCAN_MAX_DELAY_MS
                        THEN 2 * ladder[n]
                        ELSE SINK_RESCAN_MAX_DELAY_MS
    BY LadderDef
  <2>. QED
    BY <1>2, <2>1, <2>2, <2>3, RecoveryConstants
<1>. HIDE DEF T
<1>3. Nat \subseteq T
  BY <1>1, <1>2, InductionOverNat
<1>4. ASSUME NEW n \in Nat
      PROVE  ladder[n] <= SINK_RESCAN_MAX_DELAY_MS
  <2>1. CASE n = 0
    BY <2>1, LadderDef, RecoveryConstants
  <2>2. CASE n # 0
    <3>1. n - 1 \in Nat /\ (n - 1) + 1 = n
      BY <2>2
    <3>2. /\ ladder[n - 1] \in Nat
          /\ ladder[n] = IF 2 * ladder[n - 1] <= SINK_RESCAN_MAX_DELAY_MS
                         THEN 2 * ladder[n - 1]
                         ELSE SINK_RESCAN_MAX_DELAY_MS
      BY <3>1, LadderDef
    <3>. QED
      BY <3>2, RecoveryConstants
  <2>. QED
    BY <2>1, <2>2
<1>5. ASSUME NEW n \in Nat
      PROVE  delay_for_(n) = ladder[n]
  <2>1. n \in T
    BY <1>3
  <2>2. doubled[n] \in Nat /\ ladder[n] \in Nat
    BY DoubledDef, LadderDef
  <2>. QED
    BY <1>4, <2>1, <2>2, RecoveryConstants DEF T, delay_for_
<1>. QED
  BY <1>5

\* Every delay is between the first delay and the ceiling.
LEMMA DelayBounds ==
    \A n \in Nat : /\ delay_for_(n) \in Nat
                   /\ SINK_RESCAN_DELAY_MS <= delay_for_(n)
                   /\ delay_for_(n) <= SINK_RESCAN_MAX_DELAY_MS
<1>. DEFINE T == {n \in Nat : SINK_RESCAN_DELAY_MS <= doubled[n]}
<1>1. 0 \in T
  BY DoubledDef, RecoveryConstants
<1>2. ASSUME NEW n \in Nat, n \in T
      PROVE  n + 1 \in T
  <2>1. doubled[n] \in Nat
    BY DoubledDef
  <2>. QED
    BY <1>2, <2>1, DoubledDef, RecoveryConstants
<1>. HIDE DEF T
<1>3. Nat \subseteq T
  BY <1>1, <1>2, InductionOverNat
<1>4. ASSUME NEW n \in Nat
      PROVE  SINK_RESCAN_DELAY_MS <= doubled[n] /\ doubled[n] \in Nat
  BY <1>3, DoubledDef DEF T
<1>. QED
  BY <1>4, RecoveryConstants DEF delay_for_

-----------------------------------------------------------------------------
(* The inductive invariant.                                                 *)

\* The second attempt is neither out nor retired.
InHand(r) == ~ r.rescan_in_flight /\ ~ r.rescan_spent

\* What has to hold for the budget: an attempt in hand is an attempt left, and
\* none is in hand after one that did not fail.
BudgetInv ==
    /\ ~ (recovery.rescan_in_flight /\ recovery.rescan_spent)
    /\ recovery.rescan_attempts <= SINK_RESCAN_ATTEMPTS
    /\ InHand(recovery) => recovery.rescan_attempts < SINK_RESCAN_ATTEMPTS
    /\ InHand(recovery) /\ recovery.rescan_attempts > 0 => report = "failed"

\* What has to hold for the spacing: an escalation never finds a deadline left
\* over from an earlier attempt, and a deadline is one delay past that attempt.
DeadlineInv ==
    /\ handed_at <= now
    /\ InHand(recovery) /\ ~ pending(recovery)
         => recovery.rescan_at_ms = NOT_STAMPED
    /\ pending(recovery) /\ recovery.rescan_at_ms # NOT_STAMPED
         => recovery.rescan_at_ms >= handed_at + delay_for_(recovery.rescan_attempts)

IInv == TypeOK /\ NothingOwedOnceOut /\ BudgetInv /\ DeadlineInv

\* A new object satisfies it.
LEMMA InitIInv == Init => IInv
BY RecoveryConstants
DEF Init, IInv, TypeOK, NothingOwedOnceOut, BudgetInv, DeadlineInv, InHand, pending,
    fresh_recovery, Recovery, NOT_STAMPED

\* Every call keeps it.
LEMMA NextIInv == IInv /\ [Next]_vars => IInv'
<1>. SUFFICES ASSUME IInv, [Next]_vars
              PROVE  IInv'
  OBVIOUS
<1>. USE DEF NOT_STAMPED
<1>0. /\ TypeOK /\ NothingOwedOnceOut /\ BudgetInv /\ DeadlineInv
      /\ recovery.rescan_attempts \in Nat
      /\ delay_for_(recovery.rescan_attempts) \in Nat
  BY DelayBounds DEF IInv, TypeOK, Recovery
<1>1. ASSUME NEW recovered \in BOOLEAN, Reopen(recovered)
      PROVE  IInv'
  <2>1. \/ recovery' = recovery
        \/ recovery' = [recovery EXCEPT !.reopen_spent = TRUE]
        \/ InHand(recovery) /\ recovery' = [recovery EXCEPT !.rescan_owed = TRUE]
        \/ /\ InHand(recovery)
           /\ recovery' = [[recovery EXCEPT !.reopen_spent = TRUE] EXCEPT !.rescan_owed = TRUE]
    BY <1>0, <1>1
    DEF Reopen, reopen_due, after_reopen_due, reopen_done, escalate_, InHand, TypeOK, Recovery
  <2>. QED
    BY <1>0, <1>1, <2>1
    DEF Reopen, IInv, TypeOK, NothingOwedOnceOut, BudgetInv, DeadlineInv, InHand, pending,
        Recovery
<1>2. CASE Poll
  <2>1. CASE rescan_due(recovery, now)
    <3>1. /\ recovery' = [recovery EXCEPT !.rescan_attempts  = @ + 1,
                                          !.rescan_in_flight = TRUE,
                                          !.rescan_owed      = FALSE]
          /\ handed_at' = now /\ now' = now /\ report' = "none"
      BY <1>2, <2>1 DEF Poll, after_rescan_due
    <3>2. InHand(recovery) /\ recovery.rescan_attempts < SINK_RESCAN_ATTEMPTS
      BY <1>0, <1>2 DEF Poll, NothingOwedOnceOut, BudgetInv, InHand
    <3>3. /\ recovery'.rescan_attempts = recovery.rescan_attempts + 1
          /\ recovery'.rescan_in_flight = TRUE
          /\ recovery'.rescan_owed = FALSE
          /\ recovery'.rescan_spent = recovery.rescan_spent
      BY <1>0, <3>1 DEF TypeOK, Recovery
    <3>4. TypeOK'
      <4>1. recovery.rescan_attempts + 1 \in Nat
        BY <1>0
      <4>2. recovery' = [recovery EXCEPT !.rescan_attempts  = recovery.rescan_attempts + 1,
                                         !.rescan_in_flight = TRUE,
                                         !.rescan_owed      = FALSE]
        BY <3>1
      <4>3. recovery' \in Recovery
        <5>. DEFINE attempts == recovery.rescan_attempts + 1
        <5>1. attempts \in Nat /\ recovery \in Recovery
          BY <1>0, <4>1 DEF TypeOK
        <5>2. recovery' = [recovery EXCEPT !.rescan_attempts  = attempts,
                                           !.rescan_in_flight = TRUE,
                                           !.rescan_owed      = FALSE]
          BY <4>2
        <5>. HIDE DEF attempts
        <5>. QED
          BY <5>1, <5>2 DEF Recovery
      <4>. QED
        BY <1>0, <3>1, <4>3 DEF TypeOK
    <3>5. NothingOwedOnceOut'
      BY <3>3 DEF NothingOwedOnceOut, pending
    <3>6. BudgetInv'
      BY <1>0, <3>2, <3>3, RecoveryConstants DEF BudgetInv, InHand
    <3>7. DeadlineInv'
      BY <1>0, <3>1, <3>3 DEF TypeOK, DeadlineInv, InHand, pending
    <3>. QED
      BY <3>4, <3>5, <3>6, <3>7 DEF IInv
  <2>2. CASE ~ rescan_due(recovery, now) /\ recovery.rescan_at_ms = NOT_STAMPED
    <3>1. /\ recovery' = [recovery EXCEPT !.rescan_at_ms =
                              now + delay_for_(recovery.rescan_attempts)]
          /\ pending(recovery) /\ UNCHANGED <<now, handed_at, report>>
      BY <1>2, <2>2 DEF Poll, after_rescan_due, pending
    <3>2. recovery'.rescan_at_ms = now + delay_for_(recovery.rescan_attempts)
      BY <1>0, <3>1 DEF TypeOK, Recovery
    <3>3. delay_for_(recovery'.rescan_attempts) = delay_for_(recovery.rescan_attempts)
      BY <1>0, <3>1 DEF TypeOK, Recovery
    <3>4. TypeOK'
      BY <1>0, <3>1 DEF TypeOK, Recovery
    <3>5. NothingOwedOnceOut' /\ BudgetInv'
      BY <1>0, <3>1
      DEF TypeOK, NothingOwedOnceOut, BudgetInv, InHand, pending, Recovery
    <3>6. DeadlineInv'
      BY <1>0, <3>1, <3>2, <3>3
      DEF TypeOK, NothingOwedOnceOut, DeadlineInv, InHand, pending, Recovery
    <3>. QED
      BY <3>4, <3>5, <3>6 DEF IInv
  <2>3. CASE ~ rescan_due(recovery, now) /\ recovery.rescan_at_ms # NOT_STAMPED
    <3>1. UNCHANGED vars
      BY <1>2, <2>3 DEF Poll, after_rescan_due, vars
    <3>. QED
      BY <1>0, <3>1
      DEF vars, IInv, TypeOK, NothingOwedOnceOut, BudgetInv, DeadlineInv, InHand, pending
  <2>. QED
    BY <2>1, <2>2, <2>3
<1>3. ASSUME NEW recovered \in BOOLEAN, Report(recovered)
      PROVE  IInv'
  <2>1. CASE ~ recovery.rescan_in_flight
    <3>1. UNCHANGED vars
      BY <1>3, <2>1 DEF Report, rescan_done, vars
    <3>. QED
      BY <1>0, <3>1
      DEF vars, IInv, TypeOK, NothingOwedOnceOut, BudgetInv, DeadlineInv, InHand, pending
  <2>2. CASE /\ recovery.rescan_in_flight
             /\ recovered \/ recovery.rescan_attempts >= SINK_RESCAN_ATTEMPTS
    <3>1. recovery' = [recovery EXCEPT !.rescan_in_flight = FALSE,
                                       !.rescan_spent     = TRUE,
                                       !.rescan_owed      = FALSE]
      BY <1>3, <2>2 DEF Report, rescan_done
    <3>. QED
      BY <1>0, <1>3, <2>2, <3>1
      DEF Report, IInv, TypeOK, NothingOwedOnceOut, BudgetInv, DeadlineInv, InHand, pending,
          Recovery
  <2>3. CASE /\ recovery.rescan_in_flight
             /\ ~ (recovered \/ recovery.rescan_attempts >= SINK_RESCAN_ATTEMPTS)
    <3>1. recovery' = [recovery EXCEPT !.rescan_in_flight = FALSE,
                                       !.rescan_at_ms     = NOT_STAMPED,
                                       !.rescan_owed      = TRUE]
      BY <1>3, <2>3 DEF Report, rescan_done
    <3>2. /\ recovery'.rescan_in_flight = FALSE
          /\ recovery'.rescan_owed = TRUE
          /\ recovery'.rescan_at_ms = NOT_STAMPED
          /\ recovery'.rescan_spent = recovery.rescan_spent
          /\ recovery'.rescan_attempts = recovery.rescan_attempts
      BY <1>0, <3>1 DEF TypeOK, Recovery
    <3>3. /\ report' = "failed" /\ now' = now /\ handed_at' = handed_at
      BY <1>3, <2>3 DEF Report
    <3>4. ~ recovery.rescan_spent
      BY <1>0, <2>3 DEF BudgetInv
    <3>5. recovery.rescan_attempts < SINK_RESCAN_ATTEMPTS
      BY <1>0, <2>3, RecoveryConstants
    <3>6. TypeOK'
      BY <1>0, <3>1, <3>3 DEF TypeOK, Recovery
    <3>7. NothingOwedOnceOut'
      BY <3>2, <3>4 DEF NothingOwedOnceOut, pending
    <3>8. BudgetInv'
      BY <1>0, <3>2, <3>3, <3>4, <3>5 DEF BudgetInv, InHand
    <3>9. DeadlineInv'
      BY <1>0, <3>2, <3>3 DEF TypeOK, DeadlineInv, InHand, pending
    <3>. QED
      BY <3>6, <3>7, <3>8, <3>9 DEF IInv
  <2>. QED
    BY <2>1, <2>2, <2>3
<1>4. CASE Reset
  BY <1>0, <1>4, RecoveryConstants
  DEF Reset, fresh_recovery, IInv, TypeOK, NothingOwedOnceOut, BudgetInv, DeadlineInv, InHand,
      pending, Recovery
<1>5. CASE Tick
  BY <1>0, <1>5
  DEF Tick, IInv, TypeOK, NothingOwedOnceOut, BudgetInv, DeadlineInv, InHand, pending
<1>6. CASE UNCHANGED vars
  BY <1>0, <1>6
  DEF vars, IInv, TypeOK, NothingOwedOnceOut, BudgetInv, DeadlineInv, InHand, pending
<1>. QED
  BY <1>1, <1>2, <1>3, <1>4, <1>5, <1>6 DEF Next

\* The inductive invariant holds throughout.
LEMMA Safe == Spec => []IInv
BY InitIInv, NextIInv, PTL DEF Spec

-----------------------------------------------------------------------------
\* The fields and histories keep their types.
THEOREM TypeCorrect == Spec => []TypeOK
<1>1. IInv => TypeOK
  BY DEF IInv
<1>. QED
  BY <1>1, Safe, PTL

\* At most SINK_RESCAN_ATTEMPTS second attempts per configured stream, whatever
\* the caller reports, repeats or leaves out.
THEOREM BudgetRespected == Spec => []AttemptsWithinBudget
<1>1. IInv => AttemptsWithinBudget
  BY DEF IInv, BudgetInv, AttemptsWithinBudget
<1>. QED
  BY <1>1, Safe, PTL

\* A dead stream's writes cannot re-arm an attempt that is out or retired.
THEOREM NothingRearmed == Spec => []NothingOwedOnceOut
<1>1. IInv => NothingOwedOnceOut
  BY DEF IInv
<1>. QED
  BY <1>1, Safe, PTL

\* A step that hands an attempt out is a poll at or past a stamped deadline.
LEMMA HandsOutPolls ==
    ASSUME IInv, [Next]_vars, HandsOut
    PROVE  /\ pending(recovery)
           /\ recovery.rescan_at_ms # NOT_STAMPED
           /\ now >= recovery.rescan_at_ms
<1>. USE DEF NOT_STAMPED
<1>0. recovery \in Recovery /\ recovery.rescan_attempts \in Nat
  BY DEF IInv, TypeOK, Recovery
<1>1. ASSUME recovery'.rescan_attempts = recovery.rescan_attempts
      PROVE  FALSE
  BY <1>0, <1>1 DEF HandsOut
<1>2. ASSUME NEW recovered \in BOOLEAN, Reopen(recovered)
      PROVE  FALSE
  BY <1>0, <1>1, <1>2
  DEF Reopen, reopen_due, after_reopen_due, reopen_done, escalate_, Recovery
<1>3. ASSUME NEW recovered \in BOOLEAN, Report(recovered)
      PROVE  FALSE
  BY <1>0, <1>1, <1>3 DEF Report, rescan_done, Recovery
<1>4. CASE Reset
  BY <1>0, <1>4 DEF Reset, fresh_recovery, HandsOut
<1>5. CASE Tick
  BY <1>1, <1>5 DEF Tick
<1>6. CASE UNCHANGED vars
  BY <1>1, <1>6 DEF vars
<1>7. CASE Poll
  BY <1>0, <1>1, <1>7 DEF Poll, after_rescan_due, rescan_due, pending, Recovery
<1>. QED
  BY <1>2, <1>3, <1>4, <1>5, <1>6, <1>7 DEF Next

\* Second attempts are at least SINK_RESCAN_DELAY_MS apart for the life of the
\* sink, across any number of reconfigured streams.
THEOREM AttemptsSpaced == Spec => RescansSpaced
<1>1. IInv /\ [Next]_vars
        => [HandsOut /\ handed_at # NOT_STAMPED
              => now >= handed_at + SINK_RESCAN_DELAY_MS]_vars
  <2>. SUFFICES ASSUME IInv, [Next]_vars, HandsOut
                PROVE  now >= handed_at + SINK_RESCAN_DELAY_MS
    OBVIOUS
  <2>1. /\ now \in Nat /\ handed_at \in Int /\ recovery.rescan_at_ms \in Int
        /\ recovery.rescan_attempts \in Nat
    BY DEF IInv, TypeOK, Recovery, NOT_STAMPED
  <2>2. recovery.rescan_at_ms >= handed_at + delay_for_(recovery.rescan_attempts)
    BY HandsOutPolls DEF IInv, DeadlineInv
  <2>3. /\ delay_for_(recovery.rescan_attempts) \in Nat
        /\ SINK_RESCAN_DELAY_MS <= delay_for_(recovery.rescan_attempts)
    BY <2>1, DelayBounds
  <2>4. now >= recovery.rescan_at_ms
    BY HandsOutPolls
  <2>. QED
    BY <2>1, <2>2, <2>3, <2>4, RecoveryConstants
<1>. QED
  BY <1>1, Safe, PTL DEF Spec, RescansSpaced

\* Retries of one stream back off along the ladder.
THEOREM RetriesSpaced == Spec => RetriesBackOff
<1>1. IInv /\ [Next]_vars
        => [HandsOut /\ recovery.rescan_attempts > 0
              => now >= handed_at + ladder[recovery.rescan_attempts]]_vars
  <2>. SUFFICES ASSUME IInv, [Next]_vars, HandsOut
                PROVE  now >= handed_at + ladder[recovery.rescan_attempts]
    OBVIOUS
  <2>1. /\ now \in Nat /\ handed_at \in Int /\ recovery.rescan_at_ms \in Int
        /\ recovery.rescan_attempts \in Nat
    BY DEF IInv, TypeOK, Recovery, NOT_STAMPED
  <2>2. recovery.rescan_at_ms >= handed_at + delay_for_(recovery.rescan_attempts)
    BY HandsOutPolls DEF IInv, DeadlineInv
  <2>3. /\ delay_for_(recovery.rescan_attempts) = ladder[recovery.rescan_attempts]
        /\ delay_for_(recovery.rescan_attempts) \in Nat
    BY <2>1, DelayIsLadder, DelayBounds
  <2>4. now >= recovery.rescan_at_ms
    BY HandsOutPolls
  <2>. QED
    BY <2>1, <2>2, <2>3, <2>4
<1>. QED
  BY <1>1, Safe, PTL DEF Spec, RetriesBackOff

\* A stream's second attempt is repeated only after one reported as failed.
THEOREM RetriesEarned == Spec => RetryNeedsFailure
<1>1. IInv /\ [Next]_vars
        => [HandsOut /\ recovery.rescan_attempts > 0 => report = "failed"]_vars
  <2>. SUFFICES ASSUME IInv, [Next]_vars, HandsOut, recovery.rescan_attempts > 0
                PROVE  report = "failed"
    OBVIOUS
  <2>1. InHand(recovery)
    BY HandsOutPolls DEF IInv, NothingOwedOnceOut, InHand
  <2>. QED
    BY <2>1 DEF IInv, BudgetInv
<1>. QED
  BY <1>1, Safe, PTL DEF Spec, RetryNeedsFailure

\* All that holds of a stream's recovery at every moment.
THEOREM BudgetKept == Spec => []KeepsItsBudget
  BY TypeCorrect, BudgetRespected, NothingRearmed, PTL DEF KeepsItsBudget

\* All that holds of an attempt handed out.
THEOREM Paced == Spec => AttemptsPaced
  BY AttemptsSpaced, RetriesSpaced, RetriesEarned DEF AttemptsPaced

-----------------------------------------------------------------------------
(* The gain.                                                                *)

\* Whole steps of a way, and what is left of it.
LEMMA Quotient ==
    ASSUME NEW a \in Nat, NEW b \in Nat \ {0}
    PROVE  a \div b \in Nat /\ b * (a \div b) <= a /\ a < b * (a \div b) + b
OBVIOUS

\* A ramp moves with every frame.
LEMMA RampMoves == volume_ramp_step(RampFrames) \in Nat \ {0}
<1> DEFINE a == Q32_ONE + RampFrames - 1
           q == a \div RampFrames
<1>1. /\ Q32_ONE \in Nat \ {0} /\ RampFrames \in Nat \ {0}
      /\ a \in Nat /\ a >= RampFrames
  BY GainAssumption, OutputAssumption
<1> HIDE DEF a
<1>2. q \in Nat /\ a < RampFrames * q + RampFrames
  BY <1>1, Quotient, Zenon
<1> HIDE DEF q
<1>3. q # 0
  BY <1>1, <1>2
<1> QED BY <1>1, <1>2, <1>3 DEF volume_ramp_step, q, a

\* How far a ramp has got after so many frames, of a way that it does not overshoot.
travelled(far, step, frames) == IF frames > far \div step THEN far ELSE frames * step

\* It starts where it is, gets no further than it is to, and no frame takes it more than
\* a step.
LEMMA Travel ==
    ASSUME NEW far \in Nat, NEW step \in Nat \ {0}, NEW frames \in Nat
    PROVE  /\ travelled(far, step, 0) = 0
           /\ travelled(far, step, frames) \in 0..far
           /\ travelled(far, step, frames + 1) \in 0..far
           /\ travelled(far, step, frames + 1) - travelled(far, step, frames) \in 0..step
<1> DEFINE q == far \div step
<1>1. q \in Nat /\ step * q <= far /\ far < step * q + step
  BY Quotient, Zenon
<1>2. travelled(far, step, 0) = 0
  BY <1>1 DEF travelled
<1> HIDE DEF q
<1>3. CASE frames > q
  BY <1>1, <1>3 DEF travelled, q
<1>4. CASE frames = q
  <2>1. travelled(far, step, frames) = q * step /\ travelled(far, step, frames + 1) = far
    BY <1>1, <1>4 DEF travelled, q
  <2> QED BY <1>1, <1>2, <2>1
<1>5. CASE frames < q
  <2>1. /\ travelled(far, step, frames) = frames * step
        /\ travelled(far, step, frames + 1) = (frames + 1) * step
    BY <1>1, <1>5 DEF travelled, q
  <2>2. PICK n \in Nat : q = frames + 1 + n
    <3>1. q - (frames + 1) \in Nat /\ q = frames + 1 + (q - (frames + 1))
      BY <1>1, <1>5
    <3> QED BY <3>1
  <2>3. step * q = (frames + 1) * step + step * n /\ (frames + 1) * step = frames * step + step
    BY <1>1, <2>2
  <2>4. step * n \in Nat /\ frames * step \in Nat /\ (frames + 1) * step \in Nat /\ step * q \in Nat
    BY <1>1, <2>2
  <2> QED BY <1>1, <1>2, <2>1, <2>3, <2>4
<1> QED BY <1>1, <1>3, <1>4, <1>5

\* So it does from a gain to a gain.
LEMMA Ramp ==
    ASSUME NEW current \in Gain, NEW target \in Gain, NEW step \in Nat \ {0}, NEW frames \in Nat
    PROVE  /\ ramped_gain(current, target, step, 0) = current
           /\ ramped_gain(current, target, step, frames) \in Gain
           /\ ramped_gain(current, target, step, frames + 1) \in Gain
           /\ distance(ramped_gain(current, target, step, frames),
                       ramped_gain(current, target, step, frames + 1)) <= step
<1>0. Q32_ONE \in Nat /\ current \in 0..Q32_ONE /\ target \in 0..Q32_ONE
  BY GainAssumption DEF Gain
<1>1. CASE current = target
  BY <1>0, <1>1 DEF ramped_gain, distance, Gain
<1>2. CASE current # target
  <2> DEFINE far == distance(current, target)
             t0 == travelled(far, step, 0)
             t1 == travelled(far, step, frames)
             t2 == travelled(far, step, frames + 1)
  <2>1. far \in Nat
    BY <1>0 DEF distance
  <2>2. far = IF current < target THEN target - current ELSE current - target
    BY DEF distance
  <2>3. \A n : ramped_gain(current, target, step, n) =
                   IF current < target THEN current + travelled(far, step, n)
                   ELSE current - travelled(far, step, n)
    BY <1>2, Zenon DEF ramped_gain, travelled
  <2>4. /\ ramped_gain(current, target, step, 0) = IF current < target THEN current + t0 ELSE current - t0
        /\ ramped_gain(current, target, step, frames) =
               IF current < target THEN current + t1 ELSE current - t1
        /\ ramped_gain(current, target, step, frames + 1) =
               IF current < target THEN current + t2 ELSE current - t2
    BY <2>3, Zenon
  <2> HIDE DEF far
  <2>5. t0 = 0 /\ t1 \in 0..far /\ t2 \in 0..far /\ t2 - t1 \in 0..step
    BY <2>1, Travel, Zenon
  <2> HIDE DEF t0, t1, t2
  <2> QED BY <1>0, <2>1, <2>2, <2>4, <2>5 DEF distance, Gain
<1> QED BY <1>1, <1>2

\* A product does not shrink when a factor grows.
LEMMA Products ==
    ASSUME NEW a \in Nat, NEW b \in Nat, NEW c \in Nat, a <= b
    PROVE  a * c <= b * c
<1>1. PICK d \in Nat : b = a + d
  <2>1. b - a \in Nat /\ b = a + (b - a)
    OBVIOUS
  <2> QED BY <2>1
<1>2. b * c = a * c + d * c /\ d * c \in Nat /\ a * c \in Nat
  BY <1>1
<1> QED BY <1>2

\* Every volume has an amplitude: the least gain that is not too small.
LEMMA AmplitudeIsGain ==
    ASSUME NEW volume \in 0..99
    PROVE  amplitude(volume) \in Gain
<1> DEFINE x == 4 * Q32_ONE * Q32_ONE * cube(volume)
           above(g) == x < (2 * g + 1) * (2 * g + 1) * cube(100)
           T == {g \in Nat : above(g)}
<1>0. Q32_ONE \in Nat \ {0}
  BY GainAssumption
<1>1. cube(volume) \in Nat /\ cube(100) \in Nat \ {0} /\ cube(volume) <= cube(100)
  <2>1. volume * volume \in Nat /\ volume * volume <= 99 * 99
    <3>1. volume * volume <= 99 * volume
      BY Products
    <3> QED BY <3>1
  <2>2. (volume * volume) * volume <= (99 * 99) * volume
    BY <2>1, Products
  <2>3. cube(100) = 100 * 100 * 100
    BY DEF cube
  <2>4. (99 * 99) * volume <= 100 * 100 * 100
    OBVIOUS
  <2> QED BY <2>1, <2>2, <2>3, <2>4 DEF cube
<1>2. x \in Nat
  <2>1. 4 * Q32_ONE * Q32_ONE \in Nat
    BY <1>0
  <2> QED BY <1>1, <2>1
<1>3. above(Q32_ONE)
  <2> DEFINE a == 4 * Q32_ONE * Q32_ONE
             b == (2 * Q32_ONE + 1) * (2 * Q32_ONE + 1)
  <2>1. a \in Nat /\ b \in Nat /\ a < b
    BY <1>0
  <2> HIDE DEF a, b
  <2> DEFINE c == cube(volume)
             most == cube(100)
  <2>2. c \in Nat /\ most \in Nat \ {0} /\ c <= most
    BY <1>1
  <2> HIDE DEF c, most
  <2>3. c * a <= most * a /\ (a + 1) * most <= b * most
    BY <2>1, <2>2, Products
  <2>4. (a + 1) * most = most * a + most /\ a * c = c * a
    BY <2>1, <2>2
  <2>5. most * a \in Nat /\ c * a \in Nat /\ b * most \in Nat
    BY <2>1, <2>2
  <2>6. a * c < b * most
    BY <2>2, <2>3, <2>4, <2>5
  <2> QED BY <2>6 DEF a, b, c, most
<1> HIDE DEF x
<1>4. T \in SUBSET Nat /\ Q32_ONE \in T
  BY <1>0, <1>3
<1>5. PICK g \in T : \A h \in T : g <= h
  <2> HIDE DEF T
  <2> QED BY <1>4, LeastElement
<1>6. g \in Gain /\ above(g)
  <2>1. g \in Nat /\ above(g)
    BY <1>5
  <2>2. g <= Q32_ONE
    BY <1>4, <1>5
  <2> QED BY <1>0, <2>1, <2>2 DEF Gain
<1>7. (2 * g - 1) * (2 * g - 1) * cube(100) <= x \/ g = 0
  <2>0. g \in Nat
    BY <1>5
  <2>1. CASE g # 0
    <3>1. g \in Nat /\ g - 1 \in Nat /\ ~ (g - 1 \in T)
      BY <1>5, <2>0, <2>1
    <3>2. ~ above(g - 1)
      BY <3>1
    <3>3. 2 * (g - 1) + 1 = 2 * g - 1
      BY <3>1
    <3>4. ~ (x < (2 * g - 1) * (2 * g - 1) * cube(100))
      BY <3>2, <3>3
    <3> DEFINE most == cube(100)
    <3>5. most \in Int
      BY <1>1
    <3> HIDE DEF most
    <3>6. (2 * g - 1) * (2 * g - 1) * most \in Int
      BY <3>1, <3>5
    <3>7. (2 * g - 1) * (2 * g - 1) * cube(100) \in Int
      BY <3>6, Zenon DEF most
    <3> QED BY <1>2, <3>4, <3>7
  <2> QED BY <2>1
<1>8. \E n \in Gain : /\ (2 * n - 1) * (2 * n - 1) * cube(100) <= x \/ n = 0
                      /\ x < (2 * n + 1) * (2 * n + 1) * cube(100)
  BY <1>6, <1>7, Zenon
<1> QED BY <1>8, Zenon DEF amplitude, x

\* What a volume is set to is a gain.
LEMMA VolumesAreGains ==
    ASSUME NEW volume \in Volumes, NEW muted \in BOOLEAN
    PROVE  q32_gain_for(volume, muted) \in Gain
<1>1. volume \in Nat /\ 0 \in Gain /\ Q32_ONE \in Gain
  BY OutputAssumption, GainAssumption DEF Gain
<1>2. CASE volume \in 0..99
  BY <1>1, <1>2, AmplitudeIsGain DEF q32_gain_for
<1>3. CASE volume \notin 0..99
  <2>1. volume >= 100
    BY <1>1, <1>3
  <2> QED BY <1>1, <2>1 DEF q32_gain_for
<1> QED BY <1>2, <1>3

-----------------------------------------------------------------------------
(* The sinks' inductive invariant.                                          *)

\* What a ramp has come to in the write() in progress; between two, where the gain is.
reached ==
    IF writer.pc = "idle" THEN gain.current
    ELSE ramped_gain(writer.start, writer.target, volume_ramp_step(RampFrames), writer.done)

Writer ==
    [ pc     : {"idle", "opened", "loop", "waiting", "parked"},
      format : Formats \cup {None},
      stale  : BOOLEAN,
      length : Nat,
      done   : Nat,
      start  : Gain,
      target : Gain ]

OTypes ==
    /\ stream \in Stream
    /\ gain \in [current : Gain, target : Gain]
    /\ last_format \in Formats \cup {None} /\ player_format \in Formats \cup {None}
    /\ recovery_ \in Recovery
    /\ stopping \in BOOLEAN
    /\ writer \in Writer /\ writer.done <= writer.length
    /\ main \in {"loop", "stop"}
    /\ fruitless \in 0..2
    /\ server \in {"none", "ready", "lost"}
    /\ backend \in {"pulse", "pipewire", "alsa"}

QueueInv ==
    /\ stream.state = "none" => stream.queue = <<>> /\ stream.last = NoGain
    /\ PlaysWhatItWasGiven

RampInv == stream.smooth /\ (stream.last # NoGain => stream.last = reached)

FormatInv ==
    /\ stream.state # "none" => stream.format # None /\ stream.format = player_format
    /\ last_format \in {None, player_format}
    /\ (stopping /\ main = "loop") \/ backend = "alsa" => last_format = None

Owns == stream.state # "none" /\ writer.format = stream.format /\ ~ writer.stale

WriterInv ==
    /\ writer.pc \in {"opened", "loop", "waiting"} => Owns
    /\ writer.pc = "parked" /\ stream.state # "none" /\ ~ stream.moved => Owns

StopInv == stopping /\ main = "loop" => stream.state = "none"

FruitInv ==
    backend # "alsa" /\ fruitless > 0 =>
        fruitless = 1 /\ writer.pc = "idle" /\ stream.state # "running"

OInv == /\ OTypes /\ QueueInv /\ RampInv /\ FormatInv /\ WriterInv /\ StopInv
        /\ StreamHasItsOwner /\ FruitInv

\* What the policy leaves behind is a policy's record.
LEMMA PolicyKept ==
    ASSUME NEW r \in Recovery, NEW now_ms \in Nat, NEW recovered \in BOOLEAN
    PROVE  /\ after_reopen_due(r) \in Recovery /\ reopen_done(r, recovered) \in Recovery
           /\ after_rescan_due(r, now_ms) \in Recovery /\ rescan_done(r, recovered) \in Recovery
           /\ fresh_recovery \in Recovery
<1>1. r.rescan_attempts \in Nat /\ r.rescan_attempts + 1 \in Nat
  BY DEF Recovery
<1>2. escalate_(r) \in Recovery /\ [r EXCEPT !.reopen_spent = TRUE] \in Recovery
  BY DEF escalate_, Recovery
<1>3. after_reopen_due(r) \in Recovery /\ reopen_done(r, recovered) \in Recovery
  BY <1>2 DEF after_reopen_due, reopen_done
<1>4. after_rescan_due(r, now_ms) \in Recovery
  <2> DEFINE at == now_ms + delay_for_(r.rescan_attempts)
             made == r.rescan_attempts + 1
  <2>1. at \in Nat \cup {NOT_STAMPED} /\ made \in Nat
    BY <1>1, DelayBounds
  <2>2. after_rescan_due(r, now_ms) \in
            {[r EXCEPT !.rescan_attempts = made, !.rescan_in_flight = TRUE, !.rescan_owed = FALSE],
             [r EXCEPT !.rescan_at_ms = at], r}
    BY DEF after_rescan_due
  <2> HIDE DEF at, made
  <2>3. [r EXCEPT !.rescan_at_ms = at] \in Recovery
    BY <2>1 DEF Recovery
  <2>4. [r EXCEPT !.rescan_attempts = made, !.rescan_in_flight = TRUE, !.rescan_owed = FALSE] \in Recovery
    BY <2>1 DEF Recovery
  <2> QED BY <2>2, <2>3, <2>4
<1>5. rescan_done(r, recovered) \in Recovery /\ fresh_recovery \in Recovery
  BY DEF rescan_done, fresh_recovery, Recovery, NOT_STAMPED
<1> QED BY <1>3, <1>4, <1>5

\* The stream's fields, and the writer's and the gain's.
LEMMA Fields ==
    ASSUME OInv
    PROVE  /\ stream.state \in {"none", "running", "failed"} /\ stream.format \in Formats \cup {None}
           /\ stream.queue \in Seq(Frame) /\ stream.last \in Gain \cup {NoGain}
           /\ {stream.drain, stream.moved, stream.notified, stream.smooth} \subseteq BOOLEAN
           /\ writer.pc \in {"idle", "opened", "loop", "waiting", "parked"}
           /\ writer.format \in Formats \cup {None} /\ writer.stale \in BOOLEAN
           /\ writer.length \in Nat /\ writer.done \in Nat /\ writer.done <= writer.length
           /\ writer.start \in Gain /\ writer.target \in Gain
           /\ gain.current \in Gain /\ gain.target \in Gain
           /\ None \notin Formats
BY OutputAssumption DEF OInv, OTypes, Stream, Writer

\* A stream with nothing on it cannot break what was promised of one.
New(s) ==
    /\ s \in Stream
    /\ s.queue = <<>> /\ s.last = NoGain /\ s.smooth

LEMMA NewStream ==
    ASSUME New(stream')
    PROVE  QueueInv' /\ RampInv'
BY DEF New, QueueInv, RampInv, PlaysWhatItWasGiven

\* Nor can a step that leaves the queue, or nothing of it, and the ramp as it is.
NothingAdded(s) ==
    /\ s.queue = stream.queue \/ s.queue = <<>>
    /\ s.drain = stream.drain /\ s.format = stream.format
    /\ s.last = stream.last /\ s.smooth = stream.smooth

LEMMA SameStream ==
    ASSUME OInv, NothingAdded(stream'), stream'.state = "none" => stream.state = "none",
           reached' = reached
    PROVE  QueueInv' /\ RampInv'
BY DEF OInv, NothingAdded, QueueInv, RampInv, PlaysWhatItWasGiven

\* A write() that begins goes on from the gain the last one left.
LEMMA Begins ==
    ASSUME OInv, writer.pc = "idle", NEW pc \in {"opened", "loop"},
           NEW frames \in Nat, NEW g \in [current : Gain, target : Gain],
           NEW w, w = begun(frames, g), writer' = [w EXCEPT !.pc = pc]
    PROVE  /\ writer' \in Writer /\ writer'.done <= writer'.length
           /\ writer'.pc = pc /\ writer'.format = player_format /\ ~ writer'.stale
           /\ reached' = g.current
<1>1. writer' = [pc |-> pc, format |-> player_format, stale |-> FALSE, length |-> frames,
                 done |-> 0, start |-> g.current, target |-> g.target]
  BY DEF begun, idle_writer
<1>2. player_format \in Formats \cup {None} /\ g.current \in Gain /\ g.target \in Gain
  BY DEF OInv, OTypes
<1>3. writer' \in Writer /\ writer'.done <= writer'.length
  <2>1. pc \in {"idle", "opened", "loop", "waiting", "parked"} /\ 0 \in Nat /\ 0 <= frames
    OBVIOUS
  <2>2. writer'.done = 0 /\ writer'.length = frames
    BY <1>1
  <2> DEFINE from == g.current
             to == g.target
             format == player_format
  <2>3. from \in Gain /\ to \in Gain /\ format \in Formats \cup {None}
    BY <1>2
  <2>4. writer' = [pc |-> pc, format |-> format, stale |-> FALSE, length |-> frames,
                   done |-> 0, start |-> from, target |-> to]
    BY <1>1
  <2> HIDE DEF from, to, format
  <2>5. [pc |-> pc, format |-> format, stale |-> FALSE, length |-> frames,
         done |-> 0, start |-> from, target |-> to] \in Writer
    BY <2>1, <2>3 DEF Writer
  <2> QED BY <2>1, <2>2, <2>4, <2>5
<1>4. ramped_gain(g.current, g.target, volume_ramp_step(RampFrames), 0) = g.current
  BY <1>2, Ramp, RampMoves
<1>5. /\ writer'.pc = pc /\ writer'.start = g.current /\ writer'.target = g.target
      /\ writer'.done = 0 /\ writer'.format = player_format /\ ~ writer'.stale
  BY <1>1
<1> QED BY <1>3, <1>4, <1>5 DEF reached

\* The step of a stream that has a format, and of any that the ramp is audible on.
LEMMA StepOfStream ==
    ASSUME OInv, stream.last # NoGain
    PROVE  ramp_step_(stream) = volume_ramp_step(RampFrames)
<1>1. stream.format # None
  BY DEF OInv, QueueInv, FormatInv
<1> QED BY <1>1 DEF ramp_step_

\* One that ends leaves the gain where the last frame was.
LEMMA Ends ==
    ASSUME OInv, writer.pc # "idle", NEW broken \in BOOLEAN, finish(stream, broken)
    PROVE  /\ writer' = idle_writer /\ writer' \in Writer /\ writer'.done <= writer'.length
           /\ gain' \in [current : Gain, target : Gain]
           /\ fruitless' \in 0..2
           /\ ~ broken => fruitless' = 0
           /\ fruitless = 0 => fruitless' \in {0, 1}
           /\ NothingAdded(stream') /\ (stream'.state = "none" => stream.state = "none")
                 => QueueInv' /\ RampInv'
<1>0. /\ writer.start \in Gain /\ writer.target \in Gain /\ writer.done \in Nat
      /\ gain \in [current : Gain, target : Gain] /\ fruitless \in 0..2
  BY Fields DEF OInv, OTypes
<1>1. writer' = idle_writer /\ writer' \in Writer /\ writer'.done <= writer'.length /\ writer'.pc = "idle"
  <2>1. 0 \in Gain
    BY GainAssumption DEF Gain
  <2> QED BY <2>1 DEF finish, idle_writer, Writer
<1> DEFINE to == ramped_gain(writer.start, writer.target, ramp_step_(stream), writer.done)
<1>2. gain' = [gain EXCEPT !.current = to]
  BY DEF finish
<1>3. to \in Gain
  <2>1. CASE stream.format = None
    BY <1>0, <2>1 DEF ramp_step_, ramped_gain
  <2>2. CASE stream.format # None
    BY <1>0, <2>2, Ramp, RampMoves DEF ramp_step_
  <2> QED BY <2>1, <2>2
<1>4. stream.last # NoGain => to = reached
  BY StepOfStream DEF reached
<1> HIDE DEF to
<1>5. gain' \in [current : Gain, target : Gain] /\ gain'.current = to
  BY <1>0, <1>2, <1>3
<1>6. fruitless' \in 0..2 /\ (~ broken => fruitless' = 0) /\ (fruitless = 0 => fruitless' \in {0, 1})
  BY <1>0 DEF finish
<1>7. ASSUME NothingAdded(stream'), stream'.state = "none" => stream.state = "none"
      PROVE  QueueInv' /\ RampInv'
  BY <1>1, <1>4, <1>5, <1>7
     DEF OInv, NothingAdded, QueueInv, RampInv, PlaysWhatItWasGiven, reached
<1> QED BY <1>1, <1>5, <1>6, <1>7

\* What lands is the stream's own, and carries the ramp on from where the stream has it.
LEMMA Lands ==
    ASSUME OInv, WriteLands
    PROVE  /\ stream' \in Stream /\ writer' \in Writer /\ writer'.done <= writer'.length
           /\ QueueInv' /\ RampInv'
           /\ stream'.state = stream.state /\ stream'.format = stream.format
           /\ stream'.moved = stream.moved
           /\ writer'.pc = "loop" /\ writer'.format = writer.format /\ writer'.stale = writer.stale
<1>1. /\ writer.pc = "loop" /\ Owns /\ stream.format # None /\ stream.state # "none"
      /\ writer.format = stream.format /\ ~ writer.stale /\ stream.format \in Formats
  BY Fields DEF OInv, WriteLands, WriterInv, FormatInv, Owns
<1>2. PICK n \in Nat \ {0} : /\ n <= writer.length - writer.done
                             /\ stream' = queued(stream, n)
                             /\ writer' = [writer EXCEPT !.done = @ + n]
  <2> DEFINE n == IF left < room THEN left ELSE room
  <2>1. left \in Nat \ {0} /\ room \in Nat \ {0}
    BY Fields, OutputAssumption DEF left, room, WriteLands
  <2>2. n \in Nat \ {0} /\ n <= left
    BY <2>1
  <2>3. stream' = queued(stream, n) /\ writer' = [writer EXCEPT !.done = @ + n]
    BY DEF WriteLands
  <2> HIDE DEF n
  <2> QED BY <2>2, <2>3 DEF left
<1> DEFINE step == volume_ramp_step(RampFrames)
           at(k) == ramped_gain(writer.start, writer.target, step, k)
           done == writer.done + n
           frame == [format |-> writer.format, stale |-> writer.stale]
           b == [i \in 1..n |-> frame]
           queue == stream.queue \o b
<1>3. /\ step \in Nat \ {0} /\ writer.start \in Gain /\ writer.target \in Gain
      /\ writer.done \in Nat /\ done \in Nat /\ done <= writer.length /\ writer.length \in Nat
  BY <1>2, Fields, RampMoves
<1>4. ramp_step_(stream) = step
  BY <1>1 DEF ramp_step_
<1> DEFINE gains == apply_volume_ramp(writer.length, writer.start, writer.target, ramp_step_(stream))
<1>5. gains[done] = at(done) /\ gains[writer.done + 1] = at(writer.done + 1)
  <2>1. done \in 1..writer.length /\ writer.done + 1 \in 1..writer.length
    BY <1>2, <1>3
  <2>2. gains = [k \in 1..writer.length |-> at(k)]
    BY <1>4 DEF apply_volume_ramp
  <2> HIDE DEF gains, done
  <2> QED BY <2>1, <2>2
<1> DEFINE last == at(done)
           smooth == stream.smooth /\ (stream.last # NoGain => near(stream.last, at(writer.done + 1)))
<1>6. stream' = [stream EXCEPT !.queue = queue, !.last = last, !.smooth = smooth]
  BY <1>2, <1>5 DEF queued
<1>7. last \in Gain
  BY <1>3, Ramp
<1>8. smooth = TRUE
  <2>1. stream.last # NoGain => stream.last = at(writer.done)
    BY <1>1 DEF OInv, RampInv, reached
  <2>2. distance(at(writer.done), at(writer.done + 1)) <= step
    BY <1>3, Ramp
  <2>3. stream.smooth = TRUE
    BY DEF OInv, OTypes, Stream, RampInv
  <2> QED BY <2>1, <2>2, <2>3 DEF near
<1>9. /\ queue \in Seq(Frame)
      /\ \A i \in DOMAIN queue : /\ queue[i].format = stream.format
                                 /\ queue[i].stale => stream.drain
  <2>1. writer.stale = FALSE
    BY <1>1, Fields
  <2>2. frame = [format |-> stream.format, stale |-> FALSE]
    BY <1>1, <2>1
  <2>3. frame \in Frame /\ frame.format = stream.format /\ ~ frame.stale
    BY <1>1, <2>2 DEF Frame
  <2>4. b \in Seq(Frame) /\ Len(b) = n
    BY <1>2, <2>3
  <2>5. \A i \in 1..n : b[i] = frame
    OBVIOUS
  <2>6. stream.queue \in Seq(Frame) /\ Len(stream.queue) \in Nat /\ DOMAIN stream.queue = 1..Len(stream.queue)
    BY Fields
  <2>7. \A i \in 1..Len(stream.queue) : /\ stream.queue[i].format = stream.format
                                        /\ stream.queue[i].stale => stream.drain
    BY <2>6 DEF OInv, QueueInv, PlaysWhatItWasGiven
  <2> HIDE DEF b, frame
  <2>8. /\ queue \in Seq(Frame) /\ Len(queue) = Len(stream.queue) + n
        /\ \A i \in 1..(Len(stream.queue) + Len(b)) :
               queue[i] = IF i <= Len(stream.queue) THEN stream.queue[i] ELSE b[i - Len(stream.queue)]
    BY <2>4, <2>6, ConcatProperties
  <2>9. DOMAIN queue = 1..(Len(stream.queue) + n)
    BY <2>8
  <2>10. ASSUME NEW i \in DOMAIN queue
        PROVE  queue[i].format = stream.format /\ (queue[i].stale => stream.drain)
    <3>1. CASE i <= Len(stream.queue)
      BY <2>4, <2>6, <2>7, <2>8, <2>9, <3>1
    <3>2. CASE ~ (i <= Len(stream.queue))
      <4>1. i - Len(stream.queue) \in 1..n
        BY <2>6, <2>9, <3>2
      <4>2. queue[i] = frame
        BY <2>4, <2>5, <2>8, <2>9, <3>2, <4>1
      <4> QED BY <2>3, <4>2
    <3> QED BY <3>1, <3>2
  <2> QED BY <2>8, <2>10
<1> HIDE DEF queue, smooth, last
<1>10. /\ stream' \in Stream /\ stream'.queue = queue /\ stream'.last = last /\ stream'.smooth
       /\ stream'.state = stream.state /\ stream'.format = stream.format
       /\ stream'.moved = stream.moved /\ stream'.drain = stream.drain
  <2>1. stream \in Stream
    BY DEF OInv, OTypes
  <2> QED BY <1>6, <1>7, <1>8, <1>9, <2>1 DEF Stream
<1>11. /\ writer' \in Writer /\ writer'.done = done /\ writer'.length = writer.length
       /\ writer'.start = writer.start /\ writer'.target = writer.target
       /\ writer'.pc = "loop" /\ writer'.format = writer.format /\ writer'.stale = writer.stale
  <2>1. writer \in Writer /\ writer' = [writer EXCEPT !.done = done]
    BY <1>2 DEF OInv, OTypes
  <2> HIDE DEF done
  <2> QED BY <1>1, <1>3, <2>1 DEF Writer
<1>12. QueueInv'
  BY <1>1, <1>9, <1>10 DEF QueueInv, PlaysWhatItWasGiven
<1>13. reached' = last
  BY <1>11 DEF reached, last
<1>14. RampInv'
  BY <1>10, <1>13 DEF RampInv
<1> QED BY <1>3, <1>10, <1>11, <1>12, <1>14

\* No stream is as good as a new one.
LEMMA NoStreamIsNew ==
    ASSUME OInv, stream.state = "none"
    PROVE  New(stream)
BY DEF OInv, OTypes, QueueInv, RampInv, New

\* Nor is there anything of the stream a sink is constructed with.
LEMMA NoStreamAtAll == New(no_stream) /\ no_stream.state = "none" /\ no_stream.format = None
<1> DEFINE q == <<>>
           l == NoGain
           n == no_stream
<1>1. n = [state |-> "none", format |-> None, queue |-> q, drain |-> FALSE,
           moved |-> TRUE, notified |-> FALSE, last |-> l, smooth |-> TRUE]
  BY DEF no_stream
<1>2. q \in Seq(Frame) /\ l \in Gain \cup {NoGain} /\ q = <<>> /\ l = NoGain
  OBVIOUS
<1> HIDE DEF q, l, n
<1>3. /\ n \in Stream /\ n.queue = q /\ n.last = l /\ n.smooth = TRUE /\ n.state = "none"
      /\ n.format = None
  BY <1>1, <1>2 DEF Stream
<1> QED BY <1>2, <1>3 DEF New, n

\* A flush leaves nothing queued, and nothing for the next frame to be compared with.
LEMMA Flushed ==
    ASSUME NEW s \in Stream, NEW f, f = flushed(s)
    PROVE  /\ f \in Stream /\ f.queue = <<>> /\ f.last = NoGain /\ ~ f.drain
           /\ f.state = s.state /\ f.format = s.format /\ f.moved = s.moved
           /\ f.smooth = s.smooth
<1> DEFINE q == <<>>
           l == NoGain
<1>1. q \in Seq(Frame) /\ l \in Gain \cup {NoGain}
  OBVIOUS
<1>2. f = [s EXCEPT !.queue = q, !.drain = FALSE, !.last = l]
  BY DEF flushed
<1> HIDE DEF q, l
<1>3. /\ f \in Stream /\ f.queue = q /\ f.last = l /\ f.drain = FALSE
      /\ f.state = s.state /\ f.format = s.format /\ f.moved = s.moved
      /\ f.smooth = s.smooth
  BY <1>1, <1>2 DEF Stream
<1> QED BY <1>3 DEF q, l

\* An idle writer has nothing in its hands.
LEMMA IdleWriter ==
    ASSUME writer' = idle_writer
    PROVE  writer' \in Writer /\ writer'.done <= writer'.length /\ writer'.pc = "idle"
<1>1. 0 \in Gain
  BY GainAssumption DEF Gain
<1> QED BY <1>1 DEF idle_writer, Writer

\* A write() that is out when its stream is dropped knows it has been.
LEMMA Disowns ==
    ASSUME OInv, writer' = disowned_writer
    PROVE  /\ writer' \in Writer /\ writer'.done <= writer'.length /\ writer'.pc = writer.pc
           /\ gain'.current = gain.current => reached' = reached
<1>1. writer' = [writer EXCEPT !.stale = (writer.pc # "idle")] /\ writer \in Writer
      /\ writer.done <= writer.length
  BY DEF disowned_writer, OInv, OTypes
<1>2. /\ writer' \in Writer /\ writer'.done = writer.done /\ writer'.length = writer.length
      /\ writer'.pc = writer.pc /\ writer'.start = writer.start /\ writer'.target = writer.target
  BY <1>1 DEF Writer
<1> QED BY <1>1, <1>2 DEF reached

\* The gain goes where it was meant to be.
LEMMA Snaps ==
    ASSUME NEW g \in [current : Gain, target : Gain]
    PROVE  snapped(g) \in [current : Gain, target : Gain]
BY DEF snapped

\* A volume is set whatever else happens, and reaches a stream with the next write().
LEMMA SetsVolume ==
    ASSUME OInv, set_volume, UNCHANGED backend
    PROVE  OInv'
<1>1. PICK g \in Gain : gain' = [gain EXCEPT !.target = g]
  BY VolumesAreGains DEF set_volume
<1>2. gain' \in [current : Gain, target : Gain] /\ gain'.current = gain.current
  BY <1>1 DEF OInv, OTypes
<1>3. UNCHANGED <<stream, server, last_format, recovery_, stopping, writer, main, player_format,
                  fruitless, backend>>
  BY DEF set_volume
<1>4. QueueInv' /\ RampInv'
  BY <1>2, <1>3, SameStream DEF NothingAdded, reached
<1> QED BY <1>2, <1>3, <1>4
        DEF OInv, OTypes, FormatInv, WriterInv, Owns, StopInv, StreamHasItsOwner, FruitInv,
            Pulse!StreamHasItsServer, PipeWire!LoopHasItsOwner

\* stop() begins by saying so.
LEMMA LatchesStop ==
    ASSUME OInv, StopLatch, UNCHANGED backend
    PROVE  OInv'
<1>1. /\ stream' = [stream EXCEPT !.notified = TRUE] /\ main' = "stop" /\ stopping' = TRUE
      /\ UNCHANGED <<server, gain, last_format, recovery_, writer, player_format, fruitless, backend>>
  BY DEF StopLatch, notify
<1>2. /\ stream' \in Stream /\ NothingAdded(stream') /\ stream'.state = stream.state
      /\ stream'.format = stream.format /\ stream'.moved = stream.moved
  BY <1>1 DEF OInv, OTypes, Stream, NothingAdded
<1>3. QueueInv' /\ RampInv'
  BY <1>1, <1>2, SameStream DEF reached
<1>4. OTypes'
  BY <1>1, <1>2 DEF OInv, OTypes
<1>5. FormatInv' /\ WriterInv' /\ StopInv' /\ StreamHasItsOwner' /\ FruitInv'
  BY <1>1, <1>2
     DEF OInv, FormatInv, WriterInv, Owns, StopInv, StreamHasItsOwner, FruitInv,
         Pulse!StreamHasItsServer, PipeWire!LoopHasItsOwner
<1> QED BY <1>3, <1>4, <1>5 DEF OInv

\* What fits lands on any of them, and a write() that is done says how far the ramp got.
LEMMA WritesOn ==
    ASSUME OInv, WriteLands, UNCHANGED backend
    PROVE  OInv'
<1>1. UNCHANGED <<server, gain, last_format, recovery_, stopping, main, player_format, fruitless,
                  backend>>
  BY DEF WriteLands
<1>2. OTypes'
  BY <1>1, Lands DEF OInv, OTypes
<1>3. writer.pc = "loop"
  BY DEF WriteLands
<1>4. FormatInv' /\ WriterInv' /\ StopInv' /\ StreamHasItsOwner' /\ FruitInv'
  BY <1>1, <1>3, Lands
     DEF OInv, FormatInv, WriterInv, Owns, StopInv, StreamHasItsOwner, FruitInv,
         Pulse!StreamHasItsServer, PipeWire!LoopHasItsOwner
<1> QED BY <1>2, <1>4, Lands DEF OInv

\* However a write() ends that leaves its stream alone.
LEMMA WriteEnds ==
    ASSUME OInv, writer.pc # "idle", NEW broken \in BOOLEAN, finish(stream, broken),
           broken => backend = "alsa" \/ stream.state # "running",
           NothingAdded(stream'), stream' \in Stream,
           stream'.state = stream.state \/ (backend = "alsa" /\ stream'.state # "none" /\ stream.state # "none"),
           UNCHANGED <<server, last_format, recovery_, stopping, main, player_format, backend>>
    PROVE  OInv'
<1>1. /\ writer' = idle_writer /\ writer' \in Writer /\ writer'.done <= writer'.length
      /\ gain' \in [current : Gain, target : Gain]
      /\ fruitless' \in 0..2
      /\ ~ broken => fruitless' = 0
      /\ fruitless = 0 => fruitless' \in {0, 1}
      /\ QueueInv' /\ RampInv'
  BY Ends
<1>2. writer'.pc = "idle" /\ stream'.format = stream.format
  BY <1>1 DEF idle_writer, NothingAdded
<1>3. OTypes'
  BY <1>1 DEF OInv, OTypes
<1>4. FormatInv' /\ WriterInv' /\ StopInv' /\ StreamHasItsOwner'
  BY <1>1, <1>2
     DEF OInv, FormatInv, WriterInv, Owns, StopInv, StreamHasItsOwner,
         Pulse!StreamHasItsServer, PipeWire!LoopHasItsOwner
<1>5. FruitInv'
  <2>1. backend # "alsa" => fruitless = 0
    BY DEF OInv, OTypes, FruitInv
  <2>2. backend # "alsa" => stream'.state = stream.state
    OBVIOUS
  <2> QED BY <1>1, <1>2, <2>1, <2>2 DEF FruitInv
<1> QED BY <1>1, <1>3, <1>4, <1>5 DEF OInv

\* The device plays from the front of the queue, or drops it as it was asked to, and may die.
LEMMA DevicePlays ==
    ASSUME OInv, stream.state = "running",
           stream' \in Stream, stream'.state \in {"running", "failed"},
           \/ stream'.queue = <<>>
           \/ stream'.queue = stream.queue /\ stream'.drain = stream.drain
           \/ /\ stream.queue # <<>> /\ stream'.queue = Tail(stream.queue)
              /\ stream'.drain = stream.drain,
           stream'.format = stream.format, stream'.last = stream.last,
           stream'.smooth = stream.smooth, stream'.moved = stream.moved,
           server' = server \/ (backend = "pulse" /\ server' = "lost"),
           UNCHANGED <<gain, last_format, recovery_, stopping, writer, main, player_format,
                       fruitless, backend>>
    PROVE  OInv'
<1>1. PlaysWhatItWasGiven'
  <2>1. CASE stream'.queue = <<>>
    BY <2>1 DEF PlaysWhatItWasGiven
  <2>2. CASE stream'.queue = stream.queue /\ stream'.drain = stream.drain
    BY <2>2 DEF OInv, QueueInv, PlaysWhatItWasGiven
  <2>3. CASE /\ stream.queue # <<>> /\ stream'.queue = Tail(stream.queue)
             /\ stream'.drain = stream.drain
    <3>1. stream.queue \in Seq(Frame)
      BY Fields
    <3>2. /\ DOMAIN Tail(stream.queue) = 1..(Len(stream.queue) - 1)
          /\ \A i \in 1..(Len(stream.queue) - 1) : Tail(stream.queue)[i] = stream.queue[i + 1]
          /\ DOMAIN stream.queue = 1..Len(stream.queue) /\ Len(stream.queue) \in Nat
      BY <2>3, <3>1
    <3>3. \A i \in 1..(Len(stream.queue) - 1) : i + 1 \in DOMAIN stream.queue
      BY <3>2
    <3> QED BY <2>3, <3>2, <3>3 DEF OInv, QueueInv, PlaysWhatItWasGiven
  <2> QED BY <2>1, <2>2, <2>3
<1>2. QueueInv' /\ RampInv'
  BY <1>1 DEF OInv, QueueInv, RampInv, reached
<1>3. OTypes'
  BY DEF OInv, OTypes
<1>4. FormatInv' /\ WriterInv' /\ StopInv' /\ StreamHasItsOwner' /\ FruitInv'
  BY DEF OInv, FormatInv, WriterInv, Owns, StopInv, StreamHasItsOwner, FruitInv,
         Pulse!StreamHasItsServer, PipeWire!LoopHasItsOwner
<1> QED BY <1>2, <1>3, <1>4 DEF OInv

\* The writer goes from one place to another where it keeps the mutex, or parks.
LEMMA WriterMoves ==
    ASSUME OInv, NEW pc \in {"loop", "waiting", "parked"}, writer' = [writer EXCEPT !.pc = pc],
           writer.pc # "idle", Owns, stream' \in Stream, NothingAdded(stream'),
           stream'.state = stream.state,
           UNCHANGED <<server, gain, last_format, recovery_, stopping, main, player_format,
                       fruitless, backend>>
    PROVE  OInv'
<1>1. /\ writer' \in Writer /\ writer'.done = writer.done /\ writer'.length = writer.length
      /\ writer'.pc = pc /\ writer'.start = writer.start /\ writer'.target = writer.target
      /\ writer'.format = writer.format /\ writer'.stale = writer.stale
  BY DEF OInv, OTypes, Writer
<1>2. QueueInv' /\ RampInv'
  <2>1. reached' = reached
    BY <1>1 DEF reached
  <2> QED BY <2>1, SameStream
<1>3. OTypes'
  BY <1>1 DEF OInv, OTypes
<1>4. stream'.format = stream.format
  BY DEF NothingAdded
<1>5. FormatInv' /\ WriterInv' /\ StopInv' /\ StreamHasItsOwner' /\ FruitInv'
  BY <1>1, <1>4
     DEF OInv, FormatInv, WriterInv, Owns, StopInv, StreamHasItsOwner, FruitInv,
         Pulse!StreamHasItsServer, PipeWire!LoopHasItsOwner
<1> QED BY <1>2, <1>3, <1>5 DEF OInv

\* A write() with no stream to be had swallows its audio.
LEMMA Swallows ==
    ASSUME OInv, writer.pc = "idle", discard, UNCHANGED <<stream, gain, server>>,
           recovery_' \in Recovery,
           UNCHANGED <<last_format, stopping, main, player_format, backend>>
    PROVE  OInv'
<1>1. writer' = idle_writer /\ fruitless' = 0
  BY DEF discard
<1>2. writer' \in Writer /\ writer'.done <= writer'.length /\ writer'.pc = "idle"
  BY <1>1, IdleWriter
<1>3. QueueInv' /\ RampInv'
  <2>1. reached' = reached
    BY <1>2 DEF reached
  <2> QED BY <2>1, SameStream DEF NothingAdded
<1>4. OTypes'
  BY <1>1, <1>2 DEF OInv, OTypes
<1>5. FormatInv' /\ WriterInv' /\ StopInv' /\ StreamHasItsOwner' /\ FruitInv'
  BY <1>1, <1>2
     DEF OInv, FormatInv, WriterInv, Owns, StopInv, StreamHasItsOwner, FruitInv,
         Pulse!StreamHasItsServer, PipeWire!LoopHasItsOwner
<1> QED BY <1>3, <1>4, <1>5 DEF OInv

\* A stream is opened, or is not, while no write() is at work on the one before.
Opened(s, f, outcome) ==
    /\ New(s) /\ s.moved
    /\ s.state = IF outcome = "running" THEN "running" ELSE "none"
    /\ s.state # "none" => s.format = f

LEMMA MainOpens ==
    ASSUME OInv, NEW f \in Formats, NEW outcome \in {"running", "refused", "rejected", "silent"},
           backend \in {"pulse", "pipewire"},
           main = "loop", ~ stopping, writer.pc \in {"idle", "parked"},
           Opened(stream', f, outcome),
           server' \in {"none", "ready", "lost"}, outcome = "running" => server' = "ready",
           gain' \in [current : Gain, target : Gain],
           last_format' = f, player_format' = f, recovery_' \in Recovery,
           fruitless' = IF outcome = "running" THEN 0 ELSE fruitless,
           writer' \in Writer, writer'.done <= writer'.length, writer'.pc = writer.pc,
           UNCHANGED <<stopping, main, backend>>
    PROVE  OInv'
<1>1. QueueInv' /\ RampInv'
  BY NewStream DEF Opened
<1>2. OTypes'
  BY DEF OInv, OTypes, Opened, New
<1>3. FormatInv' /\ WriterInv' /\ StopInv' /\ StreamHasItsOwner' /\ FruitInv'
  BY Fields
     DEF OInv, OTypes, FormatInv, WriterInv, Owns, StopInv, StreamHasItsOwner, FruitInv, Opened,
         Pulse!StreamHasItsServer, PipeWire!LoopHasItsOwner
<1> QED BY <1>1, <1>2, <1>3 DEF OInv

\* write() opens one itself, or swallows its audio.
LEMMA WriteOpens ==
    ASSUME OInv, backend \in {"pulse", "pipewire"},
           NEW outcome \in {"running", "refused", "rejected", "silent"},
           writer.pc = "idle", last_format # None, ~ stopping,
           Opened(stream', last_format, outcome),
           server' \in {"none", "ready", "lost"}, outcome = "running" => server' = "ready",
           gain' \in [current : Gain, target : Gain], recovery_' \in Recovery,
           writer' \in Writer, writer'.done <= writer'.length, fruitless' = 0,
           IF outcome = "running"
           THEN writer'.pc = "opened" /\ writer'.format = player_format /\ ~ writer'.stale
           ELSE writer'.pc = "idle",
           UNCHANGED <<last_format, stopping, main, player_format, backend>>
    PROVE  OInv'
<1>1. QueueInv' /\ RampInv'
  BY NewStream DEF Opened
<1>2. OTypes'
  BY DEF OInv, OTypes, Opened, New
<1>3. FormatInv' /\ WriterInv' /\ StopInv' /\ StreamHasItsOwner' /\ FruitInv'
  BY Fields
     DEF OInv, OTypes, FormatInv, WriterInv, Owns, StopInv, StreamHasItsOwner, FruitInv, Opened,
         Pulse!StreamHasItsServer, PipeWire!LoopHasItsOwner
<1> QED BY <1>1, <1>2, <1>3 DEF OInv

\* Whichever it is, as reopen_in_place_() leaves it.
LEMMA WriteReopens ==
    ASSUME OInv, backend \in {"pulse", "pipewire"}, NEW frames \in Nat,
           NEW outcome \in {"running", "refused", "rejected", "silent"},
           writer.pc = "idle", last_format # None, ~ stopping,
           Opened(stream', last_format, outcome),
           server' \in {"none", "ready", "lost"}, outcome = "running" => server' = "ready",
           gain' \in [current : Gain, target : Gain], recovery_' \in Recovery,
           IF outcome = "running"
           THEN /\ writer' = [begun(frames, snapped(gain)) EXCEPT !.pc = "opened"]
                /\ fruitless' = 0
           ELSE discard,
           UNCHANGED <<last_format, stopping, main, player_format, backend>>
    PROVE  OInv'
<1>1. /\ writer' \in Writer /\ writer'.done <= writer'.length /\ fruitless' = 0
      /\ IF outcome = "running"
         THEN writer'.pc = "opened" /\ writer'.format = player_format /\ ~ writer'.stale
         ELSE writer'.pc = "idle"
  <2>1. CASE outcome = "running"
    <3> DEFINE g == snapped(gain)
               w == begun(frames, g)
    <3>1. g \in [current : Gain, target : Gain]
      BY Snaps DEF OInv, OTypes
    <3>2. writer' = [w EXCEPT !.pc = "opened"] /\ fruitless' = 0
      BY <2>1
    <3> HIDE DEF g
    <3>3. w = begun(frames, g)
      OBVIOUS
    <3> HIDE DEF w
    <3> QED BY <2>1, <3>1, <3>2, <3>3, Begins
  <2>2. CASE outcome # "running"
    <3>1. discard
      BY <2>2
    <3>2. writer' = idle_writer /\ fruitless' = 0
      BY <3>1 DEF discard
    <3> QED BY <2>2, <3>2, IdleWriter
  <2> QED BY <2>1, <2>2
<1> QED BY <1>1, WriteOpens

\* On a stream there is, write() begins where the gain was left.
LEMMA WriteBegins ==
    ASSUME OInv, writer.pc = "idle", NEW frames \in Nat, player_format # None,
           stream.state = "running" \/ (backend = "alsa" /\ stream.state # "none"),
           stream' \in Stream, NothingAdded(stream'), stream'.state = stream.state,
           writer' = begun(frames, gain),
           UNCHANGED <<server, gain, last_format, recovery_, stopping, main, player_format,
                       fruitless, backend>>
    PROVE  OInv'
<1>1. gain \in [current : Gain, target : Gain]
  BY DEF OInv, OTypes
<1> DEFINE w == begun(frames, gain)
<1>2. writer' = [w EXCEPT !.pc = "loop"]
  BY DEF begun, idle_writer
<1>3. /\ writer' \in Writer /\ writer'.done <= writer'.length
      /\ writer'.pc = "loop" /\ writer'.format = player_format /\ ~ writer'.stale
      /\ reached' = gain.current
  <2> HIDE DEF w
  <2>1. w = begun(frames, gain)
    BY DEF w
  <2> QED BY <1>1, <1>2, <2>1, Begins
<1>4. reached' = reached
  BY <1>3 DEF reached
<1>5. QueueInv' /\ RampInv'
  BY <1>4, SameStream
<1>6. OTypes'
  BY <1>3 DEF OInv, OTypes
<1>7. stream'.format = stream.format
  BY DEF NothingAdded
<1>8. FormatInv' /\ WriterInv' /\ StopInv' /\ StreamHasItsOwner' /\ FruitInv'
  BY <1>3, <1>7
     DEF OInv, OTypes, FormatInv, WriterInv, Owns, StopInv, StreamHasItsOwner, FruitInv,
         Pulse!StreamHasItsServer, PipeWire!LoopHasItsOwner
<1> QED BY <1>5, <1>6, <1>8 DEF OInv

\* stop() came while write() was opening a stream: it is closed again.
LEMMA ReopenedTooLate ==
    ASSUME OInv, writer.pc = "opened", New(stream'), stream'.state = "none", discard,
           UNCHANGED <<server, gain, last_format, recovery_, stopping, main, player_format, backend>>
    PROVE  OInv'
<1>1. writer' = idle_writer /\ fruitless' = 0
  BY DEF discard
<1>2. writer' \in Writer /\ writer'.done <= writer'.length /\ writer'.pc = "idle"
  BY <1>1, IdleWriter
<1>3. OTypes'
  BY <1>1, <1>2 DEF OInv, OTypes, New
<1>4. FormatInv' /\ WriterInv' /\ StopInv' /\ StreamHasItsOwner' /\ FruitInv'
  BY <1>1, <1>2
     DEF OInv, FormatInv, WriterInv, Owns, StopInv, StreamHasItsOwner, FruitInv,
         Pulse!StreamHasItsServer, PipeWire!LoopHasItsOwner
<1> QED BY <1>3, <1>4, NewStream DEF OInv

\* stop() closes what there is, and nothing is opened after it.
LEMMA StopCloses ==
    ASSUME OInv, main = "stop", writer.pc \in {"idle", "parked"},
           New(stream'), stream'.state = "none", main' = "loop", last_format' = None,
           server' \in {"none", "ready", "lost"}, backend = "pipewire" => server' = "none",
           UNCHANGED <<gain, recovery_, stopping, writer, player_format, fruitless, backend>>
    PROVE  OInv'
<1>1. OTypes'
  BY DEF OInv, OTypes, New
<1>2. FormatInv' /\ WriterInv' /\ StopInv' /\ StreamHasItsOwner' /\ FruitInv'
  BY DEF OInv, FormatInv, WriterInv, Owns, StopInv, StreamHasItsOwner, FruitInv,
         Pulse!StreamHasItsServer, PipeWire!LoopHasItsOwner
<1> QED BY <1>1, <1>2, NewStream DEF OInv

-----------------------------------------------------------------------------
(* PulseAudio.                                                              *)

\* What PulseSink has of OutputSink is OutputSink's.
LEMMA PulseShares ==
    /\ Pulse!set_volume <=> set_volume
    /\ Pulse!StopLatch <=> StopLatch
    /\ Pulse!discard <=> discard
    /\ \A s, b : Pulse!finish(s, b) <=> finish(s, b)
    /\ Pulse!WriteLands <=> WriteLands
    /\ Pulse!WriteReturns <=> WriteReturns
    /\ Pulse!disowned_writer = disowned_writer
    /\ \A g : Pulse!snapped(g) = snapped(g)
    /\ \A s : Pulse!flushed(s) = flushed(s)
    /\ \A frames, g : Pulse!begun(frames, g) = begun(frames, g)
    /\ Pulse!fresh_recovery = fresh_recovery
    /\ \A r : Pulse!after_reopen_due(r) = after_reopen_due(r)
    /\ \A r, b : Pulse!reopen_done(r, b) = reopen_done(r, b)
    /\ \A r, n : Pulse!after_rescan_due(r, n) = after_rescan_due(r, n)
    /\ \A r, b : Pulse!rescan_done(r, b) = rescan_done(r, b)
<1>1. \A s, b : Pulse!finish(s, b) <=> finish(s, b)
  BY DEF Pulse!finish, finish, Pulse!idle_writer, idle_writer, Pulse!ramped_gain, ramped_gain,
         Pulse!distance, distance, Pulse!ramp_step_, ramp_step_, Pulse!volume_ramp_step,
         volume_ramp_step
<1>2. Pulse!set_volume <=> set_volume
  BY DEF Pulse!set_volume, set_volume, Pulse!q32_gain_for, q32_gain_for, Pulse!amplitude,
         amplitude, Pulse!Gain, Gain, Pulse!cube, cube
<1>3. \A s, n : Pulse!queued(s, n) = queued(s, n)
  BY DEF Pulse!queued, queued, Pulse!near, near, Pulse!apply_volume_ramp, apply_volume_ramp,
         Pulse!ramped_gain, ramped_gain, Pulse!distance, distance, Pulse!ramp_step_, ramp_step_,
         Pulse!volume_ramp_step, volume_ramp_step, Pulse!NoGain, NoGain
<1>4. Pulse!WriteLands <=> WriteLands
  BY <1>3, Zenon DEF Pulse!WriteLands, WriteLands, Pulse!room, room, Pulse!left, left
<1>5. Pulse!WriteReturns <=> WriteReturns
  BY <1>1 DEF Pulse!WriteReturns, WriteReturns, Pulse!left, left
<1>6. /\ Pulse!StopLatch <=> StopLatch
      /\ Pulse!discard <=> discard
      /\ Pulse!disowned_writer = disowned_writer
      /\ \A g : Pulse!snapped(g) = snapped(g)
      /\ \A s : Pulse!flushed(s) = flushed(s)
      /\ \A frames, g : Pulse!begun(frames, g) = begun(frames, g)
  BY DEF Pulse!StopLatch, StopLatch, Pulse!notify, notify, Pulse!discard, discard,
         Pulse!idle_writer, idle_writer, Pulse!disowned_writer, disowned_writer,
         Pulse!snapped, snapped, Pulse!flushed, flushed, Pulse!NoGain, NoGain,
         Pulse!begun, begun
<1>7. \A r, n : Pulse!after_rescan_due(r, n) = after_rescan_due(r, n)
  <2>1. Pulse!doubled = doubled
    BY Zenon DEF Pulse!doubled, doubled
  <2> QED BY <2>1, Zenon
          DEF Pulse!after_rescan_due, after_rescan_due, Pulse!rescan_due, rescan_due,
              Pulse!NOT_STAMPED, NOT_STAMPED, Pulse!delay_for_, delay_for_
<1>8. /\ Pulse!fresh_recovery = fresh_recovery
      /\ \A r : Pulse!after_reopen_due(r) = after_reopen_due(r)
      /\ \A r, b : Pulse!reopen_done(r, b) = reopen_done(r, b)
      /\ \A r, b : Pulse!rescan_done(r, b) = rescan_done(r, b)
  BY DEF Pulse!fresh_recovery, fresh_recovery, Pulse!after_reopen_due, after_reopen_due,
         Pulse!reopen_due, reopen_due, Pulse!escalate_, escalate_, Pulse!reopen_done, reopen_done,
         Pulse!rescan_done, rescan_done, Pulse!NOT_STAMPED, NOT_STAMPED
<1> QED BY <1>1, <1>2, <1>4, <1>5, <1>6, <1>7, <1>8

\* Closing leaves nothing of a stream.
LEMMA PulseCloses ==
    ASSUME NEW s \in Stream
    PROVE  New(Pulse!close_stream_(s)) /\ Pulse!close_stream_(s).state = "none"
           /\ Pulse!close_stream_(s).moved
<1> DEFINE f == flushed(s)
           c == [f EXCEPT !.state = "none", !.format = None, !.moved = TRUE, !.smooth = TRUE]
<1>1. Pulse!close_stream_(s) = c
  BY PulseShares DEF Pulse!close_stream_
<1>2. f = flushed(s)
  OBVIOUS
<1> HIDE DEF f
<1>3. f \in Stream /\ f.queue = <<>> /\ f.last = NoGain
  BY <1>2, Flushed
<1>4. New(c) /\ c.state = "none" /\ c.moved
  BY <1>3 DEF New, Stream
<1> QED BY <1>1, <1>4

\* Opening one in its place has nothing of it either.
LEMMA PulseOpens ==
    ASSUME NEW s \in Stream, NEW f \in Formats, NEW outcome \in Pulse!Outcomes
    PROVE  Opened(Pulse!open_stream_(Pulse!close_stream_(s), f, outcome), f, outcome)
<1> DEFINE c == Pulse!close_stream_(s)
           p == Pulse!prepared(c, f)
           r == Pulse!open_stream_(c, f, outcome)
<1>1. New(c) /\ c.state = "none" /\ c.moved /\ c \in Stream
  BY PulseCloses DEF New
<1> HIDE DEF c
<1>2. New(p) /\ p.state = "none" /\ p.moved /\ p.format = f /\ p \in Stream
  BY <1>1 DEF Pulse!prepared, New, Stream
<1>3. New(Pulse!close_stream_(p)) /\ Pulse!close_stream_(p).state = "none"
      /\ Pulse!close_stream_(p).moved
  BY <1>2, PulseCloses
<1> HIDE DEF p
<1>4. CASE outcome = "refused"
  <2>1. r = c
    BY <1>4 DEF Pulse!open_stream_
  <2> QED BY <1>1, <1>4, <2>1 DEF Opened, c
<1>5. CASE outcome = "rejected"
  <2>1. r = p
    BY <1>5 DEF Pulse!open_stream_, p
  <2> QED BY <1>2, <1>5, <2>1 DEF Opened, c
<1>6. CASE outcome = "silent"
  <2>1. r = Pulse!close_stream_(p)
    BY <1>6 DEF Pulse!open_stream_, p
  <2> QED BY <1>3, <1>6, <2>1 DEF Opened, c
<1>7. CASE outcome = "running"
  <2>1. r = [p EXCEPT !.state = "running"]
    BY <1>7 DEF Pulse!open_stream_, p
  <2>2. Opened([p EXCEPT !.state = "running"], f, outcome)
    BY <1>2, <1>7 DEF Opened, New, Stream
  <2> QED BY <2>1, <2>2 DEF c
<1> QED BY <1>4, <1>5, <1>6, <1>7 DEF Pulse!Outcomes

\* It opens at the gain it is meant to be at, whatever becomes of it.
LEMMA PulseOpensAtGain ==
    ASSUME OInv, NEW outcome
    PROVE  Pulse!opened_gain(outcome) \in [current : Gain, target : Gain]
BY PulseShares, Snaps DEF Pulse!opened_gain, OInv, OTypes

\* configure(), on the connection there is, on a new one, or with none to be had.
LEMMA PulseConfigures ==
    ASSUME OInv, backend = "pulse", UNCHANGED backend, NEW f \in Formats, Pulse!configure(f)
    PROVE  OInv'
<1>0. /\ main = "loop" /\ writer.pc \in {"idle", "parked"} /\ player_format' = f
      /\ writer' = disowned_writer /\ UNCHANGED <<stopping, main>>
      /\ stream \in Stream
  BY PulseShares DEF Pulse!configure, Pulse!mutex_free, OInv, OTypes
<1>1. writer' \in Writer /\ writer'.done <= writer'.length /\ writer'.pc = writer.pc
  BY <1>0, Disowns
<1>2. CASE Pulse!ConfigureIgnored
  <2>1. stopping /\ UNCHANGED <<stream, server, gain, last_format, recovery_, fruitless>>
    BY <1>2 DEF Pulse!ConfigureIgnored
  <2>2. stream.state = "none" /\ New(stream')
    BY <1>0, <2>1, NoStreamIsNew DEF OInv, StopInv
  <2>3. OTypes'
    BY <1>0, <1>1, <2>1 DEF OInv, OTypes
  <2>4. FormatInv' /\ WriterInv' /\ StopInv' /\ StreamHasItsOwner' /\ FruitInv'
    BY <1>0, <1>1, <2>1, <2>2
       DEF OInv, FormatInv, WriterInv, Owns, StopInv, StreamHasItsOwner, FruitInv,
           Pulse!StreamHasItsServer, PipeWire!LoopHasItsOwner
  <2> QED BY <2>2, <2>3, <2>4, NewStream DEF OInv
<1>3. CASE Pulse!ConfigureAlone(f)
  <2>1. /\ ~ stopping /\ last_format' = f /\ stream' = Pulse!close_stream_(stream)
        /\ server' = "none" /\ UNCHANGED <<gain, recovery_, fruitless>>
    BY <1>3 DEF Pulse!ConfigureAlone, Pulse!connect
  <2>2. Opened(stream', f, "refused")
    BY <1>0, <2>1, PulseCloses DEF Opened
  <2>3. gain' \in [current : Gain, target : Gain] /\ recovery_' \in Recovery
    BY <2>1 DEF OInv, OTypes
  <2> QED BY <1>0, <1>1, <2>1, <2>2, <2>3, MainOpens
<1>4. ASSUME NEW outcome \in Pulse!Outcomes, Pulse!ConfigureOpens(f, outcome)
      PROVE  OInv'
  <2>1. /\ ~ stopping /\ last_format' = f
        /\ stream' = Pulse!open_stream_(Pulse!close_stream_(stream), f, outcome)
        /\ server' = "ready"
        /\ gain' = Pulse!opened_gain(outcome)
        /\ recovery_' \in {fresh_recovery, recovery_}
        /\ fruitless' = IF outcome = "running" THEN 0 ELSE fruitless
    BY <1>4, PulseShares DEF Pulse!ConfigureOpens, Pulse!connect, Pulse!ready
  <2>2. Opened(stream', f, outcome)
    BY <1>0, <2>1, PulseOpens
  <2>3. gain' \in [current : Gain, target : Gain] /\ recovery_' \in Recovery
    BY <2>1, PulseOpensAtGain, PolicyKept DEF OInv, OTypes
  <2> QED BY <1>0, <1>1, <2>1, <2>2, <2>3, MainOpens DEF Pulse!Outcomes
<1> QED BY <1>2, <1>3, <1>4 DEF Pulse!configure

\* clear() drops what is queued, and the write() that waits with more.
LEMMA PulseClears ==
    ASSUME OInv, backend = "pulse", UNCHANGED backend, Pulse!clear
    PROVE  OInv'
<1>0. /\ main = "loop" /\ writer.pc \in {"idle", "parked"} /\ writer' = disowned_writer
      /\ gain' = snapped(gain)
      /\ UNCHANGED <<server, last_format, recovery_, stopping, main, player_format, fruitless>>
      /\ stream \in Stream
  BY PulseShares DEF Pulse!clear, Pulse!mutex_free, OInv, OTypes
<1>1. writer' \in Writer /\ writer'.done <= writer'.length /\ writer'.pc = writer.pc
  BY <1>0, Disowns
<1>2. gain' \in [current : Gain, target : Gain]
  BY <1>0, Snaps DEF OInv, OTypes
<1>3. New(stream') /\ stream'.state = stream.state /\ stream'.format = stream.format /\ stream'.moved
  <2>1. CASE stream.state = "none"
    <3>1. stream' = [stream EXCEPT !.moved = TRUE] /\ New(stream)
      BY <2>1, NoStreamIsNew DEF Pulse!clear
    <3> QED BY <3>1 DEF New, Stream
  <2>2. CASE stream.state # "none"
    <3> DEFINE f == flushed(stream)
    <3>1. stream' = [f EXCEPT !.moved = TRUE] /\ f = flushed(stream)
      BY <2>2, PulseShares DEF Pulse!clear
    <3> HIDE DEF f
    <3>2. /\ f \in Stream /\ f.queue = <<>> /\ f.last = NoGain /\ f.smooth = stream.smooth
          /\ f.state = stream.state /\ f.format = stream.format
      BY <1>0, <3>1, Flushed
    <3>3. stream.smooth
      BY DEF OInv, RampInv
    <3> QED BY <3>1, <3>2, <3>3 DEF New, Stream
  <2> QED BY <2>1, <2>2
<1>4. OTypes'
  BY <1>0, <1>1, <1>2, <1>3 DEF OInv, OTypes, New
<1>5. FormatInv' /\ WriterInv' /\ StopInv' /\ StreamHasItsOwner' /\ FruitInv'
  BY <1>0, <1>1, <1>3
     DEF OInv, FormatInv, WriterInv, Owns, StopInv, StreamHasItsOwner, FruitInv,
         Pulse!StreamHasItsServer, PipeWire!LoopHasItsOwner
<1> QED BY <1>3, <1>4, <1>5, NewStream DEF OInv

\* The main loop's second attempt, or the stamp of when it is to be made.
LEMMA PulsePolls ==
    ASSUME OInv, backend = "pulse", UNCHANGED backend, NEW now_ms \in Nat, Pulse!poll(now_ms)
    PROVE  OInv'
<1> DEFINE asked == after_rescan_due(recovery_, now_ms)
<1>0. /\ main = "loop" /\ ~ stopping /\ writer.pc \in {"idle", "parked"}
      /\ last_format # None /\ last_format \in Formats /\ last_format = player_format
      /\ UNCHANGED <<last_format, stopping, writer, main, player_format>>
      /\ stream \in Stream /\ asked \in Recovery
      /\ writer \in Writer /\ writer.done <= writer.length
  BY PolicyKept DEF Pulse!poll, Pulse!mutex_free, OInv, OTypes, FormatInv
<1>1. CASE recovery_' = asked /\ UNCHANGED <<stream, server, gain, fruitless>>
  BY <1>0, <1>1
     DEF OInv, OTypes, QueueInv, PlaysWhatItWasGiven, RampInv, reached, FormatInv, WriterInv,
         Owns, StopInv, StreamHasItsOwner, FruitInv, Pulse!StreamHasItsServer,
         PipeWire!LoopHasItsOwner
<1>2. CASE Pulse!StaysAway(asked)
  <2>1. /\ stream' = Pulse!close_stream_(stream) /\ server' = "none"
        /\ recovery_' = rescan_done(asked, FALSE) /\ UNCHANGED <<gain, fruitless>>
    BY <1>2, PulseShares DEF Pulse!StaysAway, Pulse!connect
  <2>2. Opened(stream', last_format, "refused")
    BY <1>0, <2>1, PulseCloses DEF Opened
  <2>3. gain' \in [current : Gain, target : Gain] /\ recovery_' \in Recovery
    BY <1>0, <2>1, PolicyKept DEF OInv, OTypes
  <2> HIDE DEF asked
  <2> QED BY <1>0, <2>1, <2>2, <2>3, MainOpens
<1>3. ASSUME NEW outcome \in Pulse!Outcomes, Pulse!Reconnects(asked, outcome)
      PROVE  OInv'
  <2>1. /\ stream' = Pulse!open_stream_(Pulse!close_stream_(stream), last_format, outcome)
        /\ server' = "ready" /\ gain' = Pulse!opened_gain(outcome)
        /\ recovery_' = rescan_done(asked, outcome = "running")
        /\ fruitless' = IF outcome = "running" THEN 0 ELSE fruitless
    BY <1>3, PulseShares DEF Pulse!Reconnects, Pulse!connect
  <2>2. Opened(stream', last_format, outcome)
    BY <1>0, <2>1, PulseOpens
  <2>3. gain' \in [current : Gain, target : Gain] /\ recovery_' \in Recovery
    BY <1>0, <2>1, PulseOpensAtGain, PolicyKept DEF OInv, OTypes
  <2> HIDE DEF asked
  <2> QED BY <1>0, <2>1, <2>2, <2>3, MainOpens DEF Pulse!Outcomes
<1> QED BY <1>1, <1>2, <1>3, PulseShares DEF Pulse!poll

\* write(): on the stream there is, or on one it opens, or on none.
LEMMA PulseWrites ==
    ASSUME OInv, backend = "pulse", UNCHANGED backend, NEW frames \in Nat, Pulse!write(frames)
    PROVE  OInv'
<1>0. /\ writer.pc = "idle" /\ player_format # None
      /\ UNCHANGED <<server, last_format, stopping, main, player_format>>
      /\ stream \in Stream /\ recovery_ \in Recovery /\ gain \in [current : Gain, target : Gain]
  BY DEF Pulse!write, OInv, OTypes
<1>1. CASE /\ Pulse!alive /\ writer' = begun(frames, gain)
           /\ stream' = [stream EXCEPT !.moved = FALSE]
           /\ UNCHANGED <<gain, recovery_, fruitless>>
  <2>1. stream.state = "running" /\ stream'.state = stream.state
    BY <1>0, <1>1 DEF Pulse!alive, Stream
  <2>2. stream' \in Stream /\ NothingAdded(stream')
    BY <1>0, <1>1 DEF Stream, NothingAdded
  <2> QED BY <1>0, <1>1, <2>1, <2>2, WriteBegins
<1>2. CASE Pulse!reopen_in_place_(frames)
  <2> DEFINE asked == after_reopen_due(recovery_)
  <2>0. asked \in Recovery
    BY <1>0, PolicyKept
  <2>1. CASE discard /\ UNCHANGED <<stream, gain>> /\ recovery_' \in Recovery
    BY <1>0, <2>1, Swallows
  <2>2. ASSUME ~ stopping, last_format # None, server = "ready", NEW outcome \in Pulse!Outcomes,
               stream' = Pulse!open_stream_(Pulse!close_stream_(stream), last_format, outcome),
               gain' = Pulse!opened_gain(outcome),
               recovery_' = reopen_done(asked, outcome = "running"),
               IF outcome = "running"
               THEN /\ writer' = [begun(frames, snapped(gain)) EXCEPT !.pc = "opened"]
                    /\ fruitless' = 0
               ELSE discard
        PROVE  OInv'
    <3>1. last_format \in Formats
      BY <2>2 DEF OInv, OTypes
    <3>2. Opened(stream', last_format, outcome)
      BY <1>0, <2>2, <3>1, PulseOpens
    <3>3. gain' \in [current : Gain, target : Gain] /\ recovery_' \in Recovery
      BY <2>0, <2>2, PulseOpensAtGain, PolicyKept
    <3>4. server' = "ready"
      BY <1>0, <2>2
    <3> HIDE DEF asked
    <3> QED BY <1>0, <2>2, <3>2, <3>3, <3>4, WriteReopens DEF Pulse!Outcomes
  <2>3. recovery_ \in Recovery /\ asked \in Recovery /\ reopen_done(asked, FALSE) \in Recovery
    BY <1>0, <2>0, PolicyKept
  <2> QED BY <1>2, <2>1, <2>2, <2>3, PulseShares DEF Pulse!reopen_in_place_, Pulse!ready
<1> QED BY <1>1, <1>2, PulseShares DEF Pulse!write

\* stop() closes the stream there is, and leaves the connection as it stands.
LEMMA PulseStops ==
    ASSUME OInv, backend = "pulse", UNCHANGED backend, Pulse!StopClose
    PROVE  OInv'
<1>1. /\ main = "stop" /\ writer.pc \in {"idle", "parked"} /\ last_format' = None /\ main' = "loop"
      /\ UNCHANGED <<server, gain, recovery_, stopping, writer, player_format, fruitless>>
      /\ stream \in Stream /\ server' \in {"none", "ready", "lost"}
  BY DEF Pulse!StopClose, Pulse!mutex_free, OInv, OTypes
<1>2. New(stream') /\ stream'.state = "none"
  <2>1. CASE stream.state = "none"
    BY <2>1, NoStreamIsNew DEF Pulse!StopClose
  <2>2. CASE stream.state # "none"
    BY <1>1, <2>2, PulseCloses DEF Pulse!StopClose
  <2> QED BY <2>1, <2>2
<1> QED BY <1>1, <1>2, StopCloses

\* A write() that opened a stream goes on with it, unless stop() came meanwhile.
LEMMA PulseReopened ==
    ASSUME OInv, backend = "pulse", UNCHANGED backend, Pulse!WriteReopened
    PROVE  OInv'
<1>1. /\ writer.pc = "opened" /\ stream \in Stream /\ Owns
      /\ UNCHANGED <<server, gain, last_format, recovery_, stopping, main, player_format>>
  BY DEF Pulse!WriteReopened, OInv, OTypes, WriterInv
<1>2. CASE stopping
  <2>1. stream' = Pulse!close_stream_(stream) /\ discard
    BY <1>2, PulseShares DEF Pulse!WriteReopened
  <2>2. New(stream') /\ stream'.state = "none"
    BY <1>1, <2>1, PulseCloses
  <2> QED BY <1>1, <2>1, <2>2, ReopenedTooLate
<1>3. CASE ~ stopping
  <2>1. /\ stream' = [stream EXCEPT !.moved = FALSE] /\ writer' = [writer EXCEPT !.pc = "loop"]
        /\ UNCHANGED fruitless
    BY <1>3 DEF Pulse!WriteReopened
  <2>2. stream' \in Stream /\ NothingAdded(stream') /\ stream'.state = stream.state
    BY <1>1, <2>1 DEF Stream, NothingAdded
  <2> QED BY <1>1, <2>1, <2>2, WriterMoves
<1> QED BY <1>2, <1>3

\* The rest of write(): it waits, wakes, gives up, or is broken off.
LEMMA PulseWriteGoesOn ==
    ASSUME OInv, backend = "pulse", UNCHANGED backend,
           \/ Pulse!WriteReturns \/ Pulse!WriteBreaks \/ Pulse!WriteWaits
           \/ Pulse!WriteWakes \/ Pulse!WriteTimesOut
    PROVE  OInv'
<1>0. /\ UNCHANGED <<stream, server, last_format, recovery_, stopping, main, player_format>>
      /\ stream \in Stream /\ NothingAdded(stream') /\ stream'.state = stream.state
      /\ writer.pc # "idle"
  BY DEF Pulse!WriteReturns, Pulse!WriteBreaks, Pulse!WriteWaits, Pulse!WriteWakes,
         Pulse!WriteTimesOut, OInv, OTypes, NothingAdded
<1>1. ASSUME NEW broken \in BOOLEAN, finish(stream, broken), broken => stream.state # "running"
      PROVE  OInv'
  BY <1>0, <1>1, WriteEnds
<1>2. ASSUME NEW pc \in {"loop", "parked"}, writer' = [writer EXCEPT !.pc = pc], Owns,
             UNCHANGED <<gain, fruitless>>
      PROVE  OInv'
  BY <1>0, <1>2, WriterMoves
<1>3. CASE Pulse!WriteReturns
  BY <1>1, <1>3, PulseShares DEF Pulse!WriteReturns
<1>4. CASE Pulse!WriteBreaks
  BY <1>1, <1>4, PulseShares DEF Pulse!WriteBreaks
<1>5. CASE Pulse!WriteWaits
  BY <1>2, <1>5 DEF Pulse!WriteWaits, OInv, WriterInv
<1>6. CASE Pulse!WriteWakes
  <2>1. writer.pc = "parked" /\ Pulse!resume
    BY <1>6 DEF Pulse!WriteWakes
  <2>2. CASE stream.state = "none" \/ stream.moved
    BY <1>1, <2>1, <2>2, PulseShares DEF Pulse!resume
  <2>3. CASE ~ (stream.state = "none" \/ stream.moved)
    BY <1>2, <2>1, <2>3 DEF Pulse!resume, OInv, WriterInv
  <2> QED BY <2>2, <2>3
<1>7. CASE Pulse!WriteTimesOut
  BY <1>1, <1>7, PulseShares DEF Pulse!WriteTimesOut
<1> QED BY <1>3, <1>4, <1>5, <1>6, <1>7

\* What the server does on its own.
LEMMA PulseDevice ==
    ASSUME OInv, backend = "pulse", UNCHANGED backend, Pulse!Plays \/ Pulse!StreamDies
    PROVE  OInv'
<1>0. stream \in Stream /\ stream.queue \in Seq(Frame)
  BY Fields DEF OInv, OTypes
<1>1. CASE Pulse!Plays
  <2> DEFINE q == Tail(stream.queue)
  <2>1. /\ stream.state = "running" /\ stream.queue # <<>>
        /\ stream' = [stream EXCEPT !.queue = q]
        /\ UNCHANGED <<server, gain, last_format, recovery_, stopping, writer, main, player_format,
                       fruitless>>
    BY <1>1 DEF Pulse!Plays
  <2>2. q \in Seq(Frame) /\ q = Tail(stream.queue)
    BY <1>0, <2>1
  <2> HIDE DEF q
  <2>3. /\ stream' \in Stream /\ stream'.state = stream.state /\ stream'.queue = q
        /\ stream'.drain = stream.drain /\ stream'.format = stream.format
        /\ stream'.last = stream.last /\ stream'.smooth = stream.smooth
        /\ stream'.moved = stream.moved
    BY <1>0, <2>1, <2>2 DEF Stream
  <2> QED BY <2>1, <2>2, <2>3, DevicePlays
<1>2. CASE Pulse!StreamDies
  <2>1. /\ stream.state = "running" /\ stream' = [stream EXCEPT !.state = "failed"]
        /\ server' \in {server, "lost"}
        /\ UNCHANGED <<gain, last_format, recovery_, stopping, writer, main, player_format,
                       fruitless>>
    BY <1>2 DEF Pulse!StreamDies
  <2>2. /\ stream' \in Stream /\ stream'.state = "failed" /\ stream'.queue = stream.queue
        /\ stream'.drain = stream.drain /\ stream'.format = stream.format
        /\ stream'.last = stream.last /\ stream'.smooth = stream.smooth
        /\ stream'.moved = stream.moved
    BY <1>0, <2>1 DEF Stream
  <2> QED BY <2>1, <2>2, DevicePlays
<1> QED BY <1>1, <1>2

LEMMA PulseNext ==
    ASSUME OInv, backend = "pulse", UNCHANGED backend, Pulse!Next
    PROVE  OInv'
<1>1. ASSUME NEW f \in Formats, Pulse!configure(f) PROVE OInv'
  BY <1>1, PulseConfigures
<1>2. CASE Pulse!clear
  BY <1>2, PulseClears
<1>3. ASSUME NEW now_ms \in {0, SINK_RESCAN_MAX_DELAY_MS}, Pulse!poll(now_ms) PROVE OInv'
  BY <1>3, PulsePolls, RecoveryConstants
<1>4. CASE Pulse!set_volume \/ Pulse!StopLatch \/ Pulse!StopClose
  BY <1>4, PulseShares, SetsVolume, LatchesStop, PulseStops
<1>5. ASSUME NEW frames \in 1..MaxFrames, Pulse!write(frames) PROVE OInv'
  BY <1>5, PulseWrites, OutputAssumption
<1>6. CASE Pulse!WriteReopened \/ Pulse!WriteLands
  BY <1>6, PulseShares, PulseReopened, WritesOn
<1>7. CASE \/ Pulse!WriteReturns \/ Pulse!WriteBreaks \/ Pulse!WriteWaits
           \/ Pulse!WriteWakes \/ Pulse!WriteTimesOut
  BY <1>7, PulseWriteGoesOn
<1>8. CASE Pulse!Plays \/ Pulse!StreamDies
  BY <1>8, PulseDevice
<1> QED
  BY <1>1, <1>2, <1>3, <1>4, <1>5, <1>6, <1>7, <1>8
     DEF Pulse!Next, Pulse!WriteStep

-----------------------------------------------------------------------------
(* PipeWire.                                                                *)

\* What PipeWireSink has of OutputSink is OutputSink's.
LEMMA PipeWireShares ==
    /\ PipeWire!set_volume <=> set_volume
    /\ PipeWire!StopLatch <=> StopLatch
    /\ PipeWire!discard <=> discard
    /\ \A s, b : PipeWire!finish(s, b) <=> finish(s, b)
    /\ PipeWire!WriteLands <=> WriteLands
    /\ PipeWire!WriteReturns <=> WriteReturns
    /\ PipeWire!disowned_writer = disowned_writer
    /\ \A g : PipeWire!snapped(g) = snapped(g)
    /\ \A s : PipeWire!flushed(s) = flushed(s)
    /\ \A s : PipeWire!notify(s) = notify(s) /\ PipeWire!disown(s) = disown(s)
    /\ \A frames, g : PipeWire!begun(frames, g) = begun(frames, g)
    /\ PipeWire!fresh_recovery = fresh_recovery
    /\ \A r : PipeWire!after_reopen_due(r) = after_reopen_due(r)
    /\ \A r, b : PipeWire!reopen_done(r, b) = reopen_done(r, b)
    /\ \A r, n : PipeWire!after_rescan_due(r, n) = after_rescan_due(r, n)
    /\ \A r, b : PipeWire!rescan_done(r, b) = rescan_done(r, b)
<1>1. \A s, b : PipeWire!finish(s, b) <=> finish(s, b)
  BY DEF PipeWire!finish, finish, PipeWire!idle_writer, idle_writer, PipeWire!ramped_gain, ramped_gain,
         PipeWire!distance, distance, PipeWire!ramp_step_, ramp_step_, PipeWire!volume_ramp_step,
         volume_ramp_step
<1>2. PipeWire!set_volume <=> set_volume
  BY DEF PipeWire!set_volume, set_volume, PipeWire!q32_gain_for, q32_gain_for, PipeWire!amplitude,
         amplitude, PipeWire!Gain, Gain, PipeWire!cube, cube
<1>3. \A s, n : PipeWire!queued(s, n) = queued(s, n)
  BY DEF PipeWire!queued, queued, PipeWire!near, near, PipeWire!apply_volume_ramp, apply_volume_ramp,
         PipeWire!ramped_gain, ramped_gain, PipeWire!distance, distance, PipeWire!ramp_step_, ramp_step_,
         PipeWire!volume_ramp_step, volume_ramp_step, PipeWire!NoGain, NoGain
<1>4. PipeWire!WriteLands <=> WriteLands
  BY <1>3, Zenon DEF PipeWire!WriteLands, WriteLands, PipeWire!room, room, PipeWire!left, left
<1>5. PipeWire!WriteReturns <=> WriteReturns
  BY <1>1 DEF PipeWire!WriteReturns, WriteReturns, PipeWire!left, left
<1>6. /\ PipeWire!StopLatch <=> StopLatch
      /\ PipeWire!discard <=> discard
      /\ PipeWire!disowned_writer = disowned_writer
      /\ \A g : PipeWire!snapped(g) = snapped(g)
      /\ \A s : PipeWire!flushed(s) = flushed(s)
      /\ \A s : PipeWire!notify(s) = notify(s) /\ PipeWire!disown(s) = disown(s)
      /\ \A frames, g : PipeWire!begun(frames, g) = begun(frames, g)
  BY DEF PipeWire!StopLatch, StopLatch, PipeWire!notify, notify, PipeWire!discard, discard,
         PipeWire!idle_writer, idle_writer, PipeWire!disowned_writer, disowned_writer,
         PipeWire!snapped, snapped, PipeWire!flushed, flushed, PipeWire!NoGain, NoGain,
         PipeWire!begun, begun, PipeWire!disown, disown
<1>7. \A r, n : PipeWire!after_rescan_due(r, n) = after_rescan_due(r, n)
  <2>1. PipeWire!doubled = doubled
    BY Zenon DEF PipeWire!doubled, doubled
  <2> QED BY <2>1, Zenon
          DEF PipeWire!after_rescan_due, after_rescan_due, PipeWire!rescan_due, rescan_due,
              PipeWire!NOT_STAMPED, NOT_STAMPED, PipeWire!delay_for_, delay_for_
<1>8. /\ PipeWire!fresh_recovery = fresh_recovery
      /\ \A r : PipeWire!after_reopen_due(r) = after_reopen_due(r)
      /\ \A r, b : PipeWire!reopen_done(r, b) = reopen_done(r, b)
      /\ \A r, b : PipeWire!rescan_done(r, b) = rescan_done(r, b)
  BY DEF PipeWire!fresh_recovery, fresh_recovery, PipeWire!after_reopen_due, after_reopen_due,
         PipeWire!reopen_due, reopen_due, PipeWire!escalate_, escalate_, PipeWire!reopen_done, reopen_done,
         PipeWire!rescan_done, rescan_done, PipeWire!NOT_STAMPED, NOT_STAMPED
<1> QED BY <1>1, <1>2, <1>4, <1>5, <1>6, <1>7, <1>8

\* Waking whoever waits for room changes nothing else of the stream.
LEMMA Notified ==
    ASSUME NEW s \in Stream, NEW n, n = notify(s)
    PROVE  /\ n \in Stream /\ n.state = s.state /\ n.format = s.format /\ n.queue = s.queue
           /\ n.drain = s.drain /\ n.moved = s.moved /\ n.last = s.last /\ n.smooth = s.smooth
BY DEF notify, Stream

\* Closing leaves nothing of a stream.
LEMMA PipeWireCloses ==
    ASSUME NEW s \in Stream
    PROVE  New(PipeWire!close_stream_(s)) /\ PipeWire!close_stream_(s).state = "none"
           /\ PipeWire!close_stream_(s).moved
<1> DEFINE f == flushed(s)
           c == [f EXCEPT !.state = "none", !.format = None, !.moved = TRUE, !.smooth = TRUE]
           n == notify(c)
<1>1. PipeWire!close_stream_(s) = n
  BY PipeWireShares DEF PipeWire!close_stream_
<1>2. f = flushed(s)
  OBVIOUS
<1> HIDE DEF f
<1>3. f \in Stream /\ f.queue = <<>> /\ f.last = NoGain
  BY <1>2, Flushed
<1>4. New(c) /\ c.state = "none" /\ c.moved
  BY <1>3 DEF New, Stream
<1> HIDE DEF c
<1>5. New(n) /\ n.state = "none" /\ n.moved
  BY <1>4, Notified DEF New
<1> QED BY <1>1, <1>5

\* Opening one in its place has nothing of it either.
LEMMA PipeWireOpens ==
    ASSUME NEW s \in Stream, NEW f \in Formats, NEW outcome \in PipeWire!Outcomes
    PROVE  Opened(PipeWire!open_stream_(PipeWire!close_stream_(s), f, outcome), f, outcome)
<1> DEFINE c == PipeWire!close_stream_(s)
           e == flushed(c)
           p == PipeWire!prepared(c, f)
           r == PipeWire!open_stream_(c, f, outcome)
<1>1. New(c) /\ c.state = "none" /\ c.moved /\ c \in Stream
  BY PipeWireCloses DEF New
<1> HIDE DEF c
<1>2. New(p) /\ p.state = "none" /\ p.moved /\ p.format = f /\ p \in Stream
  <2>1. p = [e EXCEPT !.format = f, !.moved = TRUE]
    BY PipeWireShares DEF PipeWire!prepared
  <2>2. e = flushed(c)
    OBVIOUS
  <2> HIDE DEF e, p
  <2>3. New(e) /\ e.state = "none"
    BY <1>1, <2>2, Flushed DEF New
  <2> QED BY <2>1, <2>3 DEF New, Stream
<1>3. New(PipeWire!close_stream_(p)) /\ PipeWire!close_stream_(p).state = "none"
      /\ PipeWire!close_stream_(p).moved
  BY <1>2, PipeWireCloses
<1> HIDE DEF p
<1>4. CASE outcome = "refused"
  <2>1. r = c
    BY <1>4 DEF PipeWire!open_stream_
  <2> QED BY <1>1, <1>4, <2>1 DEF Opened, c
<1>5. CASE outcome = "rejected"
  <2>1. r = p
    BY <1>5 DEF PipeWire!open_stream_, p
  <2> QED BY <1>2, <1>5, <2>1 DEF Opened, c
<1>6. CASE outcome = "silent"
  <2>1. r = PipeWire!close_stream_(p)
    BY <1>6 DEF PipeWire!open_stream_, p
  <2> QED BY <1>3, <1>6, <2>1 DEF Opened, c
<1>7. CASE outcome = "running"
  <2>1. r = [p EXCEPT !.state = "running"]
    BY <1>7 DEF PipeWire!open_stream_, p
  <2>2. Opened([p EXCEPT !.state = "running"], f, outcome)
    BY <1>2, <1>7 DEF Opened, New, Stream
  <2> QED BY <2>1, <2>2 DEF c
<1> QED BY <1>4, <1>5, <1>6, <1>7 DEF PipeWire!Outcomes

\* It opens at the gain it is meant to be at, whatever becomes of it.
LEMMA PipeWireOpensAtGain ==
    ASSUME OInv, NEW outcome
    PROVE  PipeWire!opened_gain(outcome) \in [current : Gain, target : Gain]
BY PipeWireShares, Snaps DEF PipeWire!opened_gain, OInv, OTypes

\* configure(), on the loop there is or on a new one.
LEMMA PipeWireConfigures ==
    ASSUME OInv, backend = "pipewire", UNCHANGED backend, NEW f \in Formats, PipeWire!configure(f)
    PROVE  OInv'
<1>0. /\ main = "loop" /\ writer.pc \in {"idle", "parked"} /\ player_format' = f
      /\ writer' = disowned_writer /\ UNCHANGED <<stopping, main>>
      /\ stream \in Stream /\ server \in {"none", "ready", "lost"}
  BY PipeWireShares DEF PipeWire!configure, PipeWire!mutex_free, OInv, OTypes
<1>1. writer' \in Writer /\ writer'.done <= writer'.length /\ writer'.pc = writer.pc
  BY <1>0, Disowns
<1>2. CASE PipeWire!ConfigureIgnored
  <2>1. stopping /\ UNCHANGED <<stream, server, gain, last_format, recovery_, fruitless>>
    BY <1>2 DEF PipeWire!ConfigureIgnored
  <2>2. stream.state = "none" /\ New(stream')
    BY <1>0, <2>1, NoStreamIsNew DEF OInv, StopInv
  <2>3. OTypes'
    BY <1>0, <1>1, <2>1 DEF OInv, OTypes
  <2>4. FormatInv' /\ WriterInv' /\ StopInv' /\ StreamHasItsOwner' /\ FruitInv'
    BY <1>0, <1>1, <2>1, <2>2
       DEF OInv, FormatInv, WriterInv, Owns, StopInv, StreamHasItsOwner, FruitInv,
           Pulse!StreamHasItsServer, PipeWire!LoopHasItsOwner
  <2> QED BY <2>2, <2>3, <2>4, NewStream DEF OInv
<1>3. ASSUME NEW outcome \in PipeWire!Outcomes, PipeWire!ConfigureOpens(f, outcome)
      PROVE  OInv'
  <2>1. /\ ~ stopping /\ last_format' = f
        /\ stream' = PipeWire!open_stream_(PipeWire!close_stream_(stream), f, outcome)
        /\ gain' = PipeWire!opened_gain(outcome)
        /\ recovery_' \in {fresh_recovery, recovery_}
        /\ fruitless' = IF outcome = "running" THEN 0 ELSE fruitless
        /\ server' \in {"none", "ready", "lost"} /\ (outcome = "running" => server' = "ready")
    BY <1>0, <1>3, PipeWireShares DEF PipeWire!ConfigureOpens, PipeWire!start_loop_
  <2>2. Opened(stream', f, outcome)
    BY <1>0, <2>1, PipeWireOpens
  <2>3. gain' \in [current : Gain, target : Gain] /\ recovery_' \in Recovery
    BY <2>1, PipeWireOpensAtGain, PolicyKept DEF OInv, OTypes
  <2> QED BY <1>0, <1>1, <2>1, <2>2, <2>3, MainOpens DEF PipeWire!Outcomes
<1> QED BY <1>2, <1>3 DEF PipeWire!configure

\* clear() disowns what is queued until the callback has dropped it, and a write() that
\* waits with more.
LEMMA PipeWireClears ==
    ASSUME OInv, backend = "pipewire", UNCHANGED backend, PipeWire!clear
    PROVE  OInv'
<1> DEFINE s == notify([disown(stream) EXCEPT !.moved = TRUE])
<1>0. /\ main = "loop" /\ writer.pc \in {"idle", "parked"} /\ writer' = disowned_writer
      /\ stream' = IF PipeWire!alive THEN [s EXCEPT !.drain = TRUE]
                   ELSE [s EXCEPT !.queue = <<>>, !.drain = FALSE]
      /\ UNCHANGED <<server, gain, last_format, recovery_, stopping, main, player_format, fruitless>>
      /\ stream \in Stream /\ stream.queue \in Seq(Frame)
  BY PipeWireShares, Fields DEF PipeWire!clear, PipeWire!mutex_free, OInv, OTypes
<1>1. writer' \in Writer /\ writer'.done <= writer'.length /\ writer'.pc = writer.pc
      /\ reached' = reached
  BY <1>0, Disowns
<1> DEFINE q == [i \in DOMAIN stream.queue |-> [stream.queue[i] EXCEPT !.stale = TRUE]]
<1>2. /\ q \in Seq(Frame) /\ DOMAIN q = DOMAIN stream.queue
      /\ \A i \in DOMAIN q : q[i].format = stream.queue[i].format
  <2>1. DOMAIN stream.queue = 1..Len(stream.queue) /\ Len(stream.queue) \in Nat
    BY <1>0
  <2>2. ASSUME NEW i \in 1..Len(stream.queue)
        PROVE  q[i] \in Frame /\ q[i].format = stream.queue[i].format
    <3>1. PICK f \in Frame : f = stream.queue[i]
      BY <1>0, <2>1
    <3>2. q[i] = [f EXCEPT !.stale = TRUE]
      BY <2>1, <3>1
    <3>3. [f EXCEPT !.stale = TRUE] \in Frame /\ [f EXCEPT !.stale = TRUE].format = f.format
      BY DEF Frame
    <3> QED BY <3>1, <3>2, <3>3
  <2>3. q \in [1..Len(stream.queue) -> Frame] /\ DOMAIN q = DOMAIN stream.queue
    BY <2>1, <2>2
  <2> HIDE DEF q
  <2>4. q \in Seq(Frame)
    BY <2>1, <2>3
  <2> QED BY <2>1, <2>2, <2>3, <2>4
<1>3. /\ s \in Stream /\ s.queue = q /\ s.moved /\ s.drain = stream.drain
      /\ s.state = stream.state /\ s.format = stream.format
      /\ s.last = stream.last /\ s.smooth = stream.smooth
  <2> DEFINE d == [disown(stream) EXCEPT !.moved = TRUE]
  <2>1. disown(stream) = [stream EXCEPT !.queue = q]
    BY DEF disown
  <2> HIDE DEF q
  <2>2. /\ d \in Stream /\ d.queue = q /\ d.moved /\ d.drain = stream.drain
        /\ d.state = stream.state /\ d.format = stream.format
        /\ d.last = stream.last /\ d.smooth = stream.smooth
    BY <1>0, <1>2, <2>1 DEF Stream
  <2>3. s = notify(d)
    OBVIOUS
  <2> HIDE DEF s, d
  <2> QED BY <2>2, <2>3, Notified
<1> HIDE DEF s
<1>4. CASE PipeWire!alive
  <2>1. stream.state = "running" /\ stream' = [s EXCEPT !.drain = TRUE]
    BY <1>0, <1>4 DEF PipeWire!alive
  <2>2. /\ stream' \in Stream /\ stream'.queue = q /\ stream'.drain /\ stream'.moved
        /\ stream'.state = stream.state /\ stream'.format = stream.format
        /\ stream'.last = stream.last /\ stream'.smooth = stream.smooth
    BY <1>3, <2>1 DEF Stream
  <2> HIDE DEF q
  <2>3. QueueInv' /\ RampInv'
    BY <1>1, <1>2, <2>1, <2>2 DEF OInv, QueueInv, RampInv, PlaysWhatItWasGiven
  <2>4. OTypes'
    BY <1>0, <1>1, <2>2 DEF OInv, OTypes
  <2>5. FormatInv' /\ WriterInv' /\ StopInv' /\ StreamHasItsOwner' /\ FruitInv'
    BY <1>0, <1>1, <2>2
       DEF OInv, FormatInv, WriterInv, Owns, StopInv, StreamHasItsOwner, FruitInv,
           Pulse!StreamHasItsServer, PipeWire!LoopHasItsOwner
  <2> QED BY <2>3, <2>4, <2>5 DEF OInv
<1>5. CASE ~ PipeWire!alive
  <2> DEFINE e == <<>>
  <2>1. stream' = [s EXCEPT !.queue = e, !.drain = FALSE] /\ e \in Seq(Frame)
    BY <1>0, <1>5
  <2> HIDE DEF e
  <2>2. /\ stream' \in Stream /\ stream'.queue = e /\ stream'.moved
        /\ stream'.state = stream.state /\ stream'.format = stream.format
        /\ stream'.last = stream.last /\ stream'.smooth = stream.smooth
    BY <1>3, <2>1 DEF Stream
  <2>3. stream'.queue = <<>>
    BY <2>2 DEF e
  <2>4. QueueInv' /\ RampInv'
    BY <1>1, <2>2, <2>3 DEF OInv, QueueInv, RampInv, PlaysWhatItWasGiven
  <2>5. OTypes'
    BY <1>0, <1>1, <2>2 DEF OInv, OTypes
  <2>6. FormatInv' /\ WriterInv' /\ StopInv' /\ StreamHasItsOwner' /\ FruitInv'
    BY <1>0, <1>1, <2>2
       DEF OInv, FormatInv, WriterInv, Owns, StopInv, StreamHasItsOwner, FruitInv,
           Pulse!StreamHasItsServer, PipeWire!LoopHasItsOwner
  <2> QED BY <2>4, <2>5, <2>6 DEF OInv
<1> QED BY <1>4, <1>5

\* The main loop's second attempt, or the stamp of when it is to be made.
LEMMA PipeWirePolls ==
    ASSUME OInv, backend = "pipewire", UNCHANGED backend, NEW now_ms \in Nat, PipeWire!poll(now_ms)
    PROVE  OInv'
<1> DEFINE asked == after_rescan_due(recovery_, now_ms)
<1>0. /\ main = "loop" /\ ~ stopping /\ writer.pc \in {"idle", "parked"}
      /\ last_format # None /\ last_format \in Formats /\ last_format = player_format
      /\ UNCHANGED <<last_format, stopping, writer, main, player_format>>
      /\ stream \in Stream /\ asked \in Recovery
      /\ writer \in Writer /\ writer.done <= writer.length
  BY PolicyKept DEF PipeWire!poll, PipeWire!mutex_free, OInv, OTypes, FormatInv
<1>1. CASE recovery_' = asked /\ UNCHANGED <<stream, server, gain, fruitless>>
  BY <1>0, <1>1
     DEF OInv, OTypes, QueueInv, PlaysWhatItWasGiven, RampInv, reached, FormatInv, WriterInv,
         Owns, StopInv, StreamHasItsOwner, FruitInv, Pulse!StreamHasItsServer,
         PipeWire!LoopHasItsOwner
<1>2. ASSUME NEW outcome \in PipeWire!Outcomes,
             stream' = PipeWire!open_stream_(PipeWire!close_stream_(stream), last_format, outcome),
             server' \in {"ready"} \cup (IF outcome = "refused" THEN {"none"} ELSE {}),
             gain' = PipeWire!opened_gain(outcome),
             recovery_' = rescan_done(asked, outcome = "running"),
             fruitless' = IF outcome = "running" THEN 0 ELSE fruitless
      PROVE  OInv'
  <2>1. Opened(stream', last_format, outcome)
    BY <1>0, <1>2, PipeWireOpens
  <2>2. gain' \in [current : Gain, target : Gain] /\ recovery_' \in Recovery
    BY <1>0, <1>2, PipeWireOpensAtGain, PolicyKept
  <2>3. server' \in {"none", "ready", "lost"} /\ (outcome = "running" => server' = "ready")
    BY <1>2
  <2> HIDE DEF asked
  <2> QED BY <1>0, <1>2, <2>1, <2>2, <2>3, MainOpens DEF PipeWire!Outcomes
<1> QED BY <1>1, <1>2, PipeWireShares DEF PipeWire!poll

\* write(): on the stream there is, or on one it opens, or on none.
LEMMA PipeWireWrites ==
    ASSUME OInv, backend = "pipewire", UNCHANGED backend, NEW frames \in Nat,
           PipeWire!write(frames)
    PROVE  OInv'
<1>0. /\ writer.pc = "idle" /\ player_format # None
      /\ UNCHANGED <<last_format, stopping, main, player_format>>
      /\ stream \in Stream /\ recovery_ \in Recovery /\ gain \in [current : Gain, target : Gain]
      /\ server \in {"none", "ready", "lost"}
  BY DEF PipeWire!write, OInv, OTypes
<1>1. CASE /\ PipeWire!alive /\ writer' = begun(frames, gain)
           /\ stream' = [stream EXCEPT !.moved = FALSE]
           /\ UNCHANGED <<server, gain, recovery_, fruitless>>
  <2>1. stream.state = "running" /\ stream'.state = stream.state
    BY <1>0, <1>1 DEF PipeWire!alive, Stream
  <2>2. stream' \in Stream /\ NothingAdded(stream')
    BY <1>0, <1>1 DEF Stream, NothingAdded
  <2> QED BY <1>0, <1>1, <2>1, <2>2, WriteBegins
<1>2. CASE PipeWire!reopen_in_place_(frames)
  <2> DEFINE asked == after_reopen_due(recovery_)
  <2>0. asked \in Recovery
    BY <1>0, PolicyKept
  <2>1. CASE discard /\ UNCHANGED <<stream, server, gain>> /\ recovery_' \in Recovery
    BY <1>0, <2>1, Swallows
  <2>2. ASSUME ~ stopping, last_format # None, NEW outcome \in PipeWire!Outcomes,
               stream' = PipeWire!open_stream_(PipeWire!close_stream_(stream), last_format, outcome),
               PipeWire!start_loop_(outcome),
               gain' = PipeWire!opened_gain(outcome),
               recovery_' = reopen_done(asked, outcome = "running"),
               IF outcome = "running"
               THEN /\ writer' = [begun(frames, snapped(gain)) EXCEPT !.pc = "opened"]
                    /\ fruitless' = 0
               ELSE discard
        PROVE  OInv'
    <3>1. last_format \in Formats
      BY <2>2 DEF OInv, OTypes
    <3>2. Opened(stream', last_format, outcome)
      BY <1>0, <2>2, <3>1, PipeWireOpens
    <3>3. gain' \in [current : Gain, target : Gain] /\ recovery_' \in Recovery
      BY <2>0, <2>2, PipeWireOpensAtGain, PolicyKept
    <3>4. server' \in {"none", "ready", "lost"} /\ (outcome = "running" => server' = "ready")
      BY <1>0, <2>2 DEF PipeWire!start_loop_
    <3> HIDE DEF asked
    <3> QED BY <1>0, <2>2, <3>2, <3>3, <3>4, WriteReopens DEF PipeWire!Outcomes
  <2>3. recovery_ \in Recovery /\ asked \in Recovery
    BY <1>0, <2>0
  <2> QED BY <1>2, <2>1, <2>2, <2>3, PipeWireShares DEF PipeWire!reopen_in_place_
<1> QED BY <1>1, <1>2, PipeWireShares DEF PipeWire!write

\* stop() closes what there is, and takes the loop down with it.
LEMMA PipeWireStops ==
    ASSUME OInv, backend = "pipewire", UNCHANGED backend, PipeWire!StopClose
    PROVE  OInv'
<1>1. /\ main = "stop" /\ writer.pc \in {"idle", "parked"} /\ last_format' = None /\ main' = "loop"
      /\ stream' = PipeWire!close_stream_(stream) /\ server' = "none"
      /\ UNCHANGED <<gain, recovery_, stopping, writer, player_format, fruitless>>
      /\ stream \in Stream
  BY DEF PipeWire!StopClose, PipeWire!mutex_free, OInv, OTypes
<1>2. New(stream') /\ stream'.state = "none"
  BY <1>1, PipeWireCloses
<1> QED BY <1>1, <1>2, StopCloses

\* A write() that opened a stream goes on with it, unless stop() came meanwhile.
LEMMA PipeWireReopened ==
    ASSUME OInv, backend = "pipewire", UNCHANGED backend, PipeWire!WriteReopened
    PROVE  OInv'
<1>1. /\ writer.pc = "opened" /\ stream \in Stream /\ Owns
      /\ UNCHANGED <<server, gain, last_format, recovery_, stopping, main, player_format>>
  BY DEF PipeWire!WriteReopened, OInv, OTypes, WriterInv
<1>2. CASE stopping
  <2>1. stream' = PipeWire!close_stream_(stream) /\ discard
    BY <1>2, PipeWireShares DEF PipeWire!WriteReopened
  <2>2. New(stream') /\ stream'.state = "none"
    BY <1>1, <2>1, PipeWireCloses
  <2> QED BY <1>1, <2>1, <2>2, ReopenedTooLate
<1>3. CASE ~ stopping
  <2>1. /\ stream' = [stream EXCEPT !.moved = FALSE] /\ writer' = [writer EXCEPT !.pc = "loop"]
        /\ UNCHANGED fruitless
    BY <1>3 DEF PipeWire!WriteReopened
  <2>2. stream' \in Stream /\ NothingAdded(stream') /\ stream'.state = stream.state
    BY <1>1, <2>1 DEF Stream, NothingAdded
  <2> QED BY <1>1, <2>1, <2>2, WriterMoves
<1> QED BY <1>2, <1>3

\* The wait of a write(): begun with the mutex, slept through without it.
LEMMA PipeWireSleeps ==
    ASSUME OInv, backend = "pipewire", UNCHANGED backend, PipeWire!WriteSleeps
    PROVE  OInv'
<1>1. /\ writer.pc = "waiting" /\ stream \in Stream /\ Owns
      /\ writer' = [writer EXCEPT !.pc = "parked"]
      /\ stream' = [stream EXCEPT !.notified = FALSE]
      /\ UNCHANGED <<server, gain, last_format, recovery_, stopping, main, player_format, fruitless>>
  BY DEF PipeWire!WriteSleeps, OInv, OTypes, WriterInv
<1>2. stream' \in Stream /\ NothingAdded(stream') /\ stream'.state = stream.state
  BY <1>1 DEF Stream, NothingAdded
<1> QED BY <1>1, <1>2, WriterMoves

\* The rest of write(): it waits, wakes, or gives up.
LEMMA PipeWireWriteGoesOn ==
    ASSUME OInv, backend = "pipewire", UNCHANGED backend,
           \/ PipeWire!WriteReturns \/ PipeWire!WriteWaits
           \/ PipeWire!WriteWakes \/ PipeWire!WriteTimesOut
    PROVE  OInv'
<1>0. /\ UNCHANGED <<stream, server, last_format, recovery_, stopping, main, player_format>>
      /\ stream \in Stream /\ NothingAdded(stream') /\ stream'.state = stream.state
      /\ writer.pc # "idle"
  BY DEF PipeWire!WriteReturns, PipeWire!WriteWaits, PipeWire!WriteWakes,
         PipeWire!WriteTimesOut, OInv, OTypes, NothingAdded
<1>1. ASSUME NEW broken \in BOOLEAN, finish(stream, broken), broken => stream.state # "running"
      PROVE  OInv'
  BY <1>0, <1>1, WriteEnds
<1>2. ASSUME NEW pc \in {"loop", "waiting"}, writer' = [writer EXCEPT !.pc = pc], Owns,
             UNCHANGED <<gain, fruitless>>
      PROVE  OInv'
  BY <1>0, <1>2, WriterMoves
<1>3. CASE PipeWire!WriteReturns
  BY <1>1, <1>3, PipeWireShares DEF PipeWire!WriteReturns
<1>4. CASE PipeWire!WriteWaits
  BY <1>2, <1>4 DEF PipeWire!WriteWaits, OInv, WriterInv
<1>5. ASSUME writer.pc = "parked", PipeWire!resume
      PROVE  OInv'
  <2>1. CASE stream.state = "none" \/ stream.moved
    BY <1>1, <1>5, <2>1, PipeWireShares DEF PipeWire!resume
  <2>2. CASE ~ (stream.state = "none" \/ stream.moved)
    BY <1>2, <1>5, <2>2 DEF PipeWire!resume, OInv, WriterInv
  <2> QED BY <2>1, <2>2
<1>6. CASE PipeWire!WriteWakes
  <2>1. CASE PipeWire!resume
    BY <1>5, <1>6, <2>1 DEF PipeWire!WriteWakes
  <2>2. CASE /\ ~ PipeWire!worth_waking /\ writer' = [writer EXCEPT !.pc = "waiting"]
             /\ UNCHANGED <<gain, fruitless>>
    <3>1. Owns
      BY <1>6, <2>2 DEF PipeWire!WriteWakes, PipeWire!worth_waking, OInv, WriterInv
    <3> QED BY <1>2, <2>2, <3>1
  <2> QED BY <1>6, <2>1, <2>2 DEF PipeWire!WriteWakes
<1>7. CASE PipeWire!WriteTimesOut
  <2>1. CASE PipeWire!resume
    BY <1>5, <1>7, <2>1 DEF PipeWire!WriteTimesOut
  <2>2. CASE finish(stream, stream.state = "failed")
    BY <1>1, <2>2
  <2> QED BY <1>7, <2>1, <2>2, PipeWireShares DEF PipeWire!WriteTimesOut
<1> QED BY <1>3, <1>4, <1>6, <1>7

\* What the graph does on its own.
LEMMA PipeWireDevice ==
    ASSUME OInv, backend = "pipewire", UNCHANGED backend, PipeWire!Plays \/ PipeWire!StreamDies
    PROVE  OInv'
<1>0. stream \in Stream /\ stream.queue \in Seq(Frame) /\ <<>> \in Seq(Frame)
  BY Fields DEF OInv, OTypes
<1>1. ASSUME stream.state = "running", NEW s \in Stream, stream' = notify(s),
             s.state \in {"running", "failed"},
             \/ s.queue = <<>>
             \/ s.queue = stream.queue /\ s.drain = stream.drain
             \/ /\ stream.queue # <<>> /\ s.queue = Tail(stream.queue)
                /\ s.drain = stream.drain,
             s.format = stream.format, s.last = stream.last, s.smooth = stream.smooth,
             s.moved = stream.moved,
             UNCHANGED <<server, gain, last_format, recovery_, stopping, writer, main,
                         player_format, fruitless>>
      PROVE  OInv'
  <2>1. /\ stream' \in Stream /\ stream'.state = s.state /\ stream'.format = s.format
        /\ stream'.queue = s.queue /\ stream'.drain = s.drain /\ stream'.moved = s.moved
        /\ stream'.last = s.last /\ stream'.smooth = s.smooth
    BY <1>1, Notified
  <2> QED BY <1>1, <2>1, DevicePlays
<1>2. CASE PipeWire!Plays
  <2>0. /\ stream.state = "running"
        /\ UNCHANGED <<server, gain, last_format, recovery_, stopping, writer, main,
                       player_format, fruitless>>
    BY <1>2 DEF PipeWire!Plays
  <2> DEFINE e == <<>>
             s == [stream EXCEPT !.queue = e, !.drain = FALSE]
             q == IF stream.queue = <<>> THEN stream.queue ELSE Tail(stream.queue)
             t == [stream EXCEPT !.queue = q]
  <2>1. CASE stream.drain
    <3>1. stream' = notify(s)
      BY <1>2, <2>1, PipeWireShares DEF PipeWire!Plays
    <3>2. e \in Seq(Frame)
      BY <1>0
    <3> HIDE DEF e
    <3>3. /\ s \in Stream /\ s.state = stream.state /\ s.queue = e /\ s.format = stream.format
          /\ s.last = stream.last /\ s.smooth = stream.smooth /\ s.moved = stream.moved
      BY <1>0, <3>2 DEF Stream
    <3>4. s.queue = <<>>
      BY <3>3 DEF e
    <3> HIDE DEF s
    <3> QED BY <1>1, <2>0, <3>1, <3>3, <3>4
  <2>2. CASE ~ stream.drain
    <3>1. stream' = notify(t)
      BY <1>2, <2>2, PipeWireShares DEF PipeWire!Plays
    <3>2. q \in Seq(Frame)
      BY <1>0
    <3>3. q = stream.queue \/ (stream.queue # <<>> /\ q = Tail(stream.queue))
      OBVIOUS
    <3> HIDE DEF q
    <3>4. /\ t \in Stream /\ t.state = stream.state /\ t.queue = q /\ t.format = stream.format
          /\ t.drain = stream.drain
          /\ t.last = stream.last /\ t.smooth = stream.smooth /\ t.moved = stream.moved
      BY <1>0, <3>2 DEF Stream
    <3> HIDE DEF t
    <3> QED BY <1>1, <2>0, <3>1, <3>3, <3>4
  <2> QED BY <2>1, <2>2
<1>3. CASE PipeWire!StreamDies
  <2> DEFINE s == [stream EXCEPT !.state = "failed"]
  <2>1. /\ stream.state = "running" /\ stream' = notify(s)
        /\ UNCHANGED <<server, gain, last_format, recovery_, stopping, writer, main,
                       player_format, fruitless>>
    BY <1>3, PipeWireShares DEF PipeWire!StreamDies
  <2>2. /\ s \in Stream /\ s.state = "failed" /\ s.queue = stream.queue
        /\ s.drain = stream.drain /\ s.format = stream.format
        /\ s.last = stream.last /\ s.smooth = stream.smooth /\ s.moved = stream.moved
    BY <1>0 DEF Stream
  <2> HIDE DEF s
  <2> QED BY <1>1, <2>1, <2>2
<1> QED BY <1>2, <1>3

LEMMA PipeWireNext ==
    ASSUME OInv, backend = "pipewire", UNCHANGED backend, PipeWire!Next
    PROVE  OInv'
<1>1. ASSUME NEW f \in Formats, PipeWire!configure(f) PROVE OInv'
  BY <1>1, PipeWireConfigures
<1>2. CASE PipeWire!clear
  BY <1>2, PipeWireClears
<1>3. ASSUME NEW now_ms \in {0, SINK_RESCAN_MAX_DELAY_MS}, PipeWire!poll(now_ms) PROVE OInv'
  BY <1>3, PipeWirePolls, RecoveryConstants
<1>4. CASE PipeWire!set_volume \/ PipeWire!StopLatch \/ PipeWire!StopClose
  BY <1>4, PipeWireShares, SetsVolume, LatchesStop, PipeWireStops
<1>5. ASSUME NEW frames \in 1..MaxFrames, PipeWire!write(frames) PROVE OInv'
  BY <1>5, PipeWireWrites, OutputAssumption
<1>6. CASE PipeWire!WriteReopened \/ PipeWire!WriteLands \/ PipeWire!WriteSleeps
  BY <1>6, PipeWireShares, PipeWireReopened, WritesOn, PipeWireSleeps
<1>7. CASE \/ PipeWire!WriteReturns \/ PipeWire!WriteWaits
           \/ PipeWire!WriteWakes \/ PipeWire!WriteTimesOut
  BY <1>7, PipeWireWriteGoesOn
<1>8. CASE PipeWire!Plays \/ PipeWire!StreamDies
  BY <1>8, PipeWireDevice
<1> QED
  BY <1>1, <1>2, <1>3, <1>4, <1>5, <1>6, <1>7, <1>8
     DEF PipeWire!Next, PipeWire!WriteStep

-----------------------------------------------------------------------------
(* ALSA.                                                                    *)

\* What AlsaSink has of OutputSink is OutputSink's.
LEMMA AlsaShares ==
    /\ Alsa!set_volume <=> set_volume
    /\ Alsa!StopLatch <=> StopLatch
    /\ Alsa!discard <=> discard
    /\ \A s, b : Alsa!finish(s, b) <=> finish(s, b)
    /\ Alsa!WriteLands <=> WriteLands
    /\ Alsa!WriteReturns <=> WriteReturns
    /\ \A g : Alsa!snapped(g) = snapped(g)
    /\ \A s : Alsa!flushed(s) = flushed(s)
    /\ \A frames, g : Alsa!begun(frames, g) = begun(frames, g)
    /\ Alsa!no_stream = no_stream
<1>1. \A s, b : Alsa!finish(s, b) <=> finish(s, b)
  BY DEF Alsa!finish, finish, Alsa!idle_writer, idle_writer, Alsa!ramped_gain, ramped_gain,
         Alsa!distance, distance, Alsa!ramp_step_, ramp_step_, Alsa!volume_ramp_step,
         volume_ramp_step
<1>2. Alsa!set_volume <=> set_volume
  BY DEF Alsa!set_volume, set_volume, Alsa!q32_gain_for, q32_gain_for, Alsa!amplitude,
         amplitude, Alsa!Gain, Gain, Alsa!cube, cube
<1>3. \A s, n : Alsa!queued(s, n) = queued(s, n)
  BY DEF Alsa!queued, queued, Alsa!near, near, Alsa!apply_volume_ramp, apply_volume_ramp,
         Alsa!ramped_gain, ramped_gain, Alsa!distance, distance, Alsa!ramp_step_, ramp_step_,
         Alsa!volume_ramp_step, volume_ramp_step, Alsa!NoGain, NoGain
<1>4. Alsa!WriteLands <=> WriteLands
  BY <1>3, Zenon DEF Alsa!WriteLands, WriteLands, Alsa!room, room, Alsa!left, left
<1>5. Alsa!WriteReturns <=> WriteReturns
  BY <1>1 DEF Alsa!WriteReturns, WriteReturns, Alsa!left, left
<1>6. /\ Alsa!StopLatch <=> StopLatch
      /\ Alsa!discard <=> discard
      /\ \A g : Alsa!snapped(g) = snapped(g)
      /\ \A s : Alsa!flushed(s) = flushed(s)
      /\ \A frames, g : Alsa!begun(frames, g) = begun(frames, g)
  BY DEF Alsa!StopLatch, StopLatch, Alsa!notify, notify, Alsa!discard, discard,
         Alsa!idle_writer, idle_writer, Alsa!snapped, snapped, Alsa!flushed, flushed,
         Alsa!NoGain, NoGain, Alsa!begun, begun
<1>7. Alsa!no_stream = no_stream
  BY DEF Alsa!no_stream, no_stream, Alsa!NoGain, NoGain
<1> QED BY <1>1, <1>2, <1>4, <1>5, <1>6, <1>7

\* With the mutex had there is no write(), and whatever the main loop leaves is new.
LEMMA AlsaLeaves ==
    ASSUME OInv, backend = "alsa", UNCHANGED backend, writer.pc = "idle", New(stream'),
           stream'.state # "none" => stream'.format # None /\ stream'.format = player_format',
           gain' \in [current : Gain, target : Gain],
           player_format' \in Formats \cup {None}, fruitless' \in 0..2, main' \in {"loop", "stop"},
           stopping /\ main' = "loop" => stream'.state = "none",
           UNCHANGED <<server, last_format, recovery_, stopping, writer>>
    PROVE  OInv'
<1>1. OTypes'
  BY DEF OInv, OTypes, New
<1>2. FormatInv' /\ WriterInv' /\ StopInv' /\ StreamHasItsOwner' /\ FruitInv'
  BY DEF OInv, FormatInv, WriterInv, Owns, StopInv, StreamHasItsOwner, FruitInv,
         Pulse!StreamHasItsServer, PipeWire!LoopHasItsOwner
<1> QED BY <1>1, <1>2, NewStream DEF OInv

\* Dropped and made ready again, a stream is as good as new.
LEMMA AlsaRestarts ==
    ASSUME OInv, NEW prepared \in BOOLEAN
    PROVE  /\ New(Alsa!restarted(stream, prepared))
           /\ Alsa!restarted(stream, prepared).state \in {"running", "failed"}
           /\ Alsa!restarted(stream, prepared).format = stream.format
<1> DEFINE f == flushed(stream)
           state == IF prepared THEN "running" ELSE "failed"
           r == [f EXCEPT !.state = state]
<1>1. Alsa!restarted(stream, prepared) = r
  BY AlsaShares DEF Alsa!restarted
<1>2. f = flushed(stream) /\ state \in {"running", "failed"}
  OBVIOUS
<1> HIDE DEF f, state
<1>3. f \in Stream /\ f.queue = <<>> /\ f.last = NoGain /\ f.smooth /\ f.format = stream.format
  BY <1>2, Flushed DEF OInv, OTypes, RampInv
<1>4. New(r) /\ r.state = state /\ r.format = stream.format
  BY <1>2, <1>3 DEF New, Stream
<1> QED BY <1>1, <1>2, <1>4

\* An opened one is new, and so is none at all.
LEMMA AlsaOpens ==
    /\ New(Alsa!closed) /\ Alsa!closed.state = "none"
    /\ \A f \in Formats : /\ New(Alsa!opened(f)) /\ Alsa!opened(f).format = f
                          /\ Alsa!opened(f).state = "running"
<1>1. New(no_stream) /\ no_stream.state = "none"
  BY NoStreamAtAll
<1>2. Alsa!closed = no_stream
  BY AlsaShares DEF Alsa!closed
<1>3. ASSUME NEW f \in Formats
      PROVE  /\ New(Alsa!opened(f)) /\ Alsa!opened(f).format = f
             /\ Alsa!opened(f).state = "running"
  <2>1. Alsa!opened(f) = [no_stream EXCEPT !.state = "running", !.format = f]
    BY AlsaShares DEF Alsa!opened
  <2> QED BY <1>1, <2>1 DEF New, Stream
<1> QED BY <1>1, <1>2, <1>3

\* What the main loop does while no write() holds the mutex.
LEMMA AlsaMains ==
    ASSUME OInv, backend = "alsa", UNCHANGED backend,
           \/ \E f \in Formats : Alsa!configure(f)
           \/ Alsa!clear
           \/ Alsa!StopClose
    PROVE  OInv'
<1>0. /\ gain \in [current : Gain, target : Gain] /\ player_format \in Formats \cup {None}
      /\ fruitless \in 0..2
      /\ stream.state # "none" => stream.format # None /\ stream.format = player_format
  BY DEF OInv, OTypes, FormatInv
<1>1. ASSUME NEW f \in Formats, Alsa!configure(f)
      PROVE  OInv'
  <2>1. /\ main = "loop" /\ ~ stopping /\ writer.pc = "idle" /\ gain' = snapped(gain)
        /\ player_format' = f /\ fruitless' = 0
        /\ UNCHANGED <<server, last_format, recovery_, stopping, writer, main>>
        /\ \/ stream.format = f /\ stream' = Alsa!restarted(stream, TRUE)
           \/ stream' \in {Alsa!closed, Alsa!opened(f)}
    BY <1>1, AlsaShares DEF Alsa!configure, Alsa!mutex_free
  <2>2. New(stream') /\ (stream'.state # "none" => stream'.format = f)
    BY <2>1, AlsaRestarts, AlsaOpens
  <2>3. gain' \in [current : Gain, target : Gain] /\ f # None
    BY <1>0, <2>1, Snaps, OutputAssumption
  <2> QED BY <2>1, <2>2, <2>3, AlsaLeaves
<1>2. CASE Alsa!clear
  <2>1. /\ main = "loop" /\ ~ stopping /\ writer.pc = "idle" /\ gain' = snapped(gain)
        /\ UNCHANGED <<server, last_format, recovery_, stopping, writer, main, player_format,
                       fruitless>>
    BY <1>2, AlsaShares DEF Alsa!clear, Alsa!mutex_free
  <2>2. gain' \in [current : Gain, target : Gain]
    BY <1>0, <2>1, Snaps
  <2>3. New(stream') /\ (stream'.state # "none" => stream'.format # None /\ stream'.format = player_format)
    <3>1. CASE stream.state = "none"
      BY <1>2, <3>1, NoStreamIsNew DEF Alsa!clear
    <3>2. CASE stream.state # "none"
      <4>1. PICK prepared \in BOOLEAN : stream' = Alsa!restarted(stream, prepared)
        BY <1>2, <3>2 DEF Alsa!clear
      <4> QED BY <1>0, <3>2, <4>1, AlsaRestarts
    <3> QED BY <3>1, <3>2
  <2> QED BY <1>0, <2>1, <2>2, <2>3, AlsaLeaves
<1>3. CASE Alsa!StopClose
  <2>1. /\ writer.pc = "idle" /\ stream' = Alsa!closed /\ main' = "loop"
        /\ UNCHANGED <<server, gain, last_format, recovery_, stopping, writer, player_format,
                       fruitless>>
    BY <1>3 DEF Alsa!StopClose, Alsa!mutex_free
  <2>2. New(stream') /\ stream'.state = "none"
    BY <2>1, AlsaOpens
  <2> QED BY <1>0, <2>1, <2>2, AlsaLeaves
<1> QED BY <1>1, <1>2, <1>3

\* write(), on the handle there is or on none, and what ends it.
LEMMA AlsaWrites ==
    ASSUME OInv, backend = "alsa", UNCHANGED backend,
           \/ \E frames \in 1..MaxFrames : Alsa!write(frames)
           \/ Alsa!WriteReturns \/ Alsa!WriteBreaks \/ Alsa!WriteTimesOut
    PROVE  OInv'
<1>0. stream \in Stream /\ recovery_ \in Recovery
  BY DEF OInv, OTypes
<1>1. ASSUME NEW frames \in 1..MaxFrames, Alsa!write(frames)
      PROVE  OInv'
  <2>1. /\ writer.pc = "idle" /\ player_format # None /\ frames \in Nat
        /\ UNCHANGED <<stream, server, gain, last_format, recovery_, stopping, main, player_format>>
        /\ NothingAdded(stream')
    BY <1>1, OutputAssumption DEF Alsa!write, NothingAdded
  <2>2. CASE stream.state # "none" /\ writer' = begun(frames, gain) /\ UNCHANGED fruitless
    BY <1>0, <2>1, <2>2, WriteBegins
  <2>3. CASE discard
    BY <1>0, <2>1, <2>3, Swallows
  <2> QED BY <1>1, <2>2, <2>3, AlsaShares DEF Alsa!write
<1>2. ASSUME NEW broken \in BOOLEAN, finish(stream, broken), writer.pc # "idle",
             UNCHANGED <<stream, server, last_format, recovery_, stopping, main, player_format>>
      PROVE  OInv'
  BY <1>0, <1>2, WriteEnds DEF NothingAdded
<1>3. CASE Alsa!WriteReturns
  BY <1>2, <1>3, AlsaShares DEF Alsa!WriteReturns
<1>4. CASE Alsa!WriteBreaks
  BY <1>2, <1>4, AlsaShares DEF Alsa!WriteBreaks, Alsa!failing
<1>5. CASE Alsa!WriteTimesOut
  BY <1>2, <1>5, AlsaShares DEF Alsa!WriteTimesOut
<1> QED BY <1>1, <1>3, <1>4, <1>5

\* recover_() brings the stream back under the write() that found it broken.
LEMMA AlsaRecovers ==
    ASSUME OInv, backend = "alsa", UNCHANGED backend, Alsa!WriteRecovers
    PROVE  OInv'
<1>0. /\ writer.pc = "loop" /\ stream.state = "failed" /\ stream \in Stream
      /\ UNCHANGED <<server, last_format, recovery_, stopping, main, player_format>>
  BY DEF Alsa!WriteRecovers, Alsa!failing, OInv, OTypes
<1>1. /\ stream' \in Stream /\ NothingAdded(stream') /\ stream'.state = "running"
      /\ stream'.format = stream.format
  <2>1. CASE stream' = [stream EXCEPT !.state = "running"]
    BY <1>0, <2>1 DEF Stream, NothingAdded
  <2>2. CASE stream' = [stream EXCEPT !.state = "running", !.queue = <<>>]
    <3> DEFINE e == <<>>
    <3>1. stream' = [stream EXCEPT !.state = "running", !.queue = e] /\ e \in Seq(Frame) /\ e = <<>>
      BY <2>2
    <3> HIDE DEF e
    <3> QED BY <1>0, <3>1 DEF Stream, NothingAdded
  <2> QED BY <2>1, <2>2 DEF Alsa!WriteRecovers
<1>2. CASE UNCHANGED <<gain, writer, fruitless>>
  <2>1. reached' = reached
    BY <1>2 DEF reached
  <2>2. QueueInv' /\ RampInv'
    BY <1>0, <1>1, <2>1, SameStream
  <2>3. OTypes'
    BY <1>0, <1>1, <1>2 DEF OInv, OTypes
  <2>4. FormatInv' /\ WriterInv' /\ StopInv' /\ StreamHasItsOwner' /\ FruitInv'
    BY <1>0, <1>1, <1>2
       DEF OInv, FormatInv, WriterInv, Owns, StopInv, StreamHasItsOwner, FruitInv,
           Pulse!StreamHasItsServer, PipeWire!LoopHasItsOwner
  <2> QED BY <2>2, <2>3, <2>4 DEF OInv
<1>3. CASE finish(stream, FALSE)
  BY <1>0, <1>1, <1>3, WriteEnds
<1> QED BY <1>2, <1>3, AlsaShares DEF Alsa!WriteRecovers

\* What the card does on its own.
LEMMA AlsaDevice ==
    ASSUME OInv, backend = "alsa", UNCHANGED backend, Alsa!Plays \/ Alsa!StreamDies
    PROVE  OInv'
<1>0. stream \in Stream /\ stream.queue \in Seq(Frame)
  BY Fields DEF OInv, OTypes
<1>1. CASE Alsa!Plays
  <2> DEFINE q == Tail(stream.queue)
  <2>1. /\ stream.state = "running" /\ stream.queue # <<>>
        /\ stream' = [stream EXCEPT !.queue = q]
        /\ UNCHANGED <<server, gain, last_format, recovery_, stopping, writer, main, player_format,
                       fruitless>>
    BY <1>1 DEF Alsa!Plays
  <2>2. q \in Seq(Frame) /\ q = Tail(stream.queue)
    BY <1>0, <2>1
  <2> HIDE DEF q
  <2>3. /\ stream' \in Stream /\ stream'.state = stream.state /\ stream'.queue = q
        /\ stream'.drain = stream.drain /\ stream'.format = stream.format
        /\ stream'.last = stream.last /\ stream'.smooth = stream.smooth
        /\ stream'.moved = stream.moved
    BY <1>0, <2>1, <2>2 DEF Stream
  <2> QED BY <2>1, <2>2, <2>3, DevicePlays
<1>2. CASE Alsa!StreamDies
  <2>1. /\ stream.state = "running" /\ stream' = [stream EXCEPT !.state = "failed"]
        /\ UNCHANGED <<server, gain, last_format, recovery_, stopping, writer, main, player_format,
                       fruitless>>
    BY <1>2 DEF Alsa!StreamDies
  <2>2. /\ stream' \in Stream /\ stream'.state = "failed" /\ stream'.queue = stream.queue
        /\ stream'.drain = stream.drain /\ stream'.format = stream.format
        /\ stream'.last = stream.last /\ stream'.smooth = stream.smooth
        /\ stream'.moved = stream.moved
    BY <1>0, <2>1 DEF Stream
  <2> QED BY <2>1, <2>2, DevicePlays
<1> QED BY <1>1, <1>2

LEMMA AlsaNext ==
    ASSUME OInv, backend = "alsa", UNCHANGED backend, Alsa!Next
    PROVE  OInv'
<1>1. CASE (\E f \in Formats : Alsa!configure(f)) \/ Alsa!clear \/ Alsa!StopClose
  BY <1>1, AlsaMains
<1>2. CASE Alsa!set_volume \/ Alsa!StopLatch \/ Alsa!WriteLands
  BY <1>2, AlsaShares, SetsVolume, LatchesStop, WritesOn
<1>3. CASE \/ \E frames \in 1..MaxFrames : Alsa!write(frames)
           \/ Alsa!WriteReturns \/ Alsa!WriteBreaks \/ Alsa!WriteTimesOut
  BY <1>3, AlsaWrites
<1>4. CASE Alsa!WriteRecovers
  BY <1>4, AlsaRecovers
<1>5. CASE Alsa!Plays \/ Alsa!StreamDies
  BY <1>5, AlsaDevice
<1> QED BY <1>1, <1>2, <1>3, <1>4, <1>5 DEF Alsa!Next, Alsa!WriteStep

-----------------------------------------------------------------------------
(* All three.                                                               *)

\* A sink is constructed with no stream, no format and nobody writing.
LEMMA OutputsStart == ASSUME OutputsInit PROVE OInv
<1>1. \/ Pulse!SinkInit /\ backend = "pulse" /\ server \in {"ready", "none"}
      \/ PipeWire!SinkInit /\ backend = "pipewire" /\ server = "none"
      \/ Alsa!SinkInit /\ backend = "alsa" /\ server = "none"
  BY DEF OutputsInit, Pulse!PulseInit, PipeWire!PipeWireInit, Alsa!AlsaInit
<1>2. SinkInit
  BY <1>1
     DEF SinkInit, no_stream, NoGain, fresh_recovery, NOT_STAMPED, idle_writer,
         Pulse!SinkInit, Pulse!no_stream, Pulse!NoGain, Pulse!fresh_recovery, Pulse!NOT_STAMPED,
         Pulse!idle_writer,
         PipeWire!SinkInit, PipeWire!no_stream, PipeWire!NoGain, PipeWire!fresh_recovery,
         PipeWire!NOT_STAMPED, PipeWire!idle_writer,
         Alsa!SinkInit, Alsa!no_stream, Alsa!NoGain, Alsa!fresh_recovery, Alsa!NOT_STAMPED,
         Alsa!idle_writer
<1>3. /\ stream = no_stream /\ New(stream) /\ stream.state = "none"
      /\ stream \in Stream /\ stream.queue = <<>> /\ stream.last = NoGain /\ stream.smooth
  BY <1>2, NoStreamAtAll DEF SinkInit, New
<1>4. /\ writer = idle_writer /\ writer \in Writer /\ writer.done <= writer.length
      /\ writer.pc = "idle"
  <2>1. 0 \in Gain
    BY GainAssumption DEF Gain
  <2> QED BY <1>2, <2>1 DEF SinkInit, idle_writer, Writer
<1>5. gain \in [current : Gain, target : Gain]
  <2>1. Q32_ONE \in Gain
    BY GainAssumption DEF Gain
  <2>2. gain = [current |-> Q32_ONE, target |-> Q32_ONE]
    BY <1>2 DEF SinkInit
  <2> QED BY <2>1, <2>2
<1>6. /\ last_format = None /\ player_format = None /\ recovery_ = fresh_recovery
      /\ stopping = FALSE /\ main = "loop" /\ fruitless = 0
  BY <1>2 DEF SinkInit
<1>7. recovery_ \in Recovery
  BY <1>6 DEF fresh_recovery, Recovery
<1>8. OTypes
  <2>1. stream \in Stream /\ writer \in Writer /\ writer.done <= writer.length
    BY <1>3, <1>4
  <2>2. main \in {"loop", "stop"} /\ fruitless \in 0..2
    BY <1>6
  <2>3. /\ stopping \in BOOLEAN
        /\ last_format \in Formats \cup {None} /\ player_format \in Formats \cup {None}
    BY <1>6, Zenon
  <2>4. server \in {"none", "ready", "lost"} /\ backend \in {"pulse", "pipewire", "alsa"}
    BY <1>1
  <2> QED BY <1>5, <1>7, <2>1, <2>2, <2>3, <2>4 DEF OTypes
<1>9. QueueInv /\ RampInv
  BY <1>3 DEF QueueInv, RampInv, PlaysWhatItWasGiven
<1>10. FormatInv /\ WriterInv /\ StopInv /\ StreamHasItsOwner /\ FruitInv
  BY <1>1, <1>3, <1>4, <1>6
     DEF FormatInv, WriterInv, Owns, StopInv, StreamHasItsOwner, FruitInv,
         Pulse!StreamHasItsServer, PipeWire!LoopHasItsOwner
<1> QED BY <1>8, <1>9, <1>10 DEF OInv

\* Every step of every sink keeps the invariant.
LEMMA OutputsKeep == ASSUME OInv, [OutputsNext]_all PROVE OInv'
<1>1. CASE OutputsNext
  BY <1>1, PulseNext, PipeWireNext, AlsaNext DEF OutputsNext
<1>2. CASE UNCHANGED all
  BY <1>2
     DEF all, sink, OInv, OTypes, QueueInv, PlaysWhatItWasGiven, RampInv, reached, FormatInv,
         WriterInv, Owns, StopInv, StreamHasItsOwner, FruitInv, Pulse!StreamHasItsServer,
         PipeWire!LoopHasItsOwner
<1> QED BY <1>1, <1>2

LEMMA OutputsAlways == OutputsSpec => []OInv
BY OutputsStart, OutputsKeep, PTL DEF OutputsSpec

\* What a device plays was sent in its stream's own format and is not something the player
\* has asked to be dropped, however a write() that waited is overtaken by clear(),
\* configure(), poll() or stop(), for every size of the queue and of a write().
THEOREM QueuesKept == OutputsSpec => []QueueIsItsStreams
<1>1. OInv => QueueIsItsStreams
  <2> SUFFICES ASSUME OInv PROVE QueueIsItsStreams
    OBVIOUS
  <2>1. SinkTypeOK
    BY Fields DEF OInv, OTypes, SinkTypeOK
  <2> QED BY <2>1 DEF OInv, QueueInv, QueueIsItsStreams
<1> QED BY <1>1, OutputsAlways, PTL

\* Frames next to each other are within a step of the ramp, for every length of the ramp,
\* every volume and every way a buffer is cut up, waited over or abandoned.
THEOREM RampsSmooth == OutputsSpec => []GainNeverJumps
<1>1. OInv => GainNeverJumps
  BY DEF OInv, RampInv, GainNeverJumps
<1> QED BY <1>1, OutputsAlways, PTL

\* No stream outlives what it lives on, and none is open once stop() has returned,
\* whichever thread opened it.
THEOREM StreamsBracketed == OutputsSpec => []StreamsAreBracketed
<1>1. OInv => StreamsAreBracketed
  BY DEF OInv, StopInv, StreamsAreBracketed, NothingOpenAfterStop
<1> QED BY <1>1, OutputsAlways, PTL

\* PulseAudio and PipeWire never leave the sync task on a device that takes nothing.
THEOREM DeadStreamsDiscard == OutputsSpec => []DeadStreamDiscards
<1>1. OInv => DeadStreamDiscards
  BY DEF OInv, OTypes, FruitInv, DeadStreamDiscards, DeadDeviceDiscards
<1> QED BY <1>1, OutputsAlways, PTL
=============================================================================
