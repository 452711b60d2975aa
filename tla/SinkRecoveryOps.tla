-------------------------- MODULE SinkRecoveryOps --------------------------
(***************************************************************************)
(* The decision half of getting a dead output device back mid-stream:      *)
(* class SinkRecovery of src/sink_recovery.{h,cpp}, as operators on a       *)
(* record of its private fields.  Every sink that embeds a SinkRecovery     *)
(* keeps such a record and applies these operators to it; SinkRecovery.tla  *)
(* drives them with the most general caller the class allows.               *)
(*                                                                          *)
(* A method that answers a question and changes the object is two           *)
(* operators: the answer (reopen_due, rescan_due) and the object left       *)
(* behind by the call (after_reopen_due, after_rescan_due).                 *)
(*                                                                          *)
(* Here and in the other modules, an operator whose name begins with bug_   *)
(* is the definition after it with a plausible mistake: it is never used,   *)
(* and stands for the property that would catch it.                         *)
(***************************************************************************)
EXTENDS Integers

CONSTANTS
    SINK_RESCAN_DELAY_MS,      \* wait before the first second attempt
    SINK_RESCAN_MAX_DELAY_MS,  \* ceiling of the doubling delay
    SINK_RESCAN_ATTEMPTS       \* second attempts per configured stream

ASSUME RecoveryConstants ==
    /\ SINK_RESCAN_DELAY_MS \in Nat
    /\ SINK_RESCAN_MAX_DELAY_MS \in Nat
    /\ SINK_RESCAN_DELAY_MS <= SINK_RESCAN_MAX_DELAY_MS
    /\ SINK_RESCAN_ATTEMPTS \in Nat \ {0}

\* INT64_MIN in the code: below every deadline, since the clock is a natural.
NOT_STAMPED == -1

Recovery ==
    [ reopen_spent     : BOOLEAN,
      rescan_spent     : BOOLEAN,
      rescan_in_flight : BOOLEAN,
      rescan_attempts  : Nat,
      rescan_owed      : BOOLEAN,
      rescan_at_ms     : Nat \cup {NOT_STAMPED} ]

\* A freshly constructed object, and what reset() leaves behind.
fresh_recovery ==
    [ reopen_spent     |-> FALSE,
      rescan_spent     |-> FALSE,
      rescan_in_flight |-> FALSE,
      rescan_attempts  |-> 0,
      rescan_owed      |-> FALSE,
      rescan_at_ms     |-> NOT_STAMPED ]

-----------------------------------------------------------------------------
\* The loop of delay_for_(): doubled[i] is `delay` after i turns.
doubled[i \in Nat] ==
    IF i = 0 THEN SINK_RESCAN_DELAY_MS
    ELSE IF doubled[i - 1] < SINK_RESCAN_MAX_DELAY_MS
         THEN 2 * doubled[i - 1]
         ELSE doubled[i - 1]

bug_delay_never_doubles(attempts_made) == SINK_RESCAN_DELAY_MS

delay_for_(attempts_made) ==
    IF doubled[attempts_made] < SINK_RESCAN_MAX_DELAY_MS
    THEN doubled[attempts_made]
    ELSE SINK_RESCAN_MAX_DELAY_MS

escalate_(r) ==
    IF r.rescan_spent \/ r.rescan_in_flight
    THEN r
    ELSE [r EXCEPT !.rescan_owed = TRUE]

-----------------------------------------------------------------------------
reopen_due(r) == ~ r.reopen_spent

after_reopen_due(r) ==
    IF reopen_due(r) THEN [r EXCEPT !.reopen_spent = TRUE] ELSE escalate_(r)

reopen_done(r, recovered) == IF recovered THEN r ELSE escalate_(r)

pending(r) == r.rescan_owed

rescan_due(r, now_ms) ==
    /\ r.rescan_owed
    /\ r.rescan_at_ms # NOT_STAMPED
    /\ now_ms >= r.rescan_at_ms

bug_stamped_every_time(r, now_ms) ==
    IF rescan_due(r, now_ms)
    THEN [r EXCEPT !.rescan_attempts = @ + 1, !.rescan_in_flight = TRUE, !.rescan_owed = FALSE]
    ELSE IF r.rescan_owed
         THEN [r EXCEPT !.rescan_at_ms = now_ms + delay_for_(r.rescan_attempts)]
         ELSE r

\* The first call of an escalation, or of a retry, only stamps the deadline.
after_rescan_due(r, now_ms) ==
    IF rescan_due(r, now_ms)
    THEN [r EXCEPT !.rescan_attempts  = @ + 1,
                   !.rescan_in_flight = TRUE,
                   !.rescan_owed      = FALSE]
    ELSE IF r.rescan_owed /\ r.rescan_at_ms = NOT_STAMPED
         THEN [r EXCEPT !.rescan_at_ms = now_ms + delay_for_(r.rescan_attempts)]
         ELSE r

bug_retries_for_ever(r, recovered) ==
    IF ~ r.rescan_in_flight
    THEN r
    ELSE IF recovered
         THEN [r EXCEPT !.rescan_in_flight = FALSE, !.rescan_spent = TRUE, !.rescan_owed = FALSE]
         ELSE [r EXCEPT !.rescan_in_flight = FALSE, !.rescan_at_ms = NOT_STAMPED,
                        !.rescan_owed = TRUE]

\* A report on an attempt that is not outstanding does nothing.
rescan_done(r, recovered) ==
    IF ~ r.rescan_in_flight
    THEN r
    ELSE IF recovered \/ r.rescan_attempts >= SINK_RESCAN_ATTEMPTS
         THEN [r EXCEPT !.rescan_in_flight = FALSE,
                        !.rescan_spent     = TRUE,
                        !.rescan_owed      = FALSE]
         ELSE [r EXCEPT !.rescan_in_flight = FALSE,
                        !.rescan_at_ms     = NOT_STAMPED,
                        !.rescan_owed      = TRUE]
=============================================================================
