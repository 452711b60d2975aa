----------------------------- MODULE RetryDelays -----------------------------
(***************************************************************************)
(* next_retry_delay_ms() (src/outbound.cpp): the delays between the dials   *)
(* of a server, and between the restarts of mDNS.                           *)
(***************************************************************************)
EXTENDS Integers, Sequences, FiniteSets

CONSTANTS
    MIN_RETRY_DELAY_MS, MAX_RETRY_DELAY_MS,
    None

ASSUME DelayAssumption ==
    /\ {MIN_RETRY_DELAY_MS, MAX_RETRY_DELAY_MS} \subseteq Nat \ {0}
    /\ MIN_RETRY_DELAY_MS < MAX_RETRY_DELAY_MS

lesser(a, b) == IF a <= b THEN a ELSE b

next_retry_delay_ms[n \in Nat] ==
    IF n = 0 THEN lesser(MIN_RETRY_DELAY_MS, MAX_RETRY_DELAY_MS)
    ELSE IF next_retry_delay_ms[n - 1] >= MAX_RETRY_DELAY_MS \div 2
         THEN MAX_RETRY_DELAY_MS
         ELSE 2 * next_retry_delay_ms[n - 1]
=============================================================================
