--------------------------- MODULE ServersProofs ---------------------------
(***************************************************************************)
(* The servers a player dials.  For every first delay, ceiling, set of      *)
(* servers and set of command lines, what the dialler says and remembers of *)
(* a connection, and the back-off of the dials nothing answers.  For every  *)
(* set of instances, their interfaces and their addresses, what the mDNS    *)
(* service holds of the library, follows and offers to the dialler.         *)
(***************************************************************************)
EXTENDS Outbound, Mdns, FirstOrderInduction, FiniteSetTheorems, TLAPS

-----------------------------------------------------------------------------
(* The schedule.                                                            *)

\* The constants as the arithmetic below uses them.
LEMMA DelayConstants ==
    /\ MIN_RETRY_DELAY_MS \in Nat /\ MAX_RETRY_DELAY_MS \in Nat
    /\ 0 < MIN_RETRY_DELAY_MS /\ MIN_RETRY_DELAY_MS < MAX_RETRY_DELAY_MS
    /\ lesser(MIN_RETRY_DELAY_MS, MAX_RETRY_DELAY_MS) = MIN_RETRY_DELAY_MS
  BY DelayAssumption DEF lesser

\* One step of the schedule, as the code takes it: a delay that is half the
\* ceiling or more is followed by the ceiling.
raised(x) == IF x >= MAX_RETRY_DELAY_MS \div 2 THEN MAX_RETRY_DELAY_MS ELSE 2 * x

\* Halving before comparing, as the code does, or doubling: the same but for an
\* odd ceiling, where the code is at the ceiling one step sooner.
LEMMA Raises ==
    ASSUME NEW x \in Nat, MIN_RETRY_DELAY_MS <= x, x <= MAX_RETRY_DELAY_MS
    PROVE  /\ raised(x) \in Nat
           /\ x <= raised(x) /\ raised(x) <= MAX_RETRY_DELAY_MS
           /\ lesser(2 * x, MAX_RETRY_DELAY_MS) <= raised(x)
<1>. DEFINE half == MAX_RETRY_DELAY_MS \div 2
<1>1. half \in Nat /\ 2 * half <= MAX_RETRY_DELAY_MS
  BY DelayConstants
<1>2. CASE x >= half
  BY <1>2, DelayConstants DEF raised, lesser
<1>3. CASE ~ (x >= half)
  <2>1. raised(x) = 2 * x /\ 2 * x <= MAX_RETRY_DELAY_MS
    BY <1>1, <1>3, DelayConstants DEF raised
  <2>. QED
    BY <2>1, DelayConstants DEF lesser
<1>. QED
  BY <1>2, <1>3

\* next_retry_delay_ms() starts at the first delay and is raised step by step.
LEMMA NextDelayDef ==
    /\ next_retry_delay_ms \in [Nat -> Nat]
    /\ next_retry_delay_ms[0] = MIN_RETRY_DELAY_MS
    /\ \A n \in Nat : next_retry_delay_ms[n + 1] = raised(next_retry_delay_ms[n])
<1>. DEFINE step == [x \in Nat |-> raised(x)]
            body(f) == [n \in Nat |-> IF n = 0 THEN lesser(MIN_RETRY_DELAY_MS, MAX_RETRY_DELAY_MS)
                                      ELSE IF f[n - 1] >= MAX_RETRY_DELAY_MS \div 2
                                           THEN MAX_RETRY_DELAY_MS
                                           ELSE 2 * f[n - 1]]
<1>1. step \in [Nat -> Nat] /\ MIN_RETRY_DELAY_MS \in Nat
  BY DelayConstants DEF raised
<1>2. PICK f \in [Nat -> Nat] : /\ f[0] = MIN_RETRY_DELAY_MS
                                /\ \A n \in Nat : f[n + 1] = step[f[n]]
  <2>. HIDE DEF step
  <2>. QED
    BY <1>1, PrimitiveRecursion
<1>3. ASSUME NEW n \in Nat
      PROVE  f[n] = body(f)[n]
  <2>1. CASE n = 0
    BY <1>2, <2>1, DelayConstants
  <2>2. CASE n # 0
    <3>1. n - 1 \in Nat /\ (n - 1) + 1 = n
      BY <2>2
    <3>2. f[n] = step[f[n - 1]] /\ f[n - 1] \in Nat
      BY <1>2, <3>1
    <3>. QED
      BY <2>2, <3>2 DEF raised
  <2>. QED
    BY <2>1, <2>2
<1>4. f = body(f)
  BY <1>3
<1>5. next_retry_delay_ms = body(next_retry_delay_ms)
  BY <1>4 DEF next_retry_delay_ms
<1>6. next_retry_delay_ms[0] = MIN_RETRY_DELAY_MS
  BY <1>5, DelayConstants
<1>7. ASSUME NEW n \in Nat
      PROVE  next_retry_delay_ms[n + 1] = raised(next_retry_delay_ms[n])
  <2>1. n + 1 \in Nat /\ n + 1 # 0 /\ (n + 1) - 1 = n
    OBVIOUS
  <2>. QED
    BY <1>5, <2>1 DEF raised
<1>8. \A n \in Nat : next_retry_delay_ms[n] \in Nat
  <2>. DEFINE T == {n \in Nat : next_retry_delay_ms[n] \in Nat}
  <2>1. 0 \in T
    BY <1>1, <1>6
  <2>2. ASSUME NEW n \in Nat, n \in T
        PROVE  n + 1 \in T
    <3>1. raised(next_retry_delay_ms[n]) \in Nat
      BY <1>1, <2>2
    <3>. QED
      BY <1>7, <3>1
  <2>. HIDE DEF T
  <2>3. Nat \subseteq T
    BY <2>1, <2>2, InductionOverNat
  <2>. QED
    BY <2>3 DEF T
<1>. QED
  BY <1>5, <1>6, <1>7, <1>8

\* The ladder starts at the first delay; each rung is twice the last, up to the ceiling.
LEMMA RungDef ==
    /\ ladder \in [Nat -> Nat]
    /\ ladder[0] = MIN_RETRY_DELAY_MS
    /\ \A n \in Nat : ladder[n + 1] = lesser(2 * ladder[n], MAX_RETRY_DELAY_MS)
<1>. DEFINE step == [x \in Nat |-> lesser(2 * x, MAX_RETRY_DELAY_MS)]
            body(f) == [n \in Nat |-> IF n = 0 THEN lesser(MIN_RETRY_DELAY_MS, MAX_RETRY_DELAY_MS)
                                      ELSE lesser(2 * f[n - 1], MAX_RETRY_DELAY_MS)]
<1>1. step \in [Nat -> Nat] /\ MIN_RETRY_DELAY_MS \in Nat
  BY DelayConstants DEF lesser
<1>2. PICK f \in [Nat -> Nat] : /\ f[0] = MIN_RETRY_DELAY_MS
                                /\ \A n \in Nat : f[n + 1] = step[f[n]]
  <2>. HIDE DEF step
  <2>. QED
    BY <1>1, PrimitiveRecursion
<1>3. ASSUME NEW n \in Nat
      PROVE  f[n] = body(f)[n]
  <2>1. CASE n = 0
    BY <1>2, <2>1, DelayConstants
  <2>2. CASE n # 0
    <3>1. n - 1 \in Nat /\ (n - 1) + 1 = n
      BY <2>2
    <3>2. f[n] = step[f[n - 1]] /\ f[n - 1] \in Nat
      BY <1>2, <3>1
    <3>. QED
      BY <2>2, <3>2
  <2>. QED
    BY <2>1, <2>2
<1>4. f = body(f)
  BY <1>3
<1>5. ladder = body(ladder)
  BY <1>4 DEF ladder
<1>6. ladder[0] = MIN_RETRY_DELAY_MS
  BY <1>5, DelayConstants
<1>7. ASSUME NEW n \in Nat
      PROVE  ladder[n + 1] = lesser(2 * ladder[n], MAX_RETRY_DELAY_MS)
  <2>1. n + 1 \in Nat /\ n + 1 # 0 /\ (n + 1) - 1 = n
    OBVIOUS
  <2>. QED
    BY <1>5, <2>1
<1>8. \A n \in Nat : ladder[n] \in Nat
  <2>. DEFINE T == {n \in Nat : ladder[n] \in Nat}
  <2>1. 0 \in T
    BY <1>1, <1>6
  <2>2. ASSUME NEW n \in Nat, n \in T
        PROVE  n + 1 \in T
    BY <1>7, <2>2, DelayConstants DEF lesser
  <2>. HIDE DEF T
  <2>3. Nat \subseteq T
    BY <2>1, <2>2, InductionOverNat
  <2>. QED
    BY <2>3 DEF T
<1>. QED
  BY <1>5, <1>6, <1>7, <1>8

\* Every delay is between the first and the ceiling, and no rung is above the ceiling.
LEMMA NextDelayBounds ==
    \A n \in Nat : /\ MIN_RETRY_DELAY_MS <= next_retry_delay_ms[n]
                   /\ next_retry_delay_ms[n] <= MAX_RETRY_DELAY_MS
                   /\ ladder[n] <= MAX_RETRY_DELAY_MS
<1>. DEFINE T == {n \in Nat : /\ MIN_RETRY_DELAY_MS <= next_retry_delay_ms[n]
                              /\ next_retry_delay_ms[n] <= MAX_RETRY_DELAY_MS
                              /\ ladder[n] <= MAX_RETRY_DELAY_MS}
<1>1. 0 \in T
  BY NextDelayDef, RungDef, DelayConstants
<1>2. ASSUME NEW n \in Nat, n \in T
      PROVE  n + 1 \in T
  <2>1. next_retry_delay_ms[n] \in Nat /\ ladder[n] \in Nat
    BY NextDelayDef, RungDef
  <2>2. /\ next_retry_delay_ms[n] <= raised(next_retry_delay_ms[n])
        /\ raised(next_retry_delay_ms[n]) <= MAX_RETRY_DELAY_MS
        /\ raised(next_retry_delay_ms[n]) \in Nat
    BY <1>2, <2>1, Raises
  <2>3. /\ next_retry_delay_ms[n + 1] = raised(next_retry_delay_ms[n])
        /\ ladder[n + 1] = lesser(2 * ladder[n], MAX_RETRY_DELAY_MS)
    BY NextDelayDef, RungDef
  <2>4. ladder[n + 1] <= MAX_RETRY_DELAY_MS
    BY <2>1, <2>3, DelayConstants DEF lesser
  <2>5. MIN_RETRY_DELAY_MS <= next_retry_delay_ms[n + 1]
    BY <1>2, <2>1, <2>2, <2>3, DelayConstants
  <2>. QED
    BY <2>2, <2>3, <2>4, <2>5
<1>. HIDE DEF T
<1>3. Nat \subseteq T
  BY <1>1, <1>2, InductionOverNat
<1>. QED
  BY <1>3 DEF T

\* A delay that is not below some rung is followed by one not below the next rung.
LEMMA DelayClimbs ==
    ASSUME NEW n \in Nat, NEW m \in Nat, ladder[m] <= next_retry_delay_ms[n]
    PROVE  ladder[m + 1] <= next_retry_delay_ms[n + 1]
<1>1. /\ next_retry_delay_ms[n] \in Nat /\ ladder[m] \in Nat
      /\ next_retry_delay_ms[n + 1] = raised(next_retry_delay_ms[n])
      /\ ladder[m + 1] = lesser(2 * ladder[m], MAX_RETRY_DELAY_MS)
  BY NextDelayDef, RungDef
<1>2. /\ raised(next_retry_delay_ms[n]) \in Nat
      /\ lesser(2 * next_retry_delay_ms[n], MAX_RETRY_DELAY_MS) <= raised(next_retry_delay_ms[n])
  BY <1>1, NextDelayBounds, Raises
<1>3. lesser(2 * ladder[m], MAX_RETRY_DELAY_MS)
        <= lesser(2 * next_retry_delay_ms[n], MAX_RETRY_DELAY_MS)
  BY <1>1, DelayConstants DEF lesser
<1>4. /\ lesser(2 * ladder[m], MAX_RETRY_DELAY_MS) \in Nat
      /\ lesser(2 * next_retry_delay_ms[n], MAX_RETRY_DELAY_MS) \in Nat
  BY <1>1, DelayConstants DEF lesser
<1>. QED
  BY <1>1, <1>2, <1>3, <1>4

\* What the pacer waits before its next dial: positive, and never past the ceiling.
LEMMA WaitBounds ==
    ASSUME NEW p, p.dials \in Nat
    PROVE  /\ delay_ms(p) \in Nat
           /\ MIN_RETRY_DELAY_MS <= delay_ms(p) /\ delay_ms(p) <= MAX_RETRY_DELAY_MS
<1>1. (IF p.dials > 0 THEN p.dials - 1 ELSE 0) \in Nat
  OBVIOUS
<1>. QED
  BY <1>1, NextDelayDef, NextDelayBounds DEF delay_ms

\* A dial leaves a wait that has climbed with the number of dials nothing answered.
LEMMA DialClimbs ==
    ASSUME NEW p, p \in [since : 0..MAX_RETRY_DELAY_MS, dials : Nat, dialled : BOOLEAN,
                         connected : BOOLEAN],
           NEW u \in Nat,
           u > 0 => p.dials > 0 /\ ladder[u - 1] <= delay_ms(p),
           NEW v,
           v = IF u = 0 \/ ladder[u - 1] < MAX_RETRY_DELAY_MS THEN u + 1 ELSE u
    PROVE  /\ v \in Nat /\ v > 0
           /\ note_dial(p).dials \in Nat /\ note_dial(p).dials > 0
           /\ ladder[v - 1] <= delay_ms(note_dial(p))
<1>. DEFINE q == note_dial(p)
<1>1. /\ delay_ms(p) \in Nat
      /\ MIN_RETRY_DELAY_MS <= delay_ms(p) /\ delay_ms(p) <= MAX_RETRY_DELAY_MS
  BY WaitBounds
<1>2. q.dials = IF delay_ms(p) < MAX_RETRY_DELAY_MS THEN p.dials + 1 ELSE p.dials
  BY DEF note_dial
<1>3. v \in Nat /\ v > 0
  OBVIOUS
<1>4. ladder[v - 1] \in Nat /\ ladder[v - 1] <= MAX_RETRY_DELAY_MS
  <2>1. v - 1 \in Nat
    BY <1>3
  <2>. QED
    BY <2>1, RungDef, NextDelayBounds
<1>5. p.dials = 0 => delay_ms(p) = MIN_RETRY_DELAY_MS
  BY NextDelayDef DEF delay_ms
<1>6. q.dials \in Nat /\ q.dials > 0
  BY <1>1, <1>2, <1>5, DelayConstants
<1>. HIDE DEF q
<1>7. delay_ms(q) = next_retry_delay_ms[q.dials - 1]
  BY <1>6 DEF delay_ms
<1>8. CASE ~ (delay_ms(p) < MAX_RETRY_DELAY_MS)
  <2>1. q.dials = p.dials
    BY <1>2, <1>8
  <2>2. delay_ms(q) = delay_ms(p)
    BY <2>1 DEF delay_ms
  <2>. QED
    BY <1>1, <1>3, <1>4, <1>6, <1>8, <2>2, DelayConstants DEF q
<1>9. CASE delay_ms(p) < MAX_RETRY_DELAY_MS
  <2>1. q.dials - 1 = p.dials
    BY <1>2, <1>9
  <2>2. CASE u = 0
    <3>1. v - 1 = 0
      BY <2>2
    <3>2. MIN_RETRY_DELAY_MS <= delay_ms(q)
      BY <1>6, WaitBounds
    <3>. QED
      BY <1>3, <1>6, <3>1, <3>2, RungDef DEF q
  <2>3. CASE u # 0
    <3>1. u - 1 \in Nat /\ p.dials > 0 /\ p.dials - 1 \in Nat
      BY <2>3
    <3>2. /\ delay_ms(p) = next_retry_delay_ms[p.dials - 1]
          /\ ladder[u - 1] <= delay_ms(p)
      BY <2>3, <3>1 DEF delay_ms
    <3>3. ladder[u - 1] \in Nat
      BY <3>1, RungDef
    <3>4. v - 1 = (u - 1) + 1 /\ p.dials = (p.dials - 1) + 1
      BY <1>1, <1>9, <3>1, <3>2, <3>3, DelayConstants
    <3>5. ladder[(u - 1) + 1] <= next_retry_delay_ms[(p.dials - 1) + 1]
      BY <3>1, <3>2, DelayClimbs
    <3>6. ladder[v - 1] <= delay_ms(q)
      BY <1>7, <2>1, <3>4, <3>5
    <3>. QED
      BY <1>3, <1>6, <3>6 DEF q
  <2>. QED
    BY <2>2, <2>3
<1>. QED
  BY <1>8, <1>9

-----------------------------------------------------------------------------
(* The inductive invariant.                                                 *)

\* What the pacer waits is no shorter than the rung of the dials nothing answered,
\* and what it measures is no longer than what has passed since.
PaceInv ==
    /\ pacer.dialled => pacer.since <= since_dial
    /\ ~ pacer.connected /\ pacer.dialled => pacer.since <= since_seen
    /\ ~ pacer.connected /\ ~ pacer.dialled => since_seen = MAX_RETRY_DELAY_MS
    /\ unanswered > 0 =>
         /\ ~ pacer.connected
         /\ pacer.dialled
         /\ pacer.dials > 0
         /\ ladder[unanswered - 1] <= delay_ms(pacer)

\* The latch of remember() is that of the connection the pacer has seen.
MemoryInv ==
    /\ pacer.connected <=> seen # None
    /\ remembered_this_connection => pacer.connected
    /\ pacer.connected /\ ~ switched =>
         /\ remembered = seen
         /\ connection # None => connection.server = seen

\* The attempt in flight, and the connection if it came of one, are those of last_dial_.
UrlInv ==
    last_dial.url # None =>
        /\ opts.discover => last_dial.server_id = last_dial.url
        /\ unanswered > 0 \/ pacer.connected
        /\ attempt # None => attempt.url = last_dial.url
        /\ connection # None => connection.via \in {Inbound, last_dial.url}

IInv == TypeOK /\ PaceInv /\ MemoryInv /\ UrlInv

\* What TypeOK says of the pacer, as the lemmas above use it.
LEMMA PacerType ==
    ASSUME TypeOK
    PROVE  /\ pacer \in [since : 0..MAX_RETRY_DELAY_MS, dials : Nat, dialled : BOOLEAN,
                         connected : BOOLEAN]
           /\ delay_ms(pacer) \in Nat
           /\ MIN_RETRY_DELAY_MS <= delay_ms(pacer)
           /\ delay_ms(pacer) <= MAX_RETRY_DELAY_MS
<1>1. pacer \in [since : 0..MAX_RETRY_DELAY_MS, dials : Nat, dialled : BOOLEAN,
                 connected : BOOLEAN]
  BY DEF TypeOK
<1>2. pacer.dials \in Nat
  BY <1>1
<1>. QED
  BY <1>1, <1>2, WaitBounds

\* Nothing discovered is a state discovery can be in.
LEMMA NothingDiscovered == <<>> \in Candidates
<1>1. Cardinality(Servers) \in Nat
  BY OutboundAssumption, FS_CardinalityType
<1>2. 0 \in 0..Cardinality(Servers)
  BY <1>1
<1>3. <<>> \in [1..0 -> Servers]
  OBVIOUS
<1>. QED
  BY <1>2, <1>3 DEF Candidates

\* What is dialled is a server of the list, or the literal URL.
LEMMA ChosenType ==
    ASSUME TypeOK, chosen # no_dial
    PROVE  /\ chosen.url \in Servers \cup {Literal}
           /\ chosen.server_id \in Servers \cup {None}
           /\ opts.discover => chosen.server_id = chosen.url
<1>1. CASE ~ opts.discover
  BY <1>1 DEF chosen
<1>2. CASE opts.discover
  <2>1. select_server # None /\ chosen = [url |-> select_server, server_id |-> select_server]
    BY <1>2 DEF chosen
  <2>2. \A i \in DOMAIN discovered : discovered[i] \in Servers
    BY DEF TypeOK, Candidates
  <2>3. select_server \in Servers
    <3>. DEFINE matching == {i \in DOMAIN discovered : discovered[i] \in opts.named}
    <3>1. DOMAIN discovered \subseteq Nat
      BY DEF TypeOK, Candidates
    <3>2. matching # {}
      BY <2>1 DEF select_server
    <3>3. CASE \E i \in matching : discovered[i] = remembered
      BY <2>2, <3>2, <3>3 DEF select_server
    <3>4. CASE ~ \E i \in matching : discovered[i] = remembered
      <4>1. \E i \in matching : \A j \in matching : i <= j
        BY <3>1, <3>2, LeastElement
      <4>2. (CHOOSE i \in matching : \A j \in matching : i <= j) \in matching
        BY <4>1
      <4>. QED
        BY <2>2, <3>2, <3>4, <4>2 DEF select_server
    <3>. QED
      BY <3>3, <3>4
  <2>. QED
    BY <2>1, <2>3
<1>. QED
  BY <1>1, <1>2

\* A run begins where the invariant holds.
LEMMA InitIInv == Init => IInv
<1>. SUFFICES ASSUME Init
              PROVE  IInv
  OBVIOUS
<1>1. TypeOK
  <2>1. /\ pacer \in [since : 0..MAX_RETRY_DELAY_MS, dials : Nat, dialled : BOOLEAN,
                      connected : BOOLEAN]
        /\ ~ (pacer.dials > 1)
    BY DelayConstants DEF Init, new_pacer
  <2>2. /\ last_dial.url \in Servers \cup {Literal, None}
        /\ last_dial.server_id \in Servers \cup {None}
        /\ {remembered, stored, seen} \subseteq Servers \cup {None}
    BY DEF Init, no_dial
  <2>3. {remembered_this_connection, switched, healthy} \subseteq BOOLEAN
    BY DEF Init
  <2>4. {since_dial, since_seen} \subseteq 0..MAX_RETRY_DELAY_MS /\ unanswered \in Nat
    BY DelayConstants DEF Init
  <2>. QED
    BY <2>1, <2>2, <2>3, <2>4, NothingDiscovered DEF Init, TypeOK
<1>2. PaceInv /\ MemoryInv /\ UrlInv
  BY DEF Init, PaceInv, MemoryInv, UrlInv, new_pacer, no_dial
<1>. QED
  BY <1>1, <1>2 DEF IInv

\* Every step of the player and of what is around it keeps the invariant.
LEMMA NextIInv == IInv /\ [Next]_vars => IInv'
<1>. SUFFICES ASSUME IInv, [Next]_vars
              PROVE  IInv'
  OBVIOUS
<1>. USE DEF IInv
<1>1. /\ pacer \in [since : 0..MAX_RETRY_DELAY_MS, dials : Nat, dialled : BOOLEAN,
                    connected : BOOLEAN]
      /\ delay_ms(pacer) \in Nat
      /\ MIN_RETRY_DELAY_MS <= delay_ms(pacer)
      /\ delay_ms(pacer) <= MAX_RETRY_DELAY_MS
  BY PacerType
<1>2. CASE TickConnected
  <2>. USE <1>2
  <2>1. connection.server \in Servers /\ connection.server # None
    BY OutboundAssumption DEF TickConnected, TypeOK
  <2>2. /\ pacer' = [pacer EXCEPT !.connected = TRUE, !.dials = 0]
        /\ UNCHANGED <<last_dial, opts, attempt, connection, switched, healthy, discovered,
                       since_dial>>
        /\ seen' = connection.server /\ since_seen' = 0 /\ unanswered' = 0
    BY DEF TickConnected, note_connection_state, library
  <2>3. /\ pacer' \in [since : 0..MAX_RETRY_DELAY_MS, dials : Nat, dialled : BOOLEAN,
                       connected : BOOLEAN]
        /\ pacer'.connected /\ pacer'.dials = 0 /\ pacer'.since = pacer.since
        /\ pacer'.dialled = pacer.dialled
    BY <1>1, <2>2
  <2>4. \/ /\ remembered_this_connection \/ connection.server = remembered
           /\ UNCHANGED <<remembered, remembered_this_connection, stored>>
        \/ /\ remembered_this_connection' = TRUE /\ remembered' = connection.server
           /\ stored' \in {connection.server, stored}
    BY DEF TickConnected, remember
  <2>5. TypeOK'
    <3>1. {remembered', stored', seen'} \subseteq Servers \cup {None}
      BY <2>1, <2>2, <2>4 DEF TypeOK
    <3>2. {remembered_this_connection', switched', healthy'} \subseteq BOOLEAN
      BY <2>2, <2>4 DEF TypeOK
    <3>. QED
      BY <2>2, <2>3, <3>1, <3>2, DelayConstants DEF TypeOK, Candidates
  <2>6. PaceInv'
    BY <2>2, <2>3 DEF PaceInv
  <2>7. MemoryInv'
    <3>1. connection # None
      BY DEF TickConnected
    <3>2. pacer'.connected /\ seen' # None
      BY <2>1, <2>2, <2>3
    <3>3. switched' = switched /\ connection' = connection /\ seen' = connection.server
      BY <2>2
    <3>4. remembered_this_connection /\ ~ switched => remembered = connection.server
      BY <3>1 DEF MemoryInv
    <3>5. ~ switched => remembered' = connection.server
      BY <2>4, <3>4
    <3>. QED
      BY <3>2, <3>3, <3>5 DEF MemoryInv
  <2>8. UrlInv'
    BY <2>2, <2>3 DEF UrlInv
  <2>. QED
    BY <2>5, <2>6, <2>7, <2>8
<1>3. CASE TickWaits
  <2>. USE <1>3
  <2>1. /\ connection = None
        /\ UNCHANGED <<remembered, stored, attempt, connection, opts, healthy, discovered,
                       since_dial, since_seen, unanswered>>
    BY DEF TickWaits
  <2>2. CASE lost(pacer)
    <3>1. /\ pacer' = [since |-> 0, dials |-> 1, dialled |-> TRUE, connected |-> FALSE]
          /\ last_dial' = no_dial /\ remembered_this_connection' = FALSE
          /\ switched' = FALSE /\ seen' = None
          /\ pacer.connected
      BY <2>1, <2>2 DEF TickWaits, note_connection_state, forget, lost
    <3>2. TypeOK'
      <4>1. /\ pacer' \in [since : 0..MAX_RETRY_DELAY_MS, dials : Nat, dialled : BOOLEAN,
                           connected : BOOLEAN]
            /\ ~ (pacer'.dials > 1)
        BY <3>1, DelayConstants
      <4>2. /\ last_dial'.url \in Servers \cup {Literal, None}
            /\ last_dial'.server_id \in Servers \cup {None}
        BY <3>1 DEF no_dial
      <4>3. {remembered', stored', seen'} \subseteq Servers \cup {None}
        BY <2>1, <3>1 DEF TypeOK
      <4>4. {remembered_this_connection', switched', healthy'} \subseteq BOOLEAN
        BY <2>1, <3>1 DEF TypeOK
      <4>. QED
        BY <2>1, <4>1, <4>2, <4>3, <4>4 DEF TypeOK, Candidates
    <3>3. PaceInv'
      BY <2>1, <3>1 DEF PaceInv, TypeOK
    <3>4. MemoryInv' /\ UrlInv'
      BY <2>1, <3>1 DEF MemoryInv, UrlInv, no_dial
    <3>. QED
      BY <3>2, <3>3, <3>4
  <2>3. CASE ~ lost(pacer)
    <3>1. UNCHANGED <<pacer, last_dial, remembered_this_connection, seen>>
      BY <2>1, <2>3 DEF TickWaits, note_connection_state, forget
    <3>2. switched' = switched
      BY <2>3 DEF TickWaits, TypeOK
    <3>3. TypeOK'
      BY <2>1, <3>1, <3>2 DEF TypeOK, Candidates
    <3>4. PaceInv' /\ MemoryInv' /\ UrlInv'
      BY <2>1, <3>1, <3>2 DEF PaceInv, MemoryInv, UrlInv, delay_ms
    <3>. QED
      BY <3>3, <3>4
  <2>. QED
    BY <2>2, <2>3
<1>4. CASE TickDials
  <2>. USE <1>4
  <2>1. /\ connection = None /\ connection' = None
        /\ ~ pacer.connected
        /\ pacer' = note_dial(pacer)
        /\ last_dial' = chosen
        /\ attempt' = [url |-> chosen.url, age |-> 0]
        /\ since_dial' = 0
        /\ UNCHANGED <<remembered, remembered_this_connection, stored, switched, opts, healthy,
                       discovered, since_seen, seen>>
    BY DEF TickDials, should_dial
  <2>2. /\ chosen.url \in Servers \cup {Literal}
        /\ chosen.server_id \in Servers \cup {None}
        /\ opts.discover => chosen.server_id = chosen.url
    BY ChosenType DEF TickDials
  <2>3. /\ unanswered' \in Nat /\ unanswered' > 0
        /\ note_dial(pacer).dials \in Nat /\ note_dial(pacer).dials > 0
        /\ ladder[unanswered' - 1] <= delay_ms(note_dial(pacer))
    <3>1. unanswered \in Nat
      BY DEF TypeOK
    <3>2. unanswered > 0 => pacer.dials > 0 /\ ladder[unanswered - 1] <= delay_ms(pacer)
      BY DEF PaceInv
    <3>3. unanswered' = IF unanswered = 0 \/ ladder[unanswered - 1] < MAX_RETRY_DELAY_MS
                        THEN unanswered + 1 ELSE unanswered
      BY DEF TickDials
    <3>. QED
      BY <1>1, <3>1, <3>2, <3>3, DialClimbs
  <2>4. /\ pacer'.since = 0 /\ pacer'.dialled = TRUE /\ pacer'.connected = FALSE
        /\ pacer'.dials = IF delay_ms(pacer) < MAX_RETRY_DELAY_MS
                          THEN pacer.dials + 1 ELSE pacer.dials
        /\ pacer' \in [since : 0..MAX_RETRY_DELAY_MS, dials : Nat, dialled : BOOLEAN,
                       connected : BOOLEAN]
    <3>. DEFINE d == IF delay_ms(pacer) < MAX_RETRY_DELAY_MS
                     THEN pacer.dials + 1 ELSE pacer.dials
    <3>1. pacer' = [pacer EXCEPT !.since = 0, !.dialled = TRUE, !.dials = d]
      BY <2>1 DEF note_dial
    <3>2. d \in Nat /\ 0 \in 0..MAX_RETRY_DELAY_MS
      BY <1>1, DelayConstants
    <3>. HIDE DEF d
    <3>3. /\ pacer'.since = 0 /\ pacer'.dialled = TRUE /\ pacer'.dials = d
          /\ pacer'.connected = pacer.connected
          /\ pacer' \in [since : 0..MAX_RETRY_DELAY_MS, dials : Nat, dialled : BOOLEAN,
                         connected : BOOLEAN]
      BY <1>1, <3>1, <3>2
    <3>4. pacer'.connected = FALSE
      BY <1>1, <2>1, <3>3
    <3>. QED
      BY <3>3, <3>4 DEF d
  <2>5. pacer'.dials > 1 => next_retry_delay_ms[pacer'.dials - 2] < MAX_RETRY_DELAY_MS
    <3>1. pacer.dials \in Nat
      BY <1>1
    <3>2. CASE delay_ms(pacer) < MAX_RETRY_DELAY_MS
      <4>1. pacer'.dials = pacer.dials + 1
        BY <2>4, <3>2
      <4>2. pacer.dials > 0 => next_retry_delay_ms[pacer.dials - 1] < MAX_RETRY_DELAY_MS
        BY <3>2 DEF delay_ms
      <4>3. (pacer.dials + 1) - 2 = pacer.dials - 1
        BY <3>1
      <4>. QED
        BY <3>1, <4>1, <4>2, <4>3
    <3>3. CASE ~ (delay_ms(pacer) < MAX_RETRY_DELAY_MS)
      BY <2>4, <3>3 DEF TypeOK
    <3>. QED
      BY <3>2, <3>3
  <2>6. TypeOK'
    <3>1. /\ last_dial'.url \in Servers \cup {Literal, None}
          /\ last_dial'.server_id \in Servers \cup {None}
      BY <2>1, <2>2
    <3>2. attempt' \in [url : Servers \cup {Literal}, age : 0..MAX_RETRY_DELAY_MS]
      BY <2>1, <2>2, DelayConstants
    <3>3. {remembered_this_connection', switched', healthy'} \subseteq BOOLEAN
      BY <2>1 DEF TypeOK
    <3>4. {since_dial', since_seen'} \subseteq 0..MAX_RETRY_DELAY_MS
      BY <2>1, DelayConstants DEF TypeOK
    <3>. QED
      BY <2>1, <2>3, <2>4, <2>5, <3>1, <3>2, <3>3, <3>4 DEF TypeOK, Candidates
  <2>7. PaceInv'
    <3>1. delay_ms(pacer)' = delay_ms(note_dial(pacer))
      BY <2>1 DEF delay_ms
    <3>2. since_seen' \in 0..MAX_RETRY_DELAY_MS
      BY <2>6 DEF TypeOK
    <3>3. pacer'.dials > 0
      BY <2>1, <2>3
    <3>. QED
      BY <2>1, <2>3, <2>4, <3>1, <3>2, <3>3 DEF PaceInv
  <2>8. MemoryInv'
    BY <2>1, <2>4 DEF MemoryInv
  <2>9. UrlInv'
    BY <2>1, <2>2, <2>3 DEF UrlInv
  <2>. QED
    BY <2>6, <2>7, <2>8, <2>9
<1>5. CASE Answered \/ InboundConnection
  <2>1. /\ UNCHANGED <<opts, pacer, last_dial, remembered, remembered_this_connection, stored,
                       healthy, discovered, since_dial, since_seen, unanswered, seen>>
        /\ switched' = (switched \/ pacer.connected)
    BY <1>5 DEF Answered, InboundConnection, connected_by, environment, mode, history
  <2>2. PICK s \in Servers, v \in Servers \cup {Literal, Inbound} :
            /\ connection' = [server |-> s, via |-> v]
            /\ v = Inbound \/ (attempt # None /\ v = attempt.url)
            /\ attempt' \in {attempt, None}
    <3>1. CASE Answered
      <4>1. PICK s \in IF attempt.url = Literal THEN Servers ELSE {attempt.url} :
                /\ connection' = [server |-> s, via |-> attempt.url]
                /\ attempt # None /\ attempt' = None
        BY <3>1 DEF Answered, connected_by
      <4>2. attempt.url \in Servers \cup {Literal}
        BY <4>1 DEF TypeOK
      <4>3. s \in Servers
        BY <4>1, <4>2
      <4>. QED
        BY <4>1, <4>2, <4>3
    <3>2. CASE InboundConnection
      BY <3>2 DEF InboundConnection, connected_by
    <3>. QED
      BY <1>5, <3>1, <3>2
  <2>3. TypeOK'
    <3>1. {remembered_this_connection', switched', healthy'} \subseteq BOOLEAN
      BY <1>1, <2>1 DEF TypeOK
    <3>. QED
      BY <2>1, <2>2, <3>1 DEF TypeOK, Candidates
  <2>4. PaceInv'
    BY <2>1 DEF PaceInv, delay_ms
  <2>5. MemoryInv'
    BY <1>1, <2>1 DEF MemoryInv
  <2>6. UrlInv'
    BY <2>1, <2>2 DEF UrlInv
  <2>. QED
    BY <2>3, <2>4, <2>5, <2>6
<1>6. CASE ConnectionLost \/ AttemptFails \/ HealthChanges \/ DiscoveryChanges
  <2>1. /\ UNCHANGED <<opts, pacer, last_dial, remembered, remembered_this_connection, stored,
                       switched, since_dial, since_seen, unanswered, seen>>
        /\ attempt' \in {attempt, None} /\ connection' \in {connection, None}
        /\ healthy' \in {healthy, ~ healthy}
        /\ discovered' \in Candidates
    BY <1>6 DEF ConnectionLost, AttemptFails, HealthChanges, DiscoveryChanges, environment, mode,
                history, library, TypeOK
  <2>2. TypeOK'
    <3>1. {remembered_this_connection', switched', healthy'} \subseteq BOOLEAN
      BY <2>1 DEF TypeOK
    <3>. QED
      BY <2>1, <3>1 DEF TypeOK, Candidates
  <2>3. PaceInv' /\ MemoryInv' /\ UrlInv'
    BY <2>1 DEF PaceInv, MemoryInv, UrlInv, delay_ms
  <2>. QED
    BY <2>2, <2>3
<1>7. CASE Clock
  <2>1. /\ UNCHANGED <<opts, last_dial, remembered, remembered_this_connection, stored, connection,
                       switched, healthy, discovered, unanswered, seen>>
        /\ since_dial' = older(since_dial) /\ since_seen' = older(since_seen)
    BY <1>7 DEF Clock
  <2>2. \A t \in 0..MAX_RETRY_DELAY_MS : /\ older(t) \in 0..MAX_RETRY_DELAY_MS
                                         /\ \A u \in 0..MAX_RETRY_DELAY_MS :
                                                t <= u => older(t) <= older(u)
    BY DelayConstants DEF older, lesser
  <2>3. older(MAX_RETRY_DELAY_MS) = MAX_RETRY_DELAY_MS
    BY DelayConstants DEF older, lesser
  <2>4. /\ pacer'.since = IF pacer.dialled THEN older(pacer.since) ELSE pacer.since
        /\ pacer'.dials = pacer.dials /\ pacer'.dialled = pacer.dialled
        /\ pacer'.connected = pacer.connected
        /\ pacer' \in [since : 0..MAX_RETRY_DELAY_MS, dials : Nat, dialled : BOOLEAN,
                       connected : BOOLEAN]
    <3>1. pacer' = [pacer EXCEPT !.since = IF pacer.dialled THEN older(pacer.since)
                                                            ELSE pacer.since]
      BY <1>7 DEF Clock
    <3>2. older(pacer.since) \in 0..MAX_RETRY_DELAY_MS
      BY <1>1, <2>2
    <3>. HIDE DEF older
    <3>. QED
      BY <1>1, <3>1, <3>2
  <2>5. \/ attempt = None /\ attempt' = None
        \/ /\ attempt # None /\ attempt'.url = attempt.url
           /\ attempt' \in [url : Servers \cup {Literal}, age : 0..MAX_RETRY_DELAY_MS]
    <3>1. CASE attempt = None
      BY <1>7, <3>1 DEF Clock
    <3>2. CASE attempt # None
      <4>1. attempt \in [url : Servers \cup {Literal}, age : 0..MAX_RETRY_DELAY_MS]
        BY <3>2 DEF TypeOK
      <4>2. attempt' = [attempt EXCEPT !.age = older(attempt.age)]
        BY <1>7, <3>2 DEF Clock
      <4>3. older(attempt.age) \in 0..MAX_RETRY_DELAY_MS
        BY <2>2, <4>1
      <4>. QED
        BY <3>2, <4>1, <4>2, <4>3
    <3>. QED
      BY <3>1, <3>2
  <2>6. TypeOK'
    <3>1. {since_dial', since_seen'} \subseteq 0..MAX_RETRY_DELAY_MS
      BY <2>1, <2>2 DEF TypeOK
    <3>. QED
      BY <2>1, <2>4, <2>5, <3>1 DEF TypeOK, Candidates
  <2>7. PaceInv'
    <3>1. delay_ms(pacer)' = delay_ms(pacer)
      BY <2>4 DEF delay_ms
    <3>2. /\ pacer.since \in 0..MAX_RETRY_DELAY_MS
          /\ since_dial \in 0..MAX_RETRY_DELAY_MS /\ since_seen \in 0..MAX_RETRY_DELAY_MS
      BY <1>1 DEF TypeOK
    <3>3. /\ pacer.since <= since_dial => older(pacer.since) <= older(since_dial)
          /\ pacer.since <= since_seen => older(pacer.since) <= older(since_seen)
      BY <2>2, <3>2
    <3>. QED
      BY <1>1, <2>1, <2>3, <2>4, <3>1, <3>3 DEF PaceInv
  <2>8. MemoryInv'
    BY <2>1, <2>4 DEF MemoryInv
  <2>9. UrlInv'
    BY <2>1, <2>4, <2>5 DEF UrlInv
  <2>. QED
    BY <2>6, <2>7, <2>8, <2>9
<1>8. CASE Restart
  <2>1. TypeOK'
    <3>1. /\ pacer' \in [since : 0..MAX_RETRY_DELAY_MS, dials : Nat, dialled : BOOLEAN,
                         connected : BOOLEAN]
          /\ ~ (pacer'.dials > 1)
      BY <1>8, DelayConstants DEF Restart, new_pacer
    <3>2. /\ last_dial'.url \in Servers \cup {Literal, None}
          /\ last_dial'.server_id \in Servers \cup {None}
          /\ {remembered', stored', seen'} \subseteq Servers \cup {None}
      BY <1>8 DEF Restart, no_dial, TypeOK
    <3>3. {remembered_this_connection', switched', healthy'} \subseteq BOOLEAN
      BY <1>8 DEF Restart, TypeOK
    <3>4. {since_dial', since_seen'} \subseteq 0..MAX_RETRY_DELAY_MS /\ unanswered' \in Nat
      BY <1>8, DelayConstants DEF Restart
    <3>5. discovered' \in Candidates
      BY <1>8, NothingDiscovered DEF Restart
    <3>6. opts' \in OptionSets /\ attempt' = None /\ connection' = None
      BY <1>8 DEF Restart, TypeOK
    <3>. QED
      BY <3>1, <3>2, <3>3, <3>4, <3>5, <3>6 DEF TypeOK, Candidates
  <2>2. PaceInv' /\ MemoryInv' /\ UrlInv'
    BY <1>8 DEF Restart, PaceInv, MemoryInv, UrlInv, new_pacer, no_dial
  <2>. QED
    BY <2>1, <2>2
<1>9. CASE UNCHANGED vars
  <2>1. TypeOK'
    BY <1>9 DEF vars, mode, library, history, TypeOK, Candidates
  <2>2. PaceInv' /\ MemoryInv' /\ UrlInv'
    BY <1>9 DEF vars, mode, library, history, PaceInv, MemoryInv, UrlInv, delay_ms
  <2>. QED
    BY <2>1, <2>2
<1>. QED
  BY <1>2, <1>3, <1>4, <1>5, <1>6, <1>7, <1>8, <1>9 DEF Next, tick

\* Every reachable state satisfies the invariant.
LEMMA Safe == Spec => []IInv
<1>1. Init => IInv
  BY InitIInv
<1>2. IInv /\ [Next]_vars => IInv'
  BY NextIInv
<1>. QED
  BY <1>1, <1>2, PTL DEF Spec

-----------------------------------------------------------------------------
(* What follows.                                                            *)

\* The fields keep their types, and the pacer's count stops at the ceiling
\* however long nothing answers.
THEOREM TypeCorrect == Spec => []TypeOK
<1>1. IInv => TypeOK
  BY DEF IInv
<1>. QED
  BY Safe, <1>1, PTL

\* The server remembered is the one last seen connected, unless one connection
\* took over from another between two ticks.
THEOREM LastServerRemembered == Spec => []RemembersTheLast
<1>1. IInv => RemembersTheLast
  BY DEF IInv, MemoryInv, RemembersTheLast
<1>. QED
  BY Safe, <1>1, PTL

\* The URL given to a stream's hooks is never one of another server, and never
\* outlives the connection it was dialled for.
THEOREM UrlTrusted == Spec => []UrlNotContradicted
<1>1. ASSUME IInv, connection # None, url_for(connection.server) # None
      PROVE  IF connection.via = Inbound
             THEN /\ opts.discover => url_for(connection.server) = connection.server
                  /\ unanswered > 0 \/ pacer.connected
             ELSE url_for(connection.server) = connection.via
  <2>1. /\ url_for(connection.server) = last_dial.url /\ last_dial.url # None
        /\ last_dial.server_id \in {None, connection.server}
    BY <1>1 DEF url_for
  <2>. QED
    BY <1>1, <2>1 DEF IInv, UrlInv
<1>2. IInv => UrlNotContradicted
  BY <1>1 DEF UrlNotContradicted
<1>. QED
  BY Safe, <1>2, PTL

\* Dials that nothing answers come no sooner than the ladder says, and none
\* comes sooner than the first delay after a connection was seen.
THEOREM DialsBackOff == Spec => RedialsBackOff
<1>1. ASSUME IInv, TickDials
      PROVE  /\ unanswered > 0 => since_dial >= ladder[unanswered - 1]
             /\ since_seen >= ladder[0]
  <2>1. /\ pacer.since \in Nat /\ since_dial \in Nat /\ since_seen \in Nat
        /\ delay_ms(pacer) \in Nat /\ MIN_RETRY_DELAY_MS <= delay_ms(pacer)
    BY <1>1, PacerType DEF IInv, TypeOK
  <2>2. ~ pacer.connected /\ (pacer.dialled => pacer.since >= delay_ms(pacer))
    BY <1>1 DEF TickDials, should_dial
  <2>3. ASSUME unanswered > 0
        PROVE  since_dial >= ladder[unanswered - 1]
    <3>1. pacer.dialled /\ ladder[unanswered - 1] <= delay_ms(pacer)
      BY <1>1, <2>3 DEF IInv, PaceInv
    <3>2. ladder[unanswered - 1] \in Nat
      <4>1. unanswered - 1 \in Nat
        BY <1>1, <2>3 DEF IInv, TypeOK
      <4>. QED
        BY <4>1, RungDef
    <3>3. pacer.since <= since_dial
      BY <1>1, <3>1 DEF IInv, PaceInv
    <3>. QED
      BY <2>1, <2>2, <3>1, <3>2, <3>3
  <2>4. since_seen >= MIN_RETRY_DELAY_MS
    <3>1. CASE pacer.dialled
      <4>1. pacer.since <= since_seen
        BY <1>1, <2>2, <3>1 DEF IInv, PaceInv
      <4>. QED
        BY <2>1, <2>2, <3>1, <4>1, DelayConstants
    <3>2. CASE ~ pacer.dialled
      BY <1>1, <2>2, <3>2, DelayConstants DEF IInv, PaceInv
    <3>. QED
      BY <3>1, <3>2
  <2>. QED
    BY <2>3, <2>4, RungDef
<1>2. IInv => [TickDials => /\ unanswered > 0 => since_dial >= ladder[unanswered - 1]
                            /\ since_seen >= ladder[0]]_vars
  BY <1>1
<1>. QED
  BY Safe, <1>2, PTL DEF RedialsBackOff

\* All that the dialler knows of connections between two ticks.
THEOREM ConnectionsKnown == Spec => []KnowsItsConnections
  BY TypeCorrect, UrlTrusted, LastServerRemembered, PTL DEF KnowsItsConnections

-----------------------------------------------------------------------------
(* The mDNS service: the inductive invariant.                               *)

\* The counts, and what the clock and the browse say.
ServiceInv ==
    /\ wanted \in [advertise : BOOLEAN, browse : BOOLEAN]
    /\ register_ref \in BOOLEAN /\ browse_ref \in BOOLEAN
    /\ register_ref => wanted.advertise
    /\ browse_ref => wanted.browse
    /\ restart \in [at : -1..MAX_RETRY_DELAY_MS, attempt : Nat]
    /\ reported \in [Instances -> SUBSET UNION {Interfaces[i] : i \in Instances}]
    /\ dropped \subseteq Instances
    /\ IsFiniteSet(known)

\* A candidate has its context and, until it is resolved, no other ref; what is retired
\* is of a candidate that is still there; and the ref being processed is held or retired.
HeldInv ==
    /\ contexts = known
    /\ \A i \in known : "resolve" \in candidates[i].refs => candidates[i].refs = {"resolve"}
    /\ \A k \in DOMAIN retired : \E i \in known : retired[k] = Ref("resolve", i)
    /\ progress.ref # None => progress.ref \in held \/ \E k \in DOMAIN retired : retired[k] = progress.ref

\* Outside of poll_once() nothing is put off, and inside the refs are read in order.
ProgressInv ==
    /\ progress.at # "processing" => /\ retired = <<>> /\ doomed = {}
                                     /\ progress.ref = None /\ progress.refs = {}
    /\ progress.ref # None => \A ref \in progress.refs : place(progress.ref) < place(ref)

\* A candidate knows the interfaces it is reported on, and one that is useless or is
\* nowhere waits to be purged.  None is useless as long as the browse is to be read.
FollowInv ==
    /\ \A i \in known : LET c == candidates[i] IN
          /\ c.interfaces \subseteq reported[i]
          /\ i \notin dropped => c.interfaces = reported[i]
          /\ c.interfaces = {} => i \in doomed
          /\ c.unusable => i \in doomed /\ i \in dropped
    /\ \A i \in Instances \ known : i \notin dropped => reported[i] = {}
    /\ BrowseRef \in progress.refs \cup {progress.ref} => \A i \in known : ~ candidates[i].unusable

\* No two candidates have the same number.
OrderInv ==
    \A i, j \in known :
        candidates[i].resolved_seq = candidates[j].resolved_seq /\ candidates[i].resolved_seq # 0
            => i = j

IMdns ==
    /\ ServiceTypes /\ ServiceInv /\ RefsAccountedFor /\ HeldInv /\ ProgressInv /\ FollowInv /\ OrderInv

-----------------------------------------------------------------------------
(* Refs.                                                                    *)

Kinds == {"resolve"} \cup Families

\* A ref is its kind and its instance.
LEMMA RefFacts ==
    /\ RegisterRef # BrowseRef
    /\ \A kind, other, i, j : Ref(kind, i) = Ref(other, j) => kind = other /\ i = j
    /\ \A kind, i : Ref(kind, i).kind = kind /\ Ref(kind, i).instance = i
    /\ RegisterRef.instance = None /\ BrowseRef.instance = None
    /\ RegisterRef.kind = "register" /\ BrowseRef.kind = "browse"
    /\ "register" \notin Kinds /\ "browse" \notin Kinds
    /\ \A kind \in Kinds, i \in Instances :
          Ref(kind, i) \in Refs /\ Ref(kind, i) # RegisterRef /\ Ref(kind, i) # BrowseRef
    /\ RegisterRef \in Refs /\ BrowseRef \in Refs
    /\ Refs = {RegisterRef, BrowseRef} \cup {Ref(kind, i) : kind \in Kinds, i \in Instances}
    /\ None \notin Refs
<1>1. \A kind, other, i, j : Ref(kind, i) = Ref(other, j) => kind = other /\ i = j
  BY DEF Ref
<1>2. \A kind, i : Ref(kind, i).kind = kind /\ Ref(kind, i).instance = i
  BY DEF Ref
<1>3. "register" \notin Kinds /\ "browse" \notin Kinds
  BY MdnsAssumption DEF Kinds, Families
<1>4. CandidateRefs = {Ref(kind, i) : kind \in Kinds, i \in Instances}
  BY DEF CandidateRefs, Kinds
<1>5. Refs = {RegisterRef, BrowseRef} \cup {Ref(kind, i) : kind \in Kinds, i \in Instances}
  BY <1>4 DEF Refs
<1>6. RegisterRef # BrowseRef
  BY <1>1 DEF RegisterRef, BrowseRef
<1>7. \A kind \in Kinds, i \in Instances :
          Ref(kind, i) \in Refs /\ Ref(kind, i) # RegisterRef /\ Ref(kind, i) # BrowseRef
  BY <1>1, <1>3, <1>5 DEF RegisterRef, BrowseRef
<1>8. None \notin Refs
  BY NoneAssumption
<1> QED BY <1>1, <1>2, <1>3, <1>5, <1>6, <1>7, <1>8 DEF RegisterRef, BrowseRef

\* The candidates' refs are read after the browse.
LEMMA Places ==
    /\ \A ref \in Refs : place(ref) \in Nat
    /\ \A ref \in Refs : place(ref) <= place(BrowseRef) => ref \in {RegisterRef, BrowseRef}
<1>1. SUFFICES ASSUME NEW ref \in Refs
               PROVE  /\ place(ref) \in Nat
                      /\ place(ref) <= place(BrowseRef) => ref \in {RegisterRef, BrowseRef}
  OBVIOUS
<1>2. place(BrowseRef) = 1 /\ place(RegisterRef) = 0
  BY RefFacts DEF place
<1>3. CASE ref \in {RegisterRef, BrowseRef}
  BY <1>2, <1>3
<1>4. CASE ref \notin {RegisterRef, BrowseRef}
  <2>1. ref.instance \in Nat
    BY <1>4, RefFacts, MdnsAssumption
  <2>2. place(ref) = 3 * ref.instance + (IF ref.kind = "resolve" THEN 2 ELSE IF ref.kind = "v4" THEN 3 ELSE 4)
    BY <1>4 DEF place
  <2> QED BY <1>2, <2>1, <2>2
<1> QED BY <1>3, <1>4

\* What is held, ref by ref.
LEMMA Held ==
    \A ref : ref \in held <=> \/ register_ref = TRUE /\ ref = RegisterRef
                              \/ browse_ref = TRUE /\ ref = BrowseRef
                              \/ \E i \in known : \E kind \in candidates[i].refs : ref = Ref(kind, i)
  BY DEF held

count(s, ref) == Cardinality({k \in DOMAIN s : s[k] = ref})

\* The count of a ref among those that are retired.
LEMMA Counts ==
    /\ \A ref : count(<<>>, ref) = 0
    /\ \A ref : \A s \in Seq(Refs) :
          /\ count(s, ref) \in Nat
          /\ count(s, ref) > 0 <=> \E k \in DOMAIN s : s[k] = ref
    /\ \A ref : \A s \in Seq(Refs), more \in Refs :
          count(Append(s, more), ref) = count(s, ref) + (IF ref = more THEN 1 ELSE 0)
<1>1. ASSUME NEW ref PROVE count(<<>>, ref) = 0
  BY FS_EmptySet DEF count
<1>2. ASSUME NEW s \in Seq(Refs), NEW ref
      PROVE  /\ IsFiniteSet({k \in DOMAIN s : s[k] = ref})
             /\ count(s, ref) \in Nat
             /\ count(s, ref) > 0 <=> \E k \in DOMAIN s : s[k] = ref
  <2> DEFINE at == {k \in DOMAIN s : s[k] = ref}
  <2>1. IsFiniteSet(1 .. Len(s)) /\ at \subseteq 1 .. Len(s)
    BY FS_Interval
  <2>2. IsFiniteSet(at)
    BY <2>1, FS_Subset
  <2>3. Cardinality(at) \in Nat /\ (Cardinality(at) = 0 <=> at = {})
    BY <2>2, FS_CardinalityType, FS_EmptySet
  <2> QED BY <2>2, <2>3 DEF count
<1>3. ASSUME NEW s \in Seq(Refs), NEW more \in Refs, NEW ref
      PROVE  count(Append(s, more), ref) = count(s, ref) + (IF ref = more THEN 1 ELSE 0)
  <2> DEFINE at == {k \in DOMAIN s : s[k] = ref}
             then == {k \in DOMAIN Append(s, more) : Append(s, more)[k] = ref}
  <2>1. then = IF ref = more THEN at \cup {Len(s) + 1} ELSE at
    <3>1. /\ DOMAIN s = 1 .. Len(s) /\ Len(s) \in Nat
          /\ DOMAIN Append(s, more) = 1 .. Len(s) + 1
          /\ Append(s, more)[Len(s) + 1] = more
          /\ \A k \in 1 .. Len(s) : Append(s, more)[k] = s[k]
      OBVIOUS
    <3>2. then = {k \in 1 .. Len(s) + 1 : Append(s, more)[k] = ref}
      BY <3>1
    <3>3. at = {k \in 1 .. Len(s) : s[k] = ref}
      BY <3>1
    <3> HIDE DEF at, then
    <3>4. \A k : k \in then <=> k \in at \/ (k = Len(s) + 1 /\ ref = more)
      BY <3>1, <3>2, <3>3
    <3> QED BY <3>4
  <2>2. IsFiniteSet(at) /\ Len(s) + 1 \notin at
    <3>1. IsFiniteSet(at)
      BY <1>2
    <3>2. DOMAIN s = 1 .. Len(s) /\ Len(s) \in Nat
      OBVIOUS
    <3> QED BY <3>1, <3>2
  <2> HIDE DEF at, then
  <2>3. Cardinality(at \cup {Len(s) + 1}) = Cardinality(at) + 1
    BY <2>2, FS_AddElement
  <2>4. Cardinality(at) \in Nat
    BY <2>2, FS_CardinalityType
  <2>5. Cardinality(then) = Cardinality(at) + (IF ref = more THEN 1 ELSE 0)
    BY <2>1, <2>3, <2>4
  <2> QED BY <2>5 DEF count, at, then
<1> QED BY <1>1, <1>2, <1>3

\* The books, read with the count.
LEMMA Books ==
    /\ RefsAccountedFor <=> \A ref \in Refs :
           allocated[ref] = count(retired, ref) + (IF ref \in held THEN 1 ELSE 0)
    /\ RefsAccountedFor' <=> \A ref \in Refs :
           allocated'[ref] = count(retired', ref) + (IF ref \in held' THEN 1 ELSE 0)
  BY DEF RefsAccountedFor, times_retired, count

\* All of it is refs, and the two are held apart from the candidates'.
LEMMA HeldRefs ==
    ASSUME ServiceTypes
    PROVE  /\ held \subseteq Refs
           /\ \A i \in known : candidates[i].refs \subseteq Kinds /\ i \in Instances
<1>1. \A i \in known : candidates[i].refs \subseteq Kinds /\ i \in Instances
  BY DEF ServiceTypes, Candidate, Kinds
<1> QED BY <1>1, Held, RefFacts

\* What is held of the next state, ref by ref.
LEMMA HeldNext ==
    \A ref : ref \in held' <=>
        \/ register_ref' = TRUE /\ ref = RegisterRef
        \/ browse_ref' = TRUE /\ ref = BrowseRef
        \/ \E i \in known' : \E kind \in candidates'[i].refs : ref = Ref(kind, i)
  BY DEF held

\* A step that opens and closes nothing holds what was held.
LEMMA SameHeld ==
    ASSUME known' = known, \A i \in known : candidates'[i].refs = candidates[i].refs,
           UNCHANGED <<register_ref, browse_ref>>
    PROVE  held' = held
  BY Held, HeldNext

\* It leaves the books as they are.
LEMMA SameBooks ==
    ASSUME RefsAccountedFor, held' = held, UNCHANGED <<retired, allocated>>
    PROVE  RefsAccountedFor'
  BY Books

\* What is opened is booked.
LEMMA Opens ==
    ASSUME ServiceTypes, RefsAccountedFor, NEW new \in SUBSET Refs, new \cap held = {},
           held' = held \cup new, retired' = retired, allocated' = given(new)
    PROVE  RefsAccountedFor' /\ allocated' \in [Refs -> Nat]
<1>1. \A ref \in Refs : allocated'[ref] = allocated[ref] + (IF ref \in new THEN 1 ELSE 0)
  BY DEF given
<1>2. \A ref \in Refs : allocated[ref] \in Nat /\ count(retired, ref) \in Nat
  BY Counts DEF ServiceTypes
<1>3. \A ref \in Refs : allocated[ref] = count(retired, ref) + (IF ref \in held THEN 1 ELSE 0)
  BY Books
<1>4. \A ref \in Refs : allocated'[ref] = count(retired', ref) + (IF ref \in held' THEN 1 ELSE 0)
  BY <1>1, <1>2, <1>3
<1>5. allocated' \in [Refs -> Nat]
  BY <1>1, <1>2 DEF given
<1> QED BY <1>4, <1>5, Books

\* What is held goes on being held, and what is retired stays so.
LEMMA HeldKeeps ==
    ASSUME ServiceTypes, HeldInv, held \subseteq held', known \subseteq known', contexts' = known',
           \A i \in known' : "resolve" \in candidates'[i].refs => candidates'[i].refs = {"resolve"},
           retired' = retired, progress'.ref \in {progress.ref, None}
    PROVE  HeldInv'
  BY DEF HeldInv

-----------------------------------------------------------------------------
(* Starting.                                                                *)

\* The next delay and the next count are in their ranges.
LEMMA Scheduled ==
    ASSUME NEW r, r.attempt \in Nat
    PROVE  /\ schedule_restart(r) \in [at : -1..MAX_RETRY_DELAY_MS, attempt : Nat]
           /\ schedule_restart(r).at > 0
<1>1. next_retry_delay_ms[r.attempt] \in 1..MAX_RETRY_DELAY_MS
  BY NextDelayBounds, NextDelayDef, DelayConstants
<1> QED BY <1>1 DEF schedule_restart

\* Advertising holds its ref, if it starts.
LEMMA AdvertiseKeeps ==
    ASSUME IMdns, advertise
    PROVE  IMdns'
<1> USE DEF IMdns
<1>1. /\ progress.at = "main" /\ ~ wanted.advertise
      /\ wanted' = [wanted EXCEPT !.advertise = TRUE]
      /\ register_ref' \in BOOLEAN
      /\ allocated' = given(IF register_ref' THEN {RegisterRef} ELSE {})
      /\ UNCHANGED <<browse_ref, restart, dead, rest>>
  BY DEF advertise
<1>2. register_ref = FALSE /\ known' = known
  BY <1>1 DEF ServiceInv, rest, known
<1>3. held' = held \cup (IF register_ref' THEN {RegisterRef} ELSE {})
  BY <1>1, <1>2, Held, HeldNext DEF rest
<1>4. RegisterRef \notin held
  BY <1>2, Held, RefFacts DEF ServiceTypes, Candidate, Kinds
<1>5. RefsAccountedFor' /\ allocated' \in [Refs -> Nat]
  <2>1. (IF register_ref' THEN {RegisterRef} ELSE {}) \in SUBSET Refs
    BY RefFacts
  <2> QED BY <1>1, <1>3, <1>4, <2>1, Opens DEF rest
<1>6. ServiceTypes'
  BY <1>1, <1>2, <1>5 DEF ServiceTypes, rest
<1>7. ServiceInv'
  BY <1>1, <1>2 DEF ServiceInv, rest
<1>8. HeldInv'
  BY <1>1, <1>2, <1>3, HeldKeeps DEF rest, HeldInv
<1>9. ProgressInv' /\ FollowInv' /\ OrderInv'
  BY <1>1, <1>2 DEF ProgressInv, FollowInv, OrderInv, rest
<1> QED BY <1>5, <1>6, <1>7, <1>8, <1>9

\* Browsing likewise.
LEMMA BrowseKeeps ==
    ASSUME IMdns, browse
    PROVE  IMdns'
<1> USE DEF IMdns
<1>1. /\ progress.at = "main" /\ ~ wanted.browse
      /\ wanted' = [wanted EXCEPT !.browse = TRUE]
      /\ browse_ref' \in BOOLEAN
      /\ allocated' = given(IF browse_ref' THEN {BrowseRef} ELSE {})
      /\ restart' \in {restart, [restart EXCEPT !.attempt = 0]}
      /\ UNCHANGED <<register_ref, dead, rest>>
  BY DEF browse
<1>2. browse_ref = FALSE /\ known' = known
  BY <1>1 DEF ServiceInv, rest, known
<1>3. held' = held \cup (IF browse_ref' THEN {BrowseRef} ELSE {})
  BY <1>1, <1>2, Held, HeldNext DEF rest
<1>4. BrowseRef \notin held
  BY <1>2, Held, RefFacts DEF ServiceTypes, Candidate, Kinds
<1>5. RefsAccountedFor' /\ allocated' \in [Refs -> Nat]
  <2>1. (IF browse_ref' THEN {BrowseRef} ELSE {}) \in SUBSET Refs
    BY RefFacts
  <2> QED BY <1>1, <1>3, <1>4, <2>1, Opens DEF rest
<1>6. restart' \in [at : -1..MAX_RETRY_DELAY_MS, attempt : Nat]
  BY <1>1 DEF ServiceInv
<1>7. ServiceTypes'
  BY <1>1, <1>2, <1>5, <1>6 DEF ServiceTypes, rest
<1>8. ServiceInv'
  BY <1>1, <1>2, <1>6 DEF ServiceInv, rest
<1>9. HeldInv'
  BY <1>1, <1>2, <1>3, HeldKeeps DEF rest, HeldInv
<1>10. ProgressInv' /\ FollowInv' /\ OrderInv'
  BY <1>1, <1>2 DEF ProgressInv, FollowInv, OrderInv, rest
<1> QED BY <1>5, <1>7, <1>8, <1>9, <1>10

\* A poll begins with the refs it holds, of which some may be new.
LEMMA PollStartsKeeps ==
    ASSUME IMdns, PollStarts
    PROVE  IMdns'
<1> USE DEF IMdns
<1>1. /\ progress.at = "main"
      /\ UNCHANGED <<wanted, candidates, contexts, retired, doomed, daemon, dead, reported, dropped>>
      /\ progress' = [at |-> "processing", refs |-> held', ref |-> None]
      /\ known' = known
  BY DEF PollStarts, known
<1>2. owed \in [at : -1..MAX_RETRY_DELAY_MS, attempt : Nat]
  BY Scheduled DEF owed, ServiceInv
<1>3. PICK new \in SUBSET {RegisterRef, BrowseRef} :
         /\ new \cap held = {} /\ held' = held \cup new /\ allocated' = given(new)
         /\ register_ref' \in BOOLEAN /\ browse_ref' \in BOOLEAN
         /\ register_ref' => wanted.advertise
         /\ browse_ref' => wanted.browse
         /\ restart' \in [at : -1..MAX_RETRY_DELAY_MS, attempt : Nat]
  <2>1. CASE owed.at # 0
    <3>1. restart' = owed /\ UNCHANGED <<register_ref, browse_ref, allocated>>
      BY <2>1 DEF PollStarts
    <3>2. held' = held
      BY <1>1, <3>1, SameHeld
    <3>3. allocated' = given({})
      BY <3>1 DEF given, ServiceTypes
    <3> QED BY <1>2, <3>1, <3>2, <3>3 DEF ServiceInv
  <2>2. CASE owed.at = 0
    <3>1. PICK registers \in BOOLEAN, browses \in BOOLEAN :
             /\ restarts(wanted.advertise /\ registers, wanted.browse /\ browses)
             /\ restart' = [at |-> -1,
                            attempt |-> IF browse_ref' /\ ~ browse_ref THEN 0 ELSE owed.attempt]
      BY <2>2 DEF PollStarts
    <3> DEFINE first == IF (wanted.advertise /\ registers) /\ ~ register_ref THEN {RegisterRef} ELSE {}
               second == IF (wanted.browse /\ browses) /\ ~ browse_ref THEN {BrowseRef} ELSE {}
    <3>2. /\ register_ref' = (register_ref \/ RegisterRef \in first \cup second)
          /\ browse_ref' = (browse_ref \/ BrowseRef \in first \cup second)
          /\ allocated' = given(first \cup second)
      BY <3>1 DEF restarts
    <3>3. /\ register_ref' \in BOOLEAN /\ browse_ref' \in BOOLEAN
          /\ register_ref' => wanted.advertise
          /\ browse_ref' => wanted.browse
      BY <3>2, RefFacts DEF ServiceInv
    <3>4. (first \cup second) \cap held = {}
      BY Held, RefFacts DEF ServiceTypes, Candidate, Kinds
    <3>5. held' = held \cup (first \cup second)
      BY <1>1, <3>2, <3>3, Held, HeldNext, RefFacts DEF ServiceInv
    <3>6. restart' \in [at : -1..MAX_RETRY_DELAY_MS, attempt : Nat]
      BY <1>2, <3>1, DelayAssumption
    <3>7. first \cup second \in SUBSET {RegisterRef, BrowseRef}
      OBVIOUS
    <3> QED BY <3>2, <3>3, <3>4, <3>5, <3>6, <3>7
  <2>3. owed.at \in Int
    BY <1>2
  <2> QED BY <2>1, <2>2
<1>4. RefsAccountedFor' /\ allocated' \in [Refs -> Nat]
  <2>1. new \in SUBSET Refs
    BY RefFacts
  <2> QED BY <1>1, <1>3, <2>1, Opens
<1>5. held' \subseteq Refs
  BY <1>1, HeldNext, RefFacts DEF ServiceTypes, Candidate, Kinds
<1>6. ServiceTypes'
  BY <1>1, <1>3, <1>4, <1>5 DEF ServiceTypes
<1>7. ServiceInv'
  BY <1>1, <1>3 DEF ServiceInv
<1>8. HeldInv'
  BY <1>1, <1>3, HeldKeeps DEF HeldInv
<1>9. ProgressInv'
  BY <1>1 DEF ProgressInv
<1>10. FollowInv'
  BY <1>1 DEF FollowInv, ProgressInv
<1>11. OrderInv'
  BY <1>1 DEF OrderInv
<1> QED BY <1>4, <1>6, <1>7, <1>8, <1>9, <1>10, <1>11

-----------------------------------------------------------------------------
(* One ref of the snapshot.                                                 *)

\* What changes nothing but where the poll is and who has died.
Elsewhere == <<wanted, register_ref, browse_ref, candidates, contexts, retired, doomed, restart,
               allocated, reported, dropped>>

LEMMA ElsewhereKeeps ==
    ASSUME IMdns, UNCHANGED Elsewhere
    PROVE  /\ held' = held /\ known' = known
           /\ ServiceInv' /\ RefsAccountedFor' /\ OrderInv'
           /\ dead' \subseteq Refs /\ progress' \in [at : {"main", "processing", "stopped"},
                                                     refs : SUBSET Refs, ref : Refs \cup {None}]
                 => ServiceTypes'
<1> USE DEF IMdns, Elsewhere
<1>1. known' = known
  BY DEF known
<1>2. held' = held
  BY <1>1, SameHeld
<1>3. ServiceInv' /\ OrderInv'
  BY <1>1 DEF ServiceInv, OrderInv
<1>4. RefsAccountedFor'
  BY <1>2, SameBooks
<1> QED BY <1>1, <1>2, <1>3, <1>4 DEF ServiceTypes

\* The ref that is processed is one that is held, and those before it are done with.
LEMMA ProcessKeeps ==
    ASSUME IMdns, NEW ref \in progress.refs, DNSServiceProcessResult(ref)
    PROVE  IMdns'
<1> USE DEF IMdns
<1>1. /\ progress.at = "processing" /\ progress.ref = None /\ ref \in held
      /\ progress' = [progress EXCEPT !.ref = ref,
                                      !.refs = {r \in @ : place(ref) < place(r)}]
      /\ UNCHANGED <<Elsewhere, dead>>
  BY DEF DNSServiceProcessResult, reads, is_live, Elsewhere
<1>2. /\ progress'.at = "processing" /\ progress'.ref = ref /\ ref \in Refs
      /\ progress'.refs = {r \in progress.refs : place(ref) < place(r)}
      /\ progress' \in [at : {"main", "processing", "stopped"}, refs : SUBSET Refs,
                        ref : Refs \cup {None}]
  BY <1>1 DEF ServiceTypes
<1>3. /\ held' = held /\ known' = known /\ ServiceInv' /\ RefsAccountedFor' /\ OrderInv'
      /\ ServiceTypes'
  BY <1>1, <1>2, ElsewhereKeeps DEF ServiceTypes
<1>4. HeldInv'
  BY <1>1, <1>2, <1>3 DEF HeldInv, Elsewhere
<1>5. ProgressInv'
  BY <1>2 DEF ProgressInv
<1>6. FollowInv'
  BY <1>1, <1>2, <1>3 DEF FollowInv, Elsewhere
<1> QED BY <1>3, <1>4, <1>5, <1>6

\* It returns, and is done with.
LEMMA ReturnKeeps ==
    ASSUME IMdns, ProcessReturns
    PROVE  IMdns'
<1> USE DEF IMdns
<1>1. /\ progress.at = "processing"
      /\ progress' = [progress EXCEPT !.ref = None]
      /\ UNCHANGED <<Elsewhere, dead>>
  BY DEF ProcessReturns, Elsewhere
<1>2. /\ progress'.at = "processing" /\ progress'.ref = None /\ progress'.refs = progress.refs
      /\ progress' \in [at : {"main", "processing", "stopped"}, refs : SUBSET Refs,
                        ref : Refs \cup {None}]
  BY <1>1 DEF ServiceTypes
<1>3. /\ held' = held /\ known' = known /\ ServiceInv' /\ RefsAccountedFor' /\ OrderInv'
      /\ ServiceTypes'
  BY <1>1, <1>2, ElsewhereKeeps DEF ServiceTypes
<1>4. HeldInv'
  BY <1>1, <1>2, <1>3 DEF HeldInv, Elsewhere
<1>5. ProgressInv'
  BY <1>2 DEF ProgressInv
<1>6. FollowInv'
  <2>1. BrowseRef \in Refs /\ None \notin Refs
    BY RefFacts
  <2> QED BY <1>1, <1>2, <1>3, <2>1 DEF FollowInv, Elsewhere
<1> QED BY <1>3, <1>4, <1>5, <1>6

\* The daemon goes or comes between two polls.
LEMMA DaemonKeeps ==
    ASSUME IMdns, DaemonChanges
    PROVE  IMdns'
<1> USE DEF IMdns
<1>1. UNCHANGED <<Elsewhere, progress>> /\ dead' \in {dead, held}
  BY DEF DaemonChanges, Elsewhere
<1>2. held \subseteq Refs
  BY HeldRefs
<1>3. /\ held' = held /\ known' = known /\ ServiceInv' /\ RefsAccountedFor' /\ OrderInv'
      /\ ServiceTypes'
  BY <1>1, <1>2, ElsewhereKeeps DEF ServiceTypes
<1>4. HeldInv' /\ ProgressInv'
  BY <1>1, <1>3 DEF HeldInv, ProgressInv, Elsewhere
<1>5. FollowInv'
  BY <1>1, <1>3 DEF FollowInv, Elsewhere
<1> QED BY <1>3, <1>4, <1>5

\* Tearing down gives back every ref there is.
LEMMA TearDown ==
    ASSUME IMdns, torn_down
    PROVE  /\ known' = {} /\ held' = {} /\ contexts' = {} /\ retired' = <<>> /\ doomed' = {}
           /\ RefsAccountedFor' /\ allocated' \in [Refs -> Nat] /\ IsFiniteSet(known')
           /\ register_ref' = FALSE /\ browse_ref' = FALSE /\ dead' = {} /\ dropped' = {}
           /\ reported' = [i \in Instances |-> {}] /\ candidates' \in [known' -> Candidate]
<1> USE DEF IMdns
<1>1. known' = {} /\ candidates' \in [known' -> Candidate]
  BY DEF torn_down, nothing, known
<1>2. held' = {}
  BY <1>1, HeldNext DEF torn_down
<1>3. \A ref \in Refs : allocated[ref] = count(retired, ref) + (IF ref \in held THEN 1 ELSE 0)
  BY Books
<1>4. \A ref \in Refs : allocated[ref] \in Nat /\ count(retired, ref) \in Nat
  BY Counts DEF ServiceTypes
<1>5. \A ref \in Refs : allocated'[ref] = allocated[ref] - count(retired, ref)
                                          - (IF ref \in held THEN 1 ELSE 0)
  BY DEF torn_down, times_retired, count
<1>6. \A ref \in Refs : allocated'[ref] = 0
  BY <1>3, <1>4, <1>5
<1>7. allocated' \in [Refs -> Nat]
  BY <1>6 DEF torn_down
<1>8. RefsAccountedFor'
  BY <1>2, <1>6, Books, Counts DEF torn_down
<1>9. IsFiniteSet(known')
  BY <1>1, FS_EmptySet
<1> QED BY <1>1, <1>2, <1>7, <1>8, <1>9 DEF torn_down

\* With everything gone what is left is to know where the poll is.
LEMMA TearDownKeeps ==
    ASSUME IMdns, torn_down, wanted' \in [advertise : BOOLEAN, browse : BOOLEAN],
           restart' \in [at : -1..MAX_RETRY_DELAY_MS, attempt : Nat],
           progress' \in [at : {"main", "processing", "stopped"}, refs : SUBSET Refs,
                          ref : Refs \cup {None}],
           progress'.refs = {}, progress'.ref = None
    PROVE  IMdns'
<1>1. ServiceTypes'
  BY TearDown DEF ServiceTypes
<1>2. ServiceInv'
  BY TearDown DEF ServiceInv
<1>3. HeldInv'
  <2>1. DOMAIN retired' = {}
    BY TearDown
  <2> QED BY <2>1, TearDown DEF HeldInv
<1>5. ProgressInv' /\ OrderInv'
  BY TearDown DEF ProgressInv, OrderInv
<1>4. FollowInv'
  BY TearDown DEF FollowInv
<1> QED BY <1>1, <1>2, <1>3, <1>4, <1>5, TearDown DEF IMdns

\* A ref of a daemon that is gone takes all the others with it.
LEMMA FailKeeps ==
    ASSUME IMdns, NEW ref \in progress.refs, ProcessFails(ref)
    PROVE  IMdns'
<1>1. /\ torn_down /\ wanted' = wanted /\ restart' = schedule_restart(restart)
      /\ progress.ref = None /\ progress' = [progress EXCEPT !.refs = {}]
  BY DEF ProcessFails, reads
<1>2. restart' \in [at : -1..MAX_RETRY_DELAY_MS, attempt : Nat]
  BY <1>1, Scheduled DEF IMdns, ServiceInv
<1>3. /\ progress' \in [at : {"main", "processing", "stopped"}, refs : SUBSET Refs,
                        ref : Refs \cup {None}]
      /\ progress'.refs = {} /\ progress'.ref = None
  BY <1>1 DEF IMdns, ServiceTypes
<1> QED BY <1>1, <1>2, <1>3, TearDownKeeps DEF IMdns, ServiceInv

\* So does the end of the program.
LEMMA StopKeeps ==
    ASSUME IMdns, stop
    PROVE  IMdns'
<1>1. /\ torn_down /\ wanted' = [advertise |-> FALSE, browse |-> FALSE]
      /\ restart' = [restart EXCEPT !.at = -1]
      /\ progress.at = "main" /\ progress' = [progress EXCEPT !.at = "stopped"]
  BY DEF stop
<1>2. restart' \in [at : -1..MAX_RETRY_DELAY_MS, attempt : Nat]
  BY <1>1, DelayAssumption DEF IMdns, ServiceInv
<1>3. /\ progress' \in [at : {"main", "processing", "stopped"}, refs : SUBSET Refs,
                        ref : Refs \cup {None}]
      /\ progress'.refs = {} /\ progress'.ref = None
  BY <1>1 DEF IMdns, ServiceTypes, ProgressInv
<1> QED BY <1>1, <1>2, <1>3, TearDownKeeps

-----------------------------------------------------------------------------
(* The callbacks.                                                           *)

\* Whose callback it is, and that the browse is done with once a candidate's runs.
LEMMA Whose ==
    ASSUME ServiceTypes, ProgressInv, progress.ref # None
    PROVE  /\ progress.at = "processing"
           /\ inside("browse") => progress.ref = BrowseRef
           /\ progress.ref.kind \in Kinds =>
                 /\ progress.ref = Ref(progress.ref.kind, progress.ref.instance)
                 /\ progress.ref.instance \in Instances
                 /\ BrowseRef \notin progress.refs \cup {progress.ref}
<1>1. progress.at = "processing" /\ progress.ref \in Refs /\ progress.refs \subseteq Refs
  BY DEF ServiceTypes, ProgressInv
<1>2. inside("browse") => progress.ref = BrowseRef
  BY <1>1, RefFacts DEF inside
<1>3. ASSUME progress.ref.kind \in Kinds
      PROVE  /\ progress.ref = Ref(progress.ref.kind, progress.ref.instance)
             /\ progress.ref.instance \in Instances
             /\ BrowseRef \notin progress.refs \cup {progress.ref}
  <2>1. PICK kind \in Kinds, i \in Instances : progress.ref = Ref(kind, i)
    BY <1>1, <1>3, RefFacts
  <2>2. progress.ref \notin {RegisterRef, BrowseRef}
    BY <2>1, RefFacts
  <2>3. place(progress.ref) \in Nat /\ place(BrowseRef) \in Nat /\ ~ (place(progress.ref) <= place(BrowseRef))
    BY <1>1, <2>2, Places, RefFacts
  <2>4. BrowseRef \notin progress.refs
    BY <2>3 DEF ProgressInv
  <2> QED BY <2>1, <2>2, <2>4, RefFacts
<1> QED BY <1>1, <1>2, <1>3

\* A callback that puts one candidate in another state, its refs and its number apart.
LEMMA Touches ==
    ASSUME IMdns, NEW i \in known, NEW c \in Candidate, c.refs = candidates[i].refs,
           c.resolved_seq = candidates[i].resolved_seq, progress.at = "processing",
           candidates' = [candidates EXCEPT ![i] = c],
           doomed' \in SUBSET Instances, dropped' \in SUBSET Instances,
           reported' \in [Instances -> SUBSET UNION {Interfaces[j] : j \in Instances}],
           UNCHANGED <<others, contexts, retired, restart, allocated>>
    PROVE  /\ known' = known /\ \A j \in known : candidates'[j] = IF j = i THEN c ELSE candidates[j]
           /\ ServiceTypes' /\ ServiceInv' /\ RefsAccountedFor' /\ HeldInv' /\ ProgressInv' /\ OrderInv'
<1> USE DEF IMdns
<1>1. /\ known' = known /\ candidates' \in [known -> Candidate]
      /\ \A j \in known : candidates'[j] = IF j = i THEN c ELSE candidates[j]
  BY DEF ServiceTypes, known
<1>2. \A j \in known : /\ candidates'[j].refs = candidates[j].refs
                       /\ candidates'[j].resolved_seq = candidates[j].resolved_seq
  BY <1>1
<1>3. held' = held
  BY <1>1, <1>2, SameHeld DEF others
<1>4. ServiceTypes'
  BY <1>1 DEF ServiceTypes, others
<1>5. ServiceInv'
  BY <1>1 DEF ServiceInv, others
<1>6. RefsAccountedFor'
  BY <1>3, SameBooks
<1>7. HeldInv'
  BY <1>1, <1>2, <1>3, HeldKeeps DEF HeldInv, others
<1>8. ProgressInv'
  BY DEF ProgressInv, others
<1>9. OrderInv'
  BY <1>1, <1>2 DEF OrderInv
<1> QED BY <1>1, <1>4, <1>5, <1>6, <1>7, <1>8, <1>9

\* One that changes no candidate.
LEMMA Passes ==
    ASSUME IMdns, progress.at = "processing",
           doomed' \in SUBSET Instances, dropped' \in SUBSET Instances,
           reported' \in [Instances -> SUBSET UNION {Interfaces[j] : j \in Instances}],
           restart' \in [at : -1..MAX_RETRY_DELAY_MS, attempt : Nat],
           UNCHANGED <<others, candidates, contexts, retired, allocated>>
    PROVE  /\ known' = known
           /\ ServiceTypes' /\ ServiceInv' /\ RefsAccountedFor' /\ HeldInv' /\ ProgressInv' /\ OrderInv'
<1> USE DEF IMdns
<1>1. known' = known
  BY DEF known
<1>2. held' = held
  BY <1>1, SameHeld DEF others
<1>3. ServiceTypes'
  BY <1>1 DEF ServiceTypes, others
<1>4. ServiceInv'
  BY <1>1 DEF ServiceInv, others
<1>5. RefsAccountedFor'
  BY <1>2, SameBooks
<1>6. HeldInv' /\ ProgressInv' /\ OrderInv'
  BY <1>1, <1>2 DEF HeldInv, ProgressInv, OrderInv, others
<1> QED BY <1>1, <1>3, <1>4, <1>5, <1>6

\* The answer to a registration.
LEMMA RegisterCallbackKeeps ==
    ASSUME IMdns, register_callback
    PROVE  IMdns'
<1> USE DEF IMdns
<1>1. /\ progress.at = "processing" /\ restart' = [restart EXCEPT !.attempt = 0]
      /\ UNCHANGED <<others, candidates, contexts, retired, doomed, allocated, reported, dropped>>
  BY Whose DEF register_callback, inside
<1>2. /\ restart' \in [at : -1..MAX_RETRY_DELAY_MS, attempt : Nat]
      /\ doomed' \in SUBSET Instances /\ dropped' \in SUBSET Instances
      /\ reported' \in [Instances -> SUBSET UNION {Interfaces[j] : j \in Instances}]
  BY <1>1 DEF ServiceInv, ServiceTypes
<1>3. known' = known /\ ServiceTypes' /\ ServiceInv' /\ RefsAccountedFor' /\ HeldInv' /\ ProgressInv' /\ OrderInv'
  BY <1>1, <1>2, Passes
<1>4. FollowInv'
  BY <1>1, <1>3 DEF FollowInv, others
<1> QED BY <1>3, <1>4

\* An instance leaves an interface.
LEMMA LostKeeps ==
    ASSUME IMdns, NEW i \in Instances, NEW interface \in Interfaces[i], browse_lost(i, interface)
    PROVE  IMdns'
<1> USE DEF IMdns
<1>1. /\ progress.at = "processing" /\ progress.ref = BrowseRef
      /\ reported' = [reported EXCEPT ![i] = @ \ {interface}]
      /\ dropped' = IF reported'[i] = {} THEN dropped \ {i} ELSE dropped
      /\ UNCHANGED <<others, contexts, retired, restart, allocated>>
  BY Whose DEF browse_lost, inside
<1>2. /\ reported' \in [Instances -> SUBSET UNION {Interfaces[j] : j \in Instances}]
      /\ \A j \in Instances : reported'[j] = IF j = i THEN reported[i] \ {interface} ELSE reported[j]
      /\ dropped' \in SUBSET Instances /\ dropped' \subseteq dropped
      /\ \A j \in dropped \ dropped' : j = i /\ reported'[i] = {}
  BY <1>1 DEF ServiceInv
<1>3. \A j \in known : ~ candidates[j].unusable
  BY <1>1 DEF FollowInv
<1>4. CASE i \notin known
  <2>1. UNCHANGED <<candidates, doomed>> /\ doomed' \in SUBSET Instances
    BY <1>4 DEF browse_lost, ServiceTypes
  <2>2. known' = known /\ ServiceTypes' /\ ServiceInv' /\ RefsAccountedFor' /\ HeldInv' /\ ProgressInv' /\ OrderInv'
    BY <1>1, <1>2, <2>1, Passes DEF ServiceInv
  <2>3. FollowInv'
    BY <1>1, <1>2, <1>3, <1>4, <2>1, <2>2 DEF FollowInv, others
  <2> QED BY <2>2, <2>3
<1>5. CASE i \in known
  <2> DEFINE c == [candidates[i] EXCEPT !.interfaces = @ \ {interface}]
  <2>1. candidates' = [candidates EXCEPT ![i] = c]
    BY <1>5 DEF browse_lost
  <2>2. /\ c \in Candidate /\ c.refs = candidates[i].refs
        /\ c.resolved_seq = candidates[i].resolved_seq
        /\ c.interfaces = candidates[i].interfaces \ {interface}
        /\ c.unusable = candidates[i].unusable
    BY <1>5 DEF ServiceTypes, Candidate
  <2> HIDE DEF c
  <2>3. candidates'[i] = c
    BY <1>5, <2>1 DEF ServiceTypes, known
  <2>4. /\ doomed' = (IF c.interfaces = {} THEN doomed \cup {i} ELSE doomed)
        /\ doomed' \in SUBSET Instances
    BY <1>5, <2>3 DEF browse_lost, ServiceTypes
  <2>5. /\ known' = known /\ \A j \in known : candidates'[j] = IF j = i THEN c ELSE candidates[j]
        /\ ServiceTypes' /\ ServiceInv' /\ RefsAccountedFor' /\ HeldInv' /\ ProgressInv' /\ OrderInv'
    BY <1>1, <1>2, <1>5, <2>1, <2>2, <2>4, Touches
  <2>6. FollowInv'
    <3>1. ASSUME NEW j \in known
          PROVE  /\ candidates'[j].interfaces \subseteq reported'[j]
                 /\ j \notin dropped' => candidates'[j].interfaces = reported'[j]
                 /\ candidates'[j].interfaces = {} => j \in doomed'
                 /\ ~ candidates'[j].unusable
      <4>1. CASE j = i
        BY <1>2, <1>3, <1>5, <2>2, <2>4, <2>5, <4>1 DEF FollowInv
      <4>2. CASE j # i
        <5>1. /\ candidates'[j] = candidates[j] /\ reported'[j] = reported[j] /\ j \in Instances
              /\ j \in doomed => j \in doomed'
              /\ j \notin dropped' => j \notin dropped
          BY <1>2, <2>4, <2>5, <4>2 DEF ServiceTypes
        <5> QED BY <1>3, <5>1 DEF FollowInv
      <4> QED BY <4>1, <4>2
    <3>2. \A j \in Instances \ known : j \notin dropped' => reported'[j] = {}
      BY <1>2, <1>5 DEF FollowInv
    <3> QED BY <2>5, <3>1, <3>2 DEF FollowInv
  <2> QED BY <2>5, <2>6
<1> QED BY <1>4, <1>5

\* An instance comes up on an interface: known, new, or not to be resolved.
LEMMA FoundKeeps ==
    ASSUME IMdns, NEW i \in Instances, NEW interface \in Interfaces[i], browse_found(i, interface)
    PROVE  IMdns'
<1> USE DEF IMdns
<1>1. /\ progress.at = "processing" /\ progress.ref = BrowseRef
      /\ reported' = [reported EXCEPT ![i] = @ \cup {interface}]
      /\ UNCHANGED <<others, retired, doomed, restart>>
      /\ doomed' \in SUBSET Instances
  BY Whose DEF browse_found, inside, ServiceTypes
<1>2. /\ reported' \in [Instances -> SUBSET UNION {Interfaces[j] : j \in Instances}]
      /\ \A j \in Instances : reported'[j] = IF j = i THEN reported[i] \cup {interface} ELSE reported[j]
  BY <1>1 DEF ServiceInv
<1>3. \A j \in known : ~ candidates[j].unusable
  BY <1>1 DEF FollowInv
<1>4. known \subseteq Instances /\ contexts = known /\ dropped \in SUBSET Instances
  BY DEF ServiceTypes, HeldInv, ServiceInv
<1>5. CASE /\ i \in known
           /\ candidates' = [candidates EXCEPT ![i].interfaces = @ \cup {interface}]
           /\ UNCHANGED <<contexts, allocated, dropped>>
  <2> DEFINE c == [candidates[i] EXCEPT !.interfaces = @ \cup {interface}]
  <2>1. candidates' = [candidates EXCEPT ![i] = c]
    BY <1>5
  <2>2. /\ c \in Candidate /\ c.refs = candidates[i].refs
        /\ c.resolved_seq = candidates[i].resolved_seq
        /\ c.interfaces = candidates[i].interfaces \cup {interface}
        /\ c.unusable = candidates[i].unusable
    <3>1. candidates[i] \in Candidate
      BY <1>5 DEF ServiceTypes
    <3>2. interface \in UNION {Interfaces[j] : j \in Instances}
      OBVIOUS
    <3> DEFINE nets == UNION {Interfaces[j] : j \in Instances}
    <3>3. candidates[i].interfaces \cup {interface} \in SUBSET nets
      BY <3>1, <3>2 DEF Candidate
    <3> HIDE DEF nets
    <3>4. c \in Candidate
      BY <3>1, <3>3 DEF Candidate, nets
    <3> QED BY <3>1, <3>4 DEF Candidate
  <2> HIDE DEF c
  <2>3. /\ known' = known /\ \A j \in known : candidates'[j] = IF j = i THEN c ELSE candidates[j]
        /\ ServiceTypes' /\ ServiceInv' /\ RefsAccountedFor' /\ HeldInv' /\ ProgressInv' /\ OrderInv'
    BY <1>1, <1>2, <1>4, <1>5, <2>1, <2>2, Touches
  <2>4. FollowInv'
    <3>1. ASSUME NEW j \in known
          PROVE  /\ candidates'[j].interfaces \subseteq reported'[j]
                 /\ j \notin dropped' => candidates'[j].interfaces = reported'[j]
                 /\ candidates'[j].interfaces = {} => j \in doomed'
                 /\ ~ candidates'[j].unusable
      <4>1. CASE j = i
        BY <1>1, <1>2, <1>3, <1>4, <1>5, <2>2, <2>3, <4>1 DEF FollowInv
      <4>2. CASE j # i
        <5>1. candidates'[j] = candidates[j] /\ reported'[j] = reported[j]
          BY <1>2, <1>4, <2>3, <4>2
        <5> QED BY <1>1, <1>3, <1>5, <5>1 DEF FollowInv
      <4> QED BY <4>1, <4>2
    <3>2. \A j \in Instances \ known : j \notin dropped' => reported'[j] = {}
      BY <1>2, <1>5 DEF FollowInv
    <3> QED BY <2>3, <3>1, <3>2 DEF FollowInv
  <2> QED BY <2>3, <2>4
<1>6. CASE /\ i \notin known
           /\ dropped' = dropped \cup {i}
           /\ contexts' = contexts \ {i}
           /\ UNCHANGED <<candidates, allocated>>
  <2>1. contexts' = contexts /\ dropped' \in SUBSET Instances
    BY <1>4, <1>6
  <2>2. restart' \in [at : -1..MAX_RETRY_DELAY_MS, attempt : Nat]
    BY <1>1 DEF ServiceInv
  <2>3. known' = known /\ ServiceTypes' /\ ServiceInv' /\ RefsAccountedFor' /\ HeldInv' /\ ProgressInv' /\ OrderInv'
    BY <1>1, <1>2, <1>6, <2>1, <2>2, Passes
  <2>4. FollowInv'
    <3>1. ASSUME NEW j \in known
          PROVE  /\ candidates'[j].interfaces \subseteq reported'[j]
                 /\ j \notin dropped' => candidates'[j].interfaces = reported'[j]
                 /\ candidates'[j].interfaces = {} => j \in doomed'
                 /\ ~ candidates'[j].unusable
      <4>1. reported'[j] = reported[j] /\ candidates'[j] = candidates[j]
        BY <1>2, <1>4, <1>6
      <4> QED BY <1>1, <1>3, <1>6, <4>1 DEF FollowInv
    <3>2. \A j \in Instances \ known : j \notin dropped' => reported'[j] = {}
      BY <1>2, <1>6 DEF FollowInv
    <3> QED BY <2>3, <3>1, <3>2 DEF FollowInv
  <2> QED BY <2>3, <2>4
<1>7. CASE /\ i \notin known
           /\ candidates' = [k \in known \cup {i} |->
                                IF k = i THEN new_candidate(interface) ELSE candidates[k]]
           /\ contexts' = contexts \cup {i}
           /\ allocated' = given({Ref("resolve", i)})
           /\ UNCHANGED dropped
  <2> DEFINE c == new_candidate(interface)
  <2>1. /\ c \in Candidate /\ c.refs = {"resolve"} /\ c.resolved_seq = 0
        /\ c.interfaces = {interface} /\ c.unusable = FALSE
    BY MdnsAssumption DEF new_candidate, Candidate
  <2> HIDE DEF c
  <2>2. /\ known' = known \cup {i} /\ candidates'[i] = c
        /\ \A j \in known : candidates'[j] = candidates[j]
        /\ candidates' \in [known' -> Candidate]
    BY <1>7, <2>1 DEF ServiceTypes, known, c
  <2>3. held' = held \cup {Ref("resolve", i)}
    <3>1. \A ref : ref \in held' <=> ref \in held \/ ref = Ref("resolve", i)
      BY <1>1, <1>7, <2>1, <2>2, Held, HeldNext DEF others
    <3> QED BY <3>1
  <2>4. Ref("resolve", i) \in Refs /\ Ref("resolve", i) \notin held
    <3>1. "resolve" \in Kinds
      BY DEF Kinds
    <3> QED BY <1>7, <3>1, Held, RefFacts
  <2>5. RefsAccountedFor' /\ allocated' \in [Refs -> Nat]
    BY <1>1, <1>7, <2>3, <2>4, Opens
  <2>6. ServiceTypes'
    BY <1>1, <1>4, <1>7, <2>2, <2>5 DEF ServiceTypes, others
  <2>7. IsFiniteSet(known')
    BY <2>2, FS_AddElement DEF ServiceInv
  <2>8. ServiceInv'
    BY <1>1, <1>2, <1>4, <1>7, <2>7 DEF ServiceInv, others
  <2>9. HeldInv'
    BY <1>1, <1>4, <1>7, <2>1, <2>2, <2>3, HeldKeeps DEF HeldInv, others
  <2>10. ProgressInv'
    BY <1>1 DEF ProgressInv, others
  <2>11. OrderInv'
    BY <1>7, <2>1, <2>2 DEF OrderInv
  <2>12. FollowInv'
    <3>1. ASSUME NEW j \in known'
          PROVE  /\ candidates'[j].interfaces \subseteq reported'[j]
                 /\ j \notin dropped' => candidates'[j].interfaces = reported'[j]
                 /\ candidates'[j].interfaces = {} => j \in doomed'
                 /\ ~ candidates'[j].unusable
      <4>1. CASE j = i
        <5>1. i \notin dropped => reported[i] = {}
          BY <1>7 DEF FollowInv
        <5> QED BY <1>2, <1>7, <2>1, <2>2, <4>1, <5>1
      <4>2. CASE j # i
        <5>1. j \in known /\ candidates'[j] = candidates[j] /\ reported'[j] = reported[j]
          BY <1>2, <1>4, <2>2, <4>2
        <5> QED BY <1>1, <1>3, <1>7, <5>1 DEF FollowInv
      <4> QED BY <4>1, <4>2
    <3>2. \A j \in Instances \ known' : j \notin dropped' => reported'[j] = {}
      BY <1>2, <1>7, <2>2 DEF FollowInv
    <3> QED BY <3>1, <3>2 DEF FollowInv
  <2> QED BY <2>5, <2>6, <2>8, <2>9, <2>10, <2>11, <2>12
<1> QED BY <1>5, <1>6, <1>7 DEF browse_found

\* What a candidate's own callback may do to it, the browse being done with.
LEMMA OwnKeeps ==
    ASSUME ServiceTypes, FollowInv, NEW i \in known, NEW c,
           known' = known, \A j \in known : candidates'[j] = IF j = i THEN c ELSE candidates[j],
           c.interfaces = candidates[i].interfaces,
           \/ doomed' = doomed \cup {i} /\ dropped' = dropped \cup {i}
           \/ doomed' = doomed /\ dropped' = dropped /\ c.unusable = candidates[i].unusable,
           reported' = reported, progress' = progress,
           BrowseRef \notin progress.refs \cup {progress.ref}
    PROVE  FollowInv'
<1>1. ASSUME NEW j \in known
      PROVE  /\ candidates'[j].interfaces \subseteq reported'[j]
             /\ j \notin dropped' => candidates'[j].interfaces = reported'[j]
             /\ candidates'[j].interfaces = {} => j \in doomed'
             /\ candidates'[j].unusable => j \in doomed' /\ j \in dropped'
  <2>1. CASE j = i
    BY <2>1 DEF FollowInv
  <2>2. CASE j # i
    <3>1. candidates'[j] = candidates[j]
      BY <2>2
    <3> QED BY <2>2, <3>1 DEF FollowInv
  <2> QED BY <2>1, <2>2
<1>2. \A j \in Instances \ known : j \notin dropped' => reported'[j] = {}
  BY DEF FollowInv
<1> QED BY <1>1, <1>2 DEF FollowInv

\* A resolve that fails leaves a candidate that is no use.
LEMMA FailedKeeps ==
    ASSUME IMdns, NEW i \in Instances, resolve_failed(i)
    PROVE  IMdns'
<1> USE DEF IMdns
<1> DEFINE c == [candidates[i] EXCEPT !.unusable = TRUE]
<1>1. /\ i \in known /\ candidates' = [candidates EXCEPT ![i] = c]
      /\ doomed' = doomed \cup {i} /\ dropped' = dropped \cup {i}
      /\ UNCHANGED <<others, contexts, retired, restart, allocated, reported>>
  BY DEF resolve_failed
<1>2. progress.at = "processing" /\ BrowseRef \notin progress.refs \cup {progress.ref}
  <2>1. progress.ref # None /\ progress.ref.kind \in Kinds
    BY DEF resolve_failed, inside, Kinds
  <2> QED BY <2>1, Whose
<1>3. /\ c \in Candidate /\ c.refs = candidates[i].refs
      /\ c.resolved_seq = candidates[i].resolved_seq /\ c.interfaces = candidates[i].interfaces
  BY <1>1 DEF ServiceTypes, Candidate
<1> HIDE DEF c
<1>4. /\ doomed' \in SUBSET Instances /\ dropped' \in SUBSET Instances
      /\ reported' \in [Instances -> SUBSET UNION {Interfaces[j] : j \in Instances}]
  BY <1>1 DEF ServiceTypes, ServiceInv
<1>5. /\ known' = known /\ \A j \in known : candidates'[j] = IF j = i THEN c ELSE candidates[j]
      /\ ServiceTypes' /\ ServiceInv' /\ RefsAccountedFor' /\ HeldInv' /\ ProgressInv' /\ OrderInv'
  BY <1>1, <1>2, <1>3, <1>4, Touches
<1>6. FollowInv'
  BY <1>1, <1>2, <1>3, <1>5, OwnKeeps DEF others
<1> QED BY <1>5, <1>6

\* An address that comes or goes.
LEMMA QueryKeeps ==
    ASSUME IMdns, NEW i \in Instances, NEW address \in Addresses, query_callback(i, address)
    PROVE  IMdns'
<1> USE DEF IMdns
<1> DEFINE c == IF address \in candidates[i].addresses
                THEN [candidates[i] EXCEPT !.addresses = @ \ {address}]
                ELSE [candidates[i] EXCEPT !.addresses = @ \cup {address},
                                           !.age = IF @ < 0 THEN 0 ELSE @]
<1>1. /\ i \in known /\ candidates' = [candidates EXCEPT ![i] = c]
      /\ UNCHANGED <<others, contexts, retired, doomed, restart, allocated, reported, dropped>>
  BY DEF query_callback
<1>2. progress.at = "processing" /\ BrowseRef \notin progress.refs \cup {progress.ref}
  <2>1. progress.ref # None /\ progress.ref.kind \in Kinds
    BY DEF query_callback, inside, Kinds
  <2> QED BY <2>1, Whose
<1>3. /\ c \in Candidate /\ c.refs = candidates[i].refs /\ c.unusable = candidates[i].unusable
      /\ c.resolved_seq = candidates[i].resolved_seq /\ c.interfaces = candidates[i].interfaces
  <2>1. candidates[i] \in Candidate
    BY <1>1 DEF ServiceTypes
  <2>2. CASE address \in candidates[i].addresses
    BY <2>1, <2>2 DEF Candidate
  <2>3. CASE address \notin candidates[i].addresses
    <3>1. /\ (IF candidates[i].age < 0 THEN 0 ELSE candidates[i].age) \in -1..ADDRESS_SETTLE_MS
          /\ candidates[i].addresses \cup {address} \in SUBSET Addresses
      BY <2>1, MdnsAssumption DEF Candidate
    <3> QED BY <2>1, <2>3, <3>1 DEF Candidate
  <2> QED BY <2>2, <2>3
<1> HIDE DEF c
<1>4. /\ doomed' \in SUBSET Instances /\ dropped' \in SUBSET Instances
      /\ reported' \in [Instances -> SUBSET UNION {Interfaces[j] : j \in Instances}]
  BY <1>1 DEF ServiceTypes, ServiceInv
<1>5. /\ known' = known /\ \A j \in known : candidates'[j] = IF j = i THEN c ELSE candidates[j]
      /\ ServiceTypes' /\ ServiceInv' /\ RefsAccountedFor' /\ HeldInv' /\ ProgressInv' /\ OrderInv'
  BY <1>1, <1>2, <1>3, <1>4, Touches
<1>6. FollowInv'
  BY <1>1, <1>2, <1>3, <1>5, OwnKeeps DEF others
<1> QED BY <1>5, <1>6

\* A reply retires the ref it comes on and starts the queries.
LEMMA ResolveKeeps ==
    ASSUME IMdns, NEW i \in Instances, NEW txt \in {"named", "other", "undialable"},
           NEW queries \in SUBSET Families, resolve_callback(i, txt, queries)
    PROVE  IMdns'
<1> USE DEF IMdns
<1> DEFINE c == [candidates[i] EXCEPT !.refs = queries, !.txt = txt,
                                      !.unusable = @ \/ queries = {}]
           own == Ref("resolve", i)
           new == {Ref(kind, i) : kind \in queries}
<1>1. /\ i \in known /\ candidates' = [candidates EXCEPT ![i] = c]
      /\ "resolve" \in candidates[i].refs
      /\ retired' = Append(retired, progress.ref)
      /\ allocated' = given(new)
      /\ IF queries = {} THEN doomed' = doomed \cup {i} /\ dropped' = dropped \cup {i}
         ELSE doomed' = doomed /\ dropped' = dropped
      /\ UNCHANGED <<others, contexts, restart, reported>>
  BY DEF resolve_callback
<1>2. /\ progress.at = "processing" /\ BrowseRef \notin progress.refs \cup {progress.ref}
      /\ progress.ref = own /\ progress.ref # None
  <2>1. progress.ref # None /\ progress.ref.kind \in Kinds
    BY DEF resolve_callback, inside, Kinds
  <2> QED BY <2>1, Whose DEF resolve_callback, inside
<1>3. /\ c \in Candidate /\ c.refs = queries /\ c.interfaces = candidates[i].interfaces
      /\ c.resolved_seq = candidates[i].resolved_seq
      /\ queries # {} => c.unusable = candidates[i].unusable
  <2>1. candidates[i] \in Candidate
    BY <1>1 DEF ServiceTypes
  <2> QED BY <2>1 DEF Candidate
<1> HIDE DEF c
<1>4. /\ known' = known /\ candidates' \in [known' -> Candidate]
      /\ \A j \in known : candidates'[j] = IF j = i THEN c ELSE candidates[j]
  BY <1>1, <1>3 DEF ServiceTypes, known
<1>5. candidates[i].refs = {"resolve"} /\ "resolve" \notin queries /\ queries \subseteq Kinds
  BY <1>1, MdnsAssumption DEF HeldInv, Families, Kinds
<1>6. own \in held /\ own \in Refs /\ own \notin new /\ new \in SUBSET Refs
  BY <1>1, <1>5, Held, RefFacts DEF Kinds
<1>7. held' = (held \ {own}) \cup new /\ new \cap held = {}
  <2>1. \A j \in known : candidates[j].refs \subseteq Kinds
    BY HeldRefs
  <2>2. \A j \in known, kind \in Kinds : Ref(kind, j) # RegisterRef /\ Ref(kind, j) # BrowseRef
    BY HeldRefs, RefFacts
  <2>3. \A ref : ref \in held' => ref \in (held \ {own}) \cup new
    BY <1>1, <1>3, <1>4, <1>5, <2>1, <2>2, Held, HeldNext, RefFacts DEF others
  <2>4. \A ref : ref \in (held \ {own}) \cup new => ref \in held'
    BY <1>1, <1>3, <1>4, <1>5, <2>1, <2>2, Held, HeldNext, RefFacts DEF others
  <2>5. new \cap held = {}
    BY <1>1, <1>5, <2>1, <2>2, Held, RefFacts
  <2> QED BY <2>3, <2>4, <2>5
<1>8. RefsAccountedFor' /\ allocated' \in [Refs -> Nat]
  <2>1. \A ref \in Refs : allocated'[ref] = allocated[ref] + (IF ref \in new THEN 1 ELSE 0)
    BY <1>1 DEF given
  <2>2. \A ref \in Refs : allocated[ref] \in Nat /\ count(retired, ref) \in Nat
    BY Counts DEF ServiceTypes
  <2>3. \A ref \in Refs : allocated[ref] = count(retired, ref) + (IF ref \in held THEN 1 ELSE 0)
    BY Books
  <2>4. \A ref \in Refs : count(retired', ref) = count(retired, ref) + (IF ref = own THEN 1 ELSE 0)
    BY <1>1, <1>2, <1>6, Counts DEF ServiceTypes
  <2> HIDE DEF own, new
  <2>5. ASSUME NEW ref \in Refs
        PROVE  /\ allocated'[ref] = count(retired', ref) + (IF ref \in held' THEN 1 ELSE 0)
               /\ allocated'[ref] \in Nat
    BY <1>6, <1>7, <2>1, <2>2, <2>3, <2>4
  <2>6. allocated' \in [Refs -> Nat]
    BY <1>1, <2>5 DEF given
  <2> QED BY <2>5, <2>6, Books
<1>9. doomed' \in SUBSET Instances /\ dropped' \in SUBSET Instances
  BY <1>1 DEF ServiceTypes, ServiceInv
<1>10. retired' \in Seq(Refs) /\ DOMAIN retired' = 1 .. Len(retired) + 1
       /\ retired'[Len(retired) + 1] = own
       /\ \A k \in 1 .. Len(retired) : retired'[k] = retired[k]
  BY <1>1, <1>2, <1>6 DEF ServiceTypes
<1>11. ServiceTypes'
  BY <1>1, <1>4, <1>8, <1>9, <1>10 DEF ServiceTypes, others
<1>12. ServiceInv'
  BY <1>1, <1>4, <1>9 DEF ServiceInv, others
<1>13. HeldInv'
  <2>1. contexts' = known'
    BY <1>1, <1>4 DEF HeldInv
  <2>2. \A j \in known' : "resolve" \in candidates'[j].refs => candidates'[j].refs = {"resolve"}
    BY <1>3, <1>4, <1>5 DEF HeldInv
  <2>3. retired \in Seq(Refs) /\ DOMAIN retired = 1 .. Len(retired) /\ Len(retired) \in Nat
    BY DEF ServiceTypes
  <2>4. \A k \in DOMAIN retired' : \E j \in known' : retired'[k] = Ref("resolve", j)
    BY <1>1, <1>4, <1>10, <2>3 DEF HeldInv
  <2>5. progress'.ref = own /\ Len(retired) + 1 \in DOMAIN retired'
    BY <1>1, <1>2, <1>10, <2>3 DEF others
  <2> QED BY <1>10, <2>1, <2>2, <2>4, <2>5 DEF HeldInv
<1>14. ProgressInv'
  BY <1>1, <1>2 DEF ProgressInv, others
<1>15. OrderInv'
  BY <1>3, <1>4 DEF OrderInv
<1>16. FollowInv'
  BY <1>1, <1>2, <1>3, <1>4, OwnKeeps DEF others
<1> QED BY <1>8, <1>11, <1>12, <1>13, <1>14, <1>15, <1>16

-----------------------------------------------------------------------------
(* The end of poll_once().                                                  *)

\* Renumbering gives each candidate that has resolved a number of its own, and changes
\* nothing else of it.
LEMMA Numbering ==
    ASSUME ServiceTypes, ServiceInv, OrderInv, NEW stays \in SUBSET known, NEW newly \in SUBSET stays,
           candidates' = numbered(stays, newly)
    PROVE  /\ known' = stays /\ candidates' \in [known' -> Candidate]
           /\ \A i \in stays :
                 /\ candidates'[i].refs = candidates[i].refs
                 /\ candidates'[i].interfaces = candidates[i].interfaces
                 /\ candidates'[i].unusable = candidates[i].unusable
           /\ OrderInv'
<1> DEFINE old == {i \in stays : candidates[i].resolved_seq # 0}
           resolved == newly \cup old
           upto(i) == {j \in resolved : no_later(j, i, newly)}
           number(i) == IF i \in resolved THEN Cardinality(upto(i)) ELSE 0
<1>1. candidates' = [i \in stays |-> [candidates[i] EXCEPT !.resolved_seq = number(i)]]
  BY DEF numbered
<1>2. /\ known \subseteq Instances /\ Instances \subseteq Nat /\ IsFiniteSet(known)
      /\ \A i \in known : candidates[i] \in Candidate /\ candidates[i].resolved_seq \in Nat
  BY MdnsAssumption DEF ServiceTypes, ServiceInv, Candidate
<1>3. IsFiniteSet(resolved)
  BY <1>2, FS_Subset
<1>4. ASSUME NEW i \in stays
      PROVE  IsFiniteSet(upto(i)) /\ number(i) \in Nat
  <2>1. IsFiniteSet(upto(i))
    BY <1>3, FS_Subset
  <2> QED BY <2>1, FS_CardinalityType
<1>5. \A i, j \in resolved :
         /\ i \in upto(i)
         /\ j \in upto(i) \/ i \in upto(j)
         /\ i # j => j \notin upto(i) \/ i \notin upto(j)
         /\ j \in upto(i) => upto(j) \subseteq upto(i)
  <2>1. \A i \in resolved \ newly : i \in known /\ candidates[i].resolved_seq # 0
    OBVIOUS
  <2>2. \A i \in resolved : i \in Nat /\ i \in known /\ candidates[i].resolved_seq \in Nat
    BY <1>2
  <2>3. \A i, j \in resolved \ newly : candidates[i].resolved_seq = candidates[j].resolved_seq => i = j
    BY <2>1 DEF OrderInv
  <2>4. \A i, j : j \in upto(i) <=> /\ j \in resolved
                                    /\ IF i \in newly THEN j \in newly => j <= i
                                       ELSE /\ j \notin newly
                                            /\ candidates[j].resolved_seq <= candidates[i].resolved_seq
    BY DEF no_later
  <2> HIDE DEF resolved, upto
  <2>5. TAKE i, j \in resolved
  <2>6. i \in upto(i)
    BY <2>2, <2>4
  <2>7. j \in upto(i) \/ i \in upto(j)
    BY <2>2, <2>4
  <2>8. i # j => j \notin upto(i) \/ i \notin upto(j)
    BY <2>2, <2>3, <2>4
  <2>9. ASSUME j \in upto(i), NEW k \in upto(j)
        PROVE  k \in upto(i)
    BY <2>2, <2>4, <2>9
  <2> QED BY <2>6, <2>7, <2>8, <2>9
<1>6. ASSUME NEW i \in resolved, NEW j \in resolved, i # j
      PROVE  number(i) # number(j)
  <2>1. ASSUME NEW k \in resolved, NEW l \in resolved, k # l, l \in upto(k)
        PROVE  number(l) # number(k)
    <3>1. upto(l) \in SUBSET upto(k) /\ k \in upto(k) /\ k \notin upto(l)
      BY <1>5, <2>1
    <3>2. IsFiniteSet(upto(k))
      BY <1>4
    <3> HIDE DEF upto, resolved
    <3>3. Cardinality(upto(l)) # Cardinality(upto(k))
      BY <3>1, <3>2, FS_Subset
    <3> QED BY <3>3
  <2> HIDE DEF number, upto, resolved
  <2> QED BY <1>5, <1>6, <2>1
<1> HIDE DEF number, resolved
<1>7. known' = stays
  BY <1>1 DEF known
<1>8. ASSUME NEW i \in stays
      PROVE  /\ candidates'[i] \in Candidate
             /\ candidates'[i].refs = candidates[i].refs
             /\ candidates'[i].interfaces = candidates[i].interfaces
             /\ candidates'[i].unusable = candidates[i].unusable
             /\ candidates'[i].resolved_seq = number(i)
  <2>1. candidates'[i] = [candidates[i] EXCEPT !.resolved_seq = number(i)]
    BY <1>1
  <2> QED BY <1>2, <1>4, <2>1 DEF Candidate
<1>9. \A i \in stays : number(i) # 0 => i \in resolved
  BY DEF number
<1>10. OrderInv'
  BY <1>6, <1>7, <1>8, <1>9 DEF OrderInv
<1>11. candidates' \in [known' -> Candidate]
  BY <1>1, <1>7, <1>8
<1> QED BY <1>7, <1>8, <1>10, <1>11

\* What is put off is done: the retired refs are given back, and the candidates that are
\* no use or are nowhere are forgotten, with their refs and their contexts.
LEMMA PollEndsKeeps ==
    ASSUME IMdns, PollEnds
    PROVE  IMdns'
<1> USE DEF IMdns
<1> DEFINE gone == {i \in doomed \cap known : purged(i)}
           stays == known \ gone
           newly == {i \in stays : candidates[i].resolved_seq = 0 /\ settled(i)}
<1>1. /\ progress.at = "processing" /\ progress.ref = None
      /\ allocated' = released(gone)
      /\ candidates' = numbered(stays, newly)
      /\ contexts' = contexts \ gone
      /\ retired' = <<>> /\ doomed' = {} /\ progress' = in_main
      /\ UNCHANGED <<wanted, register_ref, browse_ref, restart, daemon, reported, dropped>>
      /\ dead' = dead \cap held'
  BY DEF PollEnds
<1>2. /\ known' = stays /\ candidates' \in [known' -> Candidate]
      /\ \A i \in stays :
            /\ candidates'[i].refs = candidates[i].refs
            /\ candidates'[i].interfaces = candidates[i].interfaces
            /\ candidates'[i].unusable = candidates[i].unusable
      /\ OrderInv'
  <2>1. stays \in SUBSET known /\ newly \in SUBSET stays
    OBVIOUS
  <2> HIDE DEF stays, newly
  <2> QED BY <1>1, <2>1, Numbering
<1>3. \A i \in stays : i \in known /\ i \in Instances /\ (i \in doomed => ~ purged(i))
  BY DEF ServiceTypes
<1>4. gone \subseteq known /\ known \subseteq Instances
  BY DEF ServiceTypes
<1> HIDE DEF gone, newly
<1>5. held' = {ref \in held : ref.instance \notin gone}
  <2>1. \A i \in known : candidates[i].refs \subseteq Kinds /\ i \in Instances
    BY HeldRefs
  <2>2. None \notin Instances
    BY NoneAssumption
  <2>3. \A ref : ref \in held' => ref \in held /\ ref.instance \notin gone
    <3>1. TAKE ref
    <3>2. HAVE ref \in held'
    <3>3. CASE ref \in {RegisterRef, BrowseRef}
      <4>1. ref.instance \notin gone
        BY <1>4, <2>2, <3>3, RefFacts
      <4>2. ref \in held
        <5>1. CASE \E i \in stays : \E kind \in candidates'[i].refs : ref = Ref(kind, i)
          BY <1>2, <1>3, <5>1, Held
        <5> QED BY <1>1, <1>2, <3>2, <5>1, Held, HeldNext
      <4> QED BY <4>1, <4>2
    <3>4. CASE ref \notin {RegisterRef, BrowseRef}
      <4>1. PICK i \in stays : \E kind \in candidates'[i].refs : ref = Ref(kind, i)
        BY <1>2, <3>2, <3>4, HeldNext
      <4>2. \E kind \in candidates[i].refs : ref = Ref(kind, i)
        BY <1>2, <4>1
      <4>3. ref.instance = i /\ i \in known /\ i \notin gone
        BY <4>2, RefFacts
      <4> QED BY <4>2, <4>3, Held
    <3> QED BY <3>3, <3>4
  <2>4. \A ref : ref \in held /\ ref.instance \notin gone => ref \in held'
    <3>1. TAKE ref
    <3>2. HAVE ref \in held /\ ref.instance \notin gone
    <3>3. CASE \E i \in known : \E kind \in candidates[i].refs : ref = Ref(kind, i)
      <4>1. PICK i \in known : \E kind \in candidates[i].refs : ref = Ref(kind, i)
        BY <3>3
      <4>2. i \in stays
        BY <3>2, <4>1, RefFacts
      <4> QED BY <1>2, <4>1, <4>2, HeldNext
    <3> QED BY <1>1, <3>2, <3>3, Held, HeldNext
  <2> QED BY <2>3, <2>4
<1>6. RefsAccountedFor' /\ allocated' \in [Refs -> Nat]
  <2>1. \A ref \in Refs : allocated[ref] = count(retired, ref) + (IF ref \in held THEN 1 ELSE 0)
    BY Books
  <2>2. \A ref \in Refs : allocated[ref] \in Nat /\ count(retired, ref) \in Nat
    BY Counts DEF ServiceTypes
  <2>3. \A ref \in Refs : allocated'[ref] = allocated[ref] - count(retired, ref)
                             - (IF ref \in held /\ ref.instance \in gone THEN 1 ELSE 0)
    BY <1>1 DEF released, times_retired, count
  <2>4. \A ref \in Refs : count(retired', ref) = 0
    BY <1>1, Counts
  <2>5. \A ref \in Refs : /\ allocated'[ref] = count(retired', ref) + (IF ref \in held' THEN 1 ELSE 0)
                          /\ allocated'[ref] \in Nat
    BY <1>5, <2>1, <2>2, <2>3, <2>4
  <2>6. allocated' \in [Refs -> Nat]
    BY <1>1, <2>5 DEF released
  <2> QED BY <2>5, <2>6, Books
<1>7. ServiceTypes'
  <2>1. dead' \subseteq Refs /\ contexts' \subseteq Instances
    BY <1>1 DEF ServiceTypes
  <2>2. progress' \in [at : {"main", "processing", "stopped"}, refs : SUBSET Refs,
                       ref : Refs \cup {None}]
    BY <1>1 DEF in_main
  <2>3. known' \subseteq Instances /\ retired' \in Seq(Refs) /\ doomed' \subseteq Instances
    BY <1>1, <1>2, <1>4
  <2>4. restart'.at \in -1..MAX_RETRY_DELAY_MS
    BY <1>1 DEF ServiceTypes
  <2> QED BY <1>2, <1>6, <2>1, <2>2, <2>3, <2>4 DEF ServiceTypes
<1>8. ServiceInv'
  <2>1. IsFiniteSet(known')
    BY <1>2, FS_Subset DEF ServiceInv
  <2> QED BY <1>1, <2>1 DEF ServiceInv
<1>9. HeldInv'
  <2>1. DOMAIN retired' = {} /\ progress'.ref = None
    BY <1>1 DEF in_main
  <2>2. contexts' = known'
    BY <1>1, <1>2 DEF HeldInv
  <2> QED BY <1>2, <1>3, <2>1, <2>2 DEF HeldInv
<1>10. ProgressInv'
  BY <1>1 DEF ProgressInv, in_main
<1>11. FollowInv'
  <2>1. ASSUME NEW i \in stays
        PROVE  /\ candidates'[i].interfaces \subseteq reported[i]
               /\ i \notin dropped => candidates'[i].interfaces = reported[i]
               /\ candidates'[i].interfaces # {}
               /\ ~ candidates'[i].unusable
    BY <1>2, <1>3 DEF FollowInv, purged
  <2>2. ASSUME NEW i \in Instances \ stays, i \notin dropped
        PROVE  reported[i] = {}
    <3>1. CASE i \notin known
      BY <2>2, <3>1 DEF FollowInv
    <3>2. CASE i \in known
      BY <2>2, <3>2 DEF FollowInv, purged, gone
    <3> QED BY <3>1, <3>2
  <2> HIDE DEF stays
  <2>3. UNCHANGED <<reported, dropped>> /\ known' = stays
    BY <1>1, <1>2
  <2> QED BY <2>1, <2>2, <2>3 DEF FollowInv
<1> QED BY <1>2, <1>6, <1>7, <1>8, <1>9, <1>10, <1>11

\* Time only ages the candidates and runs off the wait.
LEMMA TimePassesKeeps ==
    ASSUME IMdns, TimePasses
    PROVE  IMdns'
<1> USE DEF IMdns
<1>1. /\ restart' = [restart EXCEPT !.at = IF @ > 0 THEN @ - 1 ELSE @]
      /\ candidates' = [i \in known |->
            [candidates[i] EXCEPT !.age = IF @ \in 0..(ADDRESS_SETTLE_MS - 1) THEN @ + 1 ELSE @]]
      /\ UNCHANGED <<wanted, register_ref, browse_ref, contexts, retired, doomed, progress,
                     daemon, dead, allocated, reported, dropped>>
  BY DEF TimePasses
<1>2. restart' \in [at : -1..MAX_RETRY_DELAY_MS, attempt : Nat]
  <2>1. restart \in [at : -1..MAX_RETRY_DELAY_MS, attempt : Nat]
    BY DEF ServiceInv
  <2>2. (IF restart.at > 0 THEN restart.at - 1 ELSE restart.at) \in -1..MAX_RETRY_DELAY_MS
    BY <2>1, DelayAssumption
  <2> QED BY <1>1, <2>1, <2>2
<1>3. known' = known
  BY <1>1 DEF known
<1>4. ASSUME NEW i \in known
      PROVE  /\ candidates'[i] \in Candidate
             /\ candidates'[i].refs = candidates[i].refs
             /\ candidates'[i].interfaces = candidates[i].interfaces
             /\ candidates'[i].unusable = candidates[i].unusable
             /\ candidates'[i].resolved_seq = candidates[i].resolved_seq
  <2>1. candidates[i] \in Candidate
    BY DEF ServiceTypes
  <2> DEFINE age == IF candidates[i].age \in 0..(ADDRESS_SETTLE_MS - 1) THEN candidates[i].age + 1
                    ELSE candidates[i].age
  <2>2. age \in -1..ADDRESS_SETTLE_MS
    BY <2>1, MdnsAssumption DEF Candidate
  <2>3. candidates'[i] = [candidates[i] EXCEPT !.age = age]
    BY <1>1
  <2> HIDE DEF age
  <2> QED BY <2>1, <2>2, <2>3 DEF Candidate
<1>5. candidates' \in [known' -> Candidate]
  BY <1>1, <1>3, <1>4
<1>6. held' = held
  BY <1>1, <1>3, <1>4, SameHeld
<1>7. RefsAccountedFor'
  BY <1>1, <1>6, SameBooks
<1>8. ServiceTypes'
  BY <1>1, <1>2, <1>3, <1>5 DEF ServiceTypes
<1>9. ServiceInv'
  BY <1>1, <1>2, <1>3 DEF ServiceInv
<1>10. HeldInv'
  BY <1>1, <1>3, <1>4, <1>6, HeldKeeps DEF HeldInv
<1>11. ProgressInv'
  BY <1>1 DEF ProgressInv
<1>12. OrderInv'
  BY <1>3, <1>4 DEF OrderInv
<1>13. FollowInv'
  BY <1>1, <1>3, <1>4 DEF FollowInv
<1> QED BY <1>7, <1>8, <1>9, <1>10, <1>11, <1>12, <1>13

-----------------------------------------------------------------------------
(* All of it.                                                               *)

\* Nothing has begun.
LEMMA MdnsStarts == MdnsInit => IMdns
<1> SUFFICES ASSUME MdnsInit PROVE IMdns
  OBVIOUS
<1> USE DEF MdnsInit
<1>1. known = {} /\ candidates \in [known -> Candidate] /\ IsFiniteSet(known)
  BY FS_EmptySet DEF nothing, known
<1>2. held = {}
  BY <1>1, Held
<1>3. RefsAccountedFor
  BY <1>2, Books, Counts
<1>4. ServiceTypes
  BY <1>1, DelayAssumption DEF ServiceTypes, never_restart, in_main
<1>5. ServiceInv
  <2>1. restart \in [at : -1..MAX_RETRY_DELAY_MS, attempt : Nat]
    BY DelayAssumption DEF never_restart
  <2>2. reported \in [Instances -> SUBSET UNION {Interfaces[i] : i \in Instances}]
    OBVIOUS
  <2>3. dropped \subseteq Instances /\ register_ref \in BOOLEAN /\ browse_ref \in BOOLEAN
    OBVIOUS
  <2> QED BY <1>1, <2>1, <2>2, <2>3 DEF ServiceInv
<1>6. HeldInv
  <2>1. DOMAIN retired = {}
    OBVIOUS
  <2> QED BY <1>1, <2>1 DEF HeldInv, in_main
<1>7. ProgressInv /\ FollowInv /\ OrderInv
  BY <1>1 DEF ProgressInv, FollowInv, OrderInv, in_main
<1> QED BY <1>3, <1>4, <1>5, <1>6, <1>7 DEF IMdns

\* Every step keeps the invariant.
LEMMA MdnsKeeps == IMdns /\ [MdnsNext]_service => IMdns'
<1> SUFFICES ASSUME IMdns, [MdnsNext]_service PROVE IMdns'
  OBVIOUS
<1>1. CASE UNCHANGED service
  <2>1. UNCHANGED <<Elsewhere, progress, dead>>
    BY <1>1 DEF service, Elsewhere
  <2>2. /\ held' = held /\ known' = known /\ ServiceInv' /\ RefsAccountedFor' /\ OrderInv'
        /\ ServiceTypes'
    BY <2>1, ElsewhereKeeps DEF IMdns, ServiceTypes
  <2>3. HeldInv' /\ ProgressInv' /\ FollowInv'
    BY <2>1, <2>2 DEF IMdns, HeldInv, ProgressInv, FollowInv, Elsewhere
  <2> QED BY <2>2, <2>3 DEF IMdns
<1>2. CASE advertise
  BY <1>2, AdvertiseKeeps
<1>3. CASE browse
  BY <1>3, BrowseKeeps
<1>4. CASE stop
  BY <1>4, StopKeeps
<1>5. CASE Poll
  <2>1. CASE PollStarts
    BY <2>1, PollStartsKeeps
  <2>2. CASE ProcessReturns
    BY <2>2, ReturnKeeps
  <2>3. CASE PollEnds
    BY <2>3, PollEndsKeeps
  <2>4. ASSUME NEW ref \in progress.refs, DNSServiceProcessResult(ref) \/ ProcessFails(ref)
        PROVE  IMdns'
    BY <2>4, ProcessKeeps, FailKeeps
  <2> QED BY <1>5, <2>1, <2>2, <2>3, <2>4 DEF Poll
<1>6. CASE Callback
  <2>1. CASE register_callback
    BY <2>1, RegisterCallbackKeeps
  <2>2. ASSUME NEW i \in Instances, NEW interface \in Interfaces[i],
               browse_lost(i, interface) \/ browse_found(i, interface)
        PROVE  IMdns'
    BY <2>2, LostKeeps, FoundKeeps
  <2>3. ASSUME NEW i \in Instances, resolve_failed(i)
        PROVE  IMdns'
    BY <2>3, FailedKeeps
  <2>4. ASSUME NEW i \in Instances, NEW txt \in {"named", "other", "undialable"},
               NEW queries \in SUBSET Families, resolve_callback(i, txt, queries)
        PROVE  IMdns'
    BY <2>4, ResolveKeeps
  <2>5. ASSUME NEW i \in Instances, NEW address \in Addresses, query_callback(i, address)
        PROVE  IMdns'
    BY <2>5, QueryKeeps
  <2> QED BY <1>6, <2>1, <2>2, <2>3, <2>4, <2>5 DEF Callback
<1>7. CASE TimePasses
  BY <1>7, TimePassesKeeps
<1>8. CASE DaemonChanges
  BY <1>8, DaemonKeeps
<1> QED BY <1>1, <1>2, <1>3, <1>4, <1>5, <1>6, <1>7, <1>8 DEF MdnsNext

\* It holds of every behaviour.
LEMMA ServiceIsInvariant == MdnsSpec => []IMdns
  BY MdnsStarts, MdnsKeeps, PTL DEF MdnsSpec

\* The refs of mdns_dnssd.cpp: each one the library has out is in exactly one place, none
\* is freed while it or a callback of it is running, and none is left behind, whatever
\* comes and goes and however often the daemon does.
THEOREM RefsManaged == MdnsSpec => []RefsAreManaged
<1>1. IMdns => RefsAreManaged
  <2> SUFFICES ASSUME IMdns PROVE NothingFreedInUse
    BY DEF IMdns, RefsAreManaged
  <2> USE DEF IMdns
  <2>1. \A ref \in Refs : /\ allocated[ref] = count(retired, ref) + (IF ref \in held THEN 1 ELSE 0)
                          /\ count(retired, ref) \in Nat
                          /\ count(retired, ref) > 0 <=> \E k \in DOMAIN retired : retired[k] = ref
    BY Books, Counts DEF ServiceTypes
  <2>2. progress.ref # None => allocated[progress.ref] > 0
    BY <2>1 DEF HeldInv, ServiceTypes
  <2>3. ASSUME NEW ref \in CandidateRefs, allocated[ref] > 0
        PROVE  ref.instance \in contexts
    <3>1. PICK kind \in Kinds, i \in Instances : ref = Ref(kind, i)
      BY DEF CandidateRefs, Kinds
    <3>2. ref \in Refs /\ ref # RegisterRef /\ ref # BrowseRef /\ ref.instance = i
      BY <3>1, RefFacts
    <3>3. ref \in held \/ \E k \in DOMAIN retired : retired[k] = ref
      BY <2>1, <2>3, <3>2
    <3>4. \E other : \E j \in known : ref = Ref(other, j)
      BY <3>2, <3>3, Held DEF HeldInv
    <3> QED BY <3>1, <3>2, <3>4, RefFacts DEF HeldInv
  <2> QED BY <2>2, <2>3 DEF NothingFreedInUse
<1> QED BY <1>1, ServiceIsInvariant, PTL

\* A server that the browse reports is a candidate on just the interfaces it is reported
\* on, unless it was given up for what it is: no flap, departure or restart loses one.
THEOREM ServersFollowed == MdnsSpec => []ReportedServersAreFollowed
<1>1. IMdns => ReportedServersAreFollowed
  <2> SUFFICES ASSUME IMdns, progress.at = "main", NEW i \in Instances, i \notin dropped
               PROVE  IF reported[i] = {} THEN i \notin known
                      ELSE i \in known /\ candidates[i].interfaces = reported[i]
    BY DEF ReportedServersAreFollowed
  <2>1. doomed = {}
    BY DEF IMdns, ProgressInv
  <2> QED BY <2>1 DEF IMdns, FollowInv
<1> QED BY <1>1, ServiceIsInvariant, PTL

\* What is chosen of the servers, told of one filter and one remembered server.
Choice(filtered, last) ==
    LET fit == {i \in known : /\ candidates[i].resolved_seq # 0 /\ dialable(i)
                              /\ filtered => candidates[i].txt = "named"}
        choice == selected(filtered, last)
    IN  IF fit = {} THEN choice = None
        ELSE /\ choice \in fit
             /\ \A i \in fit \ {choice} :
                   choice = last \/ candidates[choice].resolved_seq < candidates[i].resolved_seq

\* What select_server() hands to the dialler can be dialled, is the remembered server when
\* that one can, and is else the one that resolved first; and it hands something over
\* whenever one can be dialled.
THEOREM ChoiceIsDialable == MdnsSpec => []ChoosesWhatCanBeDialled
<1>1. IMdns => ChoosesWhatCanBeDialled
  <2> SUFFICES ASSUME IMdns, NEW filtered \in BOOLEAN, NEW last \in Instances \cup {None}
               PROVE  Choice(filtered, last)
    BY DEF ChoosesWhatCanBeDialled, Choice
  <2> DEFINE matching == {i \in servers : filtered => candidates[i].txt = "named"}
             fit == {i \in known : /\ candidates[i].resolved_seq # 0 /\ dialable(i)
                                   /\ filtered => candidates[i].txt = "named"}
             first(i) == \A j \in matching : candidates[i].resolved_seq <= candidates[j].resolved_seq
             choice == selected(filtered, last)
  <2>1. fit = matching
    BY DEF servers
  <2>2. \A i \in matching : /\ i \in known /\ candidates[i].resolved_seq \in Nat
                            /\ candidates[i].resolved_seq # 0
    BY DEF servers, IMdns, ServiceTypes, Candidate
  <2>3. choice = IF matching = {} THEN None
                 ELSE IF last \in matching THEN last
                 ELSE CHOOSE i \in matching : first(i)
    BY DEF selected
  <2> HIDE DEF matching, fit
  <2>4. ASSUME matching # {} PROVE \E i \in matching : first(i)
    <3> DEFINE numbers == {candidates[i].resolved_seq : i \in matching}
    <3>1. numbers \subseteq Nat /\ numbers # {}
      BY <2>2, <2>4
    <3>2. PICK n \in numbers : \A m \in numbers : n <= m
      BY <3>1, LeastElement
    <3>3. PICK i \in matching : candidates[i].resolved_seq = n
      OBVIOUS
    <3> QED BY <3>2, <3>3
  <2>5. matching = {} => choice = None
    BY <2>3
  <2>6. ASSUME matching # {}
        PROVE  /\ choice \in matching
               /\ \A i \in matching \ {choice} :
                     choice = last \/ candidates[choice].resolved_seq < candidates[i].resolved_seq
    <3>1. CASE last \in matching
      BY <2>3, <2>6, <3>1
    <3>2. CASE last \notin matching
      <4>1. choice \in matching /\ first(choice)
        BY <2>3, <2>4, <2>6, <3>2
      <4> HIDE DEF choice
      <4>2. ASSUME NEW i \in matching \ {choice}
            PROVE  candidates[choice].resolved_seq < candidates[i].resolved_seq
        <5>1. candidates[choice].resolved_seq # candidates[i].resolved_seq
          BY <2>2, <4>1 DEF IMdns, OrderInv
        <5> QED BY <2>2, <4>1, <5>1
      <4> QED BY <4>1, <4>2
    <3> QED BY <3>1, <3>2
  <2> HIDE DEF choice
  <2>7. IF fit = {} THEN choice = None
        ELSE /\ choice \in fit
             /\ \A i \in fit \ {choice} :
                   choice = last \/ candidates[choice].resolved_seq < candidates[i].resolved_seq
    BY <2>1, <2>5, <2>6
  <2> QED BY <2>7 DEF Choice, fit, choice
<1> QED BY <1>1, ServiceIsInvariant, PTL
=============================================================================
