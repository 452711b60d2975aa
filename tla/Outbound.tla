------------------------------ MODULE Outbound ------------------------------
(***************************************************************************)
(* The outbound half of the player: RetryPacer and LastDial                 *)
(* (src/outbound.{h,cpp}) and OutboundMode (src/main.cpp), which the main   *)
(* loop ticks.  Around it are the library, which keeps one attempt and one  *)
(* connection and tells only whether there is a connection; servers, which  *)
(* may dial the player themselves and take over from one another; and       *)
(* discovery, whose candidates come and go.                                 *)
(*                                                                          *)
(* last_dial_ms_ is only ever compared with now through a delay of at most  *)
(* MAX_RETRY_DELAY_MS, so the clock is how long ago it was stamped, up to   *)
(* that.  A server is its id; the URL it was discovered at is the same      *)
(* value, and Literal is the URL of an -s that names one.                   *)
(***************************************************************************)
EXTENDS RetryDelays

CONSTANTS
    ANSWER_MS,       \* a server that works answers a dial in this time
    Servers,
    OptionSets,      \* command lines: discover, and the servers that pass the name filter
    Literal, Inbound

ASSUME OutboundAssumption ==
    /\ ANSWER_MS \in Nat /\ ANSWER_MS < MAX_RETRY_DELAY_MS
    /\ IsFiniteSet(Servers)
    /\ OptionSets \subseteq [discover : BOOLEAN, named : SUBSET Servers]
    /\ {Literal, Inbound, None} \cap Servers = {}
    /\ Literal # None /\ Inbound # Literal

VARIABLES
    opts,
    pacer,                       \* pacer_
    last_dial,                   \* last_dial_
    remembered,                  \* remembered_
    remembered_this_connection,
    stored,                      \* the store's last server
    attempt,                     \* the library: the outbound attempt in flight
    connection,                  \* the library: the connection, and how it came
    healthy,                     \* the world: servers answer, and the player is left alone
    discovered,                  \* discovery: servers(), in the order they resolved
    since_dial,                  \* history: time since the last connect_to(), up to the maximum
    since_seen,                  \* history: time since a tick last saw a connection, likewise
    unanswered,                  \* history: dials since a tick last saw a connection
    seen,                        \* history: what the last tick to see a connection saw
    switched                     \* history: a connection has replaced one unseen

mode == <<pacer, last_dial, remembered, remembered_this_connection, stored>>
library == <<attempt, connection, switched>>
history == <<since_dial, since_seen, unanswered, seen>>
vars == <<opts, mode, library, healthy, discovered, history>>

-----------------------------------------------------------------------------
(* The schedule.                                                            *)

\* What the delays are meant to be: each twice the one before, up to the ceiling.
ladder[n \in Nat] ==
    IF n = 0 THEN lesser(MIN_RETRY_DELAY_MS, MAX_RETRY_DELAY_MS)
    ELSE lesser(2 * ladder[n - 1], MAX_RETRY_DELAY_MS)

bug_off_by_one(p) == next_retry_delay_ms[IF p.dials > 1 THEN p.dials - 2 ELSE 0]

delay_ms(p) == next_retry_delay_ms[IF p.dials > 0 THEN p.dials - 1 ELSE 0]

new_pacer == [since |-> 0, dials |-> 0, dialled |-> FALSE, connected |-> FALSE]

lost(p) == p.connected /\ connection = None

bug_restart_the_schedule(p) ==
    IF connection # None
    THEN [p EXCEPT !.connected = TRUE, !.dials = 0]
    ELSE [since     |-> IF lost(p) THEN 0 ELSE p.since,
          dials     |-> lesser(p.dials, 1),
          dialled   |-> p.dialled \/ lost(p),
          connected |-> FALSE]

\* A completed handshake resets the schedule; losing one paces the first redial from now.
note_connection_state(p) ==
    IF connection # None THEN [p EXCEPT !.connected = TRUE, !.dials = 0]
    ELSE IF lost(p) THEN [since |-> 0, dials |-> 1, dialled |-> TRUE, connected |-> FALSE]
    ELSE p

should_dial(p) == ~ p.connected /\ (p.dialled => p.since >= delay_ms(p))

\* The count stops where the schedule has saturated.
note_dial(p) ==
    [p EXCEPT !.since = 0, !.dialled = TRUE,
              !.dials = IF delay_ms(p) < MAX_RETRY_DELAY_MS THEN @ + 1 ELSE @]

\* A discovered URL is answered for its own server only, a literal one for any.
url_for(server) ==
    IF last_dial.server_id \in {None, server} THEN last_dial.url ELSE None

no_dial == [url |-> None, server_id |-> None]

\* A run begins with what the store remembers.
Init ==
    /\ opts \in OptionSets
    /\ pacer = new_pacer /\ last_dial = no_dial
    /\ remembered = None /\ remembered_this_connection = FALSE /\ stored = None
    /\ attempt = None /\ connection = None /\ switched = FALSE
    /\ healthy \in BOOLEAN
    /\ discovered = <<>>
    /\ since_dial = MAX_RETRY_DELAY_MS /\ since_seen = MAX_RETRY_DELAY_MS
    /\ unanswered = 0 /\ seen = None

-----------------------------------------------------------------------------
(* OutboundMode::tick().                                                    *)

bug_dial_kept(was_lost) ==
    /\ remembered_this_connection' = (remembered_this_connection /\ ~ was_lost)
    /\ UNCHANGED last_dial

\* What a lost connection takes with it.
forget(was_lost) ==
    IF was_lost
    THEN last_dial' = no_dial /\ remembered_this_connection' = FALSE
    ELSE UNCHANGED <<last_dial, remembered_this_connection>>

\* remember(), of a server that is not remembered already; the save may fail.
remember(server) ==
    IF remembered_this_connection \/ server = remembered
    THEN UNCHANGED <<remembered, remembered_this_connection, stored>>
    ELSE /\ remembered_this_connection' = TRUE
         /\ remembered' = server
         /\ stored' \in {server, stored}

\* The filter is hard; of what passes it the remembered server wins, else the first.
select_server ==
    LET matching == {i \in DOMAIN discovered : discovered[i] \in opts.named} IN
    IF matching = {} THEN None
    ELSE IF \E i \in matching : discovered[i] = remembered THEN remembered
    ELSE discovered[CHOOSE i \in matching : \A j \in matching : i <= j]

\* What there is to dial, and who is expected to answer.
chosen ==
    IF ~ opts.discover THEN [url |-> Literal, server_id |-> None]
    ELSE IF select_server = None THEN no_dial
    ELSE [url |-> select_server, server_id |-> select_server]

\* A connection, whoever made it, is remembered and never dialled over.
TickConnected ==
    /\ connection # None
    /\ pacer' = note_connection_state(pacer)
    /\ remember(connection.server)
    /\ seen' = connection.server /\ since_seen' = 0 /\ unanswered' = 0
    /\ UNCHANGED <<last_dial, opts, library, healthy, discovered, since_dial>>

\* Too early, or nothing to dial yet.
TickWaits ==
    /\ connection = None
    /\ LET noted == note_connection_state(pacer) IN
       /\ ~ should_dial(noted) \/ chosen = no_dial
       /\ pacer' = noted
    /\ forget(lost(pacer))
    /\ switched' = (switched /\ ~ lost(pacer))
    /\ seen' = IF lost(pacer) THEN None ELSE seen
    /\ UNCHANGED <<remembered, stored, attempt, connection, opts, healthy, discovered,
                   since_dial, since_seen, unanswered>>

\* connect_to(), which releases an attempt still in flight.
TickDials ==
    /\ connection = None
    /\ ~ lost(pacer)
    /\ should_dial(pacer)
    /\ chosen # no_dial
    /\ pacer' = note_dial(pacer)
    /\ last_dial' = chosen
    /\ attempt' = [url |-> chosen.url, age |-> 0]
    /\ since_dial' = 0
    /\ unanswered' = IF unanswered = 0 \/ ladder[unanswered - 1] < MAX_RETRY_DELAY_MS
                     THEN unanswered + 1 ELSE unanswered
    /\ UNCHANGED <<remembered, remembered_this_connection, stored, connection, switched, opts,
                   healthy, discovered, since_seen, seen>>

tick == TickConnected \/ TickWaits \/ TickDials

-----------------------------------------------------------------------------
(* Around it.                                                               *)

environment == <<opts, mode, history>>

\* A handshake completes: is_connected() becomes true, or stays so when the
\* connection takes over from another.  pacer.connected is what the last tick saw.
connected_by(server, via) ==
    /\ connection' = [server |-> server, via |-> via]
    /\ switched' = (switched \/ pacer.connected)

Answered ==
    /\ attempt # None
    /\ \E s \in IF attempt.url = Literal THEN Servers ELSE {attempt.url} :
           connected_by(s, attempt.url)
    /\ attempt' = None
    /\ UNCHANGED <<environment, healthy, discovered>>

\* A server dials the player.
InboundConnection ==
    /\ \E s \in Servers : connected_by(s, Inbound)
    /\ UNCHANGED <<environment, attempt, healthy, discovered>>

ConnectionLost ==
    /\ connection # None
    /\ connection' = None
    /\ UNCHANGED <<environment, attempt, switched, healthy, discovered>>

\* Refused, or reaped by the library.
AttemptFails ==
    /\ attempt # None /\ ~ healthy
    /\ attempt' = None
    /\ UNCHANGED <<environment, connection, switched, healthy, discovered>>

HealthChanges ==
    /\ healthy' = ~ healthy
    /\ UNCHANGED <<environment, library, discovered>>

\* Servers have resolved, in some order, or gone away.
Candidates ==
    {c \in UNION {[1..n -> Servers] : n \in 0..Cardinality(Servers)} :
        \A i, j \in DOMAIN c : c[i] = c[j] => i = j}

DiscoveryChanges ==
    /\ opts.discover
    /\ discovered' \in Candidates \ {discovered}
    /\ UNCHANGED <<environment, library, healthy>>

older(t) == lesser(t + 1, MAX_RETRY_DELAY_MS)

\* Time passes, but a server that works does not let it pass it by.
Clock ==
    /\ healthy /\ attempt # None => attempt.age < ANSWER_MS
    /\ pacer' = [pacer EXCEPT !.since = IF pacer.dialled THEN older(@) ELSE @]
    /\ attempt' = IF attempt = None THEN None ELSE [attempt EXCEPT !.age = older(@)]
    /\ since_dial' = older(since_dial) /\ since_seen' = older(since_seen)
    /\ UNCHANGED <<opts, last_dial, remembered, remembered_this_connection, stored, connection,
                   switched, healthy, discovered, unanswered, seen>>

\* The player is stopped and started again.
Restart ==
    /\ ~ healthy
    /\ pacer' = new_pacer /\ last_dial' = no_dial
    /\ remembered' = stored /\ remembered_this_connection' = FALSE
    /\ attempt' = None /\ connection' = None /\ switched' = FALSE
    /\ discovered' = <<>>
    /\ since_dial' = MAX_RETRY_DELAY_MS /\ since_seen' = MAX_RETRY_DELAY_MS
    /\ unanswered' = 0 /\ seen' = None
    /\ UNCHANGED <<opts, stored, healthy>>

Next ==
    \/ tick
    \/ Answered \/ InboundConnection \/ ConnectionLost \/ AttemptFails
    \/ HealthChanges \/ DiscoveryChanges
    \/ Clock \/ Restart

Spec == Init /\ [][Next]_vars

AnsweredLate == Answered /\ attempt.age >= ANSWER_MS

\* The main loop ticks, time passes, and an attempt left alone for ANSWER_MS is
\* answered: none need be any sooner.
FairSpec == Spec /\ WF_vars(tick) /\ WF_vars(Clock) /\ WF_vars(AnsweredLate)

-----------------------------------------------------------------------------
\* The fields have their types; the count of dials is bounded by the schedule
\* and not by how long the player has been dialling.
TypeOK ==
    /\ opts \in OptionSets
    /\ pacer \in [since : 0..MAX_RETRY_DELAY_MS, dials : Nat, dialled : BOOLEAN,
                  connected : BOOLEAN]
    /\ pacer.dials > 1 => next_retry_delay_ms[pacer.dials - 2] < MAX_RETRY_DELAY_MS
    /\ last_dial.url \in Servers \cup {Literal, None}
    /\ last_dial.server_id \in Servers \cup {None}
    /\ {remembered, stored, seen} \subseteq Servers \cup {None}
    /\ {remembered_this_connection, switched, healthy} \subseteq BOOLEAN
    /\ discovered \in Candidates
    /\ attempt # None
         => attempt \in [url : Servers \cup {Literal}, age : 0..MAX_RETRY_DELAY_MS]
    /\ connection # None
         => connection \in [server : Servers, via : Servers \cup {Literal, Inbound}]
    /\ {since_dial, since_seen} \subseteq 0..MAX_RETRY_DELAY_MS
    /\ unanswered \in Nat

\* Dials that nothing answers come further and further apart, as the ladder says,
\* however connections flicker between two ticks; and after a connection was seen
\* the first is "not instantly", whoever had made that connection and whenever.
RedialsBackOff ==
    [][TickDials => /\ unanswered > 0 => since_dial >= ladder[unanswered - 1]
                    /\ since_seen >= ladder[0]]_vars

\* What a stream's hooks are told of a connection that came of a dial is the URL
\* of that dial or nothing; of one that came in, nothing that names another server,
\* and nothing at all when no dial was made since a connection was seen to go.
UrlNotContradicted ==
    connection # None /\ url_for(connection.server) # None =>
        IF connection.via = Inbound
        THEN /\ opts.discover => url_for(connection.server) = connection.server
             /\ unanswered > 0 \/ pacer.connected
        ELSE url_for(connection.server) = connection.via

\* The server remembered is the one last seen connected, unless one connection
\* took over from another without a tick in between that saw none.
RemembersTheLast == seen # None /\ ~ switched => remembered = seen

\* What the dialler knows of connections, past and present, between two ticks: a count of
\* dials that is bounded, the last server, and the URL to tell the hooks.
KnowsItsConnections == TypeOK /\ UrlNotContradicted /\ RemembersTheLast

\* Once servers answer, each in ANSWER_MS, and discovery has one to offer, the player
\* is connected in the end and again and again, although every redial cancels
\* the attempt before it and the first ones come sooner than an answer can.
ConnectsInTheEnd ==
    <>[](healthy /\ chosen # no_dial) => []<>(connection # None)
=============================================================================
