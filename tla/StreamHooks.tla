---------------------------- MODULE StreamHooks ----------------------------
(***************************************************************************)
(* The stream hooks: HookRunner (src/hooks.{h,cpp}), the callback main()    *)
(* gives the player listener, main()'s loop, and the shutdown that follows  *)
(* it.  Everything here runs on the main loop; what is concurrent with it   *)
(* is the hooks themselves, child processes that finish when they like or   *)
(* never, the signal that stops the program, and the library, which ends    *)
(* the stream of a disconnected client in its own time.                     *)
(*                                                                          *)
(* A stream is its number, and a context the number of the stream whose     *)
(* facts it holds.                                                          *)
(***************************************************************************)
EXTENDS Naturals, Sequences

CONSTANTS
    HookSets,      \* the command lines: {"start"} for a --hook-start alone, ...
    DrainTicks,    \* SHUTDOWN_DRAIN_MS / LOOP_INTERVAL_MS
    MaxStreams,    \* bound of the streams of a run
    None

ASSUME HooksAssumption ==
    /\ HookSets \subseteq SUBSET {"start", "stop"}
    /\ DrainTicks \in Nat
    /\ MaxStreams \in Nat
    /\ None \notin [kind : {"start", "stop"}, stream : 1..MaxStreams, context : 1..MaxStreams]

VARIABLES
    opts,            \* the hooks given, by kind
    running,         \* running_, and whether each child is still alive
    pending,         \* pending_
    streaming,       \* the listener's streaming_
    stream_context,  \* what the stream now running started on
    g_running,       \* cleared by SIGINT and SIGTERM
    main,            \* where main() is
    waited,          \* turns of the drain
    stream,          \* history: streams started
    latest,          \* history: the last event that has a hook
    tried,           \* history: the last event a spawn was tried for
    flushed          \* history: what flush() spawned

hooks == <<running, pending, tried>>
vars == <<hooks, streaming, stream_context, g_running, main, waited, stream, latest, flushed, opts>>

Init ==
    /\ opts \in HookSets
    /\ running = <<>>
    /\ pending = None
    /\ streaming = FALSE
    /\ stream_context = None
    /\ g_running = TRUE
    /\ main = "loop"
    /\ waited = 0
    /\ stream = 0
    /\ latest = None /\ tried = None /\ flushed = None

-----------------------------------------------------------------------------
(* HookRunner.                                                              *)

\* fork() may fail, which is a warning: the hook is not run.
spawn(hook, others) ==
    /\ tried' = hook
    /\ \/ running' = Append(others, [hook |-> hook, alive |-> TRUE])
       \/ running' = others

\* One at a time; the newest event has the slot.
run(hook) ==
    IF running # <<>>
    THEN /\ pending' = hook
         /\ UNCHANGED <<running, tried>>
    ELSE /\ spawn(hook, running)
         /\ UNCHANGED pending

\* The children that waitpid() does not report, in their order.  (A recursive function:
\* the provers know nothing of SelectSeq.)
still_running ==
    LET kept[i \in 0..Len(running)] ==
            IF i = 0 THEN <<>>
            ELSE IF running[i].alive THEN Append(kept[i - 1], running[i]) ELSE kept[i - 1]
    IN kept[Len(running)]

bug_poll_spawns_beside ==
    IF pending # None
    THEN spawn(pending, still_running) /\ pending' = None
    ELSE running' = still_running /\ UNCHANGED <<pending, tried>>

\* Reap what has finished; then the waiting event has its turn.
poll ==
    IF still_running = <<>> /\ pending # None
    THEN spawn(pending, <<>>) /\ pending' = None
    ELSE running' = still_running /\ UNCHANGED <<pending, tried>>

bug_flush_waits_its_turn ==
    IF pending = None \/ running # <<>>
    THEN UNCHANGED hooks /\ flushed' = None
    ELSE spawn(pending, running) /\ flushed' = pending /\ pending' = None

\* At the end what waits is spawned, beside a hook that has hung if need be.
flush ==
    IF pending = None
    THEN UNCHANGED hooks /\ flushed' = None
    ELSE spawn(pending, running) /\ flushed' = pending /\ pending' = None

-----------------------------------------------------------------------------
(* Stream events, which arrive inside client.loop().                        *)

in_client_loop == main \in {"loop", "pump"}

\* The callback: an event without a command has no hook, and replaces none.
on_stream_event(kind, context) ==
    IF kind \in opts
    THEN LET hook == [kind |-> kind, stream |-> stream', context |-> context] IN
         latest' = hook /\ run(hook)
    ELSE UNCHANGED <<hooks, latest>>

\* on_stream_start(): the facts of the stream are taken now, for both its events.
\* The library may announce a stream again, with other parameters.
on_stream_start ==
    /\ in_client_loop
    /\ stream < MaxStreams
    /\ stream' = stream + 1
    /\ streaming' = TRUE
    /\ stream_context' = stream'
    /\ on_stream_event("start", stream')
    /\ UNCHANGED <<g_running, main, waited, flushed, opts>>

\* The library ends only what it started.
on_stream_end ==
    /\ in_client_loop
    /\ streaming
    /\ streaming' = FALSE
    /\ UNCHANGED <<stream, stream_context>>
    /\ on_stream_event("stop", stream_context)
    /\ UNCHANGED <<g_running, main, waited, flushed, opts>>

-----------------------------------------------------------------------------
(* main().                                                                  *)

\* The end of a turn of the loop, after client.loop().
LoopTurn ==
    /\ main = "loop"
    /\ poll
    /\ IF g_running THEN UNCHANGED main ELSE main' = "drain"
    /\ UNCHANGED <<streaming, stream_context, g_running, waited, stream, latest, flushed, opts>>

\* Disconnected, the loop is pumped until the stream has ended, or for so long.
DrainTest ==
    /\ main = "drain"
    /\ main' = IF streaming /\ waited < DrainTicks THEN "pump" ELSE "flush"
    /\ UNCHANGED <<hooks, streaming, stream_context, g_running, waited, stream, latest, flushed, opts>>

bug_turn_not_counted ==
    /\ main = "pump"
    /\ poll
    /\ main' = "drain"
    /\ UNCHANGED <<streaming, stream_context, g_running, waited, stream, latest, flushed, opts>>

DrainTurn ==
    /\ main = "pump"
    /\ poll
    /\ main' = "drain"
    /\ waited' = waited + 1
    /\ UNCHANGED <<streaming, stream_context, g_running, stream, latest, flushed, opts>>

\* The last of main(): the callback goes and the sink is stopped.
Quit ==
    /\ main = "flush"
    /\ flush
    /\ main' = "exited"
    /\ UNCHANGED <<streaming, stream_context, g_running, waited, stream, latest, opts>>

Signal ==
    /\ g_running
    /\ g_running' = FALSE
    /\ UNCHANGED <<hooks, streaming, stream_context, main, waited, stream, latest, flushed, opts>>

\* A hook finishes, before the program does or after it.
HookEnds(i) ==
    /\ running[i].alive
    /\ running' = [running EXCEPT ![i].alive = FALSE]
    /\ UNCHANGED <<pending, tried, streaming, stream_context, g_running, main, waited, stream,
                   latest, flushed, opts>>

MainTurn == LoopTurn \/ DrainTest \/ DrainTurn \/ Quit

Next ==
    \/ on_stream_start \/ on_stream_end
    \/ MainTurn
    \/ Signal
    \/ \E i \in DOMAIN running : HookEnds(i)

Spec == Init /\ [][Next]_vars

\* client.loop() returns and the loop sleeps for a bounded time.  No hook need
\* ever end, and no stream.
FairSpec == Spec /\ WF_vars(MainTurn)

-----------------------------------------------------------------------------
Hook == [kind : opts, stream : 1..MaxStreams, context : 0..MaxStreams \cup {None}]

\* The slot and the table hold events, and the drain counts no further than its limit.
TypeOK ==
    /\ \A i \in DOMAIN running : running[i] \in [hook : Hook, alive : BOOLEAN]
    /\ {pending, latest, tried, flushed} \subseteq Hook \cup {None}
    /\ main \in {"loop", "drain", "pump", "flush", "exited"}
    /\ waited \in 0..DrainTicks

\* "The hardware should end in the final state, not replay a stale intermediate":
\* with nothing running and nothing waiting, the last hook tried is the last event's.
EndsInTheFinalState == running = <<>> /\ pending = None => tried = latest

\* "Stopping the player switches the amplifier off": whatever hung, by the time
\* the program is gone the last event of all has had its hook tried, after every other.
LastEventIsServed == main = "exited" => tried = latest

\* No hook races another in the scheduler, and the table holds "one child at
\* most", until flush() gives ordering up.
OneHookAtATime == flushed = None => Len(running) <= 1

\* Both events of a stream tell its hooks what that stream started on, although
\* by the time one is spawned the next stream may have started.
ContextIsItsStreams ==
    \A i \in DOMAIN running : running[i].hook.context = running[i].hook.stream

\* Whenever nothing runs and nothing waits, and when the program is gone, the hardware is
\* where the last event wanted it.
LastEventWins == EndsInTheFinalState /\ LastEventIsServed

\* A hook that runs, runs alone and with its own stream's context.
HooksDoNotMix == TypeOK /\ OneHookAtATime /\ ContextIsItsStreams

\* A stream that never ends and a hook that never finishes do not keep the
\* program from exiting.
ShutdownEnds == ~ g_running ~> main = "exited"
=============================================================================
