---------------------------- MODULE HooksProofs ----------------------------
(***************************************************************************)
(* Proofs about StreamHooks, for every command line, number of streams and  *)
(* length of the drain.                                                     *)
(***************************************************************************)
EXTENDS StreamHooks, TLAPS

\* An event as the callback makes it: with the context of its own stream.
Events == {h \in [kind : opts, stream : 1..MaxStreams, context : 1..MaxStreams] :
             h.context = h.stream}

Child == [hook : Events, alive : BOOLEAN]

\* What the listener knows of the stream, and where main() may be.
StreamInv ==
    /\ opts \in HookSets
    /\ stream \in 0..MaxStreams
    /\ waited \in 0..DrainTicks
    /\ streaming \in BOOLEAN
    /\ streaming => stream_context = stream /\ stream >= 1
    /\ main \in {"loop", "drain", "pump", "flush", "exited"}
    /\ main = "pump" => waited < DrainTicks
    /\ main # "exited" => flushed = None

\* The slot and the table hold events.
HooksTypes ==
    /\ running \in Seq(Child)
    /\ {pending, latest, tried, flushed} \subseteq Events \cup {None}

\* One child; an event waits only for one that runs, and the event not yet tried waits.
SlotInv ==
    /\ main # "exited" => Len(running) <= 1
    /\ main # "exited" /\ pending # None => running # <<>>
    /\ main = "exited" => pending = None
    /\ main = "exited" /\ flushed = None => Len(running) <= 1
    /\ IF pending # None THEN pending = latest ELSE tried = latest

IInv == StreamInv /\ HooksTypes /\ SlotInv

\* A sequence of one element is that element.
LEMMA OfOne ==
    ASSUME NEW S, NEW s \in Seq(S), Len(s) = 1
    PROVE  Append(<<>>, s[1]) = s
<1>1. s[1] \in S
  OBVIOUS
<1>2. Append(<<>>, s[1]) \in Seq(S) /\ Len(Append(<<>>, s[1])) = 1 /\ Append(<<>>, s[1])[1] = s[1]
  BY <1>1
<1>3. DOMAIN s = 1..1 /\ DOMAIN Append(<<>>, s[1]) = 1..1
  BY <1>2
<1>4. s = [i \in 1..1 |-> s[i]]
  BY <1>3
<1>5. Append(<<>>, s[1]) = [i \in 1..1 |-> Append(<<>>, s[1])[i]]
  BY <1>2, <1>3
<1>6. [i \in 1..1 |-> Append(<<>>, s[1])[i]] = [i \in 1..1 |-> s[i]]
  BY <1>2
<1> QED BY <1>4, <1>5, <1>6

\* A length of at most one is zero or one.
LEMMA NoneOrOne ==
    ASSUME NEW S, NEW s \in Seq(S), Len(s) <= 1
    PROVE  Len(s) \in {0, 1}
<1> DEFINE n == Len(s)
<1>1. n \in Nat /\ n <= 1
  OBVIOUS
<1> HIDE DEF n
<1>2. n \in {0, 1}
  BY <1>1
<1> QED BY <1>2 DEF n

\* What Append makes.
LEMMA Appended ==
    ASSUME NEW S, NEW x \in S
    PROVE  /\ Append(<<>>, x) \in Seq(S) /\ Len(Append(<<>>, x)) = 1 /\ Append(<<>>, x) # <<>>
           /\ Len(Append(<<>>, x)) <= 1
           /\ \A s \in Seq(S) : Append(s, x) \in Seq(S)
  OBVIOUS

\* The empty sequence.
LEMMA Nothing ==
    ASSUME NEW S
    PROVE  <<>> \in Seq(S) /\ Len(<<>>) = 0 /\ Len(<<>>) <= 1
  OBVIOUS

\* Selecting the living of at most one child leaves that child or nobody.
LEMMA StillRunning ==
    ASSUME running \in Seq(Child), Len(running) <= 1
    PROVE  still_running \in {<<>>, running}
<1> DEFINE n == Len(running)
<1>1. n \in {0, 1}
  BY NoneOrOne
<1> DEFINE Step(f) == [i \in 0..n |-> IF i = 0 THEN <<>>
                                      ELSE IF running[i].alive
                                           THEN Append(f[i - 1], running[i]) ELSE f[i - 1]]
           g == [i \in 0..n |-> IF i = 0 THEN <<>>
                                ELSE IF running[i].alive THEN running ELSE <<>>]
           kept == CHOOSE f : f = Step(f)
<1>2. n = 1 => Append(<<>>, running[1]) = running
  BY OfOne
<1>3. g = Step(g)
  <2>1. \A i \in 0..n : g[i] = Step(g)[i]
    <3> SUFFICES ASSUME NEW i \in 0..n PROVE g[i] = Step(g)[i]
      OBVIOUS
    <3>1. CASE i = 0
      BY <3>1
    <3>2. CASE i # 0
      <4>1. i = 1 /\ n = 1 /\ i - 1 = 0
        BY <3>2, <1>1
      <4>2. g[0] = <<>>
        BY <1>1
      <4>3. Step(g)[1] = IF running[1].alive THEN Append(g[0], running[1]) ELSE g[0]
        <5> HIDE DEF g
        <5> QED BY <4>1
      <4>4. g[1] = IF running[1].alive THEN running ELSE <<>>
        BY <4>1
      <4> HIDE DEF g, Step
      <4> QED BY <4>1, <4>2, <4>3, <4>4, <1>2
    <3> QED BY <3>1, <3>2
  <2> QED BY <2>1
<1>4. kept = Step(kept)
  <2> HIDE DEF Step, g
  <2> QED BY <1>3
<1>5. kept[0] = <<>>
  <2>1. \A f : Step(f)[0] = <<>>
    BY <1>1
  <2> HIDE DEF Step, kept
  <2> QED BY <1>4, <2>1
<1>6. kept[n] \in {<<>>, running}
  <2>1. CASE n = 0
    BY <2>1, <1>5
  <2>2. CASE n = 1
    <3>1. \A f : Step(f)[n] = IF running[1].alive THEN Append(f[0], running[1]) ELSE f[0]
      BY <2>2
    <3> HIDE DEF Step, kept
    <3> QED BY <1>4, <1>5, <1>2, <2>2, <3>1
  <2> QED BY <1>1, <2>1, <2>2
<1> QED BY <1>6 DEF still_running

-----------------------------------------------------------------------------
(* The calls of HookRunner, on what SlotInv says.                           *)

\* What the callback hands over is an event of the stream it is about.
LEMMA IsEvent ==
    ASSUME NEW kind \in {"start", "stop"}, kind \in opts, opts \in HookSets, NEW n \in 1..MaxStreams
    PROVE  [kind |-> kind, stream |-> n, context |-> n] \in Events
  BY HooksAssumption DEF Events

\* None is no event.
LEMMA NoneIsNoEvent ==
    ASSUME opts \in HookSets
    PROVE  None \notin Events
  BY HooksAssumption DEF Events

\* The child of an event.
LEMMA IsChild ==
    ASSUME NEW hook \in Events
    PROVE  [hook |-> hook, alive |-> TRUE] \in Child
  BY DEF Child

\* The hooks of the command line, and so the events, stay what they are.
LEMMA SameEvents ==
    ASSUME opts' = opts
    PROVE  Events' = Events /\ Child' = Child
  BY DEF Events, Child

\* Before the end, an event given to run() is tried or waits for the hook that runs.
LEMMA RunKeeps ==
    ASSUME HooksTypes, SlotInv, opts \in HookSets, main # "exited", main' # "exited",
           NEW hook \in Events, latest' = hook, run(hook),
           opts' = opts, flushed' = flushed
    PROVE  HooksTypes' /\ SlotInv'
<1>1. CASE running # <<>>
  BY <1>1, NoneIsNoEvent, SameEvents DEF HooksTypes, SlotInv, run
<1>2. CASE running = <<>>
  <2> DEFINE child == [hook |-> hook, alive |-> TRUE]
  <2>1. child \in Child
    BY IsChild
  <2>2. pending = None /\ pending' = None /\ tried' = hook
    BY <1>2 DEF SlotInv, run, spawn
  <2>3. running' = Append(<<>>, child) \/ running' = <<>>
    BY <1>2 DEF run, spawn
  <2> HIDE DEF child
  <2>4. running' \in Seq(Child) /\ Len(running') <= 1
    BY <2>1, <2>3, Appended, Nothing
  <2> QED BY <2>2, <2>4, SameEvents DEF HooksTypes, SlotInv
<1> QED BY <1>1, <1>2

\* Reaping frees the slot for what waits, and for that only.
LEMMA PollKeeps ==
    ASSUME HooksTypes, SlotInv, opts \in HookSets, main # "exited", main' # "exited", poll,
           latest' = latest, opts' = opts, flushed' = flushed
    PROVE  HooksTypes' /\ SlotInv'
<1>1. running \in Seq(Child) /\ Len(running) <= 1
  BY DEF HooksTypes, SlotInv
<1>2. still_running \in {<<>>, running}
  BY <1>1, StillRunning
<1>3. CASE still_running = <<>> /\ pending # None
  <2> DEFINE child == [hook |-> pending, alive |-> TRUE]
  <2>1. pending \in Events /\ pending = latest
    BY <1>3 DEF HooksTypes, SlotInv
  <2>2. child \in Child
    BY <2>1, IsChild
  <2>3. pending' = None /\ tried' = pending
    BY <1>3 DEF poll, spawn
  <2>4. running' = Append(<<>>, child) \/ running' = <<>>
    BY <1>3 DEF poll, spawn
  <2> HIDE DEF child
  <2>5. running' \in Seq(Child) /\ Len(running') <= 1
    BY <2>2, <2>4, Appended, Nothing
  <2> QED BY <2>1, <2>3, <2>5, SameEvents DEF HooksTypes, SlotInv
<1>4. CASE ~ (still_running = <<>> /\ pending # None)
  <2>1. running' = still_running /\ UNCHANGED <<pending, tried>>
    BY <1>4 DEF poll
  <2>2. running' \in Seq(Child) /\ Len(running') <= 1
    BY <2>1, <1>1, <1>2, Nothing
  <2>3. pending' # None => running' # <<>>
    BY <2>1, <1>4
  <2> QED BY <2>1, <2>2, <2>3, SameEvents DEF HooksTypes, SlotInv
<1> QED BY <1>3, <1>4

-----------------------------------------------------------------------------
(* Every step keeps the invariant.                                          *)

\* A program that has just been started has no stream and no hook.
LEMMA InitIInv == Init => IInv
<1> SUFFICES ASSUME Init PROVE IInv
  OBVIOUS
<1>1. StreamInv
  <2>1. stream \in 0..MaxStreams /\ waited \in 0..DrainTicks
    BY HooksAssumption DEF Init
  <2>2. ~ streaming /\ streaming \in BOOLEAN
    BY DEF Init
  <2> QED BY <2>1, <2>2 DEF Init, StreamInv
<1>2. HooksTypes /\ SlotInv
  BY Nothing DEF Init, HooksTypes, SlotInv
<1> QED BY <1>1, <1>2 DEF IInv

\* A start event takes the facts of its own stream.
LEMMA StartKeeps == IInv /\ on_stream_start => IInv'
<1> SUFFICES ASSUME IInv, on_stream_start PROVE IInv'
  OBVIOUS
<1>1. StreamInv'
  BY HooksAssumption DEF IInv, StreamInv, on_stream_start, in_client_loop
<1>2. HooksTypes' /\ SlotInv'
  <2>1. stream' \in 1..MaxStreams /\ main # "exited" /\ main' # "exited" /\ opts \in HookSets
    BY HooksAssumption DEF IInv, StreamInv, on_stream_start, in_client_loop
  <2>2. opts' = opts /\ flushed' = flushed
    BY DEF on_stream_start
  <2>3. CASE "start" \in opts
    <3> DEFINE hook == [kind |-> "start", stream |-> stream', context |-> stream']
    <3>1. hook \in Events
      BY <2>1, <2>3, IsEvent
    <3>2. latest' = hook /\ run(hook)
      BY <2>3 DEF on_stream_start, on_stream_event
    <3> HIDE DEF hook
    <3> QED BY <2>1, <2>2, <3>1, <3>2, RunKeeps DEF IInv
  <2>4. CASE "start" \notin opts
    BY <2>1, <2>2, <2>4, SameEvents
       DEF IInv, HooksTypes, SlotInv, on_stream_start, on_stream_event, hooks
  <2> QED BY <2>3, <2>4
<1> QED BY <1>1, <1>2 DEF IInv

\* A stop event has the facts its stream started on: no stream began in between.
LEMMA EndKeeps == IInv /\ on_stream_end => IInv'
<1> SUFFICES ASSUME IInv, on_stream_end PROVE IInv'
  OBVIOUS
<1>1. StreamInv'
  BY DEF IInv, StreamInv, on_stream_end, in_client_loop
<1>2. HooksTypes' /\ SlotInv'
  <2>1. stream' \in 1..MaxStreams /\ stream_context = stream' /\ main # "exited"
          /\ main' # "exited" /\ opts \in HookSets
    BY HooksAssumption DEF IInv, StreamInv, on_stream_end, in_client_loop
  <2>2. opts' = opts /\ flushed' = flushed
    BY DEF on_stream_end
  <2>3. CASE "stop" \in opts
    <3> DEFINE hook == [kind |-> "stop", stream |-> stream', context |-> stream_context]
    <3>1. hook \in Events
      BY <2>1, <2>3, IsEvent
    <3>2. latest' = hook /\ run(hook)
      BY <2>3 DEF on_stream_end, on_stream_event
    <3> HIDE DEF hook
    <3> QED BY <2>1, <2>2, <3>1, <3>2, RunKeeps DEF IInv
  <2>4. CASE "stop" \notin opts
    BY <2>1, <2>2, <2>4, SameEvents
       DEF IInv, HooksTypes, SlotInv, on_stream_end, on_stream_event, hooks
  <2> QED BY <2>3, <2>4
<1> QED BY <1>1, <1>2 DEF IInv

\* A turn of the loop, or of the drain, reaps and serves.
LEMMA TurnKeeps == IInv /\ (LoopTurn \/ DrainTurn) => IInv'
<1> SUFFICES ASSUME IInv, LoopTurn \/ DrainTurn PROVE IInv'
  OBVIOUS
<1>1. StreamInv'
  BY HooksAssumption DEF IInv, StreamInv, LoopTurn, DrainTurn
<1>2. /\ poll /\ main # "exited" /\ main' # "exited" /\ opts \in HookSets
      /\ latest' = latest /\ opts' = opts /\ flushed' = flushed
  BY DEF IInv, StreamInv, LoopTurn, DrainTurn
<1>3. HooksTypes' /\ SlotInv'
  BY <1>2, PollKeeps DEF IInv
<1> QED BY <1>1, <1>3 DEF IInv

\* Steps that touch neither the slot nor the table.
LEMMA ElseKeeps == IInv /\ (DrainTest \/ Signal \/ UNCHANGED vars) => IInv'
<1> SUFFICES ASSUME IInv, DrainTest \/ Signal \/ UNCHANGED vars PROVE IInv'
  OBVIOUS
<1>1. StreamInv'
  BY HooksAssumption DEF IInv, StreamInv, DrainTest, Signal, vars
<1>2. HooksTypes' /\ SlotInv'
  BY SameEvents DEF IInv, StreamInv, HooksTypes, SlotInv, DrainTest, Signal, vars, hooks
<1> QED BY <1>1, <1>2 DEF IInv

\* flush() leaves nothing waiting.
LEMMA QuitKeeps == IInv /\ Quit => IInv'
<1> SUFFICES ASSUME IInv, Quit PROVE IInv'
  OBVIOUS
<1>0. /\ main = "flush" /\ main' = "exited" /\ flush /\ opts \in HookSets
      /\ latest' = latest /\ opts' = opts
  BY DEF IInv, StreamInv, Quit
<1>1. StreamInv'
  BY <1>0 DEF IInv, StreamInv, Quit
<1>2. HooksTypes' /\ SlotInv'
  <2>1. CASE pending = None
    BY <1>0, <2>1, SameEvents DEF IInv, HooksTypes, SlotInv, flush, hooks
  <2>2. CASE pending # None
    <3> DEFINE child == [hook |-> pending, alive |-> TRUE]
    <3>1. pending \in Events /\ pending = latest /\ running \in Seq(Child)
      BY <2>2 DEF IInv, HooksTypes, SlotInv
    <3>2. child \in Child
      BY <3>1, IsChild
    <3>3. pending' = None /\ tried' = pending /\ flushed' = pending
      BY <2>2, <1>0 DEF flush, spawn
    <3>4. running' = Append(running, child) \/ running' = running
      BY <2>2, <1>0 DEF flush, spawn
    <3> HIDE DEF child
    <3>5. running' \in Seq(Child)
      BY <3>1, <3>2, <3>4, Appended
    <3> QED BY <1>0, <2>2, <3>1, <3>3, <3>5, SameEvents DEF IInv, HooksTypes, SlotInv
  <2> QED BY <2>1, <2>2
<1> QED BY <1>1, <1>2 DEF IInv

\* A hook that finishes stays in the table until it is reaped.
LEMMA HookEndsKeeps == IInv /\ (\E i \in DOMAIN running : HookEnds(i)) => IInv'
<1> SUFFICES ASSUME IInv, NEW i \in DOMAIN running, HookEnds(i) PROVE IInv'
  OBVIOUS
<1>1. StreamInv'
  BY DEF IInv, StreamInv, HookEnds
<1>2. running \in Seq(Child)
  BY DEF IInv, HooksTypes
<1>3. running' \in Seq(Child) /\ Len(running') = Len(running) /\ (running # <<>> => running' # <<>>)
  <2> DEFINE child == [running[i] EXCEPT !.alive = FALSE]
  <2>1. running[i] \in Child
    BY <1>2
  <2>2. child \in Child
    BY <2>1 DEF Child
  <2>3. running' = [running EXCEPT ![i] = child]
    BY DEF HookEnds
  <2> HIDE DEF child
  <2> QED BY <1>2, <2>2, <2>3
<1>4. HooksTypes' /\ SlotInv'
  BY <1>3, SameEvents DEF IInv, HooksTypes, SlotInv, HookEnds
<1> QED BY <1>1, <1>4 DEF IInv

\* Every step keeps the inductive invariant.
LEMMA NextIInv == IInv /\ [Next]_vars => IInv'
  BY StartKeeps, EndKeeps, TurnKeeps, ElseKeeps, QuitKeeps, HookEndsKeeps DEF Next, MainTurn

\* The inductive invariant says what is wanted.
LEMMA Safe == IInv => HooksDoNotMix /\ LastEventWins
<1> SUFFICES ASSUME IInv PROVE HooksDoNotMix /\ LastEventWins
  OBVIOUS
<1>1. Events \subseteq Hook
  BY DEF Events, Hook
<1>2. \A j \in DOMAIN running : running[j] \in Child
  BY DEF IInv, HooksTypes
<1>3. \A j \in DOMAIN running : running[j] \in [hook : Hook, alive : BOOLEAN]
  BY <1>1, <1>2 DEF Child
<1>4. ContextIsItsStreams
  BY <1>2 DEF ContextIsItsStreams, Child, Events
<1>5. TypeOK
  BY <1>1, <1>3 DEF IInv, StreamInv, HooksTypes, TypeOK
<1>6. OneHookAtATime
  BY DEF IInv, SlotInv, OneHookAtATime
<1>7. LastEventWins
  BY DEF IInv, SlotInv, LastEventWins, EndsInTheFinalState, LastEventIsServed
<1> QED BY <1>4, <1>5, <1>6, <1>7 DEF HooksDoNotMix

-----------------------------------------------------------------------------
\* Whatever the streams and however long a hook takes, hooks run one at a time until
\* flush() gives ordering up, each with the context of its own stream.
THEOREM OneAtATime == Spec => []HooksDoNotMix
  BY InitIInv, NextIInv, Safe, PTL DEF Spec

\* An event superseded or delayed is never the last: once nothing runs and nothing waits,
\* and when the program is gone, the last hook tried is the last event's.
THEOREM FinalStateReached == Spec => []LastEventWins
  BY InitIInv, NextIInv, Safe, PTL DEF Spec
=============================================================================
