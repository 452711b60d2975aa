----------------------------- MODULE OutputSink -----------------------------
(***************************************************************************)
(* What the PulseAudio, PipeWire and ALSA sinks share (src/audio_sink.h):   *)
(* write() on the sync task, everything else on the main loop, mutex_       *)
(* between the two; a stream that may die, a format to reopen it in, a gain *)
(* that ramps, and the latch of stop().  PulseSink, PipeWireSink and        *)
(* AlsaSink extend this module with what each does.                         *)
(*                                                                          *)
(* Audio is frames, each with the format the player sent it in and whether  *)
(* the player has asked since for it to be dropped.  (PortAudioSink models  *)
(* the same contract down to bytes.)  A frame's gain matters only next to   *)
(* that of the frame before it, which is all that is kept of it.            *)
(***************************************************************************)
EXTENDS SinkRecoveryOps, PcmVolume, Sequences

CONSTANTS
    Formats,       \* what the player asks for
    QueueFrames,   \* frames the device, or the ring before it, will hold
    MaxFrames,     \* bound of the frames of one write()
    RampFrames,    \* frames of a ramp from silence to unity
    Volumes,       \* what the player asks for, of 0 to 100
    None

ASSUME OutputAssumption ==
    /\ QueueFrames \in Nat \ {0}
    /\ MaxFrames \in Nat \ {0}
    /\ RampFrames \in Nat \ {0}    \* 20 ms at the lowest rate are frames
    /\ Volumes \subseteq Nat
    /\ None \notin Formats

VARIABLES
    stream,         \* the stream and its queue
    server,         \* the connection or thread the stream lives on
    gain,           \* current_multiplier_ and target_multiplier_
    last_format,    \* last_format_
    recovery_,
    stopping,       \* stopping_
    writer,         \* the sync task: where write() is, and its locals
    main,           \* the main loop is inside stop()
    player_format,  \* what the player last announced to configure()
    fruitless       \* history: writes in a row that a broken device took nothing of

sink == <<stream, server, gain, last_format, recovery_, stopping, writer, main, player_format,
          fruitless>>

Frame == [format : Formats, stale : BOOLEAN]

NoGain == -1

Stream ==
    [ state  : {"none", "running", "failed"},
      format : Formats \cup {None},     \* rate_, channels_, bits_: may outlive the stream
      queue  : Seq(Frame),
      drain  : BOOLEAN,                 \* the ring's clear request
      moved  : BOOLEAN,                 \* stream_generation_ # what write() captured
      notified : BOOLEAN,               \* a waiter on space_available_ has been woken
      last   : Gain \cup {NoGain},      \* history: the gain of the last frame queued
      smooth : BOOLEAN ]                \* history: no frame was further than a step from it

no_stream == [state |-> "none", format |-> None, queue |-> <<>>, drain |-> FALSE,
              moved |-> TRUE, notified |-> FALSE, last |-> NoGain, smooth |-> TRUE]

\* ramp_step_, which close_stream_() zeroes.
ramp_step_(s) == IF s.format = None THEN 0 ELSE volume_ramp_step(RampFrames)

notify(s) == [s EXCEPT !.notified = TRUE]
flushed(s) == [s EXCEPT !.queue = <<>>, !.drain = FALSE, !.last = NoGain]
disown(s) == [s EXCEPT !.queue = [i \in DOMAIN @ |-> [@[i] EXCEPT !.stale = TRUE]]]
snapped(g) == [g EXCEPT !.current = g.target]

idle_writer == [pc |-> "idle", format |-> None, stale |-> FALSE, length |-> 0, done |-> 0,
                start |-> 0, target |-> 0]
disowned_writer == [writer EXCEPT !.stale = (writer.pc # "idle")]

SinkInit ==
    /\ stream = no_stream
    /\ gain = [current |-> Q32_ONE, target |-> Q32_ONE]
    /\ last_format = None
    /\ recovery_ = fresh_recovery
    /\ stopping = FALSE
    /\ writer = idle_writer
    /\ main = "loop"
    /\ player_format = None
    /\ fruitless = 0

-----------------------------------------------------------------------------
(* The main loop.                                                           *)

\* set_volume() and set_muted() move the target; write() walks to it.
set_volume ==
    /\ main = "loop"
    /\ \E g \in {q32_gain_for(v, m) : v \in Volumes, m \in BOOLEAN} :
          gain' = [gain EXCEPT !.target = g]
    /\ UNCHANGED <<stream, server, last_format, recovery_, stopping, writer, main, player_format,
                   fruitless>>

\* stop() latches and notifies before it asks for the mutex.
StopLatch ==
    /\ main = "loop" /\ ~ stopping
    /\ stopping' = TRUE
    /\ stream' = notify(stream)
    /\ main' = "stop"
    /\ UNCHANGED <<server, gain, last_format, recovery_, writer, player_format, fruitless>>

-----------------------------------------------------------------------------
(* The sync task.                                                           *)

\* With no stream to be had the audio is swallowed: the writer is idle again.
discard ==
    /\ writer' = idle_writer
    /\ fruitless' = 0

\* The buffer is scaled once, from the gain of now to the target of now.
begun(frames, g) ==
    [idle_writer EXCEPT !.pc = "loop", !.format = player_format, !.length = frames,
                        !.start = g.current, !.target = g.target]

bug_commits_what_it_scaled(s, broken) ==
    /\ gain' = [gain EXCEPT !.current =
                   ramped_gain(writer.start, writer.target, ramp_step_(s), writer.length)]
    /\ writer' = idle_writer
    /\ fruitless' = IF broken /\ writer.done = 0 THEN IF fruitless < 2 THEN fruitless + 1 ELSE 2
                    ELSE 0

\* The ramp is committed by what was written, on whatever stream there is now.
finish(s, broken) ==
    /\ gain' = [gain EXCEPT !.current =
                   ramped_gain(writer.start, writer.target, ramp_step_(s), writer.done)]
    /\ writer' = idle_writer
    /\ fruitless' = IF broken /\ writer.done = 0 THEN IF fruitless < 2 THEN fruitless + 1 ELSE 2
                    ELSE 0

left == writer.length - writer.done
room == QueueFrames - Len(stream.queue)

near(a, b) == distance(a, b) <= volume_ramp_step(RampFrames)

\* n more frames of the buffer on the stream's queue.
queued(s, n) ==
    LET gains == apply_volume_ramp(writer.length, writer.start, writer.target, ramp_step_(s))
    IN  [s EXCEPT !.queue = @ \o [i \in 1..n |-> [format |-> writer.format,
                                                  stale |-> writer.stale]],
                  !.last = gains[writer.done + n],
                  !.smooth = @ /\ (s.last # NoGain => near(s.last, gains[writer.done + 1]))]

\* One turn of the loop with room: what fits lands.
WriteLands ==
    /\ writer.pc = "loop" /\ ~ stopping
    /\ room > 0 /\ left > 0
    /\ LET n == IF left < room THEN left ELSE room IN
       /\ stream' = queued(stream, n)
       /\ writer' = [writer EXCEPT !.done = @ + n]
    /\ UNCHANGED <<server, gain, last_format, recovery_, stopping, main, player_format, fruitless>>

bug_returns_only_when_done ==
    /\ writer.pc = "loop"
    /\ left = 0
    /\ finish(stream, FALSE)
    /\ UNCHANGED <<stream, server, last_format, recovery_, stopping, main, player_format>>

\* All of it is written, or shutdown has begun.
WriteReturns ==
    /\ writer.pc = "loop"
    /\ stopping \/ left = 0
    /\ finish(stream, FALSE)
    /\ UNCHANGED <<stream, server, last_format, recovery_, stopping, main, player_format>>

-----------------------------------------------------------------------------
\* The fields, locals and histories have their types.
SinkTypeOK ==
    /\ stream \in Stream
    /\ gain \in [current : Gain, target : Gain]
    /\ {last_format, player_format} \subseteq Formats \cup {None}
    /\ recovery_ \in Recovery
    /\ stopping \in BOOLEAN
    /\ writer.pc \in {"idle", "opened", "loop", "waiting", "parked"}
    /\ writer.done \in 0..writer.length /\ {writer.start, writer.target} \subseteq Gain
    /\ main \in {"loop", "stop"}
    /\ fruitless \in 0..2

\* What is queued for the device was sent in the stream's own format, and is nothing
\* the player has asked to be dropped, by a clear() or by the next configure(): a
\* write() that waited does not go on with a buffer whose stream is gone.
PlaysWhatItWasGiven ==
    \A i \in DOMAIN stream.queue :
        /\ stream.queue[i].format = stream.format
        /\ stream.queue[i].stale => stream.drain

\* The queue a device plays from, with the bookkeeping around it.
QueueIsItsStreams == SinkTypeOK /\ PlaysWhatItWasGiven

\* No two frames next to each other on a stream differ by more than a step of the
\* ramp, whatever part of each buffer the device took, and whatever stream was opened
\* or flushed while a write() was out waiting with a ramp in its hands.
GainNeverJumps == stream.smooth

\* Once stop() has returned no thread opens a stream again.
NothingOpenAfterStop == stopping /\ main = "loop" => stream.state = "none"

\* "write() discards instead of returning 0 forever and spinning the sync task": a
\* device that is gone takes nothing of one write() at most.
DeadDeviceDiscards == fruitless <= 1
=============================================================================
