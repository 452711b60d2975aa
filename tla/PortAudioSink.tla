--------------------------- MODULE PortAudioSink ---------------------------
(***************************************************************************)
(* PortAudioSink (src/portaudio_sink.{h,cpp}): four threads around one      *)
(* output stream.                                                           *)
(*                                                                          *)
(*   main loop      configure, clear, poll, set_volume, stop                *)
(*   sync task      write, which may reopen a stream that has died          *)
(*   audio thread   pa_callback, which takes no lock                        *)
(*   the world      devices that die, and names that stop resolving         *)
(*                                                                          *)
(* A critical section of mutex_ is one step, except where another thread    *)
(* can get in between: write() is cut at every reading of stopping_, which  *)
(* stop() latches without the mutex, and at its waits; the callback is cut  *)
(* between its read of the ring and its notify.  The ring is the FIFO that  *)
(* PcmRing implements, SinkRecovery is its operators.                       *)
(*                                                                          *)
(* Audio is bytes marked with the format the player sent them in and        *)
(* whether the player has since asked for them to be dropped.               *)
(***************************************************************************)
EXTENDS SinkRecoveryOps, Sequences

CONSTANTS
    Formats,       \* what the player asks for
    FrameBytes,    \* bytes of one frame of each
    RingFrames,    \* frames the ring holds: ring_capacity_()
    MaxFrames,     \* bound of the frames of one write() and one callback
    None

ASSUME SinkAssumption ==
    /\ FrameBytes \in [Formats -> Nat \ {0}]
    /\ RingFrames \in Nat \ {0}
    /\ MaxFrames \in Nat \ {0}
    /\ None \notin Formats

VARIABLES
    sink,           \* the stream, and what is written only while it cannot run
    last_format,    \* last_format_
    recovery,       \* recovery_
    stopping,       \* stopping_
    writer,         \* the sync task: where write() is, and its locals
    callback,       \* the audio thread: where pa_callback() is, and its locals
    main,           \* the main loop is inside stop()
    player_format,  \* what the player last announced to configure()
    written,        \* history: how the last write() ended
    tries           \* history: reopens and rescans since recovery_ was refilled

vars == <<sink, last_format, recovery, stopping, writer, callback, main, player_format,
          written, tries>>

-----------------------------------------------------------------------------
(* The stream.  stream_generation_ is compared with what a waiting write()  *)
(* captured and nothing else, so all there is of it is whether it moved.    *)

Byte == [format : Formats, stale : BOOLEAN]

Sink ==
    [ stream          : {"none", "running", "dead"},
      format          : Formats \cup {None},    \* rate_, channels_, bits_
      ring            : Seq(Byte),
      clear_requested : BOOLEAN,
      moved           : BOOLEAN,   \* stream_generation_ # the captured one
      notified        : BOOLEAN,   \* a waiter on space_available_ has been woken
      settled         : BOOLEAN,   \* current_multiplier_ = target_multiplier_
      touched         : BOOLEAN,   \* history: the gain was set since the stream started
      stranded        : BOOLEAN ]  \* history: a configure() gave up beside the old stream

no_stream ==
    [ stream |-> "none", format |-> None, ring |-> <<>>, clear_requested |-> FALSE,
      moved |-> TRUE, notified |-> FALSE, settled |-> TRUE, touched |-> FALSE,
      stranded |-> FALSE ]

frame_bytes(f) == IF f = None THEN 0 ELSE FrameBytes[f]
bytes_per_frame(s) == frame_bytes(s.format)
free_space(s) == RingFrames * bytes_per_frame(s) - Len(s.ring)

notify(s) == [s EXCEPT !.notified = TRUE]
drop(s) == [s EXCEPT !.ring = <<>>, !.clear_requested = FALSE]

\* The player has asked for what is buffered to be dropped.
disown(s) == [s EXCEPT !.ring = [i \in DOMAIN @ |-> [@[i] EXCEPT !.stale = TRUE]]]

bug_close_wakes_nobody(s) ==
    [drop(s) EXCEPT !.stream = "none", !.format = None, !.moved = TRUE, !.stranded = FALSE]

\* Abort, close, forget the format, empty the ring, wake a parked write().
close_stream_(s) ==
    notify([drop(s) EXCEPT !.stream = "none", !.format = None, !.moved = TRUE,
                           !.stranded = FALSE])

\* Before the stream runs: the format, the generation and the gain.
prepare(s, f) ==
    [s EXCEPT !.format = f, !.moved = TRUE, !.settled = TRUE, !.touched = FALSE]

Outcomes == {"running", "failed", "refused"}

\* "refused": the device cannot be asked; "failed": opening or starting failed.
open_stream_(s, f, outcome) ==
    CASE outcome = "refused" -> s
      [] outcome = "failed"  -> close_stream_(prepare(s, f))
      [] outcome = "running" -> [drop(prepare(s, f)) EXCEPT !.stream = "running"]

\* Same device, same format: abort, empty the ring, start again.
restart_stream_(s) ==
    [drop(prepare(s, s.format)) EXCEPT !.stream = "running", !.stranded = FALSE]

-----------------------------------------------------------------------------
idle_writer == [pc |-> "idle", format |-> None, stale |-> FALSE, stranded |-> FALSE,
                length |-> 0, left |-> 0, bpf |-> 0]
idle_callback == [busy |-> FALSE, heard |-> {}, bytes |-> 0, bpf |-> 0]

Init ==
    /\ sink = no_stream
    /\ last_format = None
    /\ recovery = fresh_recovery
    /\ stopping = FALSE
    /\ writer = idle_writer
    /\ callback = idle_callback
    /\ main = "loop"
    /\ player_format = None
    /\ written = [count |-> 0, length |-> 0, format |-> None, discarded |-> FALSE,
                  stranded |-> FALSE]
    /\ tries = [reopens |-> 0, rescans |-> 0]

mutex_free == writer.pc \in {"idle", "parked"}

\* Pa_AbortStream() and Pa_CloseStream() return once the callback has.
callback_done == ~ callback.busy

-----------------------------------------------------------------------------
(* The main loop.                                                           *)

disowned_writer == [writer EXCEPT !.stale = (writer.pc # "idle")]

bug_no_refill == UNCHANGED <<recovery, tries>>

\* Both attempts go back in hand.
refill == recovery' = fresh_recovery /\ tries' = [reopens |-> 0, rescans |-> 0]

\* A stream start during shutdown opens nothing.
ConfigureIgnored(f) ==
    /\ stopping
    /\ UNCHANGED <<sink, last_format, recovery, tries>>

\* No device by that name now: the old stream, if any, is left as it was.
ConfigureUnresolved(f) ==
    /\ ~ stopping
    /\ last_format' = f
    /\ sink' = [disown(sink) EXCEPT !.stranded = (sink.stream # "none")]
    /\ UNCHANGED <<recovery, tries>>

\* The device and the format are those of the open stream.
ConfigureReuses(f) ==
    /\ ~ stopping
    /\ sink.stream # "none" /\ sink.format = f
    /\ callback_done
    /\ last_format' = f
    /\ sink' = restart_stream_(sink)
    /\ refill

bug_opens_in_shutdown(f, outcome) ==
    /\ callback_done
    /\ last_format' = f
    /\ sink' = open_stream_(close_stream_(sink), f, outcome)
    /\ IF outcome = "running" THEN refill ELSE UNCHANGED <<recovery, tries>>

\* They are not, or the stream would not restart.
ConfigureOpens(f, outcome) ==
    /\ ~ stopping
    /\ callback_done
    /\ last_format' = f
    /\ sink' = open_stream_(close_stream_(sink), f, outcome)
    /\ IF outcome = "running" THEN refill ELSE UNCHANGED <<recovery, tries>>

configure(f) ==
    /\ main = "loop" /\ mutex_free
    /\ \/ ConfigureIgnored(f)
       \/ ConfigureUnresolved(f)
       \/ ConfigureReuses(f)
       \/ \E outcome \in Outcomes : ConfigureOpens(f, outcome)
    /\ player_format' = f
    /\ writer' = disowned_writer
    /\ UNCHANGED <<stopping, callback, main, written>>

bug_clear_keeps_generation ==
    /\ main = "loop" /\ mutex_free
    /\ sink' = IF sink.stream = "running"
               THEN [disown(sink) EXCEPT !.clear_requested = TRUE]
               ELSE drop(sink)
    /\ writer' = disowned_writer
    /\ UNCHANGED <<last_format, recovery, stopping, callback, main, player_format,
                   written, tries>>

\* A flush: deferred to the callback while one runs, done here when none does.
clear ==
    /\ main = "loop" /\ mutex_free
    /\ LET s == [disown(sink) EXCEPT !.moved = TRUE] IN
       sink' = IF sink.stream = "running"
               THEN [s EXCEPT !.clear_requested = TRUE]
               ELSE drop(s)
    /\ writer' = disowned_writer
    /\ UNCHANGED <<last_format, recovery, stopping, callback, main, player_format,
                   written, tries>>

\* Nothing can be stopping by the time poll() has its stream open: stop() is
\* the main loop's too.  The deadline is compared with what an earlier poll()
\* stamped and nothing else: now_ms is 0 before the delay and past it after.
poll(now_ms) ==
    /\ main = "loop"
    /\ pending(recovery) /\ ~ stopping
    /\ mutex_free
    /\ last_format # None
    /\ IF rescan_due(recovery, now_ms)
       THEN /\ callback_done
            /\ recovery' = rescan_done(after_rescan_due(recovery, now_ms), TRUE)
            /\ tries' = [tries EXCEPT !.rescans = @ + 1]
            /\ \/ sink' = close_stream_(sink)   \* no PortAudio, or no such device
               \/ \E outcome \in Outcomes :
                     sink' = open_stream_(close_stream_(sink), last_format, outcome)
       ELSE /\ recovery' = after_rescan_due(recovery, now_ms)
            /\ UNCHANGED <<sink, tries>>
    /\ UNCHANGED <<last_format, stopping, writer, callback, main, player_format, written>>

\* set_volume() and set_muted() move the target, which the callback walks to.
set_volume ==
    /\ main = "loop"
    /\ \E settled \in BOOLEAN :
          sink' = [sink EXCEPT !.settled = settled, !.touched = TRUE]
    /\ UNCHANGED <<last_format, recovery, stopping, writer, callback, main, player_format,
                   written, tries>>

\* stop() latches and notifies before it asks for the mutex.
StopLatch ==
    /\ main = "loop" /\ ~ stopping
    /\ stopping' = TRUE
    /\ sink' = notify(sink)
    /\ main' = "stop"
    /\ UNCHANGED <<last_format, recovery, writer, callback, player_format, written, tries>>

StopClose ==
    /\ main = "stop" /\ mutex_free
    /\ callback_done
    /\ last_format' = None
    /\ sink' = IF sink.stream = "none" THEN sink ELSE close_stream_(sink)
    /\ main' = "loop"
    /\ UNCHANGED <<recovery, stopping, writer, callback, player_format, written, tries>>

-----------------------------------------------------------------------------
(* The sync task.                                                           *)

return(count, w, discarded) ==
    /\ written' = [count |-> count, length |-> w.length, format |-> w.format,
                   discarded |-> discarded, stranded |-> w.stranded]
    /\ writer' = idle_writer

\* With no stream to be had the audio is swallowed, in whole frames where the
\* frame is known.
discard(w, s) ==
    LET frame == IF bytes_per_frame(s) # 0 THEN bytes_per_frame(s) ELSE frame_bytes(last_format)
    IN  return(IF frame = 0 THEN w.length ELSE w.length - (w.length % frame), w, TRUE)

\* The stream this buffer is for is fixed here.
feed(w, s) ==
    LET usable == w.length - (w.length % bytes_per_frame(s)) IN
    IF usable = 0
    THEN /\ sink' = s
         /\ return(0, w, FALSE)
    ELSE /\ sink' = [s EXCEPT !.moved = FALSE]
         /\ writer' = [w EXCEPT !.pc = "loop", !.left = usable, !.bpf = bytes_per_frame(s),
                               !.stranded = s.stranded]
         /\ UNCHANGED written

can_reopen == sink.stream # "none" /\ ~ stopping /\ last_format # None

\* reopen_in_place_() on the sync task's thread, under the mutex.
reopen_in_place_(w) ==
    LET asked == after_reopen_due(recovery) IN
    \/ /\ ~ can_reopen
       /\ discard(w, sink)
       /\ UNCHANGED <<sink, recovery, tries>>
    \/ /\ can_reopen /\ ~ reopen_due(recovery)
       /\ recovery' = asked
       /\ discard(w, sink)
       /\ UNCHANGED <<sink, tries>>
    \/ /\ can_reopen /\ reopen_due(recovery)   \* the device's name does not resolve
       /\ recovery' = reopen_done(asked, FALSE)
       /\ discard(w, sink)
       /\ UNCHANGED <<sink, tries>>
    \/ /\ can_reopen /\ reopen_due(recovery)
       /\ \E outcome \in Outcomes :
             LET s == open_stream_(close_stream_(sink), last_format, outcome) IN
             /\ sink' = s
             /\ recovery' = reopen_done(asked, outcome = "running")
             /\ tries' = [tries EXCEPT !.reopens = @ + 1]
             /\ IF outcome = "running"
                THEN writer' = [w EXCEPT !.pc = "opened"] /\ UNCHANGED written
                ELSE discard(w, s)

\* write() takes the mutex and looks for a stream to feed.
write(frames) ==
    /\ writer.pc = "idle"
    /\ player_format # None
    /\ LET w == [idle_writer EXCEPT !.pc = "begun", !.format = player_format,
                                    !.length = frames * FrameBytes[player_format],
                                    !.stranded = sink.stranded]
       IN  IF sink.stream = "running"
           THEN feed(w, sink) /\ UNCHANGED <<recovery, tries>>
           ELSE reopen_in_place_(w)
    /\ UNCHANGED <<last_format, stopping, callback, main, player_format>>

\* The latch may have been set while the stream was being reopened.
WriteReopened ==
    /\ writer.pc = "opened"
    /\ IF stopping
       THEN callback_done /\ sink' = close_stream_(sink) /\ discard(writer, close_stream_(sink))
       ELSE feed(writer, sink)
    /\ UNCHANGED <<last_format, recovery, stopping, callback, main, player_format, tries>>

done == writer.length - (writer.length % writer.bpf) - writer.left

\* The room one turn of the loop may use: a partial write is cut to whole frames.
room ==
    IF free_space(sink) < writer.left
    THEN free_space(sink) - (free_space(sink) % writer.bpf)
    ELSE free_space(sink)

WriteStops ==
    /\ writer.pc = "loop"
    /\ stopping
    /\ return(done, writer, FALSE)
    /\ UNCHANGED <<sink, last_format, recovery, stopping, callback, main, player_format, tries>>

\* One turn of the loop with room in the ring.
WriteLands ==
    /\ writer.pc = "loop"
    /\ ~ stopping
    /\ room > 0
    /\ LET n == IF writer.left < room THEN writer.left ELSE room IN
       /\ sink' = [sink EXCEPT !.ring =
                      @ \o [i \in 1..n |-> [format |-> writer.format, stale |-> writer.stale]]]
       /\ IF n = writer.left
          THEN return(done + n, writer, FALSE)
          ELSE writer' = [writer EXCEPT !.left = @ - n] /\ UNCHANGED written
    /\ UNCHANGED <<last_format, recovery, stopping, callback, main, player_format, tries>>

\* No room: the predicate of the wait is found false, with the mutex held.
WriteWaits ==
    /\ writer.pc = "loop"
    /\ ~ stopping
    /\ room = 0
    /\ writer' = [writer EXCEPT !.pc = "waiting"]
    /\ UNCHANGED <<sink, last_format, recovery, stopping, callback, main, player_format,
                   written, tries>>

\* The wait lets go of the mutex; what was notified before that is lost.
WriteSleeps ==
    /\ writer.pc = "waiting"
    /\ writer' = [writer EXCEPT !.pc = "parked"]
    /\ sink' = [sink EXCEPT !.notified = FALSE]
    /\ UNCHANGED <<last_format, recovery, stopping, callback, main, player_format, written, tries>>

\* The predicate of the wait.
worth_waking == \/ free_space(sink) >= writer.bpf
                \/ stopping
                \/ sink.stream = "none"
                \/ sink.moved

bug_resume_any_stream ==
    /\ worth_waking
    /\ IF sink.stream = "none"
       THEN return(done, writer, FALSE)
       ELSE writer' = [writer EXCEPT !.pc = "loop"] /\ UNCHANGED written

\* Awake with the mutex: a buffer whose stream has gone is not written any further.
resume ==
    /\ worth_waking
    /\ IF sink.stream = "none" \/ sink.moved
       THEN return(done, writer, FALSE)
       ELSE writer' = [writer EXCEPT !.pc = "loop"] /\ UNCHANGED written

WriteWakes ==
    /\ writer.pc = "parked"
    /\ sink.notified
    /\ \/ resume
       \/ /\ ~ worth_waking
          /\ writer' = [writer EXCEPT !.pc = "waiting"]
          /\ UNCHANGED written
    /\ UNCHANGED <<sink, last_format, recovery, stopping, callback, main, player_format, tries>>

\* The deadline passes; a predicate that has come true meanwhile still counts.
WriteTimesOut ==
    /\ writer.pc = "parked"
    /\ \/ resume
       \/ ~ worth_waking /\ return(done, writer, FALSE)
    /\ UNCHANGED <<sink, last_format, recovery, stopping, callback, main, player_format, tries>>

-----------------------------------------------------------------------------
(* The audio thread, and the device.                                        *)

\* pa_callback() reads the ring: a drain that was asked for, or up to n frames.
CallbackReads(n) ==
    /\ sink.stream = "running"
    /\ ~ callback.busy
    /\ LET wanted == n * bytes_per_frame(sink)
           bytes  == IF sink.clear_requested THEN 0
                     ELSE IF wanted < Len(sink.ring) THEN wanted ELSE Len(sink.ring)
       IN  /\ callback' = [busy |-> TRUE, bytes |-> bytes, bpf |-> bytes_per_frame(sink),
                           heard |-> {sink.ring[i] : i \in 1..bytes}]
           /\ sink' = IF sink.clear_requested
                      THEN drop(sink)
                      ELSE [sink EXCEPT !.ring = SubSeq(@, bytes + 1, Len(@))]
    /\ UNCHANGED <<last_format, recovery, stopping, writer, main, player_format, written, tries>>

\* It walks the gain, wakes the writer and reports whole frames played.
CallbackReturns ==
    /\ callback.busy
    /\ callback' = idle_callback
    /\ \E settled \in {sink.settled, TRUE} : sink' = notify([sink EXCEPT !.settled = settled])
    /\ UNCHANGED <<last_format, recovery, stopping, writer, main, player_format, written, tries>>

\* The device goes away, and the callback never runs again.
DeviceDies ==
    /\ sink.stream = "running" /\ ~ callback.busy
    /\ sink' = [sink EXCEPT !.stream = "dead"]
    /\ UNCHANGED <<last_format, recovery, stopping, writer, callback, main, player_format,
                   written, tries>>

-----------------------------------------------------------------------------
WriteStep ==
    \/ WriteReopened
    \/ WriteStops \/ WriteLands \/ WriteWaits \/ WriteSleeps \/ WriteWakes

Next ==
    \/ \E f \in Formats : configure(f)
    \/ clear
    \/ \E now_ms \in {0, SINK_RESCAN_DELAY_MS} : poll(now_ms)
    \/ set_volume
    \/ StopLatch \/ StopClose
    \/ \E frames \in 1..MaxFrames : write(frames)
    \/ WriteStep
    \/ WriteTimesOut
    \/ \E n \in 1..MaxFrames : CallbackReads(n)
    \/ CallbackReturns
    \/ DeviceDies

Spec == Init /\ [][Next]_vars

\* Every thread is scheduled, and stop() gets the mutex in the end although
\* write() may be called again and again.  No deadline need ever pass, and no
\* callback need ever run again.
FairSpec ==
    /\ Spec
    /\ WF_vars(WriteStep)
    /\ SF_vars(StopClose)
    /\ WF_vars(CallbackReturns)

-----------------------------------------------------------------------------
\* The fields, locals and histories have their types, with room never negative.
TypeOK ==
    /\ sink \in Sink
    /\ last_format \in Formats \cup {None} /\ player_format \in Formats \cup {None}
    /\ recovery \in Recovery
    /\ stopping \in BOOLEAN
    /\ writer.pc \in {"idle", "opened", "loop", "waiting", "parked"}
    /\ {writer.length, writer.left, writer.bpf} \subseteq Nat
    /\ callback \in [busy : BOOLEAN, heard : SUBSET Byte, bytes : Nat, bpf : Nat]
    /\ main \in {"loop", "stop"}
    /\ tries \in [reopens : Nat, rescans : Nat]
    /\ free_space(sink) \in Nat

\* "Everything the callback reads is mutated only while the callback provably
\* cannot run": a callback in progress finds the stream it began with.
CallbackSeesOneStream ==
    callback.busy => sink.stream = "running" /\ bytes_per_frame(sink) = callback.bpf

\* No stream plays bytes of another format: a write() that waited does not
\* "feed those bytes to the new stream, using the frame size of the old one".
AudioInItsFormat ==
    ~ sink.stranded => \A i \in DOMAIN sink.ring : sink.ring[i].format = sink.format

\* "No remainder byte is ever left in the ring", nor in what a callback reports.
WholeFramesBuffered ==
    sink.stream # "none" /\ ~ sink.stranded
      => /\ Len(sink.ring) % bytes_per_frame(sink) = 0
         /\ callback.busy => callback.bytes % callback.bpf = 0

\* What the player asked to be dropped, by a clear() or by the next stream's
\* configure(), is never heard again, whoever held it at the time: the ring, or
\* a write() parked with the rest of its buffer.
NothingDroppedIsHeard ==
    ~ sink.stranded => \A b \in callback.heard : ~ b.stale

\* One reopen on the sync task and one rescan on the main loop per stream that
\* really ran, however often the device dies or configure() fails in between.
OneTryOfEach == tries.reopens <= 1 /\ tries.rescans <= 1

\* "Nothing playing is torn down by" a rescan: it is only ever made on a stream
\* that has died, although it was asked for ticks ago by another thread.
RescanTearsNothingDown ==
    [][tries'.rescans > tries.rescans => sink.stream # "running"]_vars

\* Once stop() has returned no thread opens a device again.
NoDeviceAfterStop == stopping /\ main = "loop" => sink.stream = "none"

\* "A stream opens at the gain it is meant to be at, never ramping up to it":
\* a gain still moving has been set since the stream started.
OpensAtItsGain == sink.stream # "none" /\ ~ sink.settled => sink.touched

\* With no stream to be had all of the audio is taken: nothing is ever handed
\* back to a sync task that would only bring it again.
DiscardTakesAll ==
    written.discarded /\ ~ written.stranded => written.count = written.length

\* One stream at a time, for the audio thread and for what is in the ring: its storage is
\* the one the callback began with, its bytes are of its format and whole frames of it,
\* and its gain is where it was meant to open.
OneStreamAtATime ==
    TypeOK /\ CallbackSeesOneStream /\ AudioInItsFormat /\ WholeFramesBuffered /\ OpensAtItsGain

\* No byte lives on where it should not: none that was dropped is heard, and none that
\* has nowhere to go is handed back.
DroppedIsGone == NothingDroppedIsHeard /\ DiscardTakesAll

\* The two threads that open streams, neither knowing of the other's attempts, open no
\* more than one each, and none after stop().
OpensAreBounded == OneTryOfEach /\ NoDeviceAfterStop

\* A write() parked on a full ring bails out of a shutdown without its deadline
\* and without the device, even when the notification of the latch is lost.
StopReleasesWrite == stopping /\ writer.pc = "parked" ~> writer.pc # "parked"
=============================================================================
