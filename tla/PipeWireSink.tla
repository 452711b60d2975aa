---------------------------- MODULE PipeWireSink ----------------------------
(***************************************************************************)
(* PipeWireSink (src/pipewire_sink.{h,cpp}).  The queue is a PcmRing, read  *)
(* by the graph's realtime callback, which takes no lock; `server` is the   *)
(* thread loop the stream is created on.  write() waits under mutex_ with a *)
(* predicate and its whole deadline, so a wake-up it misses is a wait.      *)
(* pw_stream_disconnect() does not return while the callback runs, and the  *)
(* callback's accesses to the ring are PcmRing's business: here it is one   *)
(* step.                                                                    *)
(***************************************************************************)
EXTENDS OutputSink

PipeWireInit == SinkInit /\ server = "none"

mutex_free == writer.pc \in {"idle", "parked"}

close_stream_(s) ==
    notify([flushed(s) EXCEPT !.state = "none", !.format = None, !.moved = TRUE, !.smooth = TRUE])

\* "refused": the format or the loop, before anything is touched; "rejected": no
\* properties, stream or connection, the fields already set; "silent": it would
\* not start.
Outcomes == {"running", "refused", "rejected", "silent"}

prepared(s, f) == [flushed(s) EXCEPT !.format = f, !.moved = TRUE]

open_stream_(s, f, outcome) ==
    CASE outcome = "refused"  -> s
      [] outcome = "rejected" -> prepared(s, f)
      [] outcome = "silent"   -> close_stream_(prepared(s, f))
      [] outcome = "running"  -> [prepared(s, f) EXCEPT !.state = "running"]

opened_gain(outcome) == IF outcome = "refused" THEN gain ELSE snapped(gain)

\* start_loop_() is open_stream_()'s: a refusal may come before or after it.
start_loop_(outcome) == server' \in {"ready"} \cup (IF outcome = "refused" THEN {server} ELSE {})

-----------------------------------------------------------------------------
ConfigureIgnored ==
    /\ stopping
    /\ UNCHANGED <<stream, server, gain, last_format, recovery_, fruitless>>

ConfigureOpens(f, outcome) ==
    /\ ~ stopping
    /\ last_format' = f
    /\ stream' = open_stream_(close_stream_(stream), f, outcome)
    /\ start_loop_(outcome)
    /\ gain' = opened_gain(outcome)
    /\ recovery_' = IF outcome = "running" THEN fresh_recovery ELSE recovery_
    /\ fruitless' = IF outcome = "running" THEN 0 ELSE fruitless

configure(f) ==
    /\ main = "loop" /\ mutex_free
    /\ \/ ConfigureIgnored
       \/ \E outcome \in Outcomes : ConfigureOpens(f, outcome)
    /\ player_format' = f
    /\ writer' = disowned_writer
    /\ UNCHANGED <<stopping, main>>

alive == stream.state = "running" /\ stream.format # None

\* A flush: carried out by the callback while one runs, here when none does.  The
\* gain is left where it is: a ramp in progress carries on through a flush.
clear ==
    /\ main = "loop" /\ mutex_free
    /\ LET s == notify([disown(stream) EXCEPT !.moved = TRUE]) IN
       stream' = IF alive THEN [s EXCEPT !.drain = TRUE]
                 ELSE [s EXCEPT !.queue = <<>>, !.drain = FALSE]
    /\ writer' = disowned_writer
    /\ UNCHANGED <<server, gain, last_format, recovery_, stopping, main, player_format, fruitless>>

\* The loop goes whether or not a stream was open: a configure() that failed has
\* left it running.
StopClose ==
    /\ main = "stop" /\ mutex_free
    /\ last_format' = None
    /\ stream' = close_stream_(stream)
    /\ server' = "none"
    /\ main' = "loop"
    /\ UNCHANGED <<gain, recovery_, stopping, writer, player_format, fruitless>>

\* The stream is closed, the loop stopped, and both are made anew.
poll(now_ms) ==
    /\ main = "loop" /\ pending(recovery_) /\ ~ stopping
    /\ mutex_free
    /\ last_format # None
    /\ LET asked == after_rescan_due(recovery_, now_ms) IN
       \/ /\ ~ rescan_due(recovery_, now_ms)
          /\ recovery_' = asked
          /\ UNCHANGED <<stream, server, gain, fruitless>>
       \/ /\ rescan_due(recovery_, now_ms)
          /\ \E outcome \in Outcomes :
                /\ stream' = open_stream_(close_stream_(stream), last_format, outcome)
                /\ server' \in {"ready"} \cup (IF outcome = "refused" THEN {"none"} ELSE {})
                /\ gain' = opened_gain(outcome)
                /\ recovery_' = rescan_done(asked, outcome = "running")
                /\ fruitless' = IF outcome = "running" THEN 0 ELSE fruitless
    /\ UNCHANGED <<last_format, stopping, writer, main, player_format>>

-----------------------------------------------------------------------------
\* The loop is kept: this is the cheap attempt.
reopen_in_place_(frames) ==
    LET asked == after_reopen_due(recovery_) IN
    \/ /\ stopping \/ last_format = None
       /\ discard
       /\ UNCHANGED <<stream, server, gain, recovery_>>
    \/ /\ ~ stopping /\ last_format # None /\ ~ reopen_due(recovery_)
       /\ recovery_' = asked
       /\ discard
       /\ UNCHANGED <<stream, server, gain>>
    \/ /\ ~ stopping /\ last_format # None /\ reopen_due(recovery_)
       /\ \E outcome \in Outcomes :
             /\ stream' = open_stream_(close_stream_(stream), last_format, outcome)
             /\ start_loop_(outcome)
             /\ gain' = opened_gain(outcome)
             /\ recovery_' = reopen_done(asked, outcome = "running")
             /\ IF outcome = "running"
                THEN /\ writer' = [begun(frames, snapped(gain)) EXCEPT !.pc = "opened"]
                     /\ fruitless' = 0
                ELSE discard

write(frames) ==
    /\ writer.pc = "idle" /\ player_format # None
    /\ \/ /\ alive
          /\ writer' = begun(frames, gain)
          /\ stream' = [stream EXCEPT !.moved = FALSE]
          /\ UNCHANGED <<server, gain, recovery_, fruitless>>
       \/ ~ alive /\ reopen_in_place_(frames)
    /\ UNCHANGED <<last_format, stopping, main, player_format>>

\* The latch may have been set while the stream was being reopened.
WriteReopened ==
    /\ writer.pc = "opened"
    /\ IF stopping
       THEN stream' = close_stream_(stream) /\ discard
       ELSE /\ stream' = [stream EXCEPT !.moved = FALSE]
            /\ writer' = [writer EXCEPT !.pc = "loop"]
            /\ UNCHANGED fruitless
    /\ UNCHANGED <<server, gain, last_format, recovery_, stopping, main, player_format>>

\* No room: the predicate of the wait is found false, with the mutex held.
WriteWaits ==
    /\ writer.pc = "loop" /\ ~ stopping
    /\ left > 0 /\ room = 0
    /\ writer' = [writer EXCEPT !.pc = "waiting"]
    /\ UNCHANGED <<stream, server, gain, last_format, recovery_, stopping, main, player_format,
                   fruitless>>

\* The wait lets go of the mutex; what was notified before that is lost.
WriteSleeps ==
    /\ writer.pc = "waiting"
    /\ writer' = [writer EXCEPT !.pc = "parked"]
    /\ stream' = [stream EXCEPT !.notified = FALSE]
    /\ UNCHANGED <<server, gain, last_format, recovery_, stopping, main, player_format, fruitless>>

\* The predicate of the wait.
worth_waking == room > 0 \/ stopping \/ stream.state = "none" \/ stream.moved

resume ==
    /\ worth_waking
    /\ IF stream.state = "none" \/ stream.moved
       THEN finish(stream, FALSE)
       ELSE writer' = [writer EXCEPT !.pc = "loop"] /\ UNCHANGED <<gain, fruitless>>

WriteWakes ==
    /\ writer.pc = "parked" /\ stream.notified
    /\ \/ resume
       \/ /\ ~ worth_waking
          /\ writer' = [writer EXCEPT !.pc = "waiting"]
          /\ UNCHANGED <<gain, fruitless>>
    /\ UNCHANGED <<stream, server, last_format, recovery_, stopping, main, player_format>>

\* A stream that has died does not wake its writer: the deadline does.
WriteTimesOut ==
    /\ writer.pc = "parked"
    /\ \/ resume
       \/ ~ worth_waking /\ finish(stream, stream.state = "failed")
    /\ UNCHANGED <<stream, server, last_format, recovery_, stopping, main, player_format>>

-----------------------------------------------------------------------------
\* stream_process_cb: a drain that was asked for, or the next frame; room is notified.
Plays ==
    /\ stream.state = "running"
    /\ stream' = notify(IF stream.drain
                        THEN [stream EXCEPT !.queue = <<>>, !.drain = FALSE]
                        ELSE [stream EXCEPT !.queue = IF @ = <<>> THEN @ ELSE Tail(@)])
    /\ UNCHANGED <<server, gain, last_format, recovery_, stopping, writer, main, player_format,
                   fruitless>>

\* stream_state_cb: an error, or the node is gone.
StreamDies ==
    /\ stream.state = "running"
    /\ stream' = notify([stream EXCEPT !.state = "failed"])
    /\ UNCHANGED <<server, gain, last_format, recovery_, stopping, writer, main, player_format,
                   fruitless>>

WriteStep ==
    \/ WriteReopened \/ WriteLands \/ WriteReturns
    \/ WriteWaits \/ WriteSleeps \/ WriteWakes

Next ==
    \/ \E f \in Formats : configure(f)
    \/ clear
    \/ \E now_ms \in {0, SINK_RESCAN_MAX_DELAY_MS} : poll(now_ms)
    \/ set_volume \/ StopLatch \/ StopClose
    \/ \E frames \in 1..MaxFrames : write(frames)
    \/ WriteStep \/ WriteTimesOut
    \/ Plays \/ StreamDies

Spec == PipeWireInit /\ [][Next]_sink

\* No stream without the loop its callbacks run on, and no loop once stop() has
\* returned, although a configure() that failed left one running.
LoopHasItsOwner ==
    /\ stream.state # "none" => server = "ready"
    /\ stopping /\ main = "loop" => server = "none"
=============================================================================
