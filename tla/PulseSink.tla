----------------------------- MODULE PulseSink -----------------------------
(***************************************************************************)
(* PulseAudioSink (src/pulse_sink.{h,cpp}).  The queue is the server's;     *)
(* `server` is PulseConnection: a context that is "ready", one that is      *)
(* "lost", or none at all, mainloop included.  A connect() and an open wait *)
(* for the server with mutex_ held, so each is one step; write() lets go of *)
(* the mutex only where it waits, for a slice at a time and with no         *)
(* predicate, so it may wake at any moment.                                 *)
(***************************************************************************)
EXTENDS OutputSink

PulseInit == SinkInit /\ server \in {"ready", "none"}

mutex_free == writer.pc \in {"idle", "parked"}

ready == server = "ready"

\* A connection that is made anew: whatever fails takes the mainloop down again.
connect(answered) == server' = IF answered THEN "ready" ELSE "none"

close_stream_(s) ==
    [flushed(s) EXCEPT !.state = "none", !.format = None, !.moved = TRUE, !.smooth = TRUE]

\* "refused": before anything is touched; "rejected": pa_stream_new() or
\* connect_playback() failed, the fields already set; "silent": it never started.
Outcomes == {"running", "refused", "rejected", "silent"}

prepared(s, f) == [s EXCEPT !.format = f, !.moved = TRUE]

open_stream_(s, f, outcome) ==
    CASE outcome = "refused"  -> s
      [] outcome = "rejected" -> prepared(s, f)
      [] outcome = "silent"   -> close_stream_(prepared(s, f))
      [] outcome = "running"  -> [prepared(s, f) EXCEPT !.state = "running"]

\* A stream opens at the gain it is meant to be at.
opened_gain(outcome) == IF outcome = "refused" THEN gain ELSE snapped(gain)

-----------------------------------------------------------------------------
ConfigureIgnored ==
    /\ stopping
    /\ UNCHANGED <<stream, server, gain, last_format, recovery_, fruitless>>

\* No server to be reached.
ConfigureAlone(f) ==
    /\ ~ stopping /\ ~ ready
    /\ last_format' = f
    /\ stream' = close_stream_(stream)
    /\ connect(FALSE)
    /\ UNCHANGED <<gain, recovery_, fruitless>>

\* On the connection there is, or on a new one.
ConfigureOpens(f, outcome) ==
    /\ ~ stopping
    /\ last_format' = f
    /\ IF ready THEN UNCHANGED server ELSE connect(TRUE)
    /\ stream' = open_stream_(close_stream_(stream), f, outcome)
    /\ gain' = opened_gain(outcome)
    /\ recovery_' = IF outcome = "running" THEN fresh_recovery ELSE recovery_
    /\ fruitless' = IF outcome = "running" THEN 0 ELSE fruitless

configure(f) ==
    /\ main = "loop" /\ mutex_free
    /\ \/ ConfigureIgnored
       \/ ConfigureAlone(f)
       \/ \E outcome \in Outcomes : ConfigureOpens(f, outcome)
    /\ player_format' = f
    /\ writer' = disowned_writer
    /\ UNCHANGED <<stopping, main>>

bug_clear_keeps_generation ==
    /\ main = "loop" /\ mutex_free
    /\ gain' = snapped(gain)
    /\ stream' = IF stream.state = "none" THEN stream ELSE flushed(stream)
    /\ writer' = disowned_writer
    /\ UNCHANGED <<server, last_format, recovery_, stopping, main, player_format, fruitless>>

\* The flush is ordered ahead of anything written after it.
clear ==
    /\ main = "loop" /\ mutex_free
    /\ gain' = snapped(gain)
    /\ stream' = [(IF stream.state = "none" THEN stream ELSE flushed(stream)) EXCEPT
                     !.moved = TRUE]
    /\ writer' = disowned_writer
    /\ UNCHANGED <<server, last_format, recovery_, stopping, main, player_format, fruitless>>

\* The connection and its mainloop outlive this.
StopClose ==
    /\ main = "stop" /\ mutex_free
    /\ last_format' = None
    /\ stream' = IF stream.state = "none" THEN stream ELSE close_stream_(stream)
    /\ main' = "loop"
    /\ UNCHANGED <<server, gain, recovery_, stopping, writer, player_format, fruitless>>

bug_reconnects_under_the_stream(asked) ==
    /\ connect(FALSE)
    /\ recovery_' = rescan_done(asked, FALSE)
    /\ UNCHANGED <<stream, gain, fruitless>>

\* The server is not back.
StaysAway(asked) ==
    /\ stream' = close_stream_(stream)
    /\ connect(FALSE)
    /\ recovery_' = rescan_done(asked, FALSE)
    /\ UNCHANGED <<gain, fruitless>>

\* The stream is closed, the server reconnected to, and a stream opened on it.
Reconnects(asked, outcome) ==
    /\ connect(TRUE)
    /\ stream' = open_stream_(close_stream_(stream), last_format, outcome)
    /\ gain' = opened_gain(outcome)
    /\ recovery_' = rescan_done(asked, outcome = "running")
    /\ fruitless' = IF outcome = "running" THEN 0 ELSE fruitless

\* As for PortAudioSink, now_ms is 0 before a deadline and past it after.  The reading
\* of stopping_ after the open is never true: stop() is the main loop's too.
poll(now_ms) ==
    /\ main = "loop" /\ pending(recovery_) /\ ~ stopping
    /\ mutex_free
    /\ last_format # None
    /\ LET asked == after_rescan_due(recovery_, now_ms) IN
       \/ /\ ~ rescan_due(recovery_, now_ms)
          /\ recovery_' = asked
          /\ UNCHANGED <<stream, server, gain, fruitless>>
       \/ /\ rescan_due(recovery_, now_ms)
          /\ \/ StaysAway(asked)
             \/ \E outcome \in Outcomes : Reconnects(asked, outcome)
    /\ UNCHANGED <<last_format, stopping, writer, main, player_format>>

-----------------------------------------------------------------------------
bug_failed_is_alive == stream.state # "none" /\ stream.format # None /\ ready

alive == stream.state = "running" /\ stream.format # None /\ ready

\* On the sync task's thread, so never at the price of a reconnect.
reopen_in_place_(frames) ==
    LET asked == after_reopen_due(recovery_) IN
    \/ /\ stopping \/ last_format = None
       /\ discard
       /\ UNCHANGED <<stream, gain, recovery_>>
    \/ /\ ~ stopping /\ last_format # None /\ ~ (reopen_due(recovery_) /\ ready)
       /\ recovery_' = IF reopen_due(recovery_) THEN reopen_done(asked, FALSE) ELSE asked
       /\ discard
       /\ UNCHANGED <<stream, gain>>
    \/ /\ ~ stopping /\ last_format # None /\ reopen_due(recovery_) /\ ready
       /\ \E outcome \in Outcomes :
             /\ stream' = open_stream_(close_stream_(stream), last_format, outcome)
             /\ gain' = opened_gain(outcome)
             /\ recovery_' = reopen_done(asked, outcome = "running")
             /\ IF outcome = "running"
                THEN /\ writer' = [begun(frames, snapped(gain)) EXCEPT !.pc = "opened"]
                     /\ fruitless' = 0
                ELSE discard

write(frames) ==
    /\ writer.pc = "idle" /\ player_format # None
    /\ \/ /\ alive
          /\ writer' = begun(frames, gain)
          /\ stream' = [stream EXCEPT !.moved = FALSE]
          /\ UNCHANGED <<gain, recovery_, fruitless>>
       \/ ~ alive /\ reopen_in_place_(frames)
    /\ UNCHANGED <<server, last_format, stopping, main, player_format>>

\* The latch may have been set while the stream was being reopened.
WriteReopened ==
    /\ writer.pc = "opened"
    /\ IF stopping
       THEN stream' = close_stream_(stream) /\ discard
       ELSE /\ stream' = [stream EXCEPT !.moved = FALSE]
            /\ writer' = [writer EXCEPT !.pc = "loop"]
            /\ UNCHANGED fruitless
    /\ UNCHANGED <<server, gain, last_format, recovery_, stopping, main, player_format>>

\* The server has dropped the stream.
WriteBreaks ==
    /\ writer.pc = "loop" /\ ~ stopping /\ left > 0
    /\ stream.state = "failed"
    /\ finish(stream, TRUE)
    /\ UNCHANGED <<stream, server, last_format, recovery_, stopping, main, player_format>>

WriteWaits ==
    /\ writer.pc = "loop" /\ ~ stopping /\ left > 0
    /\ stream.state = "running" /\ room = 0
    /\ writer' = [writer EXCEPT !.pc = "parked"]
    /\ UNCHANGED <<stream, server, gain, last_format, recovery_, stopping, main, player_format,
                   fruitless>>

\* What is left of this buffer belongs to a stream that is gone, or it does not.
resume ==
    IF stream.state = "none" \/ stream.moved THEN finish(stream, FALSE)
    ELSE writer' = [writer EXCEPT !.pc = "loop"] /\ UNCHANGED <<gain, fruitless>>

WriteWakes ==
    /\ writer.pc = "parked"
    /\ resume
    /\ UNCHANGED <<stream, server, last_format, recovery_, stopping, main, player_format>>

\* The caller's deadline, never before one pass.
WriteTimesOut ==
    /\ \/ writer.pc = "parked"
       \/ writer.pc = "loop" /\ ~ stopping /\ left > 0 /\ writer.done > 0
    /\ finish(stream, FALSE)
    /\ UNCHANGED <<stream, server, last_format, recovery_, stopping, main, player_format>>

-----------------------------------------------------------------------------
\* The server plays what it has been given.
Plays ==
    /\ stream.state = "running" /\ stream.queue # <<>>
    /\ stream' = [stream EXCEPT !.queue = Tail(@)]
    /\ UNCHANGED <<server, gain, last_format, recovery_, stopping, writer, main, player_format,
                   fruitless>>

\* stream_state_cb: the sink goes away, or the whole server with it.
StreamDies ==
    /\ stream.state = "running"
    /\ stream' = [stream EXCEPT !.state = "failed"]
    /\ server' \in {server, "lost"}
    /\ UNCHANGED <<gain, last_format, recovery_, stopping, writer, main, player_format, fruitless>>

WriteStep ==
    \/ WriteReopened \/ (stream.state = "running" /\ WriteLands) \/ WriteReturns
    \/ WriteBreaks \/ WriteWaits \/ WriteWakes

Next ==
    \/ \E f \in Formats : configure(f)
    \/ clear
    \/ \E now_ms \in {0, SINK_RESCAN_MAX_DELAY_MS} : poll(now_ms)
    \/ set_volume \/ StopLatch \/ StopClose
    \/ \E frames \in 1..MaxFrames : write(frames)
    \/ WriteStep \/ WriteTimesOut
    \/ Plays \/ StreamDies

Spec == PulseInit /\ [][Next]_sink

\* "Every path closes the stream before the connection goes": no stream outlives the
\* mainloop it would have to be released on.
StreamHasItsServer == stream.state # "none" => server # "none"
=============================================================================
