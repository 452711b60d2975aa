------------------------------ MODULE AlsaSink ------------------------------
(***************************************************************************)
(* AlsaAudioSink (src/alsa_sink.{h,cpp}).  The queue is the card's ring.    *)
(* write() holds device_mutex_ from its first line to its last, its waits   *)
(* included, so nothing is interleaved with it but the latch of stop() and  *)
(* the card; there is no rescan, no remembered format and no generation.    *)
(***************************************************************************)
EXTENDS OutputSink

AlsaInit == SinkInit /\ server = "none"

mutex_free == writer.pc = "idle"

closed == no_stream
opened(f) == [no_stream EXCEPT !.state = "running", !.format = f]

\* Dropped and made ready again, unless the card will not have it.
restarted(s, prepared) ==
    [flushed(s) EXCEPT !.state = IF prepared THEN "running" ELSE "failed"]

\* The format of the stream that has ended is restarted on the open handle; another,
\* or a restart that fails, is a close and an open.  There is no test of stopping_:
\* the main loop makes no call after stop().
configure(f) ==
    /\ main = "loop" /\ ~ stopping /\ mutex_free
    /\ gain' = snapped(gain)
    /\ \/ /\ stream.state # "none" /\ stream.format = f
          /\ stream' = restarted(stream, TRUE)
       \/ stream' \in {closed, opened(f)}
    /\ player_format' = f
    /\ fruitless' = 0
    /\ UNCHANGED <<server, last_format, recovery_, stopping, writer, main>>

\* A flush with no device open still moves the gain.
clear ==
    /\ main = "loop" /\ ~ stopping /\ mutex_free
    /\ gain' = snapped(gain)
    /\ IF stream.state = "none" THEN UNCHANGED stream
       ELSE \E prepared \in BOOLEAN : stream' = restarted(stream, prepared)
    /\ UNCHANGED <<server, last_format, recovery_, stopping, writer, main, player_format, fruitless>>

StopClose ==
    /\ main = "stop" /\ mutex_free
    /\ stream' = closed
    /\ main' = "loop"
    /\ UNCHANGED <<server, gain, last_format, recovery_, stopping, writer, player_format, fruitless>>

-----------------------------------------------------------------------------
write(frames) ==
    /\ writer.pc = "idle" /\ player_format # None
    /\ \/ stream.state # "none" /\ writer' = begun(frames, gain) /\ UNCHANGED fruitless
       \/ stream.state = "none" /\ discard
    /\ UNCHANGED <<stream, server, gain, last_format, recovery_, stopping, main, player_format>>

failing == writer.pc = "loop" /\ ~ stopping /\ left > 0 /\ stream.state = "failed"

\* recover_(): a suspended card resumes where it was, or is prepared anew as it is after
\* an underrun, which leaves its ring empty; by then the deadline may have passed.
WriteRecovers ==
    /\ failing
    /\ stream' \in {[stream EXCEPT !.state = "running"],
                    [stream EXCEPT !.state = "running", !.queue = <<>>]}
    /\ UNCHANGED <<gain, writer, fruitless>> \/ finish(stream, FALSE)
    /\ UNCHANGED <<server, last_format, recovery_, stopping, main, player_format>>

\* recover_() failed.  The handle stays open and failed_ stays clear.
WriteBreaks ==
    /\ failing
    /\ finish(stream, TRUE)
    /\ UNCHANGED <<stream, server, last_format, recovery_, stopping, main, player_format>>

\* The deadline, between two waits of WAIT_SLICE_MS: never before one pass.
WriteTimesOut ==
    /\ writer.pc = "loop" /\ ~ stopping
    /\ left > 0 /\ (room = 0 \/ writer.done > 0)
    /\ finish(stream, FALSE)
    /\ UNCHANGED <<stream, server, last_format, recovery_, stopping, main, player_format>>

-----------------------------------------------------------------------------
\* The card plays what it has been given.
Plays ==
    /\ stream.state = "running" /\ stream.queue # <<>>
    /\ stream' = [stream EXCEPT !.queue = Tail(@)]
    /\ UNCHANGED <<server, gain, last_format, recovery_, stopping, writer, main, player_format,
                   fruitless>>

\* The card runs dry, is suspended, or is pulled.
StreamDies ==
    /\ stream.state = "running"
    /\ stream' = [stream EXCEPT !.state = "failed"]
    /\ UNCHANGED <<server, gain, last_format, recovery_, stopping, writer, main, player_format,
                   fruitless>>

WriteStep ==
    \/ (stream.state = "running" /\ WriteLands) \/ WriteReturns
    \/ WriteRecovers \/ WriteBreaks

Next ==
    \/ \E f \in Formats : configure(f)
    \/ clear
    \/ set_volume \/ StopLatch \/ StopClose
    \/ \E frames \in 1..MaxFrames : write(frames)
    \/ WriteStep \/ WriteTimesOut
    \/ Plays \/ StreamDies

Spec == AlsaInit /\ [][Next]_sink
=============================================================================
