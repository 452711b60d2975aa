------------------------------ MODULE Outputs ------------------------------
(***************************************************************************)
(* The three sinks that share OutputSink, each against the properties of    *)
(* all of them: `backend` is the one that -o has chosen.                    *)
(***************************************************************************)
EXTENDS OutputSink

VARIABLE backend

Pulse == INSTANCE PulseSink
PipeWire == INSTANCE PipeWireSink
Alsa == INSTANCE AlsaSink

OutputsInit ==
    \/ backend = "pulse" /\ Pulse!PulseInit
    \/ backend = "pipewire" /\ PipeWire!PipeWireInit
    \/ backend = "alsa" /\ Alsa!AlsaInit

OutputsNext ==
    /\ \/ backend = "pulse" /\ Pulse!Next
       \/ backend = "pipewire" /\ PipeWire!Next
       \/ backend = "alsa" /\ Alsa!Next
    /\ UNCHANGED backend

all == <<sink, backend>>

OutputsSpec == OutputsInit /\ [][OutputsNext]_all

WriteStep ==
    /\ \/ backend = "pulse" /\ Pulse!WriteStep
       \/ backend = "pipewire" /\ PipeWire!WriteStep
       \/ backend = "alsa" /\ Alsa!WriteStep
    /\ UNCHANGED backend

WriteTimesOut ==
    /\ \/ backend = "pulse" /\ Pulse!WriteTimesOut
       \/ backend = "pipewire" /\ PipeWire!WriteTimesOut
       \/ backend = "alsa" /\ Alsa!WriteTimesOut
    /\ UNCHANGED backend

StopClose ==
    /\ \/ backend = "pulse" /\ Pulse!StopClose
       \/ backend = "pipewire" /\ PipeWire!StopClose
       \/ backend = "alsa" /\ Alsa!StopClose
    /\ UNCHANGED backend

\* The sync task is scheduled, a clock reaches a write()'s deadline, and a mutex that
\* is given up again and again is had in the end.  No server or card need ever play.
OutputsFairSpec ==
    /\ OutputsSpec
    /\ WF_all(WriteStep) /\ WF_all(WriteTimesOut)
    /\ SF_all(StopClose)

-----------------------------------------------------------------------------
\* The two sinks that may reconnect never leave the sync task on a dead device:
\* "write() discards instead of returning 0 forever and spinning the sync task".
DeadStreamDiscards == backend # "alsa" => DeadDeviceDiscards

\* No stream outlives the connection or the loop its callbacks run on.
StreamHasItsOwner ==
    /\ backend = "pulse" => Pulse!StreamHasItsServer
    /\ backend = "pipewire" => PipeWire!LoopHasItsOwner

\* A stream is open only between its owner's start and stop(), whichever thread opens it.
StreamsAreBracketed == StreamHasItsOwner /\ NothingOpenAfterStop

\* stop() gets its mutex and returns, whatever write() was waiting for and although
\* nothing will ever make room for it.
StopReturns == (main = "stop") ~> (main = "loop")
=============================================================================
