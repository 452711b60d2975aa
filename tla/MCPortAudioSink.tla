-------------------------- MODULE MCPortAudioSink --------------------------
(***************************************************************************)
(* PortAudioSink for TLC: 16- and 24-bit mono, so that frames of one        *)
(* format never line up with those of the other.                            *)
(***************************************************************************)
EXTENDS PortAudioSink

MCFrameBytes == [f \in Formats |-> IF f = "s16" THEN 2 ELSE 3]
=============================================================================
