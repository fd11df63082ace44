--------------------------- MODULE MCAudioStream ---------------------------
(* TLC instances of AudioStream: MeetingAudio.cfg and MeetingEnds.cfg. *)
EXTENDS AudioStream
=============================================================================
