--------------------------- MODULE MCStreamingTrack ---------------------------
(* Instances of StreamingTrack for TLC. *)
EXTENDS StreamingTrack
===============================================================================
