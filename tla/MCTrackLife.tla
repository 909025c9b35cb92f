------------------------------ MODULE MCTrackLife ------------------------------
(* Instances of TrackLife for TLC. *)
EXTENDS TrackLife
===============================================================================
