------------------------------ MODULE MCFastMixer ------------------------------
(* Instances of FastMixer for TLC. *)
EXTENDS FastMixer
===============================================================================
