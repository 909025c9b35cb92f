------------------------------- MODULE MCOffload -------------------------------
(* Instances of Offload for TLC. *)
EXTENDS Offload
===============================================================================
