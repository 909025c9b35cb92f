----------------------------- MODULE MCClientWait -----------------------------
(* Instances of ClientWait for TLC. *)
EXTENDS ClientWait
===============================================================================
