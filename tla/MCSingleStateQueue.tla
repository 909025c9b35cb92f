-------------------------- MODULE MCSingleStateQueue --------------------------
(* SingleStateQueue for TLC: a value of two words, five pushes over sequence *)
(* numbers that wrap after four.                                             *)
EXTENDS SingleStateQueue

CONSTANTS w1, w2

MCWords == {w1, w2}
===============================================================================
