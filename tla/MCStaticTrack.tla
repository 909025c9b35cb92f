---------------------------- MODULE MCStaticTrack ----------------------------
(* Instances of StaticTrack for TLC. *)
EXTENDS StaticTrack

Loop(start, end, count) == [start |-> start, end |-> end, count |-> count]

\* No loop, one that ends before the buffer does, and one that never ends.
MCLoops == {Loop(0, 0, 0), Loop(0, 2, 2), Loop(1, 3, Forever)}
===============================================================================
