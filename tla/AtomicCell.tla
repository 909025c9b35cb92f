------------------------------ MODULE AtomicCell ------------------------------
(***************************************************************************)
(* What SingleStateQueue promises to its users: "single-reader /           *)
(* single-writer multi-word atomic load / store".  One writer replaces the *)
(* whole value, one reader takes the whole value or nothing, and may tell  *)
(* the writer that it has acted upon what it took.  A value is represented *)
(* by the number of the push that wrote it; 0 is the initial value.        *)
(***************************************************************************)
EXTENDS Naturals

VARIABLES cell,   \* the value in the cell
          seen,   \* the value the reader took last
          done    \* has the reader acted upon it?

vars == <<cell, seen, done>>

TypeOK == cell \in Nat /\ seen \in 0..cell /\ done \in BOOLEAN

Init == cell = 0 /\ seen = 0 /\ done = FALSE

Store ==
    /\ cell' = cell + 1
    /\ UNCHANGED <<seen, done>>

\* The reader takes a value only when it has changed since it last looked.
Load ==
    /\ seen # cell
    /\ seen' = cell
    /\ done' = FALSE
    /\ UNCHANGED cell

Done ==
    /\ ~done
    /\ done' = TRUE
    /\ UNCHANGED <<cell, seen>>

Next == Store \/ Load \/ Done

Spec == Init /\ [][Next]_vars
===============================================================================
