---------------------------- MODULE FlushableFifo ----------------------------
(***************************************************************************)
(* What the control block of a streaming track promises its two sides: a   *)
(* queue of at most Capacity frames with one writer and one reader, whose  *)
(* contents the writer can ask the reader to throw away.  Only counts      *)
(* matter, because the frames themselves stay in order.                    *)
(***************************************************************************)
EXTENDS Integers

CONSTANT Capacity   \* the number of frames it can hold

VARIABLES filled,   \* frames written and not yet read or thrown away
          doomed,   \* how many of them, the oldest, a flush asks to throw away
          writing,  \* free frames handed to the writer
          reading   \* frames handed to the reader, the oldest

fifo == <<filled, doomed, writing, reading>>

Init == filled = 0 /\ doomed = 0 /\ writing = 0 /\ reading = 0

\* The writer is given free frames, or gives the ones it has back unused.
Reserve ==
    /\ writing' \in 0..(Capacity - filled)
    /\ UNCHANGED <<filled, doomed, reading>>

Write ==
    \E n \in 1..writing :
        /\ filled' = filled + n
        /\ writing' = writing - n
        /\ UNCHANGED <<doomed, reading>>

\* Everything written so far is to be thrown away.
Flush == doomed' = filled /\ UNCHANGED <<filled, writing, reading>>

\* The reader is given frames, but never frames from both sides of a flush.
Take ==
    /\ reading = 0
    /\ reading' \in 0..(IF doomed > 0 THEN doomed ELSE filled)
    /\ UNCHANGED <<filled, doomed, writing>>

Consume ==
    \E n \in 1..reading :
        /\ filled' = filled - n
        /\ doomed' = IF n < doomed THEN doomed - n ELSE 0
        /\ reading' = 0
        /\ UNCHANGED writing

\* The reader carries out a flush, and throws nothing else away.
Discard ==
    /\ reading = 0
    /\ \E n \in 1..doomed :
           /\ filled' = filled - n
           /\ doomed' = doomed - n
    /\ UNCHANGED <<writing, reading>>

Next == Reserve \/ Write \/ Flush \/ Take \/ Consume \/ Discard

Spec == Init /\ [][Next]_fifo

==============================================================================
