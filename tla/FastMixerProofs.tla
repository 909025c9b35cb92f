---------------------------- MODULE FastMixerProofs ----------------------------
(***************************************************************************)
(* For any number of slots of the ring, tracks, slots for tracks, and      *)
(* bounds: the fast mixer reads no state while it is written, no track     *)
(* after it is freed, and mixes the tracks the state asks for.             *)
(***************************************************************************)
EXTENDS FastMixer, WellFoundedInduction, TLAPS

USE SlotsAssumption, FastAssumption

Bit(p) == IF p THEN 1 ELSE 0

Published == mStates[mNext]     \* the state published last
Acked     == mStates[mCurrent]  \* the state acknowledged last

-------------------------------------------------------------------------------
(* The inductive invariant.                                                *)

\* The slots in use hold states that were pushed or are being made.
UsedInv ==
    /\ mNext # Null
    /\ \A i \in {mNext, mMutating, mCurrent, polled, oCurrent, oPrevious} \cap Slots :
           mStates[i] \in FastState /\ mStates[i].command # "INITIAL"

\* The mutator is one slot ahead of what it published, and that is at most one
\* ahead of what is acknowledged.  The observer holds on to the state
\* acknowledged last and the one before it.
RingInv ==
    /\ mMutating = Following(mNext) /\ mAck = mCurrent
    /\ mExpecting = mNext \/ (mExpecting = Null /\ mCurrent = mNext)
    /\ mCurrent \in {mNext, Null} \/ Following(mCurrent) = mNext
    /\ polled = mCurrent \/ (oPc = "ack" /\ polled = mNext)
    /\ oPc \notin {"poll", "ack"} => mCurrent # Null
    /\ oPc = "ack" => polled # Null
    /\ \/ mCurrent # Null /\ oCurrent = mCurrent
       \/ (mCurrent = Null \/ oPc = "adopt") /\ oCurrent = sInitial
       \/ oPc = "adopt" /\ oCurrent \in Slots /\ Following(oCurrent) = mCurrent

\* While the observer idles it compares with its own copy; otherwise with the
\* state it works with, or, until it has looked at the changes, the one before.
PreviousInv ==
    IF Idle(State(oCurrent).command) THEN oPrevious = preIdle
    ELSE \/ oPrevious = oCurrent
         \/ /\ oPc \in {"change", "exited"}
            /\ oPrevious \in {sInitial, preIdle} \/ Following(oPrevious) = oCurrent

\* Where the mutator is in its functions, and what it has done by then.
ControlInv ==
    /\ tDo = "none" <=> tPc \in {"loop", "mixed", "written"}
    /\ tDo \in {"prepare", "standby"} => tPc \in {"push", "ack", "pushed"}
    /\ tDo \in {"write", "exit"} => tPc \in {"wake", "woken", "push", "pushed"}
                                    /\ tBlock = "PUSHED"
    /\ tPc = "ack" => tBlock = "ACKED"
    /\ tDo = "prepare" => (tBlock = "NEVER" <=> Mutating.command = "COLD_IDLE")
    /\ tDo = "standby" => tBlock = "ACKED" /\ Mutating.command = "COLD_IDLE"
    /\ Mutating.command # "INITIAL"
    /\ Mutating.command = "EXIT" <=> tDo = "exit" /\ tPc \in {"push", "pushed"}
    /\ tDo = "write" => (Mutating.command = "COLD_IDLE" <=> tPc \in {"wake", "woken"})

\* What is not dirty has been published, and only cold idle is left dirty.
DirtyInv ==
    /\ ~mIsDirty => Published = Mutating
    /\ mIsDirty /\ tPc # "push" =>
           Mutating.command = "COLD_IDLE" /\ tDo # "standby"

\* The mutator has sent the observer to idle and knows that it obeys.
Quiet == Mutating.command = "COLD_IDLE" /\ ~(tDo = "standby" /\ tPc \in {"push", "ack"})

QuietInv ==
    Quiet => /\ Published.command = "COLD_IDLE"
             /\ mCurrent # Null => Acked.command = "COLD_IDLE"

\* The observer does what the state it adopted commands.
ObeyInv ==
    /\ oPc \in {"change", "work"} => State(oCurrent).command = "MIX_WRITE"
    /\ oPc \in {"cold", "wait", "rise"} => State(oCurrent).command = "COLD_IDLE"

Increased == Mutating.command # "COLD_IDLE" \/ tPc \in {"wake", "woken"}
Decreased == mColdGen = Mutating.coldGen
             \/ (oPc \in {"wait", "rise"} /\ State(oCurrent).coldGen = Mutating.coldGen)

\* Each side counts the current cold idle once in the futex.
FutexInv ==
    /\ mFastMixerFutex = Bit(Increased) - Bit(Decreased)
    /\ mColdGen <= Mutating.coldGen
    /\ Published.command = "COLD_IDLE" => Published.coldGen = Mutating.coldGen
    /\ oPc \in {"cold", "wait", "rise"} =>
           mColdGen < State(oCurrent).coldGen /\ State(oCurrent).coldGen <= Mutating.coldGen
    /\ oPc = "cold" => State(oCurrent).coldGen = Mutating.coldGen
    /\ oPc \in {"ack", "adopt"} /\ mStates[polled].command = "COLD_IDLE"
         /\ mStates[polled].coldGen # mColdGen =>
           mStates[polled].coldGen = Mutating.coldGen

\* State b comes after a: equal generations mean equal tracks.
Later(a, b) ==
    /\ a.tracksGen <= b.tracksGen
    /\ a.tracksGen = b.tracksGen => a.provider = b.provider /\ a.generation = b.generation
    /\ \A j \in FastSlots :
           /\ a.generation[j] <= b.generation[j]
           /\ a.generation[j] = b.generation[j] => a.provider[j] = b.provider[j]

LineInv ==
    /\ Later(Published, Mutating) /\ Later(State(oCurrent), Published)
    /\ Later(State(oPrevious), State(oCurrent))
    /\ mCurrent # Null => Later(Acked, Published) /\ Later(State(oCurrent), Acked)
    /\ \A j \in FastSlots : Mutating.generation[j] <= Mutating.tracksGen

\* The AudioMixer is as the observer's previous state asks.
BoundInv ==
    /\ bound = State(oPrevious).provider
    /\ mFastTracksGen = State(oPrevious).tracksGen
    /\ \A j \in TrackMask(State(oPrevious)) :
           mGenerations[j] = State(oPrevious).generation[j]

\* Each track in use has a slot of its own.
SlotInv ==
    /\ Alive \subseteq born
    /\ tDo = "prepare" => tracksToRemove \subseteq mActiveTracks
    /\ \A t \in handles \cup mActiveTracks :
           fastIndex[t] \in FastSlots \ mFastTrackAvailMask
    /\ \A t, u \in handles \cup mActiveTracks : fastIndex[t] = fastIndex[u] => t = u

\* The tracks of a state are in S.
Within(state, S) == \A j \in FastSlots : state.provider[j] \in S \cup {NoTrack}

\* State b has the tracks of a, and maybe more.
Grown(a, b) == \A j \in FastSlots : a.provider[j] \in {NoTrack, b.provider[j]}

Mixing(state) == state.command = "MIX_WRITE"

\* The mutator waits, or is about to wait, for the acknowledgement.
Waiting == tPc = "ack" \/ (tPc = "push" /\ tBlock = "ACKED")

\* A state that is mixed has active tracks only, and one that is not yet
\* replaced loses a track only while the mutator waits.
TracksInv ==
    /\ \A j \in FastSlots :
           Mutating.provider[j] # NoTrack =>
               /\ Mutating.provider[j] \in mActiveTracks
               /\ fastIndex[Mutating.provider[j]] = j
               /\ tDo = "prepare" => Mutating.provider[j] \notin tracksToRemove
    /\ Mixing(Published) => Within(Published, mActiveTracks)
    /\ mCurrent # Null /\ Mixing(Acked) =>
           Within(Acked, mActiveTracks) /\ (~Waiting => Grown(Acked, Published))
    /\ tPc \in {"push", "woken", "wake"} /\ tBlock = "PUSHED" /\ Mixing(Published) =>
           Grown(Published, Mutating)

IInv ==
    /\ VarsOK /\ UsedInv /\ RingInv /\ PreviousInv
    /\ ControlInv /\ DirtyInv /\ QuietInv /\ ObeyInv
    /\ Prompt => FutexInv
    /\ LineInv /\ BoundInv /\ SlotInv /\ TracksInv

-------------------------------------------------------------------------------
(* Slots, pointers and states.                                             *)

LEMMA FollowingValue ==
    ASSUME NEW i \in Slots
    PROVE  Following(i) = IF i = kN - 1 THEN 0 ELSE i + 1
  BY DEF Following, Slots

\* Four slots in a row are different: a ring of three would not do.
LEMMA FollowingFacts ==
    ASSUME NEW i \in Slots
    PROVE  /\ Following(i) \in Slots
           /\ i # Following(i)
           /\ i # Following(Following(i))
           /\ i # Following(Following(Following(i)))
  <1>1. Following(i) \in Slots /\ Following(i) = IF i = kN - 1 THEN 0 ELSE i + 1
    BY FollowingValue DEF Slots
  <1> DEFINE a == Following(i)
             b == Following(a)
             c == Following(b)
  <1>2. b \in Slots /\ b = IF a = kN - 1 THEN 0 ELSE a + 1
    BY <1>1, FollowingValue DEF Slots
  <1>3. c = IF b = kN - 1 THEN 0 ELSE b + 1
    BY <1>2, FollowingValue
  <1> HIDE DEF c
  <1> HIDE DEF b
  <1> HIDE DEF a
  <1>4. i # a /\ i # b /\ i # c
    BY <1>1, <1>2, <1>3 DEF Slots, a
  <1> QED BY <1>1, <1>4 DEF a, b, c

LEMMA Pointers ==
    /\ sInitial \notin Slots /\ preIdle \notin Slots /\ Null \notin Slots
    /\ sInitial # preIdle /\ sInitial # Null /\ preIdle # Null
  BY DEF sInitial, preIdle, Slots, Null

LEMMA StateFacts ==
    /\ \A i \in Slots : State(i) = mStates[i]
    /\ State(sInitial) = Initial /\ State(preIdle) = mPreIdle
  BY Pointers DEF State

LEMMA InitialFacts ==
    /\ Initial \in FastState /\ Initial.command = "INITIAL" /\ Initial.coldGen = 0
    /\ Initial.tracksGen = 0
    /\ \A j \in FastSlots : Initial.provider[j] = NoTrack /\ Initial.generation[j] = 0
  BY DEF Initial, FastState, Commands

LEMMA StateTyped ==
    ASSUME VarsOK, UsedInv
    PROVE  /\ State(oCurrent) \in FastState /\ State(oPrevious) \in FastState
           /\ Published \in FastState /\ Mutating \in FastState
           /\ mNext \in Slots /\ mMutating \in Slots
           /\ mCurrent # Null => mCurrent \in Slots /\ Acked \in FastState
                                   /\ Acked.command # "INITIAL"
           /\ polled # Null => polled \in Slots /\ mStates[polled] \in FastState
  <1>1. mNext \in Slots /\ mMutating \in Slots
    BY DEF VarsOK, QueueTypeOK, UsedInv
  <1>2. Published \in FastState /\ Mutating \in FastState
    BY <1>1 DEF UsedInv, Published, Mutating
  <1>3. /\ mCurrent # Null => mCurrent \in Slots /\ Acked \in FastState
                                /\ Acked.command # "INITIAL"
        /\ polled # Null => polled \in Slots /\ mStates[polled] \in FastState
    BY DEF VarsOK, QueueTypeOK, UsedInv, Acked
  <1>4. State(oCurrent) \in FastState
    <2>1. oCurrent \in Slots \/ oCurrent = sInitial
      BY DEF VarsOK
    <2> QED BY <2>1, StateFacts, InitialFacts DEF UsedInv
  <1>5. State(oPrevious) \in FastState
    <2>1. (oPrevious \in Slots \/ oPrevious \in {sInitial, preIdle}) /\ mPreIdle \in FastState
      BY DEF VarsOK
    <2> QED BY <2>1, StateFacts, InitialFacts DEF UsedInv
  <1> QED BY <1>1, <1>2, <1>3, <1>4, <1>5

\* What a FastState is made of.
LEMMA StateFields ==
    ASSUME NEW s \in FastState
    PROVE  /\ s.command \in Commands /\ s.coldGen \in 0..MaxIdle /\ s.tracksGen \in 0..MaxGen
           /\ s.provider \in [FastSlots -> Tracks \cup {NoTrack}]
           /\ s.generation \in [FastSlots -> 0..MaxGen]
  BY DEF FastState

LEMMA LaterReflexive == ASSUME NEW a \in FastState PROVE Later(a, a)
  BY DEF Later, FastState

LEMMA LaterTransitive ==
    ASSUME NEW a \in FastState, NEW b \in FastState, NEW c \in FastState,
           Later(a, b), Later(b, c)
    PROVE  Later(a, c)
  <1>1. /\ a.tracksGen \in Nat /\ b.tracksGen \in Nat /\ c.tracksGen \in Nat
        /\ \A j \in FastSlots : /\ a.generation[j] \in Nat /\ b.generation[j] \in Nat
                                /\ c.generation[j] \in Nat
    BY DEF FastState
  <1>2. a.tracksGen <= c.tracksGen
    BY <1>1 DEF Later
  <1>3. ASSUME a.tracksGen = c.tracksGen
        PROVE  a.provider = c.provider /\ a.generation = c.generation
    BY <1>1, <1>3 DEF Later
  <1>4. ASSUME NEW j \in FastSlots
        PROVE  /\ a.generation[j] <= c.generation[j]
               /\ a.generation[j] = c.generation[j] => a.provider[j] = c.provider[j]
    BY <1>1, <1>4 DEF Later
  <1> QED BY <1>2, <1>3, <1>4 DEF Later

\* A set of slots has a least one.
LEMMA LeastSlot == ASSUME NEW S \in SUBSET FastSlots, S # {} PROVE Min(S) \in S
  <1> DEFINE R == OpToRel(<, Nat)
  <1>1. S \subseteq Nat
    OBVIOUS
  <1>2. IsWellFoundedOn(R, Nat)
    BY NatLessThanWellFounded
  <1>3. \A x, y \in Nat : x < y => <<x, y>> \in R
    BY DEF OpToRel
  <1> HIDE DEF R
  <1>4. PICK x \in S : \A y \in S : ~(<<y, x>> \in R)
    BY <1>1, <1>2, WFMin
  <1>5. ASSUME NEW y \in S PROVE x <= y
    <2>1. x \in Nat /\ y \in Nat
      BY <1>1
    <2>2. ~(y < x)
      BY <1>3, <1>4, <2>1, Zenon
    <2> QED BY <2>1, <2>2
  <1> QED BY <1>5 DEF Min

-------------------------------------------------------------------------------
(* The first state.                                                        *)

LEMMA InitIInv == Init => IInv
  <1> SUFFICES ASSUME Init PROVE IInv
    OBVIOUS
  <1> DEFINE first == [Initial EXCEPT !.command = "COLD_IDLE", !.coldGen = 1, !.tracksGen = 1]
  <1>1. /\ first \in FastState /\ first.command = "COLD_IDLE" /\ first.coldGen = 1
        /\ first.tracksGen = 1 /\ first.provider = Initial.provider
        /\ first.generation = Initial.generation
    <2>1. "COLD_IDLE" \in Commands /\ 1 \in 0..MaxIdle /\ 1 \in 0..MaxGen
      BY DEF Commands
    <2> QED BY <2>1, InitialFacts DEF FastState
  <1>2. mStates = [k \in Slots |-> IF k \in {0, 1} THEN first ELSE NoState]
    BY DEF Init
  <1> HIDE DEF first
  <1>3. 0 \in Slots /\ 1 \in Slots /\ Following(0) = 1
    <2>1. 0 \in Slots /\ 1 \in Slots
      BY DEF Slots
    <2> QED BY <2>1, FollowingValue
  <1>4. /\ mStates \in [Slots -> FastState \cup {NoState}]
        /\ mStates[0] = first /\ mStates[1] = first
    BY <1>1, <1>2, <1>3
  <1>5. /\ State(oCurrent) = Initial /\ State(oPrevious) = Initial
        /\ Published = first /\ Mutating = first
    BY <1>4, StateFacts DEF Init, Published, Mutating
  <1>6. VarsOK
    <2>1. QueueTypeOK(FastState)
      BY <1>3, <1>4 DEF QueueTypeOK, Init
    <2>2. /\ fastIndex \in [Tracks -> FastSlots \cup {0}]
          /\ bound \in [FastSlots -> Tracks \cup {NoTrack}]
          /\ mGenerations \in [FastSlots -> 0..MaxGen]
          /\ mFastTracksGen \in 0..MaxGen /\ mColdGen \in 0..MaxIdle
          /\ mFastTrackAvailMask \subseteq FastSlots
      BY DEF Init
    <2>3. mPreIdle \in FastState
      BY InitialFacts DEF Init
    <2> QED BY <2>1, <2>2, <2>3 DEF VarsOK, Init
  <1>7. UsedInv
    BY <1>1, <1>4, Pointers DEF UsedInv, Init, Null
  <1>8. RingInv
    BY <1>3 DEF RingInv, Init
  <1>9. PreviousInv /\ ObeyInv
    BY <1>5, InitialFacts DEF PreviousInv, ObeyInv, Idle, Init
  <1>10. ControlInv
    BY <1>1, <1>5 DEF ControlInv, Init
  <1>11. DirtyInv /\ QuietInv
    BY <1>1, <1>5 DEF DirtyInv, QuietInv, Quiet, Init
  <1>12. FutexInv
    BY <1>1, <1>5 DEF FutexInv, Increased, Decreased, Bit, Init
  <1>13. LineInv
    <2>1. Later(first, first) /\ Later(Initial, Initial)
      BY <1>1, InitialFacts, LaterReflexive
    <2>2. Later(Initial, first)
      BY <1>1, InitialFacts DEF Later
    <2>3. \A j \in FastSlots : first.generation[j] <= first.tracksGen
      BY <1>1, InitialFacts
    <2> QED BY <1>5, <2>1, <2>2, <2>3 DEF LineInv, Init
  <1>14. BoundInv
    BY <1>5, InitialFacts DEF BoundInv, Init, TrackMask, Initial
  <1>15. SlotInv
    BY DEF SlotInv, Alive, Init
  <1>16. TracksInv
    BY <1>1, <1>5, InitialFacts DEF TracksInv, Mixing, Init
  <1> QED BY <1>6, <1>7, <1>8, <1>9, <1>10, <1>11, <1>12, <1>13, <1>14, <1>15, <1>16
             DEF IInv

-------------------------------------------------------------------------------
(* The fast mixer.                                                         *)

\* What no step of the fast mixer can disturb.
LEMMA FastFrame ==
    ASSUME IInv, UNCHANGED normal
    PROVE  /\ ControlInv' /\ DirtyInv' /\ SlotInv'
           /\ mStates' = mStates /\ Mutating' = Mutating /\ Published' = Published
           /\ mNext' = mNext /\ mMutating' = mMutating /\ mExpecting' = mExpecting
           /\ tPc' = tPc /\ tDo' = tDo /\ tBlock' = tBlock
           /\ mActiveTracks' = mActiveTracks /\ fastIndex' = fastIndex
           /\ tracksToRemove' = tracksToRemove
  <1>1. /\ mStates' = mStates /\ Mutating' = Mutating /\ Published' = Published
        /\ mIsDirty' = mIsDirty
    BY DEF normal, ring, Mutating, Published
  <1>2. ControlInv' /\ DirtyInv'
    BY <1>1 DEF IInv, ControlInv, DirtyInv, normal, mixer
  <1>3. SlotInv'
    BY DEF IInv, SlotInv, Alive, normal, mixer, tracks
  <1> QED BY <1>1, <1>2, <1>3 DEF normal, ring, mixer, tracks

\* What a step of the fast mixer that keeps what it holds leaves alone.
LEMMA HoldFrame ==
    ASSUME IInv, UNCHANGED <<normal, mCurrent, oCurrent, oPrevious, mPreIdle>>
    PROVE  /\ State(oCurrent)' = State(oCurrent) /\ State(oPrevious)' = State(oPrevious)
           /\ Acked' = Acked /\ QuietInv' /\ LineInv' /\ TracksInv'
  <1>1. /\ mStates' = mStates /\ Mutating' = Mutating /\ Published' = Published
        /\ tPc' = tPc /\ tDo' = tDo /\ tBlock' = tBlock /\ mActiveTracks' = mActiveTracks
        /\ fastIndex' = fastIndex /\ tracksToRemove' = tracksToRemove
    BY FastFrame
  <1>2. /\ State(oCurrent)' = State(oCurrent) /\ State(oPrevious)' = State(oPrevious)
        /\ Acked' = Acked
    BY <1>1 DEF State, Acked
  <1>3. QuietInv'
    BY <1>1, <1>2 DEF IInv, QuietInv, Quiet
  <1>4. LineInv'
    <2>1. LineInv
      BY DEF IInv
    <2> QED BY <1>1, <1>2, <2>1 DEF LineInv, Later
  <1>5. TracksInv'
    <2>1. TracksInv
      BY DEF IInv
    <2> QED BY <1>1, <1>2, <2>1 DEF TracksInv, Within, Grown, Mixing, Waiting
  <1> QED BY <1>2, <1>3, <1>4, <1>5

LEMMA PollIInv == ASSUME IInv, Poll PROVE IInv'
  <1>1. /\ VarsOK /\ UsedInv /\ RingInv /\ PreviousInv /\ BoundInv /\ (Prompt => FutexInv)
        /\ mNext \in Slots
    BY StateTyped DEF IInv
  <1>2. /\ UNCHANGED <<normal, mAck, mCurrent, oCurrent, oPrevious, mPreIdle>>
        /\ UNCHANGED <<mFastMixerFutex, mColdGen, bound, mGenerations, mFastTracksGen>>
        /\ oPc = "poll" /\ oPc' = "ack" /\ polled' = mNext
    BY DEF Poll, PollLoad, fast
  <1>3. /\ ControlInv' /\ DirtyInv' /\ SlotInv' /\ QuietInv' /\ LineInv' /\ TracksInv'
        /\ mStates' = mStates /\ Mutating' = Mutating /\ Published' = Published
        /\ mNext' = mNext /\ mMutating' = mMutating /\ mExpecting' = mExpecting
        /\ tPc' = tPc /\ tDo' = tDo
        /\ State(oCurrent)' = State(oCurrent) /\ State(oPrevious)' = State(oPrevious)
    BY <1>2, FastFrame, HoldFrame
  <1>4. VarsOK'
    BY <1>1, <1>2 DEF VarsOK, QueueTypeOK, Poll, normal, ring, mixer, tracks, fast
  <1>5. UsedInv' /\ RingInv'
    BY <1>1, <1>2, <1>3, Pointers DEF UsedInv, RingInv
  <1>6. PreviousInv' /\ ObeyInv' /\ BoundInv'
    BY <1>1, <1>2, <1>3 DEF PreviousInv, ObeyInv, BoundInv, TrackMask
  <1>7. Prompt => FutexInv'
    BY <1>1, <1>2, <1>3 DEF FutexInv, Increased, Decreased, Published
  <1> QED BY <1>3, <1>4, <1>5, <1>6, <1>7 DEF IInv

LEMMA AcknowledgeIInv == ASSUME IInv, Acknowledge PROVE IInv'
  <1>1. /\ VarsOK /\ UsedInv /\ RingInv /\ PreviousInv /\ BoundInv /\ (Prompt => FutexInv)
        /\ QuietInv /\ LineInv /\ TracksInv
        /\ mNext \in Slots /\ polled # Null /\ polled \in Slots
        /\ mCurrent # Null => mCurrent \in Slots
        /\ Published \in FastState /\ State(oCurrent) \in FastState
    BY StateTyped DEF IInv, RingInv, Acknowledge
  <1>2. /\ UNCHANGED <<normal, polled, oCurrent, oPrevious, mPreIdle>>
        /\ UNCHANGED <<mFastMixerFutex, mColdGen, bound, mGenerations, mFastTracksGen>>
        /\ oPc = "ack" /\ oPc' = "adopt" /\ mCurrent' = polled /\ mAck' = polled
    BY <1>1 DEF Acknowledge, PollAck, fast, RingInv
  <1>3. /\ ControlInv' /\ DirtyInv' /\ SlotInv'
        /\ mStates' = mStates /\ Mutating' = Mutating /\ Published' = Published
        /\ mNext' = mNext /\ mMutating' = mMutating /\ mExpecting' = mExpecting
        /\ tPc' = tPc /\ tDo' = tDo /\ tBlock' = tBlock /\ mActiveTracks' = mActiveTracks
        /\ fastIndex' = fastIndex /\ tracksToRemove' = tracksToRemove
    BY <1>2, FastFrame
  <1>4. State(oCurrent)' = State(oCurrent) /\ State(oPrevious)' = State(oPrevious)
    BY <1>2, <1>3 DEF State
  <1>5. (mCurrent # Null /\ Acked' = Acked) \/ Acked' = Published
    BY <1>1, <1>2, <1>3 DEF RingInv, Acked, Published
  <1>6. VarsOK'
    BY <1>1, <1>2 DEF VarsOK, QueueTypeOK, Acknowledge, normal, ring, mixer, tracks, fast
  <1>7. UsedInv'
    BY <1>1, <1>2, <1>3 DEF UsedInv
  <1>8. RingInv'
    BY <1>1, <1>2, <1>3 DEF RingInv
  <1>9. PreviousInv' /\ ObeyInv' /\ BoundInv'
    BY <1>1, <1>2, <1>4 DEF PreviousInv, ObeyInv, BoundInv, TrackMask
  <1>10. QuietInv'
    BY <1>1, <1>3, <1>5 DEF QuietInv, Quiet
  <1>11. Prompt => FutexInv'
    BY <1>1, <1>2, <1>3, <1>4 DEF FutexInv, Increased, Decreased
  <1>12. LineInv'
    <2>1. Later(Published, Published)
      BY <1>1, LaterReflexive
    <2>2. Later(Acked', Published) /\ Later(State(oCurrent), Acked')
      BY <1>1, <1>5, <2>1 DEF LineInv
    <2>3. Later(Acked, Published)' /\ Later(State(oCurrent), Acked)'
      BY <1>3, <1>4, <2>2 DEF Later
    <2>4. Later(Published, Mutating)' /\ Later(State(oCurrent), Published)'
          /\ Later(State(oPrevious), State(oCurrent))'
      BY <1>1, <1>3, <1>4 DEF LineInv, Later
    <2> QED BY <1>1, <1>3, <2>3, <2>4 DEF LineInv
  <1>13. TracksInv'
    <2>1. Grown(Published, Published)
      BY DEF Grown
    <2>2. Mixing(Acked') => Within(Acked', mActiveTracks) /\ (~Waiting => Grown(Acked', Published))
      BY <1>1, <1>5, <2>1 DEF TracksInv
    <2>3. Mixing(Acked)' => Within(Acked, mActiveTracks)' /\ (~Waiting' => Grown(Acked, Published)')
      BY <1>3, <2>2 DEF Mixing, Within, Grown, Waiting
    <2>4. /\ Mixing(Published)' => Within(Published, mActiveTracks)'
          /\ (tPc \in {"push", "woken", "wake"} /\ tBlock = "PUSHED" /\ Mixing(Published) =>
                Grown(Published, Mutating))'
      BY <1>1, <1>3 DEF TracksInv, Mixing, Within, Grown
    <2> QED BY <1>1, <1>3, <2>3, <2>4 DEF TracksInv
  <1> QED BY <1>3, <1>6, <1>7, <1>8, <1>9, <1>10, <1>11, <1>12, <1>13 DEF IInv

\* Whatever it adopts, the fast mixer still has the state it compares with.
LEMMA AdoptFacts ==
    ASSUME IInv, Adopt
    PROVE  /\ State(oPrevious)' = State(oPrevious) /\ State(oCurrent)' = Acked
           /\ oCurrent' = mCurrent /\ mCurrent \in Slots /\ mCurrent # Null
           /\ polled = mCurrent /\ Acked \in FastState
           /\ oPrevious' \in Slots \cup {sInitial, preIdle} /\ mPreIdle' \in FastState
           /\ oPrevious' \in Slots => oPrevious' \in {oPrevious, oCurrent}
           /\ PreviousInv'
  <1>1. /\ VarsOK /\ UsedInv /\ RingInv /\ PreviousInv /\ oPc = "adopt"
        /\ State(oCurrent) \in FastState /\ mPreIdle \in FastState
        /\ oCurrent \in Slots \cup {sInitial}
        /\ oPrevious \in Slots \cup {sInitial, preIdle}
    BY StateTyped DEF IInv, VarsOK, Adopt
  <1>2. /\ mCurrent \in Slots /\ mCurrent # Null /\ polled = mCurrent
        /\ Acked \in FastState /\ Acked.command # "INITIAL"
    BY <1>1, StateTyped DEF RingInv
  <1>3. mStates' = mStates /\ oCurrent' = mCurrent
    BY <1>2 DEF Adopt, normal, ring
  <1>4. \A k \in Slots : State(k)' = mStates[k]
    BY <1>3, Pointers DEF State
  <1>5. State(sInitial)' = Initial /\ State(preIdle)' = mPreIdle'
    BY Pointers DEF State, sInitial, preIdle
  <1>6. State(oCurrent)' = Acked
    BY <1>2, <1>3, <1>4 DEF Acked
  <1> DEFINE command == Acked.command
  <1>7. Idle(command) \/ oPc' \in {"change", "exited"}
    <2>1. command \in Commands \ {"INITIAL"}
      BY <1>2, StateFields
    <2> QED BY <1>2, <2>1 DEF Adopt, Acked, Idle, Commands
  <1>8. CASE mCurrent = oCurrent
    <2>1. oPrevious' = oPrevious /\ mPreIdle' = mPreIdle
      BY <1>2, <1>8 DEF Adopt
    <2>2. State(oPrevious)' = State(oPrevious) /\ State(oCurrent) = Acked
      BY <1>1, <1>2, <1>3, <1>8, <2>1, StateFacts DEF State, Acked
    <2>3. PreviousInv'
      BY <1>1, <1>3, <1>6, <1>8, <2>1, <2>2 DEF PreviousInv
    <2> QED BY <1>1, <1>2, <1>3, <1>6, <2>1, <2>2, <2>3
  <1>9. CASE mCurrent # oCurrent /\ Idle(State(oCurrent).command)
    <2>1. oPrevious = preIdle /\ oPrevious' = preIdle /\ mPreIdle' = mPreIdle
      BY <1>1, <1>2, <1>9 DEF Adopt, PreviousFor, PreviousInv
    <2>2. State(oPrevious)' = State(oPrevious)
      BY <1>5, <2>1, StateFacts DEF State
    <2>3. PreviousInv'
      BY <1>6, <1>7, <2>1 DEF PreviousInv
    <2> QED BY <1>1, <1>2, <1>3, <1>6, <2>1, <2>2, <2>3, Pointers
  <1>10. CASE mCurrent # oCurrent /\ ~Idle(State(oCurrent).command) /\ Idle(command)
    <2>1. oPrevious = oCurrent /\ oPrevious' = preIdle /\ mPreIdle' = State(oCurrent)
      BY <1>1, <1>2, <1>10 DEF Adopt, PreviousFor, PreviousInv, Acked
    <2>2. State(oPrevious)' = State(oPrevious)
      BY <1>5, <2>1 DEF State, preIdle
    <2>3. PreviousInv'
      BY <1>6, <1>10, <2>1 DEF PreviousInv
    <2> QED BY <1>1, <1>2, <1>3, <1>6, <2>1, <2>2, <2>3, Pointers
  <1>11. CASE mCurrent # oCurrent /\ ~Idle(State(oCurrent).command) /\ ~Idle(command)
    <2>1. oPrevious = oCurrent /\ oPrevious' = oCurrent /\ mPreIdle' = mPreIdle
      BY <1>1, <1>2, <1>11 DEF Adopt, PreviousFor, PreviousInv, Acked
    <2>2. State(oPrevious)' = State(oPrevious)
      BY <1>3, <2>1 DEF State
    <2>3. PreviousInv'
      <3>1. oCurrent = sInitial \/ Following(oCurrent) = mCurrent
        BY <1>1, <1>2, <1>11 DEF RingInv
      <3> QED BY <1>3, <1>6, <1>7, <1>11, <2>1, <3>1 DEF PreviousInv
    <2> QED BY <1>1, <1>2, <1>3, <1>6, <2>1, <2>2, <2>3
  <1> QED BY <1>8, <1>9, <1>10, <1>11

LEMMA AdoptIInv == ASSUME IInv, Adopt PROVE IInv'
  <1>1. /\ VarsOK /\ UsedInv /\ RingInv /\ BoundInv /\ (Prompt => FutexInv)
        /\ QuietInv /\ LineInv /\ TracksInv
        /\ State(oCurrent) \in FastState /\ State(oPrevious) \in FastState
    BY StateTyped DEF IInv
  <1>2. /\ UNCHANGED <<normal, mAck, mCurrent, polled>>
        /\ UNCHANGED <<mFastMixerFutex, mColdGen, bound, mGenerations, mFastTracksGen>>
        /\ oPc = "adopt"
    BY DEF Adopt, polling
  <1>3. /\ ControlInv' /\ DirtyInv' /\ SlotInv'
        /\ mStates' = mStates /\ Mutating' = Mutating /\ Published' = Published
        /\ mNext' = mNext /\ mMutating' = mMutating /\ mExpecting' = mExpecting
        /\ tPc' = tPc /\ tDo' = tDo /\ tBlock' = tBlock /\ mActiveTracks' = mActiveTracks
        /\ fastIndex' = fastIndex /\ tracksToRemove' = tracksToRemove
    BY <1>2, FastFrame
  <1>4. /\ State(oPrevious)' = State(oPrevious) /\ State(oCurrent)' = Acked
        /\ oCurrent' = mCurrent /\ mCurrent \in Slots /\ mCurrent # Null
        /\ polled = mCurrent /\ Acked \in FastState
        /\ oPrevious' \in Slots \cup {sInitial, preIdle} /\ mPreIdle' \in FastState
        /\ oPrevious' \in Slots => oPrevious' \in {oPrevious, oCurrent}
        /\ PreviousInv' /\ Acked' = Acked
    BY <1>2, <1>3, AdoptFacts DEF Acked
  <1>5. /\ oPc' \in {"exited", "change", "cold", "poll"}
        /\ oPc' = "change" => Acked.command = "MIX_WRITE"
        /\ oPc' = "cold" => Acked.command = "COLD_IDLE" /\ Acked.coldGen # mColdGen
    BY <1>4 DEF Adopt, Acked
  <1>6. VarsOK'
    BY <1>1, <1>2, <1>4, <1>5 DEF VarsOK, QueueTypeOK, Adopt, normal, ring, mixer, tracks
  <1>7. UsedInv'
    BY <1>1, <1>2, <1>3, <1>4 DEF UsedInv
  <1>8. RingInv'
    BY <1>1, <1>2, <1>3, <1>4, <1>5 DEF RingInv
  <1>9. ObeyInv' /\ BoundInv'
    BY <1>1, <1>2, <1>4, <1>5 DEF ObeyInv, BoundInv, TrackMask
  <1>10. QuietInv'
    BY <1>1, <1>2, <1>3, <1>4 DEF QuietInv, Quiet
  <1>11. Prompt => FutexInv'
    <2> SUFFICES ASSUME Prompt PROVE FutexInv'
      OBVIOUS
    <2>1. Decreased' <=> Decreased
      BY <1>2, <1>3, <1>5 DEF Decreased
    <2>2. Increased' <=> Increased
      BY <1>3 DEF Increased
    <2>3. mColdGen \in Nat /\ Mutating.coldGen \in Nat /\ Acked.coldGen \in Nat
      BY <1>1, <1>4, StateTyped, StateFields DEF VarsOK
    <2>4. oPc' = "cold" => Acked.coldGen = Mutating.coldGen /\ mColdGen < Acked.coldGen
      BY <1>1, <1>2, <1>4, <1>5, <2>3 DEF FutexInv, Acked
    <2> QED BY <1>1, <1>2, <1>3, <1>4, <1>5, <2>1, <2>2, <2>3, <2>4 DEF FutexInv, Bit
  <1>12. LineInv'
    <2>1. Later(Acked, Acked) /\ Later(State(oPrevious), Acked) /\ Later(Acked, Published)
      BY <1>1, <1>4, LaterReflexive, LaterTransitive DEF LineInv
    <2>2. /\ Later(Published, Mutating)' /\ Later(State(oCurrent), Published)'
          /\ Later(State(oPrevious), State(oCurrent))'
          /\ Later(Acked, Published)' /\ Later(State(oCurrent), Acked)'
      BY <1>1, <1>3, <1>4, <2>1 DEF LineInv, Later
    <2> QED BY <1>1, <1>3, <2>2 DEF LineInv
  <1>13. TracksInv'
    BY <1>1, <1>2, <1>3, <1>4 DEF TracksInv, Mixing, Within, Grown, Waiting
  <1> QED BY <1>3, <1>4, <1>6, <1>7, <1>8, <1>9, <1>10, <1>11, <1>12, <1>13 DEF IInv

\* A step of the fast mixer inside a cycle, from work or cold idle back to poll().
LEMMA CycleIInv ==
    ASSUME IInv, UNCHANGED <<normal, polling, oCurrent, oPrevious, mPreIdle, bound,
                             mGenerations, mFastTracksGen>>,
           oPc \in {"cold", "wait", "rise", "work"},
           oPc' = "poll" \/ (oPc # "work" /\ oPc' \in {"wait", "rise"}),
           mColdGen' \in 0..MaxIdle, asleep' \in BOOLEAN, Prompt => FutexInv'
    PROVE  IInv'
  <1>1. /\ VarsOK /\ UsedInv /\ RingInv /\ PreviousInv /\ BoundInv /\ ObeyInv
        /\ mCurrent' = mCurrent /\ mAck' = mAck /\ polled' = polled
    BY DEF IInv, polling
  <1>2. /\ ControlInv' /\ DirtyInv' /\ SlotInv' /\ QuietInv' /\ LineInv' /\ TracksInv'
        /\ mStates' = mStates /\ mNext' = mNext /\ mMutating' = mMutating
        /\ mExpecting' = mExpecting
        /\ State(oCurrent)' = State(oCurrent) /\ State(oPrevious)' = State(oPrevious)
    BY <1>1, FastFrame, HoldFrame
  <1>3. VarsOK'
    BY <1>1 DEF VarsOK, QueueTypeOK, normal, ring, mixer, tracks
  <1>4. UsedInv' /\ RingInv'
    BY <1>1, <1>2 DEF UsedInv, RingInv
  <1>5. PreviousInv' /\ ObeyInv' /\ BoundInv'
    BY <1>1, <1>2 DEF PreviousInv, ObeyInv, BoundInv, TrackMask
  <1> QED BY <1>2, <1>3, <1>4, <1>5 DEF IInv

\* What the futex depends on besides the fast mixer.
LEMMA FutexTypes ==
    ASSUME IInv
    PROVE  /\ mColdGen \in 0..MaxIdle /\ Mutating.coldGen \in 0..MaxIdle
           /\ State(oCurrent).coldGen \in 0..MaxIdle /\ asleep \in BOOLEAN
           /\ Prompt => FutexInv
  BY StateTyped, StateFields DEF IInv, VarsOK

LEMMA ColdIInv == ASSUME IInv, ColdDecrement \/ ColdWait \/ Rise PROVE IInv'
  <1>1. /\ mColdGen \in 0..MaxIdle /\ Mutating.coldGen \in 0..MaxIdle
        /\ State(oCurrent).coldGen \in 0..MaxIdle /\ asleep \in BOOLEAN
        /\ Prompt => FutexInv
    BY FutexTypes
  <1>2. UNCHANGED <<normal, polling, oCurrent, oPrevious, mPreIdle, bound, mGenerations,
                    mFastTracksGen>>
    BY DEF ColdDecrement, ColdWait, Rise, fast
  <1>3. /\ State(oCurrent)' = State(oCurrent) /\ Mutating' = Mutating
        /\ Published' = Published /\ tPc' = tPc
    BY <1>2, FastFrame, HoldFrame DEF polling
  <1>4. Increased' <=> Increased
    BY <1>3 DEF Increased
  <1>5. CASE ColdDecrement
    <2>1. /\ mColdGen' = mColdGen /\ asleep' = asleep /\ oPc = "cold" /\ oPc' \in {"wait", "rise"}
          /\ mFastMixerFutex' = mFastMixerFutex - 1
      BY <1>5 DEF ColdDecrement, fast
    <2>2. Prompt => FutexInv'
      BY <1>1, <1>3, <1>4, <2>1 DEF FutexInv, Decreased, Bit
    <2> QED BY <1>1, <1>2, <2>1, <2>2, CycleIInv
  <1>6. CASE ColdWait
    <2>1. /\ mColdGen' = mColdGen /\ asleep' \in BOOLEAN /\ oPc = "wait" /\ oPc' = "rise"
          /\ mFastMixerFutex' = mFastMixerFutex
      BY <1>6 DEF ColdWait, fast
    <2>2. Prompt => FutexInv'
      BY <1>1, <1>3, <1>4, <2>1 DEF FutexInv, Decreased, Bit
    <2> QED BY <1>1, <1>2, <2>1, <2>2, CycleIInv
  <1>7. CASE Rise
    <2>1. /\ mColdGen' = State(oCurrent).coldGen /\ asleep' \in BOOLEAN /\ oPc = "rise"
          /\ oPc' = "poll" /\ mFastMixerFutex' = mFastMixerFutex
      BY <1>1, <1>7 DEF Rise
    <2>2. Prompt => FutexInv'
      BY <1>1, <1>3, <1>4, <2>1 DEF FutexInv, Decreased, Bit
    <2> QED BY <1>1, <1>2, <2>1, <2>2, CycleIInv
  <1> QED BY <1>5, <1>6, <1>7

LEMMA WorkIInv == ASSUME IInv, Work PROVE IInv'
  <1>1. /\ UNCHANGED <<normal, polling, oCurrent, oPrevious, mPreIdle, bound, mGenerations,
                       mFastTracksGen>>
        /\ UNCHANGED <<mColdGen, asleep, mFastMixerFutex>> /\ oPc = "work" /\ oPc' = "poll"
    BY DEF Work, fast
  <1>2. /\ mColdGen' \in 0..MaxIdle /\ asleep' \in BOOLEAN /\ (Prompt => FutexInv)
    BY FutexTypes DEF Work, fast
  <1>3. /\ State(oCurrent)' = State(oCurrent) /\ Mutating' = Mutating
        /\ Published' = Published /\ tPc' = tPc
    BY <1>1, FastFrame, HoldFrame DEF polling
  <1>4. Prompt => FutexInv'
    BY <1>1, <1>2, <1>3 DEF FutexInv, Increased, Decreased
  <1> QED BY <1>1, <1>2, <1>4, CycleIInv

\* onStateChange() brings the AudioMixer in line with the state, although it
\* compares only masks and generations.
LEMMA ChangeFacts ==
    ASSUME IInv, Change
    PROVE  /\ bound' = State(oCurrent).provider
           /\ mFastTracksGen' = State(oCurrent).tracksGen
           /\ \A j \in TrackMask(State(oCurrent)) :
                  mGenerations'[j] = State(oCurrent).generation[j]
           /\ mGenerations' \in [FastSlots -> 0..MaxGen]
  <1> DEFINE current == State(oCurrent)
             previous == State(oPrevious)
  <1>1. /\ BoundInv /\ Later(previous, current)
        /\ current \in FastState /\ previous \in FastState
        /\ mGenerations \in [FastSlots -> 0..MaxGen]
    BY StateTyped DEF IInv, LineInv, VarsOK
  <1>2. /\ current.provider \in [FastSlots -> Tracks \cup {NoTrack}]
        /\ current.generation \in [FastSlots -> 0..MaxGen]
        /\ previous.provider \in [FastSlots -> Tracks \cup {NoTrack}]
        /\ previous.generation \in [FastSlots -> 0..MaxGen]
    BY <1>1, StateFields
  <1>3. /\ bound = previous.provider /\ mFastTracksGen = previous.tracksGen
        /\ \A j \in FastSlots : previous.provider[j] # NoTrack =>
                                   mGenerations[j] = previous.generation[j]
    BY <1>1 DEF BoundInv, TrackMask
  <1>4. CASE oCurrent # oPrevious /\ current.tracksGen # mFastTracksGen
    <2>1. /\ bound' = Rebind(current, previous)
          /\ mGenerations' = [j \in FastSlots |->
                IF j \in TrackMask(current) \cup TrackMask(previous)
                  THEN current.generation[j] ELSE mGenerations[j]]
          /\ mFastTracksGen' = current.tracksGen
      BY <1>4 DEF Change
    <2> HIDE DEF current, previous
    <2>2. ASSUME NEW j \in FastSlots PROVE bound'[j] = current.provider[j]
      <3>1. previous.generation[j] = current.generation[j] =>
                previous.provider[j] = current.provider[j]
        BY <1>1 DEF Later
      <3> QED BY <1>3, <2>1, <3>1 DEF Rebind, TrackMask
    <2>3. bound' = [j \in FastSlots |-> bound'[j]]
      BY <2>1 DEF Rebind
    <2>4. bound' = current.provider
      BY <1>2, <2>2, <2>3
    <2>5. \A j \in TrackMask(current) : mGenerations'[j] = current.generation[j]
      BY <2>1 DEF TrackMask
    <2>6. mGenerations' \in [FastSlots -> 0..MaxGen]
      BY <1>1, <1>2, <2>1
    <2> QED BY <2>1, <2>4, <2>5, <2>6 DEF current
  <1>5. CASE ~(oCurrent # oPrevious /\ current.tracksGen # mFastTracksGen)
    <2>1. bound' = bound /\ mGenerations' = mGenerations /\ mFastTracksGen' = mFastTracksGen
      BY <1>5 DEF Change
    <2>2. /\ current.provider = previous.provider /\ current.generation = previous.generation
          /\ current.tracksGen = previous.tracksGen
      BY <1>1, <1>3, <1>5 DEF Later
    <2> QED BY <1>1, <1>3, <2>1, <2>2 DEF TrackMask
  <1> QED BY <1>4, <1>5

LEMMA ChangeIInv == ASSUME IInv, Change PROVE IInv'
  <1>1. /\ VarsOK /\ UsedInv /\ RingInv /\ ObeyInv /\ (Prompt => FutexInv)
        /\ QuietInv /\ LineInv /\ TracksInv
        /\ State(oCurrent) \in FastState /\ oCurrent \in Slots \cup {sInitial}
    BY StateTyped DEF IInv, VarsOK
  <1>2. /\ UNCHANGED <<normal, mAck, mCurrent, polled, oCurrent, mPreIdle>>
        /\ UNCHANGED <<mFastMixerFutex, mColdGen>>
        /\ oPc = "change" /\ oPc' = "work" /\ oPrevious' = oCurrent
    BY DEF Change, polling
  <1>3. /\ ControlInv' /\ DirtyInv' /\ SlotInv'
        /\ mStates' = mStates /\ Mutating' = Mutating /\ Published' = Published
        /\ mNext' = mNext /\ mMutating' = mMutating /\ mExpecting' = mExpecting
        /\ tPc' = tPc /\ tDo' = tDo /\ tBlock' = tBlock /\ mActiveTracks' = mActiveTracks
        /\ fastIndex' = fastIndex /\ tracksToRemove' = tracksToRemove
    BY <1>2, FastFrame
  <1>4. /\ State(oCurrent)' = State(oCurrent) /\ State(oPrevious)' = State(oCurrent)
        /\ Acked' = Acked
    BY <1>2, <1>3 DEF State, Acked
  <1>5. State(oCurrent).command = "MIX_WRITE"
    BY <1>1, <1>2 DEF ObeyInv
  <1>6. VarsOK'
    <2>1. bound' \in [FastSlots -> Tracks \cup {NoTrack}] /\ mFastTracksGen' \in 0..MaxGen
          /\ mGenerations' \in [FastSlots -> 0..MaxGen]
      BY <1>1, ChangeFacts, StateFields
    <2> QED BY <1>1, <1>2, <2>1 DEF VarsOK, QueueTypeOK, Change, normal, ring, mixer, tracks
  <1>7. UsedInv' /\ RingInv'
    BY <1>1, <1>2, <1>3 DEF UsedInv, RingInv
  <1>8. PreviousInv' /\ ObeyInv'
    BY <1>2, <1>4, <1>5 DEF PreviousInv, ObeyInv, Idle
  <1>9. BoundInv'
    BY <1>4, ChangeFacts DEF BoundInv, TrackMask
  <1>10. QuietInv'
    BY <1>1, <1>2, <1>3, <1>4 DEF QuietInv, Quiet
  <1>11. Prompt => FutexInv'
    BY <1>1, <1>2, <1>3, <1>4 DEF FutexInv, Increased, Decreased
  <1>12. LineInv'
    <2>1. Later(State(oCurrent), State(oCurrent))
      BY <1>1, LaterReflexive
    <2>2. /\ Later(Published, Mutating)' /\ Later(State(oCurrent), Published)'
          /\ Later(State(oPrevious), State(oCurrent))'
          /\ mCurrent' # Null => Later(Acked, Published)' /\ Later(State(oCurrent), Acked)'
      BY <1>1, <1>2, <1>3, <1>4, <2>1 DEF LineInv, Later
    <2> QED BY <1>1, <1>3, <2>2 DEF LineInv
  <1>13. TracksInv'
    BY <1>1, <1>2, <1>3, <1>4 DEF TracksInv, Mixing, Within, Grown, Waiting
  <1> QED BY <1>3, <1>6, <1>7, <1>8, <1>9, <1>10, <1>11, <1>12, <1>13 DEF IInv

-------------------------------------------------------------------------------
(* What the normal mixer's steps leave alone.                              *)

\* A step that leaves the ring and the fast mixer alone.
LEMMA QueueFrame ==
    ASSUME IInv, UNCHANGED <<ring, polling, oPc, fast>>
    PROVE  /\ UsedInv' /\ RingInv' /\ PreviousInv' /\ ObeyInv' /\ LineInv' /\ BoundInv'
           /\ QueueTypeOK(FastState)' /\ Mutating' = Mutating /\ Published' = Published
           /\ Acked' = Acked /\ State(oCurrent)' = State(oCurrent) /\ mCurrent' = mCurrent
           /\ mStates'[polled'] = mStates[polled] /\ mIsDirty' = mIsDirty
           /\ mColdGen' = mColdGen /\ oPc' = oPc
  <1>1. /\ UNCHANGED <<mStates, mNext, mMutating, mExpecting, mIsDirty, mAck, mCurrent, polled>>
        /\ UNCHANGED <<oPc, oCurrent, oPrevious, mPreIdle, mColdGen, bound, mGenerations,
                       mFastTracksGen>>
    BY DEF ring, polling, fast
  <1>2. /\ Mutating' = Mutating /\ Published' = Published /\ Acked' = Acked
        /\ State(oCurrent)' = State(oCurrent) /\ State(oPrevious)' = State(oPrevious)
    BY <1>1 DEF Mutating, Published, Acked, State
  <1>3. UsedInv' /\ RingInv' /\ QueueTypeOK(FastState)'
    BY <1>1 DEF IInv, UsedInv, RingInv, VarsOK, QueueTypeOK
  <1>4. PreviousInv' /\ ObeyInv' /\ BoundInv'
    BY <1>1, <1>2 DEF IInv, PreviousInv, ObeyInv, BoundInv, TrackMask
  <1>5. LineInv'
    BY <1>1, <1>2 DEF IInv, LineInv, Later
  <1> QED BY <1>1, <1>2, <1>3, <1>4, <1>5

\* A step that moves only tracks.
LEMMA TracksFrame ==
    ASSUME IInv, UNCHANGED <<ring, polling, mixer, mFastMixerFutex, asleep, oPc, fast>>,
           VarsOK', SlotInv', TracksInv'
    PROVE  IInv'
  <1>1. /\ UsedInv' /\ RingInv' /\ PreviousInv' /\ ObeyInv' /\ LineInv' /\ BoundInv'
        /\ Mutating' = Mutating /\ Published' = Published /\ mCurrent' = mCurrent
        /\ Acked' = Acked /\ State(oCurrent)' = State(oCurrent)
        /\ mStates'[polled'] = mStates[polled] /\ mIsDirty' = mIsDirty
        /\ mColdGen' = mColdGen /\ oPc' = oPc
    BY QueueFrame
  <1>2. tPc' = tPc /\ tDo' = tDo /\ tBlock' = tBlock
    BY DEF mixer
  <1>3. ControlInv' /\ DirtyInv' /\ QuietInv'
    BY <1>1, <1>2 DEF IInv, ControlInv, DirtyInv, QuietInv, Quiet
  <1>4. Prompt => FutexInv'
    BY <1>1, <1>2 DEF IInv, FutexInv, Increased, Decreased
  <1> QED BY <1>1, <1>3, <1>4 DEF IInv

\* The slot the mutator writes is none the observer reads, and the one after it
\* is none once the push is acknowledged.
LEMMA WritesApart ==
    ASSUME IInv
    PROVE  /\ mMutating \notin {mNext, polled, mCurrent, oCurrent, oPrevious}
           /\ PriorAcked =>
                /\ mCurrent = mNext /\ polled = mNext
                /\ Following(mMutating) \in Slots
                /\ Following(mMutating) \notin
                       {mMutating, mNext, polled, mCurrent, oCurrent, oPrevious}
  <1>1. /\ VarsOK /\ RingInv /\ PreviousInv /\ mNext \in Slots /\ mMutating \in Slots
        /\ mCurrent # Null => mCurrent \in Slots
        /\ oCurrent \in Slots \cup {sInitial}
        /\ oPrevious \in Slots \cup {sInitial, preIdle}
    BY StateTyped DEF IInv, VarsOK
  <1>2. mMutating = Following(mNext)
    BY <1>1 DEF RingInv
  <1>3. mMutating # mNext /\ Following(mMutating) \in Slots
        /\ Following(mMutating) # mMutating /\ Following(mMutating) # mNext
    BY <1>1, <1>2, FollowingFacts
  <1>4. mCurrent \in {mNext, Null} \/ (mCurrent \in Slots /\ Following(mCurrent) = mNext)
    BY <1>1 DEF RingInv
  <1>5. mMutating # mCurrent /\ mMutating # polled
    <2>1. mMutating # mCurrent
      BY <1>1, <1>2, <1>3, <1>4, FollowingFacts, Pointers
    <2> QED BY <1>1, <1>3, <2>1 DEF RingInv
  <1>6. oCurrent \in {mCurrent, sInitial} \/ (oCurrent \in Slots /\ Following(oCurrent) = mCurrent)
    BY <1>1 DEF RingInv
  <1>7. mMutating # oCurrent
    <2>1. CASE oCurrent \in {mCurrent, sInitial}
      BY <1>1, <1>5, <2>1, Pointers
    <2>2. CASE oCurrent \in Slots /\ Following(oCurrent) = mCurrent /\ mCurrent = mNext
      BY <1>2, <2>2, FollowingFacts
    <2>3. CASE /\ oCurrent \in Slots /\ Following(oCurrent) = mCurrent
               /\ Following(mCurrent) = mNext
      BY <1>2, <2>3, FollowingFacts
    <2>4. oCurrent \in Slots /\ Following(oCurrent) = mCurrent => mCurrent # Null
      BY FollowingFacts, Pointers
    <2> QED BY <1>4, <1>6, <2>1, <2>2, <2>3, <2>4
  <1>8. \/ oPrevious \in {oCurrent, sInitial, preIdle}
        \/ /\ oPrevious \in Slots /\ Following(oPrevious) = oCurrent
           /\ oCurrent \in {mCurrent, sInitial}
    BY <1>1 DEF PreviousInv, RingInv
  <1>9. mMutating # oPrevious
    <2>1. CASE oPrevious \in {oCurrent, sInitial, preIdle}
      BY <1>1, <1>7, <2>1, Pointers
    <2>2. CASE /\ oPrevious \in Slots /\ Following(oPrevious) = oCurrent
               /\ oCurrent \in {mCurrent, sInitial}
      <3>1. oCurrent \in Slots /\ oCurrent = mCurrent /\ mCurrent # Null
        BY <2>2, FollowingFacts, Pointers
      <3>2. mCurrent = mNext \/ Following(mCurrent) = mNext
        BY <1>4, <3>1
      <3> QED BY <1>2, <2>2, <3>1, <3>2, FollowingFacts
    <2> QED BY <1>8, <2>1, <2>2
  <1>10. ASSUME PriorAcked
         PROVE  /\ mCurrent = mNext /\ polled = mNext
                /\ Following(mMutating) \notin {polled, mCurrent, oCurrent, oPrevious}
    <2>1. mCurrent = mNext /\ polled = mNext
      BY <1>1, <1>10, Pointers DEF PriorAcked, RingInv
    <2>2. Following(mMutating) # oCurrent
      <3>1. CASE oCurrent \in {mCurrent, sInitial}
        BY <1>3, <2>1, <3>1, Pointers
      <3>2. CASE oCurrent \in Slots /\ Following(oCurrent) = mCurrent
        BY <1>2, <2>1, <3>2, FollowingFacts
      <3> QED BY <1>6, <3>1, <3>2
    <2>3. Following(mMutating) # oPrevious
      <3>1. CASE oPrevious \in {oCurrent, sInitial, preIdle}
        BY <1>3, <2>2, <3>1, Pointers
      <3>2. CASE /\ oPrevious \in Slots /\ Following(oPrevious) = oCurrent
                 /\ oCurrent \in {mCurrent, sInitial}
        <4>1. oCurrent = mNext
          BY <2>1, <3>2, FollowingFacts, Pointers
        <4> QED BY <1>2, <3>2, <4>1, FollowingFacts
      <3> QED BY <1>8, <3>1, <3>2
    <2> QED BY <1>3, <2>1, <2>2, <2>3
  <1> QED BY <1>3, <1>5, <1>7, <1>9, <1>10

\* begin() and end(true): the observer sees nothing of it.
LEMMA MutateFrame ==
    ASSUME IInv, NEW state \in FastState, state.command # "INITIAL",
           Later(Mutating, state), \A j \in FastSlots : state.generation[j] <= state.tracksGen,
           Mutate(state), UNCHANGED <<polling, oPc, fast>>
    PROVE  /\ UsedInv' /\ RingInv' /\ PreviousInv' /\ ObeyInv' /\ LineInv' /\ BoundInv'
           /\ QueueTypeOK(FastState)' /\ Mutating' = state /\ Published' = Published
           /\ mCurrent' = mCurrent /\ (mCurrent # Null => Acked' = Acked)
           /\ State(oCurrent)' = State(oCurrent) /\ mIsDirty' = TRUE
           /\ polled' = polled /\ (polled # Null => mStates'[polled'] = mStates[polled])
           /\ mColdGen' = mColdGen /\ oPc' = oPc
  <1>1. /\ UNCHANGED <<mNext, mMutating, mExpecting, mAck, mCurrent, polled>>
        /\ UNCHANGED <<oPc, oCurrent, oPrevious, mPreIdle, mColdGen, bound, mGenerations,
                       mFastTracksGen>>
        /\ mStates' = [mStates EXCEPT ![mMutating] = state] /\ mIsDirty' = TRUE
    BY DEF Mutate, polling, fast
  <1>2. /\ VarsOK /\ UsedInv /\ RingInv /\ PreviousInv /\ ObeyInv /\ LineInv /\ BoundInv
        /\ mStates \in [Slots -> FastState \cup {NoState}] /\ mMutating \in Slots
        /\ mNext \in Slots /\ (mCurrent # Null => mCurrent \in Slots)
        /\ (polled # Null => polled \in Slots)
        /\ oCurrent \in Slots \cup {sInitial} /\ oPrevious \in Slots \cup {sInitial, preIdle}
        /\ Published \in FastState /\ Mutating \in FastState
    BY StateTyped DEF IInv, VarsOK, QueueTypeOK
  <1>3. mMutating \notin {mNext, polled, mCurrent, oCurrent, oPrevious}
    BY WritesApart
  <1>4. \A k \in Slots : k # mMutating => mStates'[k] = mStates[k] /\ State(k)' = State(k)
    <2>1. \A k \in Slots : k # mMutating => mStates'[k] = mStates[k]
      BY <1>1, <1>2
    <2> QED BY <2>1, Pointers DEF State
  <1>5. /\ Mutating' = state /\ Published' = Published
        /\ mCurrent # Null => Acked' = Acked
        /\ polled # Null => mStates'[polled'] = mStates[polled]
    BY <1>1, <1>2, <1>3, <1>4 DEF Mutating, Published, Acked
  <1>6. State(sInitial)' = State(sInitial) /\ State(preIdle)' = State(preIdle)
    BY <1>1 DEF State, sInitial, preIdle
  <1>7. State(oCurrent)' = State(oCurrent) /\ State(oPrevious)' = State(oPrevious)
    <2>1. State(oCurrent)' = State(oCurrent)
      <3>1. CASE oCurrent \in Slots
        BY <1>1, <1>3, <1>4, <3>1 DEF State
      <3>2. CASE oCurrent = sInitial
        BY <1>1, <1>6, <3>2 DEF State
      <3> QED BY <1>2, <3>1, <3>2
    <2>2. State(oPrevious)' = State(oPrevious)
      <3>1. CASE oPrevious \in Slots
        BY <1>1, <1>3, <1>4, <3>1 DEF State
      <3>2. CASE oPrevious \in {sInitial, preIdle}
        BY <1>1, <1>6, <3>2 DEF State
      <3> QED BY <1>2, <3>1, <3>2
    <2> QED BY <2>1, <2>2
  <1>8. UsedInv'
    BY <1>1, <1>2, <1>4, <1>5 DEF UsedInv, Mutating
  <1>9. RingInv'
    BY <1>1, <1>2 DEF RingInv
  <1>10. PreviousInv' /\ ObeyInv' /\ BoundInv'
    BY <1>1, <1>2, <1>7 DEF PreviousInv, ObeyInv, BoundInv, TrackMask
  <1>11. QueueTypeOK(FastState)'
    <2>1. mStates' \in [Slots -> FastState \cup {NoState}]
      BY <1>1, <1>2
    <2> QED BY <1>1, <1>2, <2>1 DEF VarsOK, QueueTypeOK
  <1>12. LineInv'
    <2>1. Later(Published, state)
      BY <1>2, LaterTransitive DEF LineInv
    <2>2. /\ Later(Published, Mutating)' /\ Later(State(oCurrent), Published)'
          /\ Later(State(oPrevious), State(oCurrent))'
          /\ mCurrent' # Null => Later(Acked, Published)' /\ Later(State(oCurrent), Acked)'
      BY <1>1, <1>2, <1>5, <1>7, <2>1 DEF LineInv, Later
    <2> QED BY <1>5, <2>2 DEF LineInv
  <1> QED BY <1>1, <1>5, <1>7, <1>8, <1>9, <1>10, <1>11, <1>12

\* push() of a new state: what the observer reads stays as it is.
LEMMA PublishFrame ==
    ASSUME IInv, Publish, UNCHANGED <<polling, oPc, fast>>
    PROVE  /\ UsedInv' /\ RingInv' /\ PreviousInv' /\ ObeyInv' /\ LineInv' /\ BoundInv'
           /\ QueueTypeOK(FastState)' /\ Mutating' = Mutating /\ Published' = Mutating
           /\ mCurrent' = mCurrent /\ mCurrent # Null /\ Acked = Published /\ Acked' = Acked
           /\ State(oCurrent)' = State(oCurrent) /\ mIsDirty' = FALSE
           /\ polled' = polled /\ mStates'[polled'] = mStates[polled]
           /\ mColdGen' = mColdGen /\ oPc' = oPc
  <1>1. /\ UNCHANGED <<mAck, mCurrent, polled>>
        /\ UNCHANGED <<oPc, oCurrent, oPrevious, mPreIdle, mColdGen, bound, mGenerations,
                       mFastTracksGen>>
        /\ mNext' = mMutating /\ mExpecting' = mMutating /\ mMutating' = Following(mMutating)
        /\ mStates' = [mStates EXCEPT ![Following(mMutating)] = Mutating] /\ mIsDirty' = FALSE
    BY DEF Publish, Mutating, polling, fast
  <1>2. /\ VarsOK /\ UsedInv /\ RingInv /\ PreviousInv /\ ObeyInv /\ LineInv /\ BoundInv
        /\ mStates \in [Slots -> FastState \cup {NoState}] /\ mMutating \in Slots
        /\ mNext \in Slots /\ (mCurrent # Null => mCurrent \in Slots)
        /\ (polled # Null => polled \in Slots)
        /\ oCurrent \in Slots \cup {sInitial} /\ oPrevious \in Slots \cup {sInitial, preIdle}
        /\ Published \in FastState /\ Mutating \in FastState
        /\ State(oCurrent) \in FastState
    BY StateTyped DEF IInv, VarsOK, QueueTypeOK
  <1>3. /\ mCurrent = mNext /\ polled = mNext /\ Following(mMutating) \in Slots
        /\ Following(mMutating) \notin {mMutating, mNext, polled, mCurrent, oCurrent, oPrevious}
    BY WritesApart DEF Publish
  <1>4. \A k \in Slots : k # Following(mMutating) =>
                            mStates'[k] = mStates[k] /\ State(k)' = State(k)
    <2>1. \A k \in Slots : k # Following(mMutating) => mStates'[k] = mStates[k]
      BY <1>1, <1>2
    <2> QED BY <2>1, Pointers DEF State
  <1>5. /\ Mutating' = Mutating /\ Published' = Mutating /\ Acked = Published /\ Acked' = Acked
        /\ mStates'[polled'] = mStates[polled] /\ mCurrent # Null
    <2>1. mCurrent # Null
      BY <1>2, <1>3, Pointers
    <2>2. Mutating' = Mutating
      BY <1>1, <1>2, <1>3 DEF Mutating
    <2>3. Published' = Mutating
      BY <1>1, <1>2, <1>3, <1>4 DEF Mutating, Published
    <2> QED BY <1>1, <1>2, <1>3, <1>4, <2>1, <2>2, <2>3 DEF Published, Acked
  <1>6. State(sInitial)' = State(sInitial) /\ State(preIdle)' = State(preIdle)
    BY <1>1 DEF State, sInitial, preIdle
  <1>7. State(oCurrent)' = State(oCurrent) /\ State(oPrevious)' = State(oPrevious)
    <2>1. State(oCurrent)' = State(oCurrent)
      <3>1. CASE oCurrent \in Slots
        BY <1>1, <1>3, <1>4, <3>1 DEF State
      <3>2. CASE oCurrent = sInitial
        BY <1>1, <1>6, <3>2 DEF State
      <3> QED BY <1>2, <3>1, <3>2
    <2>2. State(oPrevious)' = State(oPrevious)
      <3>1. CASE oPrevious \in Slots
        BY <1>1, <1>3, <1>4, <3>1 DEF State
      <3>2. CASE oPrevious \in {sInitial, preIdle}
        BY <1>1, <1>6, <3>2 DEF State
      <3> QED BY <1>2, <3>1, <3>2
    <2> QED BY <2>1, <2>2
  <1>8. UsedInv'
    <2>1. \A k \in {mMutating, mNext, oCurrent, oPrevious} \cap Slots :
              mStates'[k] = mStates[k] /\ mStates[k] \in FastState
                /\ mStates[k].command # "INITIAL"
      BY <1>2, <1>3, <1>4 DEF UsedInv
    <2>2. /\ mStates'[Following(mMutating)] \in FastState
          /\ mStates'[Following(mMutating)].command # "INITIAL"
      BY <1>1, <1>2, <1>3, <2>1 DEF Mutating
    <2> QED BY <1>1, <1>2, <1>3, <2>1, <2>2, Pointers DEF UsedInv
  <1>9. RingInv'
    <2>1. mMutating = Following(mNext)
      BY <1>2 DEF RingInv
    <2> QED BY <1>1, <1>2, <1>3, <2>1 DEF RingInv
  <1>10. PreviousInv' /\ ObeyInv' /\ BoundInv'
    BY <1>1, <1>2, <1>7 DEF PreviousInv, ObeyInv, BoundInv, TrackMask
  <1>11. QueueTypeOK(FastState)'
    <2>1. mStates' \in [Slots -> FastState \cup {NoState}]
      BY <1>1, <1>2
    <2> QED BY <1>1, <1>2, <1>3, <2>1 DEF VarsOK, QueueTypeOK
  <1>12. LineInv'
    <2>1. /\ Later(Mutating, Mutating) /\ Later(State(oCurrent), Mutating)
          /\ Later(Published, Mutating) /\ Later(State(oCurrent), Published)
      BY <1>2, LaterReflexive, LaterTransitive DEF LineInv
    <2>2. /\ Later(Published, Mutating)' /\ Later(State(oCurrent), Published)'
          /\ Later(State(oPrevious), State(oCurrent))'
          /\ Later(Acked, Published)' /\ Later(State(oCurrent), Acked)'
      BY <1>2, <1>5, <1>7, <2>1 DEF LineInv, Later
    <2> QED BY <1>2, <1>5, <2>2 DEF LineInv
  <1> QED BY <1>1, <1>5, <1>7, <1>8, <1>9, <1>10, <1>11, <1>12

-------------------------------------------------------------------------------
(* Binder threads.                                                         *)

LEMMA SameThread ==
    ASSUME IInv, UNCHANGED <<ring, polling, mixer, asleep, oPc, fast>>,
           UNCHANGED <<mActiveTracks, tracksToRemove>>,
           handles' \subseteq Tracks, born' \subseteq Tracks,
           fastIndex' \in [Tracks -> FastSlots \cup {0}],
           mFastTrackAvailMask' \subseteq FastSlots
    PROVE  VarsOK'
  BY QueueFrame DEF IInv, VarsOK, mixer, fast

\* Binder threads take no track out of the active list.
LEMMA ActiveGrows ==
    ASSUME IInv, UNCHANGED <<ring, polling, mixer, tracksToRemove, oPc, fast>>,
           mActiveTracks \subseteq mActiveTracks',
           \A u \in mActiveTracks : fastIndex'[u] = fastIndex[u]
    PROVE  TracksInv'
  <1>1. /\ Mutating' = Mutating /\ Published' = Published /\ mCurrent' = mCurrent
        /\ Acked' = Acked /\ tPc' = tPc /\ tDo' = tDo /\ tBlock' = tBlock
    BY QueueFrame DEF mixer
  <1>2. TracksInv
    BY DEF IInv
  <1> QED BY <1>1, <1>2 DEF TracksInv, Mixing, Within, Grown, Waiting

LEMMA CreateIInv == ASSUME NEW t \in Tracks, IInv, Create(t) PROVE IInv'
  <1> DEFINE j == Min(mFastTrackAvailMask)
  <1>1. /\ VarsOK /\ SlotInv /\ fastIndex \in [Tracks -> FastSlots \cup {0}]
        /\ mFastTrackAvailMask \subseteq FastSlots
    BY DEF IInv, VarsOK
  <1>2. j \in mFastTrackAvailMask /\ j \in FastSlots
    BY <1>1, LeastSlot DEF Create
  <1>3. /\ t \notin born /\ fastIndex' = [fastIndex EXCEPT ![t] = j]
        /\ mFastTrackAvailMask' = mFastTrackAvailMask \ {j}
        /\ handles' = handles \cup {t} /\ born' = born \cup {t}
        /\ UNCHANGED <<ring, polling, mixer, mFastMixerFutex, asleep, oPc, fast>>
        /\ UNCHANGED <<mActiveTracks, tracksToRemove>>
    BY DEF Create
  <1> HIDE DEF j
  <1>4. t \notin handles \cup mActiveTracks
    BY <1>1, <1>3 DEF SlotInv, Alive
  <1>5. /\ fastIndex' \in [Tracks -> FastSlots \cup {0}] /\ fastIndex'[t] = j
        /\ \A u \in Tracks \ {t} : fastIndex'[u] = fastIndex[u]
    BY <1>1, <1>2, <1>3
  <1>6. handles \subseteq Tracks /\ mActiveTracks \subseteq Tracks
    BY <1>1 DEF VarsOK
  <1>7. VarsOK'
    <2>1. /\ handles' \subseteq Tracks /\ born' \subseteq Tracks
          /\ mFastTrackAvailMask' \subseteq FastSlots
      BY <1>1, <1>3 DEF VarsOK
    <2> QED BY <1>1, <1>3, <1>5, <2>1, SameThread
  <1>8. SlotInv'
    <2>1. Alive' \subseteq born' /\ (tDo' = "prepare" => tracksToRemove' \subseteq mActiveTracks')
      BY <1>1, <1>3 DEF SlotInv, Alive, mixer
    <2>2. ASSUME NEW u \in (handles \cup mActiveTracks)'
          PROVE  fastIndex'[u] \in FastSlots \ mFastTrackAvailMask'
      BY <1>1, <1>2, <1>3, <1>5, <1>6 DEF SlotInv
    <2>3. ASSUME NEW u \in (handles \cup mActiveTracks)', NEW v \in (handles \cup mActiveTracks)',
                 fastIndex'[u] = fastIndex'[v]
          PROVE  u = v
      <3>1. \A w \in handles \cup mActiveTracks : fastIndex'[w] = fastIndex[w] /\ fastIndex[w] # j
        BY <1>1, <1>2, <1>4, <1>5, <1>6 DEF SlotInv
      <3> QED BY <1>1, <1>3, <1>5, <2>3, <3>1 DEF SlotInv
    <2> QED BY <2>1, <2>2, <2>3 DEF SlotInv
  <1>9. TracksInv'
    <2>1. \A u \in mActiveTracks : fastIndex'[u] = fastIndex[u]
      BY <1>4, <1>5, <1>6
    <2> QED BY <1>3, <2>1, ActiveGrows
  <1> QED BY <1>3, <1>7, <1>8, <1>9, TracksFrame

LEMMA StartIInv == ASSUME NEW t \in Tracks, IInv, Start(t) PROVE IInv'
  <1>1. VarsOK /\ SlotInv
    BY DEF IInv
  <1>2. /\ t \in handles /\ mActiveTracks' = mActiveTracks \cup {t}
        /\ UNCHANGED <<ring, polling, mixer, mFastMixerFutex, asleep, oPc, fast>>
        /\ UNCHANGED <<handles, tracksToRemove, fastIndex, mFastTrackAvailMask, born>>
    BY DEF Start
  <1>3. VarsOK'
    BY <1>1, <1>2, QueueFrame DEF VarsOK, mixer, fast
  <1>4. SlotInv'
    BY <1>1, <1>2 DEF SlotInv, Alive, mixer
  <1>5. TracksInv'
    BY <1>2, ActiveGrows
  <1> QED BY <1>2, <1>3, <1>4, <1>5, TracksFrame

LEMMA DestroyIInv == ASSUME NEW t \in Tracks, IInv, Destroy(t) PROVE IInv'
  <1>1. /\ VarsOK /\ SlotInv /\ fastIndex \in [Tracks -> FastSlots \cup {0}]
        /\ mFastTrackAvailMask \subseteq FastSlots
        /\ handles \subseteq Tracks /\ mActiveTracks \subseteq Tracks
    BY DEF IInv, VarsOK
  <1>2. /\ t \in handles /\ handles' = handles \ {t}
        /\ UNCHANGED <<ring, polling, mixer, mFastMixerFutex, asleep, oPc, fast>>
        /\ UNCHANGED <<mActiveTracks, tracksToRemove, born>>
    BY DEF Destroy
  <1>3. CASE t \in mActiveTracks
    <2>1. fastIndex' = fastIndex /\ mFastTrackAvailMask' = mFastTrackAvailMask
      BY <1>3 DEF Destroy
    <2>2. VarsOK'
      BY <1>1, <1>2, <2>1, QueueFrame DEF VarsOK, mixer, fast
    <2>3. SlotInv'
      BY <1>1, <1>2, <2>1 DEF SlotInv, Alive, mixer
    <2>4. TracksInv'
      BY <1>2, <2>1, ActiveGrows
    <2> QED BY <1>2, <2>2, <2>3, <2>4, TracksFrame
  <1>4. CASE t \notin mActiveTracks
    <2>1. /\ mFastTrackAvailMask' = mFastTrackAvailMask \cup {fastIndex[t]}
          /\ fastIndex' = [fastIndex EXCEPT ![t] = 0] /\ fastIndex[t] \in FastSlots
      BY <1>1, <1>2, <1>4 DEF Destroy, Released, SlotInv
    <2>2. /\ fastIndex' \in [Tracks -> FastSlots \cup {0}]
          /\ \A u \in (handles \cup mActiveTracks) \ {t} : fastIndex'[u] = fastIndex[u]
      BY <1>1, <2>1
    <2>3. VarsOK'
      <3>1. handles' \subseteq Tracks /\ mFastTrackAvailMask' \subseteq FastSlots
        BY <1>1, <1>2, <2>1
      <3> QED BY <1>1, <1>2, <2>2, <3>1, SameThread DEF VarsOK
    <2>4. SlotInv'
      <3>1. (handles \cup mActiveTracks)' = (handles \cup mActiveTracks) \ {t}
        BY <1>2, <1>4
      <3>2. Alive' \subseteq born' /\ (tDo' = "prepare" => tracksToRemove' \subseteq mActiveTracks')
        BY <1>1, <1>2 DEF SlotInv, Alive, mixer
      <3>3. ASSUME NEW u \in (handles \cup mActiveTracks) \ {t}
            PROVE  fastIndex'[u] \in FastSlots \ mFastTrackAvailMask'
        BY <1>1, <1>2, <2>1, <2>2 DEF SlotInv
      <3>4. ASSUME NEW u \in (handles \cup mActiveTracks) \ {t},
                   NEW v \in (handles \cup mActiveTracks) \ {t}, fastIndex'[u] = fastIndex'[v]
            PROVE  u = v
        BY <1>1, <2>2, <3>4 DEF SlotInv
      <3> QED BY <3>1, <3>2, <3>3, <3>4 DEF SlotInv
    <2>5. TracksInv'
      BY <1>2, <1>4, <2>2, ActiveGrows
    <2> QED BY <1>2, <2>3, <2>4, <2>5, TracksFrame
  <1> QED BY <1>3, <1>4

-------------------------------------------------------------------------------
(* The normal mixer between its pushes.                                    *)

\* The thread is where ControlInv says.
LEMMA ControlFacts ==
    ASSUME IInv
    PROVE  /\ tPc \in {"loop", "push", "ack", "pushed", "mixed", "written", "wake", "woken"}
           /\ tDo \in {"none", "prepare", "write", "standby", "exit"}
           /\ tBlock \in {"NEVER", "PUSHED", "ACKED"}
           /\ Mutating.command \in {"COLD_IDLE", "MIX_WRITE", "EXIT"}
           /\ Mutating.coldGen \in Nat /\ mColdGen \in Nat /\ asleep \in BOOLEAN
  <1>1. Mutating \in FastState
    BY StateTyped DEF IInv
  <1>2. Mutating.command \in Commands /\ Mutating.coldGen \in Nat
    BY <1>1, StateFields
  <1> QED BY <1>2 DEF IInv, VarsOK, ControlInv, Commands

\* A step of the thread that leaves the ring and the tracks alone.
LEMMA ThreadFrame ==
    ASSUME IInv, UNCHANGED <<ring, polling, tracks, oPc, fast>>,
           tPc' \in {"loop", "push", "ack", "pushed", "mixed", "written", "wake", "woken"},
           tDo' \in {"none", "prepare", "write", "standby", "exit"},
           tBlock' \in {"NEVER", "PUSHED", "ACKED"}, asleep' \in BOOLEAN,
           tDo' # "prepare", ~Waiting, ~Waiting',
           tPc' \in {"wake", "woken", "push"} /\ tBlock' = "PUSHED" /\ Mixing(Published) =>
               Grown(Published, Mutating)
    PROVE  VarsOK' /\ SlotInv' /\ TracksInv'
  <1>1. /\ QueueTypeOK(FastState)' /\ Mutating' = Mutating /\ Published' = Published
        /\ Acked' = Acked /\ mCurrent' = mCurrent
    BY QueueFrame
  <1>2. VarsOK'
    BY <1>1 DEF IInv, VarsOK, tracks, fast
  <1>3. SlotInv'
    BY DEF IInv, SlotInv, Alive, tracks
  <1>4. TracksInv'
    BY <1>1 DEF IInv, TracksInv, tracks, Mixing, Within, Grown
  <1> QED BY <1>2, <1>3, <1>4

LEMMA WriteIInv == ASSUME IInv, Write PROVE IInv'
  <1>1. /\ UNCHANGED <<ring, polling, tracks, oPc, fast>> /\ asleep' = asleep
        /\ tPc = "mixed" /\ tPc' \in {"wake", "woken"} /\ tDo' = "write" /\ tBlock' = "PUSHED"
        /\ Mutating.command # "MIX_WRITE" /\ mFastMixerFutex' = mFastMixerFutex + 1
    BY DEF Write
  <1>2. ControlInv /\ DirtyInv /\ QuietInv /\ (Prompt => FutexInv)
    BY DEF IInv
  <1>3. /\ UsedInv' /\ RingInv' /\ PreviousInv' /\ ObeyInv' /\ LineInv' /\ BoundInv'
        /\ Mutating' = Mutating /\ Published' = Published /\ Acked' = Acked
        /\ State(oCurrent)' = State(oCurrent) /\ mCurrent' = mCurrent
        /\ mStates'[polled'] = mStates[polled] /\ mIsDirty' = mIsDirty
        /\ mColdGen' = mColdGen /\ oPc' = oPc
    BY <1>1, QueueFrame
  <1>4. tDo = "none" /\ Mutating.command = "COLD_IDLE" /\ asleep' \in BOOLEAN
    BY <1>1, <1>2, ControlFacts DEF ControlInv
  <1>5. Quiet /\ Published.command = "COLD_IDLE"
    BY <1>2, <1>4 DEF Quiet, QuietInv
  <1>6. VarsOK' /\ SlotInv' /\ TracksInv'
    BY <1>1, <1>4, <1>5, ThreadFrame DEF Waiting, Mixing
  <1>7. ControlInv' /\ DirtyInv' /\ QuietInv'
    BY <1>1, <1>2, <1>3, <1>4, <1>5 DEF ControlInv, DirtyInv, QuietInv, Quiet
  <1>8. Prompt => FutexInv'
    BY <1>1, <1>2, <1>3, <1>4 DEF FutexInv, Increased, Decreased, Bit
  <1> QED BY <1>3, <1>6, <1>7, <1>8 DEF IInv

LEMMA ExitIInv == ASSUME IInv, Exit PROVE IInv'
  <1>1. /\ UNCHANGED <<ring, polling, tracks, oPc, fast>> /\ asleep' = asleep
        /\ tPc = "loop" /\ tPc' \in {"wake", "woken"} /\ tDo' = "exit" /\ tBlock' = "PUSHED"
        /\ tDo = "none"
        /\ \/ Mutating.command = "COLD_IDLE" /\ mFastMixerFutex' = mFastMixerFutex + 1
           \/ Mutating.command # "COLD_IDLE" /\ mFastMixerFutex' = mFastMixerFutex
    BY DEF Exit
  <1>2. ControlInv /\ DirtyInv /\ QuietInv /\ (Prompt => FutexInv)
    BY DEF IInv
  <1>3. /\ UsedInv' /\ RingInv' /\ PreviousInv' /\ ObeyInv' /\ LineInv' /\ BoundInv'
        /\ Mutating' = Mutating /\ Published' = Published /\ Acked' = Acked
        /\ State(oCurrent)' = State(oCurrent) /\ mCurrent' = mCurrent
        /\ mStates'[polled'] = mStates[polled] /\ mIsDirty' = mIsDirty
        /\ mColdGen' = mColdGen /\ oPc' = oPc
    BY <1>1, QueueFrame
  <1>4. Mutating.command \in {"COLD_IDLE", "MIX_WRITE"} /\ asleep' \in BOOLEAN
    BY <1>1, <1>2, ControlFacts DEF ControlInv
  <1>5. Mixing(Published) => Grown(Published, Mutating)
    <2>1. CASE Mutating.command = "COLD_IDLE"
      BY <1>1, <1>2, <2>1 DEF Quiet, QuietInv, Mixing
    <2>2. CASE Mutating.command # "COLD_IDLE"
      <3>1. Published = Mutating
        BY <1>1, <1>2, <2>2 DEF DirtyInv
      <3> QED BY <3>1 DEF Grown
    <2> QED BY <2>1, <2>2
  <1>6. VarsOK' /\ SlotInv' /\ TracksInv'
    BY <1>1, <1>4, <1>5, ThreadFrame DEF Waiting
  <1>7. ControlInv' /\ DirtyInv' /\ QuietInv'
    BY <1>1, <1>2, <1>3, <1>4 DEF ControlInv, DirtyInv, QuietInv, Quiet
  <1>8. Prompt => FutexInv'
    BY <1>1, <1>2, <1>3, <1>4 DEF FutexInv, Increased, Decreased, Bit
  <1> QED BY <1>3, <1>6, <1>7, <1>8 DEF IInv

LEMMA WakeIInv == ASSUME IInv, Wake PROVE IInv'
  <1>1. /\ UNCHANGED <<ring, polling, tracks, oPc, fast, tDo, tBlock, mFastMixerFutex>>
        /\ tPc = "wake" /\ tPc' = "woken" /\ asleep' \in BOOLEAN
    BY DEF Wake
  <1>2. ControlInv /\ DirtyInv /\ QuietInv /\ TracksInv /\ (Prompt => FutexInv)
    BY DEF IInv
  <1>3. /\ UsedInv' /\ RingInv' /\ PreviousInv' /\ ObeyInv' /\ LineInv' /\ BoundInv'
        /\ Mutating' = Mutating /\ Published' = Published /\ Acked' = Acked
        /\ State(oCurrent)' = State(oCurrent) /\ mCurrent' = mCurrent
        /\ mStates'[polled'] = mStates[polled] /\ mIsDirty' = mIsDirty
        /\ mColdGen' = mColdGen /\ oPc' = oPc
    BY <1>1, QueueFrame
  <1>4. tDo \in {"write", "exit"} /\ tBlock = "PUSHED"
    BY <1>1, <1>2, ControlFacts DEF ControlInv
  <1>5. Mixing(Published) => Grown(Published, Mutating)
    BY <1>1, <1>2, <1>4 DEF TracksInv
  <1>6. VarsOK' /\ SlotInv' /\ TracksInv'
    BY <1>1, <1>4, <1>5, ThreadFrame DEF Waiting
  <1>7. ControlInv' /\ DirtyInv' /\ QuietInv'
    BY <1>1, <1>2, <1>3, <1>4 DEF ControlInv, DirtyInv, QuietInv, Quiet
  <1>8. Prompt => FutexInv'
    BY <1>1, <1>2, <1>3 DEF FutexInv, Increased, Decreased
  <1> QED BY <1>3, <1>6, <1>7, <1>8 DEF IInv

LEMMA ReturnIInv == ASSUME IInv, Return PROVE IInv'
  <1>1. /\ UNCHANGED <<ring, polling, tracks, oPc, fast, tBlock, mFastMixerFutex>>
        /\ asleep' = asleep /\ tPc = "pushed" /\ tDo \in {"standby", "write"} /\ tDo' = "none"
        /\ tPc' \in {"written", "loop"}
    BY DEF Return
  <1>2. ControlInv /\ DirtyInv /\ QuietInv /\ (Prompt => FutexInv)
    BY DEF IInv
  <1>3. /\ UsedInv' /\ RingInv' /\ PreviousInv' /\ ObeyInv' /\ LineInv' /\ BoundInv'
        /\ Mutating' = Mutating /\ Published' = Published /\ Acked' = Acked
        /\ State(oCurrent)' = State(oCurrent) /\ mCurrent' = mCurrent
        /\ mStates'[polled'] = mStates[polled] /\ mIsDirty' = mIsDirty
        /\ mColdGen' = mColdGen /\ oPc' = oPc
    BY <1>1, QueueFrame
  <1>4. tBlock \in {"NEVER", "PUSHED", "ACKED"} /\ asleep' \in BOOLEAN
    BY <1>1, ControlFacts
  <1>5. VarsOK' /\ SlotInv' /\ TracksInv'
    BY <1>1, <1>4, ThreadFrame DEF Waiting
  <1>6. ControlInv' /\ DirtyInv' /\ QuietInv'
    BY <1>1, <1>2, <1>3 DEF ControlInv, DirtyInv, QuietInv, Quiet
  <1>7. Prompt => FutexInv'
    BY <1>1, <1>2, <1>3 DEF FutexInv, Increased, Decreased
  <1> QED BY <1>3, <1>5, <1>6, <1>7 DEF IInv

LEMMA DropIInv == ASSUME IInv, Drop PROVE IInv'
  <1>1. /\ UNCHANGED <<ring, polling, oPc, fast, tDo, tBlock, mFastMixerFutex, asleep>>
        /\ UNCHANGED <<handles, mActiveTracks, fastIndex, mFastTrackAvailMask, born>>
        /\ tPc \in {"mixed", "written"} /\ tPc' = "loop" /\ tracksToRemove' = {}
    BY DEF Drop
  <1>2. ControlInv /\ DirtyInv /\ QuietInv /\ SlotInv /\ TracksInv /\ (Prompt => FutexInv)
    BY DEF IInv
  <1>3. /\ UsedInv' /\ RingInv' /\ PreviousInv' /\ ObeyInv' /\ LineInv' /\ BoundInv'
        /\ QueueTypeOK(FastState)'
        /\ Mutating' = Mutating /\ Published' = Published /\ Acked' = Acked
        /\ State(oCurrent)' = State(oCurrent) /\ mCurrent' = mCurrent
        /\ mStates'[polled'] = mStates[polled] /\ mIsDirty' = mIsDirty
        /\ mColdGen' = mColdGen /\ oPc' = oPc
    BY <1>1, QueueFrame
  <1>4. VarsOK'
    BY <1>1, <1>3 DEF IInv, VarsOK, fast
  <1>5. SlotInv'
    BY <1>1, <1>2 DEF SlotInv, Alive
  <1>6. TracksInv'
    BY <1>1, <1>2, <1>3 DEF TracksInv, Mixing, Within, Grown, Waiting
  <1>7. ControlInv' /\ DirtyInv' /\ QuietInv'
    BY <1>1, <1>2, <1>3 DEF ControlInv, DirtyInv, QuietInv, Quiet
  <1>8. Prompt => FutexInv'
    BY <1>1, <1>2, <1>3 DEF FutexInv, Increased, Decreased
  <1> QED BY <1>3, <1>4, <1>5, <1>6, <1>7, <1>8 DEF IInv

LEMMA RemoveIInv == ASSUME IInv, Remove PROVE IInv'
  <1> DEFINE dead == tracksToRemove \ handles
  <1>1. /\ UNCHANGED <<ring, polling, oPc, fast, tBlock, mFastMixerFutex, asleep>>
        /\ UNCHANGED <<handles, tracksToRemove, born>>
        /\ tPc = "pushed" /\ tDo = "prepare" /\ tPc' = "mixed" /\ tDo' = "none"
        /\ mActiveTracks' = mActiveTracks \ tracksToRemove
        /\ mFastTrackAvailMask' = mFastTrackAvailMask \cup {fastIndex[t] : t \in dead}
        /\ fastIndex' = [t \in Tracks |-> IF t \in dead THEN 0 ELSE fastIndex[t]]
    BY DEF Remove, Released
  <1>2. /\ ControlInv /\ DirtyInv /\ QuietInv /\ SlotInv /\ TracksInv /\ (Prompt => FutexInv)
        /\ VarsOK /\ fastIndex \in [Tracks -> FastSlots \cup {0}]
        /\ handles \subseteq Tracks /\ mActiveTracks \subseteq Tracks
        /\ mFastTrackAvailMask \subseteq FastSlots
    BY DEF IInv, VarsOK
  <1>3. /\ UsedInv' /\ RingInv' /\ PreviousInv' /\ ObeyInv' /\ LineInv' /\ BoundInv'
        /\ QueueTypeOK(FastState)'
        /\ Mutating' = Mutating /\ Published' = Published /\ Acked' = Acked
        /\ State(oCurrent)' = State(oCurrent) /\ mCurrent' = mCurrent
        /\ mStates'[polled'] = mStates[polled] /\ mIsDirty' = mIsDirty
        /\ mColdGen' = mColdGen /\ oPc' = oPc
    BY <1>1, QueueFrame
  <1>4. dead \subseteq mActiveTracks /\ tracksToRemove \subseteq mActiveTracks
    BY <1>1, <1>2 DEF SlotInv
  <1>5. /\ fastIndex' \in [Tracks -> FastSlots \cup {0}]
        /\ \A u \in Tracks \ dead : fastIndex'[u] = fastIndex[u]
    BY <1>1, <1>2
  <1>6. mFastTrackAvailMask' \subseteq FastSlots
    <2>1. \A t \in dead : fastIndex[t] \in FastSlots
      BY <1>2, <1>4 DEF SlotInv
    <2> HIDE DEF dead
    <2> QED BY <1>1, <1>2, <2>1
  <1>7. VarsOK'
    <2>1. mActiveTracks' \subseteq Tracks /\ tracksToRemove' \subseteq Tracks
      BY <1>1, <1>2, <1>4
    <2> QED BY <1>1, <1>2, <1>3, <1>5, <1>6, <2>1 DEF VarsOK, fast
  <1>8. SlotInv'
    <2>1. (handles \cup mActiveTracks)' \subseteq (handles \cup mActiveTracks) \ dead
      BY <1>1
    <2>2. Alive' \subseteq born' /\ tDo' # "prepare"
      BY <1>1, <1>2 DEF SlotInv, Alive
    <2>3. ASSUME NEW u \in (handles \cup mActiveTracks) \ dead
          PROVE  fastIndex'[u] \in FastSlots \ mFastTrackAvailMask' /\ fastIndex'[u] = fastIndex[u]
      BY <1>1, <1>2, <1>4, <1>5 DEF SlotInv
    <2>4. ASSUME NEW u \in (handles \cup mActiveTracks) \ dead,
                 NEW v \in (handles \cup mActiveTracks) \ dead, fastIndex'[u] = fastIndex'[v]
          PROVE  u = v
      BY <1>2, <2>3, <2>4 DEF SlotInv
    <2> QED BY <2>1, <2>2, <2>3, <2>4 DEF SlotInv
  <1>9. TracksInv'
    <2>1. ASSUME NEW j \in FastSlots, Mutating.provider[j] # NoTrack
          PROVE  /\ Mutating.provider[j] \in mActiveTracks'
                 /\ fastIndex'[Mutating.provider[j]] = j
      BY <1>1, <1>2, <1>4, <1>5, <2>1 DEF TracksInv
    <2>2. Mixing(Published) => Within(Published, mActiveTracks')
      <3>1. Mixing(Published) => Published = Mutating
        BY <1>1, <1>2 DEF DirtyInv, QuietInv, Quiet, Mixing
      <3> QED BY <2>1, <3>1 DEF Within
    <2>3. mCurrent # Null /\ Mixing(Acked) =>
              Within(Acked, mActiveTracks') /\ Grown(Acked, Published)
      <3> SUFFICES ASSUME mCurrent # Null, Mixing(Acked)
                   PROVE  Within(Acked, mActiveTracks') /\ Grown(Acked, Published)
        OBVIOUS
      <3>1. Grown(Acked, Published)
        BY <1>1, <1>2 DEF TracksInv, Waiting
      <3>2. Published = Mutating
        BY <1>1, <1>2 DEF DirtyInv, QuietInv, Quiet, Mixing
      <3> QED BY <2>1, <3>1, <3>2 DEF Within, Grown
    <2> QED BY <1>1, <1>3, <2>1, <2>2, <2>3 DEF TracksInv, Mixing, Within, Grown
  <1>10. ControlInv' /\ DirtyInv' /\ QuietInv'
    BY <1>1, <1>2, <1>3 DEF ControlInv, DirtyInv, QuietInv, Quiet
  <1>11. Prompt => FutexInv'
    BY <1>1, <1>2, <1>3 DEF FutexInv, Increased, Decreased
  <1> QED BY <1>3, <1>7, <1>8, <1>9, <1>10, <1>11 DEF IInv

-------------------------------------------------------------------------------
(* The normal mixer changes and pushes the state.                          *)

\* A change of the command alone.
LEMMA CommandFacts ==
    ASSUME IInv, NEW c \in Commands \ {"INITIAL"}, NEW g \in 0..MaxIdle
    PROVE  LET state == [Mutating EXCEPT !.command = c, !.coldGen = g] IN
           /\ state \in FastState /\ state.command = c /\ state.coldGen = g
           /\ state.provider = Mutating.provider
           /\ Later(Mutating, state)
           /\ \A j \in FastSlots : state.generation[j] <= state.tracksGen
  <1> DEFINE state == [Mutating EXCEPT !.command = c, !.coldGen = g]
  <1>1. Mutating \in FastState /\ LineInv
    BY StateTyped DEF IInv
  <1>2. /\ state \in FastState /\ state.command = c /\ state.coldGen = g
        /\ state.provider = Mutating.provider /\ state.tracksGen = Mutating.tracksGen
        /\ state.generation = Mutating.generation
    BY <1>1 DEF FastState
  <1> HIDE DEF state
  <1>3. Later(Mutating, state)
    <2>1. Later(Mutating, Mutating)
      BY <1>1, LaterReflexive
    <2> QED BY <1>2, <2>1 DEF Later
  <1>4. \A j \in FastSlots : state.generation[j] <= state.tracksGen
    BY <1>1, <1>2 DEF LineInv
  <1> QED BY <1>2, <1>3, <1>4 DEF state

LEMMA CommandIInv == ASSUME IInv, Command PROVE IInv'
  <1> DEFINE c == IF tDo = "exit" THEN "EXIT" ELSE "MIX_WRITE"
             state == [Mutating EXCEPT !.command = c, !.coldGen = Mutating.coldGen]
  <1>1. /\ UNCHANGED <<polling, oPc, fast>> /\ UNCHANGED <<tDo, tBlock, mFastMixerFutex, asleep>>
        /\ UNCHANGED tracks /\ tPc = "woken" /\ tPc' = "push"
    BY DEF Command
  <1>2. /\ VarsOK /\ ControlInv /\ DirtyInv /\ QuietInv /\ SlotInv /\ TracksInv
        /\ RingInv /\ (Prompt => FutexInv) /\ Mutating \in FastState
    BY StateTyped DEF IInv
  <1>3. c \in Commands \ {"INITIAL"} /\ c # "COLD_IDLE" /\ (c = "EXIT" <=> tDo = "exit")
    BY DEF Commands
  <1>4. Mutating.coldGen \in 0..MaxIdle
    BY <1>2, StateFields
  <1>5. Mutate(state)
    <2>1. state = [Mutating EXCEPT !.command = c]
      BY <1>2 DEF FastState
    <2> QED BY <2>1 DEF Command
  <1> HIDE DEF c
  <1>6. /\ state \in FastState /\ state.command = c /\ state.coldGen = Mutating.coldGen
        /\ state.provider = Mutating.provider /\ Later(Mutating, state)
        /\ \A j \in FastSlots : state.generation[j] <= state.tracksGen
    BY <1>3, <1>4, CommandFacts
  <1> HIDE DEF state
  <1>7. /\ UsedInv' /\ RingInv' /\ PreviousInv' /\ ObeyInv' /\ LineInv' /\ BoundInv'
        /\ QueueTypeOK(FastState)' /\ Mutating' = state /\ Published' = Published
        /\ mCurrent' = mCurrent /\ (mCurrent # Null => Acked' = Acked)
        /\ State(oCurrent)' = State(oCurrent) /\ mIsDirty' = TRUE
        /\ polled' = polled /\ (polled # Null => mStates'[polled'] = mStates[polled])
        /\ mColdGen' = mColdGen /\ oPc' = oPc
    BY <1>1, <1>3, <1>5, <1>6, MutateFrame
  <1>8. tDo \in {"write", "exit"} /\ tBlock = "PUSHED"
    BY <1>1, <1>2, ControlFacts DEF ControlInv
  <1>9. VarsOK'
    BY <1>1, <1>2, <1>7 DEF VarsOK, tracks, fast
  <1>10. SlotInv'
    BY <1>1, <1>2 DEF SlotInv, Alive, tracks
  <1>11. TracksInv'
    BY <1>1, <1>2, <1>6, <1>7, <1>8 DEF TracksInv, tracks, Mixing, Within, Grown, Waiting
  <1>12. ControlInv' /\ DirtyInv' /\ QuietInv'
    BY <1>1, <1>2, <1>3, <1>6, <1>7, <1>8 DEF ControlInv, DirtyInv, QuietInv, Quiet
  <1>13. Prompt => FutexInv'
    <2>1. oPc \in {"ack", "adopt"} => polled # Null
      BY <1>2 DEF RingInv
    <2>2. Increased /\ Increased' /\ (Decreased' <=> Decreased)
      BY <1>1, <1>3, <1>6, <1>7 DEF Increased, Decreased
    <2> QED BY <1>1, <1>2, <1>6, <1>7, <2>1, <2>2 DEF FutexInv, Bit
  <1> QED BY <1>7, <1>9, <1>10, <1>11, <1>12, <1>13 DEF IInv

LEMMA StandbyIInv == ASSUME IInv, Standby PROVE IInv'
  <1> DEFINE g == Mutating.coldGen + 1
             state == [Mutating EXCEPT !.command = "COLD_IDLE", !.coldGen = g]
  <1>1. /\ UNCHANGED <<polling, oPc, fast>> /\ UNCHANGED <<tracks, asleep>>
        /\ tPc = "loop" /\ tPc' = "push" /\ tDo = "none" /\ tDo' = "standby"
        /\ tBlock' = "ACKED" /\ mFastMixerFutex' = 0 /\ Mutating.command # "COLD_IDLE"
        /\ Mutating.coldGen < MaxIdle /\ (Prompt => ~ColdPending)
    BY DEF Standby, StandbyBlock, Idle
  <1>2. /\ VarsOK /\ ControlInv /\ DirtyInv /\ QuietInv /\ SlotInv /\ TracksInv
        /\ RingInv /\ ObeyInv /\ (Prompt => FutexInv) /\ Mutating \in FastState
        /\ State(oCurrent) \in FastState
    BY StateTyped DEF IInv
  <1>3. Mutating.coldGen \in 0..MaxIdle /\ State(oCurrent).coldGen \in 0..MaxIdle
        /\ mColdGen \in 0..MaxIdle
    BY <1>2, StateFields DEF VarsOK
  <1>4. g \in 0..MaxIdle /\ "COLD_IDLE" \in Commands \ {"INITIAL"}
    BY <1>1, <1>3 DEF Commands
  <1>5. Mutate(state)
    BY DEF Standby
  <1>6. g = Mutating.coldGen + 1
    OBVIOUS
  <1> HIDE DEF g
  <1>7. /\ state \in FastState /\ state.command = "COLD_IDLE" /\ state.coldGen = g
        /\ state.provider = Mutating.provider /\ Later(Mutating, state)
        /\ \A j \in FastSlots : state.generation[j] <= state.tracksGen
    BY <1>4, CommandFacts
  <1> HIDE DEF state
  <1>8. /\ UsedInv' /\ RingInv' /\ PreviousInv' /\ ObeyInv' /\ LineInv' /\ BoundInv'
        /\ QueueTypeOK(FastState)' /\ Mutating' = state /\ Published' = Published
        /\ mCurrent' = mCurrent /\ (mCurrent # Null => Acked' = Acked)
        /\ State(oCurrent)' = State(oCurrent) /\ mIsDirty' = TRUE
        /\ polled' = polled /\ (polled # Null => mStates'[polled'] = mStates[polled])
        /\ mColdGen' = mColdGen /\ oPc' = oPc
    BY <1>1, <1>5, <1>7, MutateFrame
  <1>9. Published = Mutating
    BY <1>1, <1>2 DEF DirtyInv
  <1>10. VarsOK'
    BY <1>1, <1>2, <1>8 DEF VarsOK, tracks, fast
  <1>11. SlotInv'
    BY <1>1, <1>2 DEF SlotInv, Alive, tracks
  <1>12. TracksInv'
    BY <1>1, <1>2, <1>7, <1>8 DEF TracksInv, tracks, Mixing, Within, Grown, Waiting
  <1>13. ControlInv' /\ DirtyInv' /\ QuietInv'
    BY <1>1, <1>2, <1>7, <1>8 DEF ControlInv, DirtyInv, QuietInv, Quiet
  <1>14. Prompt => FutexInv'
    <2> SUFFICES ASSUME Prompt PROVE FutexInv'
      OBVIOUS
    <2>1. /\ oPc # "cold"
          /\ oPc \in {"ack", "adopt"} => /\ polled # Null
                                         /\ ~(mStates[polled].command = "COLD_IDLE"
                                               /\ mStates[polled].coldGen # mColdGen)
      BY <1>1, <1>2 DEF ColdPending, RingInv
    <2>2. ~Increased' /\ ~Decreased'
      BY <1>1, <1>2, <1>3, <1>6, <1>7, <1>8 DEF Increased, Decreased, FutexInv
    <2> QED BY <1>1, <1>2, <1>3, <1>6, <1>7, <1>8, <1>9, <2>1, <2>2 DEF FutexInv, Bit
  <1> QED BY <1>8, <1>10, <1>11, <1>12, <1>13, <1>14 DEF IInv

\* prepareTracks_l() puts the active tracks that go on, and no others, in the
\* slots that are theirs, with new generations where something changes.
LEMMA PlacedFacts ==
    ASSUME IInv, NEW gone \in SUBSET mActiveTracks
    PROVE  LET next == Placed(Mutating, gone) IN
           /\ next.command = Mutating.command /\ next.coldGen = Mutating.coldGen
           /\ next.tracksGen <= MaxGen => next \in FastState
           /\ next.tracksGen <= MaxGen => Later(Mutating, next)
           /\ \A j \in FastSlots : next.generation[j] <= next.tracksGen
           /\ \A j \in FastSlots : next.provider[j] # NoTrack =>
                  /\ next.provider[j] \in mActiveTracks \ gone
                  /\ fastIndex[next.provider[j]] = j
           /\ BlockFor(Mutating, gone) = "PUSHED" => Grown(Mutating, next)
           /\ BlockFor(Mutating, gone) \in {"NEVER", "PUSHED", "ACKED"}
           /\ BlockFor(Mutating, gone) = "NEVER" <=> Mutating.command = "COLD_IDLE"
  <1> DEFINE s == Mutating
             owner(j) == CHOOSE t \in mActiveTracks : fastIndex[t] = j
             owned == {fastIndex[t] : t \in mActiveTracks}
             wanted == [j \in FastSlots |->
                         IF j \notin owned THEN s.provider[j]
                         ELSE IF owner(j) \in gone THEN NoTrack
                         ELSE IF s.provider[j] = NoTrack THEN owner(j)
                         ELSE s.provider[j]]
             gen == [j \in FastSlots |->
                       IF wanted[j] # s.provider[j] THEN s.generation[j] + 1
                       ELSE s.generation[j]]
             n == s.tracksGen + 1
             next == [s EXCEPT !.provider = wanted, !.tracksGen = n, !.generation = gen]
  <1>1. /\ s \in FastState /\ SlotInv /\ TracksInv /\ LineInv
        /\ mActiveTracks \subseteq Tracks
    BY StateTyped DEF IInv, VarsOK
  <1>2. /\ s.provider \in [FastSlots -> Tracks \cup {NoTrack}]
        /\ s.generation \in [FastSlots -> 0..MaxGen] /\ s.tracksGen \in 0..MaxGen
        /\ \A j \in FastSlots : s.generation[j] <= s.tracksGen
    BY <1>1, StateFields DEF LineInv
  <1>3. Placed(s, gone) = next
    BY DEF Placed
  <1>4. ASSUME NEW j \in owned PROVE owner(j) \in mActiveTracks /\ fastIndex[owner(j)] = j
    <2>1. \E t \in mActiveTracks : fastIndex[t] = j
      BY <1>4
    <2> QED BY <2>1
  <1>5. \A j \in FastSlots : s.provider[j] # NoTrack =>
            /\ s.provider[j] \in mActiveTracks /\ fastIndex[s.provider[j]] = j
            /\ j \in owned
    BY <1>1 DEF TracksInv
  <1> HIDE DEF owned
  <1>6. \A j \in FastSlots : s.provider[j] # NoTrack => owner(j) = s.provider[j]
    BY <1>1, <1>4, <1>5 DEF SlotInv
  <1> HIDE DEF owner
  <1>7. ASSUME NEW j \in FastSlots, wanted[j] # NoTrack
        PROVE  /\ wanted[j] \in mActiveTracks \ gone
               /\ fastIndex[wanted[j]] = j
    BY <1>1, <1>4, <1>5, <1>6, <1>7
  <1>8. wanted \in [FastSlots -> Tracks \cup {NoTrack}]
    <2>1. \A j \in FastSlots : wanted[j] \in Tracks \cup {NoTrack}
      BY <1>1, <1>7
    <2>2. wanted = [j \in FastSlots |-> wanted[j]]
      OBVIOUS
    <2> HIDE DEF wanted
    <2> QED BY <2>1, <2>2
  <1>9. ASSUME NEW j \in FastSlots, \A t \in gone : s.provider[fastIndex[t]] = NoTrack
        PROVE  s.provider[j] \in {NoTrack, wanted[j]}
    BY <1>5, <1>6, <1>9
  <1> HIDE DEF wanted
  <1>10. /\ \A j \in FastSlots : gen[j] \in Nat /\ gen[j] <= n /\ s.generation[j] <= gen[j]
         /\ \A j \in FastSlots : gen[j] = s.generation[j] => wanted[j] = s.provider[j]
         /\ n \in Nat /\ s.tracksGen < n
    <2>1. s.tracksGen \in Nat /\ n = s.tracksGen + 1
      BY <1>2
    <2>2. ASSUME NEW j \in FastSlots
          PROVE  /\ gen[j] \in Nat /\ gen[j] <= n /\ s.generation[j] <= gen[j]
                 /\ gen[j] = s.generation[j] => wanted[j] = s.provider[j]
      <3>1. s.generation[j] \in Nat /\ s.generation[j] <= s.tracksGen
        <4>1. s.generation[j] <= s.tracksGen
          BY <1>2
        <4>2. s.generation \in [FastSlots -> 0..MaxGen]
          BY <1>2
        <4> HIDE DEF s
        <4>3. s.generation[j] \in 0..MaxGen
          BY <4>2
        <4> QED BY <4>1, <4>3
      <3>2. gen[j] = IF wanted[j] # s.provider[j] THEN s.generation[j] + 1 ELSE s.generation[j]
        OBVIOUS
      <3> HIDE DEF gen, n, s
      <3> QED BY <2>1, <3>1, <3>2
    <2>3. n \in Nat /\ s.tracksGen < n
      BY <2>1
    <2> HIDE DEF gen, n, s
    <2> QED BY <2>2, <2>3, Zenon
  <1>11. gen = [j \in FastSlots |-> gen[j]]
    OBVIOUS
  <1> HIDE DEF gen, n
  <1>12. /\ next.command = s.command /\ next.coldGen = s.coldGen
         /\ next.provider = wanted /\ next.tracksGen = n /\ next.generation = gen
    BY <1>1 DEF FastState
  <1>13. n <= MaxGen => next \in FastState
    <2> SUFFICES ASSUME n <= MaxGen PROVE next \in FastState
      OBVIOUS
    <2>1. n \in 0..MaxGen
      BY <1>10
    <2>2. gen \in [FastSlots -> 0..MaxGen]
      <3>1. \A j \in FastSlots : gen[j] \in 0..MaxGen
        BY <1>10
      <3> QED BY <1>11, <3>1
    <2> QED BY <1>1, <1>8, <2>1, <2>2 DEF FastState
  <1>14. Later(s, next)
    <2>1. s.tracksGen \in Nat /\ n \in Nat /\ s.tracksGen < n
      BY <1>2, <1>10
    <2> HIDE DEF s, next
    <2>2. s.tracksGen <= next.tracksGen /\ s.tracksGen # next.tracksGen
      BY <1>12, <2>1
    <2>3. ASSUME NEW j \in FastSlots
          PROVE  /\ s.generation[j] <= next.generation[j]
                 /\ s.generation[j] = next.generation[j] => s.provider[j] = next.provider[j]
      BY <1>10, <1>12, <2>3, Zenon
    <2> QED BY <2>2, <2>3, Zenon DEF Later
  <1>15. BlockFor(s, gone) = "PUSHED" => Grown(s, next)
    <2> SUFFICES ASSUME BlockFor(s, gone) = "PUSHED" PROVE Grown(s, next)
      OBVIOUS
    <2>1. \A t \in gone : s.provider[fastIndex[t]] = NoTrack
      BY DEF BlockFor
    <2> QED BY <1>9, <1>12, <2>1 DEF Grown
  <1>16. /\ BlockFor(s, gone) \in {"NEVER", "PUSHED", "ACKED"}
         /\ BlockFor(s, gone) = "NEVER" <=> s.command = "COLD_IDLE"
    BY DEF BlockFor
  <1> HIDE DEF next
  <1>17. /\ \A j \in FastSlots : next.generation[j] <= next.tracksGen
         /\ \A j \in FastSlots : next.provider[j] # NoTrack =>
                  /\ next.provider[j] \in mActiveTracks \ gone
                  /\ fastIndex[next.provider[j]] = j
    BY <1>7, <1>10, <1>12
  <1> QED BY <1>3, <1>12, <1>13, <1>14, <1>15, <1>16, <1>17

LEMMA PrepareIInv == ASSUME IInv, Prepare PROVE IInv'
  <1>1. PICK gone \in SUBSET mActiveTracks :
            /\ IF Placed(Mutating, gone).provider = Mutating.provider THEN Inspect
               ELSE Placed(Mutating, gone).tracksGen <= MaxGen /\ Mutate(Placed(Mutating, gone))
            /\ tBlock' = BlockFor(Mutating, gone)
            /\ tracksToRemove' = gone
    BY DEF Prepare
  <1> DEFINE next == Placed(Mutating, gone)
  <1>2. /\ UNCHANGED <<polling, oPc, fast>> /\ UNCHANGED <<mFastMixerFutex, asleep>>
        /\ UNCHANGED <<handles, mActiveTracks, fastIndex, born, mFastTrackAvailMask>>
        /\ tPc = "loop" /\ tDo = "none" /\ tPc' = "push" /\ tDo' = "prepare"
    BY DEF Prepare
  <1>3. /\ VarsOK /\ ControlInv /\ DirtyInv /\ QuietInv /\ SlotInv /\ TracksInv
        /\ RingInv /\ (Prompt => FutexInv) /\ Mutating \in FastState
    BY StateTyped DEF IInv
  <1>4. /\ next.command = Mutating.command /\ next.coldGen = Mutating.coldGen
        /\ next.tracksGen <= MaxGen => next \in FastState
        /\ next.tracksGen <= MaxGen => Later(Mutating, next)
        /\ \A j \in FastSlots : next.generation[j] <= next.tracksGen
        /\ \A j \in FastSlots : next.provider[j] # NoTrack =>
               /\ next.provider[j] \in mActiveTracks \ gone
               /\ fastIndex[next.provider[j]] = j
        /\ tBlock' = "PUSHED" => Grown(Mutating, next)
        /\ tBlock' \in {"NEVER", "PUSHED", "ACKED"}
        /\ tBlock' = "NEVER" <=> Mutating.command = "COLD_IDLE"
    BY <1>1, PlacedFacts
  <1>5. /\ tracksToRemove' = gone
        /\ \/ next.provider = Mutating.provider /\ Inspect
           \/ next.tracksGen <= MaxGen /\ Mutate(next)
    BY <1>1
  <1> HIDE DEF next
  <1>6. /\ UsedInv' /\ RingInv' /\ PreviousInv' /\ ObeyInv' /\ LineInv' /\ BoundInv'
        /\ QueueTypeOK(FastState)' /\ Published' = Published
        /\ Mutating'.provider = next.provider /\ Mutating'.command = Mutating.command
        /\ Mutating'.coldGen = Mutating.coldGen /\ (mIsDirty' \/ (~mIsDirty /\ Mutating' = Mutating))
        /\ mCurrent' = mCurrent /\ (mCurrent # Null => Acked' = Acked)
        /\ State(oCurrent)' = State(oCurrent)
        /\ (polled # Null => mStates'[polled'] = mStates[polled])
        /\ mColdGen' = mColdGen /\ oPc' = oPc
    <2>1. CASE next.provider = Mutating.provider /\ Inspect
      <3>1. /\ UsedInv' /\ RingInv' /\ PreviousInv' /\ ObeyInv' /\ LineInv' /\ BoundInv'
            /\ QueueTypeOK(FastState)' /\ Mutating' = Mutating /\ Published' = Published
            /\ Acked' = Acked /\ State(oCurrent)' = State(oCurrent) /\ mCurrent' = mCurrent
            /\ mStates'[polled'] = mStates[polled] /\ mIsDirty' = mIsDirty
            /\ mColdGen' = mColdGen /\ oPc' = oPc
        BY <1>2, <2>1, QueueFrame DEF Inspect
      <3>2. mIsDirty \in BOOLEAN
        BY <1>3 DEF VarsOK, QueueTypeOK
      <3> QED BY <2>1, <3>1, <3>2
    <2>2. CASE next.tracksGen <= MaxGen /\ Mutate(next)
      <3>1. /\ UsedInv' /\ RingInv' /\ PreviousInv' /\ ObeyInv' /\ LineInv' /\ BoundInv'
            /\ QueueTypeOK(FastState)' /\ Mutating' = next /\ Published' = Published
            /\ mCurrent' = mCurrent /\ (mCurrent # Null => Acked' = Acked)
            /\ State(oCurrent)' = State(oCurrent) /\ mIsDirty' = TRUE
            /\ polled' = polled /\ (polled # Null => mStates'[polled'] = mStates[polled])
            /\ mColdGen' = mColdGen /\ oPc' = oPc
        BY <1>2, <1>3, <1>4, <2>2, MutateFrame DEF ControlInv
      <3>2. /\ Mutating'.provider = next.provider /\ Mutating'.command = Mutating.command
            /\ Mutating'.coldGen = Mutating.coldGen
        BY <1>4, <3>1
      <3> QED BY <3>1, <3>2
    <2> QED BY <1>5, <2>1, <2>2
  <1>7. VarsOK'
    <2>1. tracksToRemove' \subseteq Tracks
      BY <1>3, <1>5 DEF VarsOK
    <2> QED BY <1>2, <1>3, <1>4, <1>6, <2>1 DEF VarsOK, fast
  <1>8. SlotInv'
    <2>1. Alive' \subseteq born'
      BY <1>2, <1>3, <1>5 DEF SlotInv, Alive
    <2> QED BY <1>2, <1>3, <1>5, <2>1 DEF SlotInv
  <1>9. Mutating.command # "COLD_IDLE" => ~mIsDirty /\ Published = Mutating
    BY <1>2, <1>3 DEF DirtyInv
  <1>10. TracksInv'
    <2>1. ASSUME tBlock' = "PUSHED" PROVE Grown(Published, Mutating)'
      <3>1. Published = Mutating /\ Grown(Mutating, next)
        BY <1>4, <1>9, <2>1
      <3> QED BY <1>6, <3>1 DEF Grown
    <2>2. \A j \in FastSlots :
              Mutating'.provider[j] # NoTrack =>
                  /\ Mutating'.provider[j] \in mActiveTracks
                  /\ fastIndex[Mutating'.provider[j]] = j
                  /\ Mutating'.provider[j] \notin tracksToRemove'
      BY <1>4, <1>5, <1>6
    <2>3. mCurrent # Null /\ Mixing(Acked) =>
              Within(Acked, mActiveTracks) /\ Grown(Acked, Published)
      BY <1>2, <1>3 DEF TracksInv, Waiting
    <2> QED BY <1>2, <1>3, <1>6, <2>1, <2>2, <2>3 DEF TracksInv, Mixing, Within, Grown
  <1>11. ControlInv'
    BY <1>2, <1>3, <1>4, <1>6 DEF ControlInv
  <1>12. DirtyInv' /\ QuietInv'
    BY <1>2, <1>3, <1>6 DEF DirtyInv, QuietInv, Quiet
  <1>13. Prompt => FutexInv'
    <2>1. oPc \in {"ack", "adopt"} => polled # Null
      BY <1>3 DEF RingInv
    <2>2. (Increased' <=> Increased) /\ (Decreased' <=> Decreased)
      BY <1>2, <1>6 DEF Increased, Decreased
    <2> QED BY <1>2, <1>3, <1>6, <2>1, <2>2 DEF FutexInv, Bit
  <1> QED BY <1>6, <1>7, <1>8, <1>10, <1>11, <1>12, <1>13 DEF IInv

LEMMA PushIInv == ASSUME IInv, Push PROVE IInv'
  <1>1. /\ UNCHANGED <<polling, oPc, fast>> /\ UNCHANGED <<tDo, tBlock, mFastMixerFutex, asleep>>
        /\ UNCHANGED tracks /\ tPc = "push"
        /\ tPc' = IF tBlock = "ACKED" THEN "ack" ELSE "pushed"
        /\ Publish \/ NothingToPush \/ (tBlock = "NEVER" /\ GiveUp)
    BY DEF Push
  <1>2. /\ VarsOK /\ ControlInv /\ DirtyInv /\ QuietInv /\ SlotInv /\ TracksInv
        /\ RingInv /\ (Prompt => FutexInv) /\ mIsDirty \in BOOLEAN
    BY DEF IInv, VarsOK, QueueTypeOK
  <1>3. SlotInv'
    BY <1>1, <1>2 DEF SlotInv, Alive, tracks
  <1>4. CASE Publish
    <2>1. /\ UsedInv' /\ RingInv' /\ PreviousInv' /\ ObeyInv' /\ LineInv' /\ BoundInv'
          /\ QueueTypeOK(FastState)' /\ Mutating' = Mutating /\ Published' = Mutating
          /\ mCurrent' = mCurrent /\ mCurrent # Null /\ Acked = Published /\ Acked' = Acked
          /\ State(oCurrent)' = State(oCurrent) /\ mIsDirty' = FALSE
          /\ polled' = polled /\ mStates'[polled'] = mStates[polled]
          /\ mColdGen' = mColdGen /\ oPc' = oPc
      BY <1>1, <1>4, PublishFrame
    <2>2. VarsOK'
      BY <1>1, <1>2, <2>1 DEF VarsOK, tracks, fast
    <2>3. ControlInv' /\ DirtyInv'
      BY <1>1, <1>2, <2>1 DEF ControlInv, DirtyInv
    <2>4. QuietInv'
      BY <1>1, <1>2, <2>1 DEF ControlInv, QuietInv, Quiet
    <2>5. TracksInv'
      <3>1. \A j \in FastSlots :
                Mutating.provider[j] # NoTrack =>
                    /\ Mutating.provider[j] \in mActiveTracks
                    /\ fastIndex[Mutating.provider[j]] = j
                    /\ tDo = "prepare" => Mutating.provider[j] \notin tracksToRemove
        BY <1>2 DEF TracksInv
      <3>2. Within(Mutating, mActiveTracks)
        BY <3>1 DEF Within
      <3>3. ~Waiting' /\ Mixing(Acked) => Grown(Acked, Mutating)
        <4> SUFFICES ASSUME ~Waiting', Mixing(Acked) PROVE Grown(Acked, Mutating)
          OBVIOUS
        <4>1. tBlock # "ACKED" /\ Mixing(Published)
          BY <1>1, <2>1 DEF Waiting
        <4>2. tBlock # "NEVER"
          BY <1>1, <1>2, <4>1, ControlFacts DEF ControlInv, QuietInv, Quiet, Mixing
        <4>3. tBlock = "PUSHED"
          BY <4>1, <4>2, ControlFacts
        <4> QED BY <1>1, <1>2, <2>1, <4>1, <4>3 DEF TracksInv
      <3>4. Mixing(Acked) => Within(Acked, mActiveTracks)
        BY <1>2, <2>1 DEF TracksInv
      <3> QED BY <1>1, <2>1, <3>1, <3>2, <3>3, <3>4
                 DEF TracksInv, tracks, Mixing, Within, Grown
    <2>6. Prompt => FutexInv'
      <3>1. (Increased' <=> Increased) /\ (Decreased' <=> Decreased)
        BY <1>1, <2>1 DEF Increased, Decreased
      <3> QED BY <1>1, <1>2, <2>1, <3>1 DEF FutexInv, Bit
    <2> QED BY <1>3, <2>1, <2>2, <2>3, <2>4, <2>5, <2>6 DEF IInv
  <1>5. CASE NothingToPush \/ (tBlock = "NEVER" /\ GiveUp)
    <2>1. /\ UsedInv' /\ RingInv' /\ PreviousInv' /\ ObeyInv' /\ LineInv' /\ BoundInv'
          /\ QueueTypeOK(FastState)' /\ Mutating' = Mutating /\ Published' = Published
          /\ Acked' = Acked /\ State(oCurrent)' = State(oCurrent) /\ mCurrent' = mCurrent
          /\ mStates'[polled'] = mStates[polled] /\ mIsDirty' = mIsDirty
          /\ mColdGen' = mColdGen /\ oPc' = oPc
      BY <1>1, <1>5, QueueFrame DEF NothingToPush, GiveUp
    <2>2. mIsDirty => tBlock = "NEVER"
      BY <1>5 DEF NothingToPush
    <2>3. VarsOK'
      BY <1>1, <1>2, <2>1 DEF VarsOK, tracks, fast
    <2>4. tBlock = "NEVER" => tDo = "prepare" /\ Mutating.command = "COLD_IDLE"
      BY <1>1, <1>2, ControlFacts DEF ControlInv
    <2>5. ControlInv' /\ DirtyInv'
      BY <1>1, <1>2, <2>1, <2>2, <2>4 DEF ControlInv, DirtyInv
    <2>6. QuietInv'
      BY <1>1, <1>2, <2>1 DEF ControlInv, QuietInv, Quiet
    <2>7. TracksInv'
      BY <1>1, <1>2, <2>1 DEF TracksInv, tracks, Mixing, Within, Grown, Waiting
    <2>8. Prompt => FutexInv'
      BY <1>1, <1>2, <2>1 DEF FutexInv, Increased, Decreased
    <2> QED BY <1>3, <2>1, <2>3, <2>5, <2>6, <2>7, <2>8 DEF IInv
  <1> QED BY <1>1, <1>4, <1>5

\* The acknowledgement waited for has come: the state in use is the new one.
LEMMA PushAckedIInv == ASSUME IInv, PushAcked PROVE IInv'
  <1>1. /\ UNCHANGED <<mStates, mNext, mMutating, mIsDirty, mAck, mCurrent, polled>>
        /\ UNCHANGED <<oPc, oCurrent, oPrevious, mPreIdle, mColdGen, bound, mGenerations,
                       mFastTracksGen>>
        /\ UNCHANGED <<tDo, tBlock, mFastMixerFutex, asleep>> /\ UNCHANGED tracks
        /\ tPc = "ack" /\ tPc' = "pushed" /\ mExpecting' = Null /\ ~mIsDirty /\ PriorAcked
    BY DEF PushAcked, AwaitAck, polling, fast
  <1>2. IInv /\ Mutating \in FastState
    BY StateTyped DEF IInv
  <1>3. mCurrent = mNext /\ Acked = Published
    BY <1>1, WritesApart DEF Acked, Published
  <1>4. /\ Mutating' = Mutating /\ Published' = Published /\ Acked' = Acked
        /\ State(oCurrent)' = State(oCurrent) /\ State(oPrevious)' = State(oPrevious)
    BY <1>1 DEF Mutating, Published, Acked, State
  <1>5. Published = Mutating
    BY <1>1 DEF IInv, DirtyInv
  <1>6. VarsOK'
    <2>1. QueueTypeOK(FastState)'
      BY <1>1 DEF IInv, VarsOK, QueueTypeOK
    <2> QED BY <1>1, <2>1 DEF IInv, VarsOK, tracks
  <1>7. UsedInv' /\ RingInv'
    BY <1>1, <1>3 DEF IInv, UsedInv, RingInv
  <1>8. PreviousInv' /\ ObeyInv' /\ BoundInv'
    <2>1. PreviousInv' /\ ObeyInv'
      BY <1>1, <1>4 DEF IInv, PreviousInv, ObeyInv
    <2>2. BoundInv'
      BY <1>1, <1>4 DEF IInv, BoundInv, TrackMask
    <2> QED BY <2>1, <2>2
  <1>9. LineInv'
    <2>1. LineInv /\ mCurrent' = mCurrent
      BY <1>1 DEF IInv
    <2> QED BY <1>4, <2>1 DEF LineInv, Later
  <1>10. ControlInv' /\ DirtyInv'
    BY <1>1, <1>4 DEF IInv, ControlInv, DirtyInv
  <1>11. QuietInv'
    BY <1>3, <1>4, <1>5 DEF QuietInv, Quiet
  <1>12. SlotInv'
    BY <1>1 DEF IInv, SlotInv, Alive, tracks
  <1>13. TracksInv'
    BY <1>1, <1>3, <1>4 DEF IInv, TracksInv, tracks, Mixing, Within, Grown
  <1>14. Prompt => FutexInv'
    BY <1>1, <1>4 DEF IInv, FutexInv, Increased, Decreased
  <1> QED BY <1>6, <1>7, <1>8, <1>9, <1>10, <1>11, <1>12, <1>13, <1>14 DEF IInv

-------------------------------------------------------------------------------
(* Every step, and what follows.                                           *)

LEMMA StutterIInv == ASSUME IInv, UNCHANGED vars PROVE IInv'
  <1>1. /\ UNCHANGED <<ring, polling, tracks, oPc, fast>>
        /\ UNCHANGED <<tPc, tDo, tBlock, asleep, mFastMixerFutex>>
    BY DEF vars, mixer
  <1>2. /\ UsedInv' /\ RingInv' /\ PreviousInv' /\ ObeyInv' /\ LineInv' /\ BoundInv'
        /\ QueueTypeOK(FastState)' /\ Mutating' = Mutating /\ Published' = Published
        /\ Acked' = Acked /\ State(oCurrent)' = State(oCurrent) /\ mCurrent' = mCurrent
        /\ mStates'[polled'] = mStates[polled] /\ mIsDirty' = mIsDirty
        /\ mColdGen' = mColdGen /\ oPc' = oPc
    BY <1>1, QueueFrame
  <1>3. VarsOK'
    BY <1>1, <1>2 DEF IInv, VarsOK, tracks, fast
  <1>4. SlotInv'
    BY <1>1 DEF IInv, SlotInv, Alive, tracks
  <1>5. TracksInv'
    BY <1>1, <1>2 DEF IInv, TracksInv, tracks, Mixing, Within, Grown, Waiting
  <1>6. ControlInv' /\ DirtyInv' /\ QuietInv'
    BY <1>1, <1>2 DEF IInv, ControlInv, DirtyInv, QuietInv, Quiet
  <1>7. Prompt => FutexInv'
    BY <1>1, <1>2 DEF IInv, FutexInv, Increased, Decreased
  <1> QED BY <1>2, <1>3, <1>4, <1>5, <1>6, <1>7 DEF IInv

LEMMA NextIInv == IInv /\ [Next]_vars => IInv'
  <1> SUFFICES ASSUME IInv, [Next]_vars PROVE IInv'
    OBVIOUS
  <1>1. ASSUME NEW t \in Tracks, Create(t) \/ Start(t) \/ Destroy(t) PROVE IInv'
    BY <1>1, CreateIInv, StartIInv, DestroyIInv
  <1>2. ASSUME Prepare \/ Remove \/ Write \/ Wake \/ Command \/ Standby \/ Exit PROVE IInv'
    BY <1>2, PrepareIInv, RemoveIInv, WriteIInv, WakeIInv, CommandIInv, StandbyIInv,
       ExitIInv
  <1>3. ASSUME Push \/ PushAcked \/ Return \/ Drop PROVE IInv'
    BY <1>3, PushIInv, PushAckedIInv, ReturnIInv, DropIInv
  <1>4. ASSUME FastStep PROVE IInv'
    BY <1>4, PollIInv, AcknowledgeIInv, AdoptIInv, ColdIInv, ChangeIInv, WorkIInv
       DEF FastStep
  <1>5. ASSUME Joined \/ UNCHANGED vars PROVE IInv'
    BY <1>5, StutterIInv DEF Joined
  <1> QED BY <1>1, <1>2, <1>3, <1>4, <1>5 DEF Next

\* The inductive invariant holds throughout, whether or not the fast mixer is
\* prompt.
THEOREM Invariance == Spec => []IInv
  BY InitIInv, NextIInv, PTL DEF Spec

\* What the fast mixer mixes is the state it has acknowledged.
LEMMA WorkFacts ==
    ASSUME IInv, oPc = "work"
    PROVE  /\ mCurrent # Null /\ State(oCurrent) = Acked /\ Mixing(Acked)
           /\ oPrevious = oCurrent
  <1>1. /\ RingInv /\ PreviousInv /\ ObeyInv
        /\ mCurrent # Null => mCurrent \in Slots
    BY StateTyped DEF IInv
  <1>2. mCurrent # Null /\ oCurrent = mCurrent
    BY <1>1 DEF RingInv
  <1>3. State(oCurrent) = Acked
    BY <1>1, <1>2, StateFacts DEF Acked
  <1>4. State(oCurrent).command = "MIX_WRITE"
    BY <1>1 DEF ObeyInv
  <1>5. oPrevious = oCurrent
    BY <1>1, <1>4 DEF PreviousInv, Idle
  <1> QED BY <1>2, <1>3, <1>4, <1>5 DEF Mixing

\* With a ring of four states push() never overwrites one that the fast mixer
\* may read, and, when the fast mixer is prompt, the futex stays in -1..1.
THEOREM StatesAreStable == ASSUME Prompt PROVE Spec => []StatesStable
  <1>1. IInv => StatesStable
    <2> SUFFICES ASSUME IInv PROVE StatesStable
      OBVIOUS
    <2>1. mFastMixerFutex \in -1..1
      BY DEF IInv, FutexInv, Bit
    <2>2. VarsOK
      BY DEF IInv
    <2>3. mMutating \notin {mNext, polled, mCurrent, oCurrent, oPrevious}
      BY WritesApart
    <2> QED BY <2>1, <2>2, <2>3 DEF StatesStable, TypeOK
  <1> QED BY <1>1, Invariance, PTL

\* However onStateChange() skips states and slots are given to other tracks,
\* the AudioMixer holds the tracks of the state when the fast mixer mixes.
THEOREM MixesWhatIsAskedFor == Spec => []MixesWhatIsAsked
  <1>1. IInv => MixesWhatIsAsked
    BY WorkFacts DEF IInv, BoundInv, MixesWhatIsAsked
  <1> QED BY <1>1, Invariance, PTL

\* No track that prepareTracks_l() lets go of is read by the fast mixer.
THEOREM NoTrackDangles == Spec => []NoDanglingTrack
  <1>1. IInv => NoDanglingTrack
    <2> SUFFICES ASSUME IInv, oPc = "work", NEW j \in FastSlots
                 PROVE  /\ State(oCurrent).provider[j] \in Alive \cup {NoTrack}
                        /\ bound[j] \in Alive \cup {NoTrack}
      BY DEF NoDanglingTrack
    <2>1. State(oCurrent) = Acked /\ oPrevious = oCurrent /\ mCurrent # Null /\ Mixing(Acked)
      BY WorkFacts
    <2>2. Within(Acked, mActiveTracks)
      BY <2>1 DEF IInv, TracksInv
    <2>3. bound = State(oCurrent).provider
      BY <2>1 DEF IInv, BoundInv
    <2> QED BY <2>1, <2>2, <2>3 DEF Within, Alive
  <1> QED BY <1>1, Invariance, PTL

\* The output is written by one of the two mixers at a time: standby() and the
\* first write after it come while the fast mixer idles.
THEOREM OutputIsExclusive == Spec => []OutputExclusive
  <1>1. IInv => OutputExclusive
    <2> SUFFICES ASSUME IInv, oPc = "work",
                        \/ tPc = "pushed" /\ tDo = "standby"
                        \/ tPc = "mixed" /\ Mutating.command = "COLD_IDLE"
                 PROVE  FALSE
      BY DEF OutputExclusive
    <2>1. mCurrent # Null /\ Mixing(Acked)
      BY WorkFacts
    <2>2. Quiet
      BY DEF IInv, ControlInv, Quiet
    <2> QED BY <2>1, <2>2 DEF IInv, QuietInv, Mixing
  <1> QED BY <1>1, Invariance, PTL

===============================================================================
