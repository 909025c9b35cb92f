--------------------------- MODULE StaticTrackProofs ---------------------------
(***************************************************************************)
(* For a static buffer of any length, any loops and positions that         *)
(* AudioTrack lets through, and any modulus of the sequences: the server   *)
(* never rejects what the client pushed, its count of remaining frames is  *)
(* right, and the client never sees a position from before its last        *)
(* request.                                                                *)
(***************************************************************************)
EXTENDS StaticTrack, TLAPS

USE StaticAssumption DEF SeqNo

Counts == Nat \cup {Forever}

\* The position of a state is inside its loop.
Inside(state) == state.count # 0 => state.position < state.end

LEMMA SequenceType ==
    ASSUME NEW a \in SeqNo, NEW b \in SeqNo
    PROVE  incrementSequence(a, b) \in SeqNo
  BY DEF incrementSequence, SeqNext, SeqDiff

\* A new loop leaves a state valid, and moves its position into the loop.
LEMMA WithLoop ==
    ASSUME NEW state \in States, NEW update \in States,
           ValidLoop(state), Inside(state), ValidLoop(update)
    PROVE  LET new == updateStateWithLoop(state, update)
           IN  /\ new \in States /\ ValidLoop(new) /\ Inside(new)
               /\ new.loopSeq = update.loopSeq /\ new.posSeq = state.posSeq
  <1> DEFINE new == updateStateWithLoop(state, update)
  <1>1. CASE state.loopSeq = update.loopSeq
    BY <1>1 DEF updateStateWithLoop
  <1>2. CASE state.loopSeq # update.loopSeq
    <2> DEFINE position == IF update.count # 0 /\ state.position >= update.end
                           THEN update.start ELSE state.position
    <2>1. position \in 0..FrameCount /\ (update.count # 0 => position < update.end)
      BY DEF States, ValidLoop
    <2>2. new = [state EXCEPT !.start = update.start, !.end = update.end,
                              !.count = update.count, !.loopSeq = update.loopSeq,
                              !.position = position]
      BY <1>2 DEF updateStateWithLoop
    <2> HIDE DEF position, new
    <2>3. /\ new \in States /\ new.start = update.start /\ new.end = update.end
          /\ new.count = update.count /\ new.position = position
          /\ new.loopSeq = update.loopSeq /\ new.posSeq = state.posSeq
      BY <2>1, <2>2 DEF States
    <2>4. ValidLoop(new) /\ Inside(new)
      BY <2>1, <2>3 DEF ValidLoop, Inside
    <2> QED BY <2>3, <2>4 DEF new
  <1> QED BY <1>1, <1>2

\* A new position leaves a state valid, and ends a loop that it is beyond.
LEMMA WithPosition ==
    ASSUME NEW state \in States, NEW update \in States,
           ValidLoop(state), Inside(state)
    PROVE  LET new == updateStateWithPosition(state, update)
           IN  /\ new \in States /\ ValidLoop(new) /\ Inside(new)
               /\ new.loopSeq = state.loopSeq /\ new.posSeq = update.posSeq
  <1> DEFINE new == updateStateWithPosition(state, update)
  <1>1. CASE state.posSeq = update.posSeq
    BY <1>1 DEF updateStateWithPosition
  <1>2. CASE state.posSeq # update.posSeq
    <2> DEFINE count == IF update.position >= state.end THEN 0 ELSE state.count
    <2>1. count \in Counts /\ (count # 0 => count = state.count /\ update.position < state.end)
      BY DEF States, Counts
    <2>2. new = [state EXCEPT !.position = update.position, !.posSeq = update.posSeq,
                              !.count = count]
      BY <1>2 DEF updateStateWithPosition
    <2> HIDE DEF count, new
    <2>3. /\ new \in States /\ new.start = state.start /\ new.end = state.end
          /\ new.count = count /\ new.position = update.position
          /\ new.loopSeq = state.loopSeq /\ new.posSeq = update.posSeq
      BY <2>1, <2>2 DEF States, Counts
    <2>4. ValidLoop(new) /\ Inside(new)
      BY <2>1, <2>3 DEF ValidLoop, Inside
    <2> QED BY <2>3, <2>4 DEF new
  <1> QED BY <1>1, <1>2

\* In either order the two make a valid state with the sequences of the update.
LEMMA UpdatedValid ==
    ASSUME NEW state \in States, NEW update \in States,
           ValidLoop(state), Inside(state), ValidLoop(update)
    PROVE  LET new == Updated(state, update)
           IN  new \in States /\ ValidLoop(new) /\ Inside(new) /\ Seqs(new) = Seqs(update)
  <1>1. CASE SeqDiff(update.loopSeq, update.posSeq) < 0
    <2> DEFINE mid == updateStateWithLoop(state, update)
    <2>1. mid \in States /\ ValidLoop(mid) /\ Inside(mid) /\ mid.loopSeq = update.loopSeq
      BY WithLoop
    <2> HIDE DEF mid
    <2>2. LET new == updateStateWithPosition(mid, update)
          IN  /\ new \in States /\ ValidLoop(new) /\ Inside(new)
              /\ new.loopSeq = mid.loopSeq /\ new.posSeq = update.posSeq
      BY <2>1, WithPosition
    <2>3. Updated(state, update) = updateStateWithPosition(mid, update)
      BY <1>1 DEF Updated, mid
    <2> QED BY <2>1, <2>2, <2>3 DEF Seqs
  <1>2. CASE ~(SeqDiff(update.loopSeq, update.posSeq) < 0)
    <2> DEFINE mid == updateStateWithPosition(state, update)
    <2>1. mid \in States /\ ValidLoop(mid) /\ Inside(mid) /\ mid.posSeq = update.posSeq
      BY WithPosition
    <2> HIDE DEF mid
    <2>2. LET new == updateStateWithLoop(mid, update)
          IN  /\ new \in States /\ ValidLoop(new) /\ Inside(new)
              /\ new.loopSeq = update.loopSeq /\ new.posSeq = mid.posSeq
      BY <2>1, WithLoop
    <2>3. Updated(state, update) = updateStateWithLoop(mid, update)
      BY <1>2 DEF Updated, mid
    <2> QED BY <2>1, <2>2, <2>3 DEF Seqs
  <1> QED BY <1>1, <1>2

\* From a valid state at least the frames to the end of the loop remain.
LEMMA RemainingType ==
    ASSUME NEW state \in States, ValidLoop(state), Inside(state)
    PROVE  /\ Remaining(state) \in Counts
           /\ Remaining(state) # Forever =>
                  Remaining(state) >= (IF state.count # 0 THEN state.end ELSE FrameCount)
                                      - state.position
  <1> DEFINE c == state.count
             len == state.end - state.start
  <1>1. CASE c = Forever
    BY <1>1 DEF Remaining, Counts
  <1>2. CASE c = 0
    BY <1>2 DEF Remaining, Counts, States, Forever
  <1>3. CASE c # Forever /\ c # 0
    <2>1. c \in Nat /\ len \in Nat /\ state.end <= FrameCount /\ state.position \in 0..FrameCount
      BY <1>3 DEF States, ValidLoop, Forever
    <2>2. c * len \in Nat
      <3> HIDE DEF c, len
      <3> QED BY <2>1
    <2>3. Remaining(state) = c * len + FrameCount - state.position
      BY <1>3 DEF Remaining
    <2> HIDE DEF len
    <2> QED BY <1>3, <2>1, <2>2, <2>3 DEF Counts, States, Forever
  <1> QED BY <1>1, <1>2, <1>3

\* Only an endless loop leaves endless frames.
LEMMA RemainingLoops ==
    ASSUME NEW state \in States, ValidLoop(state), Inside(state), state.count # Forever
    PROVE  Remaining(state) # Forever
  <1> DEFINE c == state.count
             len == state.end - state.start
  <1>1. /\ c \in Nat /\ state.position \in 0..FrameCount
        /\ state.start \in Nat /\ state.end \in Nat
        /\ c # 0 => len \in Nat
    BY DEF States, ValidLoop
  <1>2. c * len \in Nat
    <2>1. CASE c = 0
      BY <1>1, <2>1
    <2>2. CASE c # 0
      <3>1. len \in Nat
        BY <1>1, <2>2
      <3> HIDE DEF c, len
      <3> QED BY <1>1, <3>1
    <2> QED BY <2>1, <2>2
  <1>3. Remaining(state) = c * len + FrameCount - state.position
    BY DEF Remaining
  <1> HIDE DEF c, len
  <1> QED BY <1>1, <1>2, <1>3 DEF Forever

--------------------------------------------------------------------------------
(* Each action preserves the invariant.                                    *)

USE DEF client, stateQ, posQ, proxy, call

LEMMA InitIInv == Init => IInv
  <1> SUFFICES ASSUME Init PROVE IInv
    OBVIOUS
  <1> USE DEF Init, ZeroState, ZeroPosLoop
  <1>1. TypeOK
    <2>1. ZeroState \in States /\ ZeroPosLoop \in PosLoops
      BY DEF States, PosLoops
    <2>2. /\ cState = ZeroState /\ qState = ZeroState /\ sState = ZeroState
          /\ sUpdate = ZeroState /\ cPosLoop = ZeroPosLoop /\ pPosLoop = ZeroPosLoop
      OBVIOUS
    <2>3. /\ cPc = "idle" /\ sPc = "idle" /\ sReady \in Nat
          /\ sUnreleased \in 0..FrameCount /\ sHeld \in 0..FrameCount
      OBVIOUS
    <2>4. {cGet, qFresh, qDone, pFresh, sShutdown} \subseteq BOOLEAN
      BY Zenon
    <2> HIDE DEF Init, ZeroState, ZeroPosLoop
    <2> QED BY <2>1, <2>2, <2>3, <2>4 DEF TypeOK
  <1>2. NeverRejected /\ LoopInv /\ PushedInv /\ ToldInv /\ ReadInv
    BY DEF NeverRejected, LoopInv, ValidLoop, PushedInv, ToldInv, ReadInv, Seqs
  <1>3. ReadyIsRemaining
    BY DEF ReadyIsRemaining, Remaining, Contiguous, Forever
  <1> QED BY <1>1, <1>2, <1>3 DEF IInv

\* A step that leaves the server's state alone leaves its count of frames right.
LEMMA SameReady ==
    ASSUME ReadyIsRemaining, UNCHANGED <<sState, sReady, sUnreleased, sHeld>>
    PROVE  ReadyIsRemaining'
  BY DEF ReadyIsRemaining, Contiguous, Remaining

LEMMA SetLoopIInv ==
    ASSUME NEW loop \in Loops, IInv, SetLoop(loop)
    PROVE  IInv'
  <1> USE DEF IInv, SetLoop
  <1>1. /\ loop.start \in Nat /\ loop.end \in Nat /\ loop.count \in Counts
        /\ loop.count # 0 => /\ loop.start < loop.end /\ loop.end <= FrameCount
                             /\ loop.end - loop.start >= MinLoop
    BY LoopsAssumption DEF Counts
  <1>2. incrementSequence(cState.loopSeq, cState.posSeq) \in SeqNo
    BY SequenceType DEF TypeOK, States
  <1>3. /\ cState' \in States /\ cState'.count = loop.count
        /\ cState'.start = loop.start /\ cState'.end = loop.end
    BY <1>1, <1>2 DEF TypeOK, States, Counts
  <1>4. TypeOK' /\ NeverRejected'
    BY <1>3 DEF TypeOK, NeverRejected
  <1>5. LoopInv'
    BY <1>1, <1>3 DEF LoopInv, ValidLoop
  <1>6. PushedInv' /\ ToldInv' /\ ReadInv'
    BY DEF PushedInv, ToldInv, ReadInv, Seqs
  <1> QED BY <1>4, <1>5, <1>6, SameReady

LEMMA SetBufferPositionIInv ==
    ASSUME NEW position \in Positions, IInv, SetBufferPosition(position)
    PROVE  IInv'
  <1> USE DEF IInv, SetBufferPosition
  <1>1. position \in 0..FrameCount
    BY PositionsAssumption
  <1>2. incrementSequence(cState.posSeq, cState.loopSeq) \in SeqNo
    BY SequenceType DEF TypeOK, States
  <1>3. /\ cState' \in States /\ cState'.count = cState.count
        /\ cState'.start = cState.start /\ cState'.end = cState.end
    BY <1>1, <1>2 DEF TypeOK, States
  <1>4. TypeOK' /\ NeverRejected'
    BY <1>3 DEF TypeOK, NeverRejected
  <1>5. LoopInv'
    BY <1>3 DEF LoopInv, ValidLoop
  <1>6. PushedInv' /\ ToldInv' /\ ReadInv'
    BY DEF PushedInv, ToldInv, ReadInv, Seqs
  <1> QED BY <1>4, <1>5, <1>6, SameReady

LEMMA GetBufferPositionIInv == ASSUME IInv, GetBufferPosition PROVE IInv'
  <1> USE DEF IInv, GetBufferPosition
  <1>1. TypeOK' /\ NeverRejected' /\ LoopInv'
    BY DEF TypeOK, NeverRejected, LoopInv, ValidLoop
  <1>2. PushedInv' /\ ToldInv' /\ ReadInv'
    BY DEF PushedInv, ToldInv, ReadInv, Seqs
  <1> QED BY <1>1, <1>2, SameReady

LEMMA AckIInv == ASSUME IInv, Ack PROVE IInv'
  <1> USE DEF IInv, Ack, Proceed
  <1>1. TypeOK' /\ NeverRejected' /\ LoopInv'
    BY DEF TypeOK, NeverRejected, LoopInv, ValidLoop
  <1>2. PushedInv' /\ ToldInv' /\ ReadInv'
    BY DEF PushedInv, ToldInv, ReadInv, Seqs, TypeOK
  <1> QED BY <1>1, <1>2, SameReady

LEMMA PollPosLoopIInv == ASSUME IInv, PollPosLoop PROVE IInv'
  <1> USE DEF IInv, PollPosLoop, Proceed
  <1>1. TypeOK' /\ NeverRejected' /\ LoopInv'
    BY DEF TypeOK, NeverRejected, LoopInv, ValidLoop
  <1>2. pTag = Seqs(sState) /\ Seqs(sState) = Seqs(qState)
    BY DEF ToldInv, ReadInv
  <1>3. PushedInv' /\ ToldInv'
    BY DEF PushedInv, ToldInv, Seqs, TypeOK
  <1>4. ReadInv'
    BY <1>2 DEF PushedInv, ReadInv, Seqs, TypeOK
  <1> QED BY <1>1, <1>3, <1>4, SameReady

LEMMA PushIInv == ASSUME IInv, Push PROVE IInv'
  <1> USE DEF IInv, Push
  <1>1. cPosLoop' \in PosLoops
    <2>1. /\ cState.start \in Nat /\ cState.end \in Nat /\ cState.count \in Counts
          /\ cState.position \in 0..FrameCount /\ cPosLoop.position \in 0..FrameCount
          /\ cPosLoop.count \in Counts
      BY DEF TypeOK, States, PosLoops, Counts
    <2>2. cState.count # 0 => cState.start < cState.end /\ cState.end <= FrameCount
      BY DEF LoopInv, ValidLoop
    <2>3. PICK position \in 0..FrameCount, count \in Counts :
              cPosLoop' = [position |-> position, count |-> count]
      <3>1. CASE cState.last = "loop"
        <4> DEFINE position == IF cState.count # 0 /\ cPosLoop.position >= cState.end
                               THEN cState.start ELSE cPosLoop.position
        <4>1. position \in 0..FrameCount
          BY <2>1, <2>2
        <4> HIDE DEF position
        <4>2. cPosLoop' = [position |-> position, count |-> cState.count]
          BY <3>1 DEF position
        <4> QED BY <2>1, <4>1, <4>2
      <3>2. CASE cState.last # "loop"
        <4> DEFINE count == IF cState.position >= cState.end THEN 0 ELSE cPosLoop.count
        <4>1. count \in Counts
          BY <2>1 DEF Counts
        <4> HIDE DEF count
        <4>2. cPosLoop' = [position |-> cState.position, count |-> count]
          BY <3>2 DEF count
        <4> QED BY <2>1, <4>1, <4>2
      <3> QED BY <3>1, <3>2
    <2> QED BY <2>3 DEF PosLoops, Counts
  <1>2. TypeOK' /\ NeverRejected' /\ LoopInv'
    BY <1>1 DEF TypeOK, NeverRejected, LoopInv, ValidLoop
  <1>3. PushedInv' /\ ToldInv' /\ ReadInv'
    BY DEF PushedInv, ToldInv, ReadInv, Seqs, TypeOK
  <1> QED BY <1>2, <1>3, SameReady

LEMMA PollPositionIInv ==
    ASSUME NEW op \in {"ready", "obtain"}, IInv, PollPosition(op)
    PROVE  IInv'
  <1> USE DEF IInv, PollPosition
  <1> DEFINE new == Updated(sState, qState)
  <1>1. new \in States /\ ValidLoop(new) /\ Inside(new) /\ Seqs(new) = Seqs(qState)
    BY UpdatedValid DEF TypeOK, LoopInv, Inside
  <1>2. Acceptable(sState, qState)
    BY DEF Acceptable, LoopInv, TypeOK, States
  <1>3. /\ sState' = [new EXCEPT !.last = "none"] /\ sReady' = Remaining(sState')
        /\ sPc' = "posloop"
    BY <1>2
  <1> HIDE DEF new
  <1>4. /\ sState' \in States /\ ValidLoop(sState') /\ Inside(sState')
        /\ Seqs(sState') = Seqs(qState)
    BY <1>1, <1>3 DEF States, ValidLoop, Inside, Seqs
  <1>5. sReady' \in Counts
    BY <1>3, <1>4, RemainingType
  <1>6. TypeOK' /\ NeverRejected' /\ LoopInv'
    BY <1>3, <1>4, <1>5 DEF TypeOK, NeverRejected, LoopInv, ValidLoop, Inside, Counts
  <1>7. PushedInv' /\ ToldInv' /\ ReadInv'
    BY <1>3, <1>4 DEF PushedInv, ToldInv, ReadInv, Seqs
  <1>8. ReadyIsRemaining'
    <2>1. /\ sReady' # Forever =>
                 sReady' >= (IF sState'.count # 0 THEN sState'.end ELSE FrameCount)
                            - sState'.position
          /\ sReady' # Forever => sReady' \in Nat
      BY <1>3, <1>4, <1>5, RemainingType DEF Counts
    <2>2. /\ sState'.position \in 0..FrameCount /\ sState'.end \in Nat
          /\ sHeld' = 0 /\ sUnreleased' \in 0..FrameCount
      BY <1>4 DEF States, TypeOK
    <2>3. Contiguous' \in Nat /\ (sReady' # Forever => Contiguous' <= sReady')
      BY <2>1, <2>2 DEF Contiguous
    <2>4. sReady' = Remaining(sState)'
      BY <1>3 DEF Remaining
    <2> QED BY <2>1, <2>2, <2>3, <2>4 DEF ReadyIsRemaining
  <1> QED BY <1>6, <1>7, <1>8

LEMMA PollNothingIInv == ASSUME IInv, PollNothing PROVE IInv'
  <1> USE DEF IInv, PollNothing
  <1>1. TypeOK' /\ NeverRejected' /\ LoopInv'
    BY DEF TypeOK, NeverRejected, LoopInv, ValidLoop
  <1>2. PushedInv' /\ ToldInv' /\ ReadInv'
    BY DEF PushedInv, ToldInv, ReadInv, Seqs
  <1> QED BY <1>1, <1>2, SameReady

LEMMA PushPosLoopIInv == ASSUME IInv, PushPosLoop PROVE IInv'
  <1> USE DEF IInv, PushPosLoop
  <1>1. pPosLoop' \in PosLoops /\ sUpdate' \in States
    BY DEF TypeOK, States, PosLoops, ZeroState
  <1>2. TypeOK' /\ NeverRejected' /\ LoopInv'
    BY <1>1 DEF TypeOK, NeverRejected, LoopInv, ValidLoop
  <1>3. PushedInv' /\ ToldInv' /\ ReadInv'
    BY DEF PushedInv, ToldInv, ReadInv, Seqs
  <1> QED BY <1>2, <1>3, SameReady

LEMMA DoneIInv == ASSUME IInv, Done PROVE IInv'
  <1> USE DEF IInv, Done
  <1>1. sPc = "done" /\ sUnreleased' = sUnreleased
    BY DEF NeverRejected
  <1>2. sUpdate' \in States
    BY DEF TypeOK, States, ZeroState
  <1>3. TypeOK' /\ NeverRejected' /\ LoopInv'
    BY <1>1, <1>2 DEF TypeOK, NeverRejected, LoopInv, ValidLoop
  <1>4. PushedInv' /\ ToldInv' /\ ReadInv'
    BY <1>1 DEF PushedInv, ToldInv, ReadInv, Seqs
  <1> QED BY <1>1, <1>3, <1>4, SameReady

LEMMA TakeIInv ==
    ASSUME NEW ask \in Asks, IInv, Take(ask)
    PROVE  IInv'
  <1> USE DEF IInv, Take
  <1>1. Contiguous \in 0..FrameCount /\ Contiguous' = Contiguous
    BY DEF Contiguous, TypeOK, States, LoopInv, ValidLoop
  <1>2. sHeld' \in 0..FrameCount /\ sHeld' <= Contiguous /\ sUnreleased' = sHeld'
    BY <1>1
  <1>3. TypeOK' /\ NeverRejected' /\ LoopInv'
    BY <1>2 DEF TypeOK, NeverRejected, LoopInv, ValidLoop
  <1>4. PushedInv' /\ ToldInv' /\ ReadInv'
    BY DEF PushedInv, ToldInv, ReadInv, Seqs
  <1>5. ReadyIsRemaining'
    BY <1>1, <1>2 DEF ReadyIsRemaining, Remaining, TypeOK, Forever
  <1> QED BY <1>3, <1>4, <1>5

LEMMA ReleaseIInv ==
    ASSUME NEW n \in 0..FrameCount, IInv, Release(n)
    PROVE  IInv'
  <1> USE DEF IInv
  <1>1. CASE n = 0
    <2>1. TypeOK' /\ NeverRejected' /\ LoopInv'
      BY <1>1 DEF Release, TypeOK, NeverRejected, LoopInv, ValidLoop
    <2>2. PushedInv' /\ ToldInv' /\ ReadInv'
      BY <1>1 DEF Release, PushedInv, ToldInv, ReadInv, Seqs
    <2>3. ReadyIsRemaining'
      BY <1>1 DEF Release, ReadyIsRemaining, Contiguous, Remaining, TypeOK, States
    <2> QED BY <2>1, <2>2, <2>3
  <1>2. CASE n # 0
    <2> DEFINE pos == sState.position
               end == sState.end
               start == sState.start
               count == sState.count
               looping == count # 0 /\ pos + n = end
    <2>1. /\ pos \in 0..FrameCount /\ start \in Nat /\ end \in Nat /\ count \in Counts
          /\ sHeld \in 0..FrameCount /\ n \in 1..FrameCount /\ n <= sHeld /\ sHeld <= sUnreleased
          /\ sUnreleased \in 0..FrameCount /\ sReady \in Counts
          /\ sReady # Forever => n <= sReady
      BY <1>2 DEF Release, TypeOK, States, ReadyIsRemaining, Counts, Forever
    <2>2. count # 0 => start < end /\ end <= FrameCount /\ pos < end
      BY DEF LoopInv, ValidLoop
    <2>3. pos + n <= (IF count # 0 THEN end ELSE FrameCount)
      <3>1. sHeld <= Contiguous /\ sHeld > 0
        BY DEF ReadyIsRemaining, Release
      <3>2. Contiguous = IF pos < (IF count # 0 THEN end ELSE FrameCount)
                         THEN (IF count # 0 THEN end ELSE FrameCount) - pos ELSE 0
        BY DEF Contiguous
      <3> HIDE DEF pos, end, count
      <3> QED BY <2>1, <3>1, <3>2
    <2> DEFINE newPos == IF looping THEN start ELSE pos + n
               newCount == IF looping /\ count # Forever THEN count - 1 ELSE count
    <2>4. /\ newPos \in 0..FrameCount /\ newCount \in Counts
          /\ newCount # 0 => newPos < end
          /\ newCount # 0 => count # 0
      BY <2>1, <2>2, <2>3 DEF Counts, Forever
    <2>5. sState' = [sState EXCEPT !.position = newPos, !.count = newCount]
      <3>1. ~(pos + n > FrameCount)
        BY <2>1, <2>2, <2>3
      <3> QED BY <1>2, <3>1 DEF Release, Advanced
    <2> HIDE DEF newPos, newCount
    <2>6. /\ sState' \in States /\ sState'.position = newPos /\ sState'.count = newCount
          /\ sState'.start = start /\ sState'.end = end /\ Seqs(sState') = Seqs(sState)
      BY <2>4, <2>5 DEF TypeOK, States, Counts, Seqs
    <2>7. ValidLoop(sState') /\ Inside(sState')
      BY <2>4, <2>6 DEF ValidLoop, Inside, LoopInv
    <2>8. /\ sReady' = IF sReady = Forever THEN Forever ELSE sReady - n
          /\ sUnreleased' = sUnreleased - n /\ sHeld' = 0
      BY <1>2 DEF Release
    <2>9. pPosLoop' \in PosLoops
      BY <1>2, <2>4, <2>6 DEF Release, PosLoops, Counts
    <2>10. TypeOK' /\ NeverRejected' /\ LoopInv'
      <3>1. sReady' \in Counts /\ sUnreleased' \in 0..FrameCount
        <4>1. sReady # Forever => sReady \in Nat /\ n <= sReady
          BY <2>1 DEF Counts
        <4> QED BY <2>1, <2>8, <4>1 DEF Counts
      <3>2. TypeOK'
        <4>1. /\ {sUnreleased', sHeld'} \subseteq 0..FrameCount
              /\ sReady' \in Nat \cup {Forever}
          BY <2>8, <3>1 DEF Counts
        <4>2. /\ UNCHANGED <<cState, qState, sUpdate, cPosLoop, cPc, sPc>>
              /\ UNCHANGED <<cGet, qFresh, qDone, sShutdown>> /\ pFresh' = TRUE
          BY <1>2 DEF Release
        <4> QED BY <2>6, <2>9, <4>1, <4>2 DEF TypeOK
      <3> QED BY <2>7, <3>2 DEF Release, NeverRejected, LoopInv, ValidLoop, Inside
    <2>11. PushedInv' /\ ToldInv' /\ ReadInv'
      BY <1>2, <2>6 DEF Release, PushedInv, ToldInv, ReadInv, Seqs, NeverRejected
    <2>12. sReady' = Remaining(sState')
      <3>1. CASE count = Forever
        <4>1. newCount = Forever /\ sReady = Forever
          BY <3>1 DEF newCount, ReadyIsRemaining, Remaining
        <4> QED BY <4>1, <2>6, <2>8 DEF Remaining
      <3>2. CASE count # Forever /\ ~looping
        <4>1. newCount = count /\ newPos = pos + n
          BY <3>2 DEF newCount, newPos
        <4>2. sReady = count * (end - start) + FrameCount - pos
          BY <3>2 DEF ReadyIsRemaining, Remaining
        <4>3. Remaining(sState') = count * (end - start) + FrameCount - (pos + n)
          BY <3>2, <4>1, <2>6 DEF Remaining
        <4>4. count * (end - start) \in Int
          BY <3>2, <2>1 DEF Counts
        <4>5. sReady \in Nat
          <5>1. sReady # Forever
            BY <3>2, RemainingLoops DEF ReadyIsRemaining, TypeOK, LoopInv, Inside
          <5> QED BY <2>1, <5>1 DEF Counts
        <4> QED BY <2>1, <2>8, <4>2, <4>3, <4>4, <4>5 DEF Forever
      <3>3. CASE count # Forever /\ looping
        <4>1. newCount = count - 1 /\ newPos = start /\ pos + n = end
          BY <3>3 DEF newCount, newPos
        <4>2. sReady = count * (end - start) + FrameCount - pos
          BY <3>3 DEF ReadyIsRemaining, Remaining
        <4>3. count \in Nat /\ count - 1 \in Nat
          BY <2>1, <3>3 DEF Counts
        <4>4. Remaining(sState') = (count - 1) * (end - start) + FrameCount - start
          BY <4>1, <4>3, <2>6 DEF Remaining, Forever
        <4>5. count * (end - start) = (count - 1) * (end - start) + (end - start)
          BY <2>1, <4>3
        <4>6. (count - 1) * (end - start) \in Int
          BY <2>1, <4>3
        <4>7. sReady \in Nat
          <5>1. sReady # Forever
            BY <3>3, RemainingLoops DEF ReadyIsRemaining, TypeOK, LoopInv, Inside
          <5> QED BY <2>1, <5>1 DEF Counts
        <4> QED BY <2>1, <2>8, <4>1, <4>2, <4>4, <4>5, <4>6, <4>7 DEF Forever
      <3> QED BY <3>1, <3>2, <3>3
    <2>13. ReadyIsRemaining'
      <3>1. /\ sReady' # Forever =>
                   sReady' >= (IF sState'.count # 0 THEN sState'.end ELSE FrameCount)
                              - sState'.position
            /\ sReady' # Forever => sReady' \in Nat
        BY <2>6, <2>7, <2>12, RemainingType DEF Counts
      <3>2. /\ sState'.position \in 0..FrameCount /\ sState'.end \in Nat
            /\ sUnreleased' \in 0..FrameCount
        BY <2>6, <2>10 DEF States, TypeOK
      <3>3. Contiguous' \in Nat /\ (sReady' # Forever => Contiguous' <= sReady')
        BY <3>1, <3>2 DEF Contiguous
      <3>4. sReady' = Remaining(sState)'
        BY <2>12 DEF Remaining
      <3> QED BY <2>8, <3>1, <3>2, <3>3, <3>4 DEF ReadyIsRemaining
    <2> QED BY <2>10, <2>11, <2>13
  <1> QED BY <1>1, <1>2

--------------------------------------------------------------------------------
(* The theorems.                                                           *)

LEMMA NextIInv == IInv /\ [Next]_vars => IInv'
  <1> SUFFICES ASSUME IInv, [Next]_vars PROVE IInv'
    OBVIOUS
  <1>1. CASE ClientNext
    BY <1>1, SetLoopIInv, SetBufferPositionIInv, GetBufferPositionIInv, AckIInv,
       PollPosLoopIInv, PushIInv DEF ClientNext
  <1>2. CASE ServerNext
    BY <1>2, PollPositionIInv, PollNothingIInv, PushPosLoopIInv, DoneIInv, TakeIInv,
       ReleaseIInv DEF ServerNext
  <1>3. CASE UNCHANGED vars
    <2>1. TypeOK' /\ NeverRejected' /\ LoopInv'
      BY <1>3 DEF IInv, TypeOK, NeverRejected, LoopInv, ValidLoop, vars
    <2>2. PushedInv' /\ ToldInv' /\ ReadInv'
      BY <1>3 DEF IInv, PushedInv, ToldInv, ReadInv, Seqs, vars
    <2> QED BY <1>3, <2>1, <2>2, SameReady DEF IInv, vars
  <1> QED BY <1>1, <1>2, <1>3 DEF Next

\* The invariant holds in every reachable state of the two proxies.
THEOREM Invariance == Spec => []IInv
  BY InitIInv, NextIInv, PTL DEF Spec

\* pollPosition() never takes the branch that shuts a static track down, whatever
\* AudioTrack has let through and however the pushes overwrite each other.
THEOREM NotRejected == Spec => []NeverRejected
  <1>1. IInv => NeverRejected
    BY DEF IInv
  <1> QED BY <1>1, Invariance, PTL

\* mFramesReady is the number of frames still to be played, and the fatal checks of
\* obtainBuffer() and releaseBuffer() never fire.
THEOREM ReadyExact == Spec => []ReadyIsRemaining
  <1>1. IInv => ReadyIsRemaining
    BY DEF IInv
  <1> QED BY <1>1, Invariance, PTL

\* The client never sees a position from before its last setLoop() or setBufferPosition().
THEOREM NeverStale == Spec => []NoStalePosition
  <1>1. IInv => NoStalePosition
    BY DEF IInv, ReadInv, NoStalePosition
  <1> QED BY <1>1, Invariance, PTL

--------------------------------------------------------------------------------
(* The last request wins.                                                  *)

\* The sequences of a state tell which of its two requests is the later one.
SeqOrder(state) ==
    /\ state.last = "loop" => SeqDiff(state.loopSeq, state.posSeq) >= 0
    /\ state.last = "position" => SeqDiff(state.loopSeq, state.posSeq) < 0

\* The sequence of the later request of a state is not the one another state has.
Differs(state, other) ==
    /\ state.last = "loop" => state.loopSeq # other.loopSeq
    /\ state.last = "position" => state.posSeq # other.posSeq

\* An update that the server has adopted ends with the later of its requests.
Wins(state, update) ==
    /\ update.last = "position" => state.position = update.position
    /\ update.last = "loop" => <<state.start, state.end, state.count>> =
                               <<update.start, update.end, update.count>>

\* A request is new to the server both while it is being made, whatever the server
\* polls in the meantime, and while it waits in the queue.
OrderInv ==
    /\ SeqOrder(cState) /\ SeqOrder(qState)
    /\ qFresh => Differs(qState, sState)
    /\ cPc # "idle" /\ ~cGet => Differs(cState, sState) /\ Differs(cState, qState)
    /\ sPc = "posloop" => Wins(sState, sUpdate)

\* incrementSequence() makes a counter the later of the two, and a new one.
LEMMA SequenceLater ==
    ASSUME NEW a \in SeqNo, NEW b \in SeqNo
    PROVE  LET new == incrementSequence(a, b)
           IN  /\ SeqDiff(new, b) >= 0 /\ SeqDiff(b, new) < 0
               /\ new # a
  <1> DEFINE new == incrementSequence(a, b)
             half == SeqMod \div 2
  <1>1. half \in Nat /\ SeqMod = 2 * half /\ half > 2
    OBVIOUS
  <1> HIDE DEF half
  <1>2. CASE 0 <= SeqDiff(a, b) /\ SeqDiff(a, b) < half - 1
    <2>1. new = SeqNext(a)
      BY <1>2 DEF incrementSequence, half
    <2> HIDE DEF new
    <2> QED BY <1>1, <1>2, <2>1 DEF SeqDiff, SeqNext, new
  <1>3. CASE ~(0 <= SeqDiff(a, b) /\ SeqDiff(a, b) < half - 1)
    <2>1. new = SeqNext(b)
      BY <1>3 DEF incrementSequence, half
    <2> HIDE DEF new
    <2> QED BY <1>1, <1>3, <2>1 DEF SeqDiff, SeqNext, new
  <1> QED BY <1>2, <1>3

\* Applied last, a loop that is new to a state is the one it has afterwards ...
LEMMA LoopApplied ==
    ASSUME NEW state \in States, NEW update \in States, state.loopSeq # update.loopSeq
    PROVE  LET new == updateStateWithLoop(state, update)
           IN  <<new.start, new.end, new.count>> =
               <<update.start, update.end, update.count>>
  BY DEF updateStateWithLoop, States

\* ... and so is a position.
LEMMA PositionApplied ==
    ASSUME NEW state \in States, NEW update \in States, state.posSeq # update.posSeq
    PROVE  updateStateWithPosition(state, update).position = update.position
  BY DEF updateStateWithPosition, States

\* pollPosition() applies the later of the two requests last.
LEMMA LaterApplied ==
    ASSUME NEW state \in States, NEW update \in States,
           ValidLoop(state), Inside(state), ValidLoop(update),
           SeqOrder(update), Differs(update, state)
    PROVE  Wins(Updated(state, update), update)
  <1>1. CASE update.last = "position"
    <2> DEFINE mid == updateStateWithLoop(state, update)
    <2>1. mid \in States /\ mid.posSeq = state.posSeq
      BY WithLoop
    <2>2. Updated(state, update) = updateStateWithPosition(mid, update)
      BY <1>1 DEF SeqOrder, Updated
    <2> HIDE DEF mid
    <2>3. mid.posSeq # update.posSeq
      BY <1>1, <2>1 DEF Differs
    <2> QED BY <1>1, <2>1, <2>2, <2>3, PositionApplied DEF Wins
  <1>2. CASE update.last = "loop"
    <2> DEFINE mid == updateStateWithPosition(state, update)
    <2>1. mid \in States /\ mid.loopSeq = state.loopSeq
      BY WithPosition
    <2>2. Updated(state, update) = updateStateWithLoop(mid, update)
      <3>1. SeqDiff(update.loopSeq, update.posSeq) \in Int
        BY DEF States, SeqDiff
      <3> QED BY <1>2, <3>1 DEF SeqOrder, Updated
    <2> HIDE DEF mid
    <2>3. mid.loopSeq # update.loopSeq
      BY <1>2, <2>1 DEF Differs
    <2> QED BY <1>2, <2>1, <2>2, <2>3, LoopApplied DEF Wins
  <1> QED BY <1>1, <1>2 DEF Wins

LEMMA SetLoopOrder ==
    ASSUME NEW loop \in Loops, IInv, OrderInv, SetLoop(loop)
    PROVE  OrderInv'
  <1> DEFINE seq == incrementSequence(cState.loopSeq, cState.posSeq)
  <1>1. cState.loopSeq \in SeqNo /\ cState.posSeq \in SeqNo
    BY DEF IInv, TypeOK, States
  <1>2. SeqDiff(seq, cState.posSeq) >= 0 /\ seq # cState.loopSeq
    BY <1>1, SequenceLater
  <1>3. /\ cState'.loopSeq = seq /\ cState'.posSeq = cState.posSeq /\ cState'.last = "loop"
        /\ Differs(cState', sState) /\ cPc = "idle"
    BY DEF SetLoop, NoAlias, Differs, IInv, TypeOK, States
  <1> HIDE DEF seq
  <1>4. cState'.loopSeq # qState.loopSeq
    BY <1>2, <1>3 DEF IInv, PushedInv, Seqs
  <1>5. UNCHANGED <<qState, qFresh, sState, sPc, sUpdate>>
    BY DEF SetLoop
  <1>6. SeqOrder(cState')
    BY <1>2, <1>3 DEF SeqOrder
  <1>7. Differs(cState', qState)
    BY <1>3, <1>4 DEF Differs
  <1> QED BY <1>3, <1>5, <1>6, <1>7 DEF OrderInv, SeqOrder, Differs, Wins

LEMMA SetBufferPositionOrder ==
    ASSUME NEW position \in Positions, IInv, OrderInv, SetBufferPosition(position)
    PROVE  OrderInv'
  <1> DEFINE seq == incrementSequence(cState.posSeq, cState.loopSeq)
  <1>1. cState.loopSeq \in SeqNo /\ cState.posSeq \in SeqNo
    BY DEF IInv, TypeOK, States
  <1>2. SeqDiff(cState.loopSeq, seq) < 0 /\ seq # cState.posSeq
    BY <1>1, SequenceLater
  <1>3. /\ cState'.posSeq = seq /\ cState'.loopSeq = cState.loopSeq
        /\ cState'.last = "position" /\ Differs(cState', sState) /\ cPc = "idle"
    BY DEF SetBufferPosition, NoAlias, Differs, IInv, TypeOK, States
  <1> HIDE DEF seq
  <1>4. cState'.posSeq # qState.posSeq
    BY <1>2, <1>3 DEF IInv, PushedInv, Seqs
  <1>5. UNCHANGED <<qState, qFresh, sState, sPc, sUpdate>>
    BY DEF SetBufferPosition
  <1>6. SeqOrder(cState')
    BY <1>2, <1>3 DEF SeqOrder
  <1>7. Differs(cState', qState)
    BY <1>3, <1>4 DEF Differs
  <1> QED BY <1>3, <1>5, <1>6, <1>7 DEF OrderInv, SeqOrder, Differs, Wins

\* What the client pushes is new to the server, since it was when it was asked for.
LEMMA PushOrder ==
    ASSUME IInv, OrderInv, Push
    PROVE  OrderInv'
  <1>1. /\ cPc = "push" /\ cPc' = "idle" /\ qState' = cState
        /\ UNCHANGED <<cState, cGet, sState, sPc, sUpdate>>
    BY DEF Push
  <1>2. ~cGet
    BY <1>1 DEF IInv, ReadInv
  <1>3. Differs(cState, sState)
    BY <1>1, <1>2 DEF OrderInv
  <1> QED BY <1>1, <1>3 DEF OrderInv, SeqOrder, Differs, Wins

\* The server adopts the state in the queue; what the client is asking for meanwhile
\* differs from that as well.
LEMMA PollPositionOrder ==
    ASSUME NEW op \in {"ready", "obtain"}, IInv, OrderInv, PollPosition(op)
    PROVE  OrderInv'
  <1> DEFINE new == Updated(sState, qState)
  <1>1. /\ new \in States /\ Seqs(new) = Seqs(qState)
        /\ Wins(new, qState)
    BY UpdatedValid, LaterApplied
       DEF IInv, TypeOK, LoopInv, Inside, OrderInv, PollPosition
  <1>2. Acceptable(sState, qState)
    BY DEF Acceptable, IInv, LoopInv, TypeOK, States
  <1>3. /\ sState' = [new EXCEPT !.last = "none"] /\ sUpdate' = qState /\ ~qFresh'
        /\ UNCHANGED <<cState, cPc, cGet, qState>>
    BY <1>2 DEF PollPosition
  <1> HIDE DEF new
  <1>4. /\ sState'.loopSeq = qState.loopSeq /\ sState'.posSeq = qState.posSeq
        /\ Wins(sState', qState)
    BY <1>1, <1>3 DEF States, Seqs, Wins
  <1> QED BY <1>3, <1>4 DEF OrderInv, SeqOrder, Differs, Wins

\* Playing on changes the server's position, but none of its sequences.
LEMMA ReleaseOrder ==
    ASSUME NEW n \in 0..FrameCount, IInv, OrderInv, Release(n)
    PROVE  OrderInv'
  <1>1. /\ sPc' = "idle" /\ UNCHANGED <<cState, cPc, cGet, qState, qFresh>>
        /\ sState'.loopSeq = sState.loopSeq /\ sState'.posSeq = sState.posSeq
    BY DEF Release, Advanced, IInv, TypeOK, States
  <1> QED BY <1>1 DEF OrderInv, SeqOrder, Differs

LEMMA OtherOrder ==
    ASSUME IInv, OrderInv,
           \/ GetBufferPosition \/ Ack \/ PollPosLoop
           \/ PollNothing \/ PushPosLoop \/ Done \/ (\E ask \in Asks : Take(ask))
           \/ UNCHANGED vars
    PROVE  OrderInv'
  <1>1. /\ UNCHANGED <<cState, qState, qFresh, sState>>
        /\ cPc' # "idle" /\ ~cGet' => cPc # "idle" /\ ~cGet
        /\ sPc' = "posloop" => sPc = "posloop" /\ sUpdate' = sUpdate
    BY DEF GetBufferPosition, Ack, PollPosLoop, Proceed, PollNothing, PushPosLoop, Done,
           Take,
           vars, IInv, TypeOK, ReadInv
  <1> QED BY <1>1 DEF OrderInv, SeqOrder, Differs, Wins

LEMMA NextOrder == IInv /\ OrderInv /\ [Next]_vars => OrderInv'
  BY SetLoopOrder, SetBufferPositionOrder, PushOrder, PollPositionOrder, ReleaseOrder,
     OtherOrder DEF Next, ClientNext, ServerNext

\* For every modulus of the counters above four, and so for uint32_t: the server
\* carries out the later of setLoop() and setBufferPosition() as if it came last,
\* also when one poll brings both and after the counters have wrapped.
THEOREM LaterRequestWins == Spec => []LastRequestWins
  <1>1. Init => OrderInv
    BY DEF Init, ZeroState, OrderInv, SeqOrder, Differs
  <1>2. IInv /\ OrderInv => LastRequestWins
    BY DEF IInv, LoopInv, OrderInv, Wins, LastRequestWins
  <1> QED BY <1>1, <1>2, Invariance, NextOrder, PTL DEF Spec

================================================================================
