----------------------------- MODULE OffloadProofs -----------------------------
(***************************************************************************)
(* For any sizes of the mix buffer, the HAL and the ring: a pause loses no *)
(* data, the hardware runs while a track plays, a stopped track has been   *)
(* played to its end, and no acknowledgement is taken for another.         *)
(*                                                                         *)
(* Throughout, pause and stop wait for the answer to a resume (~Hasty) and *)
(* a paused track is not stopped (~StopsPaused); what is proved of the     *)
(* sequence numbers also needs a HAL whose callbacks do not outlive a      *)
(* flush (~LateCallbacks).                                                 *)
(***************************************************************************)
EXTENDS Offload, TLAPS

USE OffloadAssumption

-------------------------------------------------------------------------------
(* The inductive invariant.                                                *)

\* What keeps a paused track's data and its hardware waiting.
Suspended == mState = "PAUSED" \/ ResumePending

\* The data: a flush that is pending makes it void, so nothing need match.
\* What a pause saved is kept apart until the track is resumed.
DataInv ==
    /\ owed >= mBytesRemaining + mPausedBytesRemaining
    /\ ~mFlushHwPending => owed = mBytesRemaining + mPausedBytesRemaining
    /\ ~mFlushHwPending /\ mPausedBytesRemaining > 0 => mBytesRemaining = 0 /\ Suspended
    /\ tPc = "out" /\ tStatus = "READY" => owed = mBytesRemaining
    /\ tPc \in {"write", "written"} => mBytesRemaining > 0
    /\ tPc = "written" => tWritten <= mBytesRemaining
    /\ tPc # "written" => tWritten = 0
    /\ writeBlocked /\ ~mFlushHwPending => mBytesRemaining + mPausedBytesRemaining > 0

\* The hardware is paused for a track that is paused, or whose resume or flush
\* the loop has yet to see.
PausedInv ==
    /\ halPaused => mHwPaused /\ ~mStandby
    /\ mHwPaused => mFlushHwPending \/ Suspended

\* A track in its last state has nothing left but what the HAL plays.
StoppingInv ==
    /\ mState = "STOPPING_2" =>
         /\ active /\ ~mFlushHwPending /\ owed = 0 /\ tPc \in {"top", "out"}
         /\ tStatus \in {"IDLE", "DRAIN"}
    /\ mState = "PAUSED" => ~active
    /\ tPc = "out" /\ tStatus = "DRAIN" => ~writeBlocked /\ ~draining /\ mBytesRemaining = 0

\* At most one of four, and one of them.
AtMostOne(a, b, c, d) == /\ a => ~b /\ ~c /\ ~d
                         /\ b => ~c /\ ~d
                         /\ c => ~d
SomeOne(a, b, c, d) == a \/ b \/ c \/ d

\* The answer to a write the HAL cut short, or to a drain, is in one place at a
\* time on its way from the HAL to the loop.
WriteAnswer == SomeOne(halFull, cbWrite, cWrite.done, gotWrite = "fresh")
DrainAnswer == SomeOne(halDraining, cbDrain, cDrain.done, gotDrain = "fresh")

\* An answer is on its way only if the loop waits for it, and says what is so:
\* nothing is written meanwhile.
TokenInv ==
    /\ AtMostOne(halFull, cbWrite, cWrite.done, gotWrite = "fresh")
    /\ AtMostOne(halDraining, cbDrain, cDrain.done, gotDrain = "fresh")
    /\ WriteAnswer => writeBlocked
    /\ DrainAnswer => draining
    /\ tPc = "write" \/ (tPc = "written" /\ tWritten = mBytesRemaining) => ~WriteAnswer
    /\ tPc = "write" => writeBlocked
    /\ draining => tPc \notin {"write", "written"}
    /\ draining => halDraining \/ halBuf = 0
    /\ mState = "STOPPING_2" =>
         halBuf = 0 \/ mStandby \/ draining \/ (tPc = "out" /\ tStatus = "DRAIN")

IInv ==
    /\ TypeOK /\ DataInv /\ PausedInv /\ StoppingInv
    /\ ~LateCallbacks => TokenInv

-------------------------------------------------------------------------------
USE DEF trackVars, data, callbacks, hal, halLoop

\* The values that variables are reset to have their types.
LEMMA Resets ==
    /\ 0 \in 0..Chunk /\ 0 \in 0..RingSize /\ 0 \in 0..HalSize
    /\ 0 \in 0..StopRetries /\ StopRetries \in 0..StopRetries
    /\ Copy(TRUE) \in Copies /\ Copy(FALSE) \in Copies
  BY DEF Copy, Copies

LEMMA InitIInv == Init => IInv
  <1> SUFFICES ASSUME Init PROVE IInv
    OBVIOUS
  <1>1. TrackTypes /\ LoopTypes
    BY Resets DEF Init, TrackTypes, LoopTypes, States
  <1>2. CallbackTypes /\ HalTypes
    BY Resets DEF Init, CallbackTypes, HalTypes
  <1>3. DataInv /\ PausedInv /\ StoppingInv
    BY DEF Init, DataInv, PausedInv, StoppingInv
  <1>4. TokenInv
    BY DEF Init, Copy, TokenInv, AtMostOne, SomeOne, WriteAnswer, DrainAnswer
  <1> QED BY <1>1, <1>2, <1>3, <1>4 DEF IInv, TypeOK

LEMMA StartIInv == ASSUME IInv, ~Hasty, ~StopsPaused, Start PROVE IInv'
  <1>1. TrackTypes'
    BY DEF IInv, TypeOK, TrackTypes, States, Start
  <1>2. LoopTypes'
    BY DEF IInv, TypeOK, LoopTypes, Start, BinderCall
  <1>3. CallbackTypes'
    BY DEF IInv, TypeOK, CallbackTypes, Start, BinderCall
  <1>4. HalTypes'
    BY DEF IInv, TypeOK, HalTypes, Start, BinderCall
  <1>5. DataInv'
    BY DEF IInv, DataInv, Suspended, ResumePending, Start, BinderCall
  <1>6. PausedInv'
    BY DEF IInv, PausedInv, Suspended, ResumePending, Start, BinderCall
  <1>7. StoppingInv'
    BY DEF IInv, StoppingInv, Start, BinderCall
  <1>8. ~LateCallbacks => TokenInv'
    BY DEF IInv, TokenInv, WriteAnswer, DrainAnswer, Start, BinderCall
  <1> QED BY <1>1, <1>2, <1>3, <1>4, <1>5, <1>6, <1>7, <1>8 DEF IInv, TypeOK

LEMMA StopIInv == ASSUME IInv, ~Hasty, ~StopsPaused, Stop PROVE IInv'
  <1>1. TrackTypes'
    BY DEF IInv, TypeOK, TrackTypes, States, Stop
  <1>2. LoopTypes'
    BY DEF IInv, TypeOK, LoopTypes, Stop, BinderCall
  <1>3. CallbackTypes'
    BY DEF IInv, TypeOK, CallbackTypes, Stop, BinderCall
  <1>4. HalTypes'
    BY DEF IInv, TypeOK, HalTypes, Stop, BinderCall
  <1>5. DataInv'
    BY DEF IInv, DataInv, StoppingInv, Suspended, Stop, BinderCall
  <1>6. PausedInv'
    BY DEF IInv, PausedInv, StoppingInv, Suspended, Stop, BinderCall
  <1>7. StoppingInv'
    BY DEF IInv, StoppingInv, Stop, BinderCall
  <1>8. ~LateCallbacks => TokenInv'
    BY DEF IInv, TokenInv, WriteAnswer, DrainAnswer, Stop, BinderCall
  <1> QED BY <1>1, <1>2, <1>3, <1>4, <1>5, <1>6, <1>7, <1>8 DEF IInv, TypeOK

LEMMA PauseIInv == ASSUME IInv, ~Hasty, ~StopsPaused, Pause PROVE IInv'
  <1>1. TrackTypes'
    BY DEF IInv, TypeOK, TrackTypes, States, Pause
  <1>2. LoopTypes'
    BY DEF IInv, TypeOK, LoopTypes, Pause, BinderCall
  <1>3. CallbackTypes'
    BY DEF IInv, TypeOK, CallbackTypes, Pause, BinderCall
  <1>4. HalTypes'
    BY DEF IInv, TypeOK, HalTypes, Pause, BinderCall
  <1>5. DataInv'
    BY DEF IInv, DataInv, Suspended, Pause, BinderCall
  <1>6. PausedInv'
    BY DEF IInv, PausedInv, Suspended, Pause, BinderCall
  <1>7. StoppingInv'
    BY DEF IInv, StoppingInv, Pause, BinderCall
  <1>8. ~LateCallbacks => TokenInv'
    BY DEF IInv, TokenInv, WriteAnswer, DrainAnswer, Pause, BinderCall
  <1> QED BY <1>1, <1>2, <1>3, <1>4, <1>5, <1>6, <1>7, <1>8 DEF IInv, TypeOK

LEMMA FlushIInv == ASSUME IInv, ~Hasty, ~StopsPaused, Flush PROVE IInv'
  <1>1. TrackTypes'
    BY Resets DEF IInv, TypeOK, TrackTypes, States, Flush, BinderCall
  <1>2. LoopTypes'
    BY DEF IInv, TypeOK, LoopTypes, Flush, BinderCall
  <1>3. CallbackTypes'
    BY DEF IInv, TypeOK, CallbackTypes, Flush, BinderCall
  <1>4. HalTypes'
    BY DEF IInv, TypeOK, HalTypes, Flush, BinderCall
  <1>5. DataInv'
    BY DEF IInv, DataInv, Flush, BinderCall
  <1>6. PausedInv'
    BY DEF IInv, PausedInv, Flush, BinderCall
  <1>7. StoppingInv'
    BY DEF IInv, StoppingInv, Flush, BinderCall
  <1>8. ~LateCallbacks => TokenInv'
    BY DEF IInv, TokenInv, WriteAnswer, DrainAnswer, Flush, BinderCall
  <1> QED BY <1>1, <1>2, <1>3, <1>4, <1>5, <1>6, <1>7, <1>8 DEF IInv, TypeOK

LEMMA SetStreamVolumeIInv == ASSUME IInv, ~Hasty, ~StopsPaused, SetStreamVolume PROVE IInv'
  <1>1. TrackTypes'
    BY DEF IInv, TypeOK, TrackTypes, SetStreamVolume
  <1>2. LoopTypes'
    BY DEF IInv, TypeOK, LoopTypes, SetStreamVolume, BinderCall
  <1>3. CallbackTypes'
    BY DEF IInv, TypeOK, CallbackTypes, SetStreamVolume, BinderCall
  <1>4. HalTypes'
    BY DEF IInv, TypeOK, HalTypes, SetStreamVolume, BinderCall
  <1>5. DataInv'
    BY DEF IInv, DataInv, Suspended, ResumePending, SetStreamVolume, BinderCall
  <1>6. PausedInv'
    BY DEF IInv, PausedInv, Suspended, ResumePending, SetStreamVolume, BinderCall
  <1>7. StoppingInv'
    BY DEF IInv, StoppingInv, SetStreamVolume, BinderCall
  <1>8. ~LateCallbacks => TokenInv'
    BY DEF IInv, TokenInv, WriteAnswer, DrainAnswer, SetStreamVolume, BinderCall
  <1> QED BY <1>1, <1>2, <1>3, <1>4, <1>5, <1>6, <1>7, <1>8 DEF IInv, TypeOK

LEMMA ClientWriteIInv == ASSUME IInv, ~Hasty, ~StopsPaused, ClientWrite PROVE IInv'
  <1>1. TrackTypes'
    BY DEF IInv, TypeOK, TrackTypes, ClientWrite
  <1>2. LoopTypes'
    BY DEF IInv, TypeOK, LoopTypes, ClientWrite
  <1>3. CallbackTypes'
    BY DEF IInv, TypeOK, CallbackTypes, ClientWrite
  <1>4. HalTypes'
    BY DEF IInv, TypeOK, HalTypes, ClientWrite
  <1>5. DataInv'
    BY DEF IInv, DataInv, Suspended, ResumePending, ClientWrite
  <1>6. PausedInv'
    BY DEF IInv, PausedInv, Suspended, ResumePending, ClientWrite
  <1>7. StoppingInv'
    BY DEF IInv, StoppingInv, ClientWrite
  <1>8. ~LateCallbacks => TokenInv'
    BY DEF IInv, TokenInv, WriteAnswer, DrainAnswer, ClientWrite
  <1> QED BY <1>1, <1>2, <1>3, <1>4, <1>5, <1>6, <1>7, <1>8 DEF IInv, TypeOK

LEMMA PlayIInv == ASSUME IInv, ~Hasty, ~StopsPaused, Play PROVE IInv'
  <1>1. TrackTypes'
    BY DEF IInv, TypeOK, TrackTypes, Play
  <1>2. LoopTypes'
    BY DEF IInv, TypeOK, LoopTypes, Play
  <1>3. CallbackTypes'
    BY DEF IInv, TypeOK, CallbackTypes, Play
  <1>4. HalTypes'
    <2>1. halBuf' \in 0..HalSize
      BY DEF IInv, TypeOK, HalTypes, Play
    <2> QED BY <2>1 DEF IInv, TypeOK, HalTypes, Play
  <1>5. DataInv'
    BY DEF IInv, DataInv, Suspended, ResumePending, Play
  <1>6. PausedInv'
    BY DEF IInv, PausedInv, Suspended, ResumePending, Play
  <1>7. StoppingInv'
    BY DEF IInv, StoppingInv, Play
  <1>8. ~LateCallbacks => TokenInv'
    BY DEF IInv, TokenInv, AtMostOne, SomeOne, WriteAnswer, DrainAnswer, Play
  <1> QED BY <1>1, <1>2, <1>3, <1>4, <1>5, <1>6, <1>7, <1>8 DEF IInv, TypeOK

LEMMA DrainedIInv == ASSUME IInv, ~Hasty, ~StopsPaused, Drained PROVE IInv'
  <1>1. TrackTypes'
    BY DEF IInv, TypeOK, TrackTypes, Drained
  <1>2. LoopTypes'
    BY DEF IInv, TypeOK, LoopTypes, Drained
  <1>3. CallbackTypes'
    BY DEF IInv, TypeOK, CallbackTypes, Drained
  <1>4. HalTypes'
    BY DEF IInv, TypeOK, HalTypes, LoopTypes, Drained
  <1>5. DataInv'
    BY DEF IInv, DataInv, Suspended, ResumePending, Drained
  <1>6. PausedInv'
    BY DEF IInv, PausedInv, Suspended, ResumePending, Drained
  <1>7. StoppingInv'
    BY DEF IInv, StoppingInv, Drained
  <1>8. ~LateCallbacks => TokenInv'
    BY DEF IInv, TokenInv, AtMostOne, SomeOne, WriteAnswer, DrainAnswer, Drained
  <1> QED BY <1>1, <1>2, <1>3, <1>4, <1>5, <1>6, <1>7, <1>8 DEF IInv, TypeOK

LEMMA OnWriteReadyIInv == ASSUME IInv, ~Hasty, ~StopsPaused, OnWriteReady PROVE IInv'
  <1>1. TrackTypes'
    BY DEF IInv, TypeOK, TrackTypes, OnWriteReady
  <1>2. LoopTypes'
    BY DEF IInv, TypeOK, LoopTypes, OnWriteReady
  <1>3. CallbackTypes'
    BY DEF IInv, TypeOK, CallbackTypes, Copies, OnWriteReady
  <1>4. HalTypes'
    BY DEF IInv, TypeOK, HalTypes, LoopTypes, OnWriteReady
  <1>5. DataInv'
    BY DEF IInv, DataInv, Suspended, ResumePending, OnWriteReady
  <1>6. PausedInv'
    BY DEF IInv, PausedInv, Suspended, ResumePending, OnWriteReady
  <1>7. StoppingInv'
    BY DEF IInv, StoppingInv, OnWriteReady
  <1>8. ~LateCallbacks => TokenInv'
    BY DEF IInv, TokenInv, AtMostOne, SomeOne, WriteAnswer, DrainAnswer, OnWriteReady
  <1> QED BY <1>1, <1>2, <1>3, <1>4, <1>5, <1>6, <1>7, <1>8 DEF IInv, TypeOK

LEMMA OnDrainReadyIInv == ASSUME IInv, ~Hasty, ~StopsPaused, OnDrainReady PROVE IInv'
  <1>1. TrackTypes'
    BY DEF IInv, TypeOK, TrackTypes, OnDrainReady
  <1>2. LoopTypes'
    BY DEF IInv, TypeOK, LoopTypes, OnDrainReady
  <1>3. CallbackTypes'
    BY DEF IInv, TypeOK, CallbackTypes, Copies, OnDrainReady
  <1>4. HalTypes'
    BY DEF IInv, TypeOK, HalTypes, LoopTypes, OnDrainReady
  <1>5. DataInv'
    BY DEF IInv, DataInv, Suspended, ResumePending, OnDrainReady
  <1>6. PausedInv'
    BY DEF IInv, PausedInv, Suspended, ResumePending, OnDrainReady
  <1>7. StoppingInv'
    BY DEF IInv, StoppingInv, OnDrainReady
  <1>8. ~LateCallbacks => TokenInv'
    BY DEF IInv, TokenInv, AtMostOne, SomeOne, WriteAnswer, DrainAnswer, OnDrainReady
  <1> QED BY <1>1, <1>2, <1>3, <1>4, <1>5, <1>6, <1>7, <1>8 DEF IInv, TypeOK

LEMMA TakeIInv == ASSUME IInv, ~Hasty, ~StopsPaused, Take PROVE IInv'
  <1>1. TrackTypes'
    BY DEF IInv, TypeOK, TrackTypes, Take
  <1>2. LoopTypes'
    BY DEF IInv, TypeOK, LoopTypes, Take
  <1>3. CallbackTypes'
    BY DEF IInv, TypeOK, CallbackTypes, Copies, Take, Got
  <1>4. HalTypes'
    BY DEF IInv, TypeOK, HalTypes, Take
  <1>5. DataInv'
    BY DEF IInv, DataInv, Suspended, ResumePending, Take
  <1>6. PausedInv'
    BY DEF IInv, PausedInv, Suspended, ResumePending, Take
  <1>7. StoppingInv'
    BY DEF IInv, StoppingInv, Take
  <1>8. ~LateCallbacks => TokenInv'
    BY DEF IInv, TokenInv, AtMostOne, SomeOne, WriteAnswer, DrainAnswer, Take, Got
  <1> QED BY <1>1, <1>2, <1>3, <1>4, <1>5, <1>6, <1>7, <1>8 DEF IInv, TypeOK

LEMMA ResetWriteBlockedIInv == ASSUME IInv, ~Hasty, ~StopsPaused, ResetWriteBlocked PROVE IInv'
  <1>1. TrackTypes'
    BY DEF IInv, TypeOK, TrackTypes, ResetWriteBlocked
  <1>2. LoopTypes'
    BY DEF IInv, TypeOK, LoopTypes, ResetWriteBlocked
  <1>3. CallbackTypes'
    BY DEF IInv, TypeOK, CallbackTypes, ResetWriteBlocked
  <1>4. HalTypes'
    BY DEF IInv, TypeOK, HalTypes, ResetWriteBlocked
  <1>5. DataInv'
    BY DEF IInv, DataInv, Suspended, ResumePending, ResetWriteBlocked
  <1>6. PausedInv'
    BY DEF IInv, PausedInv, Suspended, ResumePending, ResetWriteBlocked
  <1>7. StoppingInv'
    BY DEF IInv, StoppingInv, ResetWriteBlocked
  <1>8. ~LateCallbacks => TokenInv'
    BY DEF IInv, TypeOK, LoopTypes, TokenInv, AtMostOne, SomeOne, WriteAnswer, DrainAnswer,
           ResetWriteBlocked, InSequence
  <1> QED BY <1>1, <1>2, <1>3, <1>4, <1>5, <1>6, <1>7, <1>8 DEF IInv, TypeOK

LEMMA ResetDrainingIInv == ASSUME IInv, ~Hasty, ~StopsPaused, ResetDraining PROVE IInv'
  <1>1. TrackTypes'
    BY DEF IInv, TypeOK, TrackTypes, ResetDraining
  <1>2. LoopTypes'
    BY DEF IInv, TypeOK, LoopTypes, ResetDraining
  <1>3. CallbackTypes'
    BY DEF IInv, TypeOK, CallbackTypes, ResetDraining
  <1>4. HalTypes'
    BY DEF IInv, TypeOK, HalTypes, ResetDraining
  <1>5. DataInv'
    BY DEF IInv, DataInv, Suspended, ResumePending, ResetDraining
  <1>6. PausedInv'
    BY DEF IInv, PausedInv, Suspended, ResumePending, ResetDraining
  <1>7. StoppingInv'
    BY DEF IInv, StoppingInv, ResetDraining
  <1>8. ~LateCallbacks => TokenInv'
    BY DEF IInv, TypeOK, HalTypes, CallbackTypes, Copies, TokenInv, AtMostOne, SomeOne,
           WriteAnswer, DrainAnswer, ResetDraining, InSequence
  <1> QED BY <1>1, <1>2, <1>3, <1>4, <1>5, <1>6, <1>7, <1>8 DEF IInv, TypeOK

LEMMA StandbyIInv == ASSUME IInv, ~Hasty, ~StopsPaused, Standby PROVE IInv'
  <1>1. TrackTypes'
    BY DEF IInv, TypeOK, TrackTypes, Standby
  <1>2. LoopTypes'
    BY DEF IInv, TypeOK, LoopTypes, DataInv, Standby, Discard, HalEmptied, Copy, Aged,
           Waiting
  <1>3. CallbackTypes'
    BY DEF IInv, CallbackTypes, Copies, Standby, Discard, Copy, Aged
  <1>4. HalTypes'
    BY Resets DEF IInv, TypeOK, HalTypes, Standby, HalEmptied
  <1>5. DataInv'
    BY DEF IInv, DataInv, Suspended, ResumePending, Standby, Discard
  <1>6. PausedInv'
    BY DEF IInv, PausedInv, Standby, HalEmptied
  <1>7. StoppingInv'
    BY DEF IInv, StoppingInv, Standby
  <1>8. ~LateCallbacks => TokenInv'
    BY DEF IInv, TokenInv, AtMostOne, SomeOne, WriteAnswer, DrainAnswer, Standby, Discard,
           HalEmptied, Copy, Aged
  <1> QED BY <1>1, <1>2, <1>3, <1>4, <1>5, <1>6, <1>7, <1>8 DEF IInv, TypeOK

LEMMA PrepareNothingIInv == ASSUME IInv, ~Hasty, ~StopsPaused, PrepareNothing PROVE IInv'
  <1>1. TrackTypes'
    BY DEF IInv, TypeOK, TrackTypes, PrepareNothing, Wakes
  <1>2. LoopTypes'
    BY DEF IInv, TypeOK, LoopTypes, DataInv, PrepareNothing, Wakes
  <1>3. CallbackTypes'
    BY DEF IInv, TypeOK, CallbackTypes, PrepareNothing
  <1>4. HalTypes'
    BY DEF IInv, TypeOK, HalTypes, PrepareNothing
  <1>5. DataInv'
    BY DEF IInv, DataInv, Suspended, ResumePending, PrepareNothing, Wakes
  <1>6. PausedInv'
    BY DEF IInv, PausedInv, Suspended, ResumePending, PrepareNothing
  <1>7. StoppingInv'
    BY DEF IInv, StoppingInv, PrepareNothing, Wakes
  <1>8. ~LateCallbacks => TokenInv'
    BY DEF IInv, TokenInv, WriteAnswer, DrainAnswer, PrepareNothing, Wakes
  <1> QED BY <1>1, <1>2, <1>3, <1>4, <1>5, <1>6, <1>7, <1>8 DEF IInv, TypeOK

LEMMA PreparePauseIInv == ASSUME IInv, ~Hasty, ~StopsPaused, PreparePause PROVE IInv'
  <1>1. TrackTypes'
    BY DEF IInv, TypeOK, TrackTypes, States, PreparePause, Wakes, Saved
  <1>2. LoopTypes'
    BY DEF IInv, TypeOK, LoopTypes, DataInv, PreparePause, Wakes, Saved
  <1>3. CallbackTypes'
    BY DEF IInv, TypeOK, CallbackTypes, PreparePause
  <1>4. HalTypes'
    BY DEF IInv, TypeOK, HalTypes, PreparePause
  <1>5. DataInv'
    BY DEF IInv, TypeOK, LoopTypes, DataInv, Suspended, ResumePending, PreparePause, Wakes,
           Saved
  <1>6. PausedInv'
    BY DEF IInv, PausedInv, Suspended, PreparePause
  <1>7. StoppingInv'
    BY DEF IInv, StoppingInv, PreparePause, Wakes
  <1>8. ~LateCallbacks => TokenInv'
    BY DEF IInv, TokenInv, WriteAnswer, DrainAnswer, PreparePause, Wakes
  <1> QED BY <1>1, <1>2, <1>3, <1>4, <1>5, <1>6, <1>7, <1>8 DEF IInv, TypeOK

LEMMA PrepareFlushIInv == ASSUME IInv, ~Hasty, ~StopsPaused, PrepareFlush PROVE IInv'
  <1>1. TrackTypes'
    BY Resets DEF IInv, TypeOK, TrackTypes, PrepareFlush, Wakes
  <1>2. LoopTypes'
    BY DEF IInv, TypeOK, LoopTypes, DataInv, PrepareFlush, Wakes, Discard, HalEmptied,
           Copy, Aged
  <1>3. CallbackTypes'
    BY DEF IInv, CallbackTypes, Copies, PrepareFlush, Discard, Copy, Aged
  <1>4. HalTypes'
    BY Resets DEF IInv, TypeOK, HalTypes, PrepareFlush, HalEmptied
  <1>5. DataInv'
    BY DEF IInv, DataInv, PrepareFlush, Wakes, Discard
  <1>6. PausedInv'
    BY DEF IInv, PausedInv, PrepareFlush, HalEmptied
  <1>7. StoppingInv'
    BY DEF IInv, StoppingInv, PrepareFlush, Discard
  <1>8. ~LateCallbacks => TokenInv'
    BY DEF IInv, TokenInv, AtMostOne, SomeOne, WriteAnswer, DrainAnswer, PrepareFlush,
           Wakes, Discard, HalEmptied, Copy, Aged
  <1> QED BY <1>1, <1>2, <1>3, <1>4, <1>5, <1>6, <1>7, <1>8 DEF IInv, TypeOK

LEMMA PrepareResumeIInv == ASSUME IInv, ~Hasty, ~StopsPaused, PrepareResume PROVE IInv'
  <1>1. TrackTypes'
    BY DEF IInv, TypeOK, TrackTypes, States, PrepareResume, Wakes
  <1>2. LoopTypes'
    BY DEF IInv, TypeOK, LoopTypes, DataInv, PrepareResume, Wakes, Resumed
  <1>3. CallbackTypes'
    BY DEF IInv, TypeOK, CallbackTypes, PrepareResume
  <1>4. HalTypes'
    BY DEF IInv, TypeOK, HalTypes, PrepareResume, Resumed
  <1>5. DataInv'
    BY DEF IInv, TypeOK, LoopTypes, DataInv, PrepareResume, Wakes
  <1>6. PausedInv'
    BY DEF IInv, PausedInv, PrepareResume, Resumed
  <1>7. StoppingInv'
    BY DEF IInv, StoppingInv, ResumePending, PrepareResume, Wakes
  <1>8. ~LateCallbacks => TokenInv'
    BY DEF IInv, TokenInv, WriteAnswer, DrainAnswer, PrepareResume, Wakes
  <1> QED BY <1>1, <1>2, <1>3, <1>4, <1>5, <1>6, <1>7, <1>8 DEF IInv, TypeOK

LEMMA PrepareReadyIInv == ASSUME IInv, ~Hasty, ~StopsPaused, PrepareReady PROVE IInv'
  <1>1. TrackTypes'
    BY DEF IInv, TypeOK, TrackTypes, PrepareReady, Wakes
  <1>2. LoopTypes'
    BY DEF IInv, TypeOK, LoopTypes, DataInv, PrepareReady, Wakes, Steady
  <1>3. CallbackTypes'
    BY DEF IInv, TypeOK, CallbackTypes, PrepareReady
  <1>4. HalTypes'
    BY DEF IInv, TypeOK, HalTypes, PrepareReady
  <1>5. DataInv'
    BY DEF IInv, TypeOK, LoopTypes, DataInv, Suspended, PrepareReady, Wakes, Steady
  <1>6. PausedInv'
    BY DEF IInv, PausedInv, Suspended, PrepareReady, Steady
  <1>7. StoppingInv'
    BY DEF IInv, StoppingInv, PrepareReady, Wakes
  <1>8. ~LateCallbacks => TokenInv'
    BY DEF IInv, TokenInv, WriteAnswer, DrainAnswer, PrepareReady, Wakes
  <1> QED BY <1>1, <1>2, <1>3, <1>4, <1>5, <1>6, <1>7, <1>8 DEF IInv, TypeOK

LEMMA PrepareRetryIInv == ASSUME IInv, ~Hasty, ~StopsPaused, PrepareRetry PROVE IInv'
  <1>1. TrackTypes'
    BY DEF IInv, TypeOK, TrackTypes, PrepareRetry, Wakes
  <1>2. LoopTypes'
    BY DEF IInv, TypeOK, LoopTypes, DataInv, PrepareRetry, Wakes, Steady
  <1>3. CallbackTypes'
    BY DEF IInv, TypeOK, CallbackTypes, PrepareRetry
  <1>4. HalTypes'
    BY DEF IInv, TypeOK, HalTypes, PrepareRetry
  <1>5. DataInv'
    BY DEF IInv, DataInv, Suspended, PrepareRetry, Wakes, Steady
  <1>6. PausedInv'
    BY DEF IInv, PausedInv, Suspended, PrepareRetry, Steady
  <1>7. StoppingInv'
    BY DEF IInv, StoppingInv, PrepareRetry, Wakes
  <1>8. ~LateCallbacks => TokenInv'
    BY DEF IInv, TokenInv, WriteAnswer, DrainAnswer, PrepareRetry, Wakes
  <1> QED BY <1>1, <1>2, <1>3, <1>4, <1>5, <1>6, <1>7, <1>8 DEF IInv, TypeOK

LEMMA PrepareDrainIInv == ASSUME IInv, ~Hasty, ~StopsPaused, PrepareDrain PROVE IInv'
  <1>1. TrackTypes'
    BY DEF IInv, TypeOK, TrackTypes, States, PrepareDrain, Wakes
  <1>2. LoopTypes'
    BY DEF IInv, TypeOK, LoopTypes, DataInv, PrepareDrain, Wakes, Steady, Aged, Waiting
  <1>3. CallbackTypes'
    BY DEF IInv, TypeOK, CallbackTypes, Copies, PrepareDrain, Wakes, Steady, Aged, Waiting
  <1>4. HalTypes'
    BY DEF IInv, TypeOK, HalTypes, PrepareDrain
  <1>5. DataInv'
    BY DEF IInv, DataInv, Suspended, PrepareDrain, Wakes, Steady
  <1>6. PausedInv'
    BY DEF IInv, PausedInv, Suspended, PrepareDrain, Steady
  <1>7. StoppingInv'
    BY DEF IInv, TypeOK, LoopTypes, DataInv, StoppingInv, Suspended, PrepareDrain, Wakes,
           Steady
  <1>8. ~LateCallbacks => TokenInv'
    BY DEF IInv, TypeOK, CallbackTypes, Copies, TokenInv, SomeOne, WriteAnswer,
           DrainAnswer, PrepareDrain, Wakes, Aged
  <1> QED BY <1>1, <1>2, <1>3, <1>4, <1>5, <1>6, <1>7, <1>8 DEF IInv, TypeOK

LEMMA PrepareStoppedIInv == ASSUME IInv, ~Hasty, ~StopsPaused, PrepareStopped PROVE IInv'
  <1>1. TrackTypes'
    BY DEF IInv, TypeOK, TrackTypes, States, PrepareStopped, Wakes, Steady, DrainOver
  <1>2. LoopTypes'
    BY DEF IInv, TypeOK, LoopTypes, DataInv, PrepareStopped, Wakes, Steady, DrainOver
  <1>3. CallbackTypes'
    BY DEF IInv, TypeOK, CallbackTypes, PrepareStopped
  <1>4. HalTypes'
    BY DEF IInv, TypeOK, HalTypes, PrepareStopped
  <1>5. DataInv'
    BY DEF IInv, DataInv, Suspended, PrepareStopped, Wakes, Steady
  <1>6. PausedInv'
    BY DEF IInv, PausedInv, Suspended, PrepareStopped, Steady
  <1>7. StoppingInv'
    BY DEF IInv, TypeOK, LoopTypes, TrackTypes, DataInv, StoppingInv, Suspended,
           ResumePending, PrepareStopped, Wakes, Steady, DrainOver
  <1>8. ~LateCallbacks => TokenInv'
    BY DEF IInv, TokenInv, WriteAnswer, DrainAnswer, PrepareStopped, Wakes
  <1> QED BY <1>1, <1>2, <1>3, <1>4, <1>5, <1>6, <1>7, <1>8 DEF IInv, TypeOK

LEMMA PrepareUnderrunIInv == ASSUME IInv, ~Hasty, ~StopsPaused, PrepareUnderrun PROVE IInv'
  <1>1. TrackTypes'
    BY DEF IInv, TypeOK, TrackTypes, PrepareUnderrun, Wakes
  <1>2. LoopTypes'
    BY DEF IInv, TypeOK, LoopTypes, DataInv, PrepareUnderrun, Wakes, Steady
  <1>3. CallbackTypes'
    BY DEF IInv, TypeOK, CallbackTypes, PrepareUnderrun
  <1>4. HalTypes'
    BY DEF IInv, TypeOK, HalTypes, PrepareUnderrun
  <1>5. DataInv'
    BY DEF IInv, DataInv, Suspended, PrepareUnderrun, Wakes, Steady
  <1>6. PausedInv'
    BY DEF IInv, PausedInv, Suspended, PrepareUnderrun, Steady
  <1>7. StoppingInv'
    BY DEF IInv, StoppingInv, PrepareUnderrun, Wakes
  <1>8. ~LateCallbacks => TokenInv'
    BY DEF IInv, TokenInv, WriteAnswer, DrainAnswer, PrepareUnderrun, Wakes
  <1> QED BY <1>1, <1>2, <1>3, <1>4, <1>5, <1>6, <1>7, <1>8 DEF IInv, TypeOK

LEMMA OutIInv == ASSUME IInv, ~Hasty, ~StopsPaused, Out PROVE IInv'
  <1>1. TrackTypes'
    BY DEF IInv, TypeOK, TrackTypes, Out, Mix
  <1>2. LoopTypes'
    <2>1. /\ mBytesRemaining' \in 0..Chunk /\ owed' \in 0..Chunk
          /\ mPausedBytesRemaining' = mPausedBytesRemaining
      BY DEF IInv, TypeOK, LoopTypes, DataInv, Out, Mix, Mixed
    <2>2. /\ tPc' \in {"top", "out", "write", "written"}
          /\ writeBlocked' \in BOOLEAN /\ draining' \in BOOLEAN
      BY DEF IInv, TypeOK, LoopTypes, Out
    <2> QED BY <2>1, <2>2 DEF IInv, TypeOK, LoopTypes, Out
  <1>3. CallbackTypes'
    BY Resets DEF IInv, TypeOK, CallbackTypes, Out, Aged
  <1>4. HalTypes'
    BY DEF IInv, TypeOK, HalTypes, LoopTypes, Out, Mix, Mixed, Waiting, Copy, Aged
  <1>5. DataInv'
    BY DEF IInv, TypeOK, LoopTypes, DataInv, Suspended, ResumePending, Out, Mix, Mixed, Copy
  <1>6. PausedInv'
    BY DEF IInv, PausedInv, Suspended, ResumePending, Out, Copy
  <1>7. StoppingInv'
    BY DEF IInv, TypeOK, LoopTypes, DataInv, StoppingInv, Out, Mix, Mixed, Copy
  <1>8. ~LateCallbacks => TokenInv'
    BY DEF IInv, StoppingInv, TokenInv, AtMostOne, SomeOne, WriteAnswer, DrainAnswer, Out,
           Mix, Mixed, Waiting, Copy, Aged
  <1> QED BY <1>1, <1>2, <1>3, <1>4, <1>5, <1>6, <1>7, <1>8 DEF IInv, TypeOK

LEMMA HalWriteIInv == ASSUME IInv, ~Hasty, ~StopsPaused, HalWrite PROVE IInv'
  <1>1. TrackTypes'
    BY DEF IInv, TypeOK, TrackTypes, HalWrite
  <1>2. LoopTypes'
    <2>1. tWritten' \in 0..Chunk
      BY DEF IInv, TypeOK, LoopTypes, HalTypes, HalWrite
    <2> QED BY <2>1 DEF IInv, TypeOK, LoopTypes, HalWrite
  <1>3. CallbackTypes'
    BY DEF IInv, TypeOK, CallbackTypes, HalWrite
  <1>4. HalTypes'
    BY DEF IInv, TypeOK, HalTypes, LoopTypes, HalWrite
  <1>5. DataInv'
    BY DEF IInv, TypeOK, LoopTypes, DataInv, HalWrite
  <1>6. PausedInv'
    BY DEF IInv, PausedInv, Suspended, ResumePending, HalWrite
  <1>7. StoppingInv'
    BY DEF IInv, StoppingInv, HalWrite
  <1>8. ~LateCallbacks => TokenInv'
    <2> SUFFICES ASSUME ~LateCallbacks PROVE TokenInv'
      OBVIOUS
    <2>1. TokenInv /\ ~WriteAnswer /\ ~draining /\ ~DrainAnswer
      BY DEF IInv, TokenInv, HalWrite
    <2>2. mBytesRemaining' = mBytesRemaining /\ (tWritten' = mBytesRemaining' => ~halFull')
      BY DEF IInv, TypeOK, LoopTypes, HalWrite
    <2>3. mState # "STOPPING_2"
      BY DEF IInv, StoppingInv, HalWrite
    <2> QED BY <2>1, <2>2, <2>3
               DEF HalWrite, TokenInv, AtMostOne, SomeOne, WriteAnswer, DrainAnswer
  <1> QED BY <1>1, <1>2, <1>3, <1>4, <1>5, <1>6, <1>7, <1>8 DEF IInv, TypeOK

LEMMA WrittenIInv == ASSUME IInv, ~Hasty, ~StopsPaused, Written PROVE IInv'
  <1>1. TrackTypes'
    BY DEF IInv, TypeOK, TrackTypes, Written
  <1>2. LoopTypes'
    <2>1. mBytesRemaining' \in 0..Chunk /\ owed' \in 0..Chunk /\ tWritten' \in 0..Chunk
      BY DEF IInv, TypeOK, LoopTypes, DataInv, Written
    <2> QED BY <2>1 DEF IInv, TypeOK, LoopTypes, Written
  <1>3. CallbackTypes'
    BY Resets DEF IInv, TypeOK, CallbackTypes, Written
  <1>4. HalTypes'
    BY DEF IInv, TypeOK, HalTypes, Written
  <1>5. DataInv'
    BY DEF IInv, TypeOK, LoopTypes, DataInv, Written, Copy
  <1>6. PausedInv'
    BY DEF IInv, PausedInv, Suspended, ResumePending, Written
  <1>7. StoppingInv'
    BY DEF IInv, StoppingInv, Written
  <1>8. ~LateCallbacks => TokenInv'
    BY DEF IInv, StoppingInv, TokenInv, AtMostOne, SomeOne, WriteAnswer, DrainAnswer,
           Written, Copy
  <1> QED BY <1>1, <1>2, <1>3, <1>4, <1>5, <1>6, <1>7, <1>8 DEF IInv, TypeOK

-------------------------------------------------------------------------------
LEMMA StutterIInv == ASSUME IInv, UNCHANGED vars PROVE IInv'
  <1>1. TypeOK'
    BY DEF IInv, TypeOK, TrackTypes, LoopTypes, CallbackTypes, HalTypes, vars
  <1>2. DataInv' /\ PausedInv' /\ StoppingInv'
    BY DEF IInv, DataInv, PausedInv, StoppingInv, Suspended, ResumePending, vars
  <1>3. ~LateCallbacks => TokenInv'
    BY DEF IInv, TokenInv, AtMostOne, SomeOne, WriteAnswer, DrainAnswer, vars
  <1> QED BY <1>1, <1>2, <1>3 DEF IInv

LEMMA NextIInv == ASSUME ~Hasty, ~StopsPaused PROVE IInv /\ [Next]_vars => IInv'
  <1> SUFFICES ASSUME IInv, [Next]_vars PROVE IInv'
    OBVIOUS
  <1>1. CASE Client
    BY <1>1, StartIInv, StopIInv, PauseIInv, FlushIInv, SetStreamVolumeIInv, ClientWriteIInv
       DEF Client
  <1>2. CASE Hal \/ Callback
    BY <1>2, PlayIInv, DrainedIInv, OnWriteReadyIInv, OnDrainReadyIInv, TakeIInv,
       ResetWriteBlockedIInv, ResetDrainingIInv DEF Hal, Callback
  <1>3. CASE Prepare
    BY <1>3, PrepareNothingIInv, PreparePauseIInv, PrepareFlushIInv, PrepareResumeIInv,
       PrepareReadyIInv, PrepareRetryIInv, PrepareDrainIInv, PrepareStoppedIInv,
       PrepareUnderrunIInv DEF Prepare
  <1>4. CASE Standby \/ Out \/ HalWrite \/ Written
    BY <1>4, StandbyIInv, OutIInv, HalWriteIInv, WrittenIInv
  <1>5. CASE UNCHANGED vars
    BY <1>5, StutterIInv
  <1> QED BY <1>1, <1>2, <1>3, <1>4, <1>5 DEF Next, Loop

\* The inductive invariant holds throughout, and what is said in it of the
\* callbacks if none comes after a flush or a standby.
THEOREM Invariance == ASSUME ~Hasty, ~StopsPaused PROVE Spec => []IInv
  BY InitIInv, NextIInv, PTL DEF Spec

\* A pause in the middle of a write to the HAL loses nothing of it, whenever the
\* HAL calls back.
THEOREM NothingIsLost == ASSUME ~Hasty, ~StopsPaused PROVE Spec => []NothingLost
  <1>1. IInv => NothingLost
    BY DEF IInv, TypeOK, TrackTypes, DataInv, NothingLost
  <1> QED BY <1>1, Invariance, PTL

\* While a track plays or drains the hardware runs, whenever the HAL calls back.
THEOREM HardwareIsRunning == ASSUME ~Hasty, ~StopsPaused PROVE Spec => []HardwareRuns
  <1>1. IInv => HardwareRuns
    BY DEF IInv, PausedInv, Suspended, Steady, HardwareRuns
  <1> QED BY <1>1, Invariance, PTL

\* A track found stopped has been played to its end: the drain was its own.
THEOREM StoppedIsPlayed ==
    ASSUME ~Hasty, ~StopsPaused, ~LateCallbacks PROVE Spec => PlayedToTheEnd
  <1>1. ASSUME IInv, Next, mState = "STOPPING_2", mState' = "STOPPED", ~mStandby
        PROVE  halBuf = 0 /\ owed = 0
    <2>1. owed = 0 /\ active
      BY <1>1 DEF IInv, StoppingInv
    <2>2. PrepareStopped
      BY <1>1, <2>1
         DEF Next, Client, Start, Stop, Pause, Flush, SetStreamVolume, ClientWrite,
             Hal, Play, Drained, Callback, OnWriteReady, OnDrainReady, Take,
             ResetWriteBlocked, ResetDraining, Loop, Prepare, PrepareNothing, PreparePause,
             PrepareFlush, PrepareResume, PrepareReady, PrepareRetry, PrepareDrain,
             PrepareUnderrun, Standby, Out, HalWrite, Written
    <2>3. ~draining /\ tPc = "top"
      BY <1>1, <2>2 DEF PrepareStopped, DrainOver, Wakes
    <2> QED BY <1>1, <2>1, <2>3 DEF IInv, TokenInv
  <1>2. IInv /\ [Next]_vars =>
            [mState = "STOPPING_2" /\ mState' = "STOPPED" /\ ~mStandby
                => halBuf = 0 /\ owed = 0]_vars
    BY <1>1
  <1> QED BY <1>2, Invariance, PTL DEF Spec, PlayedToTheEnd

\* The loop does not write before the HAL has answered the write it cut short.
THEOREM WritesAreAnswered ==
    ASSUME ~Hasty, ~StopsPaused, ~LateCallbacks PROVE Spec => NoEarlyWrite
  <1>1. ASSUME IInv, Next, tPc = "out", tPc' = "write" PROVE ~halFull
    <2>1. Out
      BY <1>1
         DEF Next, Client, Start, Stop, Pause, Flush, SetStreamVolume, BinderCall, ClientWrite,
             Hal, Play, Drained, Callback, OnWriteReady, OnDrainReady, Take, halLoop,
             ResetWriteBlocked, ResetDraining, Loop, Prepare, PrepareNothing, PreparePause,
             PrepareFlush, PrepareResume, PrepareReady, PrepareRetry, PrepareDrain,
             PrepareStopped, PrepareUnderrun, Wakes, Standby, HalWrite, Written
    <2>2. ~writeBlocked
      BY <1>1, <2>1 DEF Out, Waiting
    <2> QED BY <1>1, <2>2 DEF IInv, TokenInv, WriteAnswer, SomeOne
  <1>2. IInv /\ [Next]_vars => [tPc = "out" /\ tPc' = "write" => ~halFull]_vars
    BY <1>1 DEF vars
  <1> QED BY <1>2, Invariance, PTL DEF Spec, NoEarlyWrite

===============================================================================
