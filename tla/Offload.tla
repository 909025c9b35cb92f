-------------------------------- MODULE Offload --------------------------------
(***************************************************************************)
(* An offloaded track (services/audioflinger/Threads.cpp, OffloadThread    *)
(* and AsyncCallbackThread; Tracks.cpp).  The HAL takes part of a write    *)
(* and calls back when it has room, and calls back when it has drained;    *)
(* the callback thread passes both on to the thread's loop, which sleeps   *)
(* meanwhile, without a timeout, and is woken by start, stop, pause and    *)
(* flush as well.                                                          *)
(*                                                                         *)
(* One track, so it is always the last one.  mWriteAckSequence and         *)
(* mDrainSequence only grow, so what matters of a sequence number that was *)
(* copied is whether it is still the current one: a number is kept as its  *)
(* bit 0 (writeBlocked, draining), and a copy as armed (its bit 0), done   *)
(* (the bit the callback thread appends) and fresh (it is the current      *)
(* number).  The audio policy's part in start() is in TrackLife; volume,   *)
(* filling, wake locks and the HAL's errors are left out.                  *)
(***************************************************************************)
EXTENDS Integers

CONSTANTS Chunk,        \* units in a full mix buffer
          HalSize,      \* units the HAL holds
          RingSize,     \* mix buffers the client can write ahead
          StopRetries,  \* kMaxTrackStopRetriesOffload
          Hasty,        \* pause and stop may overtake the loop's answer to a resume
          StopsPaused,  \* the client stops a paused track
          LateCallbacks \* a callback may arrive after a flush or a standby

ASSUME OffloadAssumption ==
    /\ Chunk \in Nat \ {0} /\ HalSize \in Nat \ {0} /\ RingSize \in Nat \ {0}
    /\ StopRetries \in Nat \ {0}
    /\ Hasty \in BOOLEAN /\ StopsPaused \in BOOLEAN /\ LateCallbacks \in BOOLEAN

VARIABLES
  mState, mResumeToStopping, mFlushHwPending, mRetryCount,   \* the Track
  active,         \* in mActiveTracks
  ring,           \* what the client has written, in mix buffers
  mBytesRemaining, mPausedBytesRemaining,
  owed,           \* history: units taken from the client, not yet given to the HAL
  mHwPaused, mStandby, mSignalPending,
  writeBlocked, draining,         \* mWriteAckSequence & 1, mDrainSequence & 1
  tPc, tStatus, tWritten,         \* the thread's loop
  cWrite, cDrain,                 \* AsyncCallbackThread's copies
  gotWrite, gotDrain,             \* its locals writeAckSequence, drainSequence
  halBuf, halPaused, halFull, halDraining,  \* the HAL; it owes a call of onWriteReady
  cbWrite, cbDrain                \* callbacks on their way

trackVars == <<mState, mResumeToStopping, mFlushHwPending, mRetryCount, active>>
data      == <<mBytesRemaining, mPausedBytesRemaining, owed>>
callbacks == <<cWrite, cDrain, gotWrite, gotDrain>>
hal       == <<halBuf, halPaused, halFull, halDraining, cbWrite, cbDrain>>
vars      == <<trackVars, ring, data, mHwPaused, mStandby, mSignalPending,
               writeBlocked, draining, tPc, tStatus, tWritten, callbacks, hal>>

States == {"IDLE", "STOPPED", "STOPPING_1", "STOPPING_2", "RESUMING", "ACTIVE",
           "PAUSING", "PAUSED"}

Copy(armed) == [armed |-> armed, done |-> FALSE, fresh |-> TRUE]
Aged(got)   == IF got = "none" THEN got ELSE "stale"

Init ==
    /\ mState = "IDLE" /\ mResumeToStopping = FALSE /\ mFlushHwPending = FALSE
    /\ mRetryCount = StopRetries /\ active = FALSE /\ ring = 0
    /\ mBytesRemaining = 0 /\ mPausedBytesRemaining = 0 /\ owed = 0
    /\ mHwPaused = FALSE /\ mStandby = TRUE /\ mSignalPending = FALSE
    /\ writeBlocked = FALSE /\ draining = FALSE
    /\ tPc = "top" /\ tStatus = "IDLE" /\ tWritten = 0
    /\ cWrite = Copy(FALSE) /\ cDrain = Copy(FALSE)
    /\ gotWrite = "none" /\ gotDrain = "none"
    /\ halBuf = 0 /\ halPaused = FALSE /\ halFull = FALSE /\ halDraining = FALSE
    /\ cbWrite = FALSE /\ cbDrain = FALSE

-------------------------------------------------------------------------------
(* Binder threads, under the thread's lock; each ends in broadcast_l().    *)

ResumePending == mState = "RESUMING" \/ (mState = "STOPPING_1" /\ mResumeToStopping)

\* broadcast_l().
BinderCall ==
    /\ mSignalPending' = TRUE
    /\ UNCHANGED <<data, mHwPaused, mStandby, writeBlocked, draining, tPc, tStatus,
                   tWritten, callbacks, hal>>

\* Track::start() and addTrack_l().
Start ==
    /\ mState \notin {"ACTIVE", "RESUMING"}
    /\ ResumePending => Hasty
    /\ mState' = IF mState \notin {"PAUSED", "PAUSING"} THEN "ACTIVE"
                 ELSE IF mResumeToStopping THEN "STOPPING_1" ELSE "RESUMING"
    /\ active' = TRUE
    /\ mRetryCount' = IF active THEN mRetryCount ELSE StopRetries
    /\ BinderCall
    /\ UNCHANGED <<mResumeToStopping, mFlushHwPending, ring>>

\* Track::stop().
Stop ==
    /\ mState \in {"RESUMING", "ACTIVE", "PAUSING", "PAUSED"}
    /\ ResumePending => Hasty
    /\ ~active => StopsPaused \/ mState # "PAUSED"
    /\ mState' = IF active THEN "STOPPING_1" ELSE "STOPPED"
    /\ mRetryCount' = IF active THEN StopRetries ELSE mRetryCount
    /\ BinderCall
    /\ UNCHANGED <<mResumeToStopping, mFlushHwPending, active, ring>>

\* Track::pause().
Pause ==
    /\ mState \in {"STOPPING_1", "STOPPING_2", "ACTIVE", "RESUMING"}
    /\ ResumePending => Hasty
    /\ mState' = "PAUSING"
    /\ mResumeToStopping' = (mResumeToStopping \/ mState \in {"STOPPING_1", "STOPPING_2"})
    /\ BinderCall
    /\ UNCHANGED <<mFlushHwPending, mRetryCount, active, ring>>

\* Track::flush().  AudioTrack::flush() does nothing while it plays.
Flush ==
    /\ mState \notin {"ACTIVE", "RESUMING"}
    /\ ring' = 0
    /\ mState' = IF mState \in {"STOPPING_1", "STOPPING_2"} THEN "ACTIVE" ELSE mState
    /\ mFlushHwPending' = TRUE /\ mResumeToStopping' = FALSE
    /\ BinderCall
    /\ UNCHANGED <<mRetryCount, active>>

\* setStreamVolume(), which wakes the loop for nothing it waits for.
SetStreamVolume == BinderCall /\ UNCHANGED <<trackVars, ring>>

\* The client writes a mix buffer ahead, but not after stop().
ClientWrite ==
    /\ ring < RingSize /\ mState \notin {"STOPPING_1", "STOPPING_2"} /\ ~mResumeToStopping
    /\ ring' = ring + 1
    /\ UNCHANGED <<trackVars, data, mHwPaused, mStandby, mSignalPending, writeBlocked,
                   draining, tPc, tStatus, tWritten, callbacks, hal>>

-------------------------------------------------------------------------------
(* The HAL (external) and the callback thread.                             *)

halLoop == <<trackVars, ring, data, mHwPaused, mStandby, mSignalPending, tPc,
             tStatus, tWritten>>

\* A unit is played; a writer that was refused is called back.
Play ==
    /\ halBuf > 0 /\ ~halPaused
    /\ halBuf' = halBuf - 1 /\ halFull' = FALSE /\ cbWrite' = (cbWrite \/ halFull)
    /\ UNCHANGED <<halLoop, writeBlocked, draining, callbacks, halPaused, halDraining,
                   cbDrain>>

\* All is played, and a drain was asked for.
Drained ==
    /\ halDraining /\ halBuf = 0 /\ ~halPaused
    /\ halDraining' = FALSE /\ cbDrain' = TRUE
    /\ UNCHANGED <<halLoop, writeBlocked, draining, callbacks, halBuf, halPaused,
                   halFull, cbWrite>>

\* onWriteReady(): AsyncCallbackThread::resetWriteBlocked().
OnWriteReady ==
    /\ cbWrite /\ cbWrite' = FALSE
    /\ cWrite' = IF cWrite.armed THEN [cWrite EXCEPT !.done = TRUE] ELSE cWrite
    /\ UNCHANGED <<halLoop, writeBlocked, draining, cDrain, gotWrite, gotDrain, halBuf,
                   halPaused, halFull, halDraining, cbDrain>>

\* onDrainReady(): AsyncCallbackThread::resetDraining().
OnDrainReady ==
    /\ cbDrain /\ cbDrain' = FALSE
    /\ cDrain' = IF cDrain.armed THEN [cDrain EXCEPT !.done = TRUE] ELSE cDrain
    /\ UNCHANGED <<halLoop, writeBlocked, draining, cWrite, gotWrite, gotDrain, halBuf,
                   halPaused, halFull, halDraining, cbWrite>>

Got(copy) == IF ~copy.done THEN "none" ELSE IF copy.fresh THEN "fresh" ELSE "stale"

\* AsyncCallbackThread::threadLoop(): take the numbers, under its own lock.
Take ==
    /\ cWrite.done \/ cDrain.done
    /\ gotWrite = "none" /\ gotDrain = "none"
    /\ gotWrite' = Got(cWrite) /\ gotDrain' = Got(cDrain)
    /\ cWrite' = [cWrite EXCEPT !.done = FALSE] /\ cDrain' = [cDrain EXCEPT !.done = FALSE]
    /\ UNCHANGED <<halLoop, writeBlocked, draining, hal>>

\* Faulty variant: no request is rejected.
InSequenceAlways(got) == TRUE

\* "reject out of sequence requests"
InSequence(got) == got = "fresh"

\* PlaybackThread::resetWriteBlocked().
ResetWriteBlocked ==
    /\ gotWrite # "none" /\ gotWrite' = "none"
    /\ writeBlocked' = (writeBlocked /\ ~InSequence(gotWrite))
    /\ UNCHANGED <<halLoop, draining, cWrite, cDrain, gotDrain, hal>>

\* PlaybackThread::resetDraining(), which comes second.
ResetDraining ==
    /\ gotWrite = "none" /\ gotDrain # "none" /\ gotDrain' = "none"
    /\ draining' = (draining /\ ~InSequence(gotDrain))
    /\ UNCHANGED <<halLoop, writeBlocked, cWrite, cDrain, gotWrite, hal>>

-------------------------------------------------------------------------------
(* The loop: the branches of prepareTracks_l(), under the lock.            *)

\* waitingAsyncCallback_l().
Waiting == writeBlocked \/ draining

\* The top of the loop: go on unless a callback is awaited and nothing was signalled.
Wakes(status) ==
    /\ tPc = "top" /\ (mSignalPending \/ ~Waiting)
    /\ mSignalPending' = FALSE /\ tPc' = "out" /\ tStatus' = status
    /\ UNCHANGED <<ring, tWritten>>

\* Faulty variant: what the HAL will no longer acknowledge is still waited for.
DiscardKept == UNCHANGED <<writeBlocked, draining, callbacks>>

\* The sequence numbers are incremented and the callback thread told of it:
\* pending acknowledgements are void.
Discard ==
    /\ writeBlocked' = FALSE /\ draining' = FALSE
    /\ cWrite' = Copy(FALSE) /\ cDrain' = Copy(FALSE)
    /\ gotWrite' = Aged(gotWrite) /\ gotDrain' = Aged(gotDrain)

\* flush() and standby() of the HAL.
HalEmptied ==
    /\ halBuf' = 0 /\ halPaused' = FALSE /\ halFull' = FALSE /\ halDraining' = FALSE
    /\ cbWrite' = (cbWrite /\ LateCallbacks) /\ cbDrain' = (cbDrain /\ LateCallbacks)

\* Nothing is active, or what is active waits.
PrepareNothing ==
    /\ ~active /\ (mSignalPending \/ mBytesRemaining > 0)
    /\ Wakes("IDLE")
    /\ UNCHANGED <<trackVars, data, mHwPaused, mStandby, writeBlocked, draining,
                   callbacks, hal>>

\* shouldStandby_l() and threadLoop_standby(); its delay outlasts a pending write.
Standby ==
    /\ tPc = "top" /\ ~active /\ ~mStandby /\ (mSignalPending \/ ~Waiting)
    /\ mBytesRemaining = 0
    /\ mState # "PAUSED" /\ (mHwPaused => mState \in {"STOPPED", "IDLE"})
    /\ mStandby' = TRUE /\ mHwPaused' = FALSE
    /\ Discard /\ HalEmptied
    /\ UNCHANGED <<trackVars, ring, data, mSignalPending, tPc, tStatus, tWritten>>

\* Faulty variant: what was not written yet is forgotten.
SavedNothing == 0

\* "If we were part way through writing the mixbuffer to the HAL we must save
\* this until we resume"
Saved == mBytesRemaining

PreparePause ==
    /\ active /\ mState = "PAUSING"
    /\ Wakes("IDLE")
    /\ mState' = "PAUSED" /\ active' = FALSE
    /\ mHwPaused' = TRUE /\ halPaused' = (halPaused \/ (~mHwPaused /\ ~mStandby))
    /\ mPausedBytesRemaining' = Saved /\ mBytesRemaining' = 0
    /\ UNCHANGED <<mResumeToStopping, mFlushHwPending, mRetryCount, owed, mStandby,
                   writeBlocked, draining, callbacks, halBuf, halFull, halDraining,
                   cbWrite, cbDrain>>

\* flushAck() and flushHw_l(), after a pause of the HAL if it runs.
PrepareFlush ==
    /\ active /\ mState # "PAUSING" /\ mFlushHwPending
    /\ Wakes("IDLE")
    /\ mFlushHwPending' = FALSE /\ mRetryCount' = StopRetries
    /\ mBytesRemaining' = 0 /\ mPausedBytesRemaining' = 0 /\ owed' = 0
    /\ mHwPaused' = FALSE
    /\ Discard /\ HalEmptied
    /\ UNCHANGED <<mState, mResumeToStopping, active, mStandby>>

\* Faulty variant: the hardware is left as it is.
ResumedNot == halPaused

\* Whether the HAL is still paused once a paused track is resumed.
Resumed == halPaused /\ ~(mHwPaused /\ ~mStandby)

PrepareResume ==
    /\ active /\ ~mFlushHwPending /\ ResumePending
    /\ Wakes("ENABLED")
    /\ mState' = IF mState = "RESUMING" THEN "ACTIVE" ELSE mState
    /\ mResumeToStopping' = (mResumeToStopping /\ mState # "STOPPING_1")
    /\ mBytesRemaining' = IF mPausedBytesRemaining > 0 THEN mPausedBytesRemaining
                          ELSE mBytesRemaining
    /\ mPausedBytesRemaining' = 0
    /\ mHwPaused' = FALSE /\ halPaused' = Resumed
    /\ UNCHANGED <<mFlushHwPending, mRetryCount, active, owed, mStandby, writeBlocked,
                   draining, callbacks, halBuf, halFull, halDraining, cbWrite, cbDrain>>

\* The track is neither paused, flushed nor resumed.
Steady == active /\ ~mFlushHwPending /\ ~ResumePending

PrepareReady ==
    /\ Steady /\ mState \in {"ACTIVE", "STOPPING_1"} /\ ring > 0
    /\ Wakes("READY")
    /\ mRetryCount' = StopRetries
    /\ UNCHANGED <<mState, mResumeToStopping, mFlushHwPending, active, data, mHwPaused,
                   mStandby, writeBlocked, draining, callbacks, hal>>

\* STOPPING_1 and out of data: a few more rounds, then the drain is due.
PrepareRetry ==
    /\ Steady /\ mState = "STOPPING_1" /\ ring = 0
    /\ mRetryCount > 1 \/ mBytesRemaining > 0
    /\ Wakes("ENABLED")
    /\ mRetryCount' = IF mRetryCount > 0 THEN mRetryCount - 1 ELSE 0
    /\ UNCHANGED <<mState, mResumeToStopping, mFlushHwPending, active, data, mHwPaused,
                   mStandby, writeBlocked, draining, callbacks, hal>>

PrepareDrain ==
    /\ Steady /\ mState = "STOPPING_1" /\ ring = 0
    /\ mRetryCount <= 1 /\ mBytesRemaining = 0
    /\ Wakes(IF mStandby \/ draining THEN "IDLE" ELSE "DRAIN")
    /\ mState' = "STOPPING_2" /\ mRetryCount' = 0
    /\ IF mStandby \/ draining THEN UNCHANGED <<cDrain, gotDrain>>
       ELSE cDrain' = [cDrain EXCEPT !.fresh = FALSE] /\ gotDrain' = Aged(gotDrain)
    /\ IF mStandby THEN UNCHANGED <<mHwPaused, halPaused>>
       ELSE mHwPaused' = FALSE /\ halPaused' = (halPaused /\ ~mHwPaused)
    /\ UNCHANGED <<mResumeToStopping, mFlushHwPending, active, data, mStandby,
                   writeBlocked, draining, cWrite, gotWrite, halBuf, halFull,
                   halDraining, cbWrite, cbDrain>>

\* Faulty variant: the track is complete as soon as the drain was asked for.
DrainOverAtOnce == TRUE

\* "Drain has completed or we are in standby"
DrainOver == ~draining \/ mStandby

\* STOPPING_2: presentationComplete(), reset(), and the track is removed.
PrepareStopped ==
    /\ Steady /\ mState = "STOPPING_2"
    /\ Wakes("IDLE")
    /\ IF DrainOver THEN mState' = "STOPPED" /\ active' = FALSE
       ELSE UNCHANGED <<mState, active>>
    /\ UNCHANGED <<mResumeToStopping, mFlushHwPending, mRetryCount, data, mHwPaused,
                   mStandby, writeBlocked, draining, callbacks, hal>>

\* An underrun: wait for more, or give up (disable()).
PrepareUnderrun ==
    /\ Steady /\ mState = "ACTIVE" /\ ring = 0
    /\ Wakes("ENABLED")
    /\ active' \in BOOLEAN
    /\ UNCHANGED <<mState, mResumeToStopping, mFlushHwPending, mRetryCount, data,
                   mHwPaused, mStandby, writeBlocked, draining, callbacks, hal>>

-------------------------------------------------------------------------------
(* The loop, without the lock.                                             *)

\* What is there to be written once threadLoop_mix() has had its turn.
Mixed == IF mBytesRemaining = 0 /\ tStatus = "READY" THEN Chunk ELSE mBytesRemaining

\* threadLoop_mix(): also when the write has to wait.  A flush may have emptied
\* the ring since.
Mix ==
    LET takes == Mixed > mBytesRemaining /\ ring > 0 IN
    /\ ring' = IF takes THEN ring - 1 ELSE ring
    /\ mBytesRemaining' = IF takes THEN Mixed ELSE mBytesRemaining
    /\ owed' = IF takes THEN owed + Chunk ELSE owed
    /\ UNCHANGED mPausedBytesRemaining

\* Then threadLoop_write() until it calls the HAL, threadLoop_drain(), or neither.
Out ==
    /\ tPc = "out"
    /\ Mix
    /\ IF ~Waiting /\ mBytesRemaining' > 0
         THEN /\ tPc' = "write" /\ writeBlocked' = TRUE
              /\ cWrite' = Copy(TRUE) /\ gotWrite' = Aged(gotWrite)
              /\ UNCHANGED <<draining, cDrain, gotDrain, hal>>
       ELSE IF ~Waiting /\ tStatus = "DRAIN"
         THEN /\ tPc' = "top" /\ draining' = TRUE
              /\ cDrain' = Copy(TRUE) /\ halDraining' = TRUE
              /\ UNCHANGED <<writeBlocked, cWrite, gotWrite, gotDrain, halBuf,
                             halPaused, halFull, cbWrite, cbDrain>>
       ELSE tPc' = "top" /\ UNCHANGED <<writeBlocked, draining, callbacks, hal>>
    /\ UNCHANGED <<trackVars, mHwPaused, mStandby, mSignalPending, tStatus, tWritten>>

\* The HAL's write(): it takes what it has room for (external).
HalWrite ==
    /\ tPc = "write" /\ tPc' = "written"
    /\ LET room == HalSize - halBuf
           n == IF mBytesRemaining <= room THEN mBytesRemaining ELSE room IN
        /\ halBuf' = halBuf + n /\ tWritten' = n
        /\ halFull' = (n < mBytesRemaining)
    /\ UNCHANGED <<trackVars, ring, data, mHwPaused, mStandby, mSignalPending,
                   writeBlocked, draining, tStatus, callbacks, halPaused, halDraining,
                   cbWrite, cbDrain>>

\* The rest of threadLoop_write(): a full write is not waited for.
Written ==
    /\ tPc = "written" /\ tPc' = "top"
    /\ IF tWritten = mBytesRemaining
         THEN writeBlocked' = FALSE /\ cWrite' = Copy(FALSE)
         ELSE UNCHANGED <<writeBlocked, cWrite>>
    /\ mBytesRemaining' = mBytesRemaining - tWritten
    /\ owed' = owed - tWritten /\ tWritten' = 0
    /\ mStandby' = FALSE
    /\ UNCHANGED <<trackVars, ring, mPausedBytesRemaining, mHwPaused, mSignalPending,
                   draining, tStatus, cDrain, gotWrite, gotDrain, hal>>

-------------------------------------------------------------------------------
Client == Start \/ Stop \/ Pause \/ Flush \/ SetStreamVolume \/ ClientWrite
Hal == Play \/ Drained
Callback == OnWriteReady \/ OnDrainReady \/ Take \/ ResetWriteBlocked \/ ResetDraining
Prepare == \/ PrepareNothing \/ PreparePause \/ PrepareFlush \/ PrepareResume
           \/ PrepareReady \/ PrepareRetry \/ PrepareDrain \/ PrepareStopped
           \/ PrepareUnderrun
Loop == Prepare \/ Standby \/ Out \/ HalWrite \/ Written

Next == Client \/ Hal \/ Callback \/ Loop

\* The loop and the callback thread run on, and a HAL that is not paused plays.
Fairness == WF_vars(Loop) /\ WF_vars(Hal) /\ WF_vars(Callback)

Spec == Init /\ [][Next]_vars /\ Fairness

-------------------------------------------------------------------------------
(* Properties.                                                             *)

Copies == [armed : BOOLEAN, done : BOOLEAN, fresh : BOOLEAN]

TrackTypes ==
    /\ mState \in States /\ mResumeToStopping \in BOOLEAN /\ mFlushHwPending \in BOOLEAN
    /\ mRetryCount \in 0..StopRetries /\ active \in BOOLEAN /\ ring \in 0..RingSize

LoopTypes ==
    /\ mBytesRemaining \in 0..Chunk /\ mPausedBytesRemaining \in 0..Chunk
    /\ owed \in 0..Chunk
    /\ mHwPaused \in BOOLEAN /\ mStandby \in BOOLEAN /\ mSignalPending \in BOOLEAN
    /\ writeBlocked \in BOOLEAN /\ draining \in BOOLEAN
    /\ tPc \in {"top", "out", "write", "written"} /\ tWritten \in 0..Chunk
    /\ tStatus \in {"IDLE", "ENABLED", "READY", "DRAIN"}

CallbackTypes ==
    /\ cWrite \in Copies /\ cDrain \in Copies
    /\ gotWrite \in {"none", "fresh", "stale"} /\ gotDrain \in {"none", "fresh", "stale"}

HalTypes ==
    /\ halBuf \in 0..HalSize /\ halPaused \in BOOLEAN /\ halFull \in BOOLEAN
    /\ halDraining \in BOOLEAN /\ cbWrite \in BOOLEAN /\ cbDrain \in BOOLEAN

TypeOK == TrackTypes /\ LoopTypes /\ CallbackTypes /\ HalTypes

\* What was taken from the client is given to the HAL or still kept: a pause in
\* the middle of a write loses nothing ("we must save this until we resume"),
\* except what a flush has made void.  Every variable has its type.
NothingLost ==
    /\ TypeOK
    /\ mFlushHwPending \/ owed = mBytesRemaining + mPausedBytesRemaining

\* A track that is found stopped has been played to its end: the drain that
\* completed is its own, not one that a flush or a pause has made void.
PlayedToTheEnd ==
    [][mState = "STOPPING_2" /\ mState' = "STOPPED" /\ ~mStandby
        => halBuf = 0 /\ owed = 0]_vars

\* The loop does not write again before the HAL has called back for the write it
\* cut short: an acknowledgement that comes late is not taken for the next one.
NoEarlyWrite == [][tPc = "out" /\ tPc' = "write" => ~halFull]_vars

\* While a track plays or drains the hardware runs.
HardwareRuns ==
    Steady /\ mState \in {"ACTIVE", "STOPPING_1", "STOPPING_2"} => ~halPaused

\* A stop ends, unless the client changes its mind: the loop that waits for the
\* HAL and the HAL that waits to be resumed do not wait for each other.
StopCompletes ==
    (active /\ mState = "STOPPING_1") ~> mState \notin {"STOPPING_1", "STOPPING_2"}

===============================================================================
