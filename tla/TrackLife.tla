------------------------------- MODULE TrackLife -------------------------------
(***************************************************************************)
(* The life of the tracks of a MixerThread (services/audioflinger/         *)
(* Tracks.cpp and Threads.cpp): start, stop, pause, flush and destroy come *)
(* from binder threads, the thread's loop takes tracks into the mix and    *)
(* out of it again, and the audio policy is told of each start and stop.   *)
(*                                                                         *)
(* start() gives up the thread's lock while it asks the audio policy, and  *)
(* the loop tells the policy of a removal after it has unlocked, so every  *)
(* other operation can fall in between.  A client makes one start() at a   *)
(* time and keeps its handle while it does (AudioTrack::mLock); stop,      *)
(* pause and flush may come from other threads.                            *)
(*                                                                         *)
(* Tracks are external and streaming, fast or normal.  Data is counted in  *)
(* mixer periods, up to a full buffer.  mPresentationCompleteFrames and    *)
(* the frames not yet heard are kept as what is left of them to be         *)
(* written, so that nothing grows without bound.                           *)
(***************************************************************************)
EXTENDS Integers, FiniteSets

CONSTANTS Tracks,
          MaxStarts,  \* bound on the calls of start()
          Full,       \* periods in a full buffer
          Latency,    \* audioHALFrames, in periods
          MaxRetries  \* kMaxTrackRetries and kMaxTrackStartupRetries

ASSUME LifeAssumption ==
    /\ MaxStarts \in Nat
    /\ Full \in Nat \ {0} /\ Latency \in Nat \ {0} /\ MaxRetries \in Nat \ {0}

VARIABLES
  Fast,           \* the tracks created with TRACK_FAST
  starts,         \* calls of start() so far
  track,          \* what a Track knows of itself
  frames,         \* frames ready
  unheard,        \* periods until the last frame mixed is heard
  recent,         \* fast mixer: outcomes since they were last looked at
  mActiveTracks,
  fastMask,       \* fast tracks in the state pushed to the fast mixer
  mStandby, written, sleeping,    \* mBytesWritten # 0, mSleepTimeUs # 0
  mMixerStatusIgnoringFastTracks,
  tPc, tMixed, tStatus, tracksToRemove, tChecking,  \* the thread's loop
  call,           \* the start() under way, and what it remembers
  policy,         \* startOutput() calls less stopOutput() calls
  handle,         \* the TrackHandle: alive, destroying, destroyed
  releases,       \* releaseOutput() calls
  overruled       \* history: the start() under way met a stop, pause or flush

loop   == <<tPc, tMixed, tStatus, tracksToRemove, tChecking, mStandby, written,
            sleeping, mMixerStatusIgnoringFastTracks>>
binder == <<call, handle, overruled, starts, Fast>>
vars   == <<track, frames, unheard, recent, mActiveTracks, fastMask, loop, binder,
            policy, releases>>

States == {"IDLE", "FLUSHED", "STOPPED", "STOPPING_1", "STOPPING_2", "RESUMING",
           "ACTIVE", "PAUSING", "PAUSED"}
Unset  == -1   \* mPresentationCompleteFrames = 0

Stopped(tr)  == tr.mState \in {"STOPPED", "FLUSHED"}
Stopping(tr) == tr.mState \in {"STOPPING_1", "STOPPING_2"}

NoCall == [pc |-> "none", prior |-> "IDLE", set |-> "IDLE"]

Init ==
    /\ Fast \in SUBSET Tracks /\ starts = 0
    /\ track = [t \in Tracks |->
                   [mState |-> "IDLE", fill |-> "FILLING", mResetDone |-> FALSE,
                    left |-> Unset, mRetryCount |-> MaxRetries, terminated |-> FALSE]]
    /\ frames = [t \in Tracks |-> 0] /\ unheard = [t \in Tracks |-> 0]
    /\ recent = [t \in Tracks |-> {}]
    /\ mActiveTracks = {} /\ fastMask = {}
    /\ mStandby = TRUE /\ written = FALSE /\ sleeping = TRUE
    /\ mMixerStatusIgnoringFastTracks = "IDLE"
    /\ tPc = "loop" /\ tMixed = {} /\ tStatus = "IDLE"
    /\ tracksToRemove = {} /\ tChecking = {}
    /\ call = [t \in Tracks |-> NoCall] /\ policy = [t \in Tracks |-> 0]
    /\ handle = [t \in Tracks |-> "alive"] /\ releases = [t \in Tracks |-> 0]
    /\ overruled = [t \in Tracks |-> FALSE]

-------------------------------------------------------------------------------
(* Binder threads.                                                         *)

\* Track::reset().
Reset(tr) ==
    IF tr.mResetDone THEN tr
    ELSE [tr EXCEPT !.fill = "FILLING", !.mResetDone = TRUE,
                    !.mState = IF @ = "FLUSHED" THEN "IDLE" ELSE @]

\* Track::start() until it has the answer ALREADY_EXISTS or unlocks.
Start(t) ==
    /\ handle[t] = "alive" /\ call[t].pc = "none"
    /\ starts < MaxStarts /\ starts' = starts + 1
    /\ LET prior == track[t].mState
           set == IF prior \in {"PAUSED", "PAUSING"} THEN "RESUMING" ELSE "ACTIVE" IN
        /\ track' = [track EXCEPT ![t].mState = set]
        /\ call' = IF t \in mActiveTracks THEN call
                   ELSE [call EXCEPT ![t] = [pc |-> "asking", prior |-> prior, set |-> set]]
    /\ recent' = [recent EXCEPT ![t] = {}]
    /\ overruled' = [overruled EXCEPT ![t] = FALSE]
    /\ UNCHANGED <<frames, unheard, mActiveTracks, fastMask, loop, policy, handle,
                   releases, Fast>>

\* AudioSystem::startOutput(), without the lock.
Ask(t) ==
    /\ call[t].pc = "asking"
    /\ \/ /\ call' = [call EXCEPT ![t].pc = "granted"]
          /\ policy' = [policy EXCEPT ![t] = @ + 1]
       \/ call' = [call EXCEPT ![t].pc = "denied"] /\ UNCHANGED policy
    /\ UNCHANGED <<track, frames, unheard, recent, mActiveTracks, fastMask, loop,
                   handle, releases, overruled, starts, Fast>>

\* Faulty variant: what happened while the lock was released is not looked at.
OverruledNever(t) == FALSE

\* "abort track was stopped/paused while we released the lock"
Overruled(t) == track[t].mState # call[t].set

\* Faulty variant: an abandoned start leaves the output started.
AbandonedLeaky(t) == NoCall

\* What an abandoned start does next: stopOutput() if startOutput() went well.
Abandoned(t) ==
    IF call[t].pc = "granted" THEN [call[t] EXCEPT !.pc = "undo"] ELSE NoCall

\* Track::start() from the point where it has the lock again.
Relock(t) ==
    /\ call[t].pc \in {"granted", "denied"}
    /\ \/ /\ Overruled(t)
          /\ call' = [call EXCEPT ![t] = Abandoned(t)]
          /\ UNCHANGED <<track, mActiveTracks>>
       \/ /\ ~Overruled(t) /\ call[t].pc = "denied"
          /\ track' = [track EXCEPT ![t].mState = call[t].prior]
          /\ call' = [call EXCEPT ![t] = NoCall]
          /\ UNCHANGED mActiveTracks
       \/ /\ ~Overruled(t) /\ call[t].pc = "granted"
          /\ track' = [track EXCEPT ![t] =
                           [@ EXCEPT !.mRetryCount = MaxRetries, !.fill = "FILLING",
                                     !.mResetDone = FALSE, !.left = Unset]]
          /\ mActiveTracks' = mActiveTracks \cup {t}
          /\ call' = [call EXCEPT ![t] = NoCall]
    /\ UNCHANGED <<frames, unheard, recent, fastMask, loop, policy, handle, releases,
                   overruled, starts, Fast>>

\* AudioSystem::stopOutput() of an abandoned start, again without the lock.
Undo(t) ==
    /\ call[t].pc = "undo"
    /\ policy' = [policy EXCEPT ![t] = @ - 1]
    /\ call' = [call EXCEPT ![t] = NoCall]
    /\ UNCHANGED <<track, frames, unheard, recent, mActiveTracks, fastMask, loop,
                   handle, releases, overruled, starts, Fast>>

\* A call that ends playback, made while the handle exists.
EndWith(t, tr) ==
    /\ handle[t] = "alive"
    /\ track' = [track EXCEPT ![t] = tr]
    /\ overruled' = [overruled EXCEPT ![t] = TRUE]
    /\ UNCHANGED <<unheard, recent, mActiveTracks, fastMask, loop, call, policy,
                   handle, releases, starts, Fast>>

\* Track::stop().
Stop(t) ==
    /\ track[t].mState \in {"RESUMING", "ACTIVE", "PAUSING", "PAUSED"}
    /\ EndWith(t, IF t \notin mActiveTracks THEN [Reset(track[t]) EXCEPT !.mState = "STOPPED"]
                  ELSE [track[t] EXCEPT !.mState =
                            IF t \in Fast THEN "STOPPING_1" ELSE "STOPPED"])
    /\ UNCHANGED frames

\* Track::pause().
Pause(t) ==
    /\ track[t].mState \in {"ACTIVE", "RESUMING"}
    /\ EndWith(t, [track[t] EXCEPT !.mState = "PAUSING"])
    /\ UNCHANGED frames

\* Faulty variant: the track is reset although it is still in the mix.
FlushedAtOnce(t) == Reset([track[t] EXCEPT !.mState = "FLUSHED"])

\* "do not reset the track if it is still in the process of being stopped or
\* paused"
Flushed(t) ==
    LET tr == [track[t] EXCEPT !.mState = "FLUSHED"]
    IN IF t \in mActiveTracks THEN tr ELSE Reset(tr)

\* Track::flush().
Flush(t) ==
    /\ track[t].mState \notin {"ACTIVE", "RESUMING"}
    /\ EndWith(t, Flushed(t))
    /\ frames' = [frames EXCEPT ![t] = 0]

\* Track::destroy() and destroyTrack_l(), until the lock is released.
Destroy(t) ==
    /\ handle[t] = "alive" /\ call[t].pc = "none"
    /\ track' = [track EXCEPT ![t] =
                    [@ EXCEPT !.terminated = TRUE,
                              !.mState = IF t \in mActiveTracks \cap Fast
                                           THEN "STOPPING_1" ELSE "STOPPED"]]
    /\ handle' = [handle EXCEPT ![t] =
                    IF t \in mActiveTracks THEN "destroyed" ELSE "destroying"]
    /\ UNCHANGED <<frames, unheard, recent, mActiveTracks, fastMask, loop, call, policy,
                   releases, overruled, starts, Fast>>

\* The rest of Track::destroy() of a track that was not active.
Release(t) ==
    /\ handle[t] = "destroying"
    /\ releases' = [releases EXCEPT ![t] = @ + 1]
    /\ handle' = [handle EXCEPT ![t] = "destroyed"]
    /\ UNCHANGED <<track, frames, unheard, recent, mActiveTracks, fastMask, loop, call,
                   policy, overruled, starts, Fast>>

\* The client writes; after a stop the server does not see what it writes.
Write(t) ==
    /\ handle[t] = "alive" /\ frames[t] < Full
    /\ t \in mActiveTracks => ~Stopped(track[t]) /\ ~Stopping(track[t])
    /\ frames' = [frames EXCEPT ![t] = @ + 1]
    /\ UNCHANGED <<track, unheard, recent, mActiveTracks, fastMask, loop, binder,
                   policy, releases>>

-------------------------------------------------------------------------------
(* The loop of the thread: prepareTracks_l().                              *)

\* Faulty variant: every call sets a new target.
TargetMoving(tr) == Latency

\* presentationComplete(): the first call fixes the target.
Target(tr) == IF tr.left = Unset THEN Latency ELSE tr.left

Complete(t) == Target(track[t]) = 0 /\ (t \in Fast \/ unheard[t] = 0)

\* Whether a track without data leaves the active list.
Finished(t) == mStandby \/ Complete(t)

\* The call to presentationComplete(), if there is one.
Asked(tr) == IF mStandby THEN tr ELSE [tr EXCEPT !.left = Target(tr)]

IsReady(t) ==
    \/ track[t].fill # "FILLING" \/ Stopped(track[t])
    \/ track[t].mState = "PAUSING" \/ frames[t] = Full

\* A normal track that can be mixed, and one that has had its data.
Ready(t) == frames[t] > 0 /\ IsReady(t) /\ track[t].mState # "PAUSED"
            /\ ~track[t].terminated

Consumed(t) == track[t].terminated \/ Stopped(track[t]) \/ track[t].mState = "PAUSED"

\* What becomes of an active normal track.
NormalTrack(t) ==
    LET tr == track[t]
        filled == tr.fill = "FILLED" \/ (tr.fill = "FILLING" /\ frames[t] = Full
                    /\ ~Stopped(tr) /\ tr.mState # "PAUSING") IN
    IF Ready(t)
      THEN [tr EXCEPT !.fill = IF filled THEN "ACTIVE" ELSE @,
                      !.mRetryCount = MaxRetries,
                      !.mState = IF @ = "PAUSING" THEN "PAUSED"
                                 ELSE IF @ = "RESUMING" /\ filled THEN "ACTIVE" ELSE @]
    ELSE IF ~Consumed(t) THEN [tr EXCEPT !.mRetryCount = @ - 1]
    ELSE IF Finished(t) /\ Stopped(tr) THEN Reset(Asked(tr))
    ELSE Asked(tr)

NormalLeaves(t) ==
    ~Ready(t) /\ IF Consumed(t) THEN Finished(t) ELSE track[t].mRetryCount <= 1

\* An active fast track that is only waiting to be presented.
Waiting(t) == track[t].mState \in {"STOPPING_2", "PAUSED", "STOPPED", "FLUSHED"}

Retries(t) == IF "full" \in recent[t] THEN MaxRetries ELSE track[t].mRetryCount

\* What becomes of an active fast track.
FastTrack(t) ==
    LET tr == track[t]
        stopped == [tr EXCEPT !.mState = IF @ = "STOPPING_2" THEN "STOPPED" ELSE @] IN
    CASE tr.mState = "STOPPING_1" ->
            IF "empty" \in recent[t] \/ tr.terminated
              THEN [tr EXCEPT !.mState = "STOPPING_2"] ELSE tr
      [] tr.mState = "PAUSING" -> [tr EXCEPT !.mState = "PAUSED"]
      [] tr.mState = "RESUMING" -> [tr EXCEPT !.mState = "ACTIVE"]
      [] tr.mState = "ACTIVE" ->
            [tr EXCEPT !.mRetryCount = Retries(t) - (IF "empty" \in recent[t] THEN 1 ELSE 0)]
      [] Waiting(t) ->
            IF ~Finished(t) THEN Asked(tr)
            ELSE IF Stopped(stopped) THEN Reset(Asked(stopped)) ELSE Asked(tr)
      [] OTHER -> tr

FastLeaves(t) ==
    \/ Waiting(t) /\ Finished(t)
    \/ track[t].mState = "ACTIVE" /\ "empty" \in recent[t] /\ Retries(t) <= 1

\* mixerStatus, from the normal tracks that are ready and those that are waited for.
Status(ready, enabled) ==
    IF mMixerStatusIgnoringFastTracks = "READY"
      THEN IF enabled # {} THEN "ENABLED" ELSE IF ready # {} THEN "READY" ELSE "IDLE"
      ELSE IF ready # {} THEN "READY" ELSE IF enabled # {} THEN "ENABLED" ELSE "IDLE"

\* prepareTracks_l(), under the lock throughout, with the push to the fast
\* mixer and removeTracks_l().
Prepare ==
    /\ tPc = "loop" /\ mActiveTracks # {}
    /\ LET normal == mActiveTracks \ Fast
           fast == mActiveTracks \cap Fast
           gone == {t \in normal : NormalLeaves(t)} \cup {t \in fast : FastLeaves(t)}
           ready == {t \in normal : Ready(t)}
           status == Status(ready, {t \in normal \ gone : ~Ready(t) /\ ~Consumed(t)}) IN
        /\ track' = [t \in Tracks |-> IF t \in normal THEN NormalTrack(t)
                                      ELSE IF t \in fast THEN FastTrack(t) ELSE track[t]]
        /\ mActiveTracks' = mActiveTracks \ gone
        /\ tracksToRemove' = gone
        /\ fastMask' = fast \ gone
        /\ recent' = [t \in Tracks |-> IF t \in fast THEN {} ELSE recent[t]]
        /\ mMixerStatusIgnoringFastTracks' = status
        /\ tStatus' = IF fast \ gone # {} THEN "READY" ELSE status
        /\ tMixed' = ready
    /\ tPc' = "write"
    /\ UNCHANGED <<frames, unheard, mStandby, written, sleeping, tChecking, binder,
                   policy, releases>>

\* Nothing is active: standby, and the thread sleeps until it is signalled.
Idle ==
    /\ tPc = "loop" /\ mActiveTracks = {} /\ ~mStandby
    /\ mStandby' = TRUE /\ written' = FALSE /\ sleeping' = TRUE
    /\ mMixerStatusIgnoringFastTracks' = "IDLE"
    /\ UNCHANGED <<track, frames, unheard, recent, mActiveTracks, fastMask, tPc, tMixed,
                   tStatus, tracksToRemove, tChecking, binder, policy, releases>>

Less(n) == IF n > 0 THEN n - 1 ELSE n

\* threadLoop_mix() or threadLoop_sleepTime(), and threadLoop_write().
WriteOut ==
    /\ tPc = "write" /\ tPc' = "stopping"
    /\ LET mixes == tStatus = "READY"
           writes == mixes \/ (sleeping /\ (written \/ tStatus = "ENABLED"))
           mixed == IF mixes THEN tMixed ELSE {} IN
        /\ frames' = [t \in Tracks |-> IF t \in mixed THEN Less(frames[t]) ELSE frames[t]]
        /\ unheard' = [t \in Tracks |-> IF t \in mixed THEN Latency
                                        ELSE IF writes THEN Less(unheard[t]) ELSE unheard[t]]
        /\ track' = [t \in Tracks |->
                        IF writes THEN [track[t] EXCEPT !.left = Less(@)] ELSE track[t]]
        /\ sleeping' = ~writes
        /\ mStandby' = (mStandby /\ ~writes)
        /\ written' = (written \/ writes)
    /\ UNCHANGED <<recent, mActiveTracks, fastMask, tMixed, tStatus, tracksToRemove,
                   tChecking, mMixerStatusIgnoringFastTracks, binder, policy, releases>>

\* threadLoop_removeTracks(): stopOutput() for a removed track ...
StopOutput(t) ==
    /\ tPc = "stopping" /\ tChecking = {} /\ t \in tracksToRemove
    /\ policy' = [policy EXCEPT ![t] = @ - 1]
    /\ tracksToRemove' = tracksToRemove \ {t} /\ tChecking' = {t}
    /\ UNCHANGED <<track, frames, unheard, recent, mActiveTracks, fastMask, tPc, tMixed,
                   tStatus, mStandby, written, sleeping, mMixerStatusIgnoringFastTracks,
                   binder, releases>>

\* Faulty variant: only Track::destroy() releases the output.
LastStopNoRelease(t) == FALSE

\* The track has been destroyed by the time its output was stopped.
LastStop(t) == track[t].terminated

\* ... and then releaseOutput().
CheckRelease(t) ==
    /\ t \in tChecking
    /\ tChecking' = {}
    /\ releases' = IF LastStop(t) THEN [releases EXCEPT ![t] = @ + 1] ELSE releases
    /\ UNCHANGED <<track, frames, unheard, recent, mActiveTracks, fastMask, tPc, tMixed,
                   tStatus, tracksToRemove, mStandby, written, sleeping,
                   mMixerStatusIgnoringFastTracks, binder, policy>>

EndLoop ==
    /\ tPc = "stopping" /\ tracksToRemove = {} /\ tChecking = {}
    /\ tPc' = "loop"
    /\ UNCHANGED <<track, frames, unheard, recent, mActiveTracks, fastMask, tMixed,
                   tStatus, tracksToRemove, tChecking, mStandby, written, sleeping,
                   mMixerStatusIgnoringFastTracks, binder, policy, releases>>

\* A cycle of the fast mixer, as far as track t goes.
FastMix(t) ==
    /\ t \in fastMask
    /\ frames' = [frames EXCEPT ![t] = Less(@)]
    /\ unheard' = IF frames[t] > 0 THEN [unheard EXCEPT ![t] = Latency] ELSE unheard
    /\ recent' = [recent EXCEPT ![t] = @ \cup {IF frames[t] > 0 THEN "full" ELSE "empty"}]
    /\ UNCHANGED <<track, mActiveTracks, fastMask, loop, binder, policy, releases>>

-------------------------------------------------------------------------------
Binder(t) == Ask(t) \/ Relock(t) \/ Undo(t) \/ Release(t)
Loop == \/ Prepare \/ Idle \/ WriteOut \/ EndLoop
        \/ \E t \in Tracks : StopOutput(t) \/ CheckRelease(t)

\* No track is left, and the thread sleeps.
AllGone ==
    /\ \A t \in Tracks : handle[t] = "destroyed"
    /\ mActiveTracks = {} /\ mStandby /\ tPc = "loop"
    /\ UNCHANGED vars

Next ==
    \/ \E t \in Tracks : \/ Start(t) \/ Stop(t) \/ Pause(t) \/ Flush(t) \/ Destroy(t)
                         \/ Write(t) \/ FastMix(t) \/ Binder(t)
    \/ Loop
    \/ AllGone

\* The loop and the fast mixer are threads that run on; a binder call and the
\* audio policy's answer end.
Fairness ==
    /\ WF_vars(Loop)
    /\ \A t \in Tracks : WF_vars(Binder(t)) /\ WF_vars(FastMix(t))

Spec == Init /\ [][Next]_vars /\ Fairness

-------------------------------------------------------------------------------
(* Properties.                                                             *)

Fields == [mState : States, fill : {"FILLING", "FILLED", "ACTIVE"}, mResetDone : BOOLEAN,
           left : Unset..Latency, mRetryCount : 0..MaxRetries, terminated : BOOLEAN]

Calls  == [pc : {"none", "asking", "granted", "denied", "undo"}, prior : States, set : States]

TypeOK ==
    /\ track \in [Tracks -> Fields]
    /\ frames \in [Tracks -> 0..Full] /\ unheard \in [Tracks -> 0..Latency]
    /\ recent \in [Tracks -> SUBSET {"full", "empty"}]
    /\ mActiveTracks \subseteq Tracks /\ fastMask \subseteq Fast
    /\ mStandby \in BOOLEAN /\ written \in BOOLEAN /\ sleeping \in BOOLEAN
    /\ mMixerStatusIgnoringFastTracks \in {"IDLE", "ENABLED", "READY"}
    /\ tPc \in {"loop", "write", "stopping"} /\ tStatus \in {"IDLE", "ENABLED", "READY"}
    /\ tMixed \subseteq Tracks /\ tracksToRemove \subseteq Tracks /\ tChecking \subseteq Tracks
    /\ call \in [Tracks -> Calls]
    /\ policy \in [Tracks -> 0..2] /\ releases \in [Tracks -> 0..2]
    /\ handle \in [Tracks -> {"alive", "destroying", "destroyed"}]
    /\ overruled \in [Tracks -> BOOLEAN] /\ Fast \subseteq Tracks /\ starts \in 0..MaxStarts

\* Between calls, and once the loop has told the policy of its removals, the
\* audio policy counts a track exactly when it is active: the unlocked windows
\* of addTrack_l() and of threadLoop_removeTracks() lose no start and no stop.
PolicyBalanced ==
    \A t \in Tracks :
        call[t].pc = "none" /\ t \notin tracksToRemove =>
            policy[t] = (IF t \in mActiveTracks THEN 1 ELSE 0)

\* No active track is IDLE: prepareTracks_l() aborts the media server with
\* "unexpected track state" when it meets a fast track that is.  Every variable has
\* its type.
NoUnexpectedState ==
    /\ TypeOK
    /\ \A t \in mActiveTracks : track[t].mState # "IDLE"

\* A stop, pause or flush that falls into the window of a start() is not undone
\* by it: that start() does not make the track active.
StopNotUndone ==
    [][\A t \in Tracks : t \in mActiveTracks' \ mActiveTracks => ~overruled[t]]_vars

\* A stopped track leaves the active list, unless it is started again: its data
\* runs out, the fast mixer reports an underrun, and enough is written for the
\* presentation to complete.
StopCompletes ==
    \A t \in Tracks :
        (t \in mActiveTracks /\ track[t].mState \in {"STOPPED", "STOPPING_1"})
            ~> (t \notin mActiveTracks \/ track[t].mState \in {"ACTIVE", "RESUMING"})

\* The output of a destroyed track is released and no longer started, whether the
\* track was in the active list, on its way out of it, or not.
DestroyedReleased ==
    \A t \in Tracks :
        handle[t] # "alive" ~> (releases[t] > 0 /\ policy[t] = 0 /\ t \notin mActiveTracks)

\* "associated resources will be freed from the main thread once all pending
\* buffers have been played. Unless it's not in the active track list, in which
\* case we free everything now": one of the two, so releaseOutput() is called once.
ReleasedOnce == \A t \in Tracks : releases[t] <= 1

===============================================================================
