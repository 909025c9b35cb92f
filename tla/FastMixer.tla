------------------------------- MODULE FastMixer -------------------------------
(***************************************************************************)
(* The normal mixer and the fast mixer (services/audioflinger/Threads.cpp, *)
(* FastThread.cpp, FastMixer.cpp), which share a StateQueue and a futex.   *)
(*                                                                         *)
(* The normal mixer's thread is the mutator: prepareTracks_l() puts fast   *)
(* tracks into slots of the state and takes them out, threadLoop_write()   *)
(* wakes the fast mixer, threadLoop_standby() sends it to sleep on the     *)
(* futex, the destructor ends it.  The fast mixer is the observer: in each *)
(* cycle it polls, adopts the state, obeys its command, brings its         *)
(* AudioMixer in line with the state, and mixes.  Binder threads create,   *)
(* start and destroy tracks under the thread's lock.                       *)
(*                                                                         *)
(* A track is used by the fast mixer through a raw pointer, so what counts *)
(* is that no track is freed, and no hardware put in standby, while the    *)
(* fast mixer is still at it.  kUseFastMixer is FastMixer_Static, as in    *)
(* the source.  Volumes, formats, underruns and warm-up are left out;      *)
(* which active tracks prepareTracks_l() finds ended is a choice.          *)
(***************************************************************************)
EXTENDS StateQueue, FiniteSets, FiniteSetsExt

CONSTANTS Tracks,    \* fast tracks; each is created at most once
          FastSlots, \* 1 .. sMaxFastTracks-1; slot 0, the sub-mix, never changes
          NoTrack,   \* a NULL mBufferProvider
          MaxGen,    \* bound on mFastTracksGen
          MaxIdle,   \* bound on mColdGen
          Prompt     \* the fast mixer carries out a cold idle before the next

ASSUME FastAssumption ==
    /\ FastSlots \subseteq Nat \ {0} /\ NoTrack \notin Tracks
    /\ MaxGen \in Nat \ {0} /\ MaxIdle \in Nat \ {0} /\ Prompt \in BOOLEAN

VARIABLES
  tPc, tDo,       \* the normal mixer's thread, and the function it is in
  tBlock,         \* local block of prepareTracks_l()
  handles,        \* tracks whose TrackHandle exists
  mActiveTracks,
  tracksToRemove,
  fastIndex,      \* Track::mFastIndex, 0 when it has none
  mFastTrackAvailMask,
  born,           \* history: tracks created so far
  mFastMixerFutex,
  asleep,         \* the fast mixer is in FUTEX_WAIT
  oPc,            \* the fast mixer's thread
  oCurrent, oPrevious, mPreIdle,  \* FastThread::mCurrent, mPrevious, FastMixer::mPreIdle
  mColdGen,
  bound,          \* the buffer providers in the fast mixer's AudioMixer
  mGenerations, mFastTracksGen

mixer  == <<tPc, tDo, tBlock>>
tracks == <<handles, mActiveTracks, tracksToRemove, fastIndex,
            mFastTrackAvailMask, born>>
fast   == <<oCurrent, oPrevious, mPreIdle, mColdGen, bound, mGenerations,
            mFastTracksGen>>
vars   == <<ring, polling, mixer, tracks, mFastMixerFutex, asleep, oPc, fast>>

-------------------------------------------------------------------------------
(* FastMixerState.                                                         *)

Commands == {"INITIAL", "COLD_IDLE", "MIX_WRITE", "EXIT"}
Idle(command) == command = "COLD_IDLE"

FastState == [command : Commands, coldGen : 0..MaxIdle, tracksGen : 0..MaxGen,
              provider : [FastSlots -> Tracks \cup {NoTrack}],
              generation : [FastSlots -> 0..MaxGen]]

Initial == [command |-> "INITIAL", coldGen |-> 0, tracksGen |-> 0,
            provider |-> [j \in FastSlots |-> NoTrack],
            generation |-> [j \in FastSlots |-> 0]]

\* mTrackMask without the bit of the sub-mix.
TrackMask(state) == {j \in FastSlots : state.provider[j] # NoTrack}

\* What FastThread's pointers point to besides the ring.
sInitial == kN
preIdle  == kN + 1

State(p) == CASE p = sInitial -> Initial [] p = preIdle -> mPreIdle
              [] OTHER -> mStates[p]

Mutating == mStates[mMutating]

\* The constructor of MixerThread has pushed the first state.
Init ==
    LET first == [Initial EXCEPT !.command = "COLD_IDLE", !.coldGen = 1,
                                 !.tracksGen = 1] IN
    /\ mStates = [i \in Slots |-> IF i \in {0, 1} THEN first ELSE NoState]
    /\ mNext = 0 /\ mExpecting = 0 /\ mMutating = 1 /\ mIsDirty = FALSE
    /\ mAck = Null /\ mCurrent = Null /\ polled = Null
    /\ tPc = "loop" /\ tDo = "none" /\ tBlock = "PUSHED"
    /\ handles = {} /\ mActiveTracks = {} /\ tracksToRemove = {} /\ born = {}
    /\ fastIndex = [t \in Tracks |-> 0] /\ mFastTrackAvailMask = FastSlots
    /\ mFastMixerFutex = 0 /\ asleep = FALSE
    /\ oPc = "poll" /\ oCurrent = sInitial /\ oPrevious = sInitial
    /\ mPreIdle = Initial /\ mColdGen = 0
    /\ bound = [j \in FastSlots |-> NoTrack]
    /\ mGenerations = [j \in FastSlots |-> 0] /\ mFastTracksGen = 0

\* The memory of a track is valid while a handle, the active list or the
\* list of removed tracks refers to it.
Alive == handles \cup mActiveTracks \cup tracksToRemove

-------------------------------------------------------------------------------
(* Binder threads, under the lock of the playback thread.                  *)

\* mLock is held throughout prepareTracks_l() and threadLoop_standby().
Locked == tDo \in {"prepare", "standby"}

\* createTrack_l() and the constructor of a fast Track.
Create(t) ==
    /\ ~Locked /\ tDo # "exit" /\ t \notin born /\ mFastTrackAvailMask # {}
    /\ LET j == Min(mFastTrackAvailMask) IN
        /\ fastIndex' = [fastIndex EXCEPT ![t] = j]
        /\ mFastTrackAvailMask' = mFastTrackAvailMask \ {j}
    /\ handles' = handles \cup {t} /\ born' = born \cup {t}
    /\ UNCHANGED <<ring, polling, mixer, mActiveTracks, tracksToRemove,
                   mFastMixerFutex, asleep, oPc, fast>>

\* Track::start() up to mActiveTracks.add() in addTrack_l().
Start(t) ==
    /\ ~Locked /\ tDo # "exit" /\ t \in handles \ mActiveTracks
    /\ mActiveTracks' = mActiveTracks \cup {t}
    /\ UNCHANGED <<ring, polling, mixer, handles, tracksToRemove, fastIndex,
                   mFastTrackAvailMask, born, mFastMixerFutex, asleep, oPc, fast>>

\* removeTrack_l() gives the slots of the removed tracks back.
Released(gone) == {fastIndex[t] : t \in gone}

\* Track::destroy(): an active track is removed by the thread later.
Destroy(t) ==
    /\ ~Locked /\ t \in handles
    /\ handles' = handles \ {t}
    /\ IF t \in mActiveTracks
         THEN UNCHANGED <<fastIndex, mFastTrackAvailMask>>
         ELSE /\ mFastTrackAvailMask' = mFastTrackAvailMask \cup Released({t})
              /\ fastIndex' = [fastIndex EXCEPT ![t] = 0]
    /\ UNCHANGED <<ring, polling, mixer, mActiveTracks, tracksToRemove, born,
                   mFastMixerFutex, asleep, oPc, fast>>

-------------------------------------------------------------------------------
(* The normal mixer.                                                       *)

\* The state after prepareTracks_l() with the tracks of gone found ended:
\* each of the others is in its slot, none of gone is.
Placed(state, gone) ==
    LET owner(j) == CHOOSE t \in mActiveTracks : fastIndex[t] = j
        owned == {fastIndex[t] : t \in mActiveTracks}
        wanted == [j \in FastSlots |->
                    IF j \notin owned THEN state.provider[j]
                    ELSE IF owner(j) \in gone THEN NoTrack
                    ELSE IF state.provider[j] = NoTrack THEN owner(j)
                    ELSE state.provider[j]]
    IN [state EXCEPT !.provider = wanted, !.tracksGen = @ + 1,
         !.generation = [j \in FastSlots |->
             IF wanted[j] # state.provider[j] THEN @[j] + 1 ELSE @[j]]]

\* Faulty variant: a removal is not waited for.
BlockForNever(state, gone) ==
    IF state.command = "COLD_IDLE" THEN "NEVER" ELSE "PUSHED"

\* block and the third argument of push(): a removal must be acknowledged,
\* but a fast mixer in cold idle is not waited for.
BlockFor(state, gone) ==
    IF state.command = "COLD_IDLE" THEN "NEVER"
    ELSE IF \E t \in gone : state.provider[fastIndex[t]] # NoTrack THEN "ACKED"
    ELSE "PUSHED"

\* prepareTracks_l() up to its push().  Tracks that are terminated may be
\* found ended now or later, like any other.
Prepare ==
    /\ tPc = "loop" /\ tDo = "none"
    /\ \E gone \in SUBSET mActiveTracks :
        LET next == Placed(Mutating, gone) IN
        /\ IF next.provider = Mutating.provider THEN Inspect
           ELSE next.tracksGen <= MaxGen /\ Mutate(next)
        /\ tBlock' = BlockFor(Mutating, gone)
        /\ tracksToRemove' = gone
    /\ tPc' = "push" /\ tDo' = "prepare"
    /\ UNCHANGED <<polling, handles, mActiveTracks, fastIndex, born,
                   mFastTrackAvailMask, mFastMixerFutex, asleep, oPc, fast>>

\* The rest of prepareTracks_l(): removeTracks_l(), and the lock is released.
Remove ==
    /\ tPc = "pushed" /\ tDo = "prepare"
    /\ mActiveTracks' = mActiveTracks \ tracksToRemove
    /\ LET dead == tracksToRemove \ handles IN
        /\ mFastTrackAvailMask' = mFastTrackAvailMask \cup Released(dead)
        /\ fastIndex' = [t \in Tracks |-> IF t \in dead THEN 0 ELSE fastIndex[t]]
    /\ tPc' = "mixed" /\ tDo' = "none"
    /\ UNCHANGED <<ring, polling, tBlock, handles, tracksToRemove, born,
                   mFastMixerFutex, asleep, oPc, fast>>

\* Faulty variant: the fast mixer is not woken.
WriteSilent ==
    /\ tPc = "mixed" /\ Mutating.command # "MIX_WRITE"
    /\ tPc' = "woken" /\ tDo' = "write" /\ tBlock' = "PUSHED"
    /\ UNCHANGED <<ring, polling, tracks, mFastMixerFutex, asleep, oPc, fast>>

\* threadLoop_write() when the fast mixer is not running: the zero-length
\* write to the output, and the futex is incremented.
Write ==
    /\ tPc = "mixed" /\ Mutating.command # "MIX_WRITE"
    /\ mFastMixerFutex' = mFastMixerFutex + 1
    /\ tPc' = IF mFastMixerFutex = -1 THEN "wake" ELSE "woken"
    /\ tDo' = "write" /\ tBlock' = "PUSHED"
    /\ UNCHANGED <<ring, polling, tracks, asleep, oPc, fast>>

\* FUTEX_WAKE.
Wake ==
    /\ tPc = "wake"
    /\ asleep' = FALSE /\ tPc' = "woken"
    /\ UNCHANGED <<ring, polling, tDo, tBlock, tracks, mFastMixerFutex, oPc, fast>>

\* threadLoop_write() and ~MixerThread(): the new command.
Command ==
    /\ tPc = "woken"
    /\ Mutate([Mutating EXCEPT !.command =
                   IF tDo = "exit" THEN "EXIT" ELSE "MIX_WRITE"])
    /\ tPc' = "push"
    /\ UNCHANGED <<polling, tDo, tBlock, tracks, mFastMixerFutex, asleep, oPc, fast>>

\* Faulty variant: the hardware is put in standby once the state is pushed.
StandbyBlockPushed == "PUSHED"

\* "BLOCK_UNTIL_PUSHED would be insufficient, as we need it to stop doing
\* I/O now".
StandbyBlock == "ACKED"

\* The fast mixer has polled a cold idle and not yet decremented the futex.
ColdPending == oPc = "cold" \/ (oPc \in {"ack", "adopt"} /\ polled # Null
                                /\ mStates[polled].command = "COLD_IDLE"
                                /\ mStates[polled].coldGen # mColdGen)

\* threadLoop_standby() up to its push(): no track is active, or the output
\* is suspended.
Standby ==
    /\ tPc = "loop" /\ tDo = "none"
    /\ ~Idle(Mutating.command) /\ Mutating.coldGen < MaxIdle
    /\ Prompt => ~ColdPending
    /\ Mutate([Mutating EXCEPT !.command = "COLD_IDLE", !.coldGen = @ + 1])
    /\ mFastMixerFutex' = 0
    /\ tBlock' = StandbyBlock /\ tPc' = "push" /\ tDo' = "standby"
    /\ UNCHANGED <<polling, tracks, asleep, oPc, fast>>

\* ~MixerThread(), when all tracks have gone.
Exit ==
    /\ tPc = "loop" /\ tDo = "none" /\ mActiveTracks = {}
    /\ IF Mutating.command = "COLD_IDLE"
         THEN /\ mFastMixerFutex' = mFastMixerFutex + 1
              /\ tPc' = IF mFastMixerFutex = -1 THEN "wake" ELSE "woken"
         ELSE tPc' = "woken" /\ UNCHANGED mFastMixerFutex
    /\ tDo' = "exit" /\ tBlock' = "PUSHED"
    /\ UNCHANGED <<ring, polling, tracks, asleep, oPc, fast>>

\* push(): publish, or find nothing to publish, or give up.
Push ==
    /\ tPc = "push"
    /\ Publish \/ NothingToPush \/ (tBlock = "NEVER" /\ GiveUp)
    /\ tPc' = IF tBlock = "ACKED" THEN "ack" ELSE "pushed"
    /\ UNCHANGED <<polling, tDo, tBlock, tracks, mFastMixerFutex, asleep, oPc, fast>>

PushAcked ==
    /\ tPc = "ack" /\ AwaitAck
    /\ tPc' = "pushed"
    /\ UNCHANGED <<polling, tDo, tBlock, tracks, mFastMixerFutex, asleep, oPc, fast>>

\* The end of threadLoop_standby(), where mOutput->standby() is called, and of
\* threadLoop_write().
Return ==
    /\ tPc = "pushed" /\ tDo \in {"standby", "write"}
    /\ tPc' = IF tDo = "write" THEN "written" ELSE "loop"
    /\ tDo' = "none"
    /\ UNCHANGED <<ring, polling, tBlock, tracks, mFastMixerFutex, asleep, oPc, fast>>

\* The end of a cycle of threadLoop(): the last references are dropped.
Drop ==
    /\ tPc \in {"mixed", "written"}
    /\ tracksToRemove' = {} /\ tPc' = "loop"
    /\ UNCHANGED <<ring, polling, tDo, tBlock, handles, mActiveTracks, fastIndex,
                   mFastTrackAvailMask, born, mFastMixerFutex, asleep, oPc, fast>>

-------------------------------------------------------------------------------
(* The fast mixer: FastThread::threadLoop().                               *)

normal == <<ring, mixer, tracks>>

\* poll(): the load of mNext.
Poll ==
    /\ oPc = "poll"
    /\ PollLoad
    /\ oPc' = "ack"
    /\ UNCHANGED <<normal, mFastMixerFutex, asleep, fast>>

\* poll(): the acknowledgement.  The state it replaces is still in use.
Acknowledge ==
    /\ oPc = "ack"
    /\ PollAck
    /\ oPc' = "adopt"
    /\ UNCHANGED <<normal, mFastMixerFutex, asleep, fast>>

\* Faulty variant: the last state before idling is not copied.
PreviousInPlace(command) ==
    IF Idle(State(oCurrent).command) THEN oPrevious ELSE oCurrent

\* What mPrevious becomes when a state with this command is adopted: on the
\* way into idle it is the copy that onIdle() makes.
PreviousFor(command) ==
    IF Idle(State(oCurrent).command) THEN oPrevious
    ELSE IF Idle(command) THEN preIdle
    ELSE oCurrent

\* Adopt the polled state, and branch on its command.
Adopt ==
    /\ oPc = "adopt"
    /\ LET command == mStates[polled].command IN
        /\ IF polled = oCurrent THEN UNCHANGED <<oPrevious, mPreIdle>>
           ELSE /\ oPrevious' = PreviousFor(command)
                /\ mPreIdle' = IF Idle(command) /\ ~Idle(State(oCurrent).command)
                                 THEN State(oCurrent) ELSE mPreIdle
        /\ oCurrent' = polled
        /\ oPc' = CASE command = "EXIT" -> "exited"
                    [] command = "MIX_WRITE" -> "change"
                    [] command = "COLD_IDLE" /\ mStates[polled].coldGen # mColdGen -> "cold"
                    [] OTHER -> "poll"
    /\ UNCHANGED <<normal, polling, mFastMixerFutex, asleep, mColdGen, bound,
                   mGenerations, mFastTracksGen>>

\* Cold idle: decrement the futex; unless a wake has come already, wait.
ColdDecrement ==
    /\ oPc = "cold"
    /\ mFastMixerFutex' = mFastMixerFutex - 1
    /\ oPc' = IF mFastMixerFutex <= 0 THEN "wait" ELSE "rise"
    /\ UNCHANGED <<normal, polling, asleep, fast>>

\* FUTEX_WAIT for the value just stored; the kernel compares and sleeps in one.
ColdWait ==
    /\ oPc = "wait"
    /\ asleep' = (mFastMixerFutex = -1)
    /\ oPc' = "rise"
    /\ UNCHANGED <<normal, polling, mFastMixerFutex, fast>>

\* FUTEX_WAIT returns: awake, or by itself.
Rise ==
    /\ oPc = "rise" /\ ~asleep
    /\ mColdGen' = State(oCurrent).coldGen
    /\ oPc' = "poll"
    /\ UNCHANGED <<normal, polling, mFastMixerFutex, asleep, oCurrent, oPrevious,
                   mPreIdle, bound, mGenerations, mFastTracksGen>>

\* Faulty variant: a slot that was in use and is in use is never looked at.
RebindAddedOnly(current, previous) ==
    [j \in FastSlots |->
        IF j \notin TrackMask(current) THEN NoTrack
        ELSE IF j \notin TrackMask(previous) THEN current.provider[j]
        ELSE bound[j]]

\* onStateChange(): removed tracks, added tracks, and the slots that were and
\* are in use, but by a track of another generation.
Rebind(current, previous) ==
    [j \in FastSlots |->
        IF j \notin TrackMask(current)
          THEN IF j \in TrackMask(previous) THEN NoTrack ELSE bound[j]
        ELSE IF \/ j \notin TrackMask(previous)
                \/ current.generation[j] # mGenerations[j]
          THEN current.provider[j]
        ELSE bound[j]]

Change ==
    /\ oPc = "change"
    /\ LET current == State(oCurrent)
           previous == State(oPrevious) IN
        IF oCurrent # oPrevious /\ current.tracksGen # mFastTracksGen
          THEN /\ bound' = Rebind(current, previous)
               /\ mGenerations' = [j \in FastSlots |->
                    IF j \in TrackMask(current) \cup TrackMask(previous)
                      THEN current.generation[j] ELSE mGenerations[j]]
               /\ mFastTracksGen' = current.tracksGen
          ELSE UNCHANGED <<bound, mGenerations, mFastTracksGen>>
    /\ oPrevious' = oCurrent
    /\ oPc' = "work"
    /\ UNCHANGED <<normal, polling, mFastMixerFutex, asleep, oCurrent, mPreIdle,
                   mColdGen>>

\* onWork(): the tracks are read and the output is written.
Work ==
    /\ oPc = "work"
    /\ oPc' = "poll"
    /\ UNCHANGED <<normal, polling, mFastMixerFutex, asleep, fast>>

FastStep == \/ Poll \/ Acknowledge \/ Adopt \/ ColdDecrement \/ ColdWait \/ Rise
            \/ Change \/ Work

\* ~MixerThread() has joined the fast mixer.
Joined ==
    /\ tDo = "exit" /\ tPc = "pushed" /\ oPc = "exited"
    /\ UNCHANGED vars

Next ==
    \/ \E t \in Tracks : Create(t) \/ Start(t) \/ Destroy(t)
    \/ Prepare \/ Remove \/ Write \/ Wake \/ Command \/ Standby \/ Exit
    \/ Push \/ PushAcked \/ Return \/ Drop
    \/ FastStep
    \/ Joined

\* The fast mixer is a thread with a loop of its own, and the normal mixer
\* ends every function it has begun.
Fairness ==
    /\ WF_vars(FastStep)
    /\ WF_vars(Wake \/ Command \/ Push \/ PushAcked \/ Return \/ Remove \/ Drop)

Spec == Init /\ [][Next]_vars /\ Fairness

-------------------------------------------------------------------------------
(* Properties.                                                             *)

\* What holds of the types whatever Prompt is.
VarsOK ==
    /\ QueueTypeOK(FastState)
    /\ tPc \in {"loop", "push", "ack", "pushed", "mixed", "written", "wake", "woken"}
    /\ tDo \in {"none", "prepare", "write", "standby", "exit"}
    /\ tBlock \in {"NEVER", "PUSHED", "ACKED"}
    /\ handles \subseteq Tracks /\ mActiveTracks \subseteq Tracks
    /\ tracksToRemove \subseteq Tracks /\ born \subseteq Tracks
    /\ fastIndex \in [Tracks -> FastSlots \cup {0}]
    /\ mFastTrackAvailMask \subseteq FastSlots
    /\ asleep \in BOOLEAN
    /\ oPc \in {"poll", "ack", "adopt", "cold", "wait", "rise", "change", "work", "exited"}
    /\ oCurrent \in Slots \cup {sInitial} /\ oPrevious \in Slots \cup {sInitial, preIdle}
    /\ mPreIdle \in FastState /\ mColdGen \in 0..MaxIdle
    /\ bound \in [FastSlots -> Tracks \cup {NoTrack}]
    /\ mGenerations \in [FastSlots -> 0..MaxGen] /\ mFastTracksGen \in 0..MaxGen

\* The futex counts one wake-up and one cold idle, never more of either.
TypeOK == VarsOK /\ mFastMixerFutex \in -1..1

\* The normal mixer never writes a state that the fast mixer can read: the one
\* it works with, the one it compares it with, or the one it will poll next.
\* poll() promises "The previous state pointer is guaranteed to still be
\* valid"; push() overwrites a slot as soon as the prior push is acknowledged.
\* Every variable has its type.
StatesStable ==
    /\ TypeOK
    /\ mMutating \notin {mNext, polled, mCurrent, oCurrent, oPrevious}

\* While it mixes, every track the fast mixer reads through a raw pointer, in
\* the state and in its AudioMixer, exists: prepareTracks_l() waits for the
\* acknowledgement "because we're about to decrement the last sp<> on those
\* tracks", except in cold idle.
NoDanglingTrack ==
    oPc = "work" =>
        \A j \in FastSlots : /\ State(oCurrent).provider[j] \in Alive \cup {NoTrack}
                             /\ bound[j] \in Alive \cup {NoTrack}

\* While it mixes, each slot of the AudioMixer holds the track that the state
\* has there, although onStateChange() only compares masks and generations and
\* skips states: a slot may have been emptied and given to another track.
MixesWhatIsAsked ==
    oPc = "work" => bound = State(oCurrent).provider

\* The normal mixer uses the output itself (standby, and the first write after
\* it) only while the fast mixer does not.
OutputExclusive ==
    \/ tPc = "pushed" /\ tDo = "standby"
    \/ tPc = "mixed" /\ Mutating.command = "COLD_IDLE"
    => oPc # "work"

\* push() returns: the fast mixer polls again, also when it has to be woken
\* from the futex first.
PushReturns == tPc \in {"push", "ack"} ~> tPc = "pushed"

===============================================================================
