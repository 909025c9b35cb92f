------------------------------ MODULE ClientWait ------------------------------
(***************************************************************************)
(* How the client of a streaming AudioTrack waits for the server: the      *)
(* loops of ClientProxy::obtainBuffer() and of                             *)
(* AudioTrackClientProxy::waitStreamEndDone(), which sleep on the word     *)
(* mFutex of the control block, against everything that wakes them.        *)
(*                                                                         *)
(* The ring itself is a count of frames, as in FlushableFifo.  The bits of *)
(* mFutex are a set: "WAKE" is CBLK_FUTEX_WAKE and "SIGNAL" is 0x40000000, *)
(* which Track::signalClientFlag() stores.                                 *)
(***************************************************************************)
EXTENDS Integers

CONSTANTS FrameCount,  \* mFrameCount
          BufferSize,  \* mBufferSizeInFrames
          Minimum,     \* mMinimum
          Requests,    \* timeouts obtainBuffer() is called with
          Ops,         \* operations the client waits in
          Signals,     \* flags the server raises with signalClientFlag()
          Refuse,      \* whether the audio policy may refuse to start the track
          Waits        \* how often a client sleeps before a finite timeout expires

ASSUME FramesAssumption ==
    /\ FrameCount \in Nat \ {0} /\ BufferSize \in 1..FrameCount /\ Minimum \in Nat
ASSUME WaitAssumption ==
    /\ Requests \subseteq {"ZERO", "FINITE", "INFINITE"}
    /\ Ops \subseteq {"obtain", "end"}
    /\ Signals \subseteq {"INVALID", "DISABLED"}
    /\ Refuse \in BOOLEAN /\ Waits \in Nat

VARIABLES
  filled, doomed,       \* the ring: frames in it, frames to be flushed
  cUnreleased,          \* frames obtained by the client
  sHeld,                \* frames obtained by the mixer
  sAvail,               \* ServerProxy::mAvailToClient
  flags, mFutex,        \* mFlags and mFutex of the control block
  cState, cPc,          \* AudioTrack::mState, and how far a flush has come
  active,               \* the track is in mActiveTracks
  wOp, wPc,             \* the waiting operation, and where it is
  wRequest, wLeft,      \* its timeout, and how often it may sleep before it expires
  wIgnore,              \* ignoreInitialPendingInterrupt
  wOld,                 \* the value it expects mFutex to have
  waker                 \* for each thread that wakes the client, its next step

ring   == <<filled, doomed, cUnreleased, sHeld, sAvail>>
waiter == <<wOp, wPc, wRequest, wLeft, wIgnore, wOld>>
vars   == <<ring, flags, mFutex, cState, cPc, active, waiter, waker>>

Threads == {"mixer",    \* the thread that mixes the track
            "control",  \* a thread of the client, or the binder thread serving it
            "death",    \* the client's binder thread that calls binderDied()
            "policy"}   \* a binder thread of the server that invalidates the track

\* The next step of a waker: set WAKE and make the system call unless it was set;
\* set WAKE and make the call; store 0x40000000 and make the call; make the call.
Steps == {"none", "or", "orAlways", "store", "wake"}

Init ==
    /\ filled = 0 /\ doomed = 0 /\ cUnreleased = 0 /\ sHeld = 0 /\ sAvail = 0
    /\ flags = {} /\ mFutex = {}
    /\ cState = "STOPPED" /\ cPc = "idle" /\ active = FALSE
    /\ wOp = "none" /\ wPc = "idle" /\ wRequest = "ZERO" /\ wLeft = 0
    /\ wIgnore = FALSE /\ wOld = {}
    /\ waker = [t \in Threads |-> "none"]

Quiet(t) == waker[t] = "none"

Then(t, step) == waker' = [waker EXCEPT ![t] = step]

\* The client's mLock can be taken.
Unlocked == Quiet("control") /\ cPc = "idle"

-------------------------------------------------------------------------------
(* The waiting client.                                                     *)

\* AudioTrack::obtainBuffer(): a track that is not active is not waited for.
CallObtain(request) ==
    /\ wPc = "idle" /\ Unlocked /\ cState # "STOPPING"
    /\ wOp' = "obtain" /\ wPc' = "flags" /\ wIgnore' = TRUE
    /\ wRequest' = IF cState = "ACTIVE" THEN request ELSE "ZERO"
    /\ wLeft' \in IF wRequest' = "FINITE" THEN 0..Waits ELSE {0}
    /\ UNCHANGED <<ring, flags, mFutex, cState, active, cPc, wOld, waker>>

\* processAudioBuffer() of a track that is stopping; the timeout is two minutes.
CallEnd ==
    /\ wPc = "idle" /\ Unlocked /\ cState = "STOPPING"
    /\ wOp' = "end" /\ wPc' = "flags" /\ wRequest' = "FINITE" /\ wLeft' = Waits
    /\ UNCHANGED <<ring, flags, mFutex, cState, active, cPc, wIgnore, wOld, waker>>

\* The operation returns.
Return ==
    /\ wPc' = "idle" /\ wOp' = "none" /\ wRequest' = "ZERO" /\ wLeft' = 0
    /\ wIgnore' = FALSE /\ wOld' = {}

Proceed(pc) == wPc' = pc /\ UNCHANGED <<wOp, wRequest, wLeft, wOld>>

\* Faulty variant: an interrupt is cleared and then ignored.
ObtainFlagsDeaf ==
    /\ wPc = "flags" /\ wOp = "obtain"
    /\ flags' = flags \ {"INTERRUPT"}
    /\ IF flags \cap {"INVALID", "DISABLED"} # {}
       THEN Return
       ELSE Proceed("frames") /\ wIgnore' = FALSE
    /\ UNCHANGED <<ring, mFutex, cState, active, cPc, waker>>

\* obtainBuffer() loads and clears the flags.  What it returns is DEAD_OBJECT,
\* NOT_ENOUGH_DATA (after which AudioTrack::obtainBuffer() restarts the track) or
\* -EINTR.
ObtainFlags ==
    /\ wPc = "flags" /\ wOp = "obtain"
    /\ flags' = flags \ {"INTERRUPT"}
    /\ IF \/ flags \cap {"INVALID", "DISABLED"} # {}
          \/ "INTERRUPT" \in flags /\ ~wIgnore
       THEN Return
       ELSE Proceed("frames") /\ wIgnore' = FALSE
    /\ UNCHANGED <<ring, mFutex, cState, active, cPc, waker>>

Expired == wRequest = "ZERO" \/ (wRequest = "FINITE" /\ wLeft = 0)

\* It loads mFront and returns if there is room, or if it is not to wait longer.
ObtainFrames ==
    /\ wPc = "frames"
    /\ cUnreleased' = IF filled < BufferSize THEN BufferSize - filled ELSE 0
    /\ IF filled < BufferSize \/ Expired THEN Return
       ELSE Proceed("futex") /\ UNCHANGED wIgnore
    /\ UNCHANGED <<filled, doomed, sHeld, sAvail, flags, mFutex, cState, active, cPc, waker>>

\* Faulty variant: the flag of the stream end is cleared and not looked at.
EndFlagsDeaf ==
    /\ wPc = "flags" /\ wOp = "end"
    /\ flags' = flags \ {"INTERRUPT", "STREAM_END_DONE"}
    /\ IF flags \cap {"INVALID", "DISABLED"} # {} THEN Proceed("ended") /\ UNCHANGED wIgnore
       ELSE IF "INTERRUPT" \in flags THEN Return
       ELSE Proceed("futex") /\ UNCHANGED wIgnore
    /\ UNCHANGED <<ring, mFutex, cState, active, cPc, waker>>

\* waitStreamEndDone() loads and clears the flags; its time never runs out, as
\* it does not add up the time it has waited.  It returns DEAD_OBJECT or NO_ERROR,
\* or -EINTR, after which processAudioBuffer() has nothing to do.
EndFlags ==
    /\ wPc = "flags" /\ wOp = "end"
    /\ flags' = flags \ {"INTERRUPT", "STREAM_END_DONE"}
    /\ IF flags \cap {"INVALID", "STREAM_END_DONE", "DISABLED"} # {}
       THEN Proceed("ended") /\ UNCHANGED wIgnore
       ELSE IF "INTERRUPT" \in flags THEN Return
       ELSE Proceed("futex") /\ UNCHANGED wIgnore
    /\ UNCHANGED <<ring, mFutex, cState, active, cPc, waker>>

\* processAudioBuffer() takes the lock again; the track may have been restarted.
EndStopped ==
    /\ wPc = "ended" /\ Unlocked
    /\ cState' = IF cState = "STOPPING" THEN "STOPPED" ELSE cState
    /\ Return
    /\ UNCHANGED <<ring, flags, mFutex, active, cPc, waker>>

\* Faulty variant: a deferred wake is not looked at before waiting.
ClearWakeBlindly ==
    /\ wPc = "futex"
    /\ mFutex' = mFutex \ {"WAKE"}
    /\ wPc' = "wait" /\ wOld' = mFutex \ {"WAKE"}
    /\ UNCHANGED <<ring, flags, cState, active, cPc, wOp, wRequest, wLeft, wIgnore, waker>>

\* A deferred wake is consumed instead of waiting.
ClearWake ==
    /\ wPc = "futex"
    /\ mFutex' = mFutex \ {"WAKE"}
    /\ IF "WAKE" \in mFutex THEN wPc' = "flags" /\ UNCHANGED wOld
                            ELSE wPc' = "wait" /\ wOld' = mFutex
    /\ UNCHANGED <<ring, flags, cState, active, cPc, wOp, wRequest, wLeft, wIgnore, waker>>

\* Faulty variant: obtainBuffer() does not add up the time it sleeps.
FutexWaitTimeless ==
    /\ wPc = "wait"
    /\ wPc' = IF mFutex = wOld THEN "asleep" ELSE "flags"
    /\ UNCHANGED <<ring, flags, mFutex, cState, active, cPc, wOp, wRequest, wLeft, wIgnore,
                   wOld, waker>>

\* FUTEX_WAIT sleeps if mFutex has the expected value, or fails with EWOULDBLOCK.
\* Each time it sleeps some of the time requested goes by, but only obtainBuffer()
\* adds it up.
FutexWait ==
    /\ wPc = "wait"
    /\ wPc' = IF mFutex = wOld THEN "asleep" ELSE "flags"
    /\ wLeft' = IF wPc' = "asleep" /\ wOp = "obtain" /\ wRequest = "FINITE"
                THEN wLeft - 1 ELSE wLeft
    /\ UNCHANGED <<ring, flags, mFutex, cState, active, cPc, wOp, wRequest, wIgnore,
                   wOld, waker>>

\* FUTEX_WAIT returns by itself: ETIMEDOUT.
FutexTimeout ==
    /\ wPc = "asleep" /\ wRequest = "FINITE"
    /\ wPc' = "flags"
    /\ UNCHANGED <<ring, flags, mFutex, cState, active, cPc, wOp, wRequest, wLeft, wIgnore,
                   wOld, waker>>

\* FUTEX_WAIT returns by itself: EINTR.
FutexSpurious ==
    /\ wPc = "asleep"
    /\ wPc' = "flags"
    /\ UNCHANGED <<ring, flags, mFutex, cState, active, cPc, wOp, wRequest, wLeft, wIgnore,
                   wOld, waker>>

\* restartIfDisabled(): Track::start() makes the track active again, unless the
\* audio policy refuses it.  A disabled track has nothing to flush.
RestartIfDisabled ==
    /\ flags' = flags \ {"DISABLED"}
    /\ IF cState = "ACTIVE" /\ "DISABLED" \in flags
       THEN active' = TRUE \/ (Refuse /\ active' = active)
       ELSE active' = active

\* AudioTrack::releaseBuffer().
ClientRelease(n) ==
    /\ n <= cUnreleased /\ Unlocked
    /\ filled' = filled + n
    /\ cUnreleased' = cUnreleased - n
    /\ RestartIfDisabled
    /\ UNCHANGED <<doomed, sHeld, sAvail, mFutex, cState, cPc, waiter, waker>>

\* AudioTrack::obtainBuffer() after NOT_ENOUGH_DATA, before it calls the proxy again.
ClientRestart ==
    /\ wPc = "idle" /\ "DISABLED" \in flags /\ Unlocked
    /\ RestartIfDisabled
    /\ UNCHANGED <<ring, mFutex, cState, cPc, waiter, waker>>

-------------------------------------------------------------------------------
(* Waking it.                                                              *)

\* The thread's next access to mFutex.
TouchFutex(t) ==
    /\ waker[t] \in {"or", "orAlways", "store"}
    /\ mFutex' = IF waker[t] = "store" THEN {"SIGNAL"} ELSE mFutex \cup {"WAKE"}
    /\ Then(t, IF waker[t] = "or" /\ "WAKE" \in mFutex THEN "none" ELSE "wake")
    /\ UNCHANGED <<ring, flags, cState, active, cPc, waiter>>

\* FUTEX_WAKE.
FutexWake(t) ==
    /\ waker[t] = "wake"
    /\ Then(t, "none")
    /\ wPc' = IF wPc = "asleep" THEN "flags" ELSE wPc
    /\ UNCHANGED <<ring, flags, mFutex, cState, active, cPc, wOp, wRequest, wLeft, wIgnore, wOld>>

-------------------------------------------------------------------------------
(* The client's control thread, with mLock held.                           *)

\* ClientProxy::interrupt().
Interrupt ==
    /\ flags' = flags \cup {"INTERRUPT"}
    /\ Then("control", IF "INTERRUPT" \in flags THEN "none" ELSE "orAlways")

\* Track::start(), refused or not, carries out a flush if the track is not active.
StartFlushes == ~active /\ doomed > 0

\* AudioTrack::start(): the stream end is forgotten, and an offloaded track's
\* callback thread is interrupted if it was waiting for the end.  A track that was
\* invalidated gets a new control block instead (restoreTrack_l()).
ClientStart ==
    /\ Unlocked /\ cState # "ACTIVE" /\ "INVALID" \notin flags
    /\ cState' = IF cState = "PAUSED_STOPPING" THEN "STOPPING" ELSE "ACTIVE"
    /\ active' = TRUE
    /\ filled' = IF StartFlushes THEN filled - doomed ELSE filled
    /\ doomed' = IF StartFlushes THEN 0 ELSE doomed
    /\ flags' = (flags \ {"STREAM_END_DONE", "DISABLED"})
                   \cup (IF cState = "STOPPING" THEN {"INTERRUPT"} ELSE {})
    /\ Then("control", IF cState = "STOPPING" /\ "INTERRUPT" \notin flags THEN "orAlways"
                       ELSE IF StartFlushes THEN "or" ELSE "none")
    /\ UNCHANGED <<cUnreleased, sHeld, sAvail, mFutex, cPc, waiter>>

\* start() when the audio policy refuses the track: mState is restored.
ClientStartRefused ==
    /\ Refuse /\ Unlocked /\ cState # "ACTIVE" /\ "INVALID" \notin flags /\ ~active
    /\ filled' = filled - doomed /\ doomed' = 0
    /\ flags' = flags \ {"STREAM_END_DONE", "DISABLED"}
    /\ Then("control", IF StartFlushes THEN "or" ELSE "none")
    /\ UNCHANGED <<cUnreleased, sHeld, sAvail, mFutex, cState, active, cPc, waiter>>

ClientPause ==
    /\ Unlocked /\ cState \in {"ACTIVE", "STOPPING"}
    /\ cState' = IF cState = "ACTIVE" THEN "PAUSED" ELSE "PAUSED_STOPPING"
    /\ Interrupt
    /\ UNCHANGED <<ring, mFutex, cPc, active, waiter>>

\* Only an offloaded track waits for the stream end.
Offloaded == "end" \in Ops

ClientStop ==
    /\ Unlocked /\ cState \in {"ACTIVE", "PAUSED"}
    /\ cState' = IF Offloaded THEN "STOPPING" ELSE "STOPPED"
    /\ Interrupt
    /\ UNCHANGED <<ring, mFutex, cPc, active, waiter>>

\* AudioTrack::flush() ...
ClientFlush ==
    /\ Unlocked /\ cState # "ACTIVE"
    /\ cState' = "FLUSHED" /\ cPc' = "flush"
    /\ doomed' = filled
    /\ IF Offloaded THEN Interrupt ELSE UNCHANGED <<flags, waker>>
    /\ UNCHANGED <<filled, cUnreleased, sHeld, sAvail, mFutex, active, waiter>>

\* ... and Track::flush(), which flushes now if the track is not active.
TrackFlush ==
    /\ cPc = "flush" /\ Quiet("control")
    /\ cPc' = "idle"
    /\ IF active THEN UNCHANGED <<filled, doomed, waker>>
       ELSE filled' = filled - doomed /\ doomed' = 0 /\ Then("control", "or")
    /\ UNCHANGED <<cUnreleased, sHeld, sAvail, flags, mFutex, cState, active, waiter>>

\* ClientProxy::binderDied().
BinderDied ==
    /\ Quiet("death") /\ "INVALID" \notin flags
    /\ flags' = flags \cup {"INVALID"}
    /\ Then("death", "orAlways")
    /\ UNCHANGED <<ring, mFutex, cState, active, cPc, waiter>>

-------------------------------------------------------------------------------
(* The server.                                                             *)

\* ServerProxy::obtainBuffer(): carry out a flush, or take frames to mix.
MixerFlush ==
    /\ Quiet("mixer") /\ active /\ sHeld = 0 /\ doomed > 0
    /\ filled' = filled - doomed /\ doomed' = 0
    /\ Then("mixer", "or")
    /\ UNCHANGED <<cUnreleased, sHeld, sAvail, flags, mFutex, cState, active, cPc, waiter>>

MixerObtain ==
    /\ Quiet("mixer") /\ active /\ sHeld = 0 /\ doomed = 0 /\ filled > 0
    /\ sHeld' \in 1..filled
    /\ sAvail' = FrameCount - filled
    /\ UNCHANGED <<filled, doomed, cUnreleased, flags, mFutex, cState, active, cPc, waiter, waker>>

\* The room at which releaseBuffer() wakes the client.
WakeLevel ==
    LET half == IF FrameCount \div 2 = 0 THEN 1 ELSE FrameCount \div 2
    IN  IF Minimum = 0 \/ Minimum > half THEN half ELSE Minimum

\* Faulty variant: the frames being released are not counted as room.
MixerReleaseStale ==
    /\ Quiet("mixer") /\ sHeld > 0
    /\ filled' = filled - sHeld /\ sHeld' = 0
    /\ doomed' = IF doomed > sHeld THEN doomed - sHeld ELSE 0
    /\ Then("mixer", IF sAvail >= WakeLevel THEN "or" ELSE "none")
    /\ UNCHANGED <<cUnreleased, sAvail, flags, mFutex, cState, active, cPc, waiter>>

\* ServerProxy::releaseBuffer().
MixerRelease ==
    /\ Quiet("mixer") /\ sHeld > 0
    /\ filled' = filled - sHeld /\ sHeld' = 0
    /\ doomed' = IF doomed > sHeld THEN doomed - sHeld ELSE 0
    /\ Then("mixer", IF sAvail + sHeld >= WakeLevel THEN "or" ELSE "none")
    /\ UNCHANGED <<cUnreleased, sAvail, flags, mFutex, cState, active, cPc, waiter>>

\* prepareTracks_l() removes a track that is paused, stopped or flushed.
MixerRemove ==
    /\ Quiet("mixer") /\ active /\ sHeld = 0 /\ cState \notin {"ACTIVE", "STOPPING"}
    /\ active' = FALSE
    /\ UNCHANGED <<ring, flags, mFutex, cState, cPc, waiter, waker>>

\* It removes a track without data, and disables it: signalClientFlag().
MixerDisable ==
    /\ Quiet("mixer") /\ active /\ sHeld = 0 /\ filled = 0 /\ cState = "ACTIVE"
    /\ "DISABLED" \in Signals
    /\ active' = FALSE
    /\ flags' = flags \cup {"DISABLED"}
    /\ Then("mixer", "store")
    /\ UNCHANGED <<ring, mFutex, cState, cPc, waiter>>

\* presentationComplete() of a stopping track that is drained: setStreamEndDone().
MixerStreamEnd ==
    /\ Quiet("mixer") /\ active /\ filled = 0 /\ cState = "STOPPING"
    /\ active' = FALSE
    /\ flags' = flags \cup {"STREAM_END_DONE"}
    /\ Then("mixer", IF "STREAM_END_DONE" \in flags THEN "none" ELSE "wake")
    /\ UNCHANGED <<ring, mFutex, cState, cPc, waiter>>

\* Track::invalidate(): the server gives the track up.
Invalidate ==
    /\ Quiet("policy") /\ "INVALID" \in Signals /\ "INVALID" \notin flags
    /\ flags' = flags \cup {"INVALID"}
    /\ Then("policy", "store")
    /\ UNCHANGED <<ring, mFutex, cState, active, cPc, waiter>>

-------------------------------------------------------------------------------
WaiterNext ==
    \/ "obtain" \in Ops /\ \E request \in Requests : CallObtain(request)
    \/ CallEnd
    \/ ObtainFlags \/ ObtainFrames \/ EndFlags \/ EndStopped
    \/ ClearWake \/ FutexWait \/ FutexTimeout \/ FutexSpurious
    \/ (\E n \in 1..FrameCount : ClientRelease(n)) \/ ClientRestart

ControlNext ==
    \/ ClientStart \/ ClientStartRefused \/ ClientPause \/ ClientStop
    \/ ClientFlush \/ TrackFlush \/ BinderDied

ServerNext ==
    \/ MixerFlush \/ MixerObtain \/ MixerRelease \/ MixerRemove \/ MixerDisable
    \/ MixerStreamEnd \/ Invalidate

WakerNext == \E t \in Threads : TouchFutex(t) \/ FutexWake(t)

Next == WaiterNext \/ ControlNext \/ ServerNext \/ WakerNext

Spec == Init /\ [][Next]_vars

\* Threads that can run do run, a finite timeout of FUTEX_WAIT expires, and the
\* mixer keeps mixing and draining.  Nothing obliges anyone to call an operation,
\* and no wait need end spuriously.
FairSpec ==
    /\ Spec
    /\ WF_vars(ObtainFlags) /\ WF_vars(ObtainFrames) /\ WF_vars(EndFlags)
    /\ WF_vars(ClearWake) /\ WF_vars(FutexWait) /\ WF_vars(FutexTimeout)
    /\ \A t \in Threads : WF_vars(TouchFutex(t)) /\ WF_vars(FutexWake(t))
    /\ WF_vars(MixerFlush) /\ WF_vars(MixerObtain) /\ WF_vars(MixerRelease)
    /\ WF_vars(MixerStreamEnd)

-------------------------------------------------------------------------------
(* What should be true.                                                    *)

RingTypes ==
    /\ filled \in 0..FrameCount /\ doomed \in 0..FrameCount
    /\ cUnreleased \in 0..FrameCount /\ sHeld \in 0..FrameCount
    /\ sAvail \in 0..FrameCount

ControlTypes ==
    /\ flags \subseteq {"INVALID", "DISABLED", "INTERRUPT", "STREAM_END_DONE"}
    /\ cState \in {"STOPPED", "ACTIVE", "PAUSED", "FLUSHED", "STOPPING",
                   "PAUSED_STOPPING"}
    /\ cPc \in {"idle", "flush"} /\ active \in BOOLEAN

WaiterTypes ==
    /\ wOp \in {"none", "obtain", "end"} /\ wIgnore \in BOOLEAN
    /\ wPc \in {"idle", "flags", "frames", "futex", "wait", "asleep", "ended"}
    /\ wRequest \in {"ZERO", "FINITE", "INFINITE"} /\ wLeft \in 0..Waits

WakeTypes ==
    /\ mFutex \subseteq {"WAKE", "SIGNAL"} /\ wOld \subseteq {"SIGNAL"}
    /\ waker \in [Threads -> Steps]

TypeOK == RingTypes /\ ControlTypes /\ WaiterTypes /\ WakeTypes

AllQuiet == \A t \in Threads : Quiet(t)

\* "event flag: down (P) by client, up (V) by server or binderDied() or interrupt()"
\* (mFutex in AudioTrackShared.h): when every waker has done its work, a client
\* that sleeps in obtainBuffer() has no flag to look at, and less room than the
\* server wakes it for.  Every variable has its type.
NoLostWake ==
    /\ TypeOK
    /\ AllQuiet /\ wPc = "asleep" /\ wOp = "obtain" =>
        /\ flags \cap {"INVALID", "INTERRUPT"} = {}
        /\ filled < BufferSize => FrameCount - filled < WakeLevel

\* A client that waits in obtainBuffer() gets room, or is told why not, as long as
\* the track stays active and is not disturbed.
WriterServed == wPc = "asleep" /\ wOp = "obtain" ~> wPc # "asleep" \/ ~active

\* "Call to force an obtainBuffer() to return quickly with -EINTR" (interrupt() in
\* AudioTrackShared.h): a call that has looked at the flags once and is
\* interrupted then returns.
InterruptEnds ==
    wOp = "obtain" /\ ~wIgnore /\ "INTERRUPT" \in flags ~> wPc = "idle"

\* A call of obtainBuffer() with a finite timeout returns whatever the server does.
FiniteReturns == wOp = "obtain" /\ wRequest = "FINITE" ~> wPc = "idle"

\* EVENT_STREAM_END is "Sent after all the buffers queued in AF and HW are played
\* back (after stop is called) for an offloaded track" (AudioTrack.h): the client
\* that waits for the end is told, although setStreamEndDone() may wake it a moment
\* too early, and whatever else happens to the track meanwhile.
StreamEndSeen ==
    wOp = "end" /\ "STREAM_END_DONE" \in flags ~> wPc \in {"ended", "idle"}

===============================================================================
