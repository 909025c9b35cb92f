--------------------------- MODULE ClientWaitProofs ---------------------------
(***************************************************************************)
(* For any sizes of the ring and any timeouts: no wake-up of a client that *)
(* waits in obtainBuffer() is lost, as long as the server raises no flag   *)
(* with signalClientFlag() (Signals = {}), whose store into mFutex removes *)
(* the deferred wake of another thread.                                    *)
(***************************************************************************)
EXTENDS ClientWait, TLAPS

USE FramesAssumption, WaitAssumption

-------------------------------------------------------------------------------
(* The inductive invariant.                                                *)

\* The frames that are flushed or mixed are in the ring, and what the client
\* may release has room.  While the mixer holds frames its count of the room is
\* not too low, as nothing is flushed then.
RingInv ==
    /\ doomed <= filled /\ sHeld <= filled /\ filled + cUnreleased <= BufferSize
    /\ sHeld > 0 => active /\ FrameCount - filled <= sAvail

\* Where the waiting operation can be.
WaiterInv ==
    /\ wPc = "frames" => wOp = "obtain"
    /\ wOp = "obtain" /\ wRequest = "FINITE" /\ wPc \in {"futex", "wait"} => wLeft > 0
    /\ wOp = "none" => wPc = "idle"

\* The client has something to look at.
FlagUp   == flags \cap {"INVALID", "INTERRUPT"} # {}
RoomFree == filled < BufferSize /\ FrameCount - filled >= WakeLevel

\* The client will be kept from sleeping, or woken.
Coming == "WAKE" \in mFutex \/ \E t \in Threads : waker[t] \in {"or", "orAlways"}

\* Once the client has looked, whoever gives it reason to look again is to wake
\* it; and a wake that finds it asleep is followed by the system call.
WakeInv ==
    /\ wOp = "obtain" /\ wPc \in {"frames", "futex", "wait", "asleep"} /\ FlagUp => Coming
    /\ wOp = "obtain" /\ wPc \in {"futex", "wait", "asleep"} /\ RoomFree => Coming
    /\ wPc = "asleep" /\ "WAKE" \in mFutex => \E t \in Threads : waker[t] = "wake"
    /\ mFutex \subseteq {"WAKE"} /\ wOld = {}
    /\ \A t \in Threads : waker[t] # "store"

IInv == TypeOK /\ RingInv /\ WaiterInv /\ WakeInv

-------------------------------------------------------------------------------
LEMMA NoTimeLeft == 0 \in 0..Waits
  OBVIOUS

\* A thread that has nothing to do and takes on nothing.
LEMMA StaysQuiet ==
    ASSUME IInv, NEW t \in Threads, Quiet(t), waker' = waker PROVE Then(t, "none")
  BY DEF IInv, TypeOK, WakeTypes, Quiet, Then

LEMMA WakeLevelType == WakeLevel \in Nat
  BY DEF WakeLevel

LEMMA InitIInv == Init => IInv
  <1> SUFFICES ASSUME Init PROVE IInv
    OBVIOUS
  <1>1. 0 \in 0..FrameCount /\ 0 \in 0..Waits
    OBVIOUS
  <1>2. RingTypes /\ ControlTypes /\ WaiterTypes
    BY <1>1 DEF Init, RingTypes, ControlTypes, WaiterTypes
  <1>3. WakeTypes
    BY DEF Init, WakeTypes, Steps
  <1>4. RingInv
    BY DEF Init, RingInv
  <1>5. WaiterInv
    BY DEF Init, WaiterInv
  <1>6. WakeInv
    BY DEF Init, WakeInv
  <1> QED BY <1>2, <1>3, <1>4, <1>5, <1>6 DEF IInv, TypeOK

-------------------------------------------------------------------------------
(* The wakers.                                                             *)

\* A thread that has nothing to wake takes it on: other wakes stay due.
LEMMA Raise ==
    ASSUME IInv, NEW t \in Threads, Quiet(t),
           NEW step \in {"none", "or", "orAlways", "wake"}, Then(t, step),
           mFutex' = mFutex
    PROVE  /\ waker' \in [Threads -> Steps]
           /\ Coming => Coming'
           /\ step \in {"or", "orAlways"} => Coming'
           /\ (\E u \in Threads : waker[u] = "wake") => \E u \in Threads : waker'[u] = "wake"
           /\ \A u \in Threads : waker'[u] # "store"
  <1>1. waker \in [Threads -> Steps] /\ WakeInv /\ waker[t] = "none"
    BY DEF IInv, TypeOK, WakeTypes, Quiet
  <1>2. /\ waker'[t] = step /\ waker' \in [Threads -> Steps]
        /\ \A u \in Threads \ {t} : waker'[u] = waker[u]
    BY <1>1 DEF Then, Steps
  <1>3. Coming => Coming'
    BY <1>1, <1>2 DEF Coming
  <1>4. step \in {"or", "orAlways"} => Coming'
    BY <1>2 DEF Coming
  <1>5. (\E u \in Threads : waker[u] = "wake") => \E u \in Threads : waker'[u] = "wake"
    BY <1>1, <1>2
  <1>6. \A u \in Threads : waker'[u] # "store"
    BY <1>1, <1>2 DEF WakeInv
  <1> QED BY <1>2, <1>3, <1>4, <1>5, <1>6

\* A step of another thread, after which the client has nothing new to look at or
\* a wake is due.
LEMMA OthersStep ==
    ASSUME IInv, UNCHANGED waiter, mFutex' = mFutex,
           waker' \in [Threads -> Steps], Coming => Coming',
           (\E u \in Threads : waker[u] = "wake") => \E u \in Threads : waker'[u] = "wake",
           \A u \in Threads : waker'[u] # "store",
           FlagUp' => FlagUp \/ Coming', RoomFree' => RoomFree \/ Coming'
    PROVE  WaiterTypes' /\ WakeTypes' /\ WaiterInv' /\ WakeInv'
  <1>1. /\ wOp' = wOp /\ wPc' = wPc /\ wOld' = wOld /\ wRequest' = wRequest /\ wLeft' = wLeft
        /\ wIgnore' = wIgnore
    BY DEF waiter
  <1>2. WaiterTypes' /\ WakeTypes' /\ WaiterInv'
    BY <1>1 DEF IInv, TypeOK, WaiterTypes, WakeTypes, WaiterInv
  <1>3. WakeInv'
    BY <1>1 DEF IInv, WakeInv
  <1> QED BY <1>2, <1>3

\* The same for a step that wakes no one.
LEMMA SilentStep ==
    ASSUME IInv, UNCHANGED <<waiter, mFutex, waker>>,
           FlagUp' => FlagUp, RoomFree' => RoomFree
    PROVE  WaiterTypes' /\ WakeTypes' /\ WaiterInv' /\ WakeInv'
  <1>1. mFutex' = mFutex /\ waker' = waker /\ UNCHANGED waiter
    OBVIOUS
  <1>2. Coming' <=> Coming
    BY <1>1 DEF Coming
  <1>3. waker' \in [Threads -> Steps] /\ \A u \in Threads : waker'[u] # "store"
    BY <1>1 DEF IInv, TypeOK, WakeTypes, WakeInv
  <1> QED BY <1>1, <1>2, <1>3, OthersStep

-------------------------------------------------------------------------------
(* The client's other threads, and the server.                             *)

LEMMA ClientReleaseIInv == ASSUME IInv, NEW n \in 1..FrameCount, ClientRelease(n) PROVE IInv'
  <1>1. RingTypes' /\ RingInv'
    BY DEF IInv, TypeOK, RingTypes, RingInv, ControlTypes, ClientRelease,
           RestartIfDisabled, ring
  <1>2. ControlTypes'
    BY DEF IInv, TypeOK, ControlTypes, ClientRelease, RestartIfDisabled
  <1>3. (FlagUp' => FlagUp) /\ (RoomFree' => RoomFree)
    BY WakeLevelType
       DEF IInv, TypeOK, RingTypes, FlagUp, RoomFree, WakeLevel, ClientRelease,
           RestartIfDisabled, ring
  <1>4. UNCHANGED <<waiter, mFutex, waker>>
    BY DEF ClientRelease
  <1> QED BY <1>1, <1>2, <1>3, <1>4, SilentStep DEF IInv, TypeOK

LEMMA ClientRestartIInv == ASSUME IInv, ClientRestart PROVE IInv'
  <1>1. RingTypes' /\ RingInv'
    BY DEF IInv, TypeOK, RingTypes, RingInv, ControlTypes, ClientRestart,
           RestartIfDisabled, ring
  <1>2. ControlTypes'
    BY DEF IInv, TypeOK, ControlTypes, ClientRestart, RestartIfDisabled
  <1>3. (FlagUp' => FlagUp) /\ (RoomFree' => RoomFree)
    BY WakeLevelType
       DEF IInv, TypeOK, RingTypes, FlagUp, RoomFree, WakeLevel, ClientRestart,
           RestartIfDisabled, ring
  <1>4. UNCHANGED <<waiter, mFutex, waker>>
    BY DEF ClientRestart
  <1> QED BY <1>1, <1>2, <1>3, <1>4, SilentStep DEF IInv, TypeOK

LEMMA MixerObtainIInv == ASSUME IInv, MixerObtain PROVE IInv'
  <1>1. RingTypes' /\ RingInv'
    BY DEF IInv, TypeOK, RingTypes, RingInv, ControlTypes, MixerObtain, ring
  <1>2. ControlTypes'
    BY DEF IInv, TypeOK, ControlTypes, MixerObtain
  <1>3. (FlagUp' => FlagUp) /\ (RoomFree' => RoomFree)
    BY WakeLevelType
       DEF IInv, TypeOK, RingTypes, FlagUp, RoomFree, WakeLevel, MixerObtain, ring
  <1>4. UNCHANGED <<waiter, mFutex, waker>>
    BY DEF MixerObtain
  <1> QED BY <1>1, <1>2, <1>3, <1>4, SilentStep DEF IInv, TypeOK

LEMMA MixerRemoveIInv == ASSUME IInv, MixerRemove PROVE IInv'
  <1>1. RingTypes' /\ RingInv'
    BY DEF IInv, TypeOK, RingTypes, RingInv, ControlTypes, MixerRemove, ring
  <1>2. ControlTypes'
    BY DEF IInv, TypeOK, ControlTypes, MixerRemove
  <1>3. (FlagUp' => FlagUp) /\ (RoomFree' => RoomFree)
    BY WakeLevelType
       DEF IInv, TypeOK, RingTypes, FlagUp, RoomFree, WakeLevel, MixerRemove, ring
  <1>4. UNCHANGED <<waiter, mFutex, waker>>
    BY DEF MixerRemove
  <1> QED BY <1>1, <1>2, <1>3, <1>4, SilentStep DEF IInv, TypeOK

LEMMA ClientStartIInv == ASSUME IInv, Signals = {}, ClientStart PROVE IInv'
  <1> DEFINE step == IF cState = "STOPPING" /\ "INTERRUPT" \notin flags THEN "orAlways"
                     ELSE IF StartFlushes THEN "or" ELSE "none"
  <1>1. RingTypes' /\ RingInv'
    BY WakeLevelType
       DEF IInv, TypeOK, RingTypes, RingInv, ControlTypes, ClientStart, StartFlushes, ring
  <1>2. ControlTypes'
    BY DEF IInv, TypeOK, ControlTypes, ClientStart, StartFlushes
  <1>3. /\ step \in {"none", "or", "orAlways", "wake"} /\ Quiet("control") /\ "control" \in Threads
        /\ Then("control", step) /\ mFutex' = mFutex /\ UNCHANGED waiter
    BY DEF ClientStart, StartFlushes, Unlocked, Threads
  <1>4. FlagUp' => FlagUp \/ step \in {"or", "orAlways"}
    BY DEF FlagUp, ClientStart, StartFlushes
  <1>5. RoomFree' => RoomFree \/ step \in {"or", "orAlways"}
    BY WakeLevelType
       DEF IInv, TypeOK, RingTypes, RingInv, RoomFree, WakeLevel, ClientStart,
           StartFlushes, ring
  <1> HIDE DEF step
  <1>6. WaiterTypes' /\ WakeTypes' /\ WaiterInv' /\ WakeInv'
    BY <1>3, <1>4, <1>5, Raise, OthersStep
  <1> QED BY <1>1, <1>2, <1>6 DEF IInv, TypeOK

LEMMA ClientStartRefusedIInv == ASSUME IInv, Signals = {}, ClientStartRefused PROVE IInv'
  <1> DEFINE step == IF StartFlushes THEN "or" ELSE "none"
  <1>1. RingTypes' /\ RingInv'
    BY WakeLevelType
       DEF IInv, TypeOK, RingTypes, RingInv, ControlTypes, ClientStartRefused,
           StartFlushes, ring
  <1>2. ControlTypes'
    BY DEF IInv, TypeOK, ControlTypes, ClientStartRefused, StartFlushes
  <1>3. /\ step \in {"none", "or", "orAlways", "wake"} /\ Quiet("control") /\ "control" \in Threads
        /\ Then("control", step) /\ mFutex' = mFutex /\ UNCHANGED waiter
    BY DEF ClientStartRefused, StartFlushes, Unlocked, Threads
  <1>4. FlagUp' => FlagUp \/ step \in {"or", "orAlways"}
    BY DEF FlagUp, ClientStartRefused, StartFlushes
  <1>5. RoomFree' => RoomFree \/ step \in {"or", "orAlways"}
    BY WakeLevelType
       DEF IInv, TypeOK, RingTypes, RingInv, RoomFree, WakeLevel, ClientStartRefused,
           StartFlushes, ring
  <1> HIDE DEF step
  <1>6. WaiterTypes' /\ WakeTypes' /\ WaiterInv' /\ WakeInv'
    BY <1>3, <1>4, <1>5, Raise, OthersStep
  <1> QED BY <1>1, <1>2, <1>6 DEF IInv, TypeOK

LEMMA ClientPauseIInv == ASSUME IInv, Signals = {}, ClientPause PROVE IInv'
  <1> DEFINE step == IF "INTERRUPT" \in flags THEN "none" ELSE "orAlways"
  <1>1. RingTypes' /\ RingInv'
    BY WakeLevelType
       DEF IInv, TypeOK, RingTypes, RingInv, ControlTypes, ClientPause, Interrupt, ring
  <1>2. ControlTypes'
    BY DEF IInv, TypeOK, ControlTypes, ClientPause, Interrupt
  <1>3. /\ step \in {"none", "or", "orAlways", "wake"} /\ Quiet("control") /\ "control" \in Threads
        /\ Then("control", step) /\ mFutex' = mFutex /\ UNCHANGED waiter
    BY DEF ClientPause, Interrupt, Unlocked, Threads
  <1>4. FlagUp' => FlagUp \/ step \in {"or", "orAlways"}
    BY DEF FlagUp, ClientPause, Interrupt
  <1>5. RoomFree' => RoomFree \/ step \in {"or", "orAlways"}
    BY WakeLevelType
       DEF IInv, TypeOK, RingTypes, RingInv, RoomFree, WakeLevel, ClientPause, Interrupt,
           ring
  <1> HIDE DEF step
  <1>6. WaiterTypes' /\ WakeTypes' /\ WaiterInv' /\ WakeInv'
    BY <1>3, <1>4, <1>5, Raise, OthersStep
  <1> QED BY <1>1, <1>2, <1>6 DEF IInv, TypeOK

LEMMA ClientStopIInv == ASSUME IInv, Signals = {}, ClientStop PROVE IInv'
  <1> DEFINE step == IF "INTERRUPT" \in flags THEN "none" ELSE "orAlways"
  <1>1. RingTypes' /\ RingInv'
    BY WakeLevelType
       DEF IInv, TypeOK, RingTypes, RingInv, ControlTypes, ClientStop, Interrupt, ring
  <1>2. ControlTypes'
    BY DEF IInv, TypeOK, ControlTypes, ClientStop, Interrupt
  <1>3. /\ step \in {"none", "or", "orAlways", "wake"} /\ Quiet("control") /\ "control" \in Threads
        /\ Then("control", step) /\ mFutex' = mFutex /\ UNCHANGED waiter
    BY DEF ClientStop, Interrupt, Unlocked, Threads
  <1>4. FlagUp' => FlagUp \/ step \in {"or", "orAlways"}
    BY DEF FlagUp, ClientStop, Interrupt
  <1>5. RoomFree' => RoomFree \/ step \in {"or", "orAlways"}
    BY WakeLevelType
       DEF IInv, TypeOK, RingTypes, RingInv, RoomFree, WakeLevel, ClientStop, Interrupt,
           ring
  <1> HIDE DEF step
  <1>6. WaiterTypes' /\ WakeTypes' /\ WaiterInv' /\ WakeInv'
    BY <1>3, <1>4, <1>5, Raise, OthersStep
  <1> QED BY <1>1, <1>2, <1>6 DEF IInv, TypeOK

LEMMA ClientFlushIInv == ASSUME IInv, Signals = {}, ClientFlush PROVE IInv'
  <1> DEFINE step == IF Offloaded /\ "INTERRUPT" \notin flags THEN "orAlways" ELSE "none"
  <1>1. RingTypes' /\ RingInv'
    BY WakeLevelType
       DEF IInv, TypeOK, RingTypes, RingInv, ControlTypes, ClientFlush, Interrupt, ring
  <1>2. ControlTypes'
    BY DEF IInv, TypeOK, ControlTypes, ClientFlush, Interrupt
  <1>3. /\ step \in {"none", "or", "orAlways", "wake"} /\ Quiet("control") /\ "control" \in Threads
        /\ Then("control", step) /\ mFutex' = mFutex /\ UNCHANGED waiter
    <2>1. "control" \in Threads /\ Quiet("control")
      BY DEF ClientFlush, Unlocked, Threads
    <2>2. waker' = waker => Then("control", "none")
      BY <2>1, StaysQuiet
    <2> QED BY <2>1, <2>2 DEF ClientFlush, Interrupt
  <1>4. FlagUp' => FlagUp \/ step \in {"or", "orAlways"}
    BY DEF FlagUp, ClientFlush, Interrupt
  <1>5. RoomFree' => RoomFree \/ step \in {"or", "orAlways"}
    BY WakeLevelType
       DEF IInv, TypeOK, RingTypes, RingInv, RoomFree, WakeLevel, ClientFlush, Interrupt,
           ring
  <1> HIDE DEF step
  <1>6. WaiterTypes' /\ WakeTypes' /\ WaiterInv' /\ WakeInv'
    BY <1>3, <1>4, <1>5, Raise, OthersStep
  <1> QED BY <1>1, <1>2, <1>6 DEF IInv, TypeOK

LEMMA TrackFlushIInv == ASSUME IInv, Signals = {}, TrackFlush PROVE IInv'
  <1> DEFINE step == IF active THEN "none" ELSE "or"
  <1>1. RingTypes' /\ RingInv'
    BY WakeLevelType DEF IInv, TypeOK, RingTypes, RingInv, ControlTypes, TrackFlush, ring
  <1>2. ControlTypes'
    BY DEF IInv, TypeOK, ControlTypes, TrackFlush
  <1>3. /\ step \in {"none", "or", "orAlways", "wake"} /\ Quiet("control") /\ "control" \in Threads
        /\ Then("control", step) /\ mFutex' = mFutex /\ UNCHANGED waiter
    <2>1. "control" \in Threads /\ Quiet("control")
      BY DEF TrackFlush, Unlocked, Threads
    <2>2. waker' = waker => Then("control", "none")
      BY <2>1, StaysQuiet
    <2> QED BY <2>1, <2>2 DEF TrackFlush
  <1>4. FlagUp' => FlagUp \/ step \in {"or", "orAlways"}
    BY DEF FlagUp, TrackFlush
  <1>5. RoomFree' => RoomFree \/ step \in {"or", "orAlways"}
    BY WakeLevelType
       DEF IInv, TypeOK, RingTypes, RingInv, RoomFree, WakeLevel, TrackFlush, ring
  <1> HIDE DEF step
  <1>6. WaiterTypes' /\ WakeTypes' /\ WaiterInv' /\ WakeInv'
    BY <1>3, <1>4, <1>5, Raise, OthersStep
  <1> QED BY <1>1, <1>2, <1>6 DEF IInv, TypeOK

LEMMA BinderDiedIInv == ASSUME IInv, Signals = {}, BinderDied PROVE IInv'
  <1> DEFINE step == "orAlways"
  <1>1. RingTypes' /\ RingInv'
    BY WakeLevelType DEF IInv, TypeOK, RingTypes, RingInv, ControlTypes, BinderDied, ring
  <1>2. ControlTypes'
    BY DEF IInv, TypeOK, ControlTypes, BinderDied
  <1>3. /\ step \in {"none", "or", "orAlways", "wake"} /\ Quiet("death") /\ "death" \in Threads
        /\ Then("death", step) /\ mFutex' = mFutex /\ UNCHANGED waiter
    BY DEF BinderDied, Unlocked, Threads
  <1>4. FlagUp' => FlagUp \/ step \in {"or", "orAlways"}
    BY DEF FlagUp, BinderDied
  <1>5. RoomFree' => RoomFree \/ step \in {"or", "orAlways"}
    BY WakeLevelType
       DEF IInv, TypeOK, RingTypes, RingInv, RoomFree, WakeLevel, BinderDied, ring
  <1> HIDE DEF step
  <1>6. WaiterTypes' /\ WakeTypes' /\ WaiterInv' /\ WakeInv'
    BY <1>3, <1>4, <1>5, Raise, OthersStep
  <1> QED BY <1>1, <1>2, <1>6 DEF IInv, TypeOK

LEMMA MixerFlushIInv == ASSUME IInv, Signals = {}, MixerFlush PROVE IInv'
  <1> DEFINE step == "or"
  <1>1. RingTypes' /\ RingInv'
    BY WakeLevelType DEF IInv, TypeOK, RingTypes, RingInv, ControlTypes, MixerFlush, ring
  <1>2. ControlTypes'
    BY DEF IInv, TypeOK, ControlTypes, MixerFlush
  <1>3. /\ step \in {"none", "or", "orAlways", "wake"} /\ Quiet("mixer") /\ "mixer" \in Threads
        /\ Then("mixer", step) /\ mFutex' = mFutex /\ UNCHANGED waiter
    BY DEF MixerFlush, Unlocked, Threads
  <1>4. FlagUp' => FlagUp \/ step \in {"or", "orAlways"}
    BY DEF FlagUp, MixerFlush
  <1>5. RoomFree' => RoomFree \/ step \in {"or", "orAlways"}
    BY WakeLevelType
       DEF IInv, TypeOK, RingTypes, RingInv, RoomFree, WakeLevel, MixerFlush, ring
  <1> HIDE DEF step
  <1>6. WaiterTypes' /\ WakeTypes' /\ WaiterInv' /\ WakeInv'
    BY <1>3, <1>4, <1>5, Raise, OthersStep
  <1> QED BY <1>1, <1>2, <1>6 DEF IInv, TypeOK

LEMMA MixerReleaseIInv == ASSUME IInv, Signals = {}, MixerRelease PROVE IInv'
  <1> DEFINE step == IF sAvail + sHeld >= WakeLevel THEN "or" ELSE "none"
  <1>1. RingTypes' /\ RingInv'
    BY WakeLevelType DEF IInv, TypeOK, RingTypes, RingInv, ControlTypes, MixerRelease, ring
  <1>2. ControlTypes'
    BY DEF IInv, TypeOK, ControlTypes, MixerRelease
  <1>3. /\ step \in {"none", "or", "orAlways", "wake"} /\ Quiet("mixer") /\ "mixer" \in Threads
        /\ Then("mixer", step) /\ mFutex' = mFutex /\ UNCHANGED waiter
    BY DEF MixerRelease, Unlocked, Threads
  <1>4. FlagUp' => FlagUp \/ step \in {"or", "orAlways"}
    BY DEF FlagUp, MixerRelease
  <1>5. RoomFree' => RoomFree \/ step \in {"or", "orAlways"}
    BY WakeLevelType
       DEF IInv, TypeOK, RingTypes, RingInv, RoomFree, WakeLevel, MixerRelease, ring
  <1> HIDE DEF step
  <1>6. WaiterTypes' /\ WakeTypes' /\ WaiterInv' /\ WakeInv'
    BY <1>3, <1>4, <1>5, Raise, OthersStep
  <1> QED BY <1>1, <1>2, <1>6 DEF IInv, TypeOK

LEMMA MixerStreamEndIInv == ASSUME IInv, Signals = {}, MixerStreamEnd PROVE IInv'
  <1> DEFINE step == IF "STREAM_END_DONE" \in flags THEN "none" ELSE "wake"
  <1>1. RingTypes' /\ RingInv'
    BY WakeLevelType
       DEF IInv, TypeOK, RingTypes, RingInv, ControlTypes, MixerStreamEnd, ring
  <1>2. ControlTypes'
    BY DEF IInv, TypeOK, ControlTypes, MixerStreamEnd
  <1>3. /\ step \in {"none", "or", "orAlways", "wake"} /\ Quiet("mixer") /\ "mixer" \in Threads
        /\ Then("mixer", step) /\ mFutex' = mFutex /\ UNCHANGED waiter
    BY DEF MixerStreamEnd, Unlocked, Threads
  <1>4. FlagUp' => FlagUp \/ step \in {"or", "orAlways"}
    BY DEF FlagUp, MixerStreamEnd
  <1>5. RoomFree' => RoomFree \/ step \in {"or", "orAlways"}
    BY WakeLevelType
       DEF IInv, TypeOK, RingTypes, RingInv, RoomFree, WakeLevel, MixerStreamEnd, ring
  <1> HIDE DEF step
  <1>6. WaiterTypes' /\ WakeTypes' /\ WaiterInv' /\ WakeInv'
    BY <1>3, <1>4, <1>5, Raise, OthersStep
  <1> QED BY <1>1, <1>2, <1>6 DEF IInv, TypeOK

-------------------------------------------------------------------------------
(* The waiting client.                                                     *)

LEMMA CallObtainIInv == ASSUME IInv, NEW request \in Requests, CallObtain(request) PROVE IInv'
  <1>1. RingTypes' /\ RingInv' /\ ControlTypes'
    BY DEF IInv, TypeOK, RingTypes, RingInv, ControlTypes, CallObtain, ring
  <1>2. WaiterTypes' /\ WaiterInv'
    BY DEF IInv, TypeOK, WaiterTypes, WaiterInv, CallObtain
  <1>3. WakeTypes' /\ WakeInv'
    BY WakeLevelType
       DEF IInv, TypeOK, RingTypes, WakeTypes, WaiterInv, WakeInv, Coming, FlagUp,
           RoomFree, CallObtain, ring
  <1> QED BY <1>1, <1>2, <1>3 DEF IInv, TypeOK

LEMMA CallEndIInv == ASSUME IInv, CallEnd PROVE IInv'
  <1>1. RingTypes' /\ RingInv' /\ ControlTypes'
    BY DEF IInv, TypeOK, RingTypes, RingInv, ControlTypes, CallEnd, ring
  <1>2. WaiterTypes' /\ WaiterInv'
    BY DEF IInv, TypeOK, WaiterTypes, WaiterInv, CallEnd
  <1>3. WakeTypes' /\ WakeInv'
    BY WakeLevelType
       DEF IInv, TypeOK, RingTypes, WakeTypes, WaiterInv, WakeInv, Coming, FlagUp,
           RoomFree, CallEnd, ring
  <1> QED BY <1>1, <1>2, <1>3 DEF IInv, TypeOK

LEMMA ObtainFlagsIInv == ASSUME IInv, ObtainFlags PROVE IInv'
  <1>1. RingTypes' /\ RingInv' /\ ControlTypes'
    BY DEF IInv, TypeOK, RingTypes, RingInv, ControlTypes, ObtainFlags, ring
  <1>2. WaiterTypes' /\ WaiterInv'
    BY NoTimeLeft DEF IInv, TypeOK, WaiterTypes, WaiterInv, ObtainFlags, Return, Proceed
  <1>3. WakeTypes' /\ WakeInv'
    BY WakeLevelType
       DEF IInv, TypeOK, RingTypes, WakeTypes, WaiterInv, WakeInv, Coming, FlagUp,
           RoomFree, ObtainFlags, Return, Proceed, ring
  <1> QED BY <1>1, <1>2, <1>3 DEF IInv, TypeOK

LEMMA ObtainFramesIInv == ASSUME IInv, ObtainFrames PROVE IInv'
  <1>1. RingTypes' /\ RingInv' /\ ControlTypes'
    BY DEF IInv, TypeOK, RingTypes, RingInv, ControlTypes, ObtainFrames, ring
  <1>2. WaiterTypes' /\ WaiterInv'
    <2>1. CASE Return
      BY <2>1, NoTimeLeft DEF WaiterTypes, WaiterInv, Return
    <2>2. CASE Proceed("futex") /\ UNCHANGED wIgnore /\ ~Expired
      BY <2>2 DEF IInv, TypeOK, WaiterTypes, WaiterInv, ObtainFrames, Proceed, Expired
    <2> QED BY <2>1, <2>2 DEF ObtainFrames
  <1>3. WakeTypes' /\ WakeInv'
    BY WakeLevelType
       DEF IInv, TypeOK, RingTypes, WakeTypes, WaiterInv, WakeInv, Coming, FlagUp,
           RoomFree, ObtainFrames, Return, Proceed, Expired, ring
  <1> QED BY <1>1, <1>2, <1>3 DEF IInv, TypeOK

LEMMA EndFlagsIInv == ASSUME IInv, EndFlags PROVE IInv'
  <1>1. RingTypes' /\ RingInv' /\ ControlTypes'
    BY DEF IInv, TypeOK, RingTypes, RingInv, ControlTypes, EndFlags, ring
  <1>2. WaiterTypes' /\ WaiterInv'
    BY NoTimeLeft DEF IInv, TypeOK, WaiterTypes, WaiterInv, EndFlags, Return, Proceed
  <1>3. WakeTypes' /\ WakeInv'
    BY WakeLevelType
       DEF IInv, TypeOK, RingTypes, WakeTypes, WaiterInv, WakeInv, Coming, FlagUp,
           RoomFree, EndFlags, Return, Proceed, ring
  <1> QED BY <1>1, <1>2, <1>3 DEF IInv, TypeOK

LEMMA EndStoppedIInv == ASSUME IInv, EndStopped PROVE IInv'
  <1>1. RingTypes' /\ RingInv' /\ ControlTypes'
    BY DEF IInv, TypeOK, RingTypes, RingInv, ControlTypes, EndStopped, ring
  <1>2. WaiterTypes' /\ WaiterInv'
    BY NoTimeLeft DEF IInv, TypeOK, WaiterTypes, WaiterInv, EndStopped, Return
  <1>3. WakeTypes' /\ WakeInv'
    BY WakeLevelType
       DEF IInv, TypeOK, RingTypes, WakeTypes, WaiterInv, WakeInv, Coming, FlagUp,
           RoomFree, EndStopped, Return, ring
  <1> QED BY <1>1, <1>2, <1>3 DEF IInv, TypeOK

LEMMA ClearWakeIInv == ASSUME IInv, ClearWake PROVE IInv'
  <1>1. RingTypes' /\ RingInv' /\ ControlTypes'
    BY DEF IInv, TypeOK, RingTypes, RingInv, ControlTypes, ClearWake, ring
  <1>2. WaiterTypes' /\ WaiterInv'
    BY DEF IInv, TypeOK, WaiterTypes, WaiterInv, ClearWake
  <1>3. WakeTypes' /\ WakeInv'
    BY WakeLevelType
       DEF IInv, TypeOK, RingTypes, WakeTypes, WaiterInv, WakeInv, Coming, FlagUp,
           RoomFree, ClearWake, ring
  <1> QED BY <1>1, <1>2, <1>3 DEF IInv, TypeOK

LEMMA FutexWaitIInv == ASSUME IInv, FutexWait PROVE IInv'
  <1>1. RingTypes' /\ RingInv' /\ ControlTypes'
    BY DEF IInv, TypeOK, RingTypes, RingInv, ControlTypes, FutexWait, ring
  <1>2. WaiterTypes' /\ WaiterInv'
    BY DEF IInv, TypeOK, WaiterTypes, WaiterInv, FutexWait
  <1>3. WakeTypes' /\ WakeInv'
    BY WakeLevelType
       DEF IInv, TypeOK, RingTypes, WakeTypes, WaiterInv, WakeInv, Coming, FlagUp,
           RoomFree, FutexWait, ring
  <1> QED BY <1>1, <1>2, <1>3 DEF IInv, TypeOK

LEMMA FutexTimeoutIInv == ASSUME IInv, FutexTimeout PROVE IInv'
  <1>1. RingTypes' /\ RingInv' /\ ControlTypes'
    BY DEF IInv, TypeOK, RingTypes, RingInv, ControlTypes, FutexTimeout, ring
  <1>2. WaiterTypes' /\ WaiterInv'
    BY DEF IInv, TypeOK, WaiterTypes, WaiterInv, FutexTimeout
  <1>3. WakeTypes' /\ WakeInv'
    BY WakeLevelType
       DEF IInv, TypeOK, RingTypes, WakeTypes, WaiterInv, WakeInv, Coming, FlagUp,
           RoomFree, FutexTimeout, ring
  <1> QED BY <1>1, <1>2, <1>3 DEF IInv, TypeOK

LEMMA FutexSpuriousIInv == ASSUME IInv, FutexSpurious PROVE IInv'
  <1>1. RingTypes' /\ RingInv' /\ ControlTypes'
    BY DEF IInv, TypeOK, RingTypes, RingInv, ControlTypes, FutexSpurious, ring
  <1>2. WaiterTypes' /\ WaiterInv'
    BY DEF IInv, TypeOK, WaiterTypes, WaiterInv, FutexSpurious
  <1>3. WakeTypes' /\ WakeInv'
    BY WakeLevelType
       DEF IInv, TypeOK, RingTypes, WakeTypes, WaiterInv, WakeInv, Coming, FlagUp,
           RoomFree, FutexSpurious, ring
  <1> QED BY <1>1, <1>2, <1>3 DEF IInv, TypeOK

LEMMA TouchFutexIInv == ASSUME IInv, NEW t \in Threads, TouchFutex(t) PROVE IInv'
  <1>1. RingTypes' /\ RingInv' /\ ControlTypes' /\ WaiterTypes' /\ WaiterInv'
    BY DEF IInv, TypeOK, RingTypes, RingInv, ControlTypes, WaiterTypes, WaiterInv,
           TouchFutex,
           ring, waiter
  <1>2. /\ waker \in [Threads -> Steps] /\ WakeInv /\ waker[t] \in {"or", "orAlways"}
        /\ wOp' = wOp /\ wPc' = wPc /\ wOld' = wOld
    BY DEF IInv, TypeOK, WakeTypes, WakeInv, TouchFutex, waiter
  <1>3. /\ mFutex' = {"WAKE"}
        /\ waker' = [waker EXCEPT ![t] =
                         IF waker[t] = "or" /\ "WAKE" \in mFutex THEN "none" ELSE "wake"]
    BY <1>2 DEF TouchFutex, Then, WakeInv
  <1>4. /\ waker' \in [Threads -> Steps]
        /\ \A u \in Threads \ {t} : waker'[u] = waker[u]
        /\ waker'[t] = IF waker[t] = "or" /\ "WAKE" \in mFutex THEN "none" ELSE "wake"
    BY <1>2, <1>3 DEF Steps
  <1>5. WakeTypes' /\ Coming' /\ \A u \in Threads : waker'[u] # "store"
    BY <1>2, <1>3, <1>4 DEF IInv, TypeOK, WakeTypes, Coming, WakeInv
  <1>6. wPc = "asleep" => \E u \in Threads : waker'[u] = "wake"
    BY <1>2, <1>4 DEF WakeInv
  <1> QED BY <1>1, <1>2, <1>3, <1>5, <1>6 DEF IInv, TypeOK, WakeInv

LEMMA FutexWakeIInv == ASSUME IInv, NEW t \in Threads, FutexWake(t) PROVE IInv'
  <1>1. RingTypes' /\ RingInv' /\ ControlTypes' /\ WaiterTypes' /\ WaiterInv'
    BY DEF IInv, TypeOK, RingTypes, RingInv, ControlTypes, WaiterTypes, WaiterInv,
           FutexWake, ring
  <1>2. /\ waker \in [Threads -> Steps] /\ WakeInv /\ waker[t] = "wake"
        /\ waker' = [waker EXCEPT ![t] = "none"] /\ mFutex' = mFutex /\ wOld' = wOld
        /\ wOp' = wOp /\ wPc' = IF wPc = "asleep" THEN "flags" ELSE wPc
        /\ flags' = flags /\ filled' = filled
    BY DEF IInv, TypeOK, WakeTypes, FutexWake, Then, ring
  <1>3. /\ waker' \in [Threads -> Steps] /\ waker'[t] = "none"
        /\ \A u \in Threads \ {t} : waker'[u] = waker[u]
    BY <1>2 DEF Steps
  <1>4. WakeTypes' /\ (Coming => Coming') /\ \A u \in Threads : waker'[u] # "store"
    BY <1>2, <1>3 DEF IInv, TypeOK, WakeTypes, Coming, WakeInv
  <1>5. WakeInv'
    BY <1>2, <1>4 DEF WakeInv, FlagUp, RoomFree
  <1> QED BY <1>1, <1>4, <1>5 DEF IInv, TypeOK

-------------------------------------------------------------------------------
LEMMA NextIInv == ASSUME Signals = {} PROVE IInv /\ [Next]_vars => IInv'
  <1> SUFFICES ASSUME IInv, [Next]_vars PROVE IInv'
    OBVIOUS
  <1>1. CASE WaiterNext
    BY <1>1, CallObtainIInv, CallEndIInv, ObtainFlagsIInv, ObtainFramesIInv, EndFlagsIInv,
       EndStoppedIInv, ClearWakeIInv, FutexWaitIInv, FutexTimeoutIInv, FutexSpuriousIInv,
       ClientReleaseIInv, ClientRestartIInv DEF WaiterNext
  <1>2. CASE ControlNext
    BY <1>2, ClientStartIInv, ClientStartRefusedIInv, ClientPauseIInv, ClientStopIInv,
       ClientFlushIInv, TrackFlushIInv, BinderDiedIInv DEF ControlNext
  <1>3. CASE ServerNext
    BY <1>3, MixerFlushIInv, MixerObtainIInv, MixerReleaseIInv, MixerRemoveIInv,
       MixerStreamEndIInv DEF ServerNext, MixerDisable, Invalidate
  <1>4. CASE WakerNext
    BY <1>4, TouchFutexIInv, FutexWakeIInv DEF WakerNext
  <1>5. CASE UNCHANGED vars
    <2>1. UNCHANGED <<ring, flags, mFutex, cState, cPc, active, waiter, waker>>
      BY <1>5 DEF vars
    <2>2. (FlagUp' => FlagUp) /\ (RoomFree' => RoomFree)
      BY <2>1 DEF FlagUp, RoomFree, ring
    <2>3. RingTypes' /\ RingInv' /\ ControlTypes'
      BY <2>1 DEF IInv, TypeOK, RingTypes, RingInv, ControlTypes, ring
    <2> QED BY <2>1, <2>2, <2>3, SilentStep DEF IInv, TypeOK
  <1> QED BY <1>1, <1>2, <1>3, <1>4, <1>5 DEF Next

\* No wake-up is lost: once every thread that wakes has done so, a client that
\* sleeps in obtainBuffer() has no flag to look at and too little room.
THEOREM WakesAreNotLost == ASSUME Signals = {} PROVE Spec => []NoLostWake
  <1>1. Init => IInv
    BY InitIInv
  <1>2. IInv /\ [Next]_vars => IInv'
    BY NextIInv
  <1>3. IInv => NoLostWake
    <2> SUFFICES ASSUME IInv, AllQuiet, wPc = "asleep", wOp = "obtain"
                 PROVE  ~FlagUp /\ ~RoomFree
      BY WakeLevelType DEF IInv, TypeOK, RingTypes, NoLostWake, FlagUp, RoomFree
    <2>1. \A t \in Threads : waker[t] = "none"
      BY DEF AllQuiet, Quiet
    <2>2. ~Coming
      BY <2>1 DEF IInv, WakeInv, Coming
    <2> QED BY <2>2 DEF IInv, WakeInv
  <1> QED BY <1>1, <1>2, <1>3, PTL DEF Spec

===============================================================================
