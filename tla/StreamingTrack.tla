---------------------------- MODULE StreamingTrack ----------------------------
(***************************************************************************)
(* The control block of a streaming AudioTrack: AudioTrackClientProxy and  *)
(* AudioTrackServerProxy (media/libaudioclient/AudioTrackShared.cpp), the  *)
(* operations of AudioTrack that drive the first, and those of             *)
(* PlaybackThread::Track that drive the second.                            *)
(*                                                                         *)
(* The client's mLock makes each of its operations on mRear, mStop and     *)
(* mFlush one step, except that a flush stores twice; its obtainBuffer()   *)
(* runs without the lock and loads mFront once.  The mixer thread reads    *)
(* without any lock, and each of its loads of a field the client stores is *)
(* a step.  A binder call to a track that is not in the active list is one *)
(* step, because the mixer does not look at the track and the client waits *)
(* with mLock held.                                                        *)
(***************************************************************************)
EXTENDS Integers

CONSTANTS FrameCount,   \* mFrameCount
          P2,           \* mFrameCountP2
          IntMod,       \* 2^32: mFront, mRear, mStop and mFlush are int32_t
          Asks,         \* the buffer sizes that either side asks for
          Sizes,        \* the arguments of setBufferSizeInFrames()
          Minimum,      \* the least buffer size (16 in the code)
          Prompt,       \* see NotLate
          MaxMarks      \* bound on the number of stops and flushes

\* overflowBit, or increment: positions in mStop and mFlush are kept modulo this.
Span == 2 * P2

ASSUME SizesAssumption ==
    /\ FrameCount \in Nat \ {0} /\ P2 \in Nat /\ FrameCount <= P2
    /\ Asks \subseteq Nat \ {0} /\ Sizes \subseteq Nat /\ Minimum \in Nat \ {0}
    /\ Prompt \in BOOLEAN /\ MaxMarks \in Nat
ASSUME IntModAssumption ==
    IntMod \in Nat /\ IntMod % Span = 0 /\ IntMod >= 2 * Span

VARIABLES
  mFront, mRear, mStop, mFlush, \* audio_track_cblk_t::u.mStreaming
  cState,                       \* AudioTrack::mState
  cPc,                          \* how far an operation under the client's mLock has come
  cUnreleased, cShutdown,       \* mUnreleased and mIsShutdown of the client proxy
  cSize,                        \* mBufferSizeInFrames
  active,                       \* the track is in mActiveTracks
  disabled,                     \* CBLK_DISABLED
  sFlush, sStopLast,            \* mFlush and mStopLast of the server proxy
  sUnreleased, sShutdown,       \* mUnreleased and mIsShutdown of the server proxy
  sHeld,                        \* frames in the buffer the mixer is reading
  sOp, sPc,                     \* the server proxy's operation, and where it is
  lFlush, lStop, lRear,         \* its locals flush, stop and rear
  late,                         \* the client stopped or flushed since it began
  marks                         \* history: number of stops and flushes

cblk   == <<mFront, mRear, mStop, mFlush>>
client == <<cState, cPc, cUnreleased, cShutdown, cSize>>
track  == <<active, disabled>>
proxy  == <<sFlush, sStopLast, sUnreleased, sShutdown, sHeld>>
call   == <<sOp, sPc, lFlush, lStop, lRear>>
vars   == <<cblk, client, track, proxy, call, late, marks>>

Init ==
    /\ mFront = 0 /\ mRear = 0 /\ mStop = 0 /\ mFlush = 0
    /\ cState = "STOPPED" /\ cPc = "idle" /\ cUnreleased = 0
    /\ cShutdown = FALSE /\ cSize = FrameCount
    /\ active = FALSE /\ disabled = FALSE
    /\ sFlush = 0 /\ sStopLast = 0 /\ sUnreleased = 0 /\ sShutdown = FALSE
    /\ sHeld = 0
    /\ sOp = "none" /\ sPc = "idle" /\ lFlush = 0 /\ lStop = 0 /\ lRear = 0
    /\ late = FALSE /\ marks = 0

-------------------------------------------------------------------------------
(* Arithmetic on positions.                                                *)

Least(a, b) == IF a <= b THEN a ELSE b

\* p + n and p - n as int32_t, for n no larger than IntMod.
Plus(p, n) == IF p + n < IntMod THEN p + n ELSE p + n - IntMod
Minus(p, n) == IF p >= n THEN p - n ELSE p - n + IntMod

\* a - b as int32_t: the distance from b to a if they are less than IntMod/2 apart.
Diff(a, b) ==
    LET d == a - b
    IN  IF 2 * d >= IntMod THEN d - IntMod
        ELSE IF 2 * d < -IntMod THEN d + IntMod ELSE d

InPipe(n) == 0 <= n /\ n <= FrameCount

\* p & mask and p & ~mask, where mask is Span - 1.
Low(p) == p % Span
High(p) == p - Low(p)

\* The new value of mStop or mFlush: the next counter, and the low bits of mRear.
Mark(old) == Plus(High(old), Span) + Low(mRear)

\* The first contiguous chunk of avail frames at position p, at most ask of them.
Chunk(p, avail, ask) == Least(Least(P2 - (p % P2), avail), ask)

\* Faulty variant: a flush position beyond a multiple of Span is not noticed.
FlushFrontUnwrapped(front, rear, flush) ==
    LET newFront == High(front) + Low(flush)
    IN  IF InPipe(Diff(rear, newFront)) THEN newFront ELSE rear

\* Where flushBufferIfNeeded() moves mFront to.
FlushFront(front, rear, flush) ==
    LET based    == High(front) + Low(flush)
        newFront == IF Diff(rear, based) >= Span THEN Plus(based, Span) ELSE based
        filled   == IF Diff(rear, based) >= Span THEN Diff(rear, based) - Span
                    ELSE Diff(rear, based)
    IN  IF InPipe(filled) THEN newFront ELSE rear

\* What getRear() returns when mStop is not mStopLast.
StopRear(stop, rear, front) ==
    LET based   == High(rear) + Low(stop)
        newRear == IF Diff(based, front) >= Span THEN Minus(based, Span) ELSE based
        filled  == IF Diff(based, front) >= Span THEN Diff(based, front) - Span
                   ELSE Diff(based, front)
    IN  IF InPipe(filled) THEN newRear ELSE rear

-------------------------------------------------------------------------------
(* The track in AudioFlinger, called through binder with the client's mLock *)
(* and the thread's mLock held.                                             *)

\* flushBufferIfNeeded() by a binder thread.
FlushNow ==
    /\ mFront' = IF mFlush # sFlush THEN FlushFront(mFront, mRear, mFlush) ELSE mFront
    /\ sFlush' = mFlush

\* obtainBuffer(&buffer, true), which may only shut the proxy down; it leaves
\* mUnreleased to the buffer the mixer got last.
AckFlush ==
    LET rear == IF mStop # sStopLast' THEN StopRear(mStop, mRear, mFront') ELSE mRear
    IN  IF sShutdown
        THEN sUnreleased' = 0 /\ UNCHANGED <<mFront, sFlush, sShutdown>>
        ELSE /\ FlushNow
             /\ sShutdown' = ~InPipe(Diff(rear, mFront'))
             /\ sUnreleased' = IF sShutdown' THEN 0 ELSE sUnreleased

\* Track::start() of a track that is already active, and of one that is not.
TrackStart ==
    /\ sStopLast' = mStop
    /\ active' = TRUE
    /\ IF active THEN UNCHANGED <<mFront, sFlush, sShutdown, sUnreleased>>
                 ELSE AckFlush
    /\ UNCHANGED sHeld

\* Track::start() when addTrack_l() does not add the track, because the audio
\* policy refuses it: the stop position stays, and a flush is carried out all the same.
TrackRefused ==
    /\ ~active
    /\ UNCHANGED <<sStopLast, active, sHeld>>
    /\ AckFlush

-------------------------------------------------------------------------------
(* The client.                                                             *)

\* The comparisons of mStop with mStopLast and of mFlush with the server's copy
\* are for equality, and their counters wrap: the server is taken to look at the
\* track before the client has stopped or flushed it IntMod/Span times.
NoAlias(old, seen) == Mark(old) # seen

\* With Prompt, an obtainBuffer() of the mixer thread that was running when the
\* client stopped or flushed the track has ended when the client next starts the
\* track or releases frames.  In between lie a binder call that takes the
\* thread's mLock on one side and a few loads of a real-time thread on the other.
NotLate == Prompt => ~late

\* Faulty variant: the frames up to the end of the storage are not counted.
ClientObtainAcross(ask) ==
    LET filled == Diff(mRear, mFront)
    IN  /\ ~cShutdown
        /\ cUnreleased' = IF InPipe(filled) /\ cSize > filled
                          THEN Least(cSize - filled, ask) ELSE 0
        /\ cShutdown' = ~InPipe(filled)
        /\ UNCHANGED <<cblk, cState, cPc, cSize, track, proxy, call, late, marks>>

\* ClientProxy::obtainBuffer() when it does not wait; it may be called at any
\* time, also while another thread of the client flushes or stops the track.
ClientObtain(ask) ==
    LET filled == Diff(mRear, mFront)
    IN  /\ ~cShutdown
        /\ cUnreleased' = IF InPipe(filled) /\ cSize > filled
                          THEN Chunk(mRear, cSize - filled, ask) ELSE 0
        /\ cShutdown' = ~InPipe(filled)
        /\ UNCHANGED <<cblk, cState, cPc, cSize, track, proxy, call, late, marks>>

\* obtainBuffer() when it fails: the track is invalid or disabled, or the call is
\* interrupted, does not wait or has waited long enough.
ClientObtainFails ==
    /\ cUnreleased' = 0
    /\ UNCHANGED <<cblk, cState, cPc, cShutdown, cSize, track, proxy, call, late, marks>>

\* AudioTrack::releaseBuffer() advances mRear and then calls restartIfDisabled().
ClientRelease(n) ==
    /\ cPc = "idle" /\ ~cShutdown /\ NotLate
    /\ n <= cUnreleased
    /\ mRear' = Plus(mRear, n)
    /\ cUnreleased' = cUnreleased - n
    /\ cPc' = "restart"
    /\ UNCHANGED <<mFront, mStop, mFlush, cState, cShutdown, cSize, track, proxy, call, late, marks>>

\* restartIfDisabled(), also called by obtainBuffer() when it sees CBLK_DISABLED.
ClientRestart ==
    /\ cPc = "restart" \/ (cPc = "idle" /\ disabled)
    /\ cPc' = "idle"
    /\ disabled' = FALSE
    /\ IF disabled /\ cState = "ACTIVE" THEN TrackStart \/ TrackRefused
                                        ELSE UNCHANGED <<mFront, active, proxy>>
    /\ UNCHANGED <<mRear, mStop, mFlush, cState, cUnreleased, cShutdown, cSize, call, late, marks>>

ClientStart ==
    /\ cPc = "idle" /\ cState # "ACTIVE" /\ NotLate
    /\ cState' = "ACTIVE"
    /\ disabled' = FALSE
    /\ TrackStart
    /\ UNCHANGED <<mRear, mStop, mFlush, cPc, cUnreleased, cShutdown, cSize, call, late, marks>>

\* start() fails, and restores mState.
ClientStartRefused ==
    /\ cPc = "idle" /\ cState # "ACTIVE"
    /\ disabled' = FALSE
    /\ TrackRefused
    /\ UNCHANGED <<mRear, mStop, mFlush, cState, cPc, cUnreleased, cShutdown, cSize, call,
                   late, marks>>

ClientPause ==
    /\ cPc = "idle" /\ cState = "ACTIVE"
    /\ cState' = "PAUSED"
    /\ UNCHANGED <<cblk, cPc, cUnreleased, cShutdown, cSize, track, proxy, call, late, marks>>

ClientStop ==
    /\ cPc = "idle" /\ cState \in {"ACTIVE", "PAUSED"} /\ NoAlias(mStop, sStopLast)
    /\ cState' = "STOPPED"
    /\ mStop' = Mark(mStop)
    /\ marks < MaxMarks /\ marks' = marks + 1
    /\ late' = (sPc # "idle")
    /\ UNCHANGED <<mFront, mRear, mFlush, cPc, cUnreleased, cShutdown, cSize,
                   track, proxy, call>>

\* Faulty variant: a flush leaves the stop position where it is.
ClientFlushStopKept ==
    /\ cPc = "idle" /\ cState # "ACTIVE"
    /\ NoAlias(mStop, sStopLast) /\ NoAlias(mFlush, sFlush)
    /\ cState' = "FLUSHED" /\ cPc' = "stop"
    /\ marks < MaxMarks /\ marks' = marks + 1
    /\ late' = (sPc # "idle")
    /\ UNCHANGED <<cblk, cUnreleased, cShutdown, cSize, track, proxy, call>>

\* A flush first advances the stop position ...
ClientFlushStop ==
    /\ cPc = "idle" /\ cState # "ACTIVE"
    /\ NoAlias(mStop, sStopLast) /\ NoAlias(mFlush, sFlush)
    /\ cState' = "FLUSHED" /\ cPc' = "stop"
    /\ mStop' = Mark(mStop)
    /\ marks < MaxMarks /\ marks' = marks + 1
    /\ late' = (sPc # "idle")
    /\ UNCHANGED <<mFront, mRear, mFlush, cUnreleased, cShutdown, cSize,
                   track, proxy, call>>

\* ... then the flush position ...
ClientFlushFlush ==
    /\ cPc = "stop"
    /\ cPc' = "flush"
    /\ mFlush' = Mark(mFlush)
    /\ late' = (sPc # "idle")
    /\ UNCHANGED <<mFront, mRear, mStop, cState, cUnreleased, cShutdown, cSize,
                   track, proxy, call, marks>>

\* ... and then tells the track, which flushes now if it is not active.
ClientFlushTrack ==
    /\ cPc = "flush"
    /\ cPc' = "idle"
    /\ IF active THEN UNCHANGED <<mFront, sFlush>> ELSE FlushNow
    /\ UNCHANGED <<mRear, mStop, mFlush, cState, cUnreleased, cShutdown, cSize, track,
                   sStopLast, sUnreleased, sShutdown, sHeld, call, late, marks>>

\* setBufferSizeInFrames().
ClientSetSize(size) ==
    /\ cSize' = IF FrameCount < Minimum \/ size > FrameCount THEN FrameCount
                ELSE IF size < Minimum THEN Minimum ELSE size
    /\ UNCHANGED <<cblk, cState, cPc, cUnreleased, cShutdown, track, proxy, call, late, marks>>

-------------------------------------------------------------------------------
(* The mixer thread.                                                       *)

\* The server proxy's operation ends: it returns to the mixer.
Return ==
    /\ sOp' = "none" /\ sPc' = "idle" /\ late' = FALSE
    /\ lFlush' = 0 /\ lStop' = 0 /\ lRear' = 0

\* flushBufferIfNeeded(), framesReady() and obtainBuffer() first load mFlush.  The
\* mixer asks for a buffer after it has released the one before.
ServerCall(op) ==
    /\ sPc = "idle" /\ active /\ (sShutdown => op = "flush")
    /\ (op # "ready" => sHeld = 0)
    /\ IF mFlush # sFlush /\ op # "ready"
       THEN /\ sOp' = op /\ sPc' = "flush" /\ lFlush' = mFlush
            /\ UNCHANGED <<lStop, lRear, late>>
       ELSE IF mFlush # sFlush \/ op = "flush" THEN Return
       ELSE sOp' = op /\ sPc' = "stop" /\ UNCHANGED <<lFlush, lStop, lRear, late>>
    /\ UNCHANGED <<cblk, client, track, proxy, marks>>

ServerFlushRear ==
    /\ sPc = "flush"
    /\ lRear' = mRear
    /\ sPc' = "front"
    /\ UNCHANGED <<cblk, client, track, proxy, sOp, lFlush, lStop, late, marks>>

\* Faulty variant: the server's copy is taken from the control block again.
ServerFlushFrontReload ==
    /\ sPc = "front"
    /\ mFront' = FlushFront(mFront, lRear, lFlush)
    /\ sFlush' = mFlush
    /\ IF sOp = "flush" THEN Return
       ELSE sPc' = "stop" /\ lFlush' = 0 /\ lRear' = 0 /\ UNCHANGED <<sOp, lStop, late>>
    /\ UNCHANGED <<mRear, mStop, mFlush, client, track,
                   sStopLast, sUnreleased, sShutdown, sHeld, marks>>

ServerFlushFront ==
    /\ sPc = "front"
    /\ mFront' = FlushFront(mFront, lRear, lFlush)
    /\ sFlush' = lFlush
    /\ IF sOp = "flush" THEN Return
       ELSE sPc' = "stop" /\ lFlush' = 0 /\ lRear' = 0 /\ UNCHANGED <<sOp, lStop, late>>
    /\ UNCHANGED <<mRear, mStop, mFlush, client, track,
                   sStopLast, sUnreleased, sShutdown, sHeld, marks>>

\* getRear() loads mStop, then mRear, then mStopLast.
ServerStop ==
    /\ sPc = "stop"
    /\ lStop' = mStop
    /\ sPc' = "rear"
    /\ UNCHANGED <<cblk, client, track, proxy, sOp, lFlush, lRear, late, marks>>

ServerRear ==
    /\ sPc = "rear"
    /\ lRear' = mRear
    /\ sPc' = "last"
    /\ UNCHANGED <<cblk, client, track, proxy, sOp, lFlush, lStop, late, marks>>

\* The frames that framesReady() and obtainBuffer() find.
Ready ==
    Diff(IF lStop # sStopLast THEN StopRear(lStop, lRear, mFront) ELSE lRear, mFront)

ServerReady ==
    /\ sPc = "last" /\ sOp = "ready"
    /\ sShutdown' = ~InPipe(Ready)
    /\ Return
    /\ UNCHANGED <<cblk, client, track, sFlush, sStopLast, sUnreleased, sHeld, marks>>

ServerObtain(ask) ==
    /\ sPc = "last" /\ sOp = "obtain"
    /\ sShutdown' = ~InPipe(Ready)
    /\ sUnreleased' = IF sShutdown' THEN 0 ELSE Chunk(mFront, Ready, ask)
    /\ sHeld' = sUnreleased'
    /\ Return
    /\ UNCHANGED <<cblk, client, track, sFlush, sStopLast, marks>>

\* Faulty variant: the buffer can be released again.
ServerReleaseReuse(n) ==
    /\ sPc = "idle" /\ n <= sHeld /\ ~sShutdown
    /\ mFront' = Plus(mFront, n)
    /\ sUnreleased' = sUnreleased - n
    /\ UNCHANGED <<mRear, mStop, mFlush, client, track, sFlush, sStopLast, sShutdown,
                   sHeld, call, late, marks>>

\* ServerProxy::releaseBuffer(), which ends the mixer's use of the buffer.
ServerRelease(n) ==
    /\ sPc = "idle" /\ n <= sHeld /\ ~sShutdown
    /\ mFront' = Plus(mFront, n)
    /\ sUnreleased' = sUnreleased - n
    /\ sHeld' = 0
    /\ UNCHANGED <<mRear, mStop, mFlush, client, track, sFlush, sStopLast, sShutdown,
                   call, late, marks>>

\* prepareTracks_l() removes the track from the active list, between two mixes:
\* it is paused, stopped or flushed, or it has no data and is disabled.
Deactivate ==
    /\ sPc = "idle" /\ active /\ (sHeld = 0 \/ sShutdown)
    /\ active' = FALSE
    /\ disabled' = (disabled \/ cState = "ACTIVE")
    /\ sHeld' = 0
    /\ UNCHANGED <<cblk, client, sFlush, sStopLast, sUnreleased, sShutdown, call, late, marks>>

-------------------------------------------------------------------------------
ClientNext ==
    \/ (\E ask \in Asks : ClientObtain(ask)) \/ ClientObtainFails
    \/ \E n \in 1..FrameCount : ClientRelease(n)
    \/ ClientRestart
    \/ ClientStart \/ ClientStartRefused \/ ClientPause \/ ClientStop
    \/ ClientFlushStop \/ ClientFlushFlush \/ ClientFlushTrack
    \/ \E size \in Sizes : ClientSetSize(size)

ServerNext ==
    \/ \E op \in {"flush", "ready", "obtain"} : ServerCall(op)
    \/ ServerFlushRear \/ ServerFlushFront
    \/ ServerStop \/ ServerRear \/ ServerReady
    \/ \E ask \in Asks : ServerObtain(ask)
    \/ \E n \in 1..FrameCount : ServerRelease(n)
    \/ Deactivate

Next == ClientNext \/ ServerNext

Spec == Init /\ [][Next]_vars

-------------------------------------------------------------------------------
(* What should be true.                                                    *)

\* Every variable has its type: the positions and marks, the client, the server and
\* the flags.
PositionTypes ==
    {mFront, mRear, mStop, mFlush, sFlush, sStopLast, lFlush, lStop, lRear}
        \subseteq 0..(IntMod - 1)
ClientTypes ==
    /\ cState \in {"STOPPED", "ACTIVE", "PAUSED", "FLUSHED"}
    /\ cPc \in {"idle", "stop", "flush", "restart"}
    /\ cUnreleased \in 0..FrameCount /\ cSize \in 1..FrameCount
ServerTypes ==
    /\ {sUnreleased, sHeld} \subseteq 0..FrameCount
    /\ sOp \in {"none", "flush", "ready", "obtain"}
    /\ sPc \in {"idle", "flush", "front", "stop", "rear", "last"}
FlagTypes == {cShutdown, sShutdown, active, disabled, late} \subseteq BOOLEAN
TypeOK == PositionTypes /\ ClientTypes /\ ServerTypes /\ FlagTypes

\* "pipe should not be overfull" (obtainBuffer() of either side): mRear is never
\* behind mFront nor more than mFrameCount ahead of it, and neither side shuts down.
PipeNotOverfull == InPipe(Diff(mRear, mFront)) /\ ~cShutdown /\ ~sShutdown

\* The storage that n frames from position p occupy.
Slots(p, n) == {Plus(p, i) % P2 : i \in 0..(n - 1)}

\* The frames the client is filling are contiguous and none of them is one that
\* the mixer is reading or has still to read; every variable has its type.
RegionsDisjoint ==
    /\ TypeOK
    /\ (mRear % P2) + cUnreleased <= P2
    /\ (mFront % P2) + sHeld <= P2
    /\ Slots(mRear, cUnreleased) \cap Slots(mFront, Diff(mRear, mFront)) = {}
    /\ Slots(mFront, sHeld) \subseteq Slots(mFront, Diff(mRear, mFront))

\* The distance from mFront to the position that mark, an mStop or mFlush, holds.
Ahead(mark) == (Low(mark) - Low(mFront)) % Span

\* "the server will not read past this point until start() or subsequent flush()"
\* (sendStreamingFlushStop()): as long as the track is stopped the mixer holds no
\* frame beyond the stop position, and the position itself stays in the pipe.
StopHonoured ==
    mStop # sStopLast => sHeld <= Ahead(mStop) /\ Ahead(mStop) <= Diff(mRear, mFront)

\* "This works for mFrameCountP2 <= 2^30" (sendStreamingFlushStop()): what the
\* server makes of mFlush, when it comes to it, is the position the client flushed
\* at, although mFlush holds the low bits only and mFront and mRear may be on
\* different sides of a multiple of Span.
FlushExact ==
    sPc = "front" => FlushFront(mFront, lRear, lFlush) = Plus(mFront, Ahead(lFlush))

\* The control block is a FIFO with flush: a flush throws away the frames written
\* before it and not yet mixed, and none of those written after it.
Fifo == INSTANCE FlushableFifo WITH
    Capacity <- FrameCount,
    filled   <- Diff(mRear, mFront),
    doomed   <- IF mFlush = sFlush THEN 0 ELSE Ahead(mFlush),
    writing  <- cUnreleased,
    reading  <- sHeld

ImplementsFifo == Fifo!Spec

===============================================================================
