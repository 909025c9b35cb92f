------------------------------ MODULE StaticTrack ------------------------------
(***************************************************************************)
(* The control block of a static AudioTrack, whose frames are all in       *)
(* shared memory from the start: StaticAudioTrackClientProxy and           *)
(* StaticAudioTrackServerProxy (media/libaudioclient/AudioTrackShared.cpp) *)
(* under the argument checks of AudioTrack.                                *)
(*                                                                         *)
(* Each side writes one SingleStateQueue and reads the other.  By          *)
(* SingleStateQueueProofs!Refinement such a queue is an AtomicCell, so     *)
(* here a push and a successful poll are single steps; a poll may also     *)
(* fail.  The client holds AudioTrack::mLock and the server proxy is used  *)
(* by one thread, so the two are the only actors.                          *)
(***************************************************************************)
EXTENDS Integers

CONSTANTS FrameCount,  \* mFrameCount
          MinLoop,     \* MIN_LOOP
          SeqMod,      \* 2^32: mLoopSequence and mPositionSequence are uint32_t
          Loops,       \* arguments of setLoop()
          Positions,   \* arguments of setBufferPosition()
          Asks,        \* the buffer sizes the mixer asks for
          MaxRequests  \* bound on the number of requests

Forever == -1          \* a loop count of -1, and INT64_MAX frames

\* AudioTrack::setLoop() and AudioTrack::setPosition() refuse anything else.
ASSUME LoopsAssumption ==
    /\ Loops \subseteq [start : Nat, end : Nat, count : Nat \cup {Forever}]
    /\ \A loop \in Loops :
           loop.count # 0 => /\ loop.start < loop.end /\ loop.end <= FrameCount
                             /\ loop.end - loop.start >= MinLoop
ASSUME PositionsAssumption == Positions \subseteq 0..FrameCount
ASSUME StaticAssumption ==
    /\ FrameCount \in Nat \ {0} /\ MinLoop \in Nat \ {0} /\ Asks \subseteq Nat \ {0}
    /\ SeqMod \in Nat /\ SeqMod > 4 /\ SeqMod % 2 = 0
    /\ MaxRequests \in Nat

VARIABLES
  cState, cPosLoop,  \* mState and mPosLoop of the client proxy
  cPc, cGet,         \* where the client is, and whether it only reads the position
  cTag,              \* history: the sequences cPosLoop is from, if from the server
  qState,            \* mSingleStateQueue: the state the client pushed last,
  qFresh, qDone,     \*   and whether the server has not polled it, or is done with it
  pPosLoop, pFresh,  \* mPosLoopQueue: the position the server pushed last, not yet polled
  pTag,              \* history: the sequences pPosLoop is from
  sState, sReady,    \* mState and mFramesReady of the server proxy
  sUnreleased,       \* mUnreleased
  sShutdown,         \* mIsShutdown
  sHeld,             \* frames in the buffer the mixer is reading
  sPc, sOp,          \* where the server is, and in which operation
  sUpdate,           \* the state that pollPosition() polled
  requests           \* history: number of calls of setLoop() and setBufferPosition()

client == <<cState, cPosLoop, cPc, cGet, cTag>>
stateQ == <<qState, qFresh, qDone>>
posQ   == <<pPosLoop, pFresh, pTag>>
proxy  == <<sState, sReady, sUnreleased, sShutdown, sHeld>>
call   == <<sPc, sOp, sUpdate>>
vars   == <<client, stateQ, posQ, proxy, call, requests>>

ZeroState == [start |-> 0, end |-> 0, count |-> 0, loopSeq |-> 0,
              position |-> 0, posSeq |-> 0, last |-> "none"]
ZeroPosLoop == [position |-> 0, count |-> 0]

Init ==
    /\ cState = ZeroState /\ cPosLoop = ZeroPosLoop
    /\ cPc = "idle" /\ cGet = FALSE /\ cTag = <<0, 0>>
    /\ qState = ZeroState /\ qFresh = FALSE /\ qDone = FALSE
    /\ pPosLoop = ZeroPosLoop /\ pFresh = FALSE /\ pTag = <<0, 0>>
    /\ sState = ZeroState /\ sReady = FrameCount /\ sUnreleased = 0
    /\ sShutdown = FALSE /\ sHeld = 0
    /\ sPc = "idle" /\ sOp = "none" /\ sUpdate = ZeroState
    /\ requests = 0

-------------------------------------------------------------------------------
(* Sequence counters.                                                      *)

\* a - b as int32_t.
SeqDiff(a, b) ==
    LET d == a - b
    IN  IF 2 * d >= SeqMod THEN d - SeqMod
        ELSE IF 2 * d < -SeqMod THEN d + SeqMod ELSE d

SeqNext(s) == IF s + 1 = SeqMod THEN 0 ELSE s + 1

incrementSequence(self, other) ==
    LET diff == SeqDiff(self, other)
    IN  IF 0 <= diff /\ diff < (SeqMod \div 2) - 1 THEN SeqNext(self) ELSE SeqNext(other)

\* The two sequences that tell a server's state from the ones before it.
Seqs(state) == <<state.loopSeq, state.posSeq>>

-------------------------------------------------------------------------------
(* The client.                                                             *)

\* The server compares sequences for equality, and is taken to poll before the
\* client has changed the loop or the position 2^31 times in between.
NoAlias(state) ==
    /\ state.last = "loop" => state.loopSeq # sState.loopSeq
    /\ state.last = "position" => state.posSeq # sState.posSeq

\* setLoop() up to its call of getBufferPositionAndLoopCount().
SetLoop(loop) ==
    /\ cPc = "idle"
    /\ requests < MaxRequests /\ requests' = requests + 1
    /\ cState' = [cState EXCEPT !.start = loop.start, !.end = loop.end, !.count = loop.count,
                                !.loopSeq = incrementSequence(cState.loopSeq, cState.posSeq),
                                !.last = "loop"]
    /\ NoAlias(cState')
    /\ cPc' = "ack"
    /\ UNCHANGED <<cPosLoop, cGet, cTag, stateQ, posQ, proxy, call>>

\* setBufferPosition() up to its call of getBufferPositionAndLoopCount(), if any.
SetBufferPosition(position) ==
    /\ cPc = "idle"
    /\ requests < MaxRequests /\ requests' = requests + 1
    /\ cState' = [cState EXCEPT !.position = position,
                                !.posSeq = incrementSequence(cState.posSeq, cState.loopSeq),
                                !.last = "position"]
    /\ NoAlias(cState')
    /\ cPc' = IF cState.count > 0 THEN "ack" ELSE "push"
    /\ UNCHANGED <<cPosLoop, cGet, cTag, stateQ, posQ, proxy, call>>

\* getBufferPosition(), of AudioTrack's and of the callback thread's.
GetBufferPosition ==
    /\ cPc = "idle"
    /\ cPc' = "ack" /\ cGet' = TRUE
    /\ UNCHANGED <<cState, cPosLoop, cTag, stateQ, posQ, proxy, call, requests>>

\* After the position is read, or not, the call returns or goes on to push.
Proceed(poll) ==
    /\ cPc' = IF poll THEN "poll" ELSE IF cGet THEN "idle" ELSE "push"
    /\ cGet' = (cGet /\ poll)

\* Faulty variant: it is enough that the server has read the last push.
AckRead ==
    /\ cPc = "ack"
    /\ Proceed(~qFresh)
    /\ UNCHANGED <<cState, cPosLoop, cTag, stateQ, posQ, proxy, call, requests>>

\* getBufferPositionAndLoopCount() asks whether the server is done with the last push ...
Ack ==
    /\ cPc = "ack"
    /\ Proceed(~qFresh /\ qDone)
    /\ UNCHANGED <<cState, cPosLoop, cTag, stateQ, posQ, proxy, call, requests>>

\* ... and then takes the position from the server, unless poll() fails.
PollPosLoop ==
    /\ cPc = "poll"
    /\ Proceed(FALSE)
    /\ \/ pFresh /\ cPosLoop' = pPosLoop /\ cTag' = pTag /\ pFresh' = FALSE
       \/ UNCHANGED <<cPosLoop, cTag, pFresh>>
    /\ UNCHANGED <<cState, stateQ, pPosLoop, pTag, proxy, call, requests>>

\* The rest of setLoop() and setBufferPosition(): what the client itself will
\* see until the server is done, and the push.
Push ==
    /\ cPc = "push"
    /\ cPosLoop' =
         IF cState.last = "loop"
         THEN [position |-> IF cState.count # 0 /\ cPosLoop.position >= cState.end
                            THEN cState.start ELSE cPosLoop.position,
               count    |-> cState.count]
         ELSE [position |-> cState.position,
               count    |-> IF cState.position >= cState.end THEN 0 ELSE cPosLoop.count]
    /\ cTag' = <<>>
    /\ qState' = cState /\ qFresh' = TRUE /\ qDone' = FALSE
    /\ cPc' = "idle"
    /\ UNCHANGED <<cState, cGet, posQ, proxy, call, requests>>

-------------------------------------------------------------------------------
(* The server.                                                             *)

ValidLoop(update) ==
    update.count # 0 => /\ update.start < update.end /\ update.end <= FrameCount
                        /\ update.end - update.start >= MinLoop

updateStateWithLoop(state, update) ==
    IF state.loopSeq = update.loopSeq THEN state
    ELSE [state EXCEPT !.start = update.start, !.end = update.end,
                       !.count = update.count, !.loopSeq = update.loopSeq,
                       !.position = IF update.count # 0 /\ state.position >= update.end
                                    THEN update.start ELSE state.position]

updateStateWithPosition(state, update) ==
    IF state.posSeq = update.posSeq THEN state
    ELSE [state EXCEPT !.position = update.position, !.posSeq = update.posSeq,
                       !.count = IF update.position >= state.end THEN 0 ELSE state.count]

\* Faulty variant: the position is always applied after the loop.
UpdatedLoopFirst(state, update) ==
    updateStateWithPosition(updateStateWithLoop(state, update), update)

\* The order of the two updates is the order of their sequences.
Updated(state, update) ==
    IF SeqDiff(update.loopSeq, update.posSeq) < 0
    THEN updateStateWithPosition(updateStateWithLoop(state, update), update)
    ELSE updateStateWithLoop(updateStateWithPosition(state, update), update)

\* Faulty variant: a loop of the least length is refused.
AcceptableLong(state, update) ==
    /\ state.loopSeq # update.loopSeq =>
           ValidLoop(update) /\ (update.count # 0 => update.end - update.start > MinLoop)
    /\ state.posSeq # update.posSeq => update.position <= FrameCount

Acceptable(state, update) ==
    /\ state.loopSeq # update.loopSeq => ValidLoop(update)
    /\ state.posSeq # update.posSeq => update.position <= FrameCount

\* The frames that are still to be played from a state.
Remaining(state) ==
    IF state.count = Forever THEN Forever
    ELSE state.count * (state.end - state.start) + FrameCount - state.position

\* pollPosition() polls the client's state and, if it makes sense, adopts it; op
\* is "ready" for framesReady() and for obtainBuffer(_, true), else "obtain".
PollPosition(op) ==
    /\ sPc = "idle" /\ sHeld = 0 /\ (op = "obtain" => ~sShutdown)
    /\ qFresh
    /\ qFresh' = FALSE /\ qDone' = FALSE
    /\ sOp' = op /\ sUpdate' = qState
    /\ IF Acceptable(sState, qState)
       THEN /\ sState' = [Updated(sState, qState) EXCEPT !.last = "none"]
            /\ sReady' = Remaining(sState')
            /\ sPc' = "posloop"
       ELSE UNCHANGED <<sState, sReady>> /\ sPc' = "reject"
    /\ UNCHANGED <<client, qState, posQ, sUnreleased, sShutdown, sHeld, requests>>

\* obtainBuffer() when poll() returns false.
PollNothing ==
    /\ sPc = "idle" /\ sHeld = 0 /\ ~sShutdown
    /\ sOp' = "obtain" /\ sPc' = "take"
    /\ UNCHANGED <<client, stateQ, posQ, proxy, sUpdate, requests>>

\* The server tells the client where it is.
PushPosLoop ==
    /\ sPc = "posloop"
    /\ pPosLoop' = [position |-> sState.position, count |-> sState.count]
    /\ pTag' = Seqs(sState)
    /\ pFresh' = TRUE
    /\ sPc' = "done" /\ sUpdate' = ZeroState
    /\ UNCHANGED <<client, stateQ, proxy, sOp, requests>>

\* done(), after which a state that was not adopted shuts the proxy down.
Done ==
    /\ sPc \in {"done", "reject"}
    /\ qDone' = TRUE
    /\ sShutdown' = (sShutdown \/ sPc = "reject")
    /\ sUnreleased' = IF sPc = "reject" /\ sOp = "obtain" THEN 0 ELSE sUnreleased
    /\ sUpdate' = ZeroState
    /\ IF sPc = "done" /\ sOp = "obtain" THEN sPc' = "take" /\ UNCHANGED sOp
                                         ELSE sPc' = "idle" /\ sOp' = "none"
    /\ UNCHANGED <<client, qState, qFresh, posQ, sState, sReady, sHeld, requests>>

\* The contiguous frames from the current position.
Contiguous ==
    LET end == IF sState.count # 0 THEN sState.end ELSE FrameCount
    IN  IF sState.position < end THEN end - sState.position ELSE 0

\* Faulty variant: the mixer gets as much as it asks for.
TakeAsked(ask) ==
    /\ sPc = "take"
    /\ sUnreleased' = ask
    /\ sHeld' = sUnreleased'
    /\ sPc' = "idle" /\ sOp' = "none"
    /\ UNCHANGED <<client, stateQ, posQ, sState, sReady, sShutdown, sUpdate, requests>>

\* The rest of obtainBuffer().
Take(ask) ==
    /\ sPc = "take"
    /\ sUnreleased' = IF Contiguous < ask THEN Contiguous ELSE ask
    /\ sHeld' = sUnreleased'
    /\ sPc' = "idle" /\ sOp' = "none"
    /\ UNCHANGED <<client, stateQ, posQ, sState, sReady, sShutdown, sUpdate, requests>>

\* The state n frames later; at the end of a loop it goes back to its start.
Advanced(n) ==
    LET next    == sState.position + n
        beyond  == next > FrameCount
        looping == ~beyond /\ sState.count # 0 /\ next = sState.end
    IN  [sState EXCEPT !.position = IF looping THEN sState.start
                                    ELSE IF beyond THEN FrameCount ELSE next,
                       !.count = IF looping /\ sState.count # Forever THEN sState.count - 1
                                 ELSE sState.count]

\* releaseBuffer().  The events it raises at the end (CBLK_LOOP_CYCLE, CBLK_LOOP_FINAL
\* and CBLK_BUFFER_END) are for the application, and neither proxy reads them.
Release(n) ==
    /\ sPc = "idle" /\ sHeld > 0 /\ n <= sHeld
    /\ sHeld' = 0
    /\ IF n = 0 THEN UNCHANGED <<sUnreleased, sState, sReady, posQ>>
       ELSE /\ sUnreleased' = sUnreleased - n
            /\ sState' = Advanced(n)
            /\ sReady' = IF sReady = Forever THEN Forever ELSE sReady - n
            /\ pPosLoop' = [position |-> sState'.position, count |-> sState'.count]
            /\ pTag' = Seqs(sState)
            /\ pFresh' = TRUE
    /\ UNCHANGED <<client, stateQ, sShutdown, call, requests>>

-------------------------------------------------------------------------------
ClientNext ==
    \/ \E loop \in Loops : SetLoop(loop)
    \/ \E position \in Positions : SetBufferPosition(position)
    \/ GetBufferPosition \/ Ack \/ PollPosLoop \/ Push

ServerNext ==
    \/ \E op \in {"ready", "obtain"} : PollPosition(op)
    \/ PollNothing \/ PushPosLoop \/ Done
    \/ \E ask \in Asks : Take(ask)
    \/ \E n \in 0..FrameCount : Release(n)

Next == ClientNext \/ ServerNext

Spec == Init /\ [][Next]_vars

-------------------------------------------------------------------------------
(* What should be true.                                                    *)

SeqNo == 0..(SeqMod - 1)
States == [start : Nat, end : Nat, count : Nat \cup {Forever}, loopSeq : SeqNo,
           position : 0..FrameCount, posSeq : SeqNo, last : {"none", "loop", "position"}]
PosLoops == [position : 0..FrameCount, count : Nat \cup {Forever}]

\* Every variable has its type.
TypeOK ==
    /\ cState \in States /\ qState \in States /\ sState \in States /\ sUpdate \in States
    /\ cPosLoop \in PosLoops /\ pPosLoop \in PosLoops
    /\ cPc \in {"idle", "ack", "poll", "push"}
    /\ sPc \in {"idle", "posloop", "reject", "done", "take"}
    /\ {cGet, qFresh, qDone, pFresh, sShutdown} \subseteq BOOLEAN
    /\ sReady \in Nat \cup {Forever}
    /\ {sUnreleased, sHeld} \subseteq 0..FrameCount

\* "client pushed an invalid state, shutting down" (pollPosition()) never happens:
\* whatever the client pushes, and however its pushes overwrite each other, the
\* checks of AudioTrack::setLoop() and setPosition() imply those of the server.
NeverRejected == sPc # "reject" /\ ~sShutdown

\* "mFramesReady is the total remaining frames in the static audio track, it is
\* always larger or equal to avail" (obtainBuffer()): the count that releaseBuffer()
\* keeps agrees with what the state has still to play, over loops and seeks, and no
\* LOG_ALWAYS_FATAL_IF of obtainBuffer() or releaseBuffer() fires.
ReadyIsRemaining ==
    /\ sReady = Remaining(sState)
    /\ sReady # Forever => Contiguous <= sReady /\ sHeld <= sReady
    /\ sHeld <= Contiguous /\ sHeld <= sUnreleased

\* "The sequence counter also currently indicates whether loop or position is
\* first" (AudioTrackShared.h): the server carries out the last of the two requests
\* as if it came last, also when one poll brings both and after the counters wrap.
LastRequestWins ==
    sPc = "posloop" =>
        /\ sState.count # 0 => sState.position < sState.end
        /\ sUpdate.last = "position" => sState.position = sUpdate.position
        /\ sUpdate.last = "loop" =>
               <<sState.start, sState.end, sState.count>> =
               <<sUpdate.start, sUpdate.end, sUpdate.count>>

\* "observed buffer position and loop count will freeze until then" (setLoop()): a
\* position the client takes from the server was pushed after the server had
\* adopted everything the client had pushed; it never sees one from before a seek.
NoStalePosition ==
    cPc = "idle" /\ cTag # <<>> => cTag = Seqs(cState)

-------------------------------------------------------------------------------
(* The inductive invariant behind the first four.                          *)

\* A loop that anyone knows of is a valid one, and the server is inside its own.
LoopInv ==
    /\ ValidLoop(cState) /\ ValidLoop(qState) /\ ValidLoop(sState)
    /\ sState.count # 0 => sState.position < sState.end

\* What was pushed is what the client asked for last, except while it is asking.
PushedInv == cPc = "idle" \/ cGet => Seqs(qState) = Seqs(cState)

\* What was polled is adopted, and told the client before the server says that it is done.
ToldInv ==
    /\ ~qFresh => Seqs(sState) = Seqs(qState)
    /\ sPc # "posloop" => pTag = Seqs(sState)
    /\ sPc \in {"posloop", "done"} => ~qDone

\* The client reads the position only while nothing it pushed is open.
ReadInv ==
    /\ cPc = "poll" => ~qFresh /\ qDone
    /\ cGet => cPc \in {"ack", "poll"}
    /\ (cPc = "idle" \/ cGet) /\ cTag # <<>> => cTag = Seqs(cState)

IInv ==
    /\ TypeOK /\ NeverRejected /\ ReadyIsRemaining
    /\ LoopInv /\ PushedInv /\ ToldInv /\ ReadInv

===============================================================================
