---------------------------- MODULE TrackLifeProofs ----------------------------
(***************************************************************************)
(* For any tracks, buffer sizes, latencies and numbers of retries and      *)
(* starts: the audio policy's count of a track is right, the loop meets no *)
(* track in a state it does not expect, and no start undoes a stop.        *)
(***************************************************************************)
EXTENDS TrackLife, TLAPS

USE LifeAssumption

Bit(p) == IF p THEN 1 ELSE 0

\* What the loop has still to tell the policy is empty between its cycles.
LoopInv ==
    /\ tPc = "loop" => tracksToRemove = {}
    /\ tPc # "stopping" => tChecking = {}
    /\ tChecking \cap tracksToRemove = {}

\* A start() that has unlocked belongs to a live track that is not active, and
\* one that was overruled finds the track in another state than it left it in.
CallInv(t) ==
    call[t].pc # "none" =>
        /\ t \notin mActiveTracks /\ handle[t] = "alive"
        /\ call[t].set \in {"ACTIVE", "RESUMING"}
        /\ overruled[t] /\ call[t].pc # "undo" =>
               track[t].mState \notin {"ACTIVE", "RESUMING"}

\* The policy counts a track once for the active list, once for a removal it has
\* not been told of, and once for a start() that is granted and not yet decided.
PolicyInv(t) ==
    policy[t] = Bit(t \in mActiveTracks) + Bit(t \in tracksToRemove)
                + Bit(call[t].pc \in {"granted", "undo"})

\* An active track has a state the loop expects, and retries left.
ActiveInv(t) ==
    t \in mActiveTracks => track[t].mState # "IDLE" /\ track[t].mRetryCount > 0

\* Of a live track nothing is released; of a destroyed one at most two parties
\* hold, or have used, the right to release it.
ReleaseInv(t) ==
    /\ track[t].terminated <=> handle[t] # "alive"
    /\ handle[t] = "alive" => releases[t] = 0
    /\ releases[t] + Bit(handle[t] = "destroying") + Bit(t \in mActiveTracks)
         + Bit(t \in tracksToRemove \cup tChecking) <= 2

TrackInv(t) == CallInv(t) /\ PolicyInv(t) /\ ActiveInv(t) /\ ReleaseInv(t)

IInv == TypeOK /\ LoopInv /\ \A t \in Tracks : TrackInv(t)

LEMMA InitIInv == Init => IInv
  <1> SUFFICES ASSUME Init PROVE IInv
    OBVIOUS
  <1>1. track \in [Tracks -> Fields]
    <2>1. [mState |-> "IDLE", fill |-> "FILLING", mResetDone |-> FALSE, left |-> Unset,
           mRetryCount |-> MaxRetries, terminated |-> FALSE] \in Fields
      BY DEF Fields, States, Unset
    <2> QED BY <2>1 DEF Init
  <1>2. call \in [Tracks -> Calls]
    BY DEF Init, Calls, NoCall, States
  <1>3. TypeOK
    <2>1. /\ frames \in [Tracks -> 0..Full] /\ unheard \in [Tracks -> 0..Latency]
          /\ recent \in [Tracks -> SUBSET {"full", "empty"}]
          /\ policy \in [Tracks -> 0..2] /\ releases \in [Tracks -> 0..2]
          /\ handle \in [Tracks -> {"alive", "destroying", "destroyed"}]
          /\ overruled \in [Tracks -> BOOLEAN]
      BY DEF Init
    <2>2. Fast \subseteq Tracks /\ starts \in 0..MaxStarts
      BY DEF Init
    <2> QED BY <1>1, <1>2, <2>1, <2>2 DEF Init, TypeOK
  <1>4. LoopInv
    BY DEF Init, LoopInv
  <1>5. ASSUME NEW t \in Tracks PROVE TrackInv(t)
    <2>1. /\ call[t].pc = "none" /\ policy[t] = 0 /\ releases[t] = 0
          /\ ~track[t].terminated /\ handle[t] = "alive"
      BY DEF Init, NoCall
    <2> QED BY <2>1 DEF Init, TrackInv, CallInv, PolicyInv, ActiveInv, ReleaseInv, Bit
  <1> QED BY <1>3, <1>4, <1>5 DEF IInv

-------------------------------------------------------------------------------
(* What a step leaves alone.                                               *)

\* A track of which a step changes nothing that matters keeps its invariant.
LEMMA Frame ==
    ASSUME NEW u \in Tracks, TrackInv(u),
           track'[u].mState = track[u].mState,
           track'[u].mRetryCount = track[u].mRetryCount,
           track'[u].terminated = track[u].terminated,
           call'[u] = call[u], handle'[u] = handle[u], overruled'[u] = overruled[u],
           policy'[u] = policy[u], releases'[u] = releases[u],
           u \in mActiveTracks' <=> u \in mActiveTracks,
           u \in tracksToRemove' <=> u \in tracksToRemove,
           u \in tChecking' <=> u \in tChecking
    PROVE  TrackInv(u)'
  BY DEF TrackInv, CallInv, PolicyInv, ActiveInv, ReleaseInv, Bit

-------------------------------------------------------------------------------
(* Binder threads.                                                         *)

LEMMA StartIInv == ASSUME NEW t \in Tracks, IInv, Start(t) PROVE IInv'
  <1> DEFINE prior == track[t].mState
             new == IF prior \in {"PAUSED", "PAUSING"} THEN "RESUMING" ELSE "ACTIVE"
  <1>1. /\ TypeOK /\ LoopInv /\ TrackInv(t)
        /\ track \in [Tracks -> Fields] /\ call \in [Tracks -> Calls]
        /\ recent \in [Tracks -> SUBSET {"full", "empty"}]
        /\ overruled \in [Tracks -> BOOLEAN]
    BY DEF IInv, TypeOK
  <1>2. new \in {"ACTIVE", "RESUMING"} /\ prior \in States /\ new \in States
    BY <1>1 DEF Fields, States
  <1>3. /\ track' = [track EXCEPT ![t].mState = new]
        /\ overruled' = [overruled EXCEPT ![t] = FALSE]
        /\ \/ t \in mActiveTracks /\ call' = call
           \/ /\ t \notin mActiveTracks
              /\ call' = [call EXCEPT ![t] = [pc |-> "asking", prior |-> prior, set |-> new]]
    BY DEF Start
  <1> HIDE DEF new, prior
  <1>4. track' \in [Tracks -> Fields]
    BY <1>1, <1>2, <1>3 DEF Fields
  <1>5. call' \in [Tracks -> Calls]
    BY <1>1, <1>2, <1>3 DEF Calls
  <1>6. recent' \in [Tracks -> SUBSET {"full", "empty"}] /\ overruled' \in [Tracks -> BOOLEAN]
        /\ starts' \in 0..MaxStarts
    BY <1>1, <1>3 DEF Start, TypeOK
  <1>7. TypeOK'
    BY <1>1, <1>4, <1>5, <1>6 DEF TypeOK, Start, loop
  <1>8. LoopInv'
    BY <1>1 DEF LoopInv, Start, loop
  <1>9. ASSUME NEW u \in Tracks, u # t PROVE TrackInv(u)'
    <2>1. track'[u] = track[u] /\ call'[u] = call[u] /\ overruled'[u] = overruled[u]
      BY <1>1, <1>3, <1>9
    <2> QED BY <2>1, Frame DEF IInv, Start, loop
  <1>10. TrackInv(t)'
    <2>1. /\ track'[t].mState = new /\ track'[t].mRetryCount = track[t].mRetryCount
          /\ track'[t].terminated = track[t].terminated /\ overruled'[t] = FALSE
      BY <1>1, <1>3 DEF Fields
    <2>2. /\ handle[t] = "alive" /\ call[t].pc = "none"
          /\ handle' = handle /\ policy' = policy /\ releases' = releases
          /\ mActiveTracks' = mActiveTracks /\ tracksToRemove' = tracksToRemove
          /\ tChecking' = tChecking
      BY DEF Start, loop
    <2>3. CallInv(t)'
      BY <1>1, <1>2, <1>3, <2>1, <2>2 DEF CallInv, Calls
    <2>4. PolicyInv(t)'
      BY <1>1, <1>3, <2>2 DEF PolicyInv, Bit, TrackInv, Calls
    <2>5. ActiveInv(t)' /\ ReleaseInv(t)'
      BY <1>1, <1>2, <2>1, <2>2 DEF ActiveInv, ReleaseInv, TrackInv
    <2> QED BY <2>3, <2>4, <2>5 DEF TrackInv
  <1> QED BY <1>7, <1>8, <1>9, <1>10 DEF IInv

LEMMA AskIInv == ASSUME NEW t \in Tracks, IInv, Ask(t) PROVE IInv'
  <1>1. /\ TypeOK /\ LoopInv /\ TrackInv(t)
        /\ policy \in [Tracks -> 0..2] /\ call \in [Tracks -> Calls]
    BY DEF IInv, TypeOK
  <1>2. \/ /\ call' = [call EXCEPT ![t].pc = "granted"]
           /\ policy' = [policy EXCEPT ![t] = @ + 1]
        \/ call' = [call EXCEPT ![t].pc = "denied"] /\ policy' = policy
    BY DEF Ask
  <1>3. policy[t] \in {0, 1}
    BY <1>1 DEF Ask, TrackInv, CallInv, PolicyInv, Bit
  <1>4. call' \in [Tracks -> Calls] /\ policy' \in [Tracks -> 0..2]
    BY <1>1, <1>2, <1>3 DEF Calls
  <1>5. TypeOK'
    BY <1>1, <1>4 DEF TypeOK, Ask, loop
  <1>6. LoopInv'
    BY <1>1 DEF LoopInv, Ask, loop
  <1>7. ASSUME NEW u \in Tracks, u # t PROVE TrackInv(u)'
    <2>1. call'[u] = call[u] /\ policy'[u] = policy[u]
      BY <1>1, <1>2, <1>7
    <2> QED BY <2>1, Frame DEF IInv, Ask, loop
  <1>8. TrackInv(t)'
    <2>1. /\ call'[t].set = call[t].set
          /\ \/ call'[t].pc = "granted" /\ policy'[t] = policy[t] + 1
             \/ call'[t].pc = "denied" /\ policy'[t] = policy[t]
      BY <1>1, <1>2 DEF Calls
    <2>2. /\ call[t].pc = "asking"
          /\ handle' = handle /\ track' = track /\ releases' = releases
          /\ overruled' = overruled /\ mActiveTracks' = mActiveTracks
          /\ tracksToRemove' = tracksToRemove /\ tChecking' = tChecking
      BY DEF Ask, loop
    <2>3. CallInv(t)'
      BY <1>1, <2>1, <2>2 DEF CallInv, TrackInv
    <2>4. PolicyInv(t)'
      BY <1>1, <2>1, <2>2 DEF PolicyInv, Bit, TrackInv
    <2>5. ActiveInv(t)' /\ ReleaseInv(t)'
      BY <1>1, <2>2 DEF ActiveInv, ReleaseInv, TrackInv
    <2> QED BY <2>3, <2>4, <2>5 DEF TrackInv
  <1> QED BY <1>5, <1>6, <1>7, <1>8 DEF IInv

\* What follows an abandoned start(): stopOutput() if it was granted, else nothing.
LEMMA AbandonedFacts ==
    ASSUME NEW t \in Tracks, TypeOK
    PROVE  /\ Abandoned(t) \in Calls
           /\ \/ call[t].pc = "granted" /\ Abandoned(t).pc = "undo"
                 /\ Abandoned(t).set = call[t].set
              \/ call[t].pc # "granted" /\ Abandoned(t).pc = "none"
  <1>1. call[t] \in Calls
    BY DEF TypeOK
  <1>2. NoCall \in Calls
    BY DEF Calls, NoCall, States
  <1>3. CASE call[t].pc = "granted"
    <2>1. Abandoned(t) = [call[t] EXCEPT !.pc = "undo"]
      BY <1>3 DEF Abandoned
    <2> QED BY <1>1, <1>3, <2>1 DEF Calls
  <1>4. CASE call[t].pc # "granted"
    BY <1>2, <1>4 DEF Abandoned, NoCall
  <1> QED BY <1>3, <1>4

LEMMA RelockIInv == ASSUME NEW t \in Tracks, IInv, Relock(t) PROVE IInv'
  <1>1. /\ TypeOK /\ LoopInv /\ TrackInv(t) /\ call[t].pc \in {"granted", "denied"}
        /\ track \in [Tracks -> Fields] /\ call \in [Tracks -> Calls] /\ call[t] \in Calls
    BY DEF IInv, TypeOK, Relock
  <1>2. /\ policy' = policy /\ handle' = handle /\ releases' = releases
        /\ overruled' = overruled /\ tracksToRemove' = tracksToRemove
        /\ tChecking' = tChecking
    BY DEF Relock, loop
  <1>3. t \notin mActiveTracks /\ call[t].set \in {"ACTIVE", "RESUMING"}
    BY <1>1 DEF TrackInv, CallInv
  <1>4. NoCall \in Calls /\ NoCall.pc = "none"
    BY DEF Calls, NoCall, States
  <1>5. ASSUME track' \in [Tracks -> Fields], call' \in [Tracks -> Calls],
               mActiveTracks' \subseteq Tracks
        PROVE  TypeOK' /\ LoopInv'
    BY <1>1, <1>5 DEF TypeOK, LoopInv, Relock, loop
  <1>6. ASSUME NEW u \in Tracks, u # t, track'[u] = track[u], call'[u] = call[u],
               u \in mActiveTracks' <=> u \in mActiveTracks
        PROVE  TrackInv(u)'
    BY <1>2, <1>6, Frame DEF IInv
  <1>7. CASE /\ Overruled(t)
             /\ call' = [call EXCEPT ![t] = Abandoned(t)]
             /\ UNCHANGED <<track, mActiveTracks>>
    <2>1. call' \in [Tracks -> Calls] /\ call'[t] = Abandoned(t)
      BY <1>1, <1>7, AbandonedFacts
    <2>2. TypeOK' /\ LoopInv'
      BY <1>1, <1>5, <1>7, <2>1 DEF TypeOK
    <2>3. ASSUME NEW u \in Tracks, u # t PROVE TrackInv(u)'
      BY <1>1, <1>6, <1>7, <2>3
    <2>4. CallInv(t)' /\ PolicyInv(t)'
      BY <1>1, <1>2, <1>7, <2>1, AbandonedFacts DEF TrackInv, CallInv, PolicyInv, Bit
    <2>5. ActiveInv(t)' /\ ReleaseInv(t)'
      BY <1>1, <1>2, <1>7 DEF TrackInv, ActiveInv, ReleaseInv
    <2> QED BY <2>2, <2>3, <2>4, <2>5 DEF IInv, TrackInv
  <1>8. CASE /\ ~Overruled(t) /\ call[t].pc = "denied"
             /\ track' = [track EXCEPT ![t].mState = call[t].prior]
             /\ call' = [call EXCEPT ![t] = NoCall]
             /\ UNCHANGED mActiveTracks
    <2>1. track' \in [Tracks -> Fields]
      <3>1. call[t].prior \in States /\ track[t] \in Fields
        BY <1>1 DEF Calls
      <3>2. [track[t] EXCEPT !.mState = call[t].prior] \in Fields
        BY <3>1 DEF Fields
      <3>3. track' = [track EXCEPT ![t] = [track[t] EXCEPT !.mState = call[t].prior]]
        BY <1>8
      <3> QED BY <1>1, <3>2, <3>3
    <2>2. call' \in [Tracks -> Calls] /\ call'[t].pc = "none"
      BY <1>1, <1>4, <1>8
    <2>3. TypeOK' /\ LoopInv'
      BY <1>1, <1>5, <1>8, <2>1, <2>2 DEF TypeOK
    <2>4. ASSUME NEW u \in Tracks, u # t PROVE TrackInv(u)'
      <3>1. track'[u] = track[u] /\ call'[u] = call[u]
        BY <1>1, <1>8, <2>4
      <3> QED BY <1>6, <1>8, <2>4, <3>1
    <2>5. track'[t].terminated = track[t].terminated
      BY <1>1, <1>8 DEF Fields
    <2>6. CallInv(t)' /\ PolicyInv(t)'
      BY <1>1, <1>2, <1>8, <2>2 DEF TrackInv, CallInv, PolicyInv, Bit
    <2>7. ActiveInv(t)' /\ ReleaseInv(t)'
      BY <1>1, <1>2, <1>3, <1>8, <2>5 DEF TrackInv, ActiveInv, ReleaseInv
    <2> QED BY <2>3, <2>4, <2>6, <2>7 DEF IInv, TrackInv
  <1>9. CASE /\ ~Overruled(t) /\ call[t].pc = "granted"
             /\ track' = [track EXCEPT ![t] =
                              [@ EXCEPT !.mRetryCount = MaxRetries, !.fill = "FILLING",
                                        !.mResetDone = FALSE, !.left = Unset]]
             /\ mActiveTracks' = mActiveTracks \cup {t}
             /\ call' = [call EXCEPT ![t] = NoCall]
    <2> DEFINE tr == [track[t] EXCEPT !.mRetryCount = MaxRetries, !.fill = "FILLING",
                                      !.mResetDone = FALSE, !.left = Unset]
    <2>1. /\ tr \in Fields /\ tr.mState = track[t].mState
          /\ tr.mRetryCount = MaxRetries /\ tr.terminated = track[t].terminated
      <3>1. Unset \in Unset..Latency /\ MaxRetries \in 0..MaxRetries /\ track[t] \in Fields
        BY <1>1 DEF Unset
      <3> QED BY <3>1 DEF Fields
    <2>2. track' = [track EXCEPT ![t] = tr]
      BY <1>9
    <2> HIDE DEF tr
    <2>3. /\ track' \in [Tracks -> Fields] /\ track'[t] = tr
          /\ \A u \in Tracks \ {t} : track'[u] = track[u] /\ call'[u] = call[u]
      BY <1>1, <1>9, <2>1, <2>2
    <2>4. call' \in [Tracks -> Calls] /\ call'[t].pc = "none"
      BY <1>1, <1>4, <1>9
    <2>5. TypeOK' /\ LoopInv'
      BY <1>1, <1>5, <1>9, <2>3, <2>4 DEF TypeOK
    <2>6. ASSUME NEW u \in Tracks, u # t PROVE TrackInv(u)'
      BY <1>6, <1>9, <2>3, <2>6
    <2>7. handle[t] = "alive" /\ track[t].mState = call[t].set
      BY <1>1, <1>9 DEF TrackInv, CallInv, Overruled
    <2>8. CallInv(t)' /\ PolicyInv(t)'
      BY <1>1, <1>2, <1>3, <1>9, <2>4 DEF TrackInv, CallInv, PolicyInv, Bit
    <2>9. ActiveInv(t)'
      BY <1>3, <2>1, <2>3, <2>7 DEF ActiveInv
    <2>10. ReleaseInv(t)'
      BY <1>1, <1>2, <1>3, <1>9, <2>1, <2>3, <2>7 DEF TrackInv, ReleaseInv, Bit
    <2> QED BY <2>5, <2>6, <2>8, <2>9, <2>10 DEF IInv, TrackInv
  <1> QED BY <1>7, <1>8, <1>9 DEF Relock

LEMMA UndoIInv == ASSUME NEW t \in Tracks, IInv, Undo(t) PROVE IInv'
  <1>1. /\ TypeOK /\ LoopInv /\ TrackInv(t)
        /\ policy \in [Tracks -> 0..2] /\ call \in [Tracks -> Calls]
    BY DEF IInv, TypeOK
  <1>2. /\ call[t].pc = "undo"
        /\ policy' = [policy EXCEPT ![t] = @ - 1] /\ call' = [call EXCEPT ![t] = NoCall]
        /\ track' = track /\ handle' = handle /\ releases' = releases
        /\ overruled' = overruled /\ mActiveTracks' = mActiveTracks
        /\ tracksToRemove' = tracksToRemove /\ tChecking' = tChecking
    BY DEF Undo, loop
  <1>3. NoCall \in Calls /\ NoCall.pc = "none"
    BY DEF Calls, NoCall, States
  <1>4. policy[t] \in {1, 2}
    BY <1>1, <1>2 DEF TrackInv, PolicyInv, CallInv, Bit
  <1>5. /\ policy' \in [Tracks -> 0..2] /\ policy'[t] = policy[t] - 1
        /\ call' \in [Tracks -> Calls] /\ call'[t].pc = "none"
    BY <1>1, <1>2, <1>3, <1>4
  <1>6. TypeOK' /\ LoopInv'
    BY <1>1, <1>5 DEF TypeOK, LoopInv, Undo, loop
  <1>7. ASSUME NEW u \in Tracks, u # t PROVE TrackInv(u)'
    <2>1. call'[u] = call[u] /\ policy'[u] = policy[u]
      BY <1>1, <1>2, <1>7
    <2> QED BY <1>2, <2>1, Frame DEF IInv
  <1>8. CallInv(t)' /\ PolicyInv(t)' /\ ActiveInv(t)' /\ ReleaseInv(t)'
    BY <1>1, <1>2, <1>5 DEF TrackInv, CallInv, PolicyInv, ActiveInv, ReleaseInv, Bit
  <1> QED BY <1>6, <1>7, <1>8 DEF IInv, TrackInv

\* reset() changes at most FLUSHED into IDLE.
LEMMA ResetFacts ==
    ASSUME NEW tr \in Fields
    PROVE  /\ Reset(tr) \in Fields
           /\ Reset(tr).mRetryCount = tr.mRetryCount
           /\ Reset(tr).terminated = tr.terminated
           /\ Reset(tr).mState \in {tr.mState, "IDLE"}
  <1>1. CASE tr.mResetDone
    BY <1>1 DEF Reset
  <1>2. CASE ~tr.mResetDone
    <2> DEFINE s == IF tr.mState = "FLUSHED" THEN "IDLE" ELSE tr.mState
    <2>1. s \in States /\ s \in {tr.mState, "IDLE"}
      BY DEF Fields, States
    <2>2. Reset(tr) = [tr EXCEPT !.fill = "FILLING", !.mResetDone = TRUE, !.mState = s]
      BY <1>2 DEF Reset
    <2> HIDE DEF s
    <2> QED BY <2>1, <2>2 DEF Fields
  <1> QED BY <1>1, <1>2

\* What stop(), pause() and flush() have in common.
LEMMA EndWithIInv ==
    ASSUME NEW t \in Tracks, NEW tr \in Fields, IInv, EndWith(t, tr),
           frames' \in [Tracks -> 0..Full],
           tr.mState \notin {"ACTIVE", "RESUMING"},
           t \in mActiveTracks => tr.mState # "IDLE",
           tr.mRetryCount = track[t].mRetryCount, tr.terminated = track[t].terminated
    PROVE  IInv'
  <1>1. /\ TypeOK /\ LoopInv /\ TrackInv(t)
        /\ track \in [Tracks -> Fields] /\ overruled \in [Tracks -> BOOLEAN]
    BY DEF IInv, TypeOK
  <1>2. /\ track' = [track EXCEPT ![t] = tr] /\ overruled' = [overruled EXCEPT ![t] = TRUE]
        /\ handle' = handle /\ releases' = releases /\ policy' = policy /\ call' = call
        /\ mActiveTracks' = mActiveTracks /\ tracksToRemove' = tracksToRemove
        /\ tChecking' = tChecking
    BY DEF EndWith, loop
  <1>3. track' \in [Tracks -> Fields] /\ overruled' \in [Tracks -> BOOLEAN] /\ track'[t] = tr
    BY <1>1, <1>2
  <1>4. TypeOK' /\ LoopInv'
    BY <1>1, <1>3 DEF TypeOK, LoopInv, EndWith, loop
  <1>5. ASSUME NEW u \in Tracks, u # t PROVE TrackInv(u)'
    <2>1. track'[u] = track[u] /\ overruled'[u] = overruled[u]
      BY <1>1, <1>2, <1>5
    <2> QED BY <1>2, <2>1, Frame DEF IInv
  <1>6. CallInv(t)' /\ PolicyInv(t)' /\ ActiveInv(t)' /\ ReleaseInv(t)'
    BY <1>1, <1>2, <1>3 DEF TrackInv, CallInv, PolicyInv, ActiveInv, ReleaseInv
  <1> QED BY <1>4, <1>5, <1>6 DEF IInv, TrackInv

LEMMA StopIInv == ASSUME NEW t \in Tracks, IInv, Stop(t) PROVE IInv'
  <1>1. track[t] \in Fields /\ frames' \in [Tracks -> 0..Full]
    BY DEF IInv, TypeOK, Stop
  <1>2. CASE t \notin mActiveTracks
    <2> DEFINE tr == [Reset(track[t]) EXCEPT !.mState = "STOPPED"]
    <2>1. /\ tr \in Fields /\ tr.mState = "STOPPED"
          /\ tr.mRetryCount = track[t].mRetryCount /\ tr.terminated = track[t].terminated
      BY <1>1, ResetFacts DEF Fields, States
    <2>2. EndWith(t, tr)
      BY <1>2 DEF Stop
    <2> HIDE DEF tr
    <2> QED BY <1>1, <2>1, <2>2, EndWithIInv
  <1>3. CASE t \in mActiveTracks
    <2> DEFINE s == IF t \in Fast THEN "STOPPING_1" ELSE "STOPPED"
               tr == [track[t] EXCEPT !.mState = s]
    <2>1. s \in States \ {"ACTIVE", "RESUMING", "IDLE"}
      BY DEF States
    <2>2. EndWith(t, tr)
      BY <1>3 DEF Stop
    <2> HIDE DEF s
    <2>3. /\ tr \in Fields /\ tr.mState = s
          /\ tr.mRetryCount = track[t].mRetryCount /\ tr.terminated = track[t].terminated
      BY <1>1, <2>1 DEF Fields
    <2> HIDE DEF tr
    <2> QED BY <1>1, <2>1, <2>2, <2>3, EndWithIInv
  <1> QED BY <1>2, <1>3

LEMMA PauseIInv == ASSUME NEW t \in Tracks, IInv, Pause(t) PROVE IInv'
  <1>1. track[t] \in Fields /\ frames' \in [Tracks -> 0..Full]
    BY DEF IInv, TypeOK, Pause
  <1> DEFINE tr == [track[t] EXCEPT !.mState = "PAUSING"]
  <1>2. /\ tr \in Fields /\ tr.mState = "PAUSING"
        /\ tr.mRetryCount = track[t].mRetryCount /\ tr.terminated = track[t].terminated
    BY <1>1 DEF Fields, States
  <1>3. EndWith(t, tr)
    BY DEF Pause
  <1> HIDE DEF tr
  <1> QED BY <1>1, <1>2, <1>3, EndWithIInv

LEMMA FlushIInv == ASSUME NEW t \in Tracks, IInv, Flush(t) PROVE IInv'
  <1>1. track[t] \in Fields /\ frames \in [Tracks -> 0..Full]
    BY DEF IInv, TypeOK
  <1>2. frames' \in [Tracks -> 0..Full]
    BY <1>1 DEF Flush
  <1> DEFINE tr == [track[t] EXCEPT !.mState = "FLUSHED"]
  <1>3. /\ tr \in Fields /\ tr.mState = "FLUSHED"
        /\ tr.mRetryCount = track[t].mRetryCount /\ tr.terminated = track[t].terminated
    BY <1>1 DEF Fields, States
  <1>4. EndWith(t, IF t \in mActiveTracks THEN tr ELSE Reset(tr))
    BY DEF Flush, Flushed
  <1> HIDE DEF tr
  <1>5. CASE t \in mActiveTracks
    BY <1>2, <1>3, <1>4, <1>5, EndWithIInv
  <1>6. CASE t \notin mActiveTracks
    <2>1. EndWith(t, Reset(tr))
      BY <1>4, <1>6
    <2>2. /\ Reset(tr) \in Fields /\ Reset(tr).mState \in {"FLUSHED", "IDLE"}
          /\ Reset(tr).mRetryCount = track[t].mRetryCount
          /\ Reset(tr).terminated = track[t].terminated
      BY <1>3, ResetFacts
    <2> QED BY <1>2, <1>6, <2>1, <2>2, EndWithIInv
  <1> QED BY <1>5, <1>6

LEMMA DestroyIInv == ASSUME NEW t \in Tracks, IInv, Destroy(t) PROVE IInv'
  <1> DEFINE s == IF t \in mActiveTracks \cap Fast THEN "STOPPING_1" ELSE "STOPPED"
             tr == [track[t] EXCEPT !.terminated = TRUE, !.mState = s]
             h == IF t \in mActiveTracks THEN "destroyed" ELSE "destroying"
  <1>1. /\ TypeOK /\ LoopInv /\ TrackInv(t)
        /\ track \in [Tracks -> Fields] /\ track[t] \in Fields
        /\ handle \in [Tracks -> {"alive", "destroying", "destroyed"}]
    BY DEF IInv, TypeOK
  <1>2. s \in States \ {"IDLE"}
    BY DEF States
  <1>3. h \in {"destroying", "destroyed"} /\ (h = "destroying" => t \notin mActiveTracks)
    OBVIOUS
  <1>4. /\ track' = [track EXCEPT ![t] = tr] /\ handle' = [handle EXCEPT ![t] = h]
        /\ handle[t] = "alive" /\ call[t].pc = "none" /\ call' = call
        /\ releases' = releases /\ policy' = policy /\ overruled' = overruled
        /\ mActiveTracks' = mActiveTracks /\ tracksToRemove' = tracksToRemove
        /\ tChecking' = tChecking
    BY DEF Destroy, loop
  <1> HIDE DEF s, h
  <1>5. /\ tr \in Fields /\ tr.mState = s /\ tr.mRetryCount = track[t].mRetryCount
        /\ tr.terminated
    BY <1>1, <1>2 DEF Fields
  <1> HIDE DEF tr
  <1>6. /\ track' \in [Tracks -> Fields] /\ track'[t] = tr
        /\ handle' \in [Tracks -> {"alive", "destroying", "destroyed"}] /\ handle'[t] = h
    BY <1>1, <1>3, <1>4, <1>5
  <1>7. TypeOK' /\ LoopInv'
    BY <1>1, <1>6 DEF TypeOK, LoopInv, Destroy, loop
  <1>8. ASSUME NEW u \in Tracks, u # t PROVE TrackInv(u)'
    <2>1. track'[u] = track[u] /\ handle'[u] = handle[u]
      BY <1>1, <1>4, <1>8
    <2> QED BY <1>4, <2>1, Frame DEF IInv
  <1>9. CallInv(t)' /\ PolicyInv(t)'
    BY <1>1, <1>4 DEF TrackInv, CallInv, PolicyInv
  <1>10. ActiveInv(t)'
    BY <1>1, <1>2, <1>4, <1>5, <1>6 DEF TrackInv, ActiveInv
  <1>11. ReleaseInv(t)'
    BY <1>1, <1>3, <1>4, <1>5, <1>6 DEF TrackInv, ReleaseInv, Bit
  <1> QED BY <1>7, <1>8, <1>9, <1>10, <1>11 DEF IInv, TrackInv

LEMMA ReleaseIInv == ASSUME NEW t \in Tracks, IInv, Release(t) PROVE IInv'
  <1>1. /\ TypeOK /\ LoopInv /\ TrackInv(t)
        /\ handle \in [Tracks -> {"alive", "destroying", "destroyed"}]
        /\ releases \in [Tracks -> 0..2]
    BY DEF IInv, TypeOK
  <1>2. /\ handle[t] = "destroying" /\ handle' = [handle EXCEPT ![t] = "destroyed"]
        /\ releases' = [releases EXCEPT ![t] = @ + 1]
        /\ track' = track /\ call' = call /\ policy' = policy /\ overruled' = overruled
        /\ mActiveTracks' = mActiveTracks /\ tracksToRemove' = tracksToRemove
        /\ tChecking' = tChecking
    BY DEF Release, loop
  <1>3. releases[t] \in {0, 1}
    BY <1>1, <1>2 DEF TrackInv, ReleaseInv, Bit
  <1>4. /\ handle' \in [Tracks -> {"alive", "destroying", "destroyed"}]
        /\ releases' \in [Tracks -> 0..2]
        /\ handle'[t] = "destroyed" /\ releases'[t] = releases[t] + 1
    BY <1>1, <1>2, <1>3
  <1>5. TypeOK' /\ LoopInv'
    BY <1>1, <1>4 DEF TypeOK, LoopInv, Release, loop
  <1>6. ASSUME NEW u \in Tracks, u # t PROVE TrackInv(u)'
    <2>1. handle'[u] = handle[u] /\ releases'[u] = releases[u]
      BY <1>1, <1>2, <1>6
    <2> QED BY <1>2, <2>1, Frame DEF IInv
  <1>7. CallInv(t)' /\ PolicyInv(t)' /\ ActiveInv(t)' /\ ReleaseInv(t)'
    BY <1>1, <1>2, <1>3, <1>4 DEF TrackInv, CallInv, PolicyInv, ActiveInv, ReleaseInv, Bit
  <1> QED BY <1>5, <1>6, <1>7 DEF IInv, TrackInv

\* A step that only moves data.
LEMMA DataIInv ==
    ASSUME IInv, UNCHANGED <<track, mActiveTracks, fastMask, loop, binder, policy, releases>>,
           frames' \in [Tracks -> 0..Full], unheard' \in [Tracks -> 0..Latency],
           recent' \in [Tracks -> SUBSET {"full", "empty"}]
    PROVE  IInv'
  <1>1. TypeOK' /\ LoopInv'
    BY DEF IInv, TypeOK, LoopInv, loop, binder
  <1>2. ASSUME NEW u \in Tracks PROVE TrackInv(u)'
    BY Frame DEF IInv, loop, binder
  <1> QED BY <1>1, <1>2 DEF IInv

LEMMA WriteIInv == ASSUME NEW t \in Tracks, IInv, Write(t) PROVE IInv'
  <1>1. /\ frames \in [Tracks -> 0..Full] /\ unheard \in [Tracks -> 0..Latency]
        /\ recent \in [Tracks -> SUBSET {"full", "empty"}]
    BY DEF IInv, TypeOK
  <1>2. frames' \in [Tracks -> 0..Full]
    BY <1>1 DEF Write
  <1> QED BY <1>1, <1>2, DataIInv DEF Write

LEMMA FastMixIInv == ASSUME NEW t \in Tracks, IInv, FastMix(t) PROVE IInv'
  <1>1. /\ frames \in [Tracks -> 0..Full] /\ unheard \in [Tracks -> 0..Latency]
        /\ recent \in [Tracks -> SUBSET {"full", "empty"}]
    BY DEF IInv, TypeOK
  <1>2. frames' \in [Tracks -> 0..Full]
    BY <1>1 DEF FastMix, Less
  <1>3. unheard' \in [Tracks -> 0..Latency]
    BY <1>1 DEF FastMix
  <1>4. recent' \in [Tracks -> SUBSET {"full", "empty"}]
    BY <1>1 DEF FastMix
  <1> QED BY <1>2, <1>3, <1>4, DataIInv DEF FastMix

-------------------------------------------------------------------------------
(* The loop of the thread.                                                 *)

\* presentationComplete() changes nothing but what is left to be written.
LEMMA AskedFacts ==
    ASSUME NEW tr \in Fields
    PROVE  /\ Asked(tr) \in Fields /\ Asked(tr).mState = tr.mState
           /\ Asked(tr).mRetryCount = tr.mRetryCount
           /\ Asked(tr).terminated = tr.terminated
  <1> DEFINE l == Target(tr)
  <1>1. l \in Unset..Latency
    BY DEF Target, Unset, Fields
  <1>2. Asked(tr) = tr \/ Asked(tr) = [tr EXCEPT !.left = l]
    BY DEF Asked
  <1> HIDE DEF l
  <1> QED BY <1>1, <1>2 DEF Fields

\* The loop keeps an active normal track only in a state it expects, with
\* retries left.
LEMMA NormalFacts ==
    ASSUME IInv, NEW t \in mActiveTracks
    PROVE  /\ NormalTrack(t) \in Fields
           /\ NormalTrack(t).terminated = track[t].terminated
           /\ ~NormalLeaves(t) => /\ NormalTrack(t).mState # "IDLE"
                                  /\ NormalTrack(t).mRetryCount > 0
  <1> DEFINE tr == track[t]
  <1>1. tr \in Fields /\ tr.mState # "IDLE" /\ tr.mRetryCount \in 1..MaxRetries
    <2>1. t \in Tracks /\ tr \in Fields /\ TrackInv(t)
      BY DEF IInv, TypeOK
    <2> QED BY <2>1 DEF TrackInv, ActiveInv, Fields
  <1>2. CASE Ready(t)
    <2> DEFINE filled == tr.fill = "FILLED" \/ (tr.fill = "FILLING" /\ frames[t] = Full
                           /\ ~Stopped(tr) /\ tr.mState # "PAUSING")
               f == IF filled THEN "ACTIVE" ELSE tr.fill
               s == IF tr.mState = "PAUSING" THEN "PAUSED"
                    ELSE IF tr.mState = "RESUMING" /\ filled THEN "ACTIVE" ELSE tr.mState
    <2>1. NormalTrack(t) = [tr EXCEPT !.fill = f, !.mRetryCount = MaxRetries, !.mState = s]
      BY <1>2 DEF NormalTrack
    <2> HIDE DEF filled
    <2>2. f \in {"FILLING", "FILLED", "ACTIVE"} /\ s \in States \ {"IDLE"}
      BY <1>1 DEF Fields, States
    <2>3. MaxRetries \in 0..MaxRetries /\ MaxRetries > 0
      OBVIOUS
    <2> HIDE DEF f, s, tr
    <2> QED BY <1>1, <2>1, <2>2, <2>3 DEF Fields, tr
  <1>3. CASE ~Ready(t) /\ ~Consumed(t)
    <2> DEFINE n == tr.mRetryCount - 1
    <2>1. NormalTrack(t) = [tr EXCEPT !.mRetryCount = n]
      BY <1>3 DEF NormalTrack
    <2>2. n \in 0..MaxRetries /\ (~NormalLeaves(t) => n > 0)
      BY <1>1, <1>3 DEF NormalLeaves
    <2> HIDE DEF n
    <2> QED BY <1>1, <2>1, <2>2 DEF Fields
  <1>4. CASE ~Ready(t) /\ Consumed(t)
    <2>1. \/ NormalTrack(t) = Reset(Asked(tr)) /\ Finished(t)
          \/ NormalTrack(t) = Asked(tr)
      BY <1>4 DEF NormalTrack
    <2>2. ~NormalLeaves(t) => ~Finished(t)
      BY <1>4 DEF NormalLeaves
    <2>3. /\ Asked(tr) \in Fields /\ Asked(tr).mState = tr.mState
          /\ Asked(tr).mRetryCount = tr.mRetryCount /\ Asked(tr).terminated = tr.terminated
      BY <1>1, AskedFacts
    <2>4. Reset(Asked(tr)) \in Fields /\ Reset(Asked(tr)).terminated = tr.terminated
      BY <2>3, ResetFacts
    <2> QED BY <1>1, <2>1, <2>2, <2>3, <2>4
  <1> QED BY <1>2, <1>3, <1>4

\* The same for a fast track.
LEMMA FastFacts ==
    ASSUME IInv, NEW t \in mActiveTracks
    PROVE  /\ FastTrack(t) \in Fields
           /\ FastTrack(t).terminated = track[t].terminated
           /\ ~FastLeaves(t) => /\ FastTrack(t).mState # "IDLE"
                                /\ FastTrack(t).mRetryCount > 0
  <1> DEFINE tr == track[t]
  <1>1. tr \in Fields /\ tr.mState # "IDLE" /\ tr.mRetryCount \in 1..MaxRetries
    <2>1. t \in Tracks /\ tr \in Fields /\ TrackInv(t)
      BY DEF IInv, TypeOK
    <2> QED BY <2>1 DEF TrackInv, ActiveInv, Fields
  <1>2. CASE tr.mState = "STOPPING_1"
    <2>1. FastTrack(t) = tr \/ FastTrack(t) = [tr EXCEPT !.mState = "STOPPING_2"]
      BY <1>2 DEF FastTrack, Waiting
    <2> QED BY <1>1, <2>1 DEF Fields, States
  <1>3. CASE tr.mState = "PAUSING"
    <2>1. FastTrack(t) = [tr EXCEPT !.mState = "PAUSED"]
      BY <1>3 DEF FastTrack, Waiting
    <2> QED BY <1>1, <2>1 DEF Fields, States
  <1>4. CASE tr.mState = "RESUMING"
    <2>1. FastTrack(t) = [tr EXCEPT !.mState = "ACTIVE"]
      BY <1>4 DEF FastTrack, Waiting
    <2> QED BY <1>1, <2>1 DEF Fields, States
  <1>5. CASE tr.mState = "ACTIVE"
    <2> DEFINE n == Retries(t) - (IF "empty" \in recent[t] THEN 1 ELSE 0)
    <2>1. FastTrack(t) = [tr EXCEPT !.mRetryCount = n]
      BY <1>5 DEF FastTrack, Waiting
    <2>2. Retries(t) \in 1..MaxRetries
      BY <1>1 DEF Retries
    <2>3. n \in 0..MaxRetries /\ (~FastLeaves(t) => n > 0)
      BY <1>5, <2>2 DEF FastLeaves
    <2> HIDE DEF n
    <2> QED BY <1>1, <2>1, <2>3 DEF Fields
  <1>6. CASE Waiting(t)
    <2> DEFINE s == IF tr.mState = "STOPPING_2" THEN "STOPPED" ELSE tr.mState
               stopped == [tr EXCEPT !.mState = s]
    <2>1. \/ FastTrack(t) = Asked(tr)
          \/ FastTrack(t) = Reset(Asked(stopped)) /\ Finished(t)
      BY <1>6 DEF FastTrack, Waiting
    <2>2. Finished(t) => FastLeaves(t)
      BY <1>6 DEF FastLeaves
    <2>3. s \in States
      BY <1>1 DEF Fields, States
    <2> HIDE DEF s
    <2>4. stopped \in Fields /\ stopped.terminated = tr.terminated
      BY <1>1, <2>3 DEF Fields
    <2> HIDE DEF stopped
    <2>5. /\ Asked(tr) \in Fields /\ Asked(tr).mState = tr.mState
          /\ Asked(tr).mRetryCount = tr.mRetryCount /\ Asked(tr).terminated = tr.terminated
      BY <1>1, AskedFacts
    <2>6. Asked(stopped) \in Fields /\ Asked(stopped).terminated = tr.terminated
      BY <2>4, AskedFacts
    <2>7. /\ Reset(Asked(stopped)) \in Fields
          /\ Reset(Asked(stopped)).terminated = tr.terminated
      BY <2>6, ResetFacts
    <2> QED BY <1>1, <2>1, <2>2, <2>5, <2>7
  <1> QED BY <1>1, <1>2, <1>3, <1>4, <1>5, <1>6 DEF Waiting, Fields, States

LEMMA PrepareIInv == ASSUME IInv, Prepare PROVE IInv'
  <1> DEFINE normal == mActiveTracks \ Fast
             fast == mActiveTracks \cap Fast
             gone == {t \in normal : NormalLeaves(t)} \cup {t \in fast : FastLeaves(t)}
             ready == {t \in normal : Ready(t)}
             status == Status(ready, {t \in normal \ gone : ~Ready(t) /\ ~Consumed(t)})
  <1>1. /\ TypeOK /\ LoopInv /\ tPc = "loop" /\ tracksToRemove = {} /\ tChecking = {}
        /\ track \in [Tracks -> Fields] /\ mActiveTracks \subseteq Tracks
        /\ recent \in [Tracks -> SUBSET {"full", "empty"}] /\ Fast \subseteq Tracks
    BY DEF IInv, TypeOK, LoopInv, Prepare
  <1>2. /\ track' = [t \in Tracks |-> IF t \in normal THEN NormalTrack(t)
                                      ELSE IF t \in fast THEN FastTrack(t) ELSE track[t]]
        /\ mActiveTracks' = mActiveTracks \ gone /\ tracksToRemove' = gone
        /\ fastMask' = fast \ gone
        /\ recent' = [t \in Tracks |-> IF t \in fast THEN {} ELSE recent[t]]
        /\ mMixerStatusIgnoringFastTracks' = status
        /\ tStatus' = (IF fast \ gone # {} THEN "READY" ELSE status)
        /\ tMixed' = ready /\ tPc' = "write"
    BY DEF Prepare
  <1>3. /\ call' = call /\ handle' = handle /\ overruled' = overruled
        /\ policy' = policy /\ releases' = releases /\ tChecking' = {}
    BY <1>1 DEF Prepare, binder
  <1>4. status \in {"IDLE", "ENABLED", "READY"}
    BY DEF Status
  <1>5. gone \subseteq mActiveTracks /\ ready \subseteq Tracks
    BY <1>1
  <1>6. track' \in [Tracks -> Fields]
    <2>1. ASSUME NEW t \in Tracks
          PROVE  (IF t \in normal THEN NormalTrack(t)
                  ELSE IF t \in fast THEN FastTrack(t) ELSE track[t]) \in Fields
      BY <1>1, NormalFacts, FastFacts
    <2> QED BY <1>2, <2>1
  <1>7. TypeOK'
    <2>1. recent' \in [Tracks -> SUBSET {"full", "empty"}]
      BY <1>1, <1>2
    <2>2. /\ mActiveTracks' \subseteq Tracks /\ tracksToRemove' \subseteq Tracks
          /\ tMixed' \subseteq Tracks /\ fastMask' \subseteq Fast
          /\ tStatus' \in {"IDLE", "ENABLED", "READY"}
          /\ mMixerStatusIgnoringFastTracks' \in {"IDLE", "ENABLED", "READY"}
      BY <1>1, <1>2, <1>4, <1>5
    <2> QED BY <1>1, <1>2, <1>6, <2>1, <2>2 DEF TypeOK, Prepare, binder
  <1>8. LoopInv'
    BY <1>2, <1>3 DEF LoopInv
  <1>9. ASSUME NEW t \in Tracks PROVE TrackInv(t)'
    <2>1. TrackInv(t)
      BY DEF IInv
    <2>2. CASE t \notin mActiveTracks
      <3>1. track'[t] = track[t] /\ t \notin mActiveTracks' /\ t \notin tracksToRemove'
        BY <1>2, <1>5, <2>2
      <3> QED BY <1>1, <1>3, <2>1, <2>2, <3>1, Frame
    <2>3. CASE t \in mActiveTracks
      <3>1. /\ track'[t].terminated = track[t].terminated
            /\ t \notin gone => track'[t].mState # "IDLE" /\ track'[t].mRetryCount > 0
        <4>1. CASE t \in Fast
          <5>1. track'[t] = FastTrack(t) /\ (t \notin gone => ~FastLeaves(t))
            BY <1>2, <2>3, <4>1
          <5> QED BY <2>3, <5>1, FastFacts
        <4>2. CASE t \notin Fast
          <5>1. track'[t] = NormalTrack(t) /\ (t \notin gone => ~NormalLeaves(t))
            BY <1>2, <2>3, <4>2
          <5> QED BY <2>3, <5>1, NormalFacts
        <4> QED BY <4>1, <4>2
      <3>2. (t \in mActiveTracks' <=> t \notin gone) /\ (t \in tracksToRemove' <=> t \in gone)
        BY <1>2, <2>3
      <3> HIDE DEF gone
      <3>3. CallInv(t)' /\ ActiveInv(t)'
        BY <1>3, <2>1, <2>3, <3>1, <3>2 DEF TrackInv, CallInv, ActiveInv
      <3>4. PolicyInv(t)'
        BY <1>1, <1>3, <2>1, <2>3, <3>2 DEF TrackInv, PolicyInv, Bit
      <3>5. ReleaseInv(t)'
        <4>1. ReleaseInv(t) /\ releases[t] \in 0..2
          BY <1>1, <2>1 DEF TypeOK, TrackInv
        <4>2. /\ tracksToRemove \cup tChecking = {}
              /\ t \in (tracksToRemove \cup tChecking)' <=> t \in gone
          BY <1>1, <1>3, <3>2
        <4>3. /\ handle'[t] = handle[t] /\ releases'[t] = releases[t]
              /\ track'[t].terminated = track[t].terminated
          BY <1>3, <3>1
        <4> QED BY <2>3, <3>2, <4>1, <4>2, <4>3 DEF ReleaseInv, Bit
      <3> QED BY <3>3, <3>4, <3>5 DEF TrackInv
    <2> QED BY <2>2, <2>3
  <1> QED BY <1>7, <1>8, <1>9 DEF IInv

LEMMA IdleIInv == ASSUME IInv, Idle PROVE IInv'
  <1>1. TypeOK' /\ LoopInv'
    BY DEF IInv, TypeOK, LoopInv, Idle, binder
  <1>2. ASSUME NEW u \in Tracks PROVE TrackInv(u)'
    BY Frame DEF IInv, Idle, binder
  <1> QED BY <1>1, <1>2 DEF IInv

LEMMA WriteOutIInv == ASSUME IInv, WriteOut PROVE IInv'
  <1> DEFINE mixes == tStatus = "READY"
             writes == mixes \/ (sleeping /\ (written \/ tStatus = "ENABLED"))
             mixed == IF mixes THEN tMixed ELSE {}
             next(t) == IF writes THEN [track[t] EXCEPT !.left = Less(@)] ELSE track[t]
  <1>1. /\ TypeOK /\ LoopInv /\ track \in [Tracks -> Fields]
        /\ frames \in [Tracks -> 0..Full] /\ unheard \in [Tracks -> 0..Latency]
    BY DEF IInv, TypeOK
  <1>2. /\ frames' = [t \in Tracks |-> IF t \in mixed THEN Less(frames[t]) ELSE frames[t]]
        /\ unheard' = [t \in Tracks |-> IF t \in mixed THEN Latency
                                        ELSE IF writes THEN Less(unheard[t]) ELSE unheard[t]]
        /\ track' = [t \in Tracks |-> next(t)]
        /\ sleeping' = ~writes /\ mStandby' = (mStandby /\ ~writes)
        /\ written' = (written \/ writes)
    BY DEF WriteOut
  <1>3. tPc = "write" /\ tPc' = "stopping"
    BY DEF WriteOut
  <1>4. sleeping' \in BOOLEAN /\ mStandby' \in BOOLEAN /\ written' \in BOOLEAN
    BY <1>2
  <1> HIDE DEF mixes, writes, mixed
  <1>5. frames' \in [Tracks -> 0..Full] /\ unheard' \in [Tracks -> 0..Latency]
    BY <1>1, <1>2 DEF Less
  <1>6. ASSUME NEW t \in Tracks
        PROVE  /\ next(t) \in Fields /\ next(t).mState = track[t].mState
               /\ next(t).mRetryCount = track[t].mRetryCount
               /\ next(t).terminated = track[t].terminated
    <2> DEFINE l == Less(track[t].left)
    <2>1. track[t] \in Fields
      BY <1>1
    <2>2. l \in Unset..Latency
      BY <2>1 DEF Fields, Less, Unset
    <2>3. next(t) = track[t] \/ next(t) = [track[t] EXCEPT !.left = l]
      OBVIOUS
    <2> HIDE DEF l, next
    <2> QED BY <2>1, <2>2, <2>3 DEF Fields
  <1> HIDE DEF next
  <1>7. track' \in [Tracks -> Fields]
    BY <1>2, <1>6
  <1>8. TypeOK'
    BY <1>1, <1>3, <1>4, <1>5, <1>7 DEF TypeOK, WriteOut, binder
  <1>9. LoopInv'
    BY <1>1, <1>3 DEF LoopInv, WriteOut
  <1>10. ASSUME NEW u \in Tracks PROVE TrackInv(u)'
    <2>1. track'[u] = next(u)
      BY <1>2
    <2> QED BY <1>6, <2>1, Frame DEF IInv, WriteOut, binder
  <1> QED BY <1>8, <1>9, <1>10 DEF IInv

LEMMA StopOutputIInv == ASSUME NEW t \in Tracks, IInv, StopOutput(t) PROVE IInv'
  <1>1. /\ TypeOK /\ LoopInv /\ TrackInv(t) /\ policy \in [Tracks -> 0..2]
    BY DEF IInv, TypeOK
  <1>2. /\ tPc = "stopping" /\ tPc' = tPc /\ tChecking = {} /\ t \in tracksToRemove
        /\ policy' = [policy EXCEPT ![t] = @ - 1]
        /\ tracksToRemove' = tracksToRemove \ {t} /\ tChecking' = {t}
        /\ track' = track /\ mActiveTracks' = mActiveTracks /\ releases' = releases
        /\ call' = call /\ handle' = handle /\ overruled' = overruled
    BY DEF StopOutput, binder
  <1>3. policy[t] \in {1, 2}
    <2>1. policy[t] \in 0..2 /\ PolicyInv(t) /\ t \in tracksToRemove
      BY <1>1, <1>2 DEF TrackInv
    <2> QED BY <2>1 DEF PolicyInv, Bit
  <1>4. policy' \in [Tracks -> 0..2] /\ policy'[t] = policy[t] - 1
    BY <1>1, <1>2, <1>3
  <1>5. TypeOK'
    BY <1>1, <1>2, <1>4 DEF TypeOK, StopOutput, binder
  <1>6. LoopInv'
    BY <1>2 DEF LoopInv
  <1>7. ASSUME NEW u \in Tracks, u # t PROVE TrackInv(u)'
    <2>1. policy'[u] = policy[u]
      BY <1>1, <1>2, <1>7
    <2> QED BY <1>2, <1>7, <2>1, Frame DEF IInv
  <1>8. CallInv(t)' /\ ActiveInv(t)'
    BY <1>1, <1>2 DEF TrackInv, CallInv, ActiveInv
  <1>9. PolicyInv(t)'
    BY <1>1, <1>2, <1>3, <1>4 DEF TrackInv, PolicyInv, Bit
  <1>10. ReleaseInv(t)'
    BY <1>1, <1>2 DEF TrackInv, ReleaseInv
  <1> QED BY <1>5, <1>6, <1>7, <1>8, <1>9, <1>10 DEF IInv, TrackInv

LEMMA CheckReleaseIInv == ASSUME NEW t \in Tracks, IInv, CheckRelease(t) PROVE IInv'
  <1>1. TypeOK /\ LoopInv /\ TrackInv(t) /\ releases \in [Tracks -> 0..2]
    BY DEF IInv, TypeOK
  <1>2. /\ t \in tChecking /\ tChecking' = {} /\ tPc' = tPc
        /\ tracksToRemove' = tracksToRemove
        /\ track' = track /\ mActiveTracks' = mActiveTracks /\ policy' = policy
        /\ call' = call /\ handle' = handle /\ overruled' = overruled
    BY DEF CheckRelease, binder
  <1>3. \/ track[t].terminated /\ releases' = [releases EXCEPT ![t] = @ + 1]
        \/ releases' = releases
    BY DEF CheckRelease, LastStop
  <1>4. t \notin tracksToRemove /\ releases[t] \in 0..2 /\ releases[t] <= 1
    BY <1>1, <1>2 DEF LoopInv, TrackInv, ReleaseInv, Bit
  <1>5. /\ releases' \in [Tracks -> 0..2]
        /\ \/ track[t].terminated /\ releases'[t] = releases[t] + 1
           \/ releases'[t] = releases[t]
    BY <1>1, <1>3, <1>4
  <1>6. TypeOK'
    BY <1>1, <1>2, <1>5 DEF TypeOK, CheckRelease, binder
  <1>7. LoopInv'
    BY <1>1, <1>2 DEF LoopInv
  <1>8. ASSUME NEW u \in Tracks PROVE CallInv(u)' /\ PolicyInv(u)' /\ ActiveInv(u)'
    BY <1>2 DEF IInv, TrackInv, CallInv, PolicyInv, ActiveInv
  <1>9. ASSUME NEW u \in Tracks, u # t PROVE ReleaseInv(u)'
    <2>1. releases'[u] = releases[u] /\ ReleaseInv(u) /\ releases[u] \in 0..2
      BY <1>1, <1>3, <1>9 DEF IInv, TrackInv
    <2> QED BY <1>2, <2>1 DEF ReleaseInv, Bit
  <1>10. ReleaseInv(t)'
    BY <1>1, <1>2, <1>4, <1>5 DEF TrackInv, ReleaseInv, Bit
  <1> QED BY <1>6, <1>7, <1>8, <1>9, <1>10 DEF IInv, TrackInv

LEMMA EndLoopIInv == ASSUME IInv, EndLoop PROVE IInv'
  <1>1. TypeOK' /\ LoopInv'
    BY DEF IInv, TypeOK, LoopInv, EndLoop, binder
  <1>2. ASSUME NEW u \in Tracks PROVE TrackInv(u)'
    BY Frame DEF IInv, EndLoop, binder
  <1> QED BY <1>1, <1>2 DEF IInv

LEMMA StutterIInv == IInv /\ UNCHANGED vars => IInv'
  <1> SUFFICES ASSUME IInv, UNCHANGED vars PROVE IInv'
    OBVIOUS
  <1>1. TypeOK' /\ LoopInv'
    BY DEF IInv, TypeOK, LoopInv, vars, loop, binder
  <1>2. ASSUME NEW u \in Tracks PROVE TrackInv(u)'
    BY Frame DEF IInv, vars, loop, binder
  <1> QED BY <1>1, <1>2 DEF IInv

-------------------------------------------------------------------------------
(* The invariant holds, and what follows from it.                          *)

LEMMA NextIInv == IInv /\ [Next]_vars => IInv'
  <1> SUFFICES ASSUME IInv, [Next]_vars PROVE IInv'
    OBVIOUS
  <1>1. ASSUME NEW t \in Tracks,
               Start(t) \/ Stop(t) \/ Pause(t) \/ Flush(t) \/ Destroy(t) \/ Write(t)
                 \/ FastMix(t)
        PROVE  IInv'
    BY <1>1, StartIInv, StopIInv, PauseIInv, FlushIInv, DestroyIInv, WriteIInv, FastMixIInv
  <1>2. ASSUME NEW t \in Tracks, Binder(t) PROVE IInv'
    BY <1>2, AskIInv, RelockIInv, UndoIInv, ReleaseIInv DEF Binder
  <1>3. CASE Loop
    BY <1>3, PrepareIInv, IdleIInv, WriteOutIInv, EndLoopIInv, StopOutputIInv,
       CheckReleaseIInv DEF Loop
  <1>4. CASE AllGone \/ UNCHANGED vars
    BY <1>4, StutterIInv DEF AllGone
  <1> QED BY <1>1, <1>2, <1>3, <1>4 DEF Next

\* What the binder threads, the loop and the fast mixer rely on of each other
\* holds throughout, whatever the order of their steps.
THEOREM Invariance == Spec => []IInv
  BY InitIInv, NextIInv, PTL DEF Spec

\* The unlocked windows of addTrack_l() and threadLoop_removeTracks() lose no
\* startOutput() and no stopOutput().
THEOREM PolicyIsBalanced == Spec => []PolicyBalanced
  <1>1. IInv => PolicyBalanced
    BY DEF IInv, TrackInv, PolicyInv, PolicyBalanced, Bit
  <1> QED BY <1>1, Invariance, PTL

\* prepareTracks_l() meets no active track that is IDLE.
THEOREM NoStateUnexpected == Spec => []NoUnexpectedState
  <1>1. IInv => NoUnexpectedState
    BY DEF IInv, TypeOK, TrackInv, ActiveInv, NoUnexpectedState
  <1> QED BY <1>1, Invariance, PTL

\* addTrack_l() notices every stop, pause and flush made while it was unlocked:
\* the start() that met one does not make the track active.
THEOREM StopIsNotUndone == Spec => StopNotUndone
  <1> DEFINE A == \A t \in Tracks : t \in mActiveTracks' \ mActiveTracks => ~overruled[t]
  <1>1. IInv /\ Next => A
    <2> SUFFICES ASSUME IInv, Next, NEW t \in mActiveTracks' \ mActiveTracks, t \in Tracks
                 PROVE  ~overruled[t]
      OBVIOUS
    <2>1. PICK u \in Tracks : Relock(u)
      BY DEF Next, Loop, Binder, Start, Stop, Pause, Flush, EndWith, Destroy, Write,
             FastMix,
             Ask, Undo, Release, Prepare, Idle, WriteOut, EndLoop, StopOutput, CheckRelease,
             AllGone, vars
    <2>2. u = t /\ call[t].pc = "granted" /\ ~Overruled(t)
      BY <2>1 DEF Relock
    <2>3. CallInv(t)
      BY DEF IInv, TrackInv
    <2> QED BY <2>2, <2>3 DEF CallInv, Overruled
  <1>2. IInv /\ [Next]_vars => [A]_vars
    BY <1>1
  <1> QED BY <1>2, Invariance, PTL DEF Spec, StopNotUndone

===============================================================================
