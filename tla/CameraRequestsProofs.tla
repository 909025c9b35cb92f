------------------------- MODULE CameraRequestsProofs -------------------------
(***************************************************************************)
(* For any session parameters, lengths of the queues and depth of the HAL: *)
(* the HAL is configured only while it has nothing to do, the device makes *)
(* no error of its own, and a drained device is idle.                      *)
(*                                                                         *)
(* Throughout, no call waits for idleness while a request with new session *)
(* parameters is pending (~Careless), and no request is submitted while a  *)
(* report of idleness is under way (~SlowTracker).                         *)
(***************************************************************************)
EXTENDS CameraRequests, SequenceTheorems, WellFoundedInduction, TLAPS

USE CameraAssumption

Bit(p) == IF p THEN 1 ELSE 0

-------------------------------------------------------------------------------
(* The inductive invariant.                                                *)

\* The device has neither failed nor been told to exit.
Live == mStatus \in {"UNCONFIGURED", "CONFIGURED", "ACTIVE"} /\ ~exitPending

\* The lock belongs to the call or to the reconfiguration; only disconnect() ends
\* the thread, and it does not let go of the lock before the device is closed.
LockInv ==
    /\ mInterfaceLock = "api" <=> aPc \notin Returned
    /\ mInterfaceLock = "request" <=> rPc = "reconfWait"
    /\ aPc = "join" => exitPending
    /\ exitPending => aPc = "join" \/ mStatus = "UNINITIALIZED"
    /\ mStatus = "UNINITIALIZED" \/ rPc = "exited" => exitPending
    /\ mStatus = "UNINITIALIZED" => aPc = "idle"

\* What is registered is at the HAL or about to be sent.
FlightInv ==
    /\ mStatus = "UNINITIALIZED" => atHal = 0
    /\ \/ inFlight = atHal + Bit(rPc = "send")
       \/ mStatus = "UNINITIALIZED" /\ inFlight = 0

\* A thread with a request in hand is not paused.
HandInv ==
    rPc \in {"notify", "reconf", "reconfWait", "unpause", "prepare", "send"} => ~mPaused

\* The thread is asked to pause only by createStream() and by itself, a paused thread
\* has nothing to do, and the HAL has the latest parameters except while they are new.
ThreadInv ==
    /\ HandInv
    /\ Live /\ mDoPause => aPc = "pause" \/ rPc \in {"reconfWait", "unpause"}
    /\ Live /\ mPaused =>
           \/ mRequestQueue = <<>> /\ mRepeatingRequests = None
           \/ aPc \in {"pause", "resume"}
    /\ Live /\ mLatestSessionParams # mSessionParams =>
           rPc \in {"notify", "reconf", "reconfWait"}

\* A call that waits for idleness, or for the end of a pause, meets no new parameters.
CallInv ==
    Live =>
    /\ aPc \in {"drain", "close", "pause", "resume"} => ~ParamsPending
    /\ aPc \in {"pause", "resume"} => mRepeatingRequests # None
    /\ aPc = "pause" => mDoPause /\ (mPaused => rPc = "top")

\* What the thread has told the tracker of itself.
Awake == ~mPaused /\ rPc \notin {"reconf", "reconfWait", "unpause"}

\* The states of the components after the first i pending changes, and after all.
StatesAfter(i) == Collected(mStates, mPendingChangeQueue)[i].states
Reported == StatesAfter(Len(mPendingChangeQueue))

\* The device as a whole is up after every pending change but the last.
UpBefore == \A i \in 1..(Len(mPendingChangeQueue) - 1) : DeviceState(StatesAfter(i))

\* All reports together tell the truth, and the whole is not reported idle before the
\* last of them.
ReportInv ==
    /\ mDeviceState = DeviceState(mStates)
    /\ Live => /\ Reported["request"] = Awake /\ Reported["inflight"] = (inFlight > 0)
               /\ UpBefore

\* Everything is idle, and no report is under way.
Settled ==
    /\ mPendingChangeQueue = <<>> /\ mStateTransitions = <<>> /\ mStates = Idle
    /\ ~Awake /\ inFlight = 0

\* Once idleness is on its way to the device, nothing is reported until it arrives.
TransitionInv ==
    Live =>
    /\ mStateTransitions \in {<<>>, <<TRUE>>, <<FALSE>>, <<TRUE, FALSE>>}
    /\ FALSE \in Range(mStateTransitions) =>
           mPendingChangeQueue = <<>> /\ mStates = Idle /\ ~Awake /\ inFlight = 0

\* A device that is configured, and one that is active, was told so last; a reconfigured
\* device is active before the tracker knows.
ConfiguredTold ==
    IF mDeviceState THEN mStateTransitions = <<TRUE>>
    ELSE mStateTransitions \in {<<>>, <<TRUE, FALSE>>}
ActiveTold ==
    IF mDeviceState THEN mStateTransitions \in {<<>>, <<TRUE>>}
    ELSE \/ mStateTransitions \in {<<FALSE>>, <<TRUE, FALSE>>}
         \/ /\ mStateTransitions = <<>>
            /\ \/ rPc = "unpause"
               \/ mPendingChangeQueue # <<>> /\ mPendingChangeQueue[1].active

\* The status of the device is what the tracker told it last.
StatusInv ==
    /\ mStatus = "UNCONFIGURED" =>
           Settled /\ mPaused /\ aPc = "idle" /\ rPc \in {"top", "wait"} /\ ~mDoPause
    /\ mStatus = "CONFIGURED" => ConfiguredTold
    /\ mStatus = "ACTIVE" => ActiveTold
    /\ rPc = "unpause" => Settled /\ mStatus = "ACTIVE"

\* A device that is configured and not being started is settled.
SettledInv ==
    /\ mStatus = "CONFIGURED" /\ aPc \notin {"submit", "resume"} => Settled
    /\ mStatus = "CONFIGURED" /\ aPc = "submit" /\ TRUE \in mRecentStatusUpdates => Settled
    /\ aPc = "resume" /\ mPaused =>
           Settled /\ mStatus = "CONFIGURED" /\ TRUE \notin mRecentStatusUpdates
    /\ aPc = "resume" /\ TRUE \in mRecentStatusUpdates => mStatus = "ACTIVE"
    /\ aPc \in {"drain", "pause", "close"} \/ rPc = "reconfWait" =>
           (FALSE \in mRecentStatusUpdates => mStatus # "ACTIVE")

IInv ==
    /\ TypeOK /\ LockInv /\ FlightInv /\ ThreadInv /\ CallInv
    /\ ReportInv /\ TransitionInv /\ (Live => StatusInv /\ SettledInv)
    /\ ~disturbed /\ NoOwnError

-------------------------------------------------------------------------------
(* The tracker's pass over the pending changes.                            *)

\* A set of natural numbers has a least one.
LEMMA Least ==
    ASSUME NEW S \in SUBSET Nat, S # {} PROVE \E m \in S : \A y \in S : m <= y
  <1> DEFINE R == OpToRel(<, Nat)
  <1>1. IsWellFoundedOn(R, Nat)
    BY NatLessThanWellFounded
  <1>2. \A x, y \in Nat : x < y => <<x, y>> \in R
    BY DEF OpToRel
  <1> HIDE DEF R
  <1>3. PICK m \in S : \A y \in S : ~(<<y, m>> \in R)
    BY <1>1, WFMin
  <1>4. ASSUME NEW y \in S PROVE m <= y
    <2>1. ~(y < m)
      BY <1>2, <1>3, Zenon
    <2> QED BY <2>1
  <1> QED BY <1>4

States == [Components -> BOOLEAN]
Totals == [states : States, transitions : Seq(BOOLEAN)]

LEMMA AppliedType ==
    ASSUME NEW acc \in Totals, NEW change \in Changes
    PROVE  /\ Applied(acc, change) \in Totals
           /\ Applied(acc, change).states =
                  [acc.states EXCEPT ![change.id] = change.active]
  <1> DEFINE states == [acc.states EXCEPT ![change.id] = change.active]
             transitions == IF DeviceState(states) = DeviceState(acc.states)
                            THEN acc.transitions
                            ELSE Append(acc.transitions, DeviceState(states))
  <1>1. Applied(acc, change) = [states |-> states, transitions |-> transitions]
    BY DEF Applied
  <1>2. states \in States
    BY DEF Totals, States, Changes
  <1>3. transitions \in Seq(BOOLEAN)
    <2>1. acc.transitions \in Seq(BOOLEAN) /\ DeviceState(states) \in BOOLEAN
      BY DEF Totals, DeviceState
    <2>2. ASSUME NEW t \in Seq(BOOLEAN), NEW b \in BOOLEAN PROVE Append(t, b) \in Seq(BOOLEAN)
      OBVIOUS
    <2>3. Append(acc.transitions, DeviceState(states)) \in Seq(BOOLEAN)
      BY <2>1, <2>2, Zenon
    <2> QED BY <2>1, <2>3, Zenon
  <1> HIDE DEF states, transitions
  <1>4. Applied(acc, change) \in Totals /\ Applied(acc, change).states = states
    BY <1>1, <1>2, <1>3 DEF Totals
  <1> QED BY <1>4 DEF states

\* The recursion of Collected has a solution.
LEMMA CollectedExists ==
    ASSUME NEW states \in States, NEW changes \in Seq(Changes)
    PROVE  \E r \in [0..Len(changes) -> Totals] :
               r = [i \in 0..Len(changes) |->
                        IF i = 0 THEN [states |-> states, transitions |-> <<>>]
                        ELSE Applied(r[i - 1], changes[i])]
  <1> DEFINE base == [states |-> states, transitions |-> <<>>]
             Solves(r, n) == /\ r \in [0..n -> Totals] /\ r[0] = base
                             /\ \A i \in 1..n : r[i] = Applied(r[i - 1], changes[i])
             Bad == {n \in 0..Len(changes) : ~ \E r : Solves(r, n)}
  <1>1. base \in Totals
    BY DEF Totals
  <1> HIDE DEF base
  <1>2. Bad = {}
    <2> SUFFICES ASSUME Bad # {} PROVE FALSE
      OBVIOUS
    <2>1. PICK m \in Bad : \A y \in Bad : m <= y
      <3>1. Bad \in SUBSET Nat
        OBVIOUS
      <3> HIDE DEF Bad
      <3> QED BY <3>1, Least
    <2>2. m # 0
      <3>1. Solves([i \in 0..0 |-> base], 0)
        BY <1>1
      <3> QED BY <3>1, <2>1
    <2>3. m - 1 \in 0..Len(changes) /\ m - 1 \notin Bad /\ m \in 1..Len(changes)
      <3>1. Len(changes) \in Nat /\ m \in 0..Len(changes)
        BY <2>1
      <3>2. m - 1 \in 0..Len(changes) /\ m \in 1..Len(changes) /\ ~ (m <= m - 1)
        BY <3>1, <2>2
      <3> HIDE DEF Bad
      <3> QED BY <2>1, <3>2, Zenon
    <2>4. PICK r : Solves(r, m - 1)
      BY <2>3
    <2> DEFINE s == [i \in 0..m |-> IF i = m THEN Applied(r[m - 1], changes[m]) ELSE r[i]]
    <2>5. Solves(s, m)
      <3>1. changes[m] \in Changes /\ r[m - 1] \in Totals
        BY <2>3, <2>4
      <3>2. Applied(r[m - 1], changes[m]) \in Totals
        BY <3>1, AppliedType
      <3>3. s \in [0..m -> Totals]
        BY <2>3, <2>4, <3>2
      <3>4. s[0] = base
        BY <2>3, <2>4
      <3>5. ASSUME NEW i \in 1..m PROVE s[i] = Applied(s[i - 1], changes[i])
        BY <2>3, <2>4
      <3> QED BY <3>3, <3>4, <3>5
    <2> QED BY <2>1, <2>5
  <1>3. PICK r : Solves(r, Len(changes))
    BY <1>2
  <1>4. r = [i \in 0..Len(changes) |->
                 IF i = 0 THEN base ELSE Applied(r[i - 1], changes[i])]
    BY <1>3
  <1> QED BY <1>3, <1>4 DEF base

LEMMA CollectedDef ==
    ASSUME NEW states \in States, NEW changes \in Seq(Changes)
    PROVE  /\ Collected(states, changes) \in [0..Len(changes) -> Totals]
           /\ Collected(states, changes)[0] = [states |-> states, transitions |-> <<>>]
           /\ \A i \in 1..Len(changes) :
                  Collected(states, changes)[i] =
                      Applied(Collected(states, changes)[i - 1], changes[i])
  <1> DEFINE Is(r) == r = [i \in 0..Len(changes) |->
                              IF i = 0 THEN [states |-> states, transitions |-> <<>>]
                              ELSE Applied(r[i - 1], changes[i])]
             c == Collected(states, changes)
  <1>1. c = CHOOSE r : Is(r)
    BY DEF Collected
  <1>2. \E r : Is(r)
    BY CollectedExists
  <1>3. Is(c)
    BY <1>1, <1>2, Zenon
  <1> HIDE DEF c
  <1>4. /\ c = [i \in 0..Len(changes) |-> c[i]]
        /\ c[0] = [states |-> states, transitions |-> <<>>]
        /\ \A i \in 1..Len(changes) : c[i] = Applied(c[i - 1], changes[i])
    <2>1. Len(changes) \in Nat
      OBVIOUS
    <2>2. c[0] = [states |-> states, transitions |-> <<>>]
      BY <1>3, <2>1
    <2>3. ASSUME NEW i \in 1..Len(changes) PROVE c[i] = Applied(c[i - 1], changes[i])
      <3>1. i \in 0..Len(changes) /\ i # 0
        BY <2>1
      <3> QED BY <1>3, <3>1
    <2>4. c = [i \in 0..Len(changes) |-> c[i]]
      BY <1>3
    <2> QED BY <2>2, <2>3, <2>4
  <1> HIDE DEF Is
  <1>5. \A i \in 0..Len(changes) : c[i] \in Totals
    <2> DEFINE Bad == {i \in 0..Len(changes) : c[i] \notin Totals}
    <2>1. Bad \in SUBSET Nat
      OBVIOUS
    <2> SUFFICES ASSUME Bad # {} PROVE FALSE
      OBVIOUS
    <2>2. PICK m \in Bad : \A y \in Bad : m <= y
      <3> HIDE DEF Bad
      <3> QED BY <2>1, Least
    <2>3. m \in 1..Len(changes) /\ m - 1 \in 0..Len(changes)
      <3>1. [states |-> states, transitions |-> <<>>] \in Totals
        BY DEF Totals
      <3>2. c[0] \in Totals
        BY <1>4, <3>1
      <3> QED BY <2>2, <3>2
    <2>4. c[m - 1] \in Totals
      BY <2>2, <2>3
    <2>5. changes[m] \in Changes
      BY <2>3
    <2>6. c[m] \in Totals
      <3>1. Applied(c[m - 1], changes[m]) \in Totals
        BY <2>4, <2>5, AppliedType
      <3>2. c[m] = Applied(c[m - 1], changes[m])
        BY <1>4, <2>3
      <3> QED BY <3>1, <3>2
    <2> QED BY <2>2, <2>6
  <1>6. c \in [0..Len(changes) -> Totals]
    BY <1>4, <1>5
  <1> QED BY <1>4, <1>6 DEF c

\* One more change leaves the earlier states as they are.
LEMMA CollectedAppend ==
    ASSUME NEW states \in States, NEW changes \in Seq(Changes), NEW change \in Changes
    PROVE  /\ \A i \in 0..Len(changes) :
                  Collected(states, Append(changes, change))[i] = Collected(states, changes)[i]
           /\ Collected(states, Append(changes, change))[Len(changes) + 1] =
                  Applied(Collected(states, changes)[Len(changes)], change)
  <1> DEFINE c == Collected(states, changes)
             more == Append(changes, change)
             d == Collected(states, more)
             n == Len(changes)
  <1>1. more \in Seq(Changes) /\ Len(more) = n + 1 /\ n \in Nat /\ more[n + 1] = change
        /\ \A i \in 1..n : more[i] = changes[i]
    OBVIOUS
  <1> HIDE DEF more
  <1>2. d[0] = c[0] /\ \A i \in 1..Len(more) : d[i] = Applied(d[i - 1], more[i])
    BY <1>1, CollectedDef
  <1>3. \A i \in 1..n : c[i] = Applied(c[i - 1], changes[i])
    BY CollectedDef
  <1> HIDE DEF c, d, n
  <1>4. \A i \in 0..n : d[i] = c[i]
    <2> DEFINE Bad == {i \in 0..n : d[i] # c[i]}
    <2>1. Bad \in SUBSET Nat
      BY <1>1
    <2> SUFFICES ASSUME Bad # {} PROVE FALSE
      OBVIOUS
    <2>2. PICK m \in Bad : \A y \in Bad : m <= y
      <3> HIDE DEF Bad
      <3> QED BY <2>1, Least
    <2>3. m \in 1..n /\ m - 1 \in 0..n
      BY <1>1, <1>2, <2>2
    <2>4. m - 1 \notin Bad
      BY <2>1, <2>2, <2>3
    <2>5. d[m - 1] = c[m - 1]
      BY <2>3, <2>4
    <2>6. d[m] = Applied(d[m - 1], more[m]) /\ c[m] = Applied(c[m - 1], changes[m])
          /\ more[m] = changes[m]
      BY <1>1, <1>2, <1>3, <2>3
    <2>7. d[m] = c[m]
      BY <2>5, <2>6, Zenon
    <2> QED BY <2>2, <2>7
  <1>5. d[n + 1] = Applied(c[n], change)
    <2>1. d[n + 1] = Applied(d[n], change)
      <3>1. n + 1 \in 1..Len(more) /\ (n + 1) - 1 = n
        BY <1>1
      <3>2. d[n + 1] = Applied(d[(n + 1) - 1], more[n + 1])
        BY <1>2, <3>1, Zenon
      <3> QED BY <1>1, <3>1, <3>2, Zenon
    <2>2. n \in 0..n
      BY <1>1
    <2> QED BY <1>4, <2>1, <2>2, Zenon
  <1> QED BY <1>4, <1>5 DEF c, d, more, n

\* The whole is up after every change but the last: what the tracker then tells the
\* device depends on the first state and on the last.
LEMMA CollectedTransitions ==
    ASSUME NEW states \in States, NEW changes \in Seq(Changes), changes # <<>>,
           \A i \in 1..(Len(changes) - 1) : DeviceState(Collected(states, changes)[i].states)
    PROVE  LET total == Collected(states, changes)[Len(changes)] IN
           /\ DeviceState(states) /\ DeviceState(total.states) => total.transitions = <<>>
           /\ DeviceState(states) /\ ~DeviceState(total.states) => total.transitions = <<FALSE>>
           /\ ~DeviceState(states) /\ DeviceState(total.states) => total.transitions = <<TRUE>>
           /\ ~DeviceState(states) /\ ~DeviceState(total.states) =>
                  total.transitions = IF Len(changes) = 1 THEN <<>> ELSE <<TRUE, FALSE>>
  <1> DEFINE c == Collected(states, changes)
             n == Len(changes)
             up(i) == DeviceState(c[i].states)
             first == IF DeviceState(states) THEN <<>> ELSE <<TRUE>>
  <1>1. n \in Nat \ {0}
    OBVIOUS
  <1>2. c[0].states = states /\ c[0].transitions = <<>>
    <2>1. c[0] = [states |-> states, transitions |-> <<>>]
      BY CollectedDef, Zenon
    <2> HIDE DEF c
    <2> QED BY <2>1
  <1>3. ASSUME NEW i \in 1..n
        PROVE  /\ up(i) = up(i - 1) => c[i].transitions = c[i - 1].transitions
               /\ up(i) # up(i - 1) => c[i].transitions = Append(c[i - 1].transitions, up(i))
    <2>1. c[i] = Applied(c[i - 1], changes[i])
      BY CollectedDef
    <2> QED BY <2>1 DEF Applied
  <1>4. \A i \in 0..n : up(i) \in BOOLEAN
    BY DEF DeviceState
  <1>5. \A i \in 1..(n - 1) : up(i)
    OBVIOUS
  <1>6. up(0) = DeviceState(states)
    BY <1>2
  <1> HIDE DEF c, n, up
  <1>7. \A i \in 1..(n - 1) : c[i].transitions = first
    <2> DEFINE Bad == {i \in 1..(n - 1) : c[i].transitions # first}
    <2>1. Bad \in SUBSET Nat
      BY <1>1
    <2> SUFFICES ASSUME Bad # {} PROVE FALSE
      OBVIOUS
    <2>2. PICK m \in Bad : \A y \in Bad : m <= y
      <3> HIDE DEF Bad
      <3> QED BY <2>1, Least
    <2>3. m \in 1..n /\ up(m) /\ c[m].transitions # first
      BY <1>1, <1>5, <2>2
    <2>4. CASE m = 1
      <3>1. Append(<<>>, TRUE) = <<TRUE>>
        OBVIOUS
      <3>2. up(1) = up(0) => c[1].transitions = c[0].transitions
        BY <1>3, <2>3, <2>4
      <3>3. up(1) # up(0) => c[1].transitions = Append(c[0].transitions, up(1))
        BY <1>3, <2>3, <2>4
      <3>4. up(1) = TRUE /\ up(0) \in BOOLEAN
        BY <1>1, <1>4, <2>3, <2>4
      <3>5. c[1].transitions = first
        BY <1>2, <1>6, <3>1, <3>2, <3>3, <3>4, Zenon
      <3> QED BY <2>3, <2>4, <3>5
    <2>5. CASE m # 1
      <3>1. m - 1 \in 1..(n - 1) /\ ~(m <= m - 1)
        BY <1>1, <2>3, <2>5
      <3>a. m - 1 \notin Bad
        BY <2>2, <3>1, Zenon
      <3>2. up(m - 1) /\ c[m - 1].transitions = first
        BY <1>5, <3>1, <3>a
      <3>3. up(m) = up(m - 1)
        <4>1. m \in 0..n /\ m - 1 \in 0..n
          BY <1>1, <2>3, <3>1
        <4> QED BY <1>4, <2>3, <3>2, <4>1, Zenon
      <3> QED BY <1>3, <2>3, <3>2, <3>3
    <2> QED BY <2>4, <2>5
  <1>8. n \in 1..n
    BY <1>1
  <1>9. CASE n = 1
    <2>1. /\ up(1) = up(0) => c[1].transitions = c[0].transitions
          /\ up(1) # up(0) => c[1].transitions = Append(c[0].transitions, up(1))
      BY <1>3, <1>8, <1>9
    <2>2. up(1) \in BOOLEAN /\ up(0) \in BOOLEAN
      BY <1>4, <1>9
    <2>3. Append(<<>>, TRUE) = <<TRUE>> /\ Append(<<>>, FALSE) = <<FALSE>>
      OBVIOUS
    <2>4. /\ up(0) /\ up(1) => c[1].transitions = <<>>
          /\ up(0) /\ ~up(1) => c[1].transitions = <<FALSE>>
          /\ ~up(0) /\ up(1) => c[1].transitions = <<TRUE>>
          /\ ~up(0) /\ ~up(1) => c[1].transitions = <<>>
      <3>1. CASE up(1) = TRUE
        BY <1>2, <2>1, <2>2, <2>3, <3>1, Zenon
      <3>2. CASE up(1) = FALSE
        BY <1>2, <2>1, <2>2, <2>3, <3>2, Zenon
      <3> QED BY <2>2, <3>1, <3>2, Zenon
    <2> QED BY <1>6, <1>9, <2>4 DEF c, n, up
  <1>10. CASE n # 1
    <2>1. n - 1 \in 1..(n - 1) /\ n - 1 \in 0..n
      BY <1>1, <1>10
    <2>2. up(n - 1) /\ c[n - 1].transitions = first
      BY <1>5, <1>7, <2>1
    <2>3. up(n) \in BOOLEAN /\ up(n - 1) = TRUE
      <3>1. up(n) \in BOOLEAN /\ up(n - 1) \in BOOLEAN
        BY <1>1, <1>4, <2>1
      <3> QED BY <2>2, <3>1, Zenon
    <2>4. /\ up(n) = TRUE => c[n].transitions = first
          /\ up(n) = FALSE => c[n].transitions = Append(first, FALSE)
      <3>1. /\ up(n) = up(n - 1) => c[n].transitions = c[n - 1].transitions
            /\ up(n) # up(n - 1) => c[n].transitions = Append(c[n - 1].transitions, up(n))
        BY <1>3, <1>8
      <3> HIDE DEF first
      <3> QED BY <2>2, <2>3, <3>1, Zenon
    <2>5. Append(<<>>, FALSE) = <<FALSE>> /\ Append(<<TRUE>>, FALSE) = <<TRUE, FALSE>>
      <3>1. ASSUME NEW a \in BOOLEAN, NEW b \in BOOLEAN PROVE Append(<<a>>, b) = <<a, b>>
        <4> DEFINE s == Append(<<a>>, b)
                   t == <<a, b>>
        <4>1. s \in Seq(BOOLEAN) /\ Len(s) = 2 /\ s[1] = a /\ s[2] = b
          OBVIOUS
        <4>2. t \in Seq(BOOLEAN) /\ Len(t) = 2 /\ t[1] = a /\ t[2] = b
          OBVIOUS
        <4> HIDE DEF s, t
        <4>3. \A i \in 1..Len(s) : s[i] = t[i]
          BY <4>1, <4>2
        <4>4. s = t
          BY <4>1, <4>2, <4>3, SeqEqual
        <4> QED BY <4>4 DEF s, t
      <3>2. Append(<<>>, FALSE) = <<FALSE>>
        OBVIOUS
      <3> QED BY <3>1, <3>2, Zenon
    <2>6. /\ DeviceState(states) /\ up(n) => c[n].transitions = <<>>
          /\ DeviceState(states) /\ ~up(n) => c[n].transitions = <<FALSE>>
          /\ ~DeviceState(states) /\ up(n) => c[n].transitions = <<TRUE>>
          /\ ~DeviceState(states) /\ ~up(n) => c[n].transitions = <<TRUE, FALSE>>
      BY <2>3, <2>4, <2>5, Zenon
    <2> QED BY <1>10, <2>6 DEF c, n, up
  <1> QED BY <1>9, <1>10

-------------------------------------------------------------------------------
(* What a report does to the reports under way.                            *)

LEMMA TrackerTyped ==
    ASSUME TypeOK
    PROVE  mStates \in States /\ mPendingChangeQueue \in Seq(Changes)
           /\ mStateTransitions \in Seq(BOOLEAN) /\ mDeviceState \in BOOLEAN
  BY DEF TypeOK, TrackerTypes, States

LEMMA ReportedTyped ==
    ASSUME TypeOK
    PROVE  /\ Reported \in States
           /\ \A i \in 0..Len(mPendingChangeQueue) : StatesAfter(i) \in States
  <1> DEFINE c == Collected(mStates, mPendingChangeQueue)
  <1>1. c \in [0..Len(mPendingChangeQueue) -> Totals] /\ Len(mPendingChangeQueue) \in Nat
    <2>1. mStates \in States /\ mPendingChangeQueue \in Seq(Changes)
      BY TrackerTyped
    <2>2. c \in [0..Len(mPendingChangeQueue) -> Totals]
      BY <2>1, CollectedDef, Zenon
    <2> HIDE DEF c
    <2> QED BY <2>1, <2>2
  <1> HIDE DEF c
  <1>2. \A i \in 0..Len(mPendingChangeQueue) : c[i].states \in States
    BY <1>1 DEF Totals
  <1> QED BY <1>1, <1>2 DEF Reported, StatesAfter, c

LEMMA NothingPending ==
    ASSUME TypeOK, mPendingChangeQueue = <<>> PROVE Reported = mStates /\ UpBefore
  <1>1. Collected(mStates, mPendingChangeQueue)[0]
            = [states |-> mStates, transitions |-> <<>>]
    BY TrackerTyped, CollectedDef, Zenon
  <1>2. Len(mPendingChangeQueue) = 0
    OBVIOUS
  <1>3. Reported = mStates
    BY <1>1, <1>2 DEF Reported, StatesAfter
  <1>4. 1..(Len(mPendingChangeQueue) - 1) = {}
    BY <1>2
  <1> QED BY <1>3, <1>4 DEF UpBefore

LEMMA TrackerKept ==
    ASSUME UNCHANGED tracker
    PROVE  Reported' = Reported /\ UpBefore' = UpBefore
  <1>1. mStates' = mStates /\ mPendingChangeQueue' = mPendingChangeQueue
    BY DEF tracker
  <1> QED BY <1>1 DEF Reported, StatesAfter, UpBefore

\* A report is the last word about its component.
LEMMA Marked ==
    ASSUME TypeOK, NEW c \in Components, NEW a \in BOOLEAN, Mark(c, a)
    PROVE  /\ Reported' = [Reported EXCEPT ![c] = a]
           /\ UpBefore /\ (mPendingChangeQueue # <<>> => DeviceState(Reported)) => UpBefore'
           /\ mPendingChangeQueue' # <<>> /\ mPendingChangeQueue' \in Seq(Changes)
           /\ mPendingChangeQueue'[1] = IF mPendingChangeQueue = <<>>
                                        THEN [id |-> c, active |-> a]
                                        ELSE mPendingChangeQueue[1]
  <1> DEFINE q == mPendingChangeQueue
             ch == [id |-> c, active |-> a]
             old == Collected(mStates, q)
             new == Collected(mStates, Append(q, ch))
  <1>1. q \in Seq(Changes) /\ mStates \in States /\ ch \in Changes
    BY TrackerTyped DEF Changes
  <1>2. mPendingChangeQueue' = Append(q, ch) /\ mStates' = mStates
    BY DEF Mark
  <1>3. /\ \A i \in 0..Len(q) : new[i] = old[i]
        /\ new[Len(q) + 1] = Applied(old[Len(q)], ch)
    BY <1>1, CollectedAppend
  <1>4. Len(q) \in Nat /\ Len(Append(q, ch)) = Len(q) + 1 /\ Append(q, ch) # <<>>
        /\ Append(q, ch) \in Seq(Changes)
        /\ Append(q, ch)[1] = IF q = <<>> THEN ch ELSE q[1]
    <2> HIDE DEF ch, q
    <2>1. Len(q) \in Nat /\ Len(Append(q, ch)) = Len(q) + 1 /\ Append(q, ch) \in Seq(Changes)
      BY <1>1
    <2>2. Append(q, ch) # <<>>
      BY <1>1, <2>1
    <2>3. CASE q = <<>>
      BY <1>1, <2>3
    <2>4. CASE q # <<>>
      <3>1. 1 \in 1..Len(q)
        BY <1>1, <2>4
      <3>2. Append(q, ch)[1] = q[1]
        BY <1>1, <3>1
      <3> QED BY <2>1, <2>2, <2>4, <3>2
    <2> QED BY <2>1, <2>2, <2>3, <2>4
  <1>5. old[Len(q)] \in Totals
    <2>1. old \in [0..Len(q) -> Totals]
      BY <1>1, CollectedDef
    <2> HIDE DEF old
    <2> QED BY <1>4, <2>1
  <1>6. Applied(old[Len(q)], ch).states = [old[Len(q)].states EXCEPT ![c] = a]
    <2>1. Applied(old[Len(q)], ch).states = [old[Len(q)].states EXCEPT ![ch.id] = ch.active]
      BY <1>1, <1>5, AppliedType
    <2>2. ch.id = c /\ ch.active = a
      OBVIOUS
    <2> QED BY <2>1, <2>2, Zenon
  <1>7. Reported' = new[Len(q) + 1].states /\ Reported = old[Len(q)].states
    BY <1>2, <1>4 DEF Reported, StatesAfter
  <1>8. Reported' = [Reported EXCEPT ![c] = a]
    BY <1>3, <1>6, <1>7, Zenon
  <1>9. ASSUME UpBefore, q # <<>> => DeviceState(Reported) PROVE UpBefore'
    <2> SUFFICES ASSUME NEW i \in 1..(Len(Append(q, ch)) - 1)
                 PROVE  DeviceState(new[i].states)
      BY <1>2 DEF UpBefore, StatesAfter
    <2>1. i \in 0..Len(q) /\ i \in 1..Len(q) /\ q # <<>>
      BY <1>4
    <2>2. new[i] = old[i]
      BY <1>3, <2>1, Zenon
    <2>3. CASE i = Len(q)
      BY <1>7, <1>9, <2>1, <2>2, <2>3, Zenon
    <2>4. CASE i # Len(q)
      <3>1. i \in 1..(Len(q) - 1)
        BY <1>4, <2>1, <2>4
      <3>2. DeviceState(old[i].states)
        BY <1>9, <3>1 DEF UpBefore, StatesAfter
      <3> QED BY <2>2, <3>2, Zenon
    <2> QED BY <2>3, <2>4
  <1> QED BY <1>2, <1>4, <1>8, <1>9, Zenon

\* If the last of the pending reports is not of idleness, the whole is reported up.
LEMMA LastReport ==
    ASSUME TypeOK, mPendingChangeQueue # <<>>,
           \A change \in Range(mPendingChangeQueue) : change.active
    PROVE  DeviceState(Reported) /\ mPendingChangeQueue[1].active
  <1> DEFINE q == mPendingChangeQueue
             old == Collected(mStates, q)
             n == Len(q)
  <1>1. q \in Seq(Changes) /\ mStates \in States /\ n \in Nat \ {0}
    BY TrackerTyped
  <1>2. q[1].active /\ q[n].active /\ q[n] \in Changes
    BY <1>1 DEF Range
  <1>3. old \in [0..n -> Totals] /\ old[n] = Applied(old[n - 1], q[n])
    <2>1. n \in 1..n
      BY <1>1
    <2> HIDE DEF n
    <2> QED BY <1>1, <2>1, CollectedDef, Zenon DEF n
  <1> HIDE DEF old, q, n
  <1>4. old[n - 1] \in Totals /\ old[n - 1].states \in States
    BY <1>1, <1>3 DEF Totals
  <1>5. old[n].states = [old[n - 1].states EXCEPT ![q[n].id] = q[n].active]
    <2>1. Applied(old[n - 1], q[n]).states
              = [old[n - 1].states EXCEPT ![q[n].id] = q[n].active]
      BY <1>2, <1>4, AppliedType
    <2> QED BY <1>3, <2>1, Zenon
  <1>6. q[n].id \in Components /\ q[n].active = TRUE
    BY <1>2 DEF Changes
  <1>7. old[n].states[q[n].id]
    BY <1>4, <1>5, <1>6 DEF States
  <1>8. Reported = old[n].states
    BY DEF Reported, StatesAfter, old, n, q
  <1> QED BY <1>2, <1>6, <1>7, <1>8 DEF DeviceState, q

\* What the tracker tells the device after a pass.
LEMMA Pass ==
    ASSUME TypeOK, UpBefore, Collect
    PROVE  /\ mStates' = Reported /\ mDeviceState' = DeviceState(Reported)
           /\ mPendingChangeQueue' = <<>>
           /\ DeviceState(mStates) /\ DeviceState(Reported) => mStateTransitions' = <<>>
           /\ DeviceState(mStates) /\ ~DeviceState(Reported) =>
                  mStateTransitions' = <<FALSE>>
           /\ ~DeviceState(mStates) /\ DeviceState(Reported) => mStateTransitions' = <<TRUE>>
           /\ ~DeviceState(mStates) /\ ~DeviceState(Reported) =>
                  \/ mStateTransitions' = <<TRUE, FALSE>>
                  \/ mStateTransitions' = <<>> /\ ~mPendingChangeQueue[1].active
           /\ Reported' = Reported /\ UpBefore'
           /\ mStateTransitions' \in Seq(BOOLEAN)
  <1> DEFINE q == mPendingChangeQueue
             old == Collected(mStates, q)
             n == Len(q)
  <1>1. q \in Seq(Changes) /\ mStates \in States /\ q # <<>>
    BY TrackerTyped DEF Collect
  <1>2. \A i \in 1..(n - 1) : DeviceState(old[i].states)
    BY DEF UpBefore, StatesAfter
  <1>3. /\ mStates' = old[n].states /\ mStateTransitions' = old[n].transitions
        /\ mDeviceState' = DeviceState(old[n].states) /\ mPendingChangeQueue' = <<>>
    BY DEF Collect
  <1>4. Reported = old[n].states
    BY DEF Reported, StatesAfter
  <1>5. /\ DeviceState(mStates) /\ DeviceState(old[n].states) => old[n].transitions = <<>>
        /\ DeviceState(mStates) /\ ~DeviceState(old[n].states) =>
               old[n].transitions = <<FALSE>>
        /\ ~DeviceState(mStates) /\ DeviceState(old[n].states) => old[n].transitions = <<TRUE>>
        /\ ~DeviceState(mStates) /\ ~DeviceState(old[n].states) =>
               old[n].transitions = IF n = 1 THEN <<>> ELSE <<TRUE, FALSE>>
    BY <1>1, <1>2, CollectedTransitions
  <1>6. n = 1 /\ ~DeviceState(old[n].states) => ~q[1].active
    <2> SUFFICES ASSUME n = 1, q[1].active PROVE DeviceState(old[n].states)
      OBVIOUS
    <2>1. Range(q) = {q[1]}
      BY <1>1 DEF Range
    <2>2. \A change \in Range(q) : change.active
      BY <2>1
    <2> HIDE DEF old, n
    <2> QED BY <1>1, <1>4, <2>2, LastReport
  <1>7. mStateTransitions' \in Seq(BOOLEAN)
    <2>1. old \in [0..n -> Totals]
      BY <1>1, CollectedDef, Zenon
    <2>2. n \in Nat
      BY <1>1
    <2> HIDE DEF old, n
    <2> QED BY <1>3, <2>1, <2>2 DEF Totals
  <1>8. Reported' = mStates' /\ UpBefore'
    <2>1. Collected(mStates', <<>>)[0] = [states |-> mStates', transitions |-> <<>>]
      <3>1. mStates' \in States
        BY <1>3, <1>4, ReportedTyped, Zenon
      <3>2. <<>> \in Seq(Changes)
        OBVIOUS
      <3> QED BY <3>1, <3>2, CollectedDef, Zenon
    <2>2. Len(<<>>) = 0 /\ 1..(0 - 1) = {}
      OBVIOUS
    <2>3. Reported' = mStates'
      BY <1>3, <2>1, <2>2 DEF Reported, StatesAfter
    <2>4. UpBefore'
      BY <1>3, <2>2 DEF UpBefore
    <2> QED BY <2>3, <2>4
  <1> HIDE DEF old, n
  <1> QED BY <1>3, <1>4, <1>5, <1>6, <1>7, <1>8, Zenon

-------------------------------------------------------------------------------
(* Types, the lock and what is in flight.                                  *)

\* The statuses a device has before it is closed.
Statuses == {"UNCONFIGURED", "CONFIGURED", "ACTIVE", "ERROR", "UNINITIALIZED"}

\* internalUpdateStatusLocked() records whether the device was active, or was not.
LEMMA Updated ==
    ASSUME CallTypes, NEW s \in Statuses, UpdateStatus(s)
    PROVE  /\ mStatus' = s /\ mRecentStatusUpdates' \in SUBSET BOOLEAN
           /\ TRUE \in mRecentStatusUpdates' <=>
                  TRUE \in mRecentStatusUpdates \/ s = "ACTIVE"
           /\ FALSE \in mRecentStatusUpdates' <=>
                  FALSE \in mRecentStatusUpdates \/ s # "ACTIVE"
  <1>1. mRecentStatusUpdates \in SUBSET BOOLEAN
    BY DEF CallTypes
  <1>2. mStatus' = s /\ mRecentStatusUpdates' = mRecentStatusUpdates \cup {s = "ACTIVE"}
    BY DEF UpdateStatus
  <1>3. CASE s = "ACTIVE"
    <2>1. (s = "ACTIVE") = TRUE
      BY <1>3
    <2>2. mRecentStatusUpdates' = mRecentStatusUpdates \cup {TRUE}
      BY <1>2, <2>1, Zenon
    <2> QED BY <1>1, <1>2, <1>3, <2>2, Zenon
  <1>4. CASE s # "ACTIVE"
    <2>1. (s = "ACTIVE") = FALSE
      BY <1>4
    <2>2. mRecentStatusUpdates' = mRecentStatusUpdates \cup {FALSE}
      BY <1>2, <2>1, Zenon
    <2> QED BY <1>1, <1>2, <1>4, <2>2, Zenon
  <1> QED BY <1>3, <1>4

\* setErrorStateLockedV() leaves a device that failed, or is closed, as it is.
LEMMA Failed ==
    ASSUME CallTypes, ErrorStatus
    PROVE  /\ mStatus \in {"ERROR", "UNINITIALIZED"} => mStatus' = mStatus
           /\ mStatus \notin {"ERROR", "UNINITIALIZED"} => mStatus' = "ERROR"
           /\ mStatus' \in Statuses /\ mRecentStatusUpdates' \in SUBSET BOOLEAN
  <1>1. CASE mStatus \in {"ERROR", "UNINITIALIZED"}
    <2>1. UNCHANGED <<mStatus, mRecentStatusUpdates>>
      BY <1>1 DEF ErrorStatus
    <2> QED BY <1>1, <2>1 DEF CallTypes, Statuses
  <1>2. CASE mStatus \notin {"ERROR", "UNINITIALIZED"}
    <2>1. UpdateStatus("ERROR")
      BY <1>2 DEF ErrorStatus
    <2>2. "ERROR" \in Statuses
      BY DEF Statuses
    <2>3. mStatus' = "ERROR" /\ mRecentStatusUpdates' \in SUBSET BOOLEAN
      BY <2>1, <2>2, Updated
    <2> QED BY <1>2, <2>2, <2>3
  <1> QED BY <1>1, <1>2

LEMMA FailedPaused ==
    ASSUME CallTypes, ThreadTypes, SetError PROVE mDoPause' \in BOOLEAN /\ ErrorStatus
  BY DEF SetError, ThreadTypes

LEMMA CheckedWait ==
    ASSUME CallTypes, ThreadTypes, NEW active \in BOOLEAN, Checked(active)
    PROVE  /\ Reached(active) => UNCHANGED <<mStatus, mRecentStatusUpdates, mDoPause>>
           /\ mStatus \in {"ERROR", "UNINITIALIZED"} => mStatus' = mStatus
           /\ ~Reached(active) /\ mStatus \notin {"ERROR", "UNINITIALIZED"} =>
                  mStatus' = "ERROR"
           /\ mStatus' \in Statuses /\ mRecentStatusUpdates' \in SUBSET BOOLEAN
           /\ mDoPause' \in BOOLEAN
  <1>1. CASE Reached(active)
    <2>1. UNCHANGED <<mStatus, mRecentStatusUpdates, mDoPause>>
      BY <1>1 DEF Checked
    <2> QED BY <1>1, <2>1 DEF CallTypes, ThreadTypes, Statuses
  <1>2. CASE ~Reached(active)
    <2>1. SetError
      BY <1>2 DEF Checked
    <2> QED BY <1>2, <2>1, Failed, FailedPaused
  <1> QED BY <1>1, <1>2

\* The variables of the calls keep their types.
LEMMA CallTypesStep ==
    ASSUME IInv, Next PROVE CallTypes'
  <1> USE DEF CallTypes
  <1>0. CallTypes /\ ThreadTypes
    BY DEF IInv, TypeOK
  <1>1. ASSUME NEW p \in Params, NEW r \in BOOLEAN, Submit(p, r) PROVE CallTypes'
    BY <1>1, <1>0
       DEF Submit, Call, BeginWait, Configure, MarkIf, Mark, Configurable, flight, history,
           tracker, ThreadTypes
  <1>2. CASE ClearStreaming
    BY <1>2, <1>0
       DEF ClearStreaming, Call, device, flight, history, pausing, tracker, ThreadTypes
  <1>3. CASE Flush
    BY <1>3, <1>0 DEF Flush, Call, device, flight, history, pausing, tracker, ThreadTypes
  <1>4. ASSUME NEW p \in Params, ConfigureStreams(p) PROVE CallTypes'
    <2>1. CASE mNeedConfig
      <3>1. UpdateStatus("CONFIGURED")
        BY <1>4, <2>1 DEF ConfigureStreams
      <3>2. "CONFIGURED" \in Statuses
        BY DEF Statuses
      <3>3. mStatus' = "CONFIGURED" /\ mRecentStatusUpdates' \in SUBSET BOOLEAN
        BY <1>0, <3>1, <3>2, Updated
      <3> QED BY <1>4, <1>0, <2>1, <3>3 DEF ConfigureStreams, Call, Configure, Returned
    <2>2. CASE ~mNeedConfig
      BY <1>4, <1>0, <2>2 DEF ConfigureStreams, Call, Returned
    <2> QED BY <2>1, <2>2
  <1>5. CASE DeleteStream
    BY <1>5, <1>0
       DEF DeleteStream, Call, Configurable, flight, history, pausing, tracker, ThreadTypes
  <1>6. CASE Drain
    BY <1>6, <1>0 DEF Drain, Call, BeginWait, flight, history, pausing, tracker, ThreadTypes
  <1>7. CASE CreateStream
    BY <1>7, <1>0
       DEF CreateStream, Call, Configurable, flight, history, pausing, tracker, ThreadTypes
  <1>8. CASE CreatePause
    BY <1>8, <1>0 DEF CreatePause, Call, BeginWait, flight, history, tracker, ThreadTypes
  <1>9. CASE Disconnect
    BY <1>9, <1>0 DEF Disconnect, Call, BeginWait, flight, history, tracker, ThreadTypes
  <1>10. CASE SubmitDone
    BY <1>10, <1>0
       DEF SubmitDone, device, flight, history, queue, thread, tracker, ThreadTypes
  <1>11. CASE DrainDone
    <2>1. Checked(FALSE)
      BY <1>11 DEF DrainDone
    <2>2. mStatus' \in Statuses /\ mRecentStatusUpdates' \in SUBSET BOOLEAN
      BY <1>0, <2>1, CheckedWait
    <2> QED BY <1>11, <1>0, <2>2 DEF DrainDone, Statuses
  <1>12. CASE CreateConfigure
    <2>1. CASE Configurable /\ Reached(FALSE)
      BY <1>12, <1>0, <2>1 DEF CreateConfigure, Configure, BeginWait
    <2>2. CASE ~(Configurable /\ Reached(FALSE))
      <3>1. Checked(FALSE)
        BY <1>12, <2>2 DEF CreateConfigure
      <3>2. mStatus' \in Statuses /\ mRecentStatusUpdates' \in SUBSET BOOLEAN
        BY <1>0, <3>1, CheckedWait
      <3> QED BY <1>12, <1>0, <2>2, <3>2 DEF CreateConfigure, Statuses
    <2> QED BY <2>1, <2>2
  <1>13. CASE CreateDone
    <2>1. Checked(TRUE)
      BY <1>13 DEF CreateDone
    <2>2. mStatus' \in Statuses /\ mRecentStatusUpdates' \in SUBSET BOOLEAN
      BY <1>0, <2>1, CheckedWait
    <2> QED BY <1>13, <1>0, <2>2 DEF CreateDone, Statuses
  <1>14. CASE DisconnectExit
    <2>1. Checked(FALSE)
      BY <1>14 DEF DisconnectExit
    <2>2. mStatus' \in Statuses /\ mRecentStatusUpdates' \in SUBSET BOOLEAN
      BY <1>0, <2>1, CheckedWait
    <2> QED BY <1>14, <1>0, <2>2 DEF DisconnectExit, Statuses
  <1>15. CASE DisconnectDone
    <2>1. UpdateStatus("UNINITIALIZED") /\ "UNINITIALIZED" \in Statuses
      BY <1>15 DEF DisconnectDone, Statuses
    <2>2. mStatus' = "UNINITIALIZED" /\ mRecentStatusUpdates' \in SUBSET BOOLEAN
      BY <1>0, <2>1, Updated
    <2> QED BY <1>15, <1>0, <2>2 DEF DisconnectDone
  <1>16. CASE WaitPaused
    BY <1>16, <1>0
       DEF WaitPaused, Mark, apiVars, device, flight, history, queue, tracker, ThreadTypes
  <1>17. CASE Unpaused
    BY <1>17, <1>0
       DEF Unpaused, apiVars, device, flight, history, queue, tracker, ThreadTypes
  <1>18. CASE Exit
    BY <1>18, <1>0 DEF Exit, apiVars, device, flight, history, queue, tracker, ThreadTypes
  <1>19. CASE GoIdle
    BY <1>19, <1>0
       DEF GoIdle, MarkIf, Mark, apiVars, device, flight, history, queue, tracker,
           ThreadTypes
  <1>20. CASE NextRequest
    BY <1>20, <1>0
       DEF NextRequest, MarkIf, Mark, apiVars, device, flight, history, tracker,
           ThreadTypes
  <1>21. CASE Notify
    BY <1>21, <1>0 DEF Notify, Mark, apiVars, flight, history, queue, tracker, ThreadTypes
  <1>22. CASE Reconfigure
    BY <1>22, <1>0 DEF Reconfigure, BeginWait, flight, history, queue, tracker, ThreadTypes
  <1>23. CASE Reconfigured
    <2>1. mStatus' \in Statuses /\ mRecentStatusUpdates' \in SUBSET BOOLEAN
      <3>1. UpdateStatus("ACTIVE") \/ ErrorStatus
        BY <1>23 DEF Reconfigured
      <3>2. "ACTIVE" \in Statuses
        BY DEF Statuses
      <3> QED BY <1>0, <3>1, <3>2, Failed, Updated
    <2>2. mNeedConfig' \in BOOLEAN /\ mSessionParams' \in Params /\ mPauseStateNotify' \in BOOLEAN
      <3>1. CASE Configurable /\ Reached(FALSE)
        <4>1. Configure(mLatestSessionParams) /\ mPauseStateNotify' = FALSE
          BY <1>23, <3>1 DEF Reconfigured
        <4> QED BY <1>0, <4>1 DEF Configure, ThreadTypes
      <3>2. CASE ~(Configurable /\ Reached(FALSE))
        BY <1>23, <1>0, <3>2 DEF Reconfigured
      <3> QED BY <3>1, <3>2
    <2>3. mInterfaceLock' = "free" /\ aPc' = aPc
      BY <1>23 DEF Reconfigured
    <2> QED BY <1>0, <2>1, <2>2, <2>3 DEF Statuses
  <1>24. CASE Unpause
    BY <1>24, <1>0
       DEF Unpause, Mark, apiVars, device, flight, history, queue, tracker, ThreadTypes
  <1>25. CASE Prepare
    BY <1>25, <1>0
       DEF Prepare, MarkIf, Mark, apiVars, device, history, queue, tracker, ThreadTypes
  <1>26. CASE PrepareFails
    BY <1>26, <1>0 DEF PrepareFails, apiVars, device, flight, history, tracker, ThreadTypes
  <1>27. CASE Send
    BY <1>27, <1>0 DEF Send, apiVars, device, history, tracker, ThreadTypes
  <1>28. CASE SendFails
    BY <1>28, <1>0 DEF SendFails, apiVars, device, history, tracker, ThreadTypes
  <1>29. CASE Collect
    BY <1>29, <1>0 DEF Collect, apiVars, device, flight, history, queue, thread, ThreadTypes
  <1>30. CASE NotifyStatus
    <2>1. mStatus' \in Statuses /\ mRecentStatusUpdates' \in SUBSET BOOLEAN
      <3>1. \/ UpdateStatus("ACTIVE") \/ UpdateStatus("CONFIGURED")
            \/ UNCHANGED <<mStatus, mRecentStatusUpdates>>
        BY <1>30 DEF NotifyStatus
      <3>2. "ACTIVE" \in Statuses /\ "CONFIGURED" \in Statuses
        BY DEF Statuses
      <3>3. CASE UNCHANGED <<mStatus, mRecentStatusUpdates>>
        BY <1>0, <3>3 DEF Statuses
      <3> QED BY <1>0, <3>1, <3>2, <3>3, Updated
    <2> QED BY <1>30, <1>0, <2>1 DEF NotifyStatus, Statuses, apiVars
  <1>31. CASE Result
    BY <1>31, <1>0
       DEF Result, MarkIf, Mark, apiVars, device, history, queue, thread, tracker,
           ThreadTypes
  <1>32. CASE HalError
    <2>1. mStatus' \in Statuses /\ mRecentStatusUpdates' \in SUBSET BOOLEAN
      BY <1>32, <1>0, Failed DEF HalError, SetError
    <2> QED BY <1>32, <1>0, <2>1 DEF HalError, Statuses, apiVars
  <1> QED BY <1>1, <1>2, <1>3, <1>4, <1>5, <1>6, <1>7, <1>8, <1>9, <1>10, <1>11, <1>12,
             <1>13, <1>14, <1>15, <1>16, <1>17, <1>18, <1>19, <1>20, <1>21, <1>22, <1>23,
             <1>24, <1>25, <1>26, <1>27, <1>28, <1>29, <1>30, <1>31, <1>32
             DEF Next, Api, ApiReturns, RequestThread, Tracker

\* So do those of the request thread.
LEMMA ThreadTypesStep ==
    ASSUME IInv, Next PROVE ThreadTypes'
  <1> USE DEF ThreadTypes
  <1>0. ThreadTypes /\ CallTypes
    BY DEF IInv, TypeOK
  <1>1. ASSUME NEW p \in Params, NEW r \in BOOLEAN, Submit(p, r) PROVE ThreadTypes'
    BY <1>1, <1>0
       DEF Submit, Call, BeginWait, Configure, MarkIf, Mark, Configurable, flight, history,
           tracker, CallTypes
  <1>2. CASE ClearStreaming
    BY <1>2, <1>0
       DEF ClearStreaming, Call, device, flight, history, pausing, tracker, CallTypes
  <1>3. CASE Flush
    BY <1>3, <1>0 DEF Flush, Call, device, flight, history, pausing, tracker, CallTypes
  <1>4. ASSUME NEW p \in Params, ConfigureStreams(p) PROVE ThreadTypes'
    BY <1>4, <1>0
       DEF ConfigureStreams, Call, Configure, Configurable, flight, history, pausing,
           tracker, CallTypes
  <1>5. CASE DeleteStream
    BY <1>5, <1>0
       DEF DeleteStream, Call, Configurable, flight, history, pausing, tracker, CallTypes
  <1>6. CASE Drain
    BY <1>6, <1>0 DEF Drain, Call, BeginWait, flight, history, pausing, tracker, CallTypes
  <1>7. CASE CreateStream
    BY <1>7, <1>0
       DEF CreateStream, Call, Configurable, flight, history, pausing, tracker, CallTypes
  <1>8. CASE CreatePause
    BY <1>8, <1>0 DEF CreatePause, Call, BeginWait, flight, history, tracker, CallTypes
  <1>9. CASE Disconnect
    BY <1>9, <1>0 DEF Disconnect, Call, BeginWait, flight, history, tracker, CallTypes
  <1>10. CASE SubmitDone
    BY <1>10, <1>0
       DEF SubmitDone, device, flight, history, queue, thread, tracker, CallTypes
  <1>11. CASE DrainDone
    <2>1. Checked(FALSE)
      BY <1>11 DEF DrainDone
    <2>2. mDoPause' \in BOOLEAN
      BY <1>0, <2>1, CheckedWait
    <2> QED BY <1>11, <1>0, <2>2 DEF DrainDone, queue
  <1>12. CASE CreateConfigure
    <2>1. mDoPause' \in BOOLEAN /\ mLatestSessionParams' \in Params
      <3>1. CASE Configurable /\ Reached(FALSE)
        BY <1>12, <1>0, <3>1 DEF CreateConfigure, CallTypes
      <3>2. CASE ~(Configurable /\ Reached(FALSE))
        <4>1. Checked(FALSE) /\ mLatestSessionParams' = mLatestSessionParams
          BY <1>12, <3>2 DEF CreateConfigure
        <4> QED BY <1>0, <4>1, CheckedWait
      <3> QED BY <3>1, <3>2
    <2> QED BY <1>12, <1>0, <2>1 DEF CreateConfigure, queue
  <1>13. CASE CreateDone
    <2>1. Checked(TRUE)
      BY <1>13 DEF CreateDone
    <2>2. mDoPause' \in BOOLEAN
      BY <1>0, <2>1, CheckedWait
    <2> QED BY <1>13, <1>0, <2>2 DEF CreateDone, queue
  <1>14. CASE DisconnectExit
    <2>1. Checked(FALSE)
      BY <1>14 DEF DisconnectExit
    <2>2. mDoPause' \in BOOLEAN
      BY <1>0, <2>1, CheckedWait
    <2> QED BY <1>14, <1>0, <2>2 DEF DisconnectExit, queue
  <1>15. CASE DisconnectDone
    BY <1>15, <1>0 DEF DisconnectDone, history, queue, thread, tracker, CallTypes
  <1>16. CASE WaitPaused
    BY <1>16, <1>0
       DEF WaitPaused, Mark, apiVars, device, flight, history, queue, tracker, CallTypes
  <1>17. CASE Unpaused
    BY <1>17, <1>0 DEF Unpaused, apiVars, device, flight, history, queue, tracker, CallTypes
  <1>18. CASE Exit
    BY <1>18, <1>0 DEF Exit, apiVars, device, flight, history, queue, tracker, CallTypes
  <1>19. CASE GoIdle
    BY <1>19, <1>0
       DEF GoIdle, MarkIf, Mark, apiVars, device, flight, history, queue, tracker,
           CallTypes
  <1>20. CASE NextRequest
    <2>1. mNextRequests' \in Params /\ mRequestQueue' \in Seq(Params)
          /\ Len(mRequestQueue') <= MaxQueue
      <3>1. CASE mRequestQueue # <<>>
        <4>1. mNextRequests' = Head(mRequestQueue) /\ mRequestQueue' = Tail(mRequestQueue)
          BY <1>20, <3>1 DEF NextRequest
        <4>2. /\ Head(mRequestQueue) \in Params /\ Tail(mRequestQueue) \in Seq(Params)
              /\ Len(Tail(mRequestQueue)) <= MaxQueue
          BY <1>0, <3>1
        <4> QED BY <4>1, <4>2
      <3>2. CASE mRequestQueue = <<>>
        BY <1>20, <1>0, <3>2 DEF NextRequest
      <3> QED BY <3>1, <3>2
    <2>2. mPaused' = FALSE /\ mLatestSessionParams' = mNextRequests'
          /\ UNCHANGED <<mRepeatingRequests, mDoPause, exitPending>>
          /\ rPc' \in {"prepare", "notify"}
      BY <1>20 DEF NextRequest
    <2> QED BY <1>0, <2>1, <2>2
  <1>21. CASE Notify
    BY <1>21, <1>0 DEF Notify, Mark, apiVars, flight, history, queue, tracker, CallTypes
  <1>22. CASE Reconfigure
    BY <1>22, <1>0 DEF Reconfigure, BeginWait, flight, history, queue, tracker, CallTypes
  <1>23. CASE Reconfigured
    BY <1>23, <1>0
       DEF Reconfigured, Configure, Configurable, flight, history, queue, tracker,
           CallTypes
  <1>24. CASE Unpause
    BY <1>24, <1>0
       DEF Unpause, Mark, apiVars, device, flight, history, queue, tracker, CallTypes
  <1>25. CASE Prepare
    BY <1>25, <1>0
       DEF Prepare, MarkIf, Mark, apiVars, device, history, queue, tracker, CallTypes
  <1>26. CASE PrepareFails
    BY <1>26, <1>0 DEF PrepareFails, apiVars, device, flight, history, tracker, CallTypes
  <1>27. CASE Send
    BY <1>27, <1>0 DEF Send, apiVars, device, history, tracker, CallTypes
  <1>28. CASE SendFails
    BY <1>28, <1>0 DEF SendFails, apiVars, device, history, tracker, CallTypes
  <1>29. CASE Collect
    BY <1>29, <1>0 DEF Collect, apiVars, device, flight, history, queue, thread, CallTypes
  <1>30. CASE NotifyStatus
    BY <1>30, <1>0 DEF NotifyStatus, apiVars, flight, history, queue, thread, CallTypes
  <1>31. CASE Result
    BY <1>31, <1>0
       DEF Result, MarkIf, Mark, apiVars, device, history, queue, thread, tracker,
           CallTypes
  <1>32. CASE HalError
    <2>1. mDoPause' \in BOOLEAN
      BY <1>32, <1>0, FailedPaused DEF HalError
    <2> QED BY <1>32, <1>0, <2>1 DEF HalError, queue
  <1> QED BY <1>1, <1>2, <1>3, <1>4, <1>5, <1>6, <1>7, <1>8, <1>9, <1>10, <1>11, <1>12,
             <1>13, <1>14, <1>15, <1>16, <1>17, <1>18, <1>19, <1>20, <1>21, <1>22, <1>23,
             <1>24, <1>25, <1>26, <1>27, <1>28, <1>29, <1>30, <1>31, <1>32
             DEF Next, Api, ApiReturns, RequestThread, Tracker

\* A report is well typed.
LEMMA MarkTyped ==
    ASSUME TypeOK, NEW c \in Components, NEW a \in BOOLEAN, NEW m \in BOOLEAN, MarkIf(m, c, a)
    PROVE  /\ mStates' \in [Components -> BOOLEAN] /\ mDeviceState' \in BOOLEAN
           /\ mPendingChangeQueue' \in Seq(Changes) /\ mStateTransitions' \in Seq(BOOLEAN)
  <1>1. CASE m
    <2>1. Mark(c, a)
      BY <1>1 DEF MarkIf
    <2> QED BY <2>1, Marked DEF Mark, TypeOK, TrackerTypes
  <1>2. CASE ~m
    BY <1>2 DEF MarkIf, tracker, TypeOK, TrackerTypes
  <1> QED BY <1>1, <1>2

\* So do those of the tracker.
LEMMA TrackerTypesStep ==
    ASSUME IInv, Next PROVE TrackerTypes'
  <1> USE DEF TrackerTypes
  <1>0. TypeOK /\ FlightInv
    BY DEF IInv
  <1>1. ASSUME NEW p \in Params, NEW r \in BOOLEAN, Submit(p, r) PROVE TrackerTypes'
    <2>1. MarkIf(~mDoPause /\ mPaused, "request", TRUE)
      BY <1>1 DEF Submit, MarkIf
    <2>2. (~mDoPause /\ mPaused) \in BOOLEAN /\ "request" \in Components
      BY <1>0 DEF Components, TypeOK, ThreadTypes
    <2>3. /\ mStates' \in [Components -> BOOLEAN] /\ mDeviceState' \in BOOLEAN
          /\ mPendingChangeQueue' \in Seq(Changes) /\ mStateTransitions' \in Seq(BOOLEAN)
      BY <1>0, <2>1, <2>2, MarkTyped
    <2> QED BY <1>1, <1>0, <2>3 DEF Submit, Call, flight, Configure, history, TypeOK
  <1>2. CASE ClearStreaming
    BY <1>2, <1>0
       DEF ClearStreaming, Call, device, flight, history, pausing, tracker, TypeOK
  <1>3. CASE Flush
    BY <1>3, <1>0 DEF Flush, Call, device, flight, history, pausing, tracker, TypeOK
  <1>4. ASSUME NEW p \in Params, ConfigureStreams(p) PROVE TrackerTypes'
    BY <1>4, <1>0
       DEF ConfigureStreams, Call, Configure, Configurable, flight, history, pausing,
           tracker, TypeOK
  <1>5. CASE DeleteStream
    BY <1>5, <1>0
       DEF DeleteStream, Call, Configurable, flight, history, pausing, tracker, TypeOK
  <1>6. CASE Drain
    BY <1>6, <1>0 DEF Drain, Call, BeginWait, flight, history, pausing, tracker, TypeOK
  <1>7. CASE CreateStream
    BY <1>7, <1>0
       DEF CreateStream, Call, Configurable, flight, history, pausing, tracker, TypeOK
  <1>8. CASE CreatePause
    BY <1>8, <1>0 DEF CreatePause, Call, BeginWait, flight, history, tracker, TypeOK
  <1>9. CASE Disconnect
    BY <1>9, <1>0 DEF Disconnect, Call, BeginWait, flight, history, tracker, TypeOK
  <1>10. CASE SubmitDone
    BY <1>10, <1>0 DEF SubmitDone, device, flight, history, queue, thread, tracker, TypeOK
  <1>11. CASE DrainDone
    BY <1>11, <1>0 DEF DrainDone, flight, history, queue, tracker, TypeOK
  <1>12. CASE CreateConfigure
    <2>1. halFailed' \in BOOLEAN /\ disturbed' \in BOOLEAN
      <3>1. CASE Configurable /\ Reached(FALSE)
        BY <1>12, <1>0, <3>1 DEF CreateConfigure, Configure, TypeOK
      <3>2. CASE ~(Configurable /\ Reached(FALSE))
        BY <1>12, <1>0, <3>2 DEF CreateConfigure, history, TypeOK
      <3> QED BY <3>1, <3>2
    <2> QED BY <1>12, <1>0, <2>1 DEF CreateConfigure, flight, tracker, TypeOK
  <1>13. CASE CreateDone
    BY <1>13, <1>0 DEF CreateDone, flight, history, queue, tracker, TypeOK
  <1>14. CASE DisconnectExit
    BY <1>14, <1>0 DEF DisconnectExit, flight, history, queue, tracker, TypeOK
  <1>15. CASE DisconnectDone
    BY <1>15, <1>0 DEF DisconnectDone, history, queue, thread, tracker, TypeOK
  <1>16. CASE WaitPaused
    <2>1. MarkIf(TRUE, "request", FALSE)
      BY <1>16 DEF WaitPaused, MarkIf
    <2>2. (TRUE) \in BOOLEAN /\ "request" \in Components
      BY <1>0 DEF Components, TypeOK, ThreadTypes
    <2>3. /\ mStates' \in [Components -> BOOLEAN] /\ mDeviceState' \in BOOLEAN
          /\ mPendingChangeQueue' \in Seq(Changes) /\ mStateTransitions' \in Seq(BOOLEAN)
      BY <1>0, <2>1, <2>2, MarkTyped
    <2> QED BY <1>16, <1>0, <2>3 DEF WaitPaused, flight, history, TypeOK
  <1>17. CASE Unpaused
    BY <1>17, <1>0 DEF Unpaused, apiVars, device, flight, history, queue, tracker, TypeOK
  <1>18. CASE Exit
    BY <1>18, <1>0 DEF Exit, apiVars, device, flight, history, queue, tracker, TypeOK
  <1>19. CASE GoIdle
    <2>1. MarkIf(~mPaused, "request", FALSE)
      BY <1>19 DEF GoIdle, MarkIf
    <2>2. (~mPaused) \in BOOLEAN /\ "request" \in Components
      BY <1>0 DEF Components, TypeOK, ThreadTypes
    <2>3. /\ mStates' \in [Components -> BOOLEAN] /\ mDeviceState' \in BOOLEAN
          /\ mPendingChangeQueue' \in Seq(Changes) /\ mStateTransitions' \in Seq(BOOLEAN)
      BY <1>0, <2>1, <2>2, MarkTyped
    <2> QED BY <1>19, <1>0, <2>3 DEF GoIdle, flight, history, TypeOK
  <1>20. CASE NextRequest
    <2>1. MarkIf(mPaused, "request", TRUE)
      BY <1>20 DEF NextRequest, MarkIf
    <2>2. (mPaused) \in BOOLEAN /\ "request" \in Components
      BY <1>0 DEF Components, TypeOK, ThreadTypes
    <2>3. /\ mStates' \in [Components -> BOOLEAN] /\ mDeviceState' \in BOOLEAN
          /\ mPendingChangeQueue' \in Seq(Changes) /\ mStateTransitions' \in Seq(BOOLEAN)
      BY <1>0, <2>1, <2>2, MarkTyped
    <2> QED BY <1>20, <1>0, <2>3 DEF NextRequest, flight, history, TypeOK
  <1>21. CASE Notify
    <2>1. MarkIf(TRUE, "request", FALSE)
      BY <1>21 DEF Notify, MarkIf
    <2>2. (TRUE) \in BOOLEAN /\ "request" \in Components
      BY <1>0 DEF Components, TypeOK, ThreadTypes
    <2>3. /\ mStates' \in [Components -> BOOLEAN] /\ mDeviceState' \in BOOLEAN
          /\ mPendingChangeQueue' \in Seq(Changes) /\ mStateTransitions' \in Seq(BOOLEAN)
      BY <1>0, <2>1, <2>2, MarkTyped
    <2> QED BY <1>21, <1>0, <2>3 DEF Notify, flight, history, TypeOK
  <1>22. CASE Reconfigure
    BY <1>22, <1>0 DEF Reconfigure, BeginWait, flight, history, queue, tracker, TypeOK
  <1>23. CASE Reconfigured
    <2>1. halFailed' \in BOOLEAN /\ disturbed' \in BOOLEAN
      <3>1. CASE Configurable /\ Reached(FALSE)
        BY <1>23, <1>0, <3>1 DEF Reconfigured, Configure, TypeOK
      <3>2. CASE ~(Configurable /\ Reached(FALSE))
        BY <1>23, <1>0, <3>2 DEF Reconfigured, history, TypeOK
      <3> QED BY <3>1, <3>2
    <2> QED BY <1>23, <1>0, <2>1 DEF Reconfigured, flight, tracker, TypeOK
  <1>24. CASE Unpause
    <2>1. MarkIf(TRUE, "request", TRUE)
      BY <1>24 DEF Unpause, MarkIf
    <2>2. (TRUE) \in BOOLEAN /\ "request" \in Components
      BY <1>0 DEF Components, TypeOK, ThreadTypes
    <2>3. /\ mStates' \in [Components -> BOOLEAN] /\ mDeviceState' \in BOOLEAN
          /\ mPendingChangeQueue' \in Seq(Changes) /\ mStateTransitions' \in Seq(BOOLEAN)
      BY <1>0, <2>1, <2>2, MarkTyped
    <2> QED BY <1>24, <1>0, <2>3 DEF Unpause, flight, history, TypeOK
  <1>25. CASE Prepare
    <2>1. MarkIf(inFlight = 0, "inflight", TRUE)
      BY <1>25 DEF Prepare, MarkIf
    <2>2. (inFlight = 0) \in BOOLEAN /\ "inflight" \in Components
      BY <1>0 DEF Components, TypeOK, ThreadTypes
    <2>3. /\ mStates' \in [Components -> BOOLEAN] /\ mDeviceState' \in BOOLEAN
          /\ mPendingChangeQueue' \in Seq(Changes) /\ mStateTransitions' \in Seq(BOOLEAN)
      BY <1>0, <2>1, <2>2, MarkTyped
    <2> QED BY <1>25, <1>0, <2>3 DEF Prepare, flight, history, TypeOK, FlightInv, Bit
  <1>26. CASE PrepareFails
    BY <1>26, <1>0 DEF PrepareFails, apiVars, device, flight, history, tracker, TypeOK
  <1>27. CASE Send
    BY <1>27, <1>0 DEF Send, apiVars, device, history, tracker, TypeOK
  <1>28. CASE SendFails
    BY <1>28, <1>0 DEF SendFails, apiVars, device, history, tracker, TypeOK
  <1>29. CASE Collect
    <2>1. CASE Live
      <3>1. UpBefore
        BY <2>1 DEF IInv, ReportInv
      <3>2. mStates' \in States /\ mDeviceState' \in BOOLEAN
            /\ mPendingChangeQueue' \in Seq(Changes) /\ mStateTransitions' \in Seq(BOOLEAN)
        BY <1>29, <1>0, <3>1, Pass, ReportedTyped DEF DeviceState
      <3> QED BY <1>29, <1>0, <3>2 DEF Collect, flight, history, States, TypeOK
    <2>2. CASE ~Live
      <3> DEFINE total == Collected(mStates, mPendingChangeQueue)[Len(mPendingChangeQueue)]
      <3>1. total \in Totals
        <4>1. mStates \in States /\ mPendingChangeQueue \in Seq(Changes)
          BY <1>0, TrackerTyped
        <4>2. Len(mPendingChangeQueue) \in 0..Len(mPendingChangeQueue)
          BY <4>1
        <4> QED BY <4>1, <4>2, CollectedDef
      <3>2. mStates' = total.states /\ mStateTransitions' = total.transitions
            /\ mDeviceState' = DeviceState(total.states)
            /\ mPendingChangeQueue' = <<>>
        BY <1>29 DEF Collect
      <3> HIDE DEF total
      <3>3. mStates' \in States /\ mDeviceState' \in BOOLEAN
            /\ mPendingChangeQueue' \in Seq(Changes) /\ mStateTransitions' \in Seq(BOOLEAN)
        BY <3>1, <3>2 DEF Totals, DeviceState
      <3> QED BY <1>29, <1>0, <3>3 DEF Collect, flight, history, States, TypeOK
    <2> QED BY <2>1, <2>2
  <1>30. CASE NotifyStatus
    <2>1. mStateTransitions' \in Seq(BOOLEAN)
      <3>1. mStateTransitions \in Seq(BOOLEAN) /\ mStateTransitions # <<>>
            /\ mStateTransitions' = Tail(mStateTransitions)
        BY <1>30, <1>0 DEF NotifyStatus, TypeOK
      <3> QED BY <3>1
    <2> QED BY <1>30, <1>0, <2>1 DEF NotifyStatus, flight, history, TypeOK
  <1>31. CASE Result
    <2>1. MarkIf(inFlight = 1, "inflight", FALSE)
      BY <1>31 DEF Result, MarkIf
    <2>2. (inFlight = 1) \in BOOLEAN /\ "inflight" \in Components
      BY <1>0 DEF Components, TypeOK, ThreadTypes
    <2>3. /\ mStates' \in [Components -> BOOLEAN] /\ mDeviceState' \in BOOLEAN
          /\ mPendingChangeQueue' \in Seq(Changes) /\ mStateTransitions' \in Seq(BOOLEAN)
      BY <1>0, <2>1, <2>2, MarkTyped
    <2> QED BY <1>31, <1>0, <2>3 DEF Result, history, TypeOK, FlightInv, Bit
  <1>32. CASE HalError
    BY <1>32, <1>0 DEF HalError, apiVars, flight, queue, tracker, TypeOK
  <1> QED BY <1>1, <1>2, <1>3, <1>4, <1>5, <1>6, <1>7, <1>8, <1>9, <1>10, <1>11, <1>12,
             <1>13, <1>14, <1>15, <1>16, <1>17, <1>18, <1>19, <1>20, <1>21, <1>22, <1>23,
             <1>24, <1>25, <1>26, <1>27, <1>28, <1>29, <1>30, <1>31, <1>32
             DEF Next, Api, ApiReturns, RequestThread, Tracker

\* Only the end of disconnect() makes the device uninitialized, and it stays so.
LEMMA StatusStep ==
    ASSUME IInv, Next
    PROVE  /\ mStatus' = "UNINITIALIZED" => mStatus = "UNINITIALIZED" \/ DisconnectDone
           /\ mStatus = "UNINITIALIZED" => mStatus' = mStatus
           /\ mStatus = "ERROR" => mStatus' \in {"ERROR", "UNINITIALIZED"}
  <1> DEFINE Goal ==
           /\ mStatus' = "UNINITIALIZED" => mStatus = "UNINITIALIZED" \/ DisconnectDone
           /\ mStatus = "UNINITIALIZED" => mStatus' = mStatus
           /\ mStatus = "ERROR" => mStatus' \in {"ERROR", "UNINITIALIZED"}
  <1>0. CallTypes /\ ThreadTypes /\ LockInv
    BY DEF IInv, TypeOK
  <1> SUFFICES Goal
    OBVIOUS
  <1>1. ASSUME NEW p \in Params, NEW r \in BOOLEAN, Submit(p, r) PROVE Goal
    BY <1>1, <1>0
       DEF Submit, Call, BeginWait, Configure, MarkIf, Mark, Configurable, flight, history,
           tracker, Statuses
  <1>2. CASE ClearStreaming
    BY <1>2, <1>0
       DEF ClearStreaming, Call, device, flight, history, pausing, tracker, Statuses
  <1>3. CASE Flush
    BY <1>3, <1>0 DEF Flush, Call, device, flight, history, pausing, tracker, Statuses
  <1>4. ASSUME NEW p \in Params, ConfigureStreams(p) PROVE Goal
    <2>1. UpdateStatus("CONFIGURED") \/ mStatus' = mStatus
      BY <1>4 DEF ConfigureStreams
    <2>2. "CONFIGURED" \in Statuses
      BY DEF Statuses
    <2>3. mStatus' = "CONFIGURED" \/ mStatus' = mStatus
      BY <1>0, <2>1, <2>2, Updated
    <2> QED BY <1>4, <2>3 DEF ConfigureStreams, Configurable
  <1>5. CASE DeleteStream
    BY <1>5, <1>0
       DEF DeleteStream, Call, Configurable, flight, history, pausing, tracker, Statuses
  <1>6. CASE Drain
    BY <1>6, <1>0 DEF Drain, Call, BeginWait, flight, history, pausing, tracker, Statuses
  <1>7. CASE CreateStream
    BY <1>7, <1>0
       DEF CreateStream, Call, Configurable, flight, history, pausing, tracker, Statuses
  <1>8. CASE CreatePause
    BY <1>8, <1>0 DEF CreatePause, Call, BeginWait, flight, history, tracker, Statuses
  <1>9. CASE Disconnect
    BY <1>9, <1>0 DEF Disconnect, Call, BeginWait, flight, history, tracker, Statuses
  <1>10. CASE SubmitDone
    BY <1>10, <1>0 DEF SubmitDone, device, flight, history, queue, thread, tracker, Statuses
  <1>11. CASE DrainDone
    <2>1. Checked(FALSE)
      BY <1>11 DEF DrainDone
    <2> QED BY <1>0, <2>1, CheckedWait DEF CallTypes, Statuses
  <1>12. CASE CreateConfigure
    <2>1. CASE Configurable /\ Reached(FALSE)
      BY <1>12, <2>1 DEF CreateConfigure, Configurable
    <2>2. CASE ~(Configurable /\ Reached(FALSE))
      <3>1. Checked(FALSE)
        BY <1>12, <2>2 DEF CreateConfigure
      <3> QED BY <1>0, <3>1, CheckedWait DEF CallTypes, Statuses
    <2> QED BY <2>1, <2>2
  <1>13. CASE CreateDone
    <2>1. Checked(TRUE)
      BY <1>13 DEF CreateDone
    <2> QED BY <1>0, <2>1, CheckedWait DEF CallTypes, Statuses
  <1>14. CASE DisconnectExit
    <2>1. Checked(FALSE)
      BY <1>14 DEF DisconnectExit
    <2> QED BY <1>0, <2>1, CheckedWait DEF CallTypes, Statuses
  <1>15. CASE DisconnectDone
    <2>1. UpdateStatus("UNINITIALIZED") /\ "UNINITIALIZED" \in Statuses
      BY <1>15 DEF DisconnectDone, Statuses
    <2>2. mStatus' = "UNINITIALIZED"
      BY <1>0, <2>1, Updated
    <2> QED BY <1>15, <2>2
  <1>16. CASE WaitPaused
    BY <1>16, <1>0
       DEF WaitPaused, Mark, apiVars, device, flight, history, queue, tracker, Statuses
  <1>17. CASE Unpaused
    BY <1>17, <1>0 DEF Unpaused, apiVars, device, flight, history, queue, tracker, Statuses
  <1>18. CASE Exit
    BY <1>18, <1>0 DEF Exit, apiVars, device, flight, history, queue, tracker, Statuses
  <1>19. CASE GoIdle
    BY <1>19, <1>0
       DEF GoIdle, MarkIf, Mark, apiVars, device, flight, history, queue, tracker, Statuses
  <1>20. CASE NextRequest
    BY <1>20, <1>0
       DEF NextRequest, MarkIf, Mark, apiVars, device, flight, history, tracker, Statuses
  <1>21. CASE Notify
    BY <1>21, <1>0 DEF Notify, Mark, apiVars, flight, history, queue, tracker, Statuses
  <1>22. CASE Reconfigure
    BY <1>22, <1>0 DEF Reconfigure, BeginWait, flight, history, queue, tracker, Statuses
  <1>23. CASE Reconfigured
    <2>1. CASE Configurable /\ Reached(FALSE)
      <3>1. UpdateStatus("ACTIVE") /\ "ACTIVE" \in Statuses
        BY <1>23, <2>1 DEF Reconfigured, Statuses
      <3> QED BY <1>0, <2>1, <3>1, Updated DEF Configurable
    <2>2. CASE ~(Configurable /\ Reached(FALSE))
      <3>1. ErrorStatus
        BY <1>23, <2>2 DEF Reconfigured
      <3> QED BY <1>0, <3>1, Failed DEF CallTypes
    <2> QED BY <2>1, <2>2
  <1>24. CASE Unpause
    BY <1>24, <1>0
       DEF Unpause, Mark, apiVars, device, flight, history, queue, tracker, Statuses
  <1>25. CASE Prepare
    BY <1>25, <1>0
       DEF Prepare, MarkIf, Mark, apiVars, device, history, queue, tracker, Statuses
  <1>26. CASE PrepareFails
    BY <1>26, <1>0 DEF PrepareFails, apiVars, device, flight, history, tracker, Statuses
  <1>27. CASE Send
    BY <1>27, <1>0 DEF Send, apiVars, device, history, tracker, Statuses
  <1>28. CASE SendFails
    BY <1>28, <1>0 DEF SendFails, apiVars, device, history, tracker, Statuses
  <1>29. CASE Collect
    BY <1>29, <1>0 DEF Collect, apiVars, device, flight, history, queue, thread, Statuses
  <1>30. CASE NotifyStatus
    <2>1. CASE mStatus \in {"ACTIVE", "CONFIGURED"}
      <3>1. UpdateStatus("ACTIVE") \/ UpdateStatus("CONFIGURED")
        BY <1>30, <2>1 DEF NotifyStatus
      <3>2. "ACTIVE" \in Statuses /\ "CONFIGURED" \in Statuses
        BY DEF Statuses
      <3> QED BY <1>0, <2>1, <3>1, <3>2, Updated
    <2>2. CASE mStatus \notin {"ACTIVE", "CONFIGURED"}
      BY <1>30, <2>2 DEF NotifyStatus
    <2> QED BY <2>1, <2>2
  <1>31. CASE Result
    BY <1>31, <1>0
       DEF Result, MarkIf, Mark, apiVars, device, history, queue, thread, tracker, Statuses
  <1>32. CASE HalError
    BY <1>32, <1>0, Failed DEF HalError, SetError
  <1> QED BY <1>1, <1>2, <1>3, <1>4, <1>5, <1>6, <1>7, <1>8, <1>9, <1>10, <1>11, <1>12,
             <1>13, <1>14, <1>15, <1>16, <1>17, <1>18, <1>19, <1>20, <1>21, <1>22, <1>23,
             <1>24, <1>25, <1>26, <1>27, <1>28, <1>29, <1>30, <1>31, <1>32
             DEF Next, Api, ApiReturns, RequestThread, Tracker

\* The lock is handed over between the calls and the reconfiguration.
LEMMA LockStep ==
    ASSUME IInv, Next PROVE LockInv'
  <1> USE DEF LockInv, Returned
  <1>0. TypeOK /\ LockInv
    BY DEF IInv
  <1>s. /\ mStatus' = "UNINITIALIZED" => mStatus = "UNINITIALIZED" \/ aPc = "join"
        /\ mStatus = "UNINITIALIZED" => mStatus' = mStatus
        /\ mStatus = "ERROR" => mStatus' \in {"ERROR", "UNINITIALIZED"}
    BY StatusStep DEF DisconnectDone
  <1>1. ASSUME NEW p \in Params, NEW r \in BOOLEAN, Submit(p, r) PROVE LockInv'
    BY <1>1, <1>0, <1>s
       DEF Submit, Call, BeginWait, Configure, MarkIf, Mark, Configurable, flight, history,
           tracker, TypeOK, CallTypes, ThreadTypes
  <1>2. CASE ClearStreaming
    BY <1>2, <1>0, <1>s
       DEF ClearStreaming, Call, device, flight, history, pausing, tracker, TypeOK,
           CallTypes, ThreadTypes
  <1>3. CASE Flush
    BY <1>3, <1>0, <1>s
       DEF Flush, Call, device, flight, history, pausing, tracker, TypeOK, CallTypes,
           ThreadTypes
  <1>4. ASSUME NEW p \in Params, ConfigureStreams(p) PROVE LockInv'
    BY <1>4, <1>0, <1>s
       DEF ConfigureStreams, Call, Configure, Configurable, flight, history, pausing,
           tracker, TypeOK, CallTypes, ThreadTypes
  <1>5. CASE DeleteStream
    BY <1>5, <1>0, <1>s
       DEF DeleteStream, Call, Configurable, flight, history, pausing, tracker, TypeOK,
           CallTypes, ThreadTypes
  <1>6. CASE Drain
    BY <1>6, <1>0, <1>s
       DEF Drain, Call, BeginWait, flight, history, pausing, tracker, TypeOK, CallTypes,
           ThreadTypes
  <1>7. CASE CreateStream
    BY <1>7, <1>0, <1>s
       DEF CreateStream, Call, Configurable, flight, history, pausing, tracker, TypeOK,
           CallTypes, ThreadTypes
  <1>8. CASE CreatePause
    BY <1>8, <1>0, <1>s
       DEF CreatePause, Call, BeginWait, flight, history, tracker, TypeOK, CallTypes,
           ThreadTypes
  <1>9. CASE Disconnect
    BY <1>9, <1>0, <1>s
       DEF Disconnect, Call, BeginWait, flight, history, tracker, TypeOK, CallTypes,
           ThreadTypes
  <1>10. CASE SubmitDone
    BY <1>10, <1>0, <1>s
       DEF SubmitDone, device, flight, history, queue, thread, tracker, TypeOK, CallTypes,
           ThreadTypes
  <1>11. CASE DrainDone
    BY <1>11, <1>0, <1>s
       DEF DrainDone, flight, history, queue, tracker, TypeOK, CallTypes, ThreadTypes
  <1>12. CASE CreateConfigure
    BY <1>12, <1>0, <1>s
       DEF CreateConfigure, Configure, BeginWait, Configurable, flight, history, queue,
           tracker, TypeOK, CallTypes, ThreadTypes
  <1>13. CASE CreateDone
    BY <1>13, <1>0, <1>s
       DEF CreateDone, flight, history, queue, tracker, TypeOK, CallTypes, ThreadTypes
  <1>14. CASE DisconnectExit
    BY <1>14, <1>0, <1>s
       DEF DisconnectExit, flight, history, queue, tracker, TypeOK, CallTypes, ThreadTypes
  <1>15. CASE DisconnectDone
    <2>1. UpdateStatus("UNINITIALIZED") /\ "UNINITIALIZED" \in Statuses
      BY <1>15 DEF DisconnectDone, Statuses
    <2>2. mStatus' = "UNINITIALIZED"
      BY <1>0, <2>1, Updated DEF TypeOK
    <2> QED BY <1>15, <1>0, <1>s, <2>2
               DEF DisconnectDone, thread, TypeOK, CallTypes, ThreadTypes
  <1>16. CASE WaitPaused
    BY <1>16, <1>0, <1>s
       DEF WaitPaused, Mark, apiVars, device, flight, history, queue, tracker, TypeOK,
           CallTypes, ThreadTypes
  <1>17. CASE Unpaused
    BY <1>17, <1>0, <1>s
       DEF Unpaused, apiVars, device, flight, history, queue, tracker, TypeOK, CallTypes,
           ThreadTypes
  <1>18. CASE Exit
    BY <1>18, <1>0, <1>s
       DEF Exit, apiVars, device, flight, history, queue, tracker, TypeOK, CallTypes,
           ThreadTypes
  <1>19. CASE GoIdle
    BY <1>19, <1>0, <1>s
       DEF GoIdle, MarkIf, Mark, apiVars, device, flight, history, queue, tracker, TypeOK,
           CallTypes, ThreadTypes
  <1>20. CASE NextRequest
    BY <1>20, <1>0, <1>s
       DEF NextRequest, MarkIf, Mark, apiVars, device, flight, history, tracker, TypeOK,
           CallTypes, ThreadTypes
  <1>21. CASE Notify
    BY <1>21, <1>0, <1>s
       DEF Notify, Mark, apiVars, flight, history, queue, tracker, TypeOK, CallTypes,
           ThreadTypes
  <1>22. CASE Reconfigure
    BY <1>22, <1>0, <1>s
       DEF Reconfigure, BeginWait, flight, history, queue, tracker, TypeOK, CallTypes,
           ThreadTypes
  <1>23. CASE Reconfigured
    BY <1>23, <1>0, <1>s
       DEF Reconfigured, Configure, Configurable, flight, history, queue, tracker, TypeOK,
           CallTypes, ThreadTypes
  <1>24. CASE Unpause
    BY <1>24, <1>0, <1>s
       DEF Unpause, Mark, apiVars, device, flight, history, queue, tracker, TypeOK,
           CallTypes, ThreadTypes
  <1>25. CASE Prepare
    BY <1>25, <1>0, <1>s
       DEF Prepare, MarkIf, Mark, apiVars, device, history, queue, tracker, TypeOK,
           CallTypes, ThreadTypes
  <1>26. CASE PrepareFails
    BY <1>26, <1>0, <1>s
       DEF PrepareFails, apiVars, device, flight, history, tracker, TypeOK, CallTypes,
           ThreadTypes
  <1>27. CASE Send
    BY <1>27, <1>0, <1>s
       DEF Send, apiVars, device, history, tracker, TypeOK, CallTypes, ThreadTypes
  <1>28. CASE SendFails
    BY <1>28, <1>0, <1>s
       DEF SendFails, apiVars, device, history, tracker, TypeOK, CallTypes, ThreadTypes
  <1>29. CASE Collect
    BY <1>29, <1>0, <1>s
       DEF Collect, apiVars, device, flight, history, queue, thread, TypeOK, CallTypes,
           ThreadTypes
  <1>30. CASE NotifyStatus
    <2>1. mStatus' = "UNINITIALIZED" => mStatus = "UNINITIALIZED"
      BY <1>30 DEF NotifyStatus, UpdateStatus
    <2> QED BY <1>30, <1>0, <1>s, <2>1
               DEF NotifyStatus, apiVars, thread, TypeOK, CallTypes, ThreadTypes
  <1>31. CASE Result
    BY <1>31, <1>0, <1>s
       DEF Result, MarkIf, Mark, apiVars, device, history, queue, thread, tracker, TypeOK,
           CallTypes, ThreadTypes
  <1>32. CASE HalError
    <2>1. mStatus' = "ERROR" /\ mStatus # "UNINITIALIZED"
      BY <1>32, <1>0, Failed DEF HalError, SetError, TypeOK
    <2> QED BY <1>32, <1>0, <2>1 DEF HalError, apiVars
  <1> QED BY <1>1, <1>2, <1>3, <1>4, <1>5, <1>6, <1>7, <1>8, <1>9, <1>10, <1>11, <1>12,
             <1>13, <1>14, <1>15, <1>16, <1>17, <1>18, <1>19, <1>20, <1>21, <1>22, <1>23,
             <1>24, <1>25, <1>26, <1>27, <1>28, <1>29, <1>30, <1>31, <1>32
             DEF Next, Api, ApiReturns, RequestThread, Tracker

\* What is registered is sent, returned or given up.
LEMMA FlightStep ==
    ASSUME IInv, Next PROVE FlightInv'
  <1> USE DEF FlightInv, Bit
  <1>0. TypeOK /\ LockInv /\ FlightInv
    BY DEF IInv
  <1>s. /\ mStatus' = "UNINITIALIZED" => mStatus = "UNINITIALIZED" \/ (atHal' = 0 /\ inFlight' = 0)
        /\ mStatus = "UNINITIALIZED" => mStatus' = mStatus
        /\ mStatus = "ERROR" => mStatus' \in {"ERROR", "UNINITIALIZED"}
    BY StatusStep DEF DisconnectDone
  <1>1. ASSUME NEW p \in Params, NEW r \in BOOLEAN, Submit(p, r) PROVE FlightInv'
    BY <1>1, <1>0, <1>s
       DEF Submit, Call, BeginWait, Configure, MarkIf, Mark, Configurable, flight, history,
           tracker, TypeOK, TrackerTypes
  <1>2. CASE ClearStreaming
    BY <1>2, <1>0, <1>s
       DEF ClearStreaming, Call, device, flight, history, pausing, tracker, TypeOK,
           TrackerTypes
  <1>3. CASE Flush
    BY <1>3, <1>0, <1>s
       DEF Flush, Call, device, flight, history, pausing, tracker, TypeOK, TrackerTypes
  <1>4. ASSUME NEW p \in Params, ConfigureStreams(p) PROVE FlightInv'
    BY <1>4, <1>0, <1>s
       DEF ConfigureStreams, Call, Configure, Configurable, flight, history, pausing,
           tracker, TypeOK, TrackerTypes
  <1>5. CASE DeleteStream
    BY <1>5, <1>0, <1>s
       DEF DeleteStream, Call, Configurable, flight, history, pausing, tracker, TypeOK,
           TrackerTypes
  <1>6. CASE Drain
    BY <1>6, <1>0, <1>s
       DEF Drain, Call, BeginWait, flight, history, pausing, tracker, TypeOK, TrackerTypes
  <1>7. CASE CreateStream
    BY <1>7, <1>0, <1>s
       DEF CreateStream, Call, Configurable, flight, history, pausing, tracker, TypeOK,
           TrackerTypes
  <1>8. CASE CreatePause
    BY <1>8, <1>0, <1>s
       DEF CreatePause, Call, BeginWait, flight, history, tracker, TypeOK, TrackerTypes
  <1>9. CASE Disconnect
    BY <1>9, <1>0, <1>s
       DEF Disconnect, Call, BeginWait, flight, history, tracker, TypeOK, TrackerTypes
  <1>10. CASE SubmitDone
    BY <1>10, <1>0, <1>s
       DEF SubmitDone, device, flight, history, queue, thread, tracker, TypeOK,
           TrackerTypes
  <1>11. CASE DrainDone
    BY <1>11, <1>0, <1>s
       DEF DrainDone, flight, history, queue, tracker, TypeOK, TrackerTypes
  <1>12. CASE CreateConfigure
    BY <1>12, <1>0, <1>s
       DEF CreateConfigure, Configure, BeginWait, Configurable, flight, history, queue,
           tracker, TypeOK, TrackerTypes
  <1>13. CASE CreateDone
    BY <1>13, <1>0, <1>s
       DEF CreateDone, flight, history, queue, tracker, TypeOK, TrackerTypes
  <1>14. CASE DisconnectExit
    BY <1>14, <1>0, <1>s
       DEF DisconnectExit, flight, history, queue, tracker, TypeOK, TrackerTypes
  <1>15. CASE DisconnectDone
    <2>1. UpdateStatus("UNINITIALIZED") /\ "UNINITIALIZED" \in Statuses
      BY <1>15 DEF DisconnectDone, Statuses
    <2>2. mStatus' = "UNINITIALIZED"
      BY <1>0, <2>1, Updated DEF TypeOK
    <2> QED BY <1>15, <1>0, <2>2 DEF DisconnectDone, thread
  <1>16. CASE WaitPaused
    BY <1>16, <1>0, <1>s
       DEF WaitPaused, Mark, apiVars, device, flight, history, queue, tracker, TypeOK,
           TrackerTypes
  <1>17. CASE Unpaused
    BY <1>17, <1>0, <1>s
       DEF Unpaused, apiVars, device, flight, history, queue, tracker, TypeOK, TrackerTypes
  <1>18. CASE Exit
    BY <1>18, <1>0, <1>s
       DEF Exit, apiVars, device, flight, history, queue, tracker, TypeOK, TrackerTypes
  <1>19. CASE GoIdle
    BY <1>19, <1>0, <1>s
       DEF GoIdle, MarkIf, Mark, apiVars, device, flight, history, queue, tracker, TypeOK,
           TrackerTypes
  <1>20. CASE NextRequest
    BY <1>20, <1>0, <1>s
       DEF NextRequest, MarkIf, Mark, apiVars, device, flight, history, tracker, TypeOK,
           TrackerTypes
  <1>21. CASE Notify
    BY <1>21, <1>0, <1>s
       DEF Notify, Mark, apiVars, flight, history, queue, tracker, TypeOK, TrackerTypes
  <1>22. CASE Reconfigure
    BY <1>22, <1>0, <1>s
       DEF Reconfigure, BeginWait, flight, history, queue, tracker, TypeOK, TrackerTypes
  <1>23. CASE Reconfigured
    BY <1>23, <1>0, <1>s
       DEF Reconfigured, Configure, Configurable, flight, history, queue, tracker, TypeOK,
           TrackerTypes
  <1>24. CASE Unpause
    BY <1>24, <1>0, <1>s
       DEF Unpause, Mark, apiVars, device, flight, history, queue, tracker, TypeOK,
           TrackerTypes
  <1>25. CASE Prepare
    BY <1>25, <1>0, <1>s
       DEF Prepare, MarkIf, Mark, apiVars, device, history, queue, tracker, TypeOK,
           TrackerTypes
  <1>26. CASE PrepareFails
    BY <1>26, <1>0, <1>s
       DEF PrepareFails, apiVars, device, flight, history, tracker, TypeOK, TrackerTypes
  <1>27. CASE Send
    BY <1>27, <1>0, <1>s DEF Send, apiVars, device, history, tracker, TypeOK, TrackerTypes
  <1>28. CASE SendFails
    BY <1>28, <1>0, <1>s
       DEF SendFails, apiVars, device, history, tracker, TypeOK, TrackerTypes
  <1>29. CASE Collect
    BY <1>29, <1>0, <1>s
       DEF Collect, apiVars, device, flight, history, queue, thread, TypeOK, TrackerTypes
  <1>30. CASE NotifyStatus
    BY <1>30, <1>0, <1>s
       DEF NotifyStatus, apiVars, flight, history, queue, thread, TypeOK, TrackerTypes
  <1>31. CASE Result
    BY <1>31, <1>0, <1>s
       DEF Result, MarkIf, Mark, apiVars, device, history, queue, thread, tracker, TypeOK,
           TrackerTypes
  <1>32. CASE HalError
    BY <1>32, <1>0, <1>s DEF HalError, apiVars, flight, queue, tracker, TypeOK, TrackerTypes
  <1> QED BY <1>1, <1>2, <1>3, <1>4, <1>5, <1>6, <1>7, <1>8, <1>9, <1>10, <1>11, <1>12,
             <1>13, <1>14, <1>15, <1>16, <1>17, <1>18, <1>19, <1>20, <1>21, <1>22, <1>23,
             <1>24, <1>25, <1>26, <1>27, <1>28, <1>29, <1>30, <1>31, <1>32
             DEF Next, Api, ApiReturns, RequestThread, Tracker

\* A device that failed, or was told to exit, does not come back.
LEMMA LiveStep ==
    ASSUME IInv, Next, Live' PROVE Live
  <1>0. TypeOK /\ LockInv
    BY DEF IInv
  <1>s. /\ mStatus' = "UNINITIALIZED" => mStatus = "UNINITIALIZED" \/ DisconnectDone
        /\ mStatus = "UNINITIALIZED" => mStatus' = mStatus
        /\ mStatus = "ERROR" => mStatus' \in {"ERROR", "UNINITIALIZED"}
    BY StatusStep
  <1>t. mStatus \in {"UNCONFIGURED", "CONFIGURED", "ACTIVE"}
    <2>1. mStatus' \in {"UNCONFIGURED", "CONFIGURED", "ACTIVE"}
      BY DEF Live
    <2>2. mStatus \notin {"ERROR", "UNINITIALIZED"}
      BY <1>s, <2>1
    <2> QED BY <1>0, <2>2 DEF TypeOK, CallTypes
  <1>e. ~exitPending'
    BY DEF Live
  <1> USE DEF Live
  <1>1. ASSUME NEW p \in Params, NEW r \in BOOLEAN, Submit(p, r) PROVE Live
    BY <1>1, <1>t, <1>e
       DEF Submit, Call, BeginWait, Configure, MarkIf, Mark, Configurable, flight, history,
           tracker
  <1>2. CASE ClearStreaming
    BY <1>2, <1>t, <1>e DEF ClearStreaming, Call, device, flight, history, pausing, tracker
  <1>3. CASE Flush
    BY <1>3, <1>t, <1>e DEF Flush, Call, device, flight, history, pausing, tracker
  <1>4. ASSUME NEW p \in Params, ConfigureStreams(p) PROVE Live
    BY <1>4, <1>t, <1>e
       DEF ConfigureStreams, Call, Configure, Configurable, flight, history, pausing,
           tracker
  <1>5. CASE DeleteStream
    BY <1>5, <1>t, <1>e
       DEF DeleteStream, Call, Configurable, flight, history, pausing, tracker
  <1>6. CASE Drain
    BY <1>6, <1>t, <1>e DEF Drain, Call, BeginWait, flight, history, pausing, tracker
  <1>7. CASE CreateStream
    BY <1>7, <1>t, <1>e
       DEF CreateStream, Call, Configurable, flight, history, pausing, tracker
  <1>8. CASE CreatePause
    BY <1>8, <1>t, <1>e DEF CreatePause, Call, BeginWait, flight, history, tracker
  <1>9. CASE Disconnect
    BY <1>9, <1>0, <1>t, <1>e DEF Disconnect, Call, LockInv, Returned, TypeOK, ThreadTypes
  <1>10. CASE SubmitDone
    BY <1>10, <1>t, <1>e DEF SubmitDone, device, flight, history, queue, thread, tracker
  <1>11. CASE DrainDone
    BY <1>11, <1>t, <1>e DEF DrainDone, flight, history, queue, tracker
  <1>12. CASE CreateConfigure
    BY <1>12, <1>t, <1>e
       DEF CreateConfigure, Configure, BeginWait, Configurable, flight, history, queue,
           tracker
  <1>13. CASE CreateDone
    BY <1>13, <1>t, <1>e DEF CreateDone, flight, history, queue, tracker
  <1>14. CASE DisconnectExit
    BY <1>14, <1>t, <1>e DEF DisconnectExit, flight, history, queue, tracker
  <1>15. CASE DisconnectDone
    BY <1>15, <1>t, <1>e DEF DisconnectDone, history, queue, thread, tracker
  <1>16. CASE WaitPaused
    BY <1>16, <1>t, <1>e
       DEF WaitPaused, Mark, apiVars, device, flight, history, queue, tracker
  <1>17. CASE Unpaused
    BY <1>17, <1>t, <1>e DEF Unpaused, apiVars, device, flight, history, queue, tracker
  <1>18. CASE Exit
    BY <1>18, <1>t, <1>e DEF Exit, apiVars, device, flight, history, queue, tracker
  <1>19. CASE GoIdle
    BY <1>19, <1>t, <1>e
       DEF GoIdle, MarkIf, Mark, apiVars, device, flight, history, queue, tracker
  <1>20. CASE NextRequest
    BY <1>20, <1>t, <1>e
       DEF NextRequest, MarkIf, Mark, apiVars, device, flight, history, tracker
  <1>21. CASE Notify
    BY <1>21, <1>t, <1>e DEF Notify, Mark, apiVars, flight, history, queue, tracker
  <1>22. CASE Reconfigure
    BY <1>22, <1>t, <1>e DEF Reconfigure, BeginWait, flight, history, queue, tracker
  <1>23. CASE Reconfigured
    BY <1>23, <1>t, <1>e
       DEF Reconfigured, Configure, Configurable, flight, history, queue, tracker
  <1>24. CASE Unpause
    BY <1>24, <1>t, <1>e DEF Unpause, Mark, apiVars, device, flight, history, queue, tracker
  <1>25. CASE Prepare
    BY <1>25, <1>t, <1>e DEF Prepare, MarkIf, Mark, apiVars, device, history, queue, tracker
  <1>26. CASE PrepareFails
    BY <1>26, <1>t, <1>e DEF PrepareFails, apiVars, device, flight, history, tracker
  <1>27. CASE Send
    BY <1>27, <1>t, <1>e DEF Send, apiVars, device, history, tracker
  <1>28. CASE SendFails
    BY <1>28, <1>t, <1>e DEF SendFails, apiVars, device, history, tracker
  <1>29. CASE Collect
    BY <1>29, <1>t, <1>e DEF Collect, apiVars, device, flight, history, queue, thread
  <1>30. CASE NotifyStatus
    BY <1>30, <1>t, <1>e DEF NotifyStatus, apiVars, flight, history, queue, thread
  <1>31. CASE Result
    BY <1>31, <1>t, <1>e
       DEF Result, MarkIf, Mark, apiVars, device, history, queue, thread, tracker
  <1>32. CASE HalError
    BY <1>32, <1>t, <1>e DEF HalError, apiVars, flight, queue, tracker
  <1> QED BY <1>1, <1>2, <1>3, <1>4, <1>5, <1>6, <1>7, <1>8, <1>9, <1>10, <1>11, <1>12,
             <1>13, <1>14, <1>15, <1>16, <1>17, <1>18, <1>19, <1>20, <1>21, <1>22, <1>23,
             <1>24, <1>25, <1>26, <1>27, <1>28, <1>29, <1>30, <1>31, <1>32
             DEF Next, Api, ApiReturns, RequestThread, Tracker

-------------------------------------------------------------------------------
(* How the waits end while the device is live.                             *)

\* The whole is reported up exactly while the thread is awake or something is in flight.
LEMMA ReportedUp ==
    ASSUME IInv, Live
    PROVE  DeviceState(Reported) <=> Awake \/ inFlight > 0
  <1>1. Reported["request"] = Awake /\ Reported["inflight"] = (inFlight > 0)
    BY DEF IInv, ReportInv
  <1> HIDE DEF Reported, Awake
  <1>2. DeviceState(Reported) <=> Reported["request"] \/ Reported["inflight"]
    BY DEF DeviceState, Components
  <1> QED BY <1>1, <1>2, Zenon

\* Nobody waits for idleness in vain.
LEMMA QuietIsIdle ==
    ASSUME IInv, Live, Quiet, mStatus = "ACTIVE",
           aPc \in {"drain", "pause", "close"} \/ rPc = "reconfWait"
    PROVE  FALSE
  <1>1. mPendingChangeQueue = <<>> /\ mStateTransitions = <<>> /\ atHal = 0
        /\ rPc \in {"notify", "reconf", "reconfWait", "exited", "top", "wait"}
        /\ (rPc \in {"top", "wait"} => mPaused)
    BY DEF Quiet
  <1>2. mDeviceState
    BY <1>1 DEF IInv, StatusInv, ActiveTold
  <1>3. DeviceState(Reported)
    <2>1. TypeOK /\ mDeviceState = DeviceState(mStates)
      BY DEF IInv, ReportInv
    <2>2. Reported = mStates
      BY <1>1, <2>1, NothingPending
    <2> QED BY <1>2, <2>1, <2>2, Zenon
  <1>4. inFlight = 0
    BY <1>1 DEF IInv, FlightInv, Bit, Live
  <1>5. Awake
    BY <1>3, <1>4, ReportedUp
  <1>6. rPc # "exited"
    BY DEF IInv, LockInv, Live
  <1>7. rPc = "notify"
    BY <1>1, <1>5, <1>6 DEF Awake
  <1> QED BY <1>7 DEF IInv, CallInv, ParamsPending

\* Nor for the device to become active again.
LEMMA ResumeNotQuiet ==
    ASSUME IInv, Live, Quiet, aPc = "resume" PROVE FALSE
  <1>1. mRepeatingRequests # None /\ ~ParamsPending
    BY DEF IInv, CallInv
  <1>2. rPc # "exited" /\ (mDoPause => rPc \in {"reconfWait", "unpause"})
    BY DEF IInv, LockInv, ThreadInv, Live
  <1> QED BY <1>1, <1>2 DEF Quiet, ParamsPending

LEMMA WaitsEnd ==
    ASSUME IInv, Live
    PROVE  /\ (aPc \in {"drain", "pause", "close"} \/ rPc = "reconfWait") /\ Waited(FALSE) =>
                  Reached(FALSE) /\ mStatus = "CONFIGURED"
           /\ aPc = "resume" /\ Waited(TRUE) => Reached(TRUE) /\ mStatus = "ACTIVE"
  <1>1. ASSUME aPc \in {"drain", "pause", "close"} \/ rPc = "reconfWait", Waited(FALSE)
        PROVE  Reached(FALSE) /\ mStatus = "CONFIGURED"
    <2>1. FALSE \in mRecentStatusUpdates => mStatus # "ACTIVE"
      BY <1>1 DEF IInv, SettledInv
    <2>2. mStatus # "UNCONFIGURED"
      BY <1>1 DEF IInv, StatusInv
    <2>3. ~(Quiet /\ mStatus = "ACTIVE")
      BY <1>1, QuietIsIdle
    <2>4. mStatus # "ACTIVE" => Reached(FALSE)
      BY DEF Reached
    <2>5. Reached(FALSE) => mStatus # "ACTIVE"
      BY <2>1 DEF Reached
    <2>6. mStatus \in {"UNCONFIGURED", "CONFIGURED", "ACTIVE"}
      BY DEF Live
    <2> QED BY <1>1, <2>2, <2>3, <2>4, <2>5, <2>6 DEF Waited
  <1>2. ASSUME aPc = "resume", Waited(TRUE) PROVE Reached(TRUE) /\ mStatus = "ACTIVE"
    <2>1. TRUE \in mRecentStatusUpdates => mStatus = "ACTIVE"
      BY <1>2 DEF IInv, SettledInv
    <2>2. ~Quiet
      BY <1>2, ResumeNotQuiet
    <2>3. mStatus # "ERROR"
      BY DEF Live
    <2> QED BY <1>2, <2>1, <2>2, <2>3 DEF Waited, Reached
  <1> QED BY <1>1, <1>2

\* What follows each wait of a live device.
LEMMA DrainDoneLive ==
    ASSUME IInv, Live, DrainDone
    PROVE  mStatus = "CONFIGURED" /\ Reached(FALSE)
           /\ UNCHANGED <<mStatus, mRecentStatusUpdates, mDoPause>>
  <1>1. Checked(FALSE) /\ Reached(FALSE) /\ mStatus = "CONFIGURED"
    BY WaitsEnd DEF DrainDone
  <1> QED BY <1>1 DEF Checked

LEMMA DisconnectExitLive ==
    ASSUME IInv, Live, DisconnectExit
    PROVE  UNCHANGED <<mStatus, mRecentStatusUpdates, mDoPause>>
  <1>1. Checked(FALSE) /\ Reached(FALSE)
    BY WaitsEnd DEF DisconnectExit
  <1> QED BY <1>1 DEF Checked

LEMMA CreateDoneLive ==
    ASSUME IInv, Live, CreateDone
    PROVE  mStatus = "ACTIVE" /\ UNCHANGED <<mStatus, mRecentStatusUpdates, mDoPause>>
           /\ ~mPaused
  <1>1. Checked(TRUE) /\ Reached(TRUE) /\ mStatus = "ACTIVE"
    BY WaitsEnd DEF CreateDone
  <1>2. ~mPaused
    BY <1>1 DEF IInv, SettledInv, CreateDone
  <1> QED BY <1>1, <1>2 DEF Checked

LEMMA CreateConfigureLive ==
    ASSUME IInv, Live, CreateConfigure
    PROVE  /\ mStatus = "CONFIGURED" /\ Settled /\ Configure(mSessionParams)
           /\ aPc' = "resume" /\ mInterfaceLock' = mInterfaceLock
           /\ mLatestSessionParams' = mSessionParams /\ mStatus' = "CONFIGURED"
           /\ mRecentStatusUpdates' = {} /\ mDoPause' = FALSE
  <1>1. Reached(FALSE) /\ mStatus = "CONFIGURED" /\ aPc = "pause"
    BY WaitsEnd DEF CreateConfigure
  <1>2. Configurable
    BY <1>1 DEF Configurable
  <1>3. Settled
    BY <1>1 DEF IInv, SettledInv
  <1> QED BY <1>1, <1>2, <1>3 DEF CreateConfigure, BeginWait

LEMMA ReconfiguredLive ==
    ASSUME IInv, Live, Reconfigured
    PROVE  /\ mStatus = "CONFIGURED" /\ Settled /\ Configure(mLatestSessionParams)
           /\ mStatus' = "ACTIVE" /\ TRUE \in mRecentStatusUpdates'
           /\ aPc \in Returned
  <1>1. mStatus = "CONFIGURED" /\ Reached(FALSE)
    <2>1. CASE rPc = "reconfWait"
      BY <2>1, WaitsEnd DEF Reconfigured
    <2>2. CASE rPc = "reconf"
      <3>1. mStatus # "ACTIVE" /\ mStatus # "UNCONFIGURED"
        BY <2>2 DEF Reconfigured, IInv, StatusInv
      <3> QED BY <3>1 DEF Live, Reached
    <2> QED BY <2>1, <2>2 DEF Reconfigured
  <1>2. Configurable
    BY <1>1 DEF Configurable
  <1>3. aPc \in Returned
    <2>1. mInterfaceLock # "api"
      BY DEF Reconfigured, IInv, LockInv
    <2> QED BY <2>1 DEF IInv, LockInv
  <1>4. Settled
    BY <1>1, <1>3 DEF IInv, SettledInv, Returned
  <1>5. UpdateStatus("ACTIVE") /\ "ACTIVE" \in Statuses /\ Configure(mLatestSessionParams)
    BY <1>1, <1>2 DEF Reconfigured, Statuses
  <1>6. mStatus' = "ACTIVE" /\ TRUE \in mRecentStatusUpdates'
    BY <1>5, Updated DEF IInv, TypeOK
  <1> QED BY <1>1, <1>3, <1>4, <1>5, <1>6

-------------------------------------------------------------------------------
(* The request thread and the calls.                                       *)

\* The thread does not pause with a request in hand.
LEMMA HandStep ==
    ASSUME IInv, Next PROVE HandInv'
  <1> USE DEF HandInv
  <1>0. HandInv
    BY DEF IInv, ThreadInv
  <1>1. ASSUME NEW p \in Params, NEW r \in BOOLEAN, Submit(p, r) PROVE HandInv'
    BY <1>1, <1>0
       DEF Submit, Call, BeginWait, Configure, MarkIf, Mark, Configurable, flight, history,
           tracker
  <1>2. CASE ClearStreaming
    BY <1>2, <1>0 DEF ClearStreaming, Call, device, flight, history, pausing, tracker
  <1>3. CASE Flush
    BY <1>3, <1>0 DEF Flush, Call, device, flight, history, pausing, tracker
  <1>4. ASSUME NEW p \in Params, ConfigureStreams(p) PROVE HandInv'
    BY <1>4, <1>0
       DEF ConfigureStreams, Call, Configure, Configurable, flight, history, pausing,
           tracker
  <1>5. CASE DeleteStream
    BY <1>5, <1>0 DEF DeleteStream, Call, Configurable, flight, history, pausing, tracker
  <1>6. CASE Drain
    BY <1>6, <1>0 DEF Drain, Call, BeginWait, flight, history, pausing, tracker
  <1>7. CASE CreateStream
    BY <1>7, <1>0 DEF CreateStream, Call, Configurable, flight, history, pausing, tracker
  <1>8. CASE CreatePause
    BY <1>8, <1>0 DEF CreatePause, Call, BeginWait, flight, history, tracker
  <1>9. CASE Disconnect
    BY <1>9, <1>0 DEF Disconnect, Call, BeginWait, flight, history, tracker
  <1>10. CASE SubmitDone
    BY <1>10, <1>0 DEF SubmitDone, device, flight, history, queue, thread, tracker
  <1>11. CASE DrainDone
    BY <1>11, <1>0 DEF DrainDone, flight, history, queue, tracker
  <1>12. CASE CreateConfigure
    BY <1>12, <1>0
       DEF CreateConfigure, Configure, BeginWait, Configurable, flight, history, queue,
           tracker
  <1>13. CASE CreateDone
    BY <1>13, <1>0 DEF CreateDone, flight, history, queue, tracker
  <1>14. CASE DisconnectExit
    BY <1>14, <1>0 DEF DisconnectExit, flight, history, queue, tracker
  <1>15. CASE DisconnectDone
    BY <1>15, <1>0 DEF DisconnectDone, history, queue, thread, tracker
  <1>16. CASE WaitPaused
    BY <1>16, <1>0 DEF WaitPaused, Mark, apiVars, device, flight, history, queue, tracker
  <1>17. CASE Unpaused
    BY <1>17, <1>0 DEF Unpaused, apiVars, device, flight, history, queue, tracker
  <1>18. CASE Exit
    BY <1>18, <1>0 DEF Exit, apiVars, device, flight, history, queue, tracker
  <1>19. CASE GoIdle
    BY <1>19, <1>0
       DEF GoIdle, MarkIf, Mark, apiVars, device, flight, history, queue, tracker
  <1>20. CASE NextRequest
    BY <1>20, <1>0 DEF NextRequest, MarkIf, Mark, apiVars, device, flight, history, tracker
  <1>21. CASE Notify
    BY <1>21, <1>0 DEF Notify, Mark, apiVars, flight, history, queue, tracker
  <1>22. CASE Reconfigure
    BY <1>22, <1>0 DEF Reconfigure, BeginWait, flight, history, queue, tracker
  <1>23. CASE Reconfigured
    BY <1>23, <1>0
       DEF Reconfigured, Configure, Configurable, flight, history, queue, tracker
  <1>24. CASE Unpause
    BY <1>24, <1>0 DEF Unpause, Mark, apiVars, device, flight, history, queue, tracker
  <1>25. CASE Prepare
    BY <1>25, <1>0 DEF Prepare, MarkIf, Mark, apiVars, device, history, queue, tracker
  <1>26. CASE PrepareFails
    BY <1>26, <1>0 DEF PrepareFails, apiVars, device, flight, history, tracker
  <1>27. CASE Send
    BY <1>27, <1>0 DEF Send, apiVars, device, history, tracker
  <1>28. CASE SendFails
    BY <1>28, <1>0 DEF SendFails, apiVars, device, history, tracker
  <1>29. CASE Collect
    BY <1>29, <1>0 DEF Collect, apiVars, device, flight, history, queue, thread
  <1>30. CASE NotifyStatus
    BY <1>30, <1>0 DEF NotifyStatus, apiVars, flight, history, queue, thread
  <1>31. CASE Result
    BY <1>31, <1>0
       DEF Result, MarkIf, Mark, apiVars, device, history, queue, thread, tracker
  <1>32. CASE HalError
    BY <1>32, <1>0 DEF HalError, apiVars, flight, queue, tracker
  <1> QED BY <1>1, <1>2, <1>3, <1>4, <1>5, <1>6, <1>7, <1>8, <1>9, <1>10, <1>11, <1>12,
             <1>13, <1>14, <1>15, <1>16, <1>17, <1>18, <1>19, <1>20, <1>21, <1>22, <1>23,
             <1>24, <1>25, <1>26, <1>27, <1>28, <1>29, <1>30, <1>31, <1>32
             DEF Next, Api, ApiReturns, RequestThread, Tracker

\* What the thread is asked to do, and the parameters it has seen.
LEMMA ThreadStep ==
    ASSUME IInv, Next PROVE ThreadInv'
  <1>h. HandInv'
    BY HandStep
  <1> SUFFICES ASSUME Live'
               PROVE  /\ mDoPause' => aPc' = "pause" \/ rPc' \in {"reconfWait", "unpause"}
                      /\ mPaused' => \/ mRequestQueue' = <<>> /\ mRepeatingRequests' = None
                                     \/ aPc' \in {"pause", "resume"}
                      /\ mLatestSessionParams' # mSessionParams' =>
                             rPc' \in {"notify", "reconf", "reconfWait"}
    BY <1>h DEF ThreadInv
  <1> DEFINE Goal == /\ mDoPause' => aPc' = "pause" \/ rPc' \in {"reconfWait", "unpause"}
                     /\ mPaused' => \/ mRequestQueue' = <<>> /\ mRepeatingRequests' = None
                                    \/ aPc' \in {"pause", "resume"}
                     /\ mLatestSessionParams' # mSessionParams' =>
                            rPc' \in {"notify", "reconf", "reconfWait"}
  <1> SUFFICES Goal
    OBVIOUS
  <1>l. Live /\ Live' /\ IInv
    BY LiveStep
  <1>0. /\ TypeOK /\ HandInv
        /\ mDoPause => aPc = "pause" \/ rPc \in {"reconfWait", "unpause"}
        /\ mPaused => \/ mRequestQueue = <<>> /\ mRepeatingRequests = None
                      \/ aPc \in {"pause", "resume"}
        /\ mLatestSessionParams # mSessionParams => rPc \in {"notify", "reconf", "reconfWait"}
    BY <1>l DEF IInv, ThreadInv
  <1>1. ASSUME NEW p \in Params, NEW r \in BOOLEAN, Submit(p, r) PROVE Goal
    <2>1. mDoPause => rPc \in {"reconfWait", "unpause"}
      BY <1>1, <1>0, <1>l DEF Submit, Call, Returned
    <2>2. ~mPaused'
      BY <1>1, <1>0, <2>1 DEF Submit, HandInv, TypeOK, ThreadTypes
    <2>3. mLatestSessionParams' = mSessionParams' \/
              (mLatestSessionParams' = mLatestSessionParams /\ mSessionParams' = mSessionParams)
      BY <1>1 DEF Submit, Configure
    <2>4. mDoPause' = mDoPause /\ rPc' = rPc
      BY <1>1 DEF Submit, Call
    <2> QED BY <1>0, <1>l, <2>1, <2>2, <2>3, <2>4
  <1>2. CASE ClearStreaming
    BY <1>2, <1>0
       DEF ClearStreaming, Call, device, flight, history, pausing, tracker, Returned
  <1>3. CASE Flush
    BY <1>3, <1>0 DEF Flush, Call, device, flight, history, pausing, tracker, Returned
  <1>4. ASSUME NEW p \in Params, ConfigureStreams(p) PROVE Goal
    <2>1. mLatestSessionParams' = mSessionParams' \/
              (mLatestSessionParams' = mLatestSessionParams /\ mSessionParams' = mSessionParams)
      BY <1>4 DEF ConfigureStreams, Configure
    <2>2. UNCHANGED <<mDoPause, mPaused, rPc, mRequestQueue, mRepeatingRequests>>
          /\ aPc \in Returned
      BY <1>4 DEF ConfigureStreams, Call, pausing
    <2> QED BY <1>0, <1>l, <2>1, <2>2 DEF Returned
  <1>5. CASE DeleteStream
    BY <1>5, <1>0
       DEF DeleteStream, Call, Configurable, flight, history, pausing, tracker, Returned
  <1>6. CASE Drain
    BY <1>6, <1>0 DEF Drain, Call, BeginWait, flight, history, pausing, tracker, Returned
  <1>7. CASE CreateStream
    BY <1>7, <1>0
       DEF CreateStream, Call, Configurable, flight, history, pausing, tracker, Returned
  <1>8. CASE CreatePause
    BY <1>8, <1>0 DEF CreatePause, Call, BeginWait, flight, history, tracker, Returned
  <1>9. CASE Disconnect
    BY <1>9, <1>0 DEF Disconnect, Call, BeginWait, flight, history, tracker, Returned
  <1>10. CASE SubmitDone
    BY <1>10, <1>0 DEF SubmitDone, device, flight, history, queue, thread, tracker, Returned
  <1>11. CASE DrainDone
    <2>1. mDoPause' = mDoPause
      BY <1>11, <1>l, DrainDoneLive
    <2> QED BY <1>11, <1>0, <1>l, <2>1 DEF DrainDone, queue
  <1>12. CASE CreateConfigure
    <2>1. /\ Configure(mSessionParams) /\ aPc' = "resume" /\ mDoPause' = FALSE
          /\ mLatestSessionParams' = mSessionParams
      BY <1>12, <1>l, CreateConfigureLive
    <2>2. UNCHANGED <<rPc, mPaused, mRequestQueue, mRepeatingRequests>>
      BY <1>12 DEF CreateConfigure, queue
    <2> QED BY <1>0, <1>l, <2>1, <2>2 DEF Configure
  <1>13. CASE CreateDone
    <2>1. mDoPause' = mDoPause /\ ~mPaused
      BY <1>13, <1>l, CreateDoneLive
    <2> QED BY <1>13, <1>0, <1>l, <2>1 DEF CreateDone, queue
  <1>14. CASE DisconnectExit
    BY <1>14, <1>l DEF DisconnectExit, Live
  <1>15. CASE DisconnectDone
    BY <1>15, <1>0 DEF DisconnectDone, history, queue, thread, tracker, Returned
  <1>16. CASE WaitPaused
    BY <1>16, <1>0
       DEF WaitPaused, Mark, apiVars, device, flight, history, queue, tracker, Returned
  <1>17. CASE Unpaused
    BY <1>17, <1>0 DEF Unpaused, apiVars, device, flight, history, queue, tracker, Returned
  <1>18. CASE Exit
    BY <1>18, <1>0 DEF Exit, apiVars, device, flight, history, queue, tracker, Returned
  <1>19. CASE GoIdle
    BY <1>19, <1>0
       DEF GoIdle, MarkIf, Mark, apiVars, device, flight, history, queue, tracker, Returned
  <1>20. CASE NextRequest
    BY <1>20, <1>0
       DEF NextRequest, MarkIf, Mark, apiVars, device, flight, history, tracker, Returned
  <1>21. CASE Notify
    BY <1>21, <1>0 DEF Notify, Mark, apiVars, flight, history, queue, tracker, Returned
  <1>22. CASE Reconfigure
    BY <1>22, <1>0 DEF Reconfigure, BeginWait, flight, history, queue, tracker, Returned
  <1>23. CASE Reconfigured
    <2>1. mSessionParams' = mLatestSessionParams
      BY <1>23, <1>l, ReconfiguredLive DEF Configure
    <2> QED BY <1>23, <1>0, <1>l, <2>1 DEF Reconfigured, queue
  <1>24. CASE Unpause
    BY <1>24, <1>0
       DEF Unpause, Mark, apiVars, device, flight, history, queue, tracker, Returned
  <1>25. CASE Prepare
    BY <1>25, <1>0
       DEF Prepare, MarkIf, Mark, apiVars, device, history, queue, tracker, Returned
  <1>26. CASE PrepareFails
    BY <1>26, <1>0 DEF PrepareFails, apiVars, device, flight, history, tracker, Returned
  <1>27. CASE Send
    BY <1>27, <1>0 DEF Send, apiVars, device, history, tracker, Returned
  <1>28. CASE SendFails
    BY <1>28, <1>0 DEF SendFails, apiVars, device, history, tracker, Returned
  <1>29. CASE Collect
    BY <1>29, <1>0 DEF Collect, apiVars, device, flight, history, queue, thread, Returned
  <1>30. CASE NotifyStatus
    BY <1>30, <1>0 DEF NotifyStatus, apiVars, flight, history, queue, thread, Returned
  <1>31. CASE Result
    BY <1>31, <1>0
       DEF Result, MarkIf, Mark, apiVars, device, history, queue, thread, tracker, Returned
  <1>32. CASE HalError
    <2>1. mStatus' = "ERROR"
      BY <1>32, <1>l, Failed DEF HalError, SetError, IInv, TypeOK
    <2> QED BY <1>l, <2>1 DEF Live
  <1> QED BY <1>1, <1>2, <1>3, <1>4, <1>5, <1>6, <1>7, <1>8, <1>9, <1>10, <1>11, <1>12,
             <1>13, <1>14, <1>15, <1>16, <1>17, <1>18, <1>19, <1>20, <1>21, <1>22, <1>23,
             <1>24, <1>25, <1>26, <1>27, <1>28, <1>29, <1>30, <1>31, <1>32
             DEF Next, Api, ApiReturns, RequestThread, Tracker

\* No new parameters turn up where nothing is submitted.
LEMMA NoNewParams ==
    ASSUME ~ParamsPending, mLatestSessionParams' = mLatestSessionParams,
           mRepeatingRequests' \in {mRepeatingRequests, None},
           Range(mRequestQueue') \subseteq Range(mRequestQueue),
           rPc' \notin {"notify", "reconf", "reconfWait", "unpause"}
    PROVE  ~ParamsPending'
  BY DEF ParamsPending

LEMMA RangeOfTail ==
    ASSUME NEW q \in Seq(Params), q # <<>>
    PROVE  Range(Tail(q)) \subseteq Range(q) /\ Head(q) \in Range(q)
  BY DEF Range

\* A call that waits does not meet new parameters.
LEMMA CallStep ==
    ASSUME ~Careless, IInv, Next PROVE CallInv'
  <1> DEFINE Goal ==
               /\ aPc' \in {"drain", "close", "pause", "resume"} => ~ParamsPending'
               /\ aPc' \in {"pause", "resume"} => mRepeatingRequests' # None
               /\ aPc' = "pause" => mDoPause' /\ (mPaused' => rPc' = "top")
  <1> SUFFICES ASSUME Live' PROVE Goal
    BY DEF CallInv
  <1>l. Live /\ Live' /\ IInv
    BY LiveStep
  <1>0. /\ aPc \in {"drain", "close", "pause", "resume"} => ~ParamsPending
        /\ aPc \in {"pause", "resume"} => mRepeatingRequests # None
        /\ aPc = "pause" => mDoPause /\ (mPaused => rPc = "top")
        /\ TypeOK /\ ~Careless
        /\ mPaused => \/ mRequestQueue = <<>> /\ mRepeatingRequests = None
                      \/ aPc \in {"pause", "resume"}
        /\ mLatestSessionParams # mSessionParams => rPc \in {"notify", "reconf", "reconfWait"}
    BY <1>l DEF IInv, CallInv, ThreadInv
  <1>1. ASSUME NEW p \in Params, NEW r \in BOOLEAN, Submit(p, r) PROVE Goal
    BY <1>1 DEF Submit, Call
  <1>2. CASE ClearStreaming
    BY <1>2 DEF ClearStreaming, Call
  <1>3. CASE Flush
    BY <1>3 DEF Flush, Call
  <1>4. ASSUME NEW p \in Params, ConfigureStreams(p) PROVE Goal
    BY <1>4 DEF ConfigureStreams, Call
  <1>5. CASE DeleteStream
    BY <1>5 DEF DeleteStream, Call
  <1>6. CASE Drain
    <2>1. /\ UNCHANGED <<mLatestSessionParams, mRepeatingRequests, mRequestQueue>>
          /\ rPc' = rPc \/ rPc' \notin {"notify", "reconf", "reconfWait", "unpause"}
      BY <1>6 DEF Drain, Call, pausing
    <2>2. ~ParamsPending => ~ParamsPending'
      BY <2>1 DEF ParamsPending
    <2>3. ~ParamsPending
      BY <1>6, <1>0 DEF Drain
    <2> QED BY <1>6, <1>0, <2>1, <2>2, <2>3 DEF Drain, Call, pausing
  <1>7. CASE CreateStream
    BY <1>7 DEF CreateStream, Call
  <1>8. CASE CreatePause
    <2>1. UNCHANGED <<mLatestSessionParams, mRepeatingRequests, mRequestQueue, rPc, mPaused>>
          /\ mDoPause' = TRUE /\ aPc' = "pause" /\ ~ParamsPending /\ mRepeatingRequests # None
      BY <1>8, <1>0 DEF CreatePause, Call
    <2>2. ~ParamsPending'
      BY <2>1 DEF ParamsPending
    <2>3. ~mPaused
      BY <1>8, <1>0, <2>1 DEF CreatePause, Call, Returned
    <2> QED BY <2>1, <2>2, <2>3
  <1>9. CASE Disconnect
    <2>1. /\ UNCHANGED <<mLatestSessionParams, mRequestQueue, rPc>> /\ aPc' \in {"close", "join"}
          /\ mRepeatingRequests' \in {mRepeatingRequests, None} /\ ~ParamsPending
      BY <1>9, <1>0 DEF Disconnect, Call
    <2>2. ~ParamsPending'
      BY <2>1 DEF ParamsPending
    <2> QED BY <2>1, <2>2
  <1>10. CASE SubmitDone
    BY <1>10 DEF SubmitDone
  <1>11. CASE DrainDone
    BY <1>11 DEF DrainDone
  <1>12. CASE CreateConfigure
    <2>1. mLatestSessionParams' = mSessionParams /\ aPc = "pause" /\ aPc' = "resume"
          /\ UNCHANGED <<rPc, mRequestQueue, mRepeatingRequests>>
      BY <1>12, <1>l, CreateConfigureLive DEF CreateConfigure, queue
    <2>2. ~ParamsPending /\ mRepeatingRequests # None
      BY <1>0, <2>1
    <2>3. mLatestSessionParams = mSessionParams
      BY <1>0, <2>2 DEF ParamsPending
    <2>4. ~ParamsPending'
      BY <2>1, <2>2, <2>3 DEF ParamsPending
    <2> QED BY <2>1, <2>2, <2>4
  <1>13. CASE CreateDone
    BY <1>13 DEF CreateDone
  <1>14. CASE DisconnectExit
    BY <1>14 DEF DisconnectExit
  <1>15. CASE DisconnectDone
    BY <1>15 DEF DisconnectDone
  <1>16. CASE WaitPaused
    <2>1. /\ UNCHANGED <<mLatestSessionParams, mRepeatingRequests, mRequestQueue>>
          /\ rPc' = rPc \/ rPc' \notin {"notify", "reconf", "reconfWait", "unpause"}
      BY <1>16 DEF WaitPaused, queue, apiVars
    <2>2. ~ParamsPending => ~ParamsPending'
      BY <2>1 DEF ParamsPending
    <2> QED BY <1>16, <1>0, <2>1, <2>2 DEF WaitPaused, queue, apiVars
  <1>17. CASE Unpaused
    <2>1. /\ UNCHANGED <<mLatestSessionParams, mRepeatingRequests, mRequestQueue>>
          /\ rPc' = rPc \/ rPc' \notin {"notify", "reconf", "reconfWait", "unpause"}
      BY <1>17 DEF Unpaused, queue, apiVars
    <2>2. ~ParamsPending => ~ParamsPending'
      BY <2>1 DEF ParamsPending
    <2> QED BY <1>17, <1>0, <2>1, <2>2 DEF Unpaused, queue, apiVars
  <1>18. CASE Exit
    BY <1>18, <1>l DEF Exit, Live
  <1>19. CASE GoIdle
    <2>1. UNCHANGED <<mLatestSessionParams, mRepeatingRequests, mRequestQueue, aPc>>
          /\ rPc' = "top" /\ mRepeatingRequests = None /\ mDoPause' = mDoPause
      BY <1>19 DEF GoIdle, queue, apiVars
    <2>2. ~ParamsPending => ~ParamsPending'
      BY <2>1 DEF ParamsPending
    <2> QED BY <1>0, <2>1, <2>2
  <1>20. CASE NextRequest
    <2>1. UNCHANGED <<mRepeatingRequests, aPc, mDoPause>> /\ mPaused' = FALSE
      BY <1>20 DEF NextRequest, apiVars
    <2>2. ASSUME ~ParamsPending PROVE ~ParamsPending'
      <3>1. mNextRequests' = mLatestSessionParams
        <4>1. CASE mRequestQueue # <<>>
          <5>1. mNextRequests' = Head(mRequestQueue)
            BY <1>20, <4>1 DEF NextRequest
          <5>2. Head(mRequestQueue) \in Range(mRequestQueue) /\ Head(mRequestQueue) \in Params
            BY <1>0, <4>1, RangeOfTail DEF TypeOK, ThreadTypes
          <5> QED BY <2>2, <5>1, <5>2 DEF ParamsPending
        <4>2. CASE mRequestQueue = <<>>
          <5>1. mNextRequests' = mRepeatingRequests /\ mRepeatingRequests \in Params
            BY <1>20, <1>0, <4>2 DEF NextRequest, TypeOK, ThreadTypes
          <5> QED BY <2>2, <5>1 DEF ParamsPending
        <4> QED BY <4>1, <4>2
      <3>2. rPc' = "prepare" /\ mLatestSessionParams' = mLatestSessionParams
        BY <1>20, <3>1 DEF NextRequest
      <3>3. Range(mRequestQueue') \subseteq Range(mRequestQueue)
        <4>1. CASE mRequestQueue # <<>>
          <5>1. mRequestQueue' = Tail(mRequestQueue) /\ mRequestQueue \in Seq(Params)
            BY <1>20, <1>0, <4>1 DEF NextRequest, TypeOK, ThreadTypes
          <5> QED BY <4>1, <5>1, RangeOfTail
        <4>2. CASE mRequestQueue = <<>>
          BY <1>20, <4>2 DEF NextRequest
        <4> QED BY <4>1, <4>2
      <3> QED BY <2>1, <2>2, <3>2, <3>3, NoNewParams
    <2> QED BY <1>0, <2>1, <2>2
  <1>21. CASE Notify
    <2>1. ParamsPending
      BY <1>21 DEF Notify, ParamsPending
    <2>2. aPc \notin {"drain", "close", "pause", "resume"}
      BY <1>0, <2>1
    <2>3. aPc' = aPc
      BY <1>21 DEF Notify, apiVars
    <2> QED BY <2>2, <2>3
  <1>22. CASE Reconfigure
    <2>1. ParamsPending
      BY <1>22 DEF Reconfigure, ParamsPending
    <2>2. aPc \notin {"drain", "close", "pause", "resume"}
      BY <1>0, <2>1
    <2>3. aPc' = aPc
      BY <1>22 DEF Reconfigure, apiVars
    <2> QED BY <2>2, <2>3
  <1>23. CASE Reconfigured
    <2>1. ParamsPending
      BY <1>23 DEF Reconfigured, ParamsPending
    <2>2. aPc \notin {"drain", "close", "pause", "resume"}
      BY <1>0, <2>1
    <2>3. aPc' = aPc
      BY <1>23 DEF Reconfigured, apiVars
    <2> QED BY <2>2, <2>3
  <1>24. CASE Unpause
    <2>1. ParamsPending
      BY <1>24 DEF Unpause, ParamsPending
    <2>2. aPc \notin {"drain", "close", "pause", "resume"}
      BY <1>0, <2>1
    <2>3. aPc' = aPc
      BY <1>24 DEF Unpause, apiVars
    <2> QED BY <2>2, <2>3
  <1>25. CASE Prepare
    <2>1. /\ UNCHANGED <<mLatestSessionParams, mRepeatingRequests, mRequestQueue>>
          /\ rPc' = rPc \/ rPc' \notin {"notify", "reconf", "reconfWait", "unpause"}
      BY <1>25 DEF Prepare, queue, apiVars
    <2>2. ~ParamsPending => ~ParamsPending'
      BY <2>1 DEF ParamsPending
    <2> QED BY <1>25, <1>0, <2>1, <2>2 DEF Prepare, queue, apiVars
  <1>26. CASE PrepareFails
    <2>1. /\ UNCHANGED <<mLatestSessionParams, mRepeatingRequests, mRequestQueue>>
          /\ rPc' = rPc \/ rPc' \notin {"notify", "reconf", "reconfWait", "unpause"}
      BY <1>26 DEF PrepareFails, queue, apiVars
    <2>2. ~ParamsPending => ~ParamsPending'
      BY <2>1 DEF ParamsPending
    <2> QED BY <1>26, <1>0, <2>1, <2>2 DEF PrepareFails, queue, apiVars
  <1>27. CASE Send
    <2>1. /\ UNCHANGED <<mLatestSessionParams, mRepeatingRequests, mRequestQueue>>
          /\ rPc' = rPc \/ rPc' \notin {"notify", "reconf", "reconfWait", "unpause"}
      BY <1>27 DEF Send, apiVars
    <2>2. ~ParamsPending => ~ParamsPending'
      BY <2>1 DEF ParamsPending
    <2> QED BY <1>27, <1>0, <2>1, <2>2 DEF Send, apiVars
  <1>28. CASE SendFails
    <2>1. /\ UNCHANGED <<mLatestSessionParams, mRepeatingRequests, mRequestQueue>>
          /\ rPc' = rPc \/ rPc' \notin {"notify", "reconf", "reconfWait", "unpause"}
      BY <1>28 DEF SendFails, apiVars
    <2>2. ~ParamsPending => ~ParamsPending'
      BY <2>1 DEF ParamsPending
    <2> QED BY <1>28, <1>0, <2>1, <2>2 DEF SendFails, apiVars
  <1>29. CASE Collect
    <2>1. /\ UNCHANGED <<mLatestSessionParams, mRepeatingRequests, mRequestQueue>>
          /\ rPc' = rPc \/ rPc' \notin {"notify", "reconf", "reconfWait", "unpause"}
      BY <1>29 DEF Collect, queue, thread, apiVars
    <2>2. ~ParamsPending => ~ParamsPending'
      BY <2>1 DEF ParamsPending
    <2> QED BY <1>29, <1>0, <2>1, <2>2 DEF Collect, queue, thread, apiVars
  <1>30. CASE NotifyStatus
    <2>1. /\ UNCHANGED <<mLatestSessionParams, mRepeatingRequests, mRequestQueue>>
          /\ rPc' = rPc \/ rPc' \notin {"notify", "reconf", "reconfWait", "unpause"}
      BY <1>30 DEF NotifyStatus, queue, thread, apiVars
    <2>2. ~ParamsPending => ~ParamsPending'
      BY <2>1 DEF ParamsPending
    <2> QED BY <1>30, <1>0, <2>1, <2>2 DEF NotifyStatus, queue, thread, apiVars
  <1>31. CASE Result
    <2>1. /\ UNCHANGED <<mLatestSessionParams, mRepeatingRequests, mRequestQueue>>
          /\ rPc' = rPc \/ rPc' \notin {"notify", "reconf", "reconfWait", "unpause"}
      BY <1>31 DEF Result, queue, thread, apiVars
    <2>2. ~ParamsPending => ~ParamsPending'
      BY <2>1 DEF ParamsPending
    <2> QED BY <1>31, <1>0, <2>1, <2>2 DEF Result, queue, thread, apiVars
  <1>32. CASE HalError
    <2>1. mStatus' = "ERROR"
      BY <1>32, <1>l, Failed DEF HalError, SetError, IInv, TypeOK
    <2> QED BY <1>l, <2>1 DEF Live
  <1> QED BY <1>1, <1>2, <1>3, <1>4, <1>5, <1>6, <1>7, <1>8, <1>9, <1>10, <1>11, <1>12,
             <1>13, <1>14, <1>15, <1>16, <1>17, <1>18, <1>19, <1>20, <1>21, <1>22, <1>23,
             <1>24, <1>25, <1>26, <1>27, <1>28, <1>29, <1>30, <1>31, <1>32
             DEF Next, Api, ApiReturns, RequestThread, Tracker

-------------------------------------------------------------------------------
(* The reports.                                                            *)

\* The lists of transitions that a live device meets.
LEMMA ListFacts ==
    /\ <<>> # <<TRUE>> /\ <<>> # <<FALSE>> /\ <<>> # <<TRUE, FALSE>>
    /\ <<TRUE>> # <<FALSE>> /\ <<TRUE>> # <<TRUE, FALSE>> /\ <<FALSE>> # <<TRUE, FALSE>>
    /\ Tail(<<TRUE>>) = <<>> /\ Tail(<<FALSE>>) = <<>> /\ Tail(<<TRUE, FALSE>>) = <<FALSE>>
    /\ Head(<<TRUE>>) = TRUE /\ Head(<<FALSE>>) = FALSE /\ Head(<<TRUE, FALSE>>) = TRUE
    /\ FALSE \notin Range(<<>>) /\ FALSE \notin Range(<<TRUE>>)
    /\ FALSE \in Range(<<FALSE>>) /\ FALSE \in Range(<<TRUE, FALSE>>)
  <1>1. /\ <<>> # <<TRUE>> /\ <<>> # <<FALSE>> /\ <<>> # <<TRUE, FALSE>>
    OBVIOUS
  <1>2. <<TRUE>> # <<TRUE, FALSE>> /\ <<FALSE>> # <<TRUE, FALSE>>
    OBVIOUS
  <1>3. <<TRUE>> # <<FALSE>>
    <2>1. <<TRUE>>[1] = TRUE /\ <<FALSE>>[1] = FALSE
      OBVIOUS
    <2> QED BY <2>1, Zenon
  <1>4. Tail(<<TRUE>>) = <<>> /\ Tail(<<FALSE>>) = <<>>
    OBVIOUS
  <1>5. Tail(<<TRUE, FALSE>>) = <<FALSE>>
    <2>1. ASSUME NEW a \in BOOLEAN, NEW b \in BOOLEAN PROVE Tail(<<a, b>>) = <<b>>
      <3> DEFINE s == Tail(<<a, b>>)
                 t == <<b>>
      <3>1. s \in Seq(BOOLEAN) /\ Len(s) = 1 /\ s[1] = b
        OBVIOUS
      <3>2. t \in Seq(BOOLEAN) /\ Len(t) = 1 /\ t[1] = b
        OBVIOUS
      <3> HIDE DEF s, t
      <3>3. \A i \in 1..Len(s) : s[i] = t[i]
        BY <3>1, <3>2
      <3>4. s = t
        BY <3>1, <3>2, <3>3, SeqEqual
      <3> QED BY <3>4 DEF s, t
    <2> QED BY <2>1, Zenon
  <1>6. Head(<<TRUE>>) = TRUE /\ Head(<<FALSE>>) = FALSE /\ Head(<<TRUE, FALSE>>) = TRUE
    <2>1. ASSUME NEW a, NEW b PROVE Head(<<a>>) = a /\ Head(<<a, b>>) = a
      OBVIOUS
    <2> QED BY <2>1, Zenon
  <1>7. FALSE \notin Range(<<>>)
    BY DEF Range
  <1>8. FALSE \notin Range(<<TRUE>>)
    <2>1. ASSUME NEW a PROVE \A i \in DOMAIN <<a>> : <<a>>[i] = a
      OBVIOUS
    <2>2. \A i \in DOMAIN <<TRUE>> : <<TRUE>>[i] = TRUE
      BY <2>1, Zenon
    <2> QED BY <2>2, Zenon DEF Range
  <1>9. FALSE \in Range(<<FALSE>>)
    <2>1. 1 \in DOMAIN <<FALSE>> /\ <<FALSE>>[1] = FALSE
      OBVIOUS
    <2> QED BY <2>1, Zenon DEF Range
  <1>10. FALSE \in Range(<<TRUE, FALSE>>)
    <2>1. 2 \in DOMAIN <<TRUE, FALSE>> /\ <<TRUE, FALSE>>[2] = FALSE
      OBVIOUS
    <2> QED BY <2>1, Zenon DEF Range
  <1> QED BY <1>1, <1>2, <1>3, <1>4, <1>5, <1>6, <1>7, <1>8, <1>9, <1>10, Zenon

\* Nothing is reported: the reports stay true as long as what they tell does.
LEMMA ReportKept ==
    ASSUME IInv, Live, UNCHANGED tracker, Awake' = Awake, inFlight' = inFlight
    PROVE  ReportInv' /\ TransitionInv'
  <1>1. Reported' = Reported /\ UpBefore' = UpBefore
    BY TrackerKept
  <1>2. /\ mDeviceState = DeviceState(mStates) /\ Reported["request"] = Awake
        /\ Reported["inflight"] = (inFlight > 0) /\ UpBefore
    BY DEF IInv, ReportInv
  <1>3. UNCHANGED <<mStates, mPendingChangeQueue, mDeviceState, mStateTransitions>>
    BY DEF tracker
  <1> HIDE DEF Reported, UpBefore, Awake
  <1>4. mDeviceState' = DeviceState(mStates')
    BY <1>2, <1>3, Zenon
  <1>5. Reported["request"]' = Awake' /\ Reported["inflight"]' = (inFlight' > 0)
    BY <1>1, <1>2, Zenon
  <1>6. ReportInv'
    BY <1>1, <1>2, <1>4, <1>5, Zenon DEF ReportInv
  <1>7. TransitionInv'
    BY <1>3 DEF IInv, TransitionInv
  <1> QED BY <1>6, <1>7

\* The same while something else keeps the whole up.
LEMMA ReportKeptUp ==
    ASSUME IInv, Live, UNCHANGED tracker, Awake' = Awake, (inFlight' > 0) = (inFlight > 0),
           FALSE \notin Range(mStateTransitions)
    PROVE  ReportInv' /\ TransitionInv'
  <1>1. Reported' = Reported /\ UpBefore' = UpBefore
    BY TrackerKept
  <1>2. /\ mDeviceState = DeviceState(mStates) /\ Reported["request"] = Awake
        /\ Reported["inflight"] = (inFlight > 0) /\ UpBefore
    BY DEF IInv, ReportInv
  <1>3. UNCHANGED <<mStates, mPendingChangeQueue, mDeviceState, mStateTransitions>>
    BY DEF tracker
  <1> HIDE DEF Reported, UpBefore, Awake
  <1>4. mDeviceState' = DeviceState(mStates')
    BY <1>2, <1>3, Zenon
  <1>5. Reported["request"]' = Awake' /\ Reported["inflight"]' = (inFlight' > 0)
    BY <1>1, <1>2, Zenon
  <1>6. ReportInv'
    BY <1>1, <1>2, <1>4, <1>5, Zenon DEF ReportInv
  <1>7. TransitionInv'
    <2>1. mStateTransitions \in {<<>>, <<TRUE>>, <<FALSE>>, <<TRUE, FALSE>>}
      BY DEF IInv, TransitionInv
    <2>2. mStateTransitions' = mStateTransitions
      BY <1>3
    <2> QED BY <2>1, <2>2, Zenon DEF TransitionInv
  <1> QED BY <1>6, <1>7

\* Something is reported, while the whole is reported up or nothing is pending, and no
\* report of idleness is under way to the device.
LEMMA ReportMarked ==
    ASSUME IInv, Live, NEW c \in Components, NEW a \in BOOLEAN, Mark(c, a),
           mPendingChangeQueue # <<>> => DeviceState(Reported),
           FALSE \notin Range(mStateTransitions),
           Awake' = (IF c = "request" THEN a ELSE Awake),
           (inFlight' > 0) = (IF c = "inflight" THEN a ELSE inFlight > 0)
    PROVE  ReportInv' /\ TransitionInv'
  <1>1. TypeOK
    BY DEF IInv
  <1>2. /\ mDeviceState = DeviceState(mStates) /\ Reported["request"] = Awake
        /\ Reported["inflight"] = (inFlight > 0) /\ UpBefore
    BY DEF IInv, ReportInv
  <1>3. Reported' = [Reported EXCEPT ![c] = a] /\ UpBefore'
    BY <1>1, <1>2, Marked
  <1>4. UNCHANGED <<mStates, mDeviceState, mStateTransitions>>
    BY DEF Mark
  <1>5. Reported \in States
    BY <1>1, ReportedTyped
  <1> HIDE DEF Reported, UpBefore, Awake, DeviceState
  <1>6. mDeviceState' = DeviceState(mStates')
    <2>1. mDeviceState' = mDeviceState /\ mStates' = mStates
      BY <1>4
    <2> QED BY <1>2, <2>1, Zenon
  <1>7. Reported'["request"] = (IF c = "request" THEN a ELSE Reported["request"])
        /\ Reported'["inflight"] = (IF c = "inflight" THEN a ELSE Reported["inflight"])
    BY <1>3, <1>5 DEF States, Components
  <1>8. Reported'["request"] = Awake' /\ Reported'["inflight"] = (inFlight' > 0)
    <2>1. CASE c = "request"
      <3>1. c # "inflight"
        BY <2>1
      <3> QED BY <1>2, <1>7, <2>1, <3>1, Zenon
    <2>2. CASE c = "inflight"
      <3>1. c # "request"
        BY <2>2
      <3> QED BY <1>2, <1>7, <2>2, <3>1, Zenon
    <2> QED BY <2>1, <2>2 DEF Components
  <1>9. ReportInv'
    <2>1. (Reported["request"])' = Reported'["request"]
          /\ (Reported["inflight"])' = Reported'["inflight"]
      OBVIOUS
    <2> QED BY <1>3, <1>6, <1>8, <2>1, Zenon DEF ReportInv
  <1>10. TransitionInv'
    <2>1. mStateTransitions \in {<<>>, <<TRUE>>, <<FALSE>>, <<TRUE, FALSE>>}
      BY DEF IInv, TransitionInv
    <2>2. mStateTransitions' = mStateTransitions
      BY <1>4
    <2> QED BY <2>1, <2>2, Zenon DEF TransitionInv
  <1> QED BY <1>9, <1>10

\* Where the thread is awake or something is in flight, there is no idleness under way.
LEMMA UpIsUp ==
    ASSUME IInv, Live, Awake \/ inFlight > 0
    PROVE  DeviceState(Reported) /\ FALSE \notin Range(mStateTransitions)
  <1>1. DeviceState(Reported)
    BY ReportedUp
  <1>2. inFlight \in Nat
    BY DEF IInv, TypeOK, TrackerTypes
  <1>3. FALSE \in Range(mStateTransitions) => ~Awake /\ inFlight = 0
    BY Zenon DEF IInv, TransitionInv
  <1>4. ASSUME FALSE \in Range(mStateTransitions) PROVE FALSE
    <2> HIDE DEF Awake
    <2> QED BY <1>2, <1>3, <1>4
  <1> QED BY <1>1, <1>4

\* The tracker knows the state of the whole.
LEMMA DeviceStep ==
    ASSUME IInv, Next PROVE mDeviceState' = DeviceState(mStates')
  <1>0. mDeviceState = DeviceState(mStates)
    BY DEF IInv, ReportInv
  <1> DEFINE Kept == mDeviceState' = mDeviceState /\ mStates' = mStates
  <1>k. Kept => mDeviceState' = DeviceState(mStates')
    BY <1>0, Zenon
  <1>1. ASSUME NEW p \in Params, NEW r \in BOOLEAN, Submit(p, r) PROVE mDeviceState' = DeviceState(mStates')
    <2>1. Kept
      BY <1>1
         DEF Submit, Call, BeginWait, Configure, MarkIf, Mark, Configurable, flight,
             history, tracker
    <2> QED BY <1>k, <2>1
  <1>2. CASE ClearStreaming
    <2>1. Kept
      BY <1>2 DEF ClearStreaming, Call, device, flight, history, pausing, tracker
    <2> QED BY <1>k, <2>1
  <1>3. CASE Flush
    <2>1. Kept
      BY <1>3 DEF Flush, Call, device, flight, history, pausing, tracker
    <2> QED BY <1>k, <2>1
  <1>4. ASSUME NEW p \in Params, ConfigureStreams(p) PROVE mDeviceState' = DeviceState(mStates')
    <2>1. Kept
      BY <1>4
         DEF ConfigureStreams, Call, Configure, Configurable, flight, history, pausing,
             tracker
    <2> QED BY <1>k, <2>1
  <1>5. CASE DeleteStream
    <2>1. Kept
      BY <1>5 DEF DeleteStream, Call, Configurable, flight, history, pausing, tracker
    <2> QED BY <1>k, <2>1
  <1>6. CASE Drain
    <2>1. Kept
      BY <1>6 DEF Drain, Call, BeginWait, flight, history, pausing, tracker
    <2> QED BY <1>k, <2>1
  <1>7. CASE CreateStream
    <2>1. Kept
      BY <1>7 DEF CreateStream, Call, Configurable, flight, history, pausing, tracker
    <2> QED BY <1>k, <2>1
  <1>8. CASE CreatePause
    <2>1. Kept
      BY <1>8 DEF CreatePause, Call, BeginWait, flight, history, tracker
    <2> QED BY <1>k, <2>1
  <1>9. CASE Disconnect
    <2>1. Kept
      BY <1>9 DEF Disconnect, Call, BeginWait, flight, history, tracker
    <2> QED BY <1>k, <2>1
  <1>10. CASE SubmitDone
    <2>1. Kept
      BY <1>10 DEF SubmitDone, device, flight, history, queue, thread, tracker
    <2> QED BY <1>k, <2>1
  <1>11. CASE DrainDone
    <2>1. Kept
      BY <1>11 DEF DrainDone, flight, history, queue, tracker
    <2> QED BY <1>k, <2>1
  <1>12. CASE CreateConfigure
    <2>1. Kept
      BY <1>12
         DEF CreateConfigure, Configure, BeginWait, Configurable, flight, history, queue,
             tracker
    <2> QED BY <1>k, <2>1
  <1>13. CASE CreateDone
    <2>1. Kept
      BY <1>13 DEF CreateDone, flight, history, queue, tracker
    <2> QED BY <1>k, <2>1
  <1>14. CASE DisconnectExit
    <2>1. Kept
      BY <1>14 DEF DisconnectExit, flight, history, queue, tracker
    <2> QED BY <1>k, <2>1
  <1>15. CASE DisconnectDone
    <2>1. Kept
      BY <1>15 DEF DisconnectDone, history, queue, thread, tracker
    <2> QED BY <1>k, <2>1
  <1>16. CASE WaitPaused
    <2>1. Kept
      BY <1>16 DEF WaitPaused, Mark, apiVars, device, flight, history, queue, tracker
    <2> QED BY <1>k, <2>1
  <1>17. CASE Unpaused
    <2>1. Kept
      BY <1>17 DEF Unpaused, apiVars, device, flight, history, queue, tracker
    <2> QED BY <1>k, <2>1
  <1>18. CASE Exit
    <2>1. Kept
      BY <1>18 DEF Exit, apiVars, device, flight, history, queue, tracker
    <2> QED BY <1>k, <2>1
  <1>19. CASE GoIdle
    <2>1. Kept
      BY <1>19 DEF GoIdle, MarkIf, Mark, apiVars, device, flight, history, queue, tracker
    <2> QED BY <1>k, <2>1
  <1>20. CASE NextRequest
    <2>1. Kept
      BY <1>20 DEF NextRequest, MarkIf, Mark, apiVars, device, flight, history, tracker
    <2> QED BY <1>k, <2>1
  <1>21. CASE Notify
    <2>1. Kept
      BY <1>21 DEF Notify, Mark, apiVars, flight, history, queue, tracker
    <2> QED BY <1>k, <2>1
  <1>22. CASE Reconfigure
    <2>1. Kept
      BY <1>22 DEF Reconfigure, BeginWait, flight, history, queue, tracker
    <2> QED BY <1>k, <2>1
  <1>23. CASE Reconfigured
    <2>1. Kept
      BY <1>23 DEF Reconfigured, Configure, Configurable, flight, history, queue, tracker
    <2> QED BY <1>k, <2>1
  <1>24. CASE Unpause
    <2>1. Kept
      BY <1>24 DEF Unpause, Mark, apiVars, device, flight, history, queue, tracker
    <2> QED BY <1>k, <2>1
  <1>25. CASE Prepare
    <2>1. Kept
      BY <1>25 DEF Prepare, MarkIf, Mark, apiVars, device, history, queue, tracker
    <2> QED BY <1>k, <2>1
  <1>26. CASE PrepareFails
    <2>1. Kept
      BY <1>26 DEF PrepareFails, apiVars, device, flight, history, tracker
    <2> QED BY <1>k, <2>1
  <1>27. CASE Send
    <2>1. Kept
      BY <1>27 DEF Send, apiVars, device, history, tracker
    <2> QED BY <1>k, <2>1
  <1>28. CASE SendFails
    <2>1. Kept
      BY <1>28 DEF SendFails, apiVars, device, history, tracker
    <2> QED BY <1>k, <2>1
  <1>29. CASE Collect
    BY <1>29 DEF Collect
  <1>30. CASE NotifyStatus
    <2>1. Kept
      BY <1>30 DEF NotifyStatus, apiVars, flight, history, queue, thread
    <2> QED BY <1>k, <2>1
  <1>31. CASE Result
    <2>1. Kept
      BY <1>31 DEF Result, MarkIf, Mark, apiVars, device, history, queue, thread, tracker
    <2> QED BY <1>k, <2>1
  <1>32. CASE HalError
    <2>1. Kept
      BY <1>32 DEF HalError, apiVars, flight, queue, tracker
    <2> QED BY <1>k, <2>1
  <1> QED BY <1>1, <1>2, <1>3, <1>4, <1>5, <1>6, <1>7, <1>8, <1>9, <1>10, <1>11, <1>12,
             <1>13, <1>14, <1>15, <1>16, <1>17, <1>18, <1>19, <1>20, <1>21, <1>22, <1>23,
             <1>24, <1>25, <1>26, <1>27, <1>28, <1>29, <1>30, <1>31, <1>32
             DEF Next, Api, ApiReturns, RequestThread, Tracker

\* Where idleness is reported last, the thread and what is in flight are as the list says.
LEMMA PassReported ==
    ASSUME IInv, Live, Collect PROVE ReportInv' /\ TransitionInv'
  <1>1. TypeOK /\ UpBefore /\ Reported["request"] = Awake
        /\ Reported["inflight"] = (inFlight > 0) /\ inFlight \in Nat
    BY DEF IInv, ReportInv, TypeOK, TrackerTypes
  <1>2. /\ mStates' = Reported /\ mDeviceState' = DeviceState(Reported)
        /\ mPendingChangeQueue' = <<>>
        /\ DeviceState(mStates) /\ DeviceState(Reported) => mStateTransitions' = <<>>
        /\ DeviceState(mStates) /\ ~DeviceState(Reported) => mStateTransitions' = <<FALSE>>
        /\ ~DeviceState(mStates) /\ DeviceState(Reported) => mStateTransitions' = <<TRUE>>
        /\ ~DeviceState(mStates) /\ ~DeviceState(Reported) =>
               \/ mStateTransitions' = <<TRUE, FALSE>>
               \/ mStateTransitions' = <<>> /\ ~mPendingChangeQueue[1].active
        /\ Reported' = Reported /\ UpBefore'
    BY <1>1, Pass
  <1>3. Awake' = Awake /\ inFlight' = inFlight
    BY DEF Collect, Awake, thread, flight
  <1>4. DeviceState(Reported) <=> Awake \/ inFlight > 0
    BY ReportedUp
  <1>5. Reported \in States
    BY <1>1, ReportedTyped
  <1>6. ~DeviceState(Reported) => Reported = Idle
    BY <1>5 DEF DeviceState, States, Idle
  <1> HIDE DEF Reported, UpBefore, Awake, DeviceState
  <1>7. ReportInv'
    <2>1. mDeviceState' = DeviceState(mStates')
      BY <1>2, Zenon
    <2>2. (Reported["request"])' = Awake' /\ (Reported["inflight"])' = (inFlight' > 0)
      BY <1>1, <1>2, <1>3, Zenon
    <2> QED BY <1>2, <2>1, <2>2, Zenon DEF ReportInv
  <1>8. mStateTransitions' \in {<<>>, <<TRUE>>, <<FALSE>>, <<TRUE, FALSE>>}
    BY <1>2, Zenon
  <1>9. FALSE \in Range(mStateTransitions') => ~DeviceState(Reported)
    BY <1>2, ListFacts, Zenon
  <1>10. ASSUME FALSE \in Range(mStateTransitions')
         PROVE  mPendingChangeQueue' = <<>> /\ mStates' = Idle /\ ~Awake' /\ inFlight' = 0
    <2>1. ~DeviceState(Reported)
      BY <1>9, <1>10
    <2>2. ~Awake /\ ~(inFlight > 0) /\ Reported = Idle
      BY <1>4, <1>6, <2>1, Zenon
    <2>3. inFlight = 0
      BY <1>1, <2>2
    <2> QED BY <1>2, <1>3, <2>2, <2>3, Zenon
  <1>11. TransitionInv'
    BY <1>8, <1>10, Zenon DEF TransitionInv
  <1> QED BY <1>7, <1>11

LEMMA NotifyReported ==
    ASSUME IInv, Live, NotifyStatus PROVE ReportInv' /\ TransitionInv'
  <1>1. UNCHANGED <<mStates, mPendingChangeQueue, mDeviceState>> /\ Awake' = Awake
        /\ inFlight' = inFlight /\ mStateTransitions # <<>>
        /\ mStateTransitions' = Tail(mStateTransitions)
    BY DEF NotifyStatus, thread, flight, Awake
  <1>2. Reported' = Reported /\ UpBefore' = UpBefore
    BY <1>1 DEF Reported, StatesAfter, UpBefore
  <1>3. /\ mDeviceState = DeviceState(mStates) /\ Reported["request"] = Awake
        /\ Reported["inflight"] = (inFlight > 0) /\ UpBefore
    BY DEF IInv, ReportInv
  <1> HIDE DEF Reported, UpBefore, Awake, DeviceState
  <1>4. ReportInv'
    <2>1. mDeviceState' = DeviceState(mStates')
      BY <1>1, <1>3, Zenon
    <2>2. (Reported["request"])' = Awake' /\ (Reported["inflight"])' = (inFlight' > 0)
      BY <1>1, <1>2, <1>3, Zenon
    <2> QED BY <1>2, <1>3, <2>1, <2>2, Zenon DEF ReportInv
  <1>5. mStateTransitions \in {<<TRUE>>, <<FALSE>>, <<TRUE, FALSE>>}
    BY <1>1 DEF IInv, TransitionInv
  <1>6. mStateTransitions' \in {<<>>, <<FALSE>>}
    BY <1>1, <1>5, ListFacts, Zenon
  <1>7. FALSE \in Range(mStateTransitions') => FALSE \in Range(mStateTransitions)
    BY <1>1, <1>5, ListFacts, Zenon
  <1>8. FALSE \in Range(mStateTransitions) =>
            mPendingChangeQueue = <<>> /\ mStates = Idle /\ ~Awake /\ inFlight = 0
    BY Zenon DEF IInv, TransitionInv
  <1>9. TransitionInv'
    BY <1>1, <1>6, <1>7, <1>8, Zenon DEF TransitionInv
  <1> QED BY <1>4, <1>9

\* The reports tell the truth, and idleness comes last.
LEMMA ReportStep ==
    ASSUME ~SlowTracker, IInv, Next PROVE ReportInv' /\ TransitionInv'
  <1>d. mDeviceState' = DeviceState(mStates')
    BY DeviceStep
  <1>n. ~Live' => ReportInv' /\ TransitionInv'
    BY <1>d, Zenon DEF ReportInv, TransitionInv
  <1> SUFFICES ASSUME Live' PROVE ReportInv' /\ TransitionInv'
    BY <1>n
  <1>l. Live /\ Live' /\ IInv
    BY LiveStep
  <1>0. TypeOK /\ HandInv /\ FlightInv /\ ~SlowTracker
    BY DEF IInv, ThreadInv
  <1>c. /\ "request" \in Components /\ "inflight" \in Components
        /\ "request" # "inflight" /\ TRUE \in BOOLEAN /\ FALSE \in BOOLEAN
    BY DEF Components
  <1>1. ASSUME NEW p \in Params, NEW r \in BOOLEAN, Submit(p, r) PROVE ReportInv' /\ TransitionInv'
    <2>1. rPc' = rPc /\ inFlight' = inFlight /\ ~IdleUnderWay
          /\ mPaused' = (mPaused /\ mDoPause) /\ aPc \in Returned
      BY <1>1, <1>0 DEF Submit, Call, flight
    <2>2. mDoPause => ~mPaused
      BY <1>1, <1>0, <1>l, <2>1 DEF IInv, ThreadInv, HandInv, Returned
    <2>3. CASE ~mPaused
      <3>1. UNCHANGED tracker /\ Awake' = Awake
        BY <1>1, <2>1, <2>3 DEF Submit, MarkIf, Awake
      <3> QED BY <1>l, <2>1, <3>1, ReportKept
    <2>4. CASE mPaused
      <3>1. Mark("request", TRUE)
        BY <1>1, <2>2, <2>4 DEF Submit, MarkIf
      <3>2. rPc \notin {"reconf", "reconfWait", "unpause"}
        BY <1>0, <2>4 DEF HandInv
      <3>3. Awake' = TRUE /\ (inFlight' > 0) = (inFlight > 0)
        BY <2>1, <2>2, <2>4, <3>2 DEF Awake
      <3>4. FALSE \notin Range(mStateTransitions)
            /\ \A change \in Range(mPendingChangeQueue) : change.active
        BY <2>1 DEF IdleUnderWay
      <3>5. mPendingChangeQueue # <<>> => DeviceState(Reported)
        BY <1>0, <3>4, LastReport
      <3> HIDE DEF Awake, Reported
      <3> QED BY <1>l, <1>c, <3>1, <3>3, <3>4, <3>5, ReportMarked
    <2> QED BY <2>3, <2>4
  <1>2. CASE ClearStreaming
    <2>1. UNCHANGED tracker /\ Awake' = Awake /\ inFlight' = inFlight
      BY <1>2 DEF ClearStreaming, Call, flight, pausing, Awake
    <2> QED BY <1>l, <2>1, ReportKept
  <1>3. CASE Flush
    <2>1. UNCHANGED tracker /\ Awake' = Awake /\ inFlight' = inFlight
      BY <1>3 DEF Flush, Call, flight, pausing, Awake
    <2> QED BY <1>l, <2>1, ReportKept
  <1>4. ASSUME NEW p \in Params, ConfigureStreams(p) PROVE ReportInv' /\ TransitionInv'
    <2>1. UNCHANGED tracker /\ Awake' = Awake /\ inFlight' = inFlight
      BY <1>4 DEF ConfigureStreams, Call, flight, pausing, Awake
    <2> QED BY <1>l, <2>1, ReportKept
  <1>5. CASE DeleteStream
    <2>1. UNCHANGED tracker /\ Awake' = Awake /\ inFlight' = inFlight
      BY <1>5 DEF DeleteStream, Call, flight, pausing, Awake
    <2> QED BY <1>l, <2>1, ReportKept
  <1>6. CASE Drain
    <2>1. UNCHANGED tracker /\ Awake' = Awake /\ inFlight' = inFlight
      BY <1>6 DEF Drain, Call, flight, pausing, Awake
    <2> QED BY <1>l, <2>1, ReportKept
  <1>7. CASE CreateStream
    <2>1. UNCHANGED tracker /\ Awake' = Awake /\ inFlight' = inFlight
      BY <1>7 DEF CreateStream, Call, flight, pausing, Awake
    <2> QED BY <1>l, <2>1, ReportKept
  <1>8. CASE CreatePause
    <2>1. UNCHANGED tracker /\ Awake' = Awake /\ inFlight' = inFlight
      BY <1>8 DEF CreatePause, Call, flight, Awake
    <2> QED BY <1>l, <2>1, ReportKept
  <1>9. CASE Disconnect
    <2>1. UNCHANGED tracker /\ Awake' = Awake /\ inFlight' = inFlight
      BY <1>9 DEF Disconnect, Call, flight, Awake
    <2> QED BY <1>l, <2>1, ReportKept
  <1>10. CASE SubmitDone
    <2>1. UNCHANGED tracker /\ Awake' = Awake /\ inFlight' = inFlight
      BY <1>10 DEF SubmitDone, thread, flight, Awake
    <2> QED BY <1>l, <2>1, ReportKept
  <1>11. CASE DrainDone
    <2>1. UNCHANGED tracker /\ Awake' = Awake /\ inFlight' = inFlight
      BY <1>11 DEF DrainDone, flight, Awake
    <2> QED BY <1>l, <2>1, ReportKept
  <1>12. CASE CreateConfigure
    <2>1. UNCHANGED tracker /\ Awake' = Awake /\ inFlight' = inFlight
      BY <1>12 DEF CreateConfigure, flight, Awake
    <2> QED BY <1>l, <2>1, ReportKept
  <1>13. CASE CreateDone
    <2>1. UNCHANGED tracker /\ Awake' = Awake /\ inFlight' = inFlight
      BY <1>13 DEF CreateDone, flight, Awake
    <2> QED BY <1>l, <2>1, ReportKept
  <1>14. CASE DisconnectExit
    <2>1. UNCHANGED tracker /\ Awake' = Awake /\ inFlight' = inFlight
      BY <1>14 DEF DisconnectExit, flight, Awake
    <2> QED BY <1>l, <2>1, ReportKept
  <1>15. CASE DisconnectDone
    BY <1>15, <1>l DEF DisconnectDone, IInv, LockInv, Live
  <1>16. CASE WaitPaused
    <2>1. Mark("request", FALSE) /\ Awake
      BY <1>16, <1>0 DEF WaitPaused, Awake, HandInv
    <2>2. Awake' = FALSE /\ (inFlight' > 0) = (inFlight > 0)
      BY <1>16, <1>0, <2>1 DEF WaitPaused, Awake, flight
    <2>3. DeviceState(Reported) /\ FALSE \notin Range(mStateTransitions)
      BY <1>l, <2>1, UpIsUp
    <2> HIDE DEF Awake, Reported
    <2> QED BY <1>l, <1>c, <2>1, <2>2, <2>3, ReportMarked
  <1>17. CASE Unpaused
    <2>1. UNCHANGED tracker /\ Awake' = Awake /\ inFlight' = inFlight
      BY <1>17 DEF Unpaused, flight, Awake
    <2> QED BY <1>l, <2>1, ReportKept
  <1>18. CASE Exit
    BY <1>18, <1>l DEF Exit, Live
  <1>19. CASE GoIdle
    <2>1. CASE mPaused
      <3>1. UNCHANGED tracker /\ Awake' = Awake /\ inFlight' = inFlight
        BY <1>19, <2>1 DEF GoIdle, MarkIf, Awake, flight
      <3> QED BY <1>l, <3>1, ReportKept
    <2>2. CASE ~mPaused
      <3>1. Mark("request", FALSE) /\ Awake
        BY <1>19, <2>2 DEF GoIdle, MarkIf, Awake
      <3>2. Awake' = FALSE /\ (inFlight' > 0) = (inFlight > 0)
        BY <1>19 DEF GoIdle, Awake, flight
      <3>3. DeviceState(Reported) /\ FALSE \notin Range(mStateTransitions)
        BY <1>l, <3>1, UpIsUp
      <3> HIDE DEF Awake, Reported
      <3> QED BY <1>l, <1>c, <3>1, <3>2, <3>3, ReportMarked
    <2> QED BY <2>1, <2>2
  <1>20. CASE NextRequest
    <2>1. rPc = "wait" /\ rPc' \in {"prepare", "notify"} /\ mPaused' = FALSE /\ inFlight' = inFlight
      BY <1>20 DEF NextRequest, flight
    <2>2. CASE ~mPaused
      <3>1. UNCHANGED tracker /\ Awake' = Awake
        BY <1>20, <2>1, <2>2 DEF NextRequest, MarkIf, Awake
      <3> QED BY <1>l, <2>1, <3>1, ReportKept
    <2>3. CASE mPaused
      <3>1. aPc = "resume"
        <4>1. mRequestQueue # <<>> \/ mRepeatingRequests # None
          BY <1>20 DEF NextRequest
        <4>2. aPc \in {"pause", "resume"}
          BY <1>l, <2>3, <4>1 DEF IInv, ThreadInv
        <4>3. aPc # "pause"
          BY <1>l, <2>1, <2>3 DEF IInv, CallInv
        <4> QED BY <4>2, <4>3
      <3>2. Settled
        BY <1>l, <2>3, <3>1 DEF IInv, SettledInv
      <3>3. Mark("request", TRUE)
        BY <1>20, <2>3 DEF NextRequest, MarkIf
      <3>4. mPendingChangeQueue = <<>> /\ FALSE \notin Range(mStateTransitions)
        BY <3>2, ListFacts DEF Settled
      <3>5. Awake' = TRUE /\ (inFlight' > 0) = (inFlight > 0)
        BY <2>1 DEF Awake
      <3> HIDE DEF Awake, Reported
      <3> QED BY <1>l, <1>c, <3>3, <3>4, <3>5, ReportMarked
    <2> QED BY <2>2, <2>3
  <1>21. CASE Notify
    <2>1. Mark("request", FALSE) /\ Awake
      BY <1>21, <1>0 DEF Notify, Awake, HandInv
    <2>2. Awake' = FALSE /\ (inFlight' > 0) = (inFlight > 0)
      BY <1>21, <1>0, <2>1 DEF Notify, Awake, flight
    <2>3. DeviceState(Reported) /\ FALSE \notin Range(mStateTransitions)
      BY <1>l, <2>1, UpIsUp
    <2> HIDE DEF Awake, Reported
    <2> QED BY <1>l, <1>c, <2>1, <2>2, <2>3, ReportMarked
  <1>22. CASE Reconfigure
    <2>1. UNCHANGED tracker /\ Awake' = Awake /\ inFlight' = inFlight
      BY <1>22 DEF Reconfigure, flight, Awake
    <2> QED BY <1>l, <2>1, ReportKept
  <1>23. CASE Reconfigured
    <2>1. UNCHANGED tracker /\ Awake' = Awake /\ inFlight' = inFlight
      BY <1>23 DEF Reconfigured, flight, Awake
    <2> QED BY <1>l, <2>1, ReportKept
  <1>24. CASE Unpause
    <2>1. Settled
      BY <1>24, <1>l DEF Unpause, IInv, StatusInv
    <2>2. Mark("request", TRUE) /\ ~mPaused
      BY <1>24, <1>0 DEF Unpause, HandInv
    <2>3. mPendingChangeQueue = <<>> /\ FALSE \notin Range(mStateTransitions)
      BY <2>1, ListFacts DEF Settled
    <2>4. Awake' = TRUE /\ (inFlight' > 0) = (inFlight > 0)
      BY <1>24, <2>2 DEF Unpause, Awake, flight
    <2> HIDE DEF Awake, Reported
    <2> QED BY <1>l, <1>c, <2>2, <2>3, <2>4, ReportMarked
  <1>25. CASE Prepare
    <2>1. Awake /\ Awake' = Awake /\ inFlight' = inFlight + 1 /\ inFlight \in Nat
      BY <1>25, <1>0 DEF Prepare, Awake, HandInv, TypeOK, TrackerTypes
    <2>2. DeviceState(Reported) /\ FALSE \notin Range(mStateTransitions)
      BY <1>l, <2>1, UpIsUp
    <2>3. CASE inFlight = 0
      <3>1. Mark("inflight", TRUE)
        BY <1>25, <2>3 DEF Prepare, MarkIf
      <3>2. (inFlight' > 0) = TRUE
        BY <2>1, <2>3
      <3> HIDE DEF Awake, Reported
      <3> QED BY <1>l, <1>c, <2>1, <2>2, <3>1, <3>2, ReportMarked
    <2>4. CASE inFlight # 0
      <3>1. UNCHANGED tracker
        BY <1>25, <2>4 DEF Prepare, MarkIf
      <3>2. (inFlight' > 0) = (inFlight > 0)
        BY <2>1, <2>4
      <3> QED BY <1>l, <2>1, <2>2, <3>1, <3>2, ReportKeptUp
    <2> QED BY <2>3, <2>4
  <1>26. CASE PrepareFails
    <2>1. UNCHANGED tracker /\ Awake' = Awake /\ inFlight' = inFlight
      BY <1>26 DEF PrepareFails, flight, Awake
    <2> QED BY <1>l, <2>1, ReportKept
  <1>27. CASE Send
    <2>1. UNCHANGED tracker /\ Awake' = Awake /\ inFlight' = inFlight
      BY <1>27 DEF Send, Awake
    <2> QED BY <1>l, <2>1, ReportKept
  <1>28. CASE SendFails
    BY <1>28, <1>l DEF SendFails, Live
  <1>29. CASE Collect
    BY <1>29, <1>l, PassReported
  <1>30. CASE NotifyStatus
    BY <1>30, <1>l, NotifyReported
  <1>31. CASE Result
    <2>1. Awake' = Awake /\ inFlight' = inFlight - 1 /\ inFlight \in Nat /\ inFlight > 0
      BY <1>31, <1>0 DEF Result, Awake, thread, FlightInv, Bit, TypeOK, TrackerTypes
    <2>2. DeviceState(Reported) /\ FALSE \notin Range(mStateTransitions)
      BY <1>l, <2>1, UpIsUp
    <2>3. CASE inFlight = 1
      <3>1. Mark("inflight", FALSE)
        BY <1>31, <2>3 DEF Result, MarkIf
      <3>2. (inFlight' > 0) = FALSE
        BY <2>1, <2>3
      <3> HIDE DEF Awake, Reported
      <3> QED BY <1>l, <1>c, <2>1, <2>2, <3>1, <3>2, ReportMarked
    <2>4. CASE inFlight # 1
      <3>1. UNCHANGED tracker
        BY <1>31, <2>4 DEF Result, MarkIf
      <3>2. (inFlight' > 0) = (inFlight > 0)
        BY <2>1, <2>4
      <3> QED BY <1>l, <2>1, <2>2, <3>1, <3>2, ReportKeptUp
    <2> QED BY <2>3, <2>4
  <1>32. CASE HalError
    <2>1. mStatus' = "ERROR"
      BY <1>32, <1>l, Failed DEF HalError, SetError, IInv, TypeOK
    <2> QED BY <1>l, <2>1 DEF Live
  <1> QED BY <1>1, <1>2, <1>3, <1>4, <1>5, <1>6, <1>7, <1>8, <1>9, <1>10, <1>11, <1>12,
             <1>13, <1>14, <1>15, <1>16, <1>17, <1>18, <1>19, <1>20, <1>21, <1>22, <1>23,
             <1>24, <1>25, <1>26, <1>27, <1>28, <1>29, <1>30, <1>31, <1>32
             DEF Next, Api, ApiReturns, RequestThread, Tracker

-------------------------------------------------------------------------------
(* The status of the device.                                               *)

LEMMA SettledFacts ==
    ASSUME IInv, Settled
    PROVE  /\ mPendingChangeQueue = <<>> /\ mStateTransitions = <<>> /\ ~mDeviceState
           /\ ~Awake /\ inFlight = 0 /\ ~(inFlight > 0)
  <1>1. mDeviceState = DeviceState(mStates)
    BY DEF IInv, ReportInv
  <1>2. ~DeviceState(mStates)
    BY DEF Settled, Idle, DeviceState
  <1>3. ~mDeviceState
    BY <1>1, <1>2, Zenon
  <1>4. inFlight = 0
    BY DEF Settled
  <1> QED BY <1>3, <1>4 DEF Settled

LEMMA SettledKept ==
    ASSUME UNCHANGED tracker, Awake' = Awake, inFlight' = inFlight PROVE Settled' = Settled
  BY DEF Settled, tracker

\* A step of the thread that reports nothing and does not wake it.
LEMMA StillStep ==
    ASSUME IInv, Live, UNCHANGED tracker, Awake' = Awake, inFlight' = inFlight,
           UNCHANGED <<mStatus, mRecentStatusUpdates, aPc, mDoPause>>, mPaused' = mPaused,
           rPc \in {"top", "wait", "prepare", "send"}, rPc' \in {"top", "wait"}
    PROVE  StatusInv' /\ SettledInv'
  <1>1. StatusInv /\ SettledInv
    BY DEF IInv
  <1>2. Settled' = Settled
    BY SettledKept
  <1>3. UNCHANGED <<mPendingChangeQueue, mDeviceState, mStateTransitions>>
    BY DEF tracker
  <1> HIDE DEF Settled, Awake
  <1>4. StatusInv'
    BY <1>1, <1>2, <1>3 DEF StatusInv, ConfiguredTold, ActiveTold
  <1>5. SettledInv'
    BY <1>1, <1>2 DEF SettledInv
  <1> QED BY <1>4, <1>5

\* A step, of the thread or of the HAL, of a device that is up.
LEMMA BusyStep ==
    ASSUME IInv, Live, Awake \/ inFlight > 0,
           UNCHANGED <<mStatus, mRecentStatusUpdates, aPc>>,
           rPc' = rPc \/ rPc' \in {"top", "reconf", "send", "prepare", "notify"},
           mPaused' => mPaused \/ aPc # "resume",
           UNCHANGED <<mDeviceState, mStateTransitions>>,
           mPendingChangeQueue # <<>> => mPendingChangeQueue' # <<>>
                                         /\ mPendingChangeQueue'[1] = mPendingChangeQueue[1]
    PROVE  StatusInv' /\ SettledInv'
  <1>1. StatusInv /\ SettledInv
    BY DEF IInv
  <1>2. ~Settled
    BY SettledFacts
  <1> HIDE DEF Settled, Awake
  <1>3. StatusInv'
    <2>1. mStatus \in {"CONFIGURED", "ACTIVE"} /\ rPc # "unpause"
      BY <1>1, <1>2 DEF StatusInv, Live
    <2>2. mStatus' = mStatus /\ rPc' # "unpause"
      BY <2>1
    <2>3. mStatus = "CONFIGURED" => ConfiguredTold'
      BY <1>1 DEF StatusInv, ConfiguredTold
    <2>4. mStatus = "ACTIVE" => ActiveTold'
      BY <1>1, <2>1 DEF StatusInv, ActiveTold
    <2> QED BY <2>1, <2>2, <2>3, <2>4 DEF StatusInv
  <1>4. SettledInv'
    BY <1>1, <1>2 DEF SettledInv
  <1> QED BY <1>3, <1>4

\* A call that does not start the device.
LEMMA CallStatus ==
    ASSUME IInv, Live, aPc \in Returned, mInterfaceLock = "free",
           UNCHANGED tracker, UNCHANGED <<mPaused, rPc, inFlight>>,
           \/ mStatus' = mStatus
           \/ Configurable /\ mStatus' = "CONFIGURED" /\ aPc' \in Returned,
           aPc' \notin {"submit", "resume"},
           mStatus' = "UNCONFIGURED" => aPc' = "idle" /\ mDoPause' = mDoPause,
           aPc' \in Returned \/ mRecentStatusUpdates' = {}
    PROVE  StatusInv' /\ SettledInv'
  <1>1. StatusInv /\ SettledInv /\ LockInv
    BY DEF IInv
  <1>2. Awake' = Awake
    BY DEF Awake
  <1>3. Settled' = Settled
    BY <1>2, SettledKept
  <1>4. UNCHANGED <<mPendingChangeQueue, mDeviceState, mStateTransitions>>
    BY DEF tracker
  <1>5. rPc # "reconfWait"
    BY <1>1 DEF LockInv
  <1>6. Configurable => Settled
    BY <1>1 DEF Configurable, StatusInv, SettledInv, Returned
  <1>7. Settled => ~mDeviceState /\ mStateTransitions = <<>>
    BY SettledFacts
  <1> HIDE DEF Settled, Awake
  <1>8. StatusInv'
    <2>1. CASE mStatus' = mStatus
      <3>1. mStatus' = "UNCONFIGURED" =>
                Settled' /\ mPaused' /\ aPc' = "idle" /\ rPc' \in {"top", "wait"} /\ ~mDoPause'
        BY <1>1, <1>3, <2>1 DEF StatusInv
      <3>2. mStatus' = "CONFIGURED" => ConfiguredTold'
        BY <1>1, <1>4, <2>1 DEF StatusInv, ConfiguredTold
      <3>3. mStatus' = "ACTIVE" => ActiveTold'
        BY <1>1, <1>4, <2>1 DEF StatusInv, ActiveTold
      <3>4. rPc' = "unpause" => Settled' /\ mStatus' = "ACTIVE"
        BY <1>1, <1>3, <2>1 DEF StatusInv
      <3> QED BY <3>1, <3>2, <3>3, <3>4, Zenon DEF StatusInv
    <2>2. CASE Configurable /\ mStatus' = "CONFIGURED"
      <3>1. rPc # "unpause"
        BY <1>1, <2>2 DEF StatusInv, Configurable
      <3> QED BY <1>4, <1>6, <1>7, <2>2, <3>1 DEF StatusInv, ConfiguredTold
    <2> QED BY <2>1, <2>2
  <1>9. SettledInv'
    <2>1. mStatus' = "CONFIGURED" => Settled
      BY <1>6 DEF Configurable
    <2> QED BY <1>3, <1>5, <2>1 DEF SettledInv, Returned
  <1> QED BY <1>8, <1>9

\* submitRequestsHelper() starts a settled device, or adds to what an active one does.
LEMMA SubmitStatus ==
    ASSUME IInv, Live, NEW p \in Params, NEW r \in BOOLEAN, Submit(p, r)
    PROVE  StatusInv' /\ SettledInv'
  <1>1. StatusInv /\ SettledInv /\ LockInv /\ HandInv /\ TypeOK
    BY DEF IInv, ThreadInv
  <1>2. /\ rPc' = rPc /\ inFlight' = inFlight /\ aPc \in Returned /\ mInterfaceLock = "free"
        /\ aPc' = (IF mStatus = "ACTIVE" THEN "idle" ELSE "submit")
        /\ mRecentStatusUpdates' = {} /\ mPaused' = (mPaused /\ mDoPause)
        /\ MarkIf(~mDoPause /\ mPaused, "request", TRUE)
    BY DEF Submit, Call, flight, BeginWait
  <1>3. mStatus' = (IF mStatus = "ACTIVE" THEN "ACTIVE" ELSE "CONFIGURED")
    BY DEF Submit, Configurable
  <1>4. UNCHANGED <<mDeviceState, mStateTransitions>>
    BY <1>2 DEF MarkIf, Mark, tracker
  <1>5. rPc # "reconfWait"
    BY <1>1, <1>2 DEF LockInv
  <1> HIDE DEF Settled, Awake
  <1>6. CASE mStatus = "ACTIVE"
    <2>1. rPc = "unpause" => Settled'
      <3> SUFFICES ASSUME rPc = "unpause" PROVE Settled'
        OBVIOUS
      <3>1. ~mPaused
        BY <1>1 DEF HandInv
      <3>2. UNCHANGED tracker /\ mPaused' = mPaused
        BY <1>1, <1>2, <3>1 DEF MarkIf, TypeOK, ThreadTypes
      <3>3. Awake' = Awake
        BY <1>2, <3>2 DEF Awake
      <3> QED BY <1>1, <1>2, <3>2, <3>3, SettledKept DEF StatusInv
    <2>2. mPendingChangeQueue # <<>> => mPendingChangeQueue' # <<>>
                                        /\ mPendingChangeQueue'[1] = mPendingChangeQueue[1]
      <3>1. CASE ~mDoPause /\ mPaused
        <4>1. Mark("request", TRUE) /\ "request" \in Components
          BY <1>2, <3>1 DEF MarkIf, Components
        <4> QED BY <1>1, <4>1, Marked
      <3>2. CASE ~(~mDoPause /\ mPaused)
        BY <1>2, <3>2 DEF MarkIf, tracker
      <3> QED BY <3>1, <3>2
    <2>3. ActiveTold'
      BY <1>1, <1>2, <1>4, <1>6, <2>2 DEF StatusInv, ActiveTold
    <2>4. StatusInv'
      BY <1>2, <1>3, <1>6, <2>1, <2>3 DEF StatusInv
    <2>5. SettledInv'
      BY <1>2, <1>3, <1>5, <1>6 DEF SettledInv
    <2> QED BY <2>4, <2>5
  <1>7. CASE mStatus # "ACTIVE"
    <2>1. Settled /\ rPc # "unpause"
      BY <1>1, <1>2, <1>7 DEF StatusInv, SettledInv, Live, Returned
    <2>2. ~mDeviceState /\ mStateTransitions = <<>>
      BY <2>1, SettledFacts
    <2>3. ConfiguredTold'
      BY <1>4, <2>2 DEF ConfiguredTold
    <2>4. StatusInv'
      BY <1>2, <1>3, <1>7, <2>1, <2>3 DEF StatusInv
    <2>5. SettledInv'
      BY <1>2, <1>3, <1>5, <1>7 DEF SettledInv
    <2> QED BY <2>4, <2>5
  <1> QED BY <1>6, <1>7

\* Its wait ends with an active device, or with one that was and is settled again.
LEMMA SubmitDoneStatus ==
    ASSUME IInv, Live, SubmitDone PROVE StatusInv' /\ SettledInv'
  <1>1. StatusInv /\ SettledInv /\ LockInv /\ TypeOK
    BY DEF IInv
  <1>2. /\ UNCHANGED <<mStatus, mRecentStatusUpdates, mPaused, mDoPause, rPc, inFlight>>
        /\ UNCHANGED tracker /\ aPc = "submit" /\ aPc' = "idle" /\ Waited(TRUE)
    BY DEF SubmitDone, device, thread, flight
  <1>3. UNCHANGED <<mPendingChangeQueue, mDeviceState, mStateTransitions>>
    BY <1>2 DEF tracker
  <1>4. Awake' = Awake
    BY <1>2 DEF Awake
  <1>5. Settled' = Settled
    BY <1>2, <1>4, SettledKept
  <1>6. rPc # "reconfWait"
    BY <1>1, <1>2 DEF LockInv, Returned
  <1>7. mStatus = "CONFIGURED" => Settled
    <2> SUFFICES ASSUME mStatus = "CONFIGURED" PROVE Settled
      OBVIOUS
    <2>1. CASE Quiet
      <3>1. mPendingChangeQueue = <<>> /\ mStateTransitions = <<>> /\ atHal = 0
            /\ rPc # "send"
        BY <2>1 DEF Quiet
      <3>2. ~mDeviceState
        BY <1>1, <3>1 DEF StatusInv, ConfiguredTold
      <3>3. Reported = mStates /\ mDeviceState = DeviceState(mStates)
        BY <1>1, <3>1, NothingPending DEF IInv, ReportInv
      <3>4. ~DeviceState(Reported)
        BY <3>2, <3>3, Zenon
      <3>5. ~Awake
        BY <3>4, ReportedUp
      <3>6. inFlight = 0
        BY <3>1 DEF IInv, FlightInv, Bit, Live
      <3>7. mStates = Idle
        BY <1>1, <3>3, <3>4 DEF TypeOK, TrackerTypes, DeviceState, Idle
      <3> QED BY <3>1, <3>5, <3>6, <3>7 DEF Settled
    <2>2. CASE Reached(TRUE)
      BY <1>1, <1>2, <2>2 DEF Reached, SettledInv
    <2> QED BY <1>2, <2>1, <2>2 DEF Waited
  <1> HIDE DEF Settled, Awake
  <1>8. StatusInv'
    <2>1. mStatus # "UNCONFIGURED"
      BY <1>1, <1>2 DEF StatusInv
    <2>2. ConfiguredTold' = ConfiguredTold /\ ActiveTold' = ActiveTold
      BY <1>2, <1>3 DEF ConfiguredTold, ActiveTold
    <2> QED BY <1>1, <1>2, <1>5, <2>1, <2>2 DEF StatusInv
  <1>9. SettledInv'
    BY <1>2, <1>5, <1>6, <1>7 DEF SettledInv
  <1> QED BY <1>8, <1>9

\* waitUntilDrained() returns from a settled device.
LEMMA DrainDoneStatus ==
    ASSUME IInv, Live, DrainDone PROVE StatusInv' /\ SettledInv'
  <1>1. StatusInv /\ SettledInv /\ LockInv
    BY DEF IInv
  <1>2. mStatus = "CONFIGURED" /\ UNCHANGED <<mStatus, mRecentStatusUpdates, mDoPause>>
    BY DrainDoneLive
  <1>3. /\ UNCHANGED <<mPaused, rPc, inFlight>> /\ UNCHANGED tracker
        /\ aPc = "drain" /\ aPc' \in Returned
    BY DEF DrainDone, flight, Returned
  <1>4. Awake' = Awake
    BY <1>3 DEF Awake
  <1>5. Settled' = Settled
    BY <1>3, <1>4, SettledKept
  <1>6. Settled /\ rPc # "reconfWait"
    BY <1>1, <1>2, <1>3 DEF SettledInv, LockInv, Returned
  <1> HIDE DEF Settled, Awake
  <1>7. ConfiguredTold' = ConfiguredTold
    BY <1>3 DEF ConfiguredTold, tracker
  <1>8. StatusInv'
    BY <1>1, <1>2, <1>3, <1>5, <1>6, <1>7 DEF StatusInv
  <1>9. SettledInv'
    BY <1>2, <1>3, <1>5, <1>6 DEF SettledInv, Returned
  <1> QED BY <1>8, <1>9

\* createStream() reconfigures a settled device, and waits for the thread to go on.
LEMMA CreateConfigureStatus ==
    ASSUME IInv, Live, CreateConfigure PROVE StatusInv' /\ SettledInv'
  <1>1. StatusInv /\ SettledInv /\ LockInv
    BY DEF IInv
  <1>2. /\ mStatus = "CONFIGURED" /\ Settled /\ aPc' = "resume" /\ mStatus' = "CONFIGURED"
        /\ mRecentStatusUpdates' = {}
    BY CreateConfigureLive
  <1>3. UNCHANGED <<mPaused, rPc, inFlight>> /\ UNCHANGED tracker /\ aPc = "pause"
    BY DEF CreateConfigure, flight
  <1>4. Awake' = Awake
    BY <1>3 DEF Awake
  <1>5. Settled' = Settled
    BY <1>3, <1>4, SettledKept
  <1>6. rPc # "reconfWait" /\ rPc # "unpause"
    BY <1>1, <1>2, <1>3 DEF LockInv, Returned, StatusInv
  <1> HIDE DEF Settled, Awake
  <1>7. ConfiguredTold' = ConfiguredTold
    BY <1>3 DEF ConfiguredTold, tracker
  <1>8. StatusInv'
    BY <1>1, <1>2, <1>3, <1>6, <1>7 DEF StatusInv
  <1>9. SettledInv'
    BY <1>2, <1>3, <1>5, <1>6 DEF SettledInv
  <1> QED BY <1>8, <1>9

LEMMA CreateDoneStatus ==
    ASSUME IInv, Live, CreateDone PROVE StatusInv' /\ SettledInv'
  <1>1. StatusInv /\ SettledInv /\ LockInv
    BY DEF IInv
  <1>2. mStatus = "ACTIVE" /\ UNCHANGED <<mStatus, mRecentStatusUpdates, mDoPause>>
    BY CreateDoneLive
  <1>3. /\ UNCHANGED <<mPaused, rPc, inFlight>> /\ UNCHANGED tracker
        /\ aPc = "resume" /\ aPc' = "idle"
    BY DEF CreateDone, flight
  <1>4. Awake' = Awake
    BY <1>3 DEF Awake
  <1>5. Settled' = Settled
    BY <1>3, <1>4, SettledKept
  <1>6. rPc # "reconfWait"
    BY <1>1, <1>3 DEF LockInv, Returned
  <1> HIDE DEF Settled, Awake
  <1>7. ActiveTold' = ActiveTold
    BY <1>3 DEF ActiveTold, tracker
  <1>8. StatusInv'
    BY <1>1, <1>2, <1>3, <1>5, <1>7 DEF StatusInv
  <1>9. SettledInv'
    BY <1>2, <1>3, <1>6 DEF SettledInv
  <1> QED BY <1>8, <1>9

\* reconfigureCamera() begins to wait.
LEMMA ReconfigureStatus ==
    ASSUME IInv, Live, Reconfigure PROVE StatusInv' /\ SettledInv'
  <1>1. StatusInv /\ SettledInv /\ LockInv
    BY DEF IInv
  <1>2. /\ rPc = "reconf" /\ rPc' = "reconfWait" /\ mStatus = "ACTIVE" /\ mStatus' = mStatus
        /\ mRecentStatusUpdates' = {} /\ UNCHANGED tracker /\ aPc' = aPc
        /\ mInterfaceLock = "free"
    BY DEF Reconfigure, BeginWait
  <1>3. aPc \in Returned
    BY <1>1, <1>2 DEF LockInv
  <1> HIDE DEF Settled, Awake
  <1>4. ActiveTold'
    BY <1>1, <1>2 DEF ActiveTold, StatusInv, tracker
  <1>5. StatusInv'
    BY <1>2, <1>4 DEF StatusInv
  <1>6. SettledInv'
    BY <1>2, <1>3 DEF SettledInv, Returned
  <1> QED BY <1>5, <1>6

\* ... and configures a settled device, which is active again.
LEMMA ReconfiguredStatus ==
    ASSUME IInv, Live, Reconfigured PROVE StatusInv' /\ SettledInv'
  <1>1. /\ Settled /\ mStatus' = "ACTIVE" /\ aPc \in Returned
    BY ReconfiguredLive
  <1>2. /\ rPc' = "unpause" /\ UNCHANGED tracker /\ UNCHANGED <<aPc, mPaused, inFlight>>
        /\ rPc \in {"reconf", "reconfWait"}
    BY DEF Reconfigured, flight
  <1>3. ~mDeviceState /\ mStateTransitions = <<>>
    BY <1>1, SettledFacts
  <1>4. Awake' = Awake
    BY <1>2 DEF Awake
  <1>5. Settled' = Settled
    BY <1>2, <1>4, SettledKept
  <1> HIDE DEF Settled, Awake
  <1>6. ActiveTold'
    BY <1>2, <1>3 DEF ActiveTold, tracker
  <1>7. StatusInv'
    BY <1>1, <1>2, <1>5, <1>6 DEF StatusInv
  <1>8. SettledInv'
    BY <1>1, <1>2 DEF SettledInv, Returned
  <1> QED BY <1>7, <1>8

LEMMA UnpauseStatus ==
    ASSUME IInv, Live, Unpause PROVE StatusInv' /\ SettledInv'
  <1>1. StatusInv /\ SettledInv /\ HandInv /\ TypeOK
    BY DEF IInv, ThreadInv
  <1>2. /\ rPc = "unpause" /\ rPc' = "prepare" /\ Mark("request", TRUE)
        /\ UNCHANGED <<mStatus, mRecentStatusUpdates, aPc, mPaused>>
    BY DEF Unpause, apiVars, device
  <1>3. Settled /\ mStatus = "ACTIVE" /\ ~mPaused
    BY <1>1, <1>2 DEF StatusInv, HandInv
  <1>4. mPendingChangeQueue = <<>> /\ mStateTransitions = <<>> /\ ~mDeviceState
    BY <1>3, SettledFacts
  <1>5. mPendingChangeQueue' # <<>> /\ mPendingChangeQueue'[1].active
    <2>1. "request" \in Components
      BY DEF Components
    <2>2. mPendingChangeQueue' # <<>>
          /\ mPendingChangeQueue'[1] = [id |-> "request", active |-> TRUE]
      BY <1>1, <1>2, <1>4, <2>1, Marked
    <2> QED BY <2>2
  <1> HIDE DEF Settled, Awake
  <1>6. ActiveTold'
    BY <1>2, <1>4, <1>5 DEF ActiveTold, Mark
  <1>7. StatusInv'
    BY <1>2, <1>3, <1>6 DEF StatusInv
  <1>8. SettledInv'
    BY <1>1, <1>2, <1>3 DEF SettledInv
  <1> QED BY <1>7, <1>8

\* The thread takes a request while it is awake, or wakes to resume.
LEMMA NextRequestStatus ==
    ASSUME IInv, Live, NextRequest PROVE StatusInv' /\ SettledInv'
  <1>1. StatusInv /\ SettledInv /\ TypeOK
    BY DEF IInv
  <1>2. /\ rPc = "wait" /\ rPc' \in {"prepare", "notify"} /\ mPaused' = FALSE
        /\ UNCHANGED <<mStatus, mRecentStatusUpdates, aPc>>
        /\ MarkIf(mPaused, "request", TRUE)
    BY DEF NextRequest, apiVars, device
  <1>3. CASE ~mPaused
    <2>1. Awake /\ UNCHANGED <<mDeviceState, mStateTransitions, mPendingChangeQueue>>
      BY <1>2, <1>3 DEF Awake, MarkIf, tracker
    <2> HIDE DEF Awake
    <2> QED BY <1>2, <2>1, BusyStep
  <1>4. CASE mPaused
    <2>1. mRequestQueue # <<>> \/ mRepeatingRequests # None
      BY DEF NextRequest
    <2>2. aPc \in {"pause", "resume"}
      BY <1>4, <2>1 DEF IInv, ThreadInv
    <2>3. aPc # "pause"
      BY <1>2, <1>4 DEF IInv, CallInv
    <2>4. aPc = "resume" /\ mStatus = "CONFIGURED" /\ TRUE \notin mRecentStatusUpdates
      BY <1>1, <1>4, <2>2, <2>3 DEF SettledInv
    <2>5. UNCHANGED <<mDeviceState, mStateTransitions>>
      BY <1>2, <1>4 DEF MarkIf, Mark
    <2> HIDE DEF Settled, Awake
    <2>6. ConfiguredTold' = ConfiguredTold
      BY <2>5 DEF ConfiguredTold
    <2>7. StatusInv'
      BY <1>1, <1>2, <2>4, <2>6 DEF StatusInv
    <2>8. SettledInv'
      BY <1>2, <2>4 DEF SettledInv
    <2> QED BY <2>7, <2>8
  <1> QED BY <1>3, <1>4

\* A pass of the tracker: what the device is told fits what it was told before.
LEMMA CollectStatus ==
    ASSUME IInv, Live, Collect PROVE StatusInv' /\ SettledInv'
  <1>1. StatusInv /\ SettledInv /\ TypeOK /\ UpBefore /\ mDeviceState = DeviceState(mStates)
    BY DEF IInv, ReportInv
  <1>2. /\ mStateTransitions = <<>> /\ mPendingChangeQueue # <<>>
        /\ UNCHANGED <<mStatus, mRecentStatusUpdates, aPc, mPaused, rPc>>
    BY DEF Collect, apiVars, device, thread
  <1>3. ~Settled
    BY <1>2 DEF Settled
  <1>4. mStatus \in {"CONFIGURED", "ACTIVE"} /\ rPc # "unpause"
    BY <1>1, <1>3 DEF StatusInv, Live
  <1>5. /\ mDeviceState' = DeviceState(Reported)
        /\ DeviceState(mStates) /\ DeviceState(Reported) => mStateTransitions' = <<>>
        /\ DeviceState(mStates) /\ ~DeviceState(Reported) => mStateTransitions' = <<FALSE>>
        /\ ~DeviceState(mStates) /\ DeviceState(Reported) => mStateTransitions' = <<TRUE>>
        /\ ~DeviceState(mStates) /\ ~DeviceState(Reported) =>
               \/ mStateTransitions' = <<TRUE, FALSE>>
               \/ mStateTransitions' = <<>> /\ ~mPendingChangeQueue[1].active
    BY <1>1, Pass
  <1> HIDE DEF Settled, Awake, Reported, DeviceState
  <1>6. mStatus = "CONFIGURED" => ConfiguredTold'
    <2> SUFFICES ASSUME mStatus = "CONFIGURED" PROVE ConfiguredTold'
      OBVIOUS
    <2>1. ~mDeviceState
      BY <1>1, <1>2, ListFacts, Zenon DEF StatusInv, ConfiguredTold
    <2>2. ~DeviceState(mStates)
      BY <1>1, <2>1, Zenon
    <2> QED BY <1>5, <2>2, Zenon DEF ConfiguredTold
  <1>7. mStatus = "ACTIVE" => ActiveTold'
    <2> SUFFICES ASSUME mStatus = "ACTIVE" PROVE ActiveTold'
      OBVIOUS
    <2>1. CASE mDeviceState
      <3>1. DeviceState(mStates)
        BY <1>1, <2>1, Zenon
      <3> QED BY <1>5, <3>1, Zenon DEF ActiveTold
    <2>2. CASE ~mDeviceState
      <3>1. ~DeviceState(mStates)
        BY <1>1, <2>2, Zenon
      <3>2. mPendingChangeQueue[1].active
        BY <1>1, <1>2, <1>4, <2>2, ListFacts DEF StatusInv, ActiveTold
      <3> QED BY <1>5, <3>1, <3>2, Zenon DEF ActiveTold
    <2> QED BY <2>1, <2>2
  <1>8. StatusInv'
    BY <1>2, <1>4, <1>6, <1>7 DEF StatusInv
  <1>9. SettledInv'
    BY <1>1, <1>2, <1>3 DEF SettledInv
  <1> QED BY <1>8, <1>9

\* notifyStatus(): the device becomes active, or settled.
LEMMA NotifiedStatus ==
    ASSUME IInv, Live, NotifyStatus PROVE StatusInv' /\ SettledInv'
  <1>1. StatusInv /\ SettledInv /\ LockInv /\ CallTypes /\ mDeviceState = DeviceState(mStates)
    BY DEF IInv, ReportInv, TypeOK
  <1>2. /\ mStateTransitions # <<>> /\ mStateTransitions' = Tail(mStateTransitions)
        /\ UNCHANGED <<aPc, mPaused, rPc, inFlight, mStates, mPendingChangeQueue, mDeviceState>>
    BY DEF NotifyStatus, apiVars, thread, flight
  <1>3. ~Settled
    BY <1>2 DEF Settled
  <1>4. mStatus \in {"CONFIGURED", "ACTIVE"} /\ rPc # "unpause"
    BY <1>1, <1>3 DEF StatusInv, Live
  <1>5. mStateTransitions \in {<<TRUE>>, <<FALSE>>, <<TRUE, FALSE>>}
    BY <1>2 DEF IInv, TransitionInv
  <1>6. ~(aPc = "resume" /\ mPaused)
    BY <1>1, <1>3 DEF SettledInv
  <1>7. CASE mStateTransitions \in {<<TRUE>>, <<TRUE, FALSE>>}
    <2>1. Head(mStateTransitions) = TRUE
      BY <1>7, ListFacts, Zenon
    <2>2. UpdateStatus("ACTIVE") /\ "ACTIVE" \in Statuses
      BY <1>4, <2>1 DEF NotifyStatus, Statuses
    <2>3. mStatus' = "ACTIVE"
          /\ (FALSE \in mRecentStatusUpdates' <=> FALSE \in mRecentStatusUpdates)
      BY <1>1, <2>2, Updated
    <2>4. ActiveTold'
      <3>1. CASE mStateTransitions = <<TRUE>>
        <4>1. mDeviceState
          BY <1>1, <1>4, <3>1, ListFacts, Zenon DEF StatusInv, ConfiguredTold, ActiveTold
        <4>2. mStateTransitions' = <<>> /\ mDeviceState'
          BY <1>2, <3>1, <4>1, ListFacts, Zenon
        <4> QED BY <4>2, Zenon DEF ActiveTold
      <3>2. CASE mStateTransitions = <<TRUE, FALSE>>
        <4>1. ~mDeviceState
          BY <1>1, <1>4, <3>2, ListFacts, Zenon DEF StatusInv, ConfiguredTold, ActiveTold
        <4>2. mStateTransitions' = <<FALSE>> /\ ~mDeviceState'
          BY <1>2, <3>2, <4>1, ListFacts, Zenon
        <4> QED BY <4>2, Zenon DEF ActiveTold
      <3> QED BY <1>7, <3>1, <3>2
    <2> HIDE DEF Settled, Awake
    <2>5. StatusInv'
      BY <1>2, <1>4, <2>3, <2>4 DEF StatusInv
    <2>6. ASSUME aPc \in {"drain", "pause", "close"} \/ rPc = "reconfWait"
          PROVE  FALSE \notin mRecentStatusUpdates
      <3>1. CASE FALSE \in mRecentStatusUpdates
        <4>1. mStatus = "CONFIGURED"
          BY <1>1, <1>4, <2>6, <3>1 DEF SettledInv
        <4>2. aPc \notin {"submit", "resume"}
          BY <1>1, <2>6 DEF LockInv, Returned
        <4> QED BY <1>1, <1>3, <4>1, <4>2 DEF SettledInv
      <3> QED BY <3>1
    <2>7. SettledInv'
      BY <1>2, <1>6, <2>3, <2>6 DEF SettledInv
    <2> QED BY <2>5, <2>7
  <1>8. CASE mStateTransitions = <<FALSE>>
    <2>1. ~Head(mStateTransitions) /\ mStateTransitions' = <<>>
          /\ FALSE \in Range(mStateTransitions)
      BY <1>2, <1>8, ListFacts, Zenon
    <2>2. UpdateStatus("CONFIGURED") /\ "CONFIGURED" \in Statuses
      BY <1>4, <2>1 DEF NotifyStatus, Statuses
    <2>3. mStatus' = "CONFIGURED"
      BY <1>1, <2>2, Updated
    <2>4. mPendingChangeQueue = <<>> /\ mStates = Idle /\ ~Awake /\ inFlight = 0
      BY <2>1, Zenon DEF IInv, TransitionInv
    <2>5. Settled'
      BY <1>2, <2>1, <2>4 DEF Settled, Awake
    <2>6. ConfiguredTold'
      <3>1. ~DeviceState(mStates)
        BY <2>4 DEF DeviceState, Idle
      <3>2. ~mDeviceState
        BY <1>1, <3>1, Zenon
      <3> QED BY <1>2, <2>1, <3>2 DEF ConfiguredTold
    <2>7. aPc # "resume"
      <3> SUFFICES ASSUME aPc = "resume" PROVE FALSE
        OBVIOUS
      <3>1. rPc \in {"reconf", "reconfWait", "unpause"}
        BY <1>6, <2>4 DEF Awake
      <3> QED BY <3>1 DEF IInv, CallInv, ParamsPending
    <2> HIDE DEF Settled, Awake
    <2>8. StatusInv'
      BY <1>2, <1>4, <2>3, <2>6 DEF StatusInv
    <2>9. SettledInv'
      BY <1>2, <2>3, <2>5, <2>7 DEF SettledInv
    <2> QED BY <2>8, <2>9
  <1> QED BY <1>5, <1>7, <1>8

\* A report does not overtake an earlier one.
LEMMA MarkKeepsFirst ==
    ASSUME TypeOK, NEW c \in Components, NEW a \in BOOLEAN, NEW m, MarkIf(m, c, a)
    PROVE  /\ UNCHANGED <<mDeviceState, mStateTransitions>>
           /\ mPendingChangeQueue # <<>> => mPendingChangeQueue' # <<>>
                                            /\ mPendingChangeQueue'[1] = mPendingChangeQueue[1]
  <1>1. CASE Mark(c, a)
    BY <1>1, Marked DEF Mark
  <1>2. CASE UNCHANGED tracker
    BY <1>2 DEF tracker
  <1> QED BY <1>1, <1>2 DEF MarkIf

\* The status of a live device.
LEMMA DeviceStatusStep ==
    ASSUME IInv, Next, Live' PROVE StatusInv' /\ SettledInv'
  <1>l. Live /\ Live' /\ IInv
    BY LiveStep
  <1>0. TypeOK /\ HandInv /\ FlightInv
    BY DEF IInv, ThreadInv
  <1>c. /\ "request" \in Components /\ "inflight" \in Components
        /\ TRUE \in BOOLEAN /\ FALSE \in BOOLEAN
    BY DEF Components
  <1>1. ASSUME NEW p \in Params, NEW r \in BOOLEAN, Submit(p, r) PROVE StatusInv' /\ SettledInv'
    BY <1>1, <1>l, SubmitStatus
  <1>2. CASE ClearStreaming
    <2>1. /\ aPc \in Returned /\ mInterfaceLock = "free" /\ UNCHANGED tracker
          /\ UNCHANGED <<mPaused, rPc, inFlight, mStatus>> /\ aPc' \notin {"submit", "resume"}
          /\ mStatus' = "UNCONFIGURED" => aPc' = "idle" /\ mDoPause' = mDoPause
          /\ aPc' \in Returned \/ mRecentStatusUpdates' = {}
      BY <1>2 DEF ClearStreaming, Call, pausing, device, flight, Returned
    <2> QED BY <1>l, <2>1, CallStatus
  <1>3. CASE Flush
    <2>1. /\ aPc \in Returned /\ mInterfaceLock = "free" /\ UNCHANGED tracker
          /\ UNCHANGED <<mPaused, rPc, inFlight, mStatus>> /\ aPc' \notin {"submit", "resume"}
          /\ mStatus' = "UNCONFIGURED" => aPc' = "idle" /\ mDoPause' = mDoPause
          /\ aPc' \in Returned \/ mRecentStatusUpdates' = {}
      BY <1>3 DEF Flush, Call, pausing, device, flight, Returned
    <2> QED BY <1>l, <2>1, CallStatus
  <1>4. ASSUME NEW p \in Params, ConfigureStreams(p) PROVE StatusInv' /\ SettledInv'
    <2>1. /\ aPc \in Returned /\ mInterfaceLock = "free" /\ UNCHANGED tracker
          /\ UNCHANGED <<mPaused, rPc, inFlight, mDoPause>> /\ aPc' = "idle" /\ Configurable
      BY <1>4 DEF ConfigureStreams, Call, pausing, flight
    <2>2. mStatus' = mStatus \/ mStatus' = "CONFIGURED"
      BY <1>4 DEF ConfigureStreams, UpdateStatus
    <2>3. "idle" \in Returned
      BY DEF Returned
    <2> QED BY <1>l, <2>1, <2>2, <2>3, CallStatus
  <1>5. CASE DeleteStream
    <2>1. /\ aPc \in Returned /\ mInterfaceLock = "free" /\ UNCHANGED tracker
          /\ UNCHANGED <<mPaused, rPc, inFlight, mStatus>> /\ aPc' \notin {"submit", "resume"}
          /\ mStatus' = "UNCONFIGURED" => aPc' = "idle" /\ mDoPause' = mDoPause
          /\ aPc' \in Returned \/ mRecentStatusUpdates' = {}
      BY <1>5 DEF DeleteStream, Call, pausing, flight, Returned
    <2> QED BY <1>l, <2>1, CallStatus
  <1>6. CASE Drain
    <2>1. /\ aPc \in Returned /\ mInterfaceLock = "free" /\ UNCHANGED tracker
          /\ UNCHANGED <<mPaused, rPc, inFlight, mStatus>> /\ aPc' \notin {"submit", "resume"}
          /\ mStatus' = "UNCONFIGURED" => aPc' = "idle" /\ mDoPause' = mDoPause
          /\ aPc' \in Returned \/ mRecentStatusUpdates' = {}
      BY <1>6 DEF Drain, Call, pausing, flight, Returned, BeginWait
    <2> QED BY <1>l, <2>1, CallStatus
  <1>7. CASE CreateStream
    <2>1. /\ aPc \in Returned /\ mInterfaceLock = "free" /\ UNCHANGED tracker
          /\ UNCHANGED <<mPaused, rPc, inFlight, mStatus>> /\ aPc' \notin {"submit", "resume"}
          /\ mStatus' = "UNCONFIGURED" => aPc' = "idle" /\ mDoPause' = mDoPause
          /\ aPc' \in Returned \/ mRecentStatusUpdates' = {}
      BY <1>7 DEF CreateStream, Call, pausing, flight, Returned
    <2> QED BY <1>l, <2>1, CallStatus
  <1>8. CASE CreatePause
    <2>1. /\ aPc \in Returned /\ mInterfaceLock = "free" /\ UNCHANGED tracker
          /\ UNCHANGED <<mPaused, rPc, inFlight, mStatus>> /\ aPc' \notin {"submit", "resume"}
          /\ mStatus' = "UNCONFIGURED" => aPc' = "idle" /\ mDoPause' = mDoPause
          /\ aPc' \in Returned \/ mRecentStatusUpdates' = {}
      BY <1>8 DEF CreatePause, Call, flight, BeginWait
    <2> QED BY <1>l, <2>1, CallStatus
  <1>9. CASE Disconnect
    <2>1. /\ aPc \in Returned /\ mInterfaceLock = "free" /\ UNCHANGED tracker
          /\ UNCHANGED <<mPaused, rPc, inFlight, mStatus>> /\ aPc' = "close" /\ mStatus = "ACTIVE"
          /\ mRecentStatusUpdates' = {}
      BY <1>9, <1>l DEF Disconnect, Call, flight, BeginWait, Live
    <2> QED BY <1>l, <2>1, CallStatus
  <1>10. CASE SubmitDone
    BY <1>10, <1>l, SubmitDoneStatus
  <1>11. CASE DrainDone
    BY <1>11, <1>l, DrainDoneStatus
  <1>12. CASE CreateConfigure
    BY <1>12, <1>l, CreateConfigureStatus
  <1>13. CASE CreateDone
    BY <1>13, <1>l, CreateDoneStatus
  <1>14. CASE DisconnectExit
    BY <1>14, <1>l DEF DisconnectExit, Live
  <1>15. CASE DisconnectDone
    BY <1>15, <1>l DEF DisconnectDone, IInv, LockInv, Live
  <1>16. CASE WaitPaused
    <2>1. /\ Awake \/ inFlight > 0
          /\ UNCHANGED <<mStatus, mRecentStatusUpdates, aPc>>
          /\ rPc' = rPc \/ rPc' \in {"top", "reconf", "send", "prepare", "notify"}
          /\ mPaused' => mPaused \/ aPc # "resume"
      BY <1>16, <1>0, <1>l DEF WaitPaused, Awake, HandInv, apiVars, device, IInv, ThreadInv
    <2>2. /\ UNCHANGED <<mDeviceState, mStateTransitions>>
          /\ mPendingChangeQueue # <<>> => mPendingChangeQueue' # <<>>
                                           /\ mPendingChangeQueue'[1] = mPendingChangeQueue[1]
      <3>1. MarkIf(TRUE, "request", FALSE)
        BY <1>16 DEF WaitPaused, MarkIf
      <3> QED BY <1>0, <1>c, <3>1, MarkKeepsFirst
    <2> HIDE DEF Awake
    <2> QED BY <1>l, <2>1, <2>2, BusyStep
  <1>17. CASE Unpaused
    <2>1. /\ UNCHANGED tracker /\ Awake' = Awake /\ inFlight' = inFlight
          /\ UNCHANGED <<mStatus, mRecentStatusUpdates, aPc, mDoPause>> /\ mPaused' = mPaused
          /\ rPc \in {"top", "wait", "prepare", "send"} /\ rPc' \in {"top", "wait"}
      BY <1>17 DEF Unpaused, flight, Awake, apiVars, device
    <2> QED BY <1>l, <2>1, StillStep
  <1>18. CASE Exit
    BY <1>18, <1>l DEF Exit, Live
  <1>19. CASE GoIdle
    <2>1. CASE mPaused
      <3>1. /\ UNCHANGED tracker /\ Awake' = Awake /\ inFlight' = inFlight
            /\ UNCHANGED <<mStatus, mRecentStatusUpdates, aPc, mDoPause>> /\ mPaused' = mPaused
            /\ rPc \in {"top", "wait", "prepare", "send"} /\ rPc' \in {"top", "wait"}
        BY <1>19, <1>0, <2>1
           DEF GoIdle, MarkIf, flight, Awake, apiVars, device, TypeOK, ThreadTypes
      <3> QED BY <1>l, <3>1, StillStep
    <2>2. CASE ~mPaused
      <3>1. /\ Awake /\ UNCHANGED <<mStatus, mRecentStatusUpdates, aPc>> /\ rPc' = "top"
        BY <1>19, <2>2 DEF GoIdle, Awake, apiVars, device
      <3>2. aPc # "resume"
        BY <1>19, <1>l DEF GoIdle, IInv, CallInv
      <3>3. /\ UNCHANGED <<mDeviceState, mStateTransitions>>
            /\ mPendingChangeQueue # <<>> => mPendingChangeQueue' # <<>>
                                             /\ mPendingChangeQueue'[1] = mPendingChangeQueue[1]
        <4>1. MarkIf(~mPaused, "request", FALSE)
          BY <1>19 DEF GoIdle
        <4> QED BY <1>0, <1>c, <4>1, MarkKeepsFirst
      <3> HIDE DEF Awake
      <3> QED BY <1>l, <3>1, <3>2, <3>3, BusyStep
    <2> QED BY <2>1, <2>2
  <1>20. CASE NextRequest
    BY <1>20, <1>l, NextRequestStatus
  <1>21. CASE Notify
    <2>1. /\ Awake \/ inFlight > 0
          /\ UNCHANGED <<mStatus, mRecentStatusUpdates, aPc>>
          /\ rPc' = rPc \/ rPc' \in {"top", "reconf", "send", "prepare", "notify"}
          /\ mPaused' => mPaused \/ aPc # "resume"
      BY <1>21, <1>0, <1>l DEF Notify, Awake, HandInv, apiVars, device
    <2>2. /\ UNCHANGED <<mDeviceState, mStateTransitions>>
          /\ mPendingChangeQueue # <<>> => mPendingChangeQueue' # <<>>
                                           /\ mPendingChangeQueue'[1] = mPendingChangeQueue[1]
      <3>1. MarkIf(TRUE, "request", FALSE)
        BY <1>21 DEF Notify, MarkIf
      <3> QED BY <1>0, <1>c, <3>1, MarkKeepsFirst
    <2> HIDE DEF Awake
    <2> QED BY <1>l, <2>1, <2>2, BusyStep
  <1>22. CASE Reconfigure
    BY <1>22, <1>l, ReconfigureStatus
  <1>23. CASE Reconfigured
    BY <1>23, <1>l, ReconfiguredStatus
  <1>24. CASE Unpause
    BY <1>24, <1>l, UnpauseStatus
  <1>25. CASE Prepare
    <2>1. /\ Awake \/ inFlight > 0
          /\ UNCHANGED <<mStatus, mRecentStatusUpdates, aPc>>
          /\ rPc' = rPc \/ rPc' \in {"top", "reconf", "send", "prepare", "notify"}
          /\ mPaused' => mPaused \/ aPc # "resume"
      BY <1>25, <1>0, <1>l DEF Prepare, Awake, HandInv, apiVars, device
    <2>2. /\ UNCHANGED <<mDeviceState, mStateTransitions>>
          /\ mPendingChangeQueue # <<>> => mPendingChangeQueue' # <<>>
                                           /\ mPendingChangeQueue'[1] = mPendingChangeQueue[1]
      <3>1. MarkIf(inFlight = 0, "inflight", TRUE)
        BY <1>25 DEF Prepare, MarkIf
      <3> QED BY <1>0, <1>c, <3>1, MarkKeepsFirst
    <2> HIDE DEF Awake
    <2> QED BY <1>l, <2>1, <2>2, BusyStep
  <1>26. CASE PrepareFails
    <2>1. /\ UNCHANGED tracker /\ Awake' = Awake /\ inFlight' = inFlight
          /\ UNCHANGED <<mStatus, mRecentStatusUpdates, aPc, mDoPause>> /\ mPaused' = mPaused
          /\ rPc \in {"top", "wait", "prepare", "send"} /\ rPc' \in {"top", "wait"}
      BY <1>26 DEF PrepareFails, flight, Awake, apiVars, device
    <2> QED BY <1>l, <2>1, StillStep
  <1>27. CASE Send
    <2>1. /\ UNCHANGED tracker /\ Awake' = Awake /\ inFlight' = inFlight
          /\ UNCHANGED <<mStatus, mRecentStatusUpdates, aPc, mDoPause>> /\ mPaused' = mPaused
          /\ rPc \in {"top", "wait", "prepare", "send"} /\ rPc' \in {"top", "wait"}
      BY <1>27 DEF Send, Awake, apiVars, device
    <2> QED BY <1>l, <2>1, StillStep
  <1>28. CASE SendFails
    BY <1>28, <1>l DEF SendFails, Live
  <1>29. CASE Collect
    BY <1>29, <1>l, CollectStatus
  <1>30. CASE NotifyStatus
    BY <1>30, <1>l, NotifiedStatus
  <1>31. CASE Result
    <2>1. /\ Awake \/ inFlight > 0
          /\ UNCHANGED <<mStatus, mRecentStatusUpdates, aPc>>
          /\ rPc' = rPc \/ rPc' \in {"top", "reconf", "send", "prepare", "notify"}
          /\ mPaused' => mPaused \/ aPc # "resume"
      BY <1>31, <1>0, <1>l
         DEF Result, Awake, HandInv, apiVars, device, thread, FlightInv, Bit, TypeOK,
             TrackerTypes
    <2>2. /\ UNCHANGED <<mDeviceState, mStateTransitions>>
          /\ mPendingChangeQueue # <<>> => mPendingChangeQueue' # <<>>
                                           /\ mPendingChangeQueue'[1] = mPendingChangeQueue[1]
      <3>1. MarkIf(inFlight = 1, "inflight", FALSE)
        BY <1>31 DEF Result, MarkIf
      <3> QED BY <1>0, <1>c, <3>1, MarkKeepsFirst
    <2> HIDE DEF Awake
    <2> QED BY <1>l, <2>1, <2>2, BusyStep
  <1>32. CASE HalError
    <2>1. mStatus' = "ERROR"
      BY <1>32, <1>l, Failed DEF HalError, SetError, IInv, TypeOK
    <2> QED BY <1>l, <2>1 DEF Live
  <1> QED BY <1>1, <1>2, <1>3, <1>4, <1>5, <1>6, <1>7, <1>8, <1>9, <1>10, <1>11, <1>12,
             <1>13, <1>14, <1>15, <1>16, <1>17, <1>18, <1>19, <1>20, <1>21, <1>22, <1>23,
             <1>24, <1>25, <1>26, <1>27, <1>28, <1>29, <1>30, <1>31, <1>32
             DEF Next, Api, ApiReturns, RequestThread, Tracker

-------------------------------------------------------------------------------
(* Errors and configurations.                                              *)

\* Only disconnect() can be under way on a device that was told to exit.
LEMMA NotLive ==
    ASSUME IInv, ~Live, aPc # "join" PROVE mStatus \in {"ERROR", "UNINITIALIZED"}
  BY DEF Live, IInv, LockInv, TypeOK, CallTypes

LEMMA ConfigurableIdle ==
    ASSUME IInv, Configurable, aPc \notin {"submit", "resume", "join"} PROVE inFlight = 0
  <1>1. Live
    BY NotLive DEF Configurable
  <1>2. Settled
    BY <1>1 DEF IInv, StatusInv, SettledInv, Configurable
  <1> QED BY <1>2 DEF Settled

LEMMA Undisturbed ==
    ASSUME ~disturbed, inFlight = 0, NEW p, Configure(p) PROVE ~disturbed'
  <1>1. disturbed' = (disturbed \/ inFlight > 0)
    BY DEF Configure
  <1>2. ~(inFlight > 0)
    OBVIOUS
  <1> QED BY <1>1, <1>2, Zenon

\* No action configures the HAL too early or makes an error of its own.
LEMMA ErrorStep ==
    ASSUME IInv, Next PROVE ~disturbed' /\ NoOwnError'
  <1> USE DEF NoOwnError
  <1>0. ~disturbed /\ NoOwnError /\ IInv /\ CallTypes /\ ThreadTypes
    BY DEF IInv, TypeOK
  <1>1. ASSUME NEW p \in Params, NEW r \in BOOLEAN, Submit(p, r) PROVE ~disturbed' /\ NoOwnError'
    <2>1. mStatus' # "ERROR"
      BY <1>1 DEF Submit
    <2>2. CASE mStatus = "UNCONFIGURED" \/ mNeedConfig
      <3>1. Configurable /\ aPc \in Returned /\ Configure(p)
        BY <1>1, <2>2 DEF Submit, Call
      <3>2. aPc # "join"
        BY <3>1 DEF Returned
      <3>3. inFlight = 0
        BY <1>0, <3>1, <3>2, ConfigurableIdle DEF Returned
      <3> QED BY <1>0, <2>1, <3>1, <3>3, Undisturbed
    <2>3. CASE ~(mStatus = "UNCONFIGURED" \/ mNeedConfig)
      BY <1>1, <1>0, <2>1, <2>3 DEF Submit, history
    <2> QED BY <2>2, <2>3
  <1>2. CASE ClearStreaming
    <2>1. disturbed' = disturbed /\ halFailed' = halFailed /\ mStatus' = mStatus
      BY <1>2 DEF ClearStreaming, Call, device, flight, history, pausing, tracker
    <2> QED BY <1>0, <2>1
  <1>3. CASE Flush
    <2>1. disturbed' = disturbed /\ halFailed' = halFailed /\ mStatus' = mStatus
      BY <1>3 DEF Flush, Call, device, flight, history, pausing, tracker
    <2> QED BY <1>0, <2>1
  <1>4. ASSUME NEW p \in Params, ConfigureStreams(p) PROVE ~disturbed' /\ NoOwnError'
    <2>1. mStatus' # "ERROR"
      BY <1>4 DEF ConfigureStreams, UpdateStatus, Configurable
    <2>2. CASE mNeedConfig
      <3>1. Configurable /\ aPc \in Returned /\ Configure(p)
        BY <1>4, <2>2 DEF ConfigureStreams, Call
      <3>2. inFlight = 0
        BY <1>0, <3>1, ConfigurableIdle DEF Returned
      <3> QED BY <1>0, <2>1, <3>1, <3>2, Undisturbed
    <2>3. CASE ~mNeedConfig
      BY <1>4, <1>0, <2>1, <2>3 DEF ConfigureStreams, history
    <2> QED BY <2>2, <2>3
  <1>5. CASE DeleteStream
    <2>1. disturbed' = disturbed /\ halFailed' = halFailed /\ mStatus' = mStatus
      BY <1>5 DEF DeleteStream, Call, Configurable, flight, history, pausing, tracker
    <2> QED BY <1>0, <2>1
  <1>6. CASE Drain
    <2>1. disturbed' = disturbed /\ halFailed' = halFailed /\ mStatus' = mStatus
      BY <1>6 DEF Drain, Call, BeginWait, flight, history, pausing, tracker
    <2> QED BY <1>0, <2>1
  <1>7. CASE CreateStream
    <2>1. disturbed' = disturbed /\ halFailed' = halFailed /\ mStatus' = mStatus
      BY <1>7 DEF CreateStream, Call, Configurable, flight, history, pausing, tracker
    <2> QED BY <1>0, <2>1
  <1>8. CASE CreatePause
    <2>1. disturbed' = disturbed /\ halFailed' = halFailed /\ mStatus' = mStatus
      BY <1>8 DEF CreatePause, Call, BeginWait, flight, history, tracker
    <2> QED BY <1>0, <2>1
  <1>9. CASE Disconnect
    <2>1. disturbed' = disturbed /\ halFailed' = halFailed /\ mStatus' = mStatus
      BY <1>9 DEF Disconnect, Call, BeginWait, flight, history, tracker
    <2> QED BY <1>0, <2>1
  <1>10. CASE SubmitDone
    <2>1. disturbed' = disturbed /\ halFailed' = halFailed /\ mStatus' = mStatus
      BY <1>10 DEF SubmitDone, device, flight, history, queue, thread, tracker
    <2> QED BY <1>0, <2>1
  <1>11. CASE DrainDone
    <2>1. disturbed' = disturbed /\ halFailed' = halFailed /\ Checked(FALSE) /\ aPc = "drain"
      BY <1>11 DEF DrainDone, history
    <2>2. mStatus' = mStatus
      <3>1. CASE Live
        BY <1>11, <1>0, <3>1, DrainDoneLive
      <3>2. CASE ~Live
        <4>1. mStatus \in {"ERROR", "UNINITIALIZED"}
          BY <1>0, <2>1, <3>2, NotLive
        <4> QED BY <1>0, <2>1, <4>1, CheckedWait
      <3> QED BY <3>1, <3>2
    <2> QED BY <1>0, <2>1, <2>2
  <1>12. CASE CreateConfigure
    <2>1. aPc = "pause"
      BY <1>12 DEF CreateConfigure
    <2>2. CASE Live
      <3>1. Settled /\ Configure(mSessionParams) /\ mStatus' = "CONFIGURED"
        BY <1>12, <1>0, <2>2, CreateConfigureLive
      <3>2. inFlight = 0
        BY <3>1 DEF Settled
      <3> QED BY <1>0, <3>1, <3>2, Undisturbed
    <2>3. CASE ~Live
      <3>1. mStatus \in {"ERROR", "UNINITIALIZED"}
        BY <1>0, <2>1, <2>3, NotLive
      <3>2. ~Configurable
        BY <3>1 DEF Configurable
      <3>3. Checked(FALSE) /\ disturbed' = disturbed /\ halFailed' = halFailed
        BY <1>12, <3>2 DEF CreateConfigure, history
      <3>4. mStatus' = mStatus
        BY <1>0, <3>1, <3>3, CheckedWait
      <3> QED BY <1>0, <3>3, <3>4
    <2> QED BY <2>2, <2>3
  <1>13. CASE CreateDone
    <2>1. disturbed' = disturbed /\ halFailed' = halFailed /\ Checked(TRUE) /\ aPc = "resume"
      BY <1>13 DEF CreateDone, history
    <2>2. mStatus' = mStatus
      <3>1. CASE Live
        BY <1>13, <1>0, <3>1, CreateDoneLive
      <3>2. CASE ~Live
        <4>1. mStatus \in {"ERROR", "UNINITIALIZED"}
          BY <1>0, <2>1, <3>2, NotLive
        <4> QED BY <1>0, <2>1, <4>1, CheckedWait
      <3> QED BY <3>1, <3>2
    <2> QED BY <1>0, <2>1, <2>2
  <1>14. CASE DisconnectExit
    <2>1. disturbed' = disturbed /\ halFailed' = halFailed /\ Checked(FALSE) /\ aPc = "close"
      BY <1>14 DEF DisconnectExit, history
    <2>2. mStatus' = mStatus
      <3>1. CASE Live
        BY <1>14, <1>0, <3>1, DisconnectExitLive
      <3>2. CASE ~Live
        <4>1. mStatus \in {"ERROR", "UNINITIALIZED"}
          BY <1>0, <2>1, <3>2, NotLive
        <4> QED BY <1>0, <2>1, <4>1, CheckedWait
      <3> QED BY <3>1, <3>2
    <2> QED BY <1>0, <2>1, <2>2
  <1>15. CASE DisconnectDone
    BY <1>15, <1>0 DEF DisconnectDone, UpdateStatus, history
  <1>16. CASE WaitPaused
    <2>1. disturbed' = disturbed /\ halFailed' = halFailed /\ mStatus' = mStatus
      BY <1>16 DEF WaitPaused, Mark, apiVars, device, flight, history, queue, tracker
    <2> QED BY <1>0, <2>1
  <1>17. CASE Unpaused
    <2>1. disturbed' = disturbed /\ halFailed' = halFailed /\ mStatus' = mStatus
      BY <1>17 DEF Unpaused, apiVars, device, flight, history, queue, tracker
    <2> QED BY <1>0, <2>1
  <1>18. CASE Exit
    <2>1. disturbed' = disturbed /\ halFailed' = halFailed /\ mStatus' = mStatus
      BY <1>18 DEF Exit, apiVars, device, flight, history, queue, tracker
    <2> QED BY <1>0, <2>1
  <1>19. CASE GoIdle
    <2>1. disturbed' = disturbed /\ halFailed' = halFailed /\ mStatus' = mStatus
      BY <1>19 DEF GoIdle, MarkIf, Mark, apiVars, device, flight, history, queue, tracker
    <2> QED BY <1>0, <2>1
  <1>20. CASE NextRequest
    <2>1. disturbed' = disturbed /\ halFailed' = halFailed /\ mStatus' = mStatus
      BY <1>20 DEF NextRequest, MarkIf, Mark, apiVars, device, flight, history, tracker
    <2> QED BY <1>0, <2>1
  <1>21. CASE Notify
    <2>1. disturbed' = disturbed /\ halFailed' = halFailed /\ mStatus' = mStatus
      BY <1>21 DEF Notify, Mark, apiVars, flight, history, queue, tracker
    <2> QED BY <1>0, <2>1
  <1>22. CASE Reconfigure
    <2>1. disturbed' = disturbed /\ halFailed' = halFailed /\ mStatus' = mStatus
      BY <1>22 DEF Reconfigure, BeginWait, flight, history, queue, tracker
    <2> QED BY <1>0, <2>1
  <1>23. CASE Reconfigured
    <2>1. CASE Live
      <3>1. Settled /\ Configure(mLatestSessionParams) /\ mStatus' = "ACTIVE"
        BY <1>23, <1>0, <2>1, ReconfiguredLive
      <3>2. inFlight = 0
        BY <3>1 DEF Settled
      <3> QED BY <1>0, <3>1, <3>2, Undisturbed
    <2>2. CASE ~Live
      <3>1. aPc # "join"
        BY <1>23 DEF Reconfigured, IInv, LockInv, Returned
      <3>2. mStatus \in {"ERROR", "UNINITIALIZED"}
        BY <1>0, <2>2, <3>1, NotLive
      <3>3. ~Configurable
        BY <3>2 DEF Configurable
      <3>4. ErrorStatus /\ disturbed' = disturbed /\ halFailed' = halFailed
        BY <1>23, <3>3 DEF Reconfigured, history
      <3>5. mStatus' = mStatus
        BY <1>0, <3>2, <3>4, Failed
      <3> QED BY <1>0, <3>4, <3>5
    <2> QED BY <2>1, <2>2
  <1>24. CASE Unpause
    <2>1. disturbed' = disturbed /\ halFailed' = halFailed /\ mStatus' = mStatus
      BY <1>24 DEF Unpause, Mark, apiVars, device, flight, history, queue, tracker
    <2> QED BY <1>0, <2>1
  <1>25. CASE Prepare
    <2>1. disturbed' = disturbed /\ halFailed' = halFailed /\ mStatus' = mStatus
      BY <1>25 DEF Prepare, MarkIf, Mark, apiVars, device, history, queue, tracker
    <2> QED BY <1>0, <2>1
  <1>26. CASE PrepareFails
    <2>1. disturbed' = disturbed /\ halFailed' = halFailed /\ mStatus' = mStatus
      BY <1>26 DEF PrepareFails, apiVars, device, flight, history, tracker
    <2> QED BY <1>0, <2>1
  <1>27. CASE Send
    <2>1. disturbed' = disturbed /\ halFailed' = halFailed /\ mStatus' = mStatus
      BY <1>27 DEF Send, apiVars, device, history, tracker
    <2> QED BY <1>0, <2>1
  <1>28. CASE SendFails
    <2>1. disturbed' = disturbed /\ halFailed' = halFailed /\ mStatus' = mStatus
      BY <1>28 DEF SendFails, apiVars, device, history, tracker
    <2> QED BY <1>0, <2>1
  <1>29. CASE Collect
    <2>1. disturbed' = disturbed /\ halFailed' = halFailed /\ mStatus' = mStatus
      BY <1>29 DEF Collect, apiVars, device, flight, history, queue, thread
    <2> QED BY <1>0, <2>1
  <1>30. CASE NotifyStatus
    BY <1>30, <1>0 DEF NotifyStatus, UpdateStatus, history
  <1>31. CASE Result
    <2>1. disturbed' = disturbed /\ halFailed' = halFailed /\ mStatus' = mStatus
      BY <1>31 DEF Result, MarkIf, Mark, apiVars, device, history, queue, thread, tracker
    <2> QED BY <1>0, <2>1
  <1>32. CASE HalError
    BY <1>32, <1>0 DEF HalError
  <1> QED BY <1>1, <1>2, <1>3, <1>4, <1>5, <1>6, <1>7, <1>8, <1>9, <1>10, <1>11, <1>12,
             <1>13, <1>14, <1>15, <1>16, <1>17, <1>18, <1>19, <1>20, <1>21, <1>22, <1>23,
             <1>24, <1>25, <1>26, <1>27, <1>28, <1>29, <1>30, <1>31, <1>32
             DEF Next, Api, ApiReturns, RequestThread, Tracker

-------------------------------------------------------------------------------
(* The theorems.                                                           *)

LEMMA InitInv ==
    ASSUME Init PROVE IInv
  <1>1. mPendingChangeQueue = <<>> /\ mStates = Idle /\ mStateTransitions = <<>>
    BY DEF Init
  <1>2. TypeOK
    <2>1. CallTypes
      BY DEF Init, CallTypes
    <2>2. ThreadTypes
      <3>1. <<>> \in Seq(Params) /\ Len(<<>>) <= MaxQueue
        OBVIOUS
      <3>2. mLatestSessionParams \in Params /\ mRequestQueue = <<>>
            /\ mRepeatingRequests = None /\ mNextRequests = None /\ rPc = "top"
            /\ mDoPause = FALSE /\ mPaused = TRUE /\ exitPending = FALSE
        BY DEF Init
      <3> QED BY <3>1, <3>2 DEF ThreadTypes
    <2>3. TrackerTypes
      <3>1. Idle \in [Components -> BOOLEAN]
        BY DEF Idle
      <3>2. 0 \in 0..(MaxInFlight + 1) /\ 0 \in 0..MaxInFlight
        OBVIOUS
      <3>3. <<>> \in Seq(Changes) /\ <<>> \in Seq(BOOLEAN)
        OBVIOUS
      <3>4. /\ inFlight = 0 /\ atHal = 0 /\ mDeviceState = FALSE /\ halFailed = FALSE
            /\ disturbed = FALSE
        BY DEF Init
      <3> QED BY <1>1, <3>1, <3>2, <3>3, <3>4 DEF TrackerTypes
    <2> QED BY <2>1, <2>2, <2>3 DEF TypeOK
  <1>3. LockInv /\ FlightInv
    BY DEF Init, LockInv, FlightInv, Bit, Returned
  <1>4. ThreadInv /\ CallInv
    BY DEF Init, ThreadInv, HandInv, CallInv
  <1>5. ~Awake /\ inFlight = 0 /\ mDeviceState = FALSE
    BY DEF Init, Awake
  <1>6. Settled
    BY <1>1, <1>5 DEF Settled
  <1>7. Reported = Idle /\ UpBefore
    BY <1>1, <1>2, NothingPending
  <1>8. ReportInv
    <2>1. DeviceState(mStates) = FALSE
      BY <1>1 DEF DeviceState, Idle
    <2>2. Reported["request"] = FALSE /\ Reported["inflight"] = FALSE
      BY <1>7 DEF Idle, Components
    <2>3. Awake = FALSE /\ (inFlight > 0) = FALSE
      <3>1. Awake \in BOOLEAN /\ ~(inFlight > 0)
        BY <1>5 DEF Awake
      <3> HIDE DEF Awake
      <3> QED BY <1>5, <3>1
    <2>4. mDeviceState = DeviceState(mStates)
      BY <1>5, <2>1, Zenon
    <2> HIDE DEF Awake, Reported, UpBefore
    <2> QED BY <1>7, <2>2, <2>3, <2>4, Zenon DEF ReportInv
  <1>9. TransitionInv
    BY <1>1, ListFacts DEF TransitionInv
  <1>10. StatusInv /\ SettledInv
    BY <1>6 DEF Init, StatusInv, SettledInv
  <1>11. ~disturbed /\ NoOwnError
    BY DEF Init, NoOwnError
  <1> QED BY <1>2, <1>3, <1>4, <1>8, <1>9, <1>10, <1>11 DEF IInv

LEMMA NextInv ==
    ASSUME ~Careless, ~SlowTracker, IInv, Next PROVE IInv'
  <1>1. TypeOK'
    BY CallTypesStep, ThreadTypesStep, TrackerTypesStep DEF TypeOK
  <1>2. LockInv' /\ FlightInv' /\ ThreadInv' /\ CallInv'
    BY LockStep, FlightStep, ThreadStep, CallStep
  <1>3. ReportInv' /\ TransitionInv'
    BY ReportStep
  <1>4. Live' => StatusInv' /\ SettledInv'
    BY DeviceStatusStep
  <1>5. ~disturbed' /\ NoOwnError'
    BY ErrorStep
  <1> QED BY <1>1, <1>2, <1>3, <1>4, <1>5 DEF IInv

LEMMA StutterInv ==
    ASSUME IInv, UNCHANGED vars PROVE IInv'
  <1>1. /\ UNCHANGED apiVars /\ UNCHANGED device /\ UNCHANGED queue /\ UNCHANGED thread
        /\ UNCHANGED flight /\ UNCHANGED tracker /\ UNCHANGED history
    BY DEF vars
  <1>2. /\ UNCHANGED <<mInterfaceLock, aPc, mStatus, mRecentStatusUpdates, mNeedConfig,
                       mSessionParams, mPauseStateNotify>>
        /\ UNCHANGED <<mRequestQueue, mRepeatingRequests, mNextRequests, mDoPause, mPaused,
                       mLatestSessionParams, rPc, exitPending>>
        /\ UNCHANGED <<inFlight, atHal, mStates, mPendingChangeQueue, mDeviceState,
                       mStateTransitions, halFailed, disturbed>>
    BY <1>1 DEF apiVars, device, queue, thread, flight, tracker, history
  <1>3. TypeOK'
    BY <1>2 DEF IInv, TypeOK, CallTypes, ThreadTypes, TrackerTypes
  <1>4. Live' = Live /\ Awake' = Awake
    BY <1>2 DEF Live, Awake
  <1>5. LockInv' /\ FlightInv' /\ ThreadInv'
    BY <1>2 DEF IInv, LockInv, FlightInv, Bit, ThreadInv, HandInv, Live
  <1>6. ParamsPending' = ParamsPending
    BY <1>2 DEF ParamsPending
  <1>7. CallInv'
    BY <1>2, <1>4, <1>6 DEF IInv, CallInv
  <1>8. ReportInv' /\ TransitionInv'
    <2>1. CASE Live
      BY <1>1, <1>2, <1>4, <2>1, ReportKept
    <2>2. CASE ~Live
      <3>1. mDeviceState' = DeviceState(mStates')
        BY <1>2 DEF IInv, ReportInv
      <3> HIDE DEF Live
      <3> QED BY <1>4, <2>2, <3>1, Zenon DEF ReportInv, TransitionInv
    <2> QED BY <2>1, <2>2
  <1>9. Settled' = Settled
    BY <1>1, <1>2, <1>4, SettledKept
  <1>10. Live' => StatusInv' /\ SettledInv'
    <2>1. Live => StatusInv /\ SettledInv
      BY DEF IInv
    <2> HIDE DEF Live, Awake, Settled
    <2>2. StatusInv' = StatusInv
      BY <1>2, <1>9 DEF StatusInv, ConfiguredTold, ActiveTold
    <2>3. SettledInv' = SettledInv
      BY <1>2, <1>9 DEF SettledInv
    <2> QED BY <1>4, <2>1, <2>2, <2>3
  <1>11. ~disturbed' /\ NoOwnError'
    BY <1>2 DEF IInv, NoOwnError
  <1> QED BY <1>3, <1>5, <1>7, <1>8, <1>10, <1>11 DEF IInv

\* The invariant of the calls, the request thread, the HAL and the tracker together.
THEOREM Invariance ==
    ASSUME ~Careless, ~SlowTracker PROVE Spec => []IInv
  <1>1. Init => IInv
    BY InitInv
  <1>2. IInv /\ [Next]_vars => IInv'
    BY NextInv, StutterInv
  <1> QED BY <1>1, <1>2, PTL DEF Spec

\* configureStreamsLocked() configures the HAL only when nothing is in flight, whoever
\* calls it and whatever is reported meanwhile.
THEOREM HalConfiguredIdle ==
    ASSUME ~Careless, ~SlowTracker PROVE Spec => []ConfiguredIdle
  <1>1. IInv => ConfiguredIdle
    BY DEF IInv, ConfiguredIdle
  <1> QED BY <1>1, Invariance, PTL

\* No wait of the device times out, so it goes into the error state only for an error
\* of the HAL.
THEOREM NoErrorOfItsOwn ==
    ASSUME ~Careless, ~SlowTracker PROVE Spec => []NoOwnError
  <1>1. IInv => NoOwnError
    BY DEF IInv
  <1> QED BY <1>1, Invariance, PTL

\* waitUntilDrained() succeeds when nothing is in flight, or in the error state.
THEOREM DrainedIsIdle ==
    ASSUME ~Careless, ~SlowTracker PROVE Spec => DrainedMeansIdle
  <1> DEFINE Drained == aPc' = "drained" /\ aPc # "drained" =>
                            inFlight = 0 \/ mStatus = "ERROR"
  <1>1. IInv /\ [Next]_vars => Drained
    <2> SUFFICES ASSUME IInv, [Next]_vars, aPc' = "drained", aPc # "drained"
                 PROVE  inFlight = 0 \/ mStatus = "ERROR"
      OBVIOUS
    <2>1. Drain \/ DrainDone
      <3>0. Next
        BY DEF vars, apiVars
      <3>1. ASSUME NEW p \in Params, NEW r \in BOOLEAN, Submit(p, r) PROVE Drain \/ DrainDone
        BY <3>1 DEF Submit, Call
      <3>2. CASE ClearStreaming
        BY <3>2 DEF ClearStreaming, Call
      <3>3. CASE Flush
        BY <3>3 DEF Flush, Call
      <3>4. ASSUME NEW p \in Params, ConfigureStreams(p) PROVE Drain \/ DrainDone
        BY <3>4 DEF ConfigureStreams, Call
      <3>5. CASE DeleteStream
        BY <3>5 DEF DeleteStream, Call
      <3>6. CASE Drain
        BY <3>6
      <3>7. CASE CreateStream
        BY <3>7 DEF CreateStream, Call
      <3>8. CASE CreatePause
        BY <3>8 DEF CreatePause, Call
      <3>9. CASE Disconnect
        BY <3>9 DEF Disconnect, Call
      <3>10. CASE SubmitDone
        BY <3>10 DEF SubmitDone
      <3>11. CASE DrainDone
        BY <3>11
      <3>12. CASE CreateConfigure
        BY <3>12 DEF CreateConfigure
      <3>13. CASE CreateDone
        BY <3>13 DEF CreateDone
      <3>14. CASE DisconnectExit
        BY <3>14 DEF DisconnectExit
      <3>15. CASE DisconnectDone
        BY <3>15 DEF DisconnectDone
      <3>16. CASE WaitPaused
        BY <3>16 DEF WaitPaused, apiVars
      <3>17. CASE Unpaused
        BY <3>17 DEF Unpaused, apiVars
      <3>18. CASE Exit
        BY <3>18 DEF Exit, apiVars
      <3>19. CASE GoIdle
        BY <3>19 DEF GoIdle, apiVars
      <3>20. CASE NextRequest
        BY <3>20 DEF NextRequest, apiVars
      <3>21. CASE Notify
        BY <3>21 DEF Notify, apiVars
      <3>22. CASE Reconfigure
        BY <3>22 DEF Reconfigure
      <3>23. CASE Reconfigured
        BY <3>23 DEF Reconfigured
      <3>24. CASE Unpause
        BY <3>24 DEF Unpause, apiVars
      <3>25. CASE Prepare
        BY <3>25 DEF Prepare, apiVars
      <3>26. CASE PrepareFails
        BY <3>26 DEF PrepareFails, apiVars
      <3>27. CASE Send
        BY <3>27 DEF Send, apiVars
      <3>28. CASE SendFails
        BY <3>28 DEF SendFails, apiVars
      <3>29. CASE Collect
        BY <3>29 DEF Collect, apiVars
      <3>30. CASE NotifyStatus
        BY <3>30 DEF NotifyStatus, apiVars
      <3>31. CASE Result
        BY <3>31 DEF Result, apiVars
      <3>32. CASE HalError
        BY <3>32 DEF HalError, apiVars
      <3> QED BY <3>0, <3>1, <3>2, <3>3, <3>4, <3>5, <3>6, <3>7, <3>8, <3>9, <3>10, <3>11,
                 <3>12, <3>13, <3>14, <3>15, <3>16, <3>17, <3>18, <3>19, <3>20, <3>21,
                 <3>22, <3>23, <3>24, <3>25, <3>26, <3>27, <3>28, <3>29, <3>30, <3>31,
                 <3>32
                 DEF Next, Api, ApiReturns, RequestThread, Tracker
    <2>2. CASE Drain
      <3>1. aPc \in Returned /\ mStatus \in {"CONFIGURED", "ERROR"}
        BY <2>2 DEF Drain, Call
      <3>2. mStatus = "CONFIGURED" => inFlight = 0
        BY <3>1, ConfigurableIdle DEF Configurable, Returned
      <3> QED BY <3>1, <3>2
    <2>3. CASE DrainDone
      <3>1. CASE Live
        <4>1. mStatus = "CONFIGURED" /\ aPc = "drain"
          BY <2>3, <3>1, DrainDoneLive DEF DrainDone
        <4> QED BY <4>1, ConfigurableIdle DEF Configurable
      <3>2. CASE ~Live
        BY <2>3, <3>2, NotLive DEF DrainDone, IInv, LockInv
      <3> QED BY <3>1, <3>2
    <2> QED BY <2>1, <2>2, <2>3
  <1>2. Spec => [][Drained]_vars
    BY <1>1, Invariance, PTL DEF Spec
  <1> QED BY <1>2, PTL DEF DrainedMeansIdle
===============================================================================
