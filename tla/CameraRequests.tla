---------------------------- MODULE CameraRequests ----------------------------
(***************************************************************************)
(* How a camera device is started, idled, reconfigured and closed          *)
(* (services/camera/libcameraservice/device3: Camera3Device with its       *)
(* RequestThread, StatusTracker).  Four actors share mStatus: one API call *)
(* at a time, which holds mInterfaceLock also while it waits for the       *)
(* device to become active or idle; the request thread, which sends        *)
(* requests to the HAL, tells the tracker when it goes idle or active and  *)
(* reconfigures the camera when a request has new session parameters; the  *)
(* HAL, which ends requests; and the tracker, which collects what the      *)
(* components report and tells the device when the whole changes.          *)
(*                                                                         *)
(* A request is its session parameters, a repeating list is one request,   *)
(* and requests in flight are counted.  A step under mLock is one action.  *)
(* The timeouts of the waits, 500 ms and more, are long beside every other *)
(* step: one expires when nothing else can move (Quiet).  Buffers,         *)
(* streams, fences, triggers, batches of high-speed requests and the       *)
(* content of results are left out.                                        *)
(***************************************************************************)
EXTENDS Integers, Sequences, Functions

CONSTANTS Params,       \* values of the session parameters
          MaxQueue,     \* requests queued at a time
          MaxInFlight,  \* requests the HAL takes at a time
          MaxPending,   \* reports to the tracker at a time
          Careless,     \* calls that wait for idleness may meet new session parameters
          SlowTracker   \* a request may be submitted before idleness is reported

None == "none"

ASSUME CameraAssumption ==
    /\ Params # {} /\ None \notin Params
    /\ MaxQueue \in Nat \ {0} /\ MaxInFlight \in Nat \ {0} /\ MaxPending \in Nat \ {0}
    /\ Careless \in BOOLEAN /\ SlowTracker \in BOOLEAN

VARIABLES
  mInterfaceLock,            \* "free", "api" or "request"
  mStatus, mRecentStatusUpdates, mNeedConfig, mSessionParams, mPauseStateNotify,
  aPc,                       \* the API call: what it waits for
  mRequestQueue, mRepeatingRequests, mNextRequests,
  mDoPause, mPaused, mLatestSessionParams, rPc,        \* the request thread
  exitPending,               \* of the request thread
  inFlight, atHal,           \* size of mInFlightMap; requests the HAL has
  mStates, mPendingChangeQueue, mDeviceState, mStateTransitions,   \* the tracker
  halFailed,                 \* history: the HAL reported an error
  disturbed                  \* history: the HAL was configured with requests in flight

apiVars == <<mInterfaceLock, aPc>>
device  == <<mStatus, mRecentStatusUpdates, mNeedConfig, mSessionParams, mPauseStateNotify>>
queue   == <<mRequestQueue, mRepeatingRequests, mNextRequests>>
pausing == <<mDoPause, mPaused, exitPending>>
thread  == <<mDoPause, mPaused, mLatestSessionParams, rPc, exitPending>>
flight  == <<inFlight, atHal>>
tracker == <<mStates, mPendingChangeQueue, mDeviceState, mStateTransitions>>
history == <<halFailed, disturbed>>
vars    == <<apiVars, device, queue, thread, flight, tracker, history>>

Components == {"request", "inflight"}
Idle == [c \in Components |-> FALSE]

Init ==
    /\ mInterfaceLock = "free" /\ aPc = "idle"
    /\ mStatus = "UNCONFIGURED" /\ mRecentStatusUpdates = {} /\ mNeedConfig = TRUE
    /\ mSessionParams \in Params /\ mPauseStateNotify = FALSE
    /\ mRequestQueue = <<>> /\ mRepeatingRequests = None /\ mNextRequests = None
    /\ mDoPause = FALSE /\ mPaused = TRUE /\ mLatestSessionParams = mSessionParams
    /\ rPc = "top" /\ exitPending = FALSE
    /\ inFlight = 0 /\ atHal = 0
    /\ mStates = Idle /\ mPendingChangeQueue = <<>> /\ mDeviceState = FALSE
    /\ mStateTransitions = <<>>
    /\ halFailed = FALSE /\ disturbed = FALSE

-------------------------------------------------------------------------------
(* Pieces of the device's methods.                                         *)

\* StatusTracker::markComponent(); the bound holds while the tracker runs.
Mark(c, active) ==
    /\ Len(mPendingChangeQueue) < MaxPending \/ exitPending
    /\ mPendingChangeQueue' = Append(mPendingChangeQueue, [id |-> c, active |-> active])
    /\ UNCHANGED <<mStates, mDeviceState, mStateTransitions>>
MarkIf(p, c, active) == IF p THEN Mark(c, active) ELSE UNCHANGED tracker

\* internalUpdateStatusLocked().
UpdateStatus(s) ==
    /\ mStatus' = s
    /\ mRecentStatusUpdates' = mRecentStatusUpdates \cup {s = "ACTIVE"}

\* setErrorStateLockedV().
ErrorStatus ==
    IF mStatus \in {"ERROR", "UNINITIALIZED"} THEN UNCHANGED <<mStatus, mRecentStatusUpdates>>
    ELSE UpdateStatus("ERROR")
SetError ==
    ErrorStatus /\ mDoPause' = (mDoPause \/ mStatus \notin {"ERROR", "UNINITIALIZED"})

\* waitUntilStateThenRelock(): its start, and the state it waits for.
BeginWait == mRecentStatusUpdates' = {}
Reached(active) == (mStatus = "ACTIVE") = active \/ active \in mRecentStatusUpdates

\* The thread is paused, has nothing to send or asks for mInterfaceLock, and there
\* is nothing to report or to return: only the timeout of a wait is left.
Quiet ==
    /\ mPendingChangeQueue = <<>> /\ mStateTransitions = <<>> /\ atHal = 0
    /\ \/ rPc \in {"notify", "reconf", "reconfWait", "exited"}
       \/ rPc = "top" /\ mDoPause /\ mPaused
       \/ rPc \in {"top", "wait"} /\ mPaused /\ mRequestQueue = <<>>
          /\ mRepeatingRequests = None

\* The wait is over, with or without the state: a device in error does not become
\* active any more.
Waited(active) == Reached(active) \/ Quiet \/ mStatus = "ERROR"

\* What a call does whose wait timed out.
Checked(active) == IF Reached(active) THEN UNCHANGED <<mStatus, mRecentStatusUpdates, mDoPause>>
                   ELSE SetError

Configurable == mStatus \in {"UNCONFIGURED", "CONFIGURED"}

\* configureStreamsLocked() when it succeeds: the HAL is configured.
Configure(p) ==
    /\ mNeedConfig' = FALSE /\ mSessionParams' = p
    /\ disturbed' = (disturbed \/ inFlight > 0)
    /\ UNCHANGED halFailed

-------------------------------------------------------------------------------
(* API calls.  CameraDeviceClient makes one at a time.                     *)

\* No call is under way; the last one was waitUntilDrained() and it succeeded.
Returned == {"idle", "drained"}

\* The call begins, and what none of them touches.
Call(next) ==
    /\ aPc \in Returned /\ mInterfaceLock = "free" /\ mStatus # "UNINITIALIZED"
    /\ aPc' = next /\ mInterfaceLock' = IF next \in Returned THEN "free" ELSE "api"
    /\ UNCHANGED <<flight, mNextRequests, rPc>>

\* A report that something is idle has not reached the device.
IdleUnderWay ==
    \/ FALSE \in Range(mStateTransitions)
    \/ \E change \in Range(mPendingChangeQueue) : ~change.active

\* submitRequestsHelper() up to its wait, with setUpRequestLocked() and
\* unpauseForNewRequests().
Submit(p, repeating) ==
    /\ mStatus \in {"UNCONFIGURED", "CONFIGURED", "ACTIVE"}
    /\ SlowTracker \/ ~IdleUnderWay
    /\ Call(IF mStatus = "ACTIVE" THEN "idle" ELSE "submit")
    /\ LET configures == mStatus = "UNCONFIGURED" \/ mNeedConfig IN
        /\ configures => Configurable
        /\ IF configures
             THEN /\ Configure(p) /\ mStatus' = "CONFIGURED" /\ mLatestSessionParams' = p
             ELSE UNCHANGED <<mNeedConfig, mSessionParams, mStatus, mLatestSessionParams,
                              history>>
    /\ BeginWait
    /\ IF repeating THEN mRepeatingRequests' = p /\ UNCHANGED mRequestQueue
       ELSE /\ Len(mRequestQueue) < MaxQueue
            /\ mRequestQueue' = Append(mRequestQueue, p) /\ UNCHANGED mRepeatingRequests
    /\ MarkIf(~mDoPause /\ mPaused, "request", TRUE)
    /\ mPaused' = (mPaused /\ mDoPause)
    /\ UNCHANGED <<mPauseStateNotify, mDoPause, exitPending>>

\* Its wait; the result is not looked at.
SubmitDone ==
    /\ aPc = "submit" /\ Waited(TRUE)
    /\ aPc' = "idle" /\ mInterfaceLock' = "free"
    /\ UNCHANGED <<device, queue, thread, flight, tracker, history>>

\* clearStreamingRequest(), after cancelRequest().
ClearStreaming ==
    /\ mStatus \in {"UNCONFIGURED", "CONFIGURED", "ACTIVE"} /\ mRepeatingRequests # None
    /\ Call("idle")
    /\ mRepeatingRequests' = None
    /\ UNCHANGED <<device, mRequestQueue, pausing, mLatestSessionParams, tracker, history>>

\* flush(): RequestThread::clear(); the HAL then ends what it has.
Flush ==
    /\ Call("idle")
    /\ mRepeatingRequests' = None /\ mRequestQueue' = <<>>
    /\ UNCHANGED <<device, pausing, mLatestSessionParams, tracker, history>>

\* configureStreams(p), if the HAL accepts.
ConfigureStreams(p) ==
    /\ Configurable /\ Call("idle")
    /\ IF mNeedConfig
         THEN Configure(p) /\ UpdateStatus("CONFIGURED") /\ mLatestSessionParams' = p
         ELSE UNCHANGED <<mNeedConfig, mSessionParams, mStatus, mRecentStatusUpdates,
                          mLatestSessionParams, history>>
    /\ UNCHANGED <<mPauseStateNotify, mRequestQueue, mRepeatingRequests, pausing, tracker>>

\* deleteStream(), which refuses unless idle.
DeleteStream ==
    /\ Configurable /\ Call("idle")
    /\ mNeedConfig' = TRUE
    /\ UNCHANGED <<mStatus, mRecentStatusUpdates, mSessionParams, mPauseStateNotify,
                   mRequestQueue, mRepeatingRequests, pausing, mLatestSessionParams,
                   tracker, history>>

\* The request thread has, or will find, a request with other parameters.
ParamsPending ==
    \/ rPc \in {"notify", "reconf", "reconfWait", "unpause"}
    \/ \E p \in Params : /\ p # mLatestSessionParams
                         /\ p = mRepeatingRequests \/ p \in Range(mRequestQueue)

\* waitUntilDrained(); CameraDeviceClient::waitUntilIdle() refuses while streaming.
Drain ==
    /\ mRepeatingRequests = None /\ mStatus \in {"CONFIGURED", "ACTIVE", "ERROR"}
    /\ Careless \/ ~ParamsPending
    /\ Call(IF mStatus = "ACTIVE" THEN "drain" ELSE "drained")
    /\ BeginWait
    /\ UNCHANGED <<mStatus, mNeedConfig, mSessionParams, mPauseStateNotify, mRequestQueue,
                   mRepeatingRequests, pausing, mLatestSessionParams, tracker, history>>

DrainDone ==
    /\ aPc = "drain" /\ Waited(FALSE) /\ Checked(FALSE)
    /\ aPc' = (IF Reached(FALSE) THEN "drained" ELSE "idle") /\ mInterfaceLock' = "free"
    /\ UNCHANGED <<mNeedConfig, mSessionParams, mPauseStateNotify, queue, mPaused,
                   mLatestSessionParams, rPc, exitPending, flight, tracker, history>>

\* createStream() on an idle device.
CreateStream ==
    /\ Configurable /\ Call("idle")
    /\ mNeedConfig' = TRUE
    /\ UNCHANGED <<mStatus, mRecentStatusUpdates, mSessionParams, mPauseStateNotify,
                   mRequestQueue, mRepeatingRequests, pausing, mLatestSessionParams,
                   tracker, history>>

\* createStream() on an active one: internalPauseAndWaitLocked() ...
CreatePause ==
    /\ mStatus = "ACTIVE"
    /\ Careless \/ (~ParamsPending /\ mRepeatingRequests # None)
    /\ Call("pause")
    /\ mDoPause' = TRUE /\ BeginWait
    /\ UNCHANGED <<mStatus, mNeedConfig, mSessionParams, mPauseStateNotify, mRequestQueue,
                   mRepeatingRequests, mPaused, exitPending, mLatestSessionParams, tracker,
                   history>>

\* ... configureStreamsLocked(), which may find the device not idle, and the start
\* of internalResumeLocked().
CreateConfigure ==
    /\ aPc = "pause" /\ Waited(FALSE)
    /\ IF Configurable /\ Reached(FALSE)
         THEN /\ aPc' = "resume" /\ UNCHANGED mInterfaceLock
              /\ Configure(mSessionParams) /\ mLatestSessionParams' = mSessionParams
              /\ mStatus' = "CONFIGURED" /\ BeginWait /\ mDoPause' = FALSE
         ELSE /\ aPc' = "idle" /\ mInterfaceLock' = "free" /\ Checked(FALSE)
              /\ mNeedConfig' = (mNeedConfig \/ Reached(FALSE))
              /\ UNCHANGED <<mSessionParams, mLatestSessionParams, history>>
    /\ UNCHANGED <<mPauseStateNotify, queue, mPaused, rPc, exitPending, flight, tracker>>

\* ... and its end.
CreateDone ==
    /\ aPc = "resume" /\ Waited(TRUE) /\ Checked(TRUE)
    /\ aPc' = "idle" /\ mInterfaceLock' = "free" /\ mPauseStateNotify' = FALSE
    /\ UNCHANGED <<mNeedConfig, mSessionParams, queue, mPaused, mLatestSessionParams, rPc,
                   exitPending, flight, tracker, history>>

\* Faulty variant: streaming is not stopped before the wait.
DisconnectStreaming ==
    /\ Careless \/ ~ParamsPending
    /\ Call(IF mStatus = "ACTIVE" THEN "close" ELSE "join")
    /\ exitPending' = (mStatus # "ACTIVE") /\ BeginWait
    /\ UNCHANGED <<mStatus, mNeedConfig, mSessionParams, mPauseStateNotify, mRequestQueue,
                   mRepeatingRequests, mDoPause, mPaused, mLatestSessionParams, tracker,
                   history>>

\* disconnect(): stop streaming and wait until idle, if the device is not.
Disconnect ==
    /\ Careless \/ ~ParamsPending
    /\ Call(IF mStatus = "ACTIVE" THEN "close" ELSE "join")
    /\ mRepeatingRequests' = IF mStatus \in {"ACTIVE", "ERROR"} THEN None
                             ELSE mRepeatingRequests
    /\ exitPending' = (mStatus # "ACTIVE") /\ BeginWait
    /\ UNCHANGED <<mStatus, mNeedConfig, mSessionParams, mPauseStateNotify, mRequestQueue,
                   mDoPause, mPaused, mLatestSessionParams, tracker, history>>

\* Both threads are asked to exit, and joined without mLock.
DisconnectExit ==
    /\ aPc = "close" /\ Waited(FALSE) /\ Checked(FALSE)
    /\ aPc' = "join" /\ exitPending' = TRUE
    /\ UNCHANGED <<mInterfaceLock, mNeedConfig, mSessionParams, mPauseStateNotify, queue,
                   mPaused, mLatestSessionParams, rPc, flight, tracker, history>>

\* The HAL is closed and what is in flight is returned.  In an error state the
\* request thread is not waited for.
DisconnectDone ==
    /\ aPc = "join" /\ (rPc = "exited" \/ mStatus = "ERROR")
    /\ aPc' = "idle" /\ mInterfaceLock' = "free"
    /\ UpdateStatus("UNINITIALIZED") /\ inFlight' = 0 /\ atHal' = 0
    /\ UNCHANGED <<mNeedConfig, mSessionParams, mPauseStateNotify, queue, thread, tracker,
                   history>>

-------------------------------------------------------------------------------
(* RequestThread::threadLoop().                                            *)

\* waitIfPaused(): paused by request.
WaitPaused ==
    /\ rPc = "top" /\ ~exitPending /\ mDoPause /\ ~mPaused
    /\ mPaused' = TRUE /\ Mark("request", FALSE)
    /\ UNCHANGED <<apiVars, device, queue, mDoPause, mLatestSessionParams, rPc,
                   exitPending, flight, history>>

Unpaused ==
    /\ rPc = "top" /\ ~exitPending /\ ~mDoPause /\ rPc' = "wait"
    /\ UNCHANGED <<apiVars, device, queue, mDoPause, mPaused, mLatestSessionParams,
                   exitPending, flight, tracker, history>>

Exit ==
    /\ rPc = "top" /\ exitPending /\ rPc' = "exited"
    /\ UNCHANGED <<apiVars, device, queue, mDoPause, mPaused, mLatestSessionParams,
                   exitPending, flight, tracker, history>>

\* waitForNextRequestLocked(): nothing to do.
GoIdle ==
    /\ rPc = "wait" /\ mRequestQueue = <<>> /\ mRepeatingRequests = None
    /\ rPc' = "top" /\ mPaused' = TRUE /\ MarkIf(~mPaused, "request", FALSE)
    /\ UNCHANGED <<apiVars, device, queue, mDoPause, mLatestSessionParams, exitPending,
                   flight, history>>

\* ... a request; then updateSessionParameters().
NextRequest ==
    /\ rPc = "wait"
    /\ IF mRequestQueue # <<>>
         THEN mNextRequests' = Head(mRequestQueue) /\ mRequestQueue' = Tail(mRequestQueue)
         ELSE /\ mRepeatingRequests # None
              /\ mNextRequests' = mRepeatingRequests /\ UNCHANGED mRequestQueue
    /\ mPaused' = FALSE /\ MarkIf(mPaused, "request", TRUE)
    /\ mLatestSessionParams' = mNextRequests'
    /\ rPc' = IF mNextRequests' = mLatestSessionParams THEN "prepare" ELSE "notify"
    /\ UNCHANGED <<apiVars, device, mRepeatingRequests, mDoPause, exitPending, flight,
                   history>>

\* Faulty variant: the thread does not report itself idle while it reconfigures.
NotifyUnmarked ==
    /\ rPc = "notify" /\ mInterfaceLock = "free" /\ rPc' = "reconf"
    /\ mPauseStateNotify' = TRUE
    /\ UNCHANGED <<apiVars, mStatus, mRecentStatusUpdates, mNeedConfig, mSessionParams,
                   queue, mDoPause, mPaused, mLatestSessionParams, exitPending, flight,
                   tracker, history>>

\* New parameters: pauseStateNotify(true), which takes mInterfaceLock, and
\* markComponentIdle().
Notify ==
    /\ rPc = "notify" /\ mInterfaceLock = "free" /\ rPc' = "reconf"
    /\ mPauseStateNotify' = TRUE /\ Mark("request", FALSE)
    /\ UNCHANGED <<apiVars, mStatus, mRecentStatusUpdates, mNeedConfig, mSessionParams,
                   queue, mDoPause, mPaused, mLatestSessionParams, exitPending, flight,
                   history>>

\* reconfigureCamera() under mInterfaceLock: internalPauseAndWaitLocked() ...
Reconfigure ==
    /\ rPc = "reconf" /\ mInterfaceLock = "free" /\ mStatus = "ACTIVE"
    /\ rPc' = "reconfWait" /\ mInterfaceLock' = "request" /\ mDoPause' = TRUE /\ BeginWait
    /\ UNCHANGED <<aPc, mStatus, mNeedConfig, mSessionParams, mPauseStateNotify, queue,
                   mPaused, mLatestSessionParams, exitPending, flight, tracker, history>>

\* ... and configureStreamsLocked(), for which "Not idle" is a serious error.
Reconfigured ==
    /\ \/ rPc = "reconfWait" /\ Waited(FALSE)
       \/ rPc = "reconf" /\ mInterfaceLock = "free" /\ mStatus # "ACTIVE"
    /\ rPc' = "unpause" /\ mInterfaceLock' = "free" /\ mDoPause' = TRUE
    /\ IF Configurable /\ Reached(FALSE)
         THEN Configure(mLatestSessionParams) /\ UpdateStatus("ACTIVE")
              /\ mPauseStateNotify' = FALSE
         ELSE /\ mNeedConfig' = (mNeedConfig \/ Reached(FALSE)) /\ ErrorStatus
              /\ UNCHANGED <<mSessionParams, mPauseStateNotify, history>>
    /\ UNCHANGED <<aPc, queue, mPaused, mLatestSessionParams, exitPending, flight, tracker>>

\* Faulty variant: the pause is not taken back.
UnpauseForgotten ==
    /\ rPc = "unpause" /\ rPc' = "prepare" /\ Mark("request", TRUE)
    /\ UNCHANGED <<apiVars, device, queue, mDoPause, mPaused, mLatestSessionParams,
                   exitPending, flight, history>>

\* markComponentActive() and setPaused(false).
Unpause ==
    /\ rPc = "unpause" /\ rPc' = "prepare"
    /\ Mark("request", TRUE) /\ mDoPause' = FALSE
    /\ UNCHANGED <<apiVars, device, queue, mPaused, mLatestSessionParams, exitPending,
                   flight, history>>

\* Faulty variant: the tracker is not told of the first request in flight.
PrepareUnmarked ==
    /\ rPc = "prepare" /\ rPc' = "send" /\ inFlight' = inFlight + 1
    /\ UNCHANGED <<apiVars, device, queue, mDoPause, mPaused, mLatestSessionParams,
                   exitPending, atHal, tracker, history>>

\* prepareHalRequests() and registerInFlight().
Prepare ==
    /\ rPc = "prepare" /\ rPc' = "send" /\ inFlight' = inFlight + 1
    /\ MarkIf(inFlight = 0, "inflight", TRUE)
    /\ UNCHANGED <<apiVars, device, queue, mDoPause, mPaused, mLatestSessionParams,
                   exitPending, atHal, history>>

\* No buffer in time: cleanUpFailedRequests(), and the request is skipped.
PrepareFails ==
    /\ rPc = "prepare" /\ rPc' = "top" /\ mNextRequests' = None
    /\ UNCHANGED <<apiVars, device, mRequestQueue, mRepeatingRequests, mDoPause, mPaused,
                   mLatestSessionParams, exitPending, flight, tracker, history>>

\* sendRequestsOneByOne(): the HAL takes it when it has room.
Send ==
    /\ rPc = "send" /\ mStatus # "UNINITIALIZED" /\ atHal < MaxInFlight /\ rPc' = "top"
    /\ atHal' = atHal + 1 /\ mNextRequests' = None
    /\ UNCHANGED <<apiVars, device, mRequestQueue, mRepeatingRequests, mDoPause, mPaused,
                   mLatestSessionParams, exitPending, inFlight, tracker, history>>

\* A HAL that is closed fails it: cleanUpFailedRequests(), and the thread ends.
SendFails ==
    /\ rPc = "send" /\ mStatus = "UNINITIALIZED" /\ rPc' = "exited"
    /\ mNextRequests' = None /\ inFlight' = 0
    /\ UNCHANGED <<apiVars, device, mRequestQueue, mRepeatingRequests, mDoPause, mPaused,
                   mLatestSessionParams, exitPending, atHal, tracker, history>>

-------------------------------------------------------------------------------
(* The HAL (external) and the status tracker.                              *)

\* Faulty variant: idle is reported although another request is in flight.
ResultIdle ==
    /\ atHal > 0
    /\ atHal' = atHal - 1 /\ inFlight' = inFlight - 1
    /\ Mark("inflight", FALSE)
    /\ UNCHANGED <<apiVars, device, queue, thread, history>>

\* All of a request has come back: removeInFlightMapEntryLocked().
Result ==
    /\ atHal > 0
    /\ atHal' = atHal - 1 /\ inFlight' = inFlight - 1
    /\ MarkIf(inFlight = 1, "inflight", FALSE)
    /\ UNCHANGED <<apiVars, device, queue, thread, history>>

\* The HAL reports a device error: setErrorStateLockedV().
HalError ==
    /\ mStatus \notin {"ERROR", "UNINITIALIZED"} /\ halFailed' = TRUE
    /\ SetError
    /\ UNCHANGED <<apiVars, mNeedConfig, mSessionParams, mPauseStateNotify, queue, mPaused,
                   mLatestSessionParams, rPc, exitPending, flight, tracker, disturbed>>

\* getDeviceStateLocked(): whether something is active.
DeviceState(states) == \E c \in Components : states[c]

\* One pending change, and the transition of the whole if it makes one.
Applied(acc, change) ==
    LET states == [acc.states EXCEPT ![change.id] = change.active] IN
    [states |-> states,
     transitions |-> IF DeviceState(states) = DeviceState(acc.states) THEN acc.transitions
                     ELSE Append(acc.transitions, DeviceState(states))]

\* The states after each of a list of changes.
Collected(states, changes) ==
    LET after[i \in 0..Len(changes)] ==
            IF i = 0 THEN [states |-> states, transitions |-> <<>>]
            ELSE Applied(after[i - 1], changes[i])
    IN  after

\* StatusTracker::threadLoop(): collect what is pending ...
Collect ==
    /\ ~exitPending /\ mStateTransitions = <<>> /\ mPendingChangeQueue # <<>>
    /\ LET all == Collected(mStates, mPendingChangeQueue)[Len(mPendingChangeQueue)] IN
        /\ mStates' = all.states /\ mStateTransitions' = all.transitions
        /\ mDeviceState' = DeviceState(all.states)
    /\ mPendingChangeQueue' = <<>>
    /\ UNCHANGED <<apiVars, device, queue, thread, flight, history>>

\* ... and notifyStatus() of each transition.
NotifyStatus ==
    /\ mStateTransitions # <<>> /\ mStateTransitions' = Tail(mStateTransitions)
    /\ IF mStatus \in {"ACTIVE", "CONFIGURED"}
         THEN UpdateStatus(IF Head(mStateTransitions) THEN "ACTIVE" ELSE "CONFIGURED")
         ELSE UNCHANGED <<mStatus, mRecentStatusUpdates>>
    /\ UNCHANGED <<apiVars, mNeedConfig, mSessionParams, mPauseStateNotify, queue, thread,
                   flight, mStates, mPendingChangeQueue, mDeviceState, history>>

-------------------------------------------------------------------------------
Api ==
    \/ \E p \in Params, r \in BOOLEAN : Submit(p, r)
    \/ ClearStreaming \/ Flush \/ (\E p \in Params : ConfigureStreams(p))
    \/ DeleteStream \/ Drain \/ CreateStream \/ CreatePause \/ Disconnect
ApiReturns == \/ SubmitDone \/ DrainDone \/ CreateConfigure \/ CreateDone
              \/ DisconnectExit \/ DisconnectDone
RequestThread == \/ WaitPaused \/ Unpaused \/ Exit \/ GoIdle \/ NextRequest \/ Notify
                 \/ Reconfigure \/ Reconfigured \/ Unpause \/ Prepare \/ PrepareFails
                 \/ Send \/ SendFails
Tracker == Collect \/ NotifyStatus

Next == Api \/ ApiReturns \/ RequestThread \/ Tracker \/ Result \/ HalError

\* Threads run on, the HAL ends what it has, and a thread that keeps asking for
\* mInterfaceLock gets it.
Fairness ==
    /\ WF_vars(ApiReturns) /\ WF_vars(RequestThread) /\ WF_vars(Tracker)
    /\ WF_vars(Result) /\ SF_vars(Notify \/ Reconfigure \/ Reconfigured)

Spec == Init /\ [][Next]_vars /\ Fairness

-------------------------------------------------------------------------------
(* Properties.                                                             *)

Changes == [id : Components, active : BOOLEAN]

CallTypes ==
    /\ mInterfaceLock \in {"free", "api", "request"}
    /\ aPc \in {"idle", "submit", "drain", "drained", "pause", "resume", "close", "join"}
    /\ mStatus \in {"UNCONFIGURED", "CONFIGURED", "ACTIVE", "ERROR", "UNINITIALIZED"}
    /\ mRecentStatusUpdates \in SUBSET BOOLEAN /\ mNeedConfig \in BOOLEAN
    /\ mSessionParams \in Params /\ mPauseStateNotify \in BOOLEAN

ThreadTypes ==
    /\ mRequestQueue \in Seq(Params) /\ Len(mRequestQueue) <= MaxQueue
    /\ mRepeatingRequests \in Params \cup {None} /\ mNextRequests \in Params \cup {None}
    /\ mDoPause \in BOOLEAN /\ mPaused \in BOOLEAN /\ exitPending \in BOOLEAN
    /\ mLatestSessionParams \in Params
    /\ rPc \in {"top", "wait", "notify", "reconf", "reconfWait", "unpause", "prepare", "send",
                "exited"}

TrackerTypes ==
    /\ inFlight \in 0..(MaxInFlight + 1) /\ atHal \in 0..MaxInFlight
    /\ mStates \in [Components -> BOOLEAN] /\ mDeviceState \in BOOLEAN
    /\ mPendingChangeQueue \in Seq(Changes) /\ mStateTransitions \in Seq(BOOLEAN)
    /\ halFailed \in BOOLEAN /\ disturbed \in BOOLEAN

TypeOK == CallTypes /\ ThreadTypes /\ TrackerTypes

\* The HAL is not configured while requests are in flight, whoever configures it:
\* a call, or the request thread for new session parameters.  Every variable has
\* its type.
ConfiguredIdle == TypeOK /\ ~disturbed

\* waitUntilDrained() returns when nothing is in flight ("check with tracker to be
\* sure").
DrainedMeansIdle ==
    [][aPc' = "drained" /\ aPc # "drained" => inFlight = 0 \/ mStatus = "ERROR"]_vars

\* There is no serious error that the HAL did not report.
NoOwnError == mStatus = "ERROR" => halFailed

\* Every call returns.
CallsReturn == (aPc \notin Returned) ~> (aPc \in Returned)

\* A request that was queued is taken, unless it is flushed or the device fails.
RequestsTaken ==
    mRequestQueue # <<>> ~> (mRequestQueue = <<>> \/ exitPending \/ mStatus = "ERROR")
===============================================================================
