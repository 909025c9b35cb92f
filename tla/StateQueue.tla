------------------------------ MODULE StateQueue ------------------------------
(***************************************************************************)
(* StateQueue<T> (services/audioflinger/StateQueue.cpp): a ring of kN      *)
(* states between one mutator and one observer.  The mutator changes the   *)
(* state at mMutating in place, publishes it in mNext, and goes on with a  *)
(* copy in the next slot; the observer reads the state it polled last and  *)
(* the one before it, through raw pointers and without a lock.             *)
(*                                                                         *)
(* push() is split where it waits: Publish, then AwaitAck.  poll() is      *)
(* split between its load of mNext (PollLoad) and its store to mAck        *)
(* (PollAck).  A pointer into mStates is an index 0..kN-1; Null is NULL.   *)
(***************************************************************************)
EXTENDS Integers

CONSTANTS kN,       \* slots; "values < 4 are not supported by this code"
          NoState   \* the contents of a slot that was never written

ASSUME SlotsAssumption == kN \in Nat /\ kN >= 4

VARIABLES
  mStates,      \* the ring
  mNext,        \* written by the mutator, read by the observer
  mAck,         \* written by the observer, read by the mutator
  mMutating,    \* where the mutator writes
  mExpecting,   \* what the mutator expects mAck to become
  mIsDirty,     \* changed since the last push
  mCurrent,     \* observer: what poll() returned last
  polled        \* observer: local next of poll()

ring    == <<mStates, mNext, mMutating, mExpecting, mIsDirty>>
polling == <<mAck, mCurrent, polled>>

Null  == -1
Slots == 0 .. kN - 1

QueueTypeOK(State) ==
    /\ mStates \in [Slots -> State \cup {NoState}]
    /\ mNext \in Slots \cup {Null} /\ mAck \in Slots \cup {Null}
    /\ mCurrent \in Slots \cup {Null} /\ polled \in Slots \cup {Null}
    /\ mMutating \in Slots /\ mExpecting \in Slots \cup {Null}
    /\ mIsDirty \in BOOLEAN

-------------------------------------------------------------------------------
(* The mutator.                                                            *)

\* begin(), the caller's changes, end(true).
Mutate(state) ==
    /\ mStates' = [mStates EXCEPT ![mMutating] = state]
    /\ mIsDirty' = TRUE
    /\ UNCHANGED <<mNext, mMutating, mExpecting>>

\* begin(), end(false).
Inspect == UNCHANGED ring

Following(i) == (i + 1) % kN

\* The prior push has been acknowledged.
PriorAcked == mExpecting = Null \/ mAck = mExpecting

\* push() of a dirty state, once the prior one is acknowledged.
Publish ==
    /\ mIsDirty /\ PriorAcked
    /\ mNext' = mMutating
    /\ mExpecting' = mMutating
    /\ mMutating' = Following(mMutating)
    /\ mStates' = [mStates EXCEPT ![Following(mMutating)] = mStates[mMutating]]
    /\ mIsDirty' = FALSE

\* push(BLOCK_NEVER) of a dirty state that would have to wait: it stays dirty.
GiveUp == mIsDirty /\ ~PriorAcked /\ UNCHANGED ring

\* push() with nothing to push.
NothingToPush == ~mIsDirty /\ UNCHANGED ring

\* The second half of push(BLOCK_UNTIL_ACKED).
AwaitAck ==
    /\ ~mIsDirty /\ PriorAcked
    /\ mExpecting' = Null
    /\ UNCHANGED <<mStates, mNext, mMutating, mIsDirty>>

-------------------------------------------------------------------------------
(* The observer.                                                           *)

PollLoad ==
    /\ polled' = mNext
    /\ UNCHANGED <<mAck, mCurrent>>

PollAck ==
    /\ mAck' = IF polled # mCurrent THEN polled ELSE mAck
    /\ mCurrent' = polled
    /\ UNCHANGED polled
===============================================================================
