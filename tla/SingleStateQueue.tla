--------------------------- MODULE SingleStateQueue ---------------------------
(***************************************************************************)
(* SingleStateQueue<T> (media/libmedia/include/media/SingleStateQueue.h):  *)
(* a sequence lock without a lock.  The Mutator makes the shared sequence  *)
(* odd, stores the words of the value, and makes it even again; the        *)
(* Observer copies the words and keeps the copy only if the sequence was   *)
(* the same even number before and after.  Each access to shared memory is *)
(* a step, and the words of a value are stored and loaded in any order.    *)
(*                                                                         *)
(* The value of the n-th push is the number n in every word, so that a     *)
(* copy made of the words of two pushes is visible.  Sequence numbers are  *)
(* int32_t in the code and wrap; here they are 0..SeqMod-1.                *)
(***************************************************************************)
EXTENDS Integers, FiniteSets

CONSTANTS Words,    \* the words of a value of type T
          SeqMod,   \* the sequence numbers wrap here (2^32 in the code)
          MaxTries, \* MAX_TRIES of Observer::poll
          MaxPush   \* bound on the number of pushes

ASSUME WordsAssumption == Words # {} /\ IsFiniteSet(Words)
ASSUME SeqModAssumption == SeqMod \in Nat /\ SeqMod > 2 /\ SeqMod % 2 = 0
ASSUME BoundsAssumption == MaxTries \in Nat \ {0} /\ MaxPush \in Nat

VARIABLES
  sSequence, sAck, sValue,  \* Shared: mSequence, mAck and the words of mValue
  mSequence,                \* Mutator::mSequence
  mLeft,                    \* words push() has still to store
  mBusy,                    \* push() is between its two sequence stores
  pushed,                   \* history: number of pushes begun
  oPc,                      \* where the Observer is
  oSequence,                \* Observer::mSequence
  oBefore, oTemp, oTries,   \* locals before, temp and tries of poll()
  oLeft,                    \* words poll() has still to load
  oValue,                   \* the value the last successful poll() returned
  oBeforeAt, oSequenceAt    \* history: Stores when before, and when mSequence, was loaded

shared   == <<sSequence, sAck, sValue>>
mutator  == <<mSequence, mLeft, mBusy, pushed>>
observer == <<oPc, oSequence, oBefore, oTemp, oTries, oLeft, oValue,
              oBeforeAt, oSequenceAt>>
vars     == <<shared, mutator, observer>>

Pc == {"idle",     \* not in poll(), and nothing to acknowledge
       "polled",   \* poll() returned true and done() has not been called
       "loop",     \* in the for loop of poll()
       "accept"}   \* after = before: about to store mAck

Odd(s) == s % 2 = 1

\* s++ on a sequence number.
Inc(s) == IF s + 1 = SeqMod THEN 0 ELSE s + 1

\* The sequence number n stores after s, for n below SeqMod.
Plus(s, n) == IF s + n < SeqMod THEN s + n ELSE s + n - SeqMod

\* How often the shared sequence has been stored.
Stores == IF mBusy THEN 2 * pushed - 1 ELSE 2 * pushed

Whole(n) == [w \in Words |-> n]

Init ==
    /\ sSequence = 0 /\ sAck = 0 /\ sValue = Whole(0)
    /\ mSequence = 0 /\ mLeft = {} /\ mBusy = FALSE /\ pushed = 0
    /\ oPc = "idle" /\ oSequence = 0
    /\ oBefore = 0 /\ oTemp = Whole(0) /\ oTries = 0 /\ oLeft = {}
    /\ oValue = Whole(0) /\ oBeforeAt = 0 /\ oSequenceAt = 0

-------------------------------------------------------------------------------
(* The Mutator.                                                            *)

\* Sequence numbers are compared for equality only, so an Observer that slept
\* through exactly SeqMod stores would take the last of them for the first: it
\* is taken to complete a poll before that (2^31 pushes in the code).
NoFullWrap == Stores - oSequenceAt < SeqMod - 2

\* Faulty variant: push() leaves the sequence alone until the value is stored.
PushBeginSilent ==
    /\ ~mBusy /\ pushed < MaxPush /\ NoFullWrap
    /\ mBusy' = TRUE
    /\ mLeft' = Words
    /\ pushed' = pushed + 1
    /\ UNCHANGED <<sSequence, mSequence, sAck, sValue, observer>>

PushBegin ==
    /\ ~mBusy /\ pushed < MaxPush /\ NoFullWrap
    /\ sSequence' = Inc(mSequence)
    /\ mBusy' = TRUE
    /\ mLeft' = Words
    /\ pushed' = pushed + 1
    /\ UNCHANGED <<mSequence, sAck, sValue, observer>>

PushWord(w) ==
    /\ w \in mLeft
    /\ sValue' = [sValue EXCEPT ![w] = pushed]
    /\ mLeft' = mLeft \ {w}
    /\ UNCHANGED <<sSequence, sAck, mSequence, mBusy, pushed, observer>>

PushEnd ==
    /\ mBusy /\ mLeft = {}
    /\ sSequence' = Inc(Inc(mSequence))
    /\ mSequence' = Inc(Inc(mSequence))
    /\ mBusy' = FALSE
    /\ UNCHANGED <<sAck, sValue, mLeft, pushed, observer>>

\* Faulty variant: done() of any earlier push is taken for done() of the last.
AckAny == IF Odd(sAck) THEN "SSQ_DONE" ELSE "SSQ_READ"

\* Mutator::ack(), which the writer may call between two pushes.
Ack ==
    IF sAck \notin {mSequence, Inc(mSequence)} THEN "SSQ_PENDING"
    ELSE IF Odd(sAck) THEN "SSQ_DONE" ELSE "SSQ_READ"

-------------------------------------------------------------------------------
(* The Observer.                                                           *)

\* Faulty variant: a new value is recognised by a larger sequence number.
PollStartOrdered ==
    /\ oPc \in {"idle", "polled"}
    /\ sSequence > oSequence
    /\ oBefore' = sSequence
    /\ oBeforeAt' = Stores
    /\ oTries' = 0
    /\ oLeft' = Words
    /\ oPc' = "loop"
    /\ UNCHANGED <<shared, mutator, oSequence, oSequenceAt, oTemp, oValue>>

PollStart ==
    /\ oPc \in {"idle", "polled"}
    /\ sSequence # oSequence
    /\ oBefore' = sSequence
    /\ oBeforeAt' = Stores
    /\ oTries' = 0
    /\ oLeft' = Words
    /\ oPc' = "loop"
    /\ UNCHANGED <<shared, mutator, oSequence, oSequenceAt, oTemp, oValue>>

\* poll() returns false: no push since the last value it returned.
PollUnchanged ==
    /\ oPc \in {"idle", "polled"}
    /\ sSequence = oSequence
    /\ oPc' = "idle"
    /\ UNCHANGED <<shared, mutator, oSequence, oBefore, oTemp, oTries, oLeft,
                   oValue, oBeforeAt, oSequenceAt>>

\* The sequence was odd or has moved: look again, or return false after MaxTries.
TryAgain ==
    \/ /\ oTries + 1 >= MaxTries
       /\ oPc' = "idle" /\ oTries' = 0 /\ oLeft' = {}
       /\ UNCHANGED <<oBefore, oBeforeAt>>
    \/ /\ oTries + 1 < MaxTries
       /\ oPc' = "loop" /\ oTries' = oTries + 1 /\ oLeft' = Words
       /\ oBefore' = sSequence
       /\ oBeforeAt' = Stores

PollOdd ==
    /\ oPc = "loop" /\ Odd(oBefore)
    /\ TryAgain
    /\ UNCHANGED <<shared, mutator, oSequence, oSequenceAt, oTemp, oValue>>

PollWord(w) ==
    /\ oPc = "loop" /\ ~Odd(oBefore) /\ w \in oLeft
    /\ oTemp' = [oTemp EXCEPT ![w] = sValue[w]]
    /\ oLeft' = oLeft \ {w}
    /\ UNCHANGED <<shared, mutator, oPc, oSequence, oBefore, oTries, oValue,
                   oBeforeAt, oSequenceAt>>

\* Faulty variant: the sequence is not compared with its value before the copy.
PollAfterUnchecked ==
    /\ oPc = "loop" /\ ~Odd(oBefore) /\ oLeft = {}
    /\ oPc' = "accept"
    /\ UNCHANGED <<shared, mutator, oSequence, oSequenceAt, oTemp, oValue,
                   oBefore, oBeforeAt, oTries, oLeft>>

\* The second load of the sequence, and what depends on it.
PollAfter ==
    /\ oPc = "loop" /\ ~Odd(oBefore) /\ oLeft = {}
    /\ \/ /\ sSequence = oBefore
          /\ oPc' = "accept"
          /\ UNCHANGED <<oBefore, oBeforeAt, oTries, oLeft>>
       \/ sSequence # oBefore /\ TryAgain
    /\ UNCHANGED <<shared, mutator, oSequence, oSequenceAt, oTemp, oValue>>

\* Faulty variant: the Observer forgets which sequence it has read.
PollAcceptForgets ==
    /\ oPc = "accept"
    /\ oValue' = oTemp
    /\ sAck' = oBefore
    /\ oPc' = "polled"
    /\ UNCHANGED <<oSequence, oSequenceAt, sSequence, sValue, mutator, oBefore,
                   oTemp, oTries, oLeft, oBeforeAt>>

PollAccept ==
    /\ oPc = "accept"
    /\ oValue' = oTemp
    /\ sAck' = oBefore
    /\ oSequence' = oBefore
    /\ oSequenceAt' = oBeforeAt
    /\ oPc' = "polled"
    /\ UNCHANGED <<sSequence, sValue, mutator, oBefore, oTemp, oTries, oLeft, oBeforeAt>>

\* done(), called at most once for each value that poll() returned.
Done ==
    /\ oPc = "polled"
    /\ sAck' = Inc(sAck)
    /\ oPc' = "idle"
    /\ UNCHANGED <<sSequence, sValue, mutator, oSequence, oBefore, oTemp,
                   oTries, oLeft, oValue, oBeforeAt, oSequenceAt>>

-------------------------------------------------------------------------------
Push == PushBegin \/ (\E w \in Words : PushWord(w)) \/ PushEnd

Poll ==
    \/ PollStart \/ PollUnchanged \/ PollOdd \/ PollAfter \/ PollAccept
    \/ \E w \in Words : PollWord(w)

Next == Push \/ Poll \/ Done

Spec == Init /\ [][Next]_vars

\* The Mutator finishes a push that it has begun; the Observer polls for ever
\* (every mixer cycle, every getTimestamp()).
FairSpec ==
    /\ Spec
    /\ WF_vars(PushEnd) /\ \A w \in Words : WF_vars(PushWord(w))
    /\ WF_vars(Poll)

-------------------------------------------------------------------------------
(* Properties.                                                             *)

SeqNo == 0..SeqMod - 1

\* Every variable has its type.
TypeOK ==
    /\ sSequence \in SeqNo /\ sAck \in SeqNo /\ sValue \in [Words -> 0..MaxPush]
    /\ mSequence \in SeqNo /\ mLeft \subseteq Words
    /\ mBusy \in BOOLEAN /\ pushed \in 0..MaxPush
    /\ oPc \in Pc /\ oSequence \in SeqNo
    /\ oBefore \in SeqNo /\ oTemp \in [Words -> 0..MaxPush]
    /\ oTries \in 0..MaxTries - 1 /\ oLeft \subseteq Words
    /\ oValue \in [Words -> 0..MaxPush]
    /\ oBeforeAt \in Nat /\ oSequenceAt \in Nat

\* A value that poll() returned is the whole value of one push, the one that
\* left the sequence number poll() recorded (SingleStateQueue.h:135, the test
\* "after == before"): never the words of two pushes.
NoTornRead == \A w \in Words : 2 * oValue[w] = oSequenceAt

\* ack() is not stale in the dangerous direction (SingleStateQueue.h:91): when
\* it says that the last push has been acted upon, the Observer holds exactly
\* that value and has called done().
AckIsTrue ==
    ~mBusy => /\ Ack # "SSQ_PENDING" => oValue = Whole(pushed)
              /\ Ack = "SSQ_DONE" => oPc # "polled"

\* Once the Mutator has made its last push, polling finds its value: MaxTries
\* failures end a poll() and not the exchange.
LastValueSeen == (pushed = MaxPush) ~> (oValue = Whole(MaxPush))

\* The inductive invariant behind the three above.

\* What the Mutator has stored, at each point of push().
MutatorInv ==
    /\ ~Odd(mSequence)
    /\ mBusy => /\ pushed > 0
                /\ sSequence = Inc(mSequence)
                /\ \A w \in Words : sValue[w] = IF w \in mLeft THEN pushed - 1 ELSE pushed
    /\ ~mBusy => /\ sSequence = mSequence
                 /\ mLeft = {}
                 /\ \A w \in Words : sValue[w] = pushed

\* A sequence number and the number of stores when it was loaded say the same.
ClockInv ==
    /\ oSequenceAt <= oBeforeAt /\ oBeforeAt <= Stores
    /\ Stores - oSequenceAt < IF mBusy THEN SeqMod - 1 ELSE SeqMod
    /\ sSequence = Plus(oSequence, Stores - oSequenceAt)
    /\ sSequence = Plus(oBefore, Stores - oBeforeAt)
    /\ ~Odd(oSequence)
    /\ Odd(oBefore) <=> Odd(oBeforeAt)
    /\ oPc \in {"loop", "accept"} => oSequenceAt < oBeforeAt

\* The words copied so far are those of one push unless the sequence has moved.
CopyInv ==
    /\ oPc = "loop" /\ Stores = oBeforeAt /\ ~Odd(oBefore) =>
         \A w \in Words \ oLeft : 2 * oTemp[w] = oBeforeAt
    /\ oPc = "accept" => ~Odd(oBefore) /\ \A w \in Words : 2 * oTemp[w] = oBeforeAt

\* mAck is the sequence number last accepted, or one more once done() is called.
AckInv ==
    /\ sAck \in {oSequence, Inc(oSequence)}
    /\ oPc = "polled" => sAck = oSequence

IInv == TypeOK /\ MutatorInv /\ ClockInv /\ CopyInv /\ AckInv /\ NoTornRead

\* The seqlock implements the atomic cell: a push takes effect when it stores
\* the even sequence number, a poll when it has loaded that number twice.
Cell == INSTANCE AtomicCell WITH
          cell <- IF mBusy THEN pushed - 1 ELSE pushed,
          seen <- IF oPc = "accept" THEN oBeforeAt \div 2 ELSE oSequenceAt \div 2,
          done <- oPc # "accept" /\ Odd(sAck)

ImplementsCell == Cell!Spec
===============================================================================
