------------------------ MODULE SingleStateQueueProofs ------------------------
(***************************************************************************)
(* For any number of words, any even modulus of the sequence numbers and   *)
(* any bound on the tries of a poll, SingleStateQueue never returns a torn *)
(* value, its ack() is true, and it implements AtomicCell.                 *)
(***************************************************************************)
EXTENDS SingleStateQueue, TLAPS

USE SeqModAssumption, BoundsAssumption DEF SeqNo

\* Two consecutive sequence stores make an even sequence number odd, and even again.
LEMMA IncParity ==
    ASSUME NEW s \in SeqNo
    PROVE  /\ Inc(s) \in SeqNo
           /\ Odd(Inc(s)) <=> ~Odd(s)
           /\ Inc(s) = Plus(s, 1)
           /\ s = Plus(s, 0)
  BY DEF Inc, Odd, Plus

\* The distance between two sequence numbers is known while it is below SeqMod.
LEMMA PlusSteps ==
    ASSUME NEW s \in SeqNo, NEW n \in Nat, n < SeqMod
    PROVE  /\ Plus(s, n) \in SeqNo
           /\ Plus(s, n) = s => n = 0
           /\ n + 1 < SeqMod => Plus(s, n + 1) = Inc(Plus(s, n))
  BY DEF Inc, Plus

LEMMA InitIInv == Init => IInv
  <1> SUFFICES ASSUME Init PROVE IInv
    OBVIOUS
  <1> USE DEF Init, Whole
  <1>1. TypeOK
    <2>1. 0 \in SeqNo /\ 0 \in 0..MaxPush /\ 0 \in 0..MaxTries - 1
      OBVIOUS
    <2> QED BY <2>1 DEF TypeOK, Pc
  <1>2. MutatorInv /\ NoTornRead /\ AckInv
    BY DEF MutatorInv, NoTornRead, AckInv, Odd
  <1>3. Stores = 0
    BY DEF Stores
  <1>4. ClockInv /\ CopyInv
    BY <1>3 DEF ClockInv, CopyInv, Plus, Odd
  <1> QED BY <1>1, <1>2, <1>4 DEF IInv

\* The Mutator's first sequence store.
LEMMA PushBeginIInv == IInv /\ PushBegin => IInv'
  <1> SUFFICES ASSUME IInv, PushBegin PROVE IInv'
    OBVIOUS
  <1> USE DEF IInv, PushBegin, observer
  <1>1. TypeOK'
    BY IncParity DEF TypeOK
  <1>2. MutatorInv'
    BY DEF TypeOK, MutatorInv
  <1>3. Stores' = Stores + 1 /\ Stores \in Nat
    BY DEF Stores, TypeOK, MutatorInv
  <1>4. sSequence' = Inc(sSequence)
    BY DEF MutatorInv
  <1>5. ClockInv'
    <2>1. /\ Stores - oSequenceAt \in Nat /\ Stores - oSequenceAt + 1 < SeqMod
          /\ Stores - oBeforeAt \in Nat /\ Stores - oBeforeAt + 1 < SeqMod
      BY <1>3 DEF ClockInv, TypeOK, NoFullWrap
    <2>2. sSequence' = Plus(oSequence, Stores - oSequenceAt + 1)
      BY <1>3, <1>4, <2>1, PlusSteps DEF ClockInv, TypeOK
    <2>3. sSequence' = Plus(oBefore, Stores - oBeforeAt + 1)
      BY <1>3, <1>4, <2>1, PlusSteps DEF ClockInv, TypeOK
    <2>4. /\ Stores - oSequenceAt + 1 = Stores' - oSequenceAt
          /\ Stores - oBeforeAt + 1 = Stores' - oBeforeAt
      BY <1>3 DEF TypeOK
    <2> QED BY <1>3, <2>1, <2>2, <2>3, <2>4 DEF ClockInv, TypeOK, NoFullWrap
  <1>6. CopyInv' /\ AckInv' /\ NoTornRead'
    BY <1>3 DEF CopyInv, AckInv, NoTornRead, ClockInv, TypeOK
  <1> QED BY <1>1, <1>2, <1>5, <1>6

\* The Mutator's second sequence store.
LEMMA PushEndIInv == IInv /\ PushEnd => IInv'
  <1> SUFFICES ASSUME IInv, PushEnd PROVE IInv'
    OBVIOUS
  <1> USE DEF IInv, PushEnd, observer
  <1>1. TypeOK'
    BY IncParity DEF TypeOK
  <1>2. MutatorInv'
    BY IncParity DEF TypeOK, MutatorInv
  <1>3. Stores' = Stores + 1 /\ Stores \in Nat
    BY DEF Stores, TypeOK, MutatorInv
  <1>4. sSequence' = Inc(sSequence)
    BY DEF MutatorInv
  <1>5. ClockInv'
    <2>1. /\ Stores - oSequenceAt \in Nat /\ Stores - oSequenceAt + 1 < SeqMod
          /\ Stores - oBeforeAt \in Nat /\ Stores - oBeforeAt + 1 < SeqMod
      BY <1>3 DEF ClockInv, TypeOK, NoFullWrap
    <2>2. sSequence' = Plus(oSequence, Stores - oSequenceAt + 1)
      BY <1>3, <1>4, <2>1, PlusSteps DEF ClockInv, TypeOK
    <2>3. sSequence' = Plus(oBefore, Stores - oBeforeAt + 1)
      BY <1>3, <1>4, <2>1, PlusSteps DEF ClockInv, TypeOK
    <2>4. /\ Stores - oSequenceAt + 1 = Stores' - oSequenceAt
          /\ Stores - oBeforeAt + 1 = Stores' - oBeforeAt
      BY <1>3 DEF TypeOK
    <2> QED BY <1>3, <2>1, <2>2, <2>3, <2>4 DEF ClockInv, TypeOK
  <1>6. CopyInv' /\ AckInv' /\ NoTornRead'
    BY <1>3 DEF CopyInv, AckInv, NoTornRead, ClockInv, TypeOK
  <1> QED BY <1>1, <1>2, <1>5, <1>6

\* The Mutator stores one word.
LEMMA PushWordIInv == ASSUME NEW w \in Words PROVE IInv /\ PushWord(w) => IInv'
  <1> SUFFICES ASSUME IInv, PushWord(w) PROVE IInv'
    OBVIOUS
  <1> USE DEF IInv, PushWord, observer
  <1>1. TypeOK'
    BY DEF TypeOK
  <1>2. MutatorInv'
    BY DEF TypeOK, MutatorInv
  <1>3. Stores' = Stores
    BY DEF Stores
  <1>4. ClockInv' /\ CopyInv' /\ AckInv' /\ NoTornRead'
    BY <1>3 DEF ClockInv, CopyInv, AckInv, NoTornRead
  <1> QED BY <1>1, <1>2, <1>4

\* The Observer loads a sequence number and starts copying.
LEMMA PollStartIInv == IInv /\ PollStart => IInv'
  <1> SUFFICES ASSUME IInv, PollStart PROVE IInv'
    OBVIOUS
  <1> USE DEF IInv, PollStart, shared, mutator
  <1>1. Stores' = Stores /\ Stores \in Nat
    BY DEF Stores, TypeOK, MutatorInv
  <1>2. TypeOK'
    BY <1>1 DEF TypeOK, Pc
  <1>3. MutatorInv'
    BY DEF MutatorInv
  <1>4. Odd(sSequence) <=> Odd(Stores)
    BY IncParity DEF MutatorInv, TypeOK, Stores, Odd
  <1>5. oSequenceAt < Stores
    <2>1. Stores = oSequenceAt => sSequence = Plus(oSequence, 0)
      BY <1>1 DEF ClockInv, TypeOK
    <2> QED BY <1>1, <2>1, IncParity DEF ClockInv, TypeOK
  <1>6. ClockInv'
    BY <1>1, <1>4, <1>5, IncParity DEF ClockInv, TypeOK
  <1>7. CopyInv' /\ AckInv' /\ NoTornRead'
    BY DEF CopyInv, AckInv, NoTornRead, TypeOK
  <1> QED BY <1>2, <1>3, <1>6, <1>7

\* The Observer looks again, or gives up.
LEMMA TryAgainIInv ==
    IInv /\ oPc = "loop" /\ TryAgain
         /\ UNCHANGED <<shared, mutator, oSequence, oSequenceAt, oTemp, oValue>> => IInv'
  <1> SUFFICES ASSUME IInv, oPc = "loop", TryAgain,
                      UNCHANGED <<shared, mutator, oSequence, oSequenceAt, oTemp, oValue>>
               PROVE  IInv'
    OBVIOUS
  <1> USE DEF IInv, TryAgain, shared, mutator
  <1>1. Stores' = Stores /\ Stores \in Nat
    BY DEF Stores, TypeOK, MutatorInv
  <1>2. TypeOK'
    BY <1>1 DEF TypeOK, Pc
  <1>3. MutatorInv'
    BY DEF MutatorInv
  <1>4. Odd(sSequence) <=> Odd(Stores)
    BY IncParity DEF MutatorInv, TypeOK, Stores, Odd
  <1>5. ClockInv'
    BY <1>1, <1>4, IncParity DEF ClockInv, TypeOK
  <1>6. CopyInv' /\ AckInv' /\ NoTornRead'
    BY DEF CopyInv, AckInv, NoTornRead, TypeOK
  <1> QED BY <1>2, <1>3, <1>5, <1>6

\* The Observer copies one word: if no store has intervened, it is a word of
\* the push that before belongs to.
LEMMA PollWordIInv == ASSUME NEW w \in Words PROVE IInv /\ PollWord(w) => IInv'
  <1> SUFFICES ASSUME IInv, PollWord(w) PROVE IInv'
    OBVIOUS
  <1> USE DEF IInv, PollWord, shared, mutator
  <1>1. Stores' = Stores
    BY DEF Stores
  <1>2. TypeOK' /\ MutatorInv' /\ ClockInv' /\ AckInv' /\ NoTornRead'
    BY <1>1 DEF TypeOK, MutatorInv, ClockInv, AckInv, NoTornRead
  <1>3. Stores = oBeforeAt => 2 * sValue[w] = oBeforeAt
    BY DEF Stores, MutatorInv, ClockInv, TypeOK, Odd
  <1>4. CopyInv'
    BY <1>1, <1>3 DEF CopyInv, TypeOK
  <1> QED BY <1>2, <1>4

\* Equal sequence numbers before and after the copy mean no store in between.
LEMMA PollAcceptedIInv ==
    /\ IInv /\ oPc = "loop" /\ ~Odd(oBefore) /\ oLeft = {}
    /\ sSequence = oBefore /\ oPc' = "accept"
    /\ UNCHANGED <<oBefore, oBeforeAt, oTries, oLeft>>
    /\ UNCHANGED <<shared, mutator, oSequence, oSequenceAt, oTemp, oValue>>
    => IInv' /\ Stores = oBeforeAt
  <1> SUFFICES ASSUME IInv, oPc = "loop", ~Odd(oBefore), oLeft = {},
                      sSequence = oBefore, oPc' = "accept",
                      UNCHANGED <<oBefore, oBeforeAt, oTries, oLeft>>,
                      UNCHANGED <<shared, mutator, oSequence, oSequenceAt, oTemp, oValue>>
               PROVE  IInv' /\ Stores = oBeforeAt
    OBVIOUS
  <1> USE DEF IInv, shared, mutator
  <1>1. Stores' = Stores /\ Stores \in Nat
    BY DEF Stores, TypeOK, MutatorInv
  <1>2. Stores = oBeforeAt
    <2>1. Stores - oBeforeAt \in Nat /\ Stores - oBeforeAt < SeqMod
      BY <1>1 DEF ClockInv, TypeOK
    <2>2. Plus(oBefore, Stores - oBeforeAt) = oBefore
      BY DEF ClockInv
    <2> QED BY <1>1, <2>1, <2>2, PlusSteps DEF TypeOK
  <1>3. TypeOK' /\ MutatorInv' /\ AckInv' /\ NoTornRead'
    BY DEF TypeOK, MutatorInv, AckInv, NoTornRead, Pc
  <1>4. ClockInv' /\ CopyInv'
    BY <1>1, <1>2 DEF ClockInv, CopyInv
  <1> QED BY <1>2, <1>3, <1>4

LEMMA PollAcceptIInv == IInv /\ PollAccept => IInv'
  <1> SUFFICES ASSUME IInv, PollAccept PROVE IInv'
    OBVIOUS
  <1> USE DEF IInv, PollAccept, mutator
  <1>1. Stores' = Stores /\ Stores \in Nat
    BY DEF Stores, TypeOK, MutatorInv
  <1>2. TypeOK' /\ MutatorInv' /\ CopyInv' /\ AckInv'
    BY DEF TypeOK, MutatorInv, CopyInv, AckInv, Pc
  <1>3. NoTornRead'
    BY DEF CopyInv, NoTornRead
  <1>4. ClockInv'
    BY <1>1 DEF ClockInv, CopyInv, TypeOK
  <1> QED BY <1>2, <1>3, <1>4

LEMMA DoneIInv == IInv /\ Done => IInv'
  <1> SUFFICES ASSUME IInv, Done PROVE IInv'
    OBVIOUS
  <1> USE DEF IInv, Done, mutator
  <1>1. Stores' = Stores
    BY DEF Stores
  <1>2. TypeOK'
    BY IncParity DEF TypeOK, Pc
  <1>3. MutatorInv' /\ ClockInv' /\ CopyInv' /\ AckInv' /\ NoTornRead'
    BY <1>1 DEF MutatorInv, ClockInv, CopyInv, AckInv, NoTornRead
  <1> QED BY <1>2, <1>3

LEMMA PollUnchangedIInv == IInv /\ PollUnchanged => IInv'
  <1> SUFFICES ASSUME IInv, PollUnchanged PROVE IInv'
    OBVIOUS
  <1> USE DEF IInv, PollUnchanged, mutator, shared
  <1>1. Stores' = Stores
    BY DEF Stores
  <1> QED
    BY <1>1 DEF TypeOK, MutatorInv, ClockInv, CopyInv, AckInv, NoTornRead, Pc

LEMMA NextIInv == IInv /\ [Next]_vars => IInv'
  <1> SUFFICES ASSUME IInv, [Next]_vars PROVE IInv'
    OBVIOUS
  <1>1. CASE Push
    BY <1>1, PushBeginIInv, PushEndIInv, PushWordIInv DEF Push
  <1>2. CASE PollOdd
    BY <1>2, TryAgainIInv DEF PollOdd
  <1>3. CASE PollAfter
    BY <1>3, TryAgainIInv, PollAcceptedIInv DEF PollAfter
  <1>4. CASE PollStart \/ PollUnchanged \/ PollAccept \/ Done
    BY <1>4, PollStartIInv, PollUnchangedIInv, PollAcceptIInv, DoneIInv
  <1>5. CASE \E w \in Words : PollWord(w)
    BY <1>5, PollWordIInv
  <1>6. CASE UNCHANGED vars
    <2>1. Stores' = Stores
      BY <1>6 DEF Stores, vars, mutator
    <2> QED
      BY <1>6, <2>1 DEF vars, shared, mutator, observer, IInv, TypeOK, MutatorInv,
         ClockInv, CopyInv, AckInv, NoTornRead
  <1> QED
    BY <1>1, <1>2, <1>3, <1>4, <1>5, <1>6 DEF Next, Poll

\* The inductive invariant holds in every reachable state.
THEOREM Invariance == Spec => []IInv
  BY InitIInv, NextIInv, PTL DEF Spec

\* poll() never returns the words of two different pushes, whatever the number
\* of words and wherever the sequence numbers wrap (SingleStateQueue.h:112-141).
THEOREM NeverTorn == Spec => []NoTornRead
  <1>1. IInv => NoTornRead
    BY DEF IInv
  <1> QED BY <1>1, Invariance, PTL

\* ack() = SSQ_READ or SSQ_DONE only for the value the Observer really holds,
\* the fact that getBufferPositionAndLoopCount() rests on.
THEOREM AckTrue == Spec => []AckIsTrue
  <1>1. IInv => AckIsTrue
    <2> SUFFICES ASSUME IInv, ~mBusy
                 PROVE  /\ Ack # "SSQ_PENDING" => oValue = Whole(pushed)
                        /\ Ack = "SSQ_DONE" => oPc # "polled"
      BY DEF AckIsTrue
    <2> USE DEF IInv
    <2>1. Odd(Inc(oSequence)) /\ Odd(Inc(mSequence))
      BY IncParity DEF ClockInv, MutatorInv, TypeOK
    <2>2. ASSUME Ack # "SSQ_PENDING" PROVE oSequence = mSequence
      <3>1. sAck \in {mSequence, Inc(mSequence)}
        BY <2>2 DEF Ack
      <3>2. Inc(oSequence) = Inc(mSequence) => oSequence = mSequence
        BY DEF TypeOK, Inc
      <3> QED BY <2>1, <3>1, <3>2 DEF AckInv, ClockInv, MutatorInv
    <2>3. ASSUME oSequence = mSequence PROVE oValue = Whole(pushed)
      <3>1. Stores = 2 * pushed /\ sSequence = oSequence
        BY <2>3 DEF Stores, MutatorInv
      <3>2. Stores - oSequenceAt \in Nat /\ Stores - oSequenceAt < SeqMod
        BY <3>1 DEF ClockInv, TypeOK
      <3>3. Plus(oSequence, Stores - oSequenceAt) = oSequence
        BY <3>1 DEF ClockInv
      <3>4. oSequenceAt = 2 * pushed
        BY <3>1, <3>2, <3>3, PlusSteps DEF TypeOK
      <3>5. \A w \in Words : oValue[w] = pushed
        BY <3>4 DEF NoTornRead, TypeOK
      <3> QED BY <3>5 DEF TypeOK, Whole
    <2>4. Ack = "SSQ_DONE" => oPc # "polled"
      BY DEF Ack, AckInv, ClockInv
    <2> QED BY <2>2, <2>3, <2>4
  <1> QED BY <1>1, Invariance, PTL

\* The initial state is an initial state of the atomic cell.
LEMMA InitCell == Init => Cell!Init
  BY DEF Init, Cell!Init, Odd

\* Every step is a step of the atomic cell or leaves it alone.
LEMMA NextCell == IInv /\ [Next]_vars => [Cell!Next]_(Cell!vars)
  <1> SUFFICES ASSUME IInv, [Next]_vars PROVE [Cell!Next]_(Cell!vars)
    OBVIOUS
  <1> USE DEF Cell!vars
  <1>1. CASE PushBegin
    BY <1>1 DEF PushBegin, observer, IInv, TypeOK
  <1>2. CASE PushEnd
    BY <1>2 DEF PushEnd, observer, IInv, TypeOK, MutatorInv, Cell!Next, Cell!Store
  <1>3. CASE \E w \in Words : PushWord(w)
    BY <1>3 DEF PushWord, observer
  <1>4. CASE PollStart \/ PollUnchanged \/ PollOdd \/ \E w \in Words : PollWord(w)
    BY <1>4 DEF PollStart, PollUnchanged, PollOdd, PollWord, TryAgain, shared, mutator
  <1>5. CASE PollAfter
    <2>1. CASE sSequence # oBefore
      BY <1>5, <2>1 DEF PollAfter, TryAgain, shared, mutator
    <2>2. CASE sSequence = oBefore
      <3>1. Stores = oBeforeAt /\ oPc = "loop" /\ oPc' = "accept"
        BY <1>5, <2>2, PollAcceptedIInv DEF PollAfter
      <3>2. Stores = 2 * pushed /\ ~mBusy
        BY <1>5, <3>1 DEF PollAfter, IInv, ClockInv, TypeOK, Stores, Odd
      <3>3. oSequenceAt \div 2 # pushed /\ oBeforeAt \div 2 = pushed
        BY <3>1, <3>2 DEF IInv, ClockInv, TypeOK
      <3>4. UNCHANGED <<oBeforeAt, mutator>>
        BY <1>5, <2>2 DEF PollAfter
      <3> QED
        BY <3>1, <3>2, <3>3, <3>4 DEF Cell!Next, Cell!Load, mutator
    <2> QED BY <2>1, <2>2
  <1>6. CASE PollAccept
    BY <1>6 DEF PollAccept, mutator, IInv, CopyInv
  <1>7. CASE Done
    <2>1. ~Odd(sAck) /\ Odd(Inc(sAck))
      BY <1>7, IncParity DEF Done, IInv, AckInv, ClockInv, TypeOK
    <2> QED BY <1>7, <2>1 DEF Done, mutator, Cell!Next, Cell!Done
  <1>8. CASE UNCHANGED vars
    BY <1>8 DEF vars, shared, mutator, observer
  <1> QED
    BY <1>1, <1>2, <1>3, <1>4, <1>5, <1>6, <1>7, <1>8 DEF Next, Push, Poll

\* SingleStateQueue is a single-writer single-reader atomic cell.
THEOREM Refinement == Spec => ImplementsCell
  BY InitCell, NextCell, Invariance, PTL DEF Spec, ImplementsCell, Cell!Spec
===============================================================================
