-------------------------- MODULE StreamingTrackProofs --------------------------
(***************************************************************************)
(* For a streaming buffer of any size, any modulus of the positions that   *)
(* is large enough and any number of stops and flushes: the ring never     *)
(* overfills, client and mixer never touch the same frame, stop and flush  *)
(* positions are honoured to the frame, and the control block implements   *)
(* FlushableFifo.                                                          *)
(*                                                                         *)
(* The arithmetic comes first.  It turns Diff, Low, High and % into case   *)
(* distinctions on sums, after which only distances from mFront matter,    *)
(* and the proofs about the actions add and subtract.                      *)
(***************************************************************************)
EXTENDS StreamingTrack, TLAPS

--------------------------------------------------------------------------------
(* Remainders.                                                             *)

\* A sum of a multiple and a rest has that rest ...
LEMMA ModIs ==
    ASSUME NEW m \in Nat \ {0}, NEW p \in Int, NEW q \in Int, NEW r \in 0..(m - 1),
           p = q * m + r
    PROVE  p % m = r
  OBVIOUS

\* ... and every integer is such a sum.
LEMMA ModHas ==
    ASSUME NEW m \in Nat \ {0}, NEW p \in Int
    PROVE  \E q \in Int, r \in 0..(m - 1) : p = q * m + r /\ p % m = r
  <1>1. /\ p % m \in 0..(m - 1) /\ (p \div m) \in Int
        /\ p = (p \div m) * m + (p % m)
    OBVIOUS
  <1> QED BY <1>1, Zenon

\* A step of at most the modulus wraps once or not at all.
LEMMA ModShift ==
    ASSUME NEW m \in Nat \ {0}, NEW p \in Int, NEW n \in 0..m
    PROVE  /\ p % m \in 0..(m - 1)
           /\ (p + n) % m = IF (p % m) + n < m THEN (p % m) + n ELSE (p % m) + n - m
  <1>2. PICK q \in Int, r \in 0..(m - 1) : p = q * m + r /\ p % m = r
    BY ModHas, Zenon
  <1>3. CASE r + n < m
    <2>1. p + n = q * m + (r + n) /\ r + n \in 0..(m - 1) /\ p + n \in Int
      BY <1>2, <1>3
    <2>2. (p + n) % m = r + n
      BY <2>1, ModIs, Zenon
    <2> QED BY <1>2, <1>3, <2>2
  <1>4. CASE ~(r + n < m)
    <2>1. /\ p + n = (q + 1) * m + (r + n - m) /\ r + n - m \in 0..(m - 1)
          /\ p + n \in Int /\ q + 1 \in Int
      BY <1>2, <1>4
    <2>2. (p + n) % m = r + n - m
      BY <2>1, ModIs, Zenon
    <2> QED BY <1>2, <1>4, <2>2
  <1> QED BY <1>3, <1>4

\* A multiple of the modulus changes nothing.
LEMMA ModMultiple ==
    ASSUME NEW m \in Nat \ {0}, NEW p \in Int, NEW k \in Int, k % m = 0
    PROVE  (p + k) % m = p % m /\ (p - k) % m = p % m
  <1>2. PICK q \in Int, r \in 0..(m - 1) : p = q * m + r /\ p % m = r
    BY ModHas, Zenon
  <1>3. PICK j \in Int : k = j * m
    <2>1. PICK j \in Int, s \in 0..(m - 1) : k = j * m + s /\ k % m = s
      BY ModHas, Zenon
    <2> QED BY <2>1
  <1>4. /\ p + k = (q + j) * m + r /\ p - k = (q - j) * m + r
        /\ p + k \in Int /\ p - k \in Int /\ q + j \in Int /\ q - j \in Int
    BY <1>2, <1>3
  <1>5. (p + k) % m = r /\ (p - k) % m = r
    BY <1>4, ModIs, Zenon
  <1> QED BY <1>2, <1>5, Zenon

\* The difference of two rests wraps when it is negative.
LEMMA ModDifference ==
    ASSUME NEW m \in Nat \ {0}, NEW a \in 0..(m-1), NEW b \in 0..(m-1)
    PROVE  (a - b) % m = IF a >= b THEN a - b ELSE a - b + m
  OBVIOUS

\* Two multiples are equal, or at least the modulus apart.
LEMMA MultiplesApart ==
    ASSUME NEW m \in Nat \ {0}, NEW a \in Int, NEW b \in Int, a % m = 0, b % m = 0, a < b
    PROVE  a + m <= b
  <1>1. PICK i \in Int : a = i * m
    <2>1. PICK j \in Int, s \in 0..(m - 1) : a = j * m + s /\ a % m = s
      BY ModHas, Zenon
    <2> QED BY <2>1
  <1>2. PICK j \in Int : b = j * m
    <2>1. PICK j \in Int, s \in 0..(m - 1) : b = j * m + s /\ b % m = s
      BY ModHas, Zenon
    <2> QED BY <2>1
  <1>3. i < j
    BY <1>1, <1>2
  <1>4. i * m + m <= j * m
    BY <1>3
  <1> QED BY <1>1, <1>2, <1>4

\* Without its rest a number is a multiple.
LEMMA MultipleBelow ==
    ASSUME NEW m \in Nat \ {0}, NEW p \in Int
    PROVE  (p - (p % m)) % m = 0 /\ p % m \in 0..(m - 1)
  <1>2. PICK q \in Int, r \in 0..(m - 1) : p = q * m + r /\ p % m = r
    BY ModHas, Zenon
  <1>3. p - r = q * m + 0 /\ p - r \in Int /\ 0 \in 0..(m - 1)
    BY <1>2
  <1>4. (p - r) % m = 0
    BY <1>3, ModIs, Zenon
  <1> QED BY <1>2, <1>4, Zenon

--------------------------------------------------------------------------------
(* Positions.  A position is a multiple of Span and a rest.                *)

Pos == 0..(IntMod - 1)

\* The distance to a mark from any position.
AheadOf(mark, front) == (Low(mark) - Low(front)) % Span

\* As int32_t, Span and a distance in the pipe beyond it are positive: Span is at most
\* a quarter of IntMod, that is mFrameCountP2 <= 2^29.
Wide == IntMod >= 4 * Span

LEMMA Constants ==
    /\ FrameCount \in Nat \ {0} /\ P2 \in Nat \ {0} /\ FrameCount <= P2
    /\ Span \in Nat \ {0} /\ Span = 2 * P2
    /\ IntMod \in Nat /\ IntMod >= 2 * Span
  BY SizesAssumption, IntModAssumption DEF Span

\* The high part of a position is a multiple of Span, and Span more is at most IntMod.
LEMMA Parts ==
    ASSUME NEW p \in Pos
    PROVE  /\ Low(p) \in 0..(Span - 1) /\ High(p) \in 0..(IntMod - Span)
           /\ p = High(p) + Low(p) /\ High(p) % Span = 0
  <1>1. p \in Int /\ 0 <= p /\ p < IntMod
    BY Constants DEF Pos
  <1>2. High(p) % Span = 0 /\ Low(p) \in 0..(Span - 1)
    BY <1>1, Constants, MultipleBelow, Zenon DEF High, Low
  <1>3. p = High(p) + Low(p) /\ High(p) \in Int /\ High(p) < IntMod /\ High(p) > -Span
    BY <1>1, <1>2, Constants DEF High
  <1>4. IntMod \in Int /\ IntMod % Span = 0
    BY Constants, IntModAssumption
  <1>5. High(p) + Span <= IntMod
    BY <1>2, <1>3, <1>4, Constants, MultiplesApart, Zenon
  <1>6. High(p) >= 0
    <2>1. -Span \in Int /\ (-Span) % Span = 0
      <3>1. -Span = (-1) * Span + 0 /\ -Span \in Int /\ -1 \in Int /\ 0 \in 0..(Span - 1)
        BY Constants
      <3> QED BY <3>1, ModIs, Constants, Zenon
    <2>2. (-Span) + Span <= High(p)
      <3>1. -Span < High(p)
        BY <1>3, Constants
      <3> QED BY <1>2, <1>3, <2>1, <3>1, Constants, MultiplesApart, Zenon
    <2> QED BY <2>2, <1>3, Constants
  <1> QED BY <1>2, <1>3, <1>5, <1>6, Constants

\* A step of at most Span leaves the high part alone or takes it to the next multiple,
\* or from the last to 0.
LEMMA PlusParts ==
    ASSUME NEW p \in Pos, NEW n \in 0..Span
    PROVE  /\ Plus(p, n) \in Pos
           /\ Low(Plus(p, n)) = IF Low(p) + n < Span THEN Low(p) + n ELSE Low(p) + n - Span
           /\ High(Plus(p, n)) = IF Low(p) + n < Span THEN High(p)
                                 ELSE IF High(p) + Span = IntMod THEN 0 ELSE High(p) + Span
  <1>1. p \in Int /\ n \in Int /\ p + n \in Int /\ IntMod \in Int /\ IntMod % Span = 0
    BY Constants, IntModAssumption DEF Pos
  <1>2. Low(p + n) = IF Low(p) + n < Span THEN Low(p) + n ELSE Low(p) + n - Span
    BY <1>1, Constants, ModShift, Zenon DEF Low
  <1>3. Low(p + n - IntMod) = Low(p + n)
    <2> DEFINE s == p + n
    <2>1. (s - IntMod) % Span = s % Span
      <3> HIDE DEF s
      <3>1. s \in Int
        BY <1>1 DEF s
      <3> QED BY <1>1, <3>1, Constants, ModMultiple
    <2>2. p + n - IntMod = s - IntMod
      BY <1>1
    <2> QED BY <2>1, <2>2, Zenon DEF Low
  <1>4. Plus(p, n) \in Pos
    BY Constants DEF Plus, Pos
  <1>5. Low(Plus(p, n)) = IF Low(p) + n < Span THEN Low(p) + n ELSE Low(p) + n - Span
    BY <1>2, <1>3, Zenon DEF Plus
  <1>6. /\ High(p) \in 0..(IntMod - Span) /\ Low(p) \in 0..(Span - 1) /\ p = High(p) + Low(p)
        /\ High(p) % Span = 0
    BY Parts
  <1>7. /\ Plus(p, n) = High(Plus(p, n)) + Low(Plus(p, n)) /\ High(Plus(p, n)) \in Int
    BY <1>4, Parts
  <1>8. High(p) + Span # IntMod => High(p) + 2 * Span <= IntMod
    <2>1. High(p) + Span \in Int /\ (High(p) + Span) % Span = 0
      <3>1. Span \in Int /\ Span % Span = 0
        <4>1. Span = 1 * Span + 0 /\ Span \in Int /\ 1 \in Int /\ 0 \in 0..(Span - 1)
          BY Constants
        <4> QED BY <4>1, ModIs, Constants, Zenon
      <3>2. High(p) \in Int
        BY <1>6, Constants
      <3>3. High(p) + Span \in Int
        BY <3>1, <3>2
      <3> QED BY <1>6, <3>1, <3>2, <3>3, Constants, ModMultiple, Zenon
    <2>2. ASSUME High(p) + Span < IntMod PROVE (High(p) + Span) + Span <= IntMod
      BY <1>1, <2>1, <2>2, Constants, MultiplesApart, Zenon
    <2> QED BY <2>2, <1>6, Constants
  <1>9. Plus(p, n) = IF p + n < IntMod THEN p + n ELSE p + n - IntMod
    BY DEF Plus
  <1>10. High(Plus(p, n)) = IF Low(p) + n < Span THEN High(p)
                            ELSE IF High(p) + Span = IntMod THEN 0 ELSE High(p) + Span
    BY <1>5, <1>6, <1>7, <1>8, <1>9, Constants
  <1> QED BY <1>4, <1>5, <1>10

\* The distance to a mark, as a case distinction.
LEMMA AheadIs ==
    ASSUME NEW mark \in Pos, NEW front \in Pos
    PROVE  /\ AheadOf(mark, front) \in 0..(Span - 1)
           /\ AheadOf(mark, front) = IF Low(mark) >= Low(front) THEN Low(mark) - Low(front)
                                     ELSE Low(mark) - Low(front) + Span
  <1>1. Low(mark) \in 0..(Span - 1) /\ Low(front) \in 0..(Span - 1)
    BY Parts
  <1>2. AheadOf(mark, front) = IF Low(mark) >= Low(front) THEN Low(mark) - Low(front)
                               ELSE Low(mark) - Low(front) + Span
    BY <1>1, Constants, ModDifference, Zenon DEF AheadOf
  <1> QED BY <1>1, <1>2, Constants

\* A step towards a mark makes its distance smaller.
LEMMA AheadLess ==
    ASSUME NEW mark \in Pos, NEW front \in Pos, NEW n \in 0..FrameCount,
           n <= AheadOf(mark, front)
    PROVE  AheadOf(mark, Plus(front, n)) = AheadOf(mark, front) - n
  <1>1. n \in 0..Span
    BY Constants
  <1>2. /\ Plus(front, n) \in Pos
        /\ Low(Plus(front, n)) = IF Low(front) + n < Span THEN Low(front) + n
                                 ELSE Low(front) + n - Span
    BY <1>1, PlusParts
  <1>3. Low(mark) \in 0..(Span - 1) /\ Low(front) \in 0..(Span - 1)
    BY Parts
  <1> QED BY <1>2, <1>3, AheadIs, Constants

LEMMA DiffType ==
    ASSUME NEW a \in Pos, NEW b \in Pos
    PROVE  Diff(a, b) \in Int
  BY Constants DEF Diff, Pos

LEMMA DiffSelf ==
    ASSUME NEW a \in Pos
    PROVE  Diff(a, a) = 0
  BY Constants DEF Diff, Pos

\* A step of the rear makes the distance larger, and one of the front smaller.
LEMMA DiffMore ==
    ASSUME NEW a \in Pos, NEW b \in Pos, NEW n \in 0..FrameCount,
           0 <= Diff(a, b), Diff(a, b) + n <= FrameCount
    PROVE  Diff(Plus(a, n), b) = Diff(a, b) + n
  BY Constants DEF Diff, Pos, Plus

LEMMA DiffLess ==
    ASSUME NEW a \in Pos, NEW b \in Pos, NEW n \in 0..FrameCount,
           n <= Diff(a, b), Diff(a, b) <= FrameCount
    PROVE  Diff(a, Plus(b, n)) = Diff(a, b) - n
  BY Constants DEF Diff, Pos, Plus

\* A position in the pipe is its distance from the front.
LEMMA PlusDiff ==
    ASSUME NEW a \in Pos, NEW b \in Pos, InPipe(Diff(a, b))
    PROVE  a = Plus(b, Diff(a, b))
  BY Constants DEF Diff, Pos, Plus, InPipe

\* A mark with the low part of the rear is where the rear is.
LEMMA AheadRear ==
    ASSUME NEW mark \in Pos, NEW rear \in Pos, NEW front \in Pos,
           InPipe(Diff(rear, front)), Low(mark) = Low(rear)
    PROVE  AheadOf(mark, front) = Diff(rear, front)
  <1> DEFINE n == Diff(rear, front)
  <1>1. n \in 0..Span /\ n \in 0..FrameCount /\ n < Span
    BY DiffType, Constants DEF InPipe
  <1>2. rear = Plus(front, n)
    BY PlusDiff
  <1> HIDE DEF n
  <1>3. Low(rear) = IF Low(front) + n < Span THEN Low(front) + n ELSE Low(front) + n - Span
    BY <1>1, <1>2, PlusParts
  <1>4. Low(mark) \in 0..(Span - 1) /\ Low(front) \in 0..(Span - 1)
    BY Parts
  <1>5. AheadOf(mark, front) = n
    BY <1>1, <1>3, <1>4, AheadIs, Constants
  <1> QED BY <1>5 DEF n

\* A new mark has the low part of mRear and is not the old one.
LEMMA MarkParts ==
    ASSUME NEW old \in Pos, mRear \in Pos
    PROVE  Mark(old) \in Pos /\ Low(Mark(old)) = Low(mRear) /\ Mark(old) # old
  <1> DEFINE h == Plus(High(old), Span)
  <1>1. /\ High(old) \in 0..(IntMod - Span) /\ Low(old) \in 0..(Span - 1)
        /\ old = High(old) + Low(old) /\ Low(mRear) \in 0..(Span - 1)
        /\ High(old) % Span = 0
    BY Parts
  <1>2. High(old) \in Pos /\ Span \in 0..Span
    BY <1>1, Constants DEF Pos
  <1>3. Low(High(old)) = 0
    BY <1>1 DEF Low
  <1>4. Low(h) = 0 /\ h \in Pos
    BY <1>2, <1>3, PlusParts, Constants
  <1>5. h = High(h) + Low(h) /\ High(h) \in 0..(IntMod - Span)
    BY <1>4, Parts
  <1>6. h = IF High(old) + Span < IntMod THEN High(old) + Span ELSE High(old) + Span - IntMod
    BY DEF Plus
  <1>7. Mark(old) = h + Low(mRear)
    BY DEF Mark
  <1> HIDE DEF h
  <1>8. Mark(old) \in Pos
    BY <1>1, <1>4, <1>5, <1>7, Constants DEF Pos
  <1>9. Low(Mark(old)) = Low(mRear)
    <2>1. h \in Int /\ Low(mRear) \in 0..Span
      BY <1>1, <1>4, Constants DEF Pos
    <2>2. (h + Low(mRear)) % Span = IF (h % Span) + Low(mRear) < Span
             THEN (h % Span) + Low(mRear) ELSE (h % Span) + Low(mRear) - Span
      BY <2>1, Constants, ModShift, Zenon
    <2>3. h % Span = 0
      BY <1>4 DEF Low
    <2>4. (h + Low(mRear)) % Span = Low(mRear)
      BY <2>2, <2>3, <1>1, Constants
    <2> QED BY <2>4, <1>7, Zenon DEF Low
  <1>10. Mark(old) # old
    BY <1>1, <1>6, <1>7, Constants
  <1> QED BY <1>8, <1>9, <1>10

\* flushBufferIfNeeded() moves the front to the mark, if that is in the pipe.
LEMMA FlushFrontExact ==
    ASSUME Wide, NEW front \in Pos, NEW rear \in Pos, NEW flush \in Pos,
           InPipe(Diff(rear, front)), AheadOf(flush, front) <= Diff(rear, front)
    PROVE  FlushFront(front, rear, flush) = Plus(front, AheadOf(flush, front))
  <1> DEFINE n == Diff(rear, front)
             d == AheadOf(flush, front)
             based == High(front) + Low(flush)
  <1>1. n \in 0..FrameCount /\ d \in 0..n
    BY DiffType, AheadIs, Constants DEF InPipe
  <1>2. /\ Low(flush) \in 0..(Span - 1) /\ Low(front) \in 0..(Span - 1)
        /\ High(front) \in 0..(IntMod - Span) /\ front = High(front) + Low(front)
    BY Parts
  <1>3. d = IF Low(flush) >= Low(front) THEN Low(flush) - Low(front)
            ELSE Low(flush) - Low(front) + Span
    BY AheadIs
  <1>4. rear = Plus(front, n)
    BY PlusDiff
  <1> HIDE DEF n, d
  <1>5. CASE Low(flush) >= Low(front)
    <2>1. based = front + d /\ based \in 0..(IntMod - 1) /\ Plus(front, d) = based
      BY <1>1, <1>2, <1>3, <1>5, Constants DEF Plus
    <2> HIDE DEF based
    <2>2. Diff(rear, based) = n - d
      BY <1>1, <1>4, <2>1, Constants DEF Plus, Diff, Pos, Wide
    <2> QED BY <1>1, <2>1, <2>2, Constants DEF FlushFront, InPipe, based, d
  <1>6. CASE Low(flush) < Low(front)
    <2>1. based = front + d - Span /\ based \in 0..(IntMod - 1)
      BY <1>1, <1>2, <1>3, <1>6, Constants
    <2> HIDE DEF based
    <2>2. Diff(rear, based) = n - d + Span
      BY <1>1, <1>4, <2>1, Constants DEF Plus, Diff, Pos, Wide
    <2>3. Plus(based, Span) = Plus(front, d)
      BY <1>1, <2>1, Constants DEF Plus, Pos
    <2> QED BY <1>1, <2>1, <2>2, <2>3, Constants DEF FlushFront, InPipe, based, d
  <1> QED BY <1>2, <1>5, <1>6, Constants

\* getRear() returns the mark, if that is in the pipe.
LEMMA StopRearExact ==
    ASSUME Wide, NEW front \in Pos, NEW rear \in Pos, NEW stop \in Pos,
           InPipe(Diff(rear, front)), AheadOf(stop, front) <= Diff(rear, front)
    PROVE  Diff(StopRear(stop, rear, front), front) = AheadOf(stop, front)
  <1> DEFINE n == Diff(rear, front)
             d == AheadOf(stop, front)
             based == High(rear) + Low(stop)
  <1>1. n \in 0..FrameCount /\ d \in 0..n /\ n \in 0..Span
    BY DiffType, AheadIs, Constants DEF InPipe
  <1>2. /\ Low(stop) \in 0..(Span - 1) /\ Low(front) \in 0..(Span - 1)
        /\ High(front) \in 0..(IntMod - Span) /\ front = High(front) + Low(front)
        /\ High(rear) \in 0..(IntMod - Span)
    BY Parts
  <1>3. d = IF Low(stop) >= Low(front) THEN Low(stop) - Low(front)
            ELSE Low(stop) - Low(front) + Span
    BY AheadIs
  <1>4. rear = Plus(front, n)
    BY PlusDiff
  <1> HIDE DEF n, d
  <1>5. High(rear) = IF Low(front) + n < Span THEN High(front)
                     ELSE IF High(front) + Span = IntMod THEN 0 ELSE High(front) + Span
    BY <1>1, <1>4, PlusParts
  <1>6. Diff(based, front) = d \/ Diff(based, front) = d + Span
    BY <1>1, <1>2, <1>3, <1>5, Constants DEF Diff, Wide
  <1>7. based \in 0..(IntMod - 1)
    BY <1>2, Constants
  <1> HIDE DEF based
  <1>8. CASE Diff(based, front) = d
    BY <1>1, <1>8, Constants DEF StopRear, InPipe, based, d
  <1>9. CASE Diff(based, front) = d + Span
    <2>1. Diff(Minus(based, Span), front) = d
      BY <1>1, <1>7, <1>9, Constants DEF Diff, Minus, Pos, Wide
    <2> QED BY <1>1, <1>9, <2>1, Constants DEF StopRear, InPipe, based, d
  <1> QED BY <1>6, <1>8, <1>9 DEF d

\* A chunk is no more than there is, and ends in the storage.
LEMMA ChunkBounds ==
    ASSUME NEW p \in Pos, NEW avail \in 0..FrameCount, NEW ask \in Nat
    PROVE  Chunk(p, avail, ask) \in 0..avail /\ (p % P2) + Chunk(p, avail, ask) <= P2
  <1>1. p % P2 \in 0..(P2 - 1)
    <2>1. p \in Int
      BY Constants DEF Pos
    <2> QED BY <2>1, MultipleBelow, Constants, Zenon
  <1> QED BY <1>1, Constants DEF Chunk, Least

\* The same for the place in the storage.
LEMMA StoragePlus ==
    ASSUME NEW p \in Pos, NEW n \in 0..P2
    PROVE  /\ p % P2 \in 0..(P2 - 1)
           /\ Plus(p, n) % P2 = IF (p % P2) + n < P2 THEN (p % P2) + n ELSE (p % P2) + n - P2
  <1>1. p \in Int /\ p + n \in Int /\ IntMod \in Int
    BY Constants DEF Pos
  <1>2. IntMod % P2 = 0
    <2>1. PICK j \in Int, s \in 0..(Span - 1) : IntMod = j * Span + s /\ IntMod % Span = s
      BY ModHas, Constants, <1>1, Zenon
    <2>2. IntMod = (2 * j) * P2 + 0 /\ 2 * j \in Int /\ 0 \in 0..(P2 - 1)
      BY <2>1, IntModAssumption, Constants
    <2> QED BY <1>1, <2>2, ModIs, Constants, Zenon
  <1>3. (p + n - IntMod) % P2 = (p + n) % P2
    <2> DEFINE s == p + n
    <2>1. (s - IntMod) % P2 = s % P2
      <3> HIDE DEF s
      <3>1. s \in Int
        BY <1>1 DEF s
      <3> QED BY <1>1, <1>2, <3>1, Constants, ModMultiple
    <2>2. p + n - IntMod = s - IntMod
      BY <1>1
    <2> QED BY <2>1, <2>2, Zenon
  <1>4. /\ p % P2 \in 0..(P2 - 1)
        /\ (p + n) % P2 = IF (p % P2) + n < P2 THEN (p % P2) + n ELSE (p % P2) + n - P2
    BY <1>1, ModShift, Constants, Zenon
  <1> QED BY <1>3, <1>4, Zenon DEF Plus

--------------------------------------------------------------------------------
(* The inductive invariant.                                                *)

\* The distances of mRear, mFlush and mStop from mFront.
Filled == Diff(mRear, mFront)
FlushAt == AheadOf(mFlush, mFront)
StopAt == AheadOf(mStop, mFront)

\* What is filled and what the client may fill fit into the pipe.
RingInv ==
    /\ InPipe(Filled) /\ Filled + cUnreleased <= FrameCount
    /\ ~cShutdown /\ ~sShutdown

\* Neither side holds frames across the end of the storage.
StorageInv ==
    /\ (mRear % P2) + cUnreleased <= P2
    /\ (mFront % P2) + sHeld <= P2

\* The mixer's buffer is filled, and it has none while it asks for one or flushes, nor
\* while the track is not active.
HeldInv ==
    /\ sHeld <= Filled /\ sHeld <= sUnreleased
    /\ ~active => sPc = "idle"
    /\ ~active \/ sOp = "obtain" \/ sPc \in {"flush", "front"} => sHeld = 0
    /\ sPc = "front" \/ sPc = "flush" => sOp # "ready"

\* Only an operation of the mixer can be late, and the client does not go on then.
LateInv ==
    /\ sPc = "idle" \/ cState = "ACTIVE" \/ cPc = "restart" => ~late
    /\ cPc \in {"stop", "flush"} => cState # "ACTIVE"

\* A stop or flush position that the mixer has not seen off is in the pipe, beyond
\* the mixer's buffer, and the stop is not before the flush.
MarkInv ==
    /\ mFlush # sFlush => sHeld <= FlushAt /\ FlushAt <= Filled
    /\ mStop # sStopLast => sHeld <= StopAt /\ StopAt <= Filled
    /\ mFlush # sFlush /\ mStop # sStopLast => FlushAt <= StopAt
    /\ cPc = "stop" => /\ Low(mStop) = Low(mRear)
                       /\ NoAlias(mFlush, sFlush) \/ Filled = 0

\* A mark that the client set since the mixer loaded the other one is at the rear.
NewMark(mark) == late /\ Low(mark) = Low(mRear)

\* What the mixer has loaded for a flush ...
FlushInv ==
    /\ sPc \in {"flush", "front"} =>
           /\ lFlush # sFlush /\ AheadOf(lFlush, mFront) <= Filled
           /\ mStop # sStopLast => AheadOf(lFlush, mFront) <= StopAt
           /\ mFlush # lFlush => NewMark(mFlush)
           /\ mFlush = sFlush => Filled = 0
    /\ sPc = "front" =>
           /\ AheadOf(lFlush, mFront) <= Diff(lRear, mFront)
           /\ Diff(lRear, mFront) <= Filled

\* ... and for a stop.
LoadInv ==
    /\ sPc \in {"stop", "rear", "last"} => (mFlush # sFlush => NewMark(mFlush))
    /\ sPc \in {"rear", "last"} =>
           /\ mStop # lStop => NewMark(mStop)
           /\ lStop # sStopLast => AheadOf(lStop, mFront) <= Filled
    /\ sPc = "last" =>
           /\ 0 <= Diff(lRear, mFront) /\ Diff(lRear, mFront) <= Filled
           /\ lStop # sStopLast => AheadOf(lStop, mFront) <= Diff(lRear, mFront)

IInv ==
    /\ TypeOK /\ RingInv /\ StorageInv /\ HeldInv
    /\ LateInv /\ MarkInv /\ FlushInv /\ LoadInv

--------------------------------------------------------------------------------
(* Distances in a state, and how they change.                              *)

USE DEF Filled, FlushAt, StopAt, NewMark, cblk, client, track, proxy, call

LEMMA Typed ==
    ASSUME TypeOK
    PROVE  /\ mFront \in Pos /\ mRear \in Pos /\ mStop \in Pos /\ mFlush \in Pos
           /\ sFlush \in Pos /\ sStopLast \in Pos
           /\ lFlush \in Pos /\ lStop \in Pos /\ lRear \in Pos
           /\ cUnreleased \in 0..FrameCount /\ sUnreleased \in 0..FrameCount
           /\ sHeld \in 0..FrameCount /\ cSize \in 1..FrameCount
  BY DEF TypeOK, PositionTypes, ClientTypes, ServerTypes, Pos

LEMMA Distances ==
    ASSUME IInv
    PROVE  /\ Filled \in 0..FrameCount /\ FlushAt \in 0..(Span - 1) /\ StopAt \in 0..(Span - 1)
           /\ AheadOf(lFlush, mFront) \in 0..(Span - 1)
           /\ AheadOf(lStop, mFront) \in 0..(Span - 1)
           /\ Diff(lRear, mFront) \in Int
           /\ FrameCount \in Nat \ {0} /\ Span \in Nat
  <1>1. TypeOK /\ InPipe(Filled)
    BY DEF IInv, RingInv
  <1>2. Filled \in Int /\ Diff(lRear, mFront) \in Int
    BY <1>1, Typed, DiffType
  <1> QED BY <1>1, <1>2, Typed, AheadIs, Constants DEF InPipe

\* The mixer, or a binder thread for it, advances mFront by n frames.
LEMMA FrontMoves ==
    ASSUME IInv, NEW n \in 0..FrameCount, n <= Filled, mFront' = Plus(mFront, n), mRear' = mRear
    PROVE  /\ mFront' \in Pos /\ Filled' = Filled - n
           /\ \A mark \in Pos : n <= AheadOf(mark, mFront) =>
                  AheadOf(mark, mFront') = AheadOf(mark, mFront) - n
  <1>1. mFront \in Pos /\ mRear \in Pos /\ Filled <= FrameCount
    BY Typed, Distances DEF IInv
  <1>2. mFront' \in Pos
    <2>1. n \in 0..Span
      BY Constants
    <2> QED BY <1>1, <2>1, PlusParts
  <1>3. Filled' = Filled - n
    BY <1>1, DiffLess
  <1>4. ASSUME NEW mark \in Pos, n <= AheadOf(mark, mFront)
        PROVE  AheadOf(mark, mFront') = AheadOf(mark, mFront) - n
    BY <1>1, <1>4, AheadLess
  <1> QED BY <1>2, <1>3, <1>4

\* A mark at the rear is as far ahead as there are frames.
LEMMA AtRear ==
    ASSUME IInv, NEW mark \in Pos, Low(mark) = Low(mRear)
    PROVE  AheadOf(mark, mFront) = Filled
  <1>1. mFront \in Pos /\ mRear \in Pos /\ InPipe(Diff(mRear, mFront))
    BY Typed DEF IInv, RingInv
  <1> QED BY <1>1, AheadRear

\* What a flush by a binder thread does to a track that is not active.
Flushed == IF mFlush # sFlush THEN FlushAt ELSE 0

LEMMA FlushNowMoves ==
    ASSUME Wide, IInv, FlushNow
    PROVE  Flushed \in 0..FrameCount /\ Flushed <= Filled /\ mFront' = Plus(mFront, Flushed)
  <1>1. mFront \in Pos /\ mRear \in Pos /\ mFlush \in Pos /\ InPipe(Diff(mRear, mFront))
    BY Typed DEF IInv, RingInv
  <1>2. CASE mFlush # sFlush
    <2>1. FlushAt <= Filled
      BY <1>2 DEF IInv, MarkInv
    <2>2. FlushFront(mFront, mRear, mFlush) = Plus(mFront, FlushAt)
      BY <1>1, <2>1, FlushFrontExact
    <2> QED BY <1>2, <2>1, <2>2, Distances DEF FlushNow, Flushed
  <1>3. CASE mFlush = sFlush
    <2>1. Plus(mFront, 0) = mFront
      BY <1>1, Constants DEF Plus, Pos
    <2> QED BY <1>3, <2>1, Distances DEF FlushNow, Flushed
  <1> QED BY <1>2, <1>3

\* A binder call that may flush: TrackStart, TrackRefused, or the track's flush.
Binder ==
    /\ sStopLast' = mStop \/ sStopLast' = sStopLast
    /\ active \/ active' = active \/ active' = TRUE
    /\ active => active' = active /\ mFront' = mFront /\ sFlush' = sFlush
    /\ ~active => FlushNow
    /\ UNCHANGED <<sShutdown, sUnreleased, sHeld>>

\* A start does not shut the proxy down.
LEMMA AckFlushBinder ==
    ASSUME Wide, IInv, AckFlush, UNCHANGED <<mRear, mStop, mFlush>>,
           sStopLast' = mStop \/ sStopLast' = sStopLast, ~active
    PROVE  FlushNow /\ UNCHANGED <<sShutdown, sUnreleased>>
  <1> DEFINE rear == IF mStop # sStopLast' THEN StopRear(mStop, mRear, mFront') ELSE mRear
             d == Diff(rear, mFront')
  <1>1. /\ FlushNow /\ sShutdown' = ~InPipe(d)
        /\ sUnreleased' = IF sShutdown' THEN 0 ELSE sUnreleased
    BY DEF IInv, RingInv, AckFlush
  <1>2. /\ mFront' = Plus(mFront, Flushed) /\ Flushed \in 0..FrameCount /\ Flushed <= Filled
    BY <1>1, FlushNowMoves
  <1>3. /\ mFront' \in Pos /\ Filled' = Filled - Flushed
        /\ \A mark \in Pos : Flushed <= AheadOf(mark, mFront) =>
               AheadOf(mark, mFront') = AheadOf(mark, mFront) - Flushed
    BY <1>2, FrontMoves
  <1>4. mRear \in Pos /\ mStop \in Pos
    BY Typed DEF IInv
  <1>5. InPipe(Diff(mRear, mFront'))
    BY <1>2, <1>3, Distances DEF InPipe
  <1>8. sShutdown = FALSE
    BY DEF IInv, RingInv, TypeOK, FlagTypes
  <1>6. CASE mStop # sStopLast'
    <2>1. Flushed <= StopAt /\ StopAt <= Filled
      BY <1>6, Distances DEF IInv, MarkInv, Flushed
    <2>2. AheadOf(mStop, mFront') = StopAt - Flushed
      BY <1>3, <1>4, <2>1
    <2>3. AheadOf(mStop, mFront') <= Diff(mRear, mFront')
      BY <1>2, <1>3, <2>1, <2>2, Distances
    <2>4. d = AheadOf(mStop, mFront')
      BY <1>3, <1>4, <1>5, <1>6, <2>3, StopRearExact
    <2> HIDE DEF d
    <2>5. InPipe(d)
      BY <2>4, <2>2, <2>1, <1>2, Distances DEF InPipe
    <2> QED BY <1>1, <1>8, <2>5
  <1>7. CASE mStop = sStopLast'
    <2>1. InPipe(d)
      BY <1>5, <1>7
    <2> HIDE DEF d
    <2> QED BY <1>1, <1>8, <2>1
  <1> QED BY <1>6, <1>7

LEMMA StartBinder ==
    ASSUME Wide, IInv, TrackStart \/ TrackRefused, UNCHANGED <<mRear, mStop, mFlush>>
    PROVE  Binder
  <1>1. CASE active
    BY <1>1 DEF TrackStart, TrackRefused, Binder
  <1>2. CASE ~active
    <2>1. /\ AckFlush /\ UNCHANGED sHeld /\ (active' = active \/ active' = TRUE)
          /\ sStopLast' = mStop \/ sStopLast' = sStopLast
      BY <1>2 DEF TrackStart, TrackRefused
    <2> QED BY <1>2, <2>1, AckFlushBinder DEF Binder
  <1> QED BY <1>1, <1>2

--------------------------------------------------------------------------------
(* Each action preserves the invariant.                                    *)

LEMMA InitIInv == Init => IInv
  <1> SUFFICES ASSUME Init PROVE IInv
    OBVIOUS
  <1>1. TypeOK
    <2>1. PositionTypes
      BY Constants DEF Init, PositionTypes
    <2>2. ClientTypes /\ ServerTypes
      BY Constants DEF Init, ClientTypes, ServerTypes
    <2>3. FlagTypes
      BY Zenon DEF Init, FlagTypes
    <2> QED BY <2>1, <2>2, <2>3 DEF TypeOK
  <1>2. Filled = 0
    <2>1. 0 \in Pos
      BY Constants DEF Pos
    <2> QED BY <2>1, DiffSelf DEF Init
  <1>3. RingInv
    BY <1>2, Constants DEF Init, RingInv, InPipe
  <1>4. StorageInv
    <2>1. 0 % P2 \in 0..(P2 - 1)
      BY Constants
    <2> QED BY <2>1, Constants DEF Init, StorageInv
  <1>5. HeldInv /\ LateInv /\ MarkInv /\ FlushInv /\ LoadInv
    BY <1>2, Constants DEF Init, HeldInv, LateInv, MarkInv, FlushInv, LoadInv
  <1> QED BY <1>1, <1>3, <1>4, <1>5 DEF IInv

LEMMA ClientObtainIInv ==
    ASSUME Wide, NEW ask \in Asks, IInv, ClientObtain(ask)
    PROVE  IInv'
  <1>1. /\ Filled \in 0..FrameCount /\ mRear \in Pos /\ cSize \in 1..FrameCount /\ ask \in Nat
    BY Distances, Typed, SizesAssumption DEF IInv
  <1>2. cShutdown' = FALSE
    BY DEF ClientObtain, IInv, RingInv
  <1>3. cUnreleased' \in 0..FrameCount /\ Filled + cUnreleased' <= FrameCount
    <2> DEFINE c == Chunk(mRear, cSize - Filled, ask)
    <2>1. cSize > Filled => cSize - Filled \in 0..FrameCount
      BY <1>1, Constants
    <2>2. cSize > Filled => c \in 0..(cSize - Filled)
      BY <1>1, <2>1, ChunkBounds
    <2> HIDE DEF c
    <2>3. (cUnreleased' = c /\ cSize > Filled) \/ cUnreleased' = 0
      BY <1>1 DEF ClientObtain, c
    <2> QED BY <1>1, <2>2, <2>3, Constants
  <1>4. (mRear % P2) + cUnreleased' <= P2
    <2> DEFINE c == Chunk(mRear, cSize - Filled, ask)
    <2>1. cSize > Filled => cSize - Filled \in 0..FrameCount
      BY <1>1, Constants
    <2>2. cSize > Filled => (mRear % P2) + c <= P2
      BY <1>1, <2>1, ChunkBounds
    <2>3. mRear % P2 \in 0..(P2 - 1)
      <3>1. 0 \in 0..P2
        BY Constants
      <3> QED BY <1>1, <3>1, StoragePlus
    <2> HIDE DEF c
    <2>4. (cUnreleased' = c /\ cSize > Filled) \/ cUnreleased' = 0
      BY <1>1 DEF ClientObtain, c
    <2> QED BY <1>1, <2>2, <2>3, <2>4, Constants
  <1>5. PositionTypes' /\ ServerTypes'
    BY Constants DEF ClientObtain, IInv, TypeOK, PositionTypes, ServerTypes
  <1>6. ClientTypes'
    BY <1>3 DEF ClientObtain, IInv, TypeOK, ClientTypes
  <1>7. FlagTypes'
    BY <1>2 DEF ClientObtain, IInv, TypeOK, FlagTypes
  <1>8. HeldInv' /\ LateInv'
    BY Distances DEF ClientObtain, IInv, HeldInv, LateInv
  <1>9. RingInv'
    BY <1>2, <1>3 DEF ClientObtain, IInv, RingInv
  <1>10. StorageInv'
    BY <1>4 DEF ClientObtain, IInv, StorageInv
  <1>11. MarkInv' /\ FlushInv' /\ LoadInv'
    BY Distances DEF ClientObtain, IInv, MarkInv, FlushInv, LoadInv, NoAlias, Mark
  <1> QED BY <1>5, <1>6, <1>7, <1>8, <1>9, <1>10, <1>11 DEF IInv, TypeOK

LEMMA ClientObtainFailsIInv ==
    ASSUME Wide, IInv, ClientObtainFails
    PROVE  IInv'
  <1>1. mRear % P2 \in 0..(P2 - 1)
    <2>1. mRear \in Pos /\ 0 \in 0..P2
      BY Typed, Constants DEF IInv
    <2> QED BY <2>1, StoragePlus
  <1>2. PositionTypes' /\ ClientTypes' /\ ServerTypes' /\ FlagTypes'
    BY Constants
       DEF ClientObtainFails, IInv, TypeOK, PositionTypes, ClientTypes, ServerTypes,
           FlagTypes
  <1>3. RingInv' /\ HeldInv' /\ LateInv'
    BY Distances DEF ClientObtainFails, IInv, RingInv, HeldInv, LateInv
  <1>4. StorageInv'
    BY <1>1, Constants DEF ClientObtainFails, IInv, StorageInv
  <1>5. MarkInv' /\ FlushInv' /\ LoadInv'
    BY Distances DEF ClientObtainFails, IInv, MarkInv, FlushInv, LoadInv, NoAlias, Mark
  <1> QED BY <1>2, <1>3, <1>4, <1>5 DEF IInv, TypeOK

LEMMA ClientPauseIInv ==
    ASSUME Wide, IInv, ClientPause
    PROVE  IInv'
  <1>1. PositionTypes' /\ ClientTypes' /\ ServerTypes' /\ FlagTypes'
    BY Constants
       DEF ClientPause, IInv, TypeOK, PositionTypes, ClientTypes, ServerTypes, FlagTypes
  <1>2. RingInv' /\ StorageInv' /\ HeldInv' /\ LateInv'
    BY Distances DEF ClientPause, IInv, RingInv, StorageInv, HeldInv, LateInv
  <1>3. MarkInv' /\ FlushInv' /\ LoadInv'
    BY Distances DEF ClientPause, IInv, MarkInv, FlushInv, LoadInv, NoAlias, Mark
  <1> QED BY <1>1, <1>2, <1>3 DEF IInv, TypeOK

LEMMA ClientSetSizeIInv ==
    ASSUME Wide, NEW size \in Sizes, IInv, ClientSetSize(size)
    PROVE  IInv'
  <1>1. PositionTypes' /\ ServerTypes' /\ FlagTypes'
    BY Constants DEF ClientSetSize, IInv, TypeOK, PositionTypes, ServerTypes, FlagTypes
  <1>2. ClientTypes'
    BY Typed, Constants, SizesAssumption DEF ClientSetSize, IInv, TypeOK, ClientTypes
  <1>3. RingInv' /\ StorageInv' /\ HeldInv' /\ LateInv'
    BY Distances DEF ClientSetSize, IInv, RingInv, StorageInv, HeldInv, LateInv
  <1>4. MarkInv' /\ FlushInv' /\ LoadInv'
    BY Distances DEF ClientSetSize, IInv, MarkInv, FlushInv, LoadInv, NoAlias, Mark
  <1> QED BY <1>1, <1>2, <1>3, <1>4 DEF IInv, TypeOK

LEMMA ServerCallIInv ==
    ASSUME Wide, NEW op \in {"flush", "ready", "obtain"}, IInv, ServerCall(op)
    PROVE  IInv'
  <1>1. PositionTypes' /\ ClientTypes' /\ ServerTypes'
    BY Constants
       DEF ServerCall, Return, IInv, TypeOK, PositionTypes, ClientTypes, ServerTypes
  <1>2. FlagTypes'
    BY DEF ServerCall, Return, IInv, TypeOK, FlagTypes
  <1>3. RingInv' /\ StorageInv' /\ HeldInv' /\ LateInv'
    BY Distances DEF ServerCall, Return, IInv, RingInv, StorageInv, HeldInv, LateInv
  <1>4. MarkInv' /\ LoadInv'
    BY Distances DEF ServerCall, Return, IInv, MarkInv, LoadInv, NoAlias, Mark
  <1>5. FlushInv'
    BY Distances DEF ServerCall, Return, IInv, FlushInv, MarkInv
  <1> QED BY <1>1, <1>2, <1>3, <1>4, <1>5 DEF IInv, TypeOK

LEMMA ServerFlushRearIInv ==
    ASSUME Wide, IInv, ServerFlushRear
    PROVE  IInv'
  <1>1. PositionTypes' /\ ClientTypes' /\ ServerTypes' /\ FlagTypes'
    BY Constants
       DEF ServerFlushRear, IInv, TypeOK, PositionTypes, ClientTypes, ServerTypes,
           FlagTypes
  <1>2. RingInv' /\ StorageInv' /\ HeldInv' /\ LateInv'
    BY Distances DEF ServerFlushRear, IInv, RingInv, StorageInv, HeldInv, LateInv
  <1>3. MarkInv' /\ FlushInv' /\ LoadInv'
    BY Distances DEF ServerFlushRear, IInv, MarkInv, FlushInv, LoadInv, NoAlias, Mark
  <1> QED BY <1>1, <1>2, <1>3 DEF IInv, TypeOK

LEMMA ServerStopIInv ==
    ASSUME Wide, IInv, ServerStop
    PROVE  IInv'
  <1>1. PositionTypes' /\ ClientTypes' /\ ServerTypes' /\ FlagTypes'
    BY Constants
       DEF ServerStop, IInv, TypeOK, PositionTypes, ClientTypes, ServerTypes, FlagTypes
  <1>2. RingInv' /\ StorageInv' /\ HeldInv' /\ LateInv'
    BY Distances DEF ServerStop, IInv, RingInv, StorageInv, HeldInv, LateInv
  <1>3. MarkInv' /\ FlushInv'
    BY Distances DEF ServerStop, IInv, MarkInv, FlushInv, NoAlias, Mark
  <1>4. LoadInv'
    BY Distances DEF ServerStop, IInv, LoadInv, MarkInv
  <1> QED BY <1>1, <1>2, <1>3, <1>4 DEF IInv, TypeOK

LEMMA ServerRearIInv ==
    ASSUME Wide, IInv, ServerRear
    PROVE  IInv'
  <1>1. PositionTypes' /\ ClientTypes' /\ ServerTypes' /\ FlagTypes'
    BY Constants
       DEF ServerRear, IInv, TypeOK, PositionTypes, ClientTypes, ServerTypes, FlagTypes
  <1>2. RingInv' /\ StorageInv' /\ HeldInv' /\ LateInv'
    BY Distances DEF ServerRear, IInv, RingInv, StorageInv, HeldInv, LateInv
  <1>3. MarkInv' /\ FlushInv' /\ LoadInv'
    BY Distances DEF ServerRear, IInv, MarkInv, FlushInv, LoadInv, NoAlias, Mark
  <1> QED BY <1>1, <1>2, <1>3 DEF IInv, TypeOK

LEMMA DeactivateIInv ==
    ASSUME Wide, IInv, Deactivate
    PROVE  IInv'
  <1>1. sHeld = 0
    BY DEF Deactivate, IInv, RingInv
  <1>2. PositionTypes' /\ ClientTypes' /\ ServerTypes'
    BY Constants DEF Deactivate, IInv, TypeOK, PositionTypes, ClientTypes, ServerTypes
  <1>3. FlagTypes'
    BY DEF Deactivate, IInv, TypeOK, FlagTypes
  <1>4. RingInv' /\ LateInv'
    BY Distances DEF Deactivate, IInv, RingInv, LateInv
  <1>5. StorageInv'
    BY <1>1 DEF Deactivate, IInv, StorageInv
  <1>6. HeldInv'
    BY <1>1 DEF Deactivate, IInv, HeldInv
  <1>7. FlushInv' /\ LoadInv'
    BY Distances DEF Deactivate, IInv, FlushInv, LoadInv
  <1>8. MarkInv'
    BY <1>1 DEF Deactivate, IInv, MarkInv, NoAlias, Mark
  <1> QED BY <1>2, <1>3, <1>4, <1>5, <1>6, <1>7, <1>8 DEF IInv, TypeOK

\* The frames that the mixer finds are in the pipe, and not beyond a stop or a flush.
LEMMA ReadyBounds ==
    ASSUME Wide, IInv, sPc = "last"
    PROVE  /\ Ready \in 0..Filled
           /\ mStop # sStopLast => Ready <= StopAt
           /\ mFlush # sFlush => Ready <= FlushAt
  <1>1. mFront \in Pos /\ lRear \in Pos /\ lStop \in Pos /\ mStop \in Pos /\ mFlush \in Pos
    BY Typed DEF IInv
  <1>2. 0 <= Diff(lRear, mFront) /\ Diff(lRear, mFront) <= Filled /\ InPipe(Diff(lRear, mFront))
    BY Distances DEF IInv, LoadInv, InPipe
  <1>3. CASE lStop # sStopLast
    <2>1. AheadOf(lStop, mFront) <= Diff(lRear, mFront)
      BY <1>3 DEF IInv, LoadInv
    <2>2. Ready = AheadOf(lStop, mFront)
      BY <1>1, <1>2, <1>3, <2>1, StopRearExact DEF Ready
    <2>3. Ready \in 0..Filled
      BY <1>2, <2>1, <2>2, Distances
    <2>4. mStop # lStop => StopAt = Filled
      BY <1>1, AtRear DEF IInv, LoadInv
    <2>5. mFlush # sFlush => FlushAt = Filled
      BY <1>1, AtRear DEF IInv, LoadInv
    <2> QED BY <2>2, <2>3, <2>4, <2>5, Distances
  <1>4. CASE lStop = sStopLast
    <2>1. Ready = Diff(lRear, mFront)
      BY <1>4 DEF Ready
    <2>2. Ready \in 0..Filled
      BY <1>2, <2>1, Distances
    <2>3. mStop # lStop => StopAt = Filled
      BY <1>1, AtRear DEF IInv, LoadInv
    <2>4. mFlush # sFlush => FlushAt = Filled
      BY <1>1, AtRear DEF IInv, LoadInv
    <2> QED BY <1>4, <2>2, <2>3, <2>4, Distances
  <1> QED BY <1>3, <1>4

LEMMA ServerReadyIInv ==
    ASSUME Wide, IInv, ServerReady
    PROVE  IInv'
  <1>1. Ready \in 0..Filled /\ InPipe(Ready)
    BY ReadyBounds, Distances DEF ServerReady, InPipe
  <1>2. sShutdown' = FALSE
    BY <1>1 DEF ServerReady
  <1>3. PositionTypes' /\ ClientTypes' /\ ServerTypes'
    BY Constants
       DEF ServerReady, Return, IInv, TypeOK, PositionTypes, ClientTypes, ServerTypes
  <1>4. FlagTypes'
    BY <1>2 DEF ServerReady, Return, IInv, TypeOK, FlagTypes
  <1>5. StorageInv' /\ HeldInv' /\ LateInv'
    BY Distances DEF ServerReady, Return, IInv, StorageInv, HeldInv, LateInv
  <1>6. RingInv'
    BY <1>2 DEF ServerReady, Return, IInv, RingInv
  <1>7. MarkInv' /\ FlushInv' /\ LoadInv'
    BY Distances DEF ServerReady, Return, IInv, MarkInv, FlushInv, LoadInv, NoAlias, Mark
  <1> QED BY <1>3, <1>4, <1>5, <1>6, <1>7 DEF IInv, TypeOK

LEMMA ServerObtainIInv ==
    ASSUME Wide, NEW ask \in Asks, IInv, ServerObtain(ask)
    PROVE  IInv'
  <1>1. Ready \in 0..Filled /\ InPipe(Ready)
    BY ReadyBounds, Distances DEF ServerObtain, InPipe
  <1>2. sShutdown' = FALSE
    BY <1>1 DEF ServerObtain
  <1>3. sUnreleased' = Chunk(mFront, Ready, ask) /\ sHeld' = Chunk(mFront, Ready, ask)
    BY <1>2 DEF ServerObtain
  <1>4. sHeld' \in 0..Ready /\ (mFront % P2) + sHeld' <= P2
    <2>1. mFront \in Pos /\ ask \in Nat /\ Ready \in 0..FrameCount
      BY <1>1, Typed, Distances, SizesAssumption DEF IInv
    <2> QED BY <1>3, <2>1, ChunkBounds
  <1>5. sHeld' \in 0..FrameCount /\ sUnreleased' = sHeld' /\ sHeld' <= Filled
    BY <1>1, <1>3, <1>4, Distances
  <1>6. /\ mStop # sStopLast => sHeld' <= StopAt
        /\ mFlush # sFlush => sHeld' <= FlushAt
    BY <1>1, <1>4, ReadyBounds, Distances DEF ServerObtain
  <1>7. PositionTypes' /\ ClientTypes'
    BY Constants DEF ServerObtain, Return, IInv, TypeOK, PositionTypes, ClientTypes
  <1>8. ServerTypes'
    BY <1>5 DEF ServerObtain, Return, IInv, TypeOK, ServerTypes
  <1>9. FlagTypes'
    BY <1>2 DEF ServerObtain, Return, IInv, TypeOK, FlagTypes
  <1>10. LateInv'
    BY Distances DEF ServerObtain, Return, IInv, LateInv
  <1>11. RingInv'
    BY <1>2 DEF ServerObtain, IInv, RingInv
  <1>12. StorageInv'
    BY <1>4 DEF ServerObtain, IInv, StorageInv
  <1>13. HeldInv'
    BY <1>5 DEF ServerObtain, Return, IInv, HeldInv
  <1>14. FlushInv' /\ LoadInv'
    BY Distances DEF ServerObtain, Return, IInv, FlushInv, LoadInv
  <1>15. MarkInv'
    BY <1>6 DEF ServerObtain, IInv, MarkInv, NoAlias, Mark
  <1> QED BY <1>7, <1>8, <1>9, <1>10, <1>11, <1>12, <1>13, <1>14, <1>15 DEF IInv, TypeOK

LEMMA ServerReleaseIInv ==
    ASSUME Wide, NEW n \in 1..FrameCount, IInv, ServerRelease(n)
    PROVE  IInv'
  <1>1. /\ n \in 0..FrameCount /\ n <= sHeld /\ sHeld \in 0..FrameCount /\ sHeld <= Filled
        /\ mFront' = Plus(mFront, n) /\ mRear' = mRear /\ sPc = "idle" /\ sHeld' = 0
        /\ UNCHANGED <<mStop, mFlush, sStopLast, sFlush, sPc, cPc, cUnreleased>>
    BY Typed, Constants DEF ServerRelease, IInv, HeldInv
  <1>2. /\ mFront' \in Pos /\ Filled' = Filled - n
        /\ \A mark \in Pos : n <= AheadOf(mark, mFront) =>
               AheadOf(mark, mFront') = AheadOf(mark, mFront) - n
    BY <1>1, FrontMoves, Distances
  <1>3. mStop \in Pos /\ mFlush \in Pos
    BY Typed DEF IInv
  <1>4. mStop # sStopLast => StopAt' = StopAt - n /\ StopAt <= Filled /\ n <= StopAt
    <2>1. mStop # sStopLast => n <= StopAt
      BY <1>1, Distances DEF IInv, MarkInv
    <2> QED BY <1>1, <1>2, <1>3, <2>1 DEF IInv, MarkInv
  <1>5. mFlush # sFlush => FlushAt' = FlushAt - n /\ FlushAt <= Filled /\ n <= FlushAt
    <2>1. mFlush # sFlush => n <= FlushAt
      BY <1>1, Distances DEF IInv, MarkInv
    <2> QED BY <1>1, <1>2, <1>3, <2>1 DEF IInv, MarkInv
  <1>6. mFront' % P2 \in 0..(P2 - 1)
    <2>1. 0 \in 0..P2
      BY Constants
    <2> QED BY <1>2, <2>1, StoragePlus
  <1>7. ClientTypes' /\ FlagTypes'
    BY Constants DEF ServerRelease, IInv, TypeOK, ClientTypes, FlagTypes
  <1>8. PositionTypes'
    BY <1>2 DEF ServerRelease, IInv, TypeOK, PositionTypes, Pos
  <1>9. ServerTypes'
    BY <1>1, Typed, Constants DEF ServerRelease, IInv, TypeOK, ServerTypes, HeldInv
  <1>10. LateInv'
    BY Distances DEF ServerRelease, IInv, LateInv
  <1>11. RingInv'
    BY <1>1, <1>2, Distances DEF ServerRelease, IInv, RingInv, InPipe, TypeOK, ClientTypes
  <1>12. StorageInv'
    BY <1>1, <1>6, Constants DEF ServerRelease, IInv, StorageInv
  <1>13. HeldInv'
    BY <1>1, <1>2, Typed, Distances DEF ServerRelease, IInv, HeldInv
  <1>14. MarkInv'
    BY <1>1, <1>2, <1>4, <1>5, Distances DEF ServerRelease, IInv, MarkInv, NoAlias, Mark
  <1>15. FlushInv'
    BY <1>1 DEF FlushInv
  <1>16. LoadInv'
    BY <1>1 DEF LoadInv
  <1> QED BY <1>7, <1>8, <1>9, <1>10, <1>11, <1>12, <1>13, <1>14, <1>15, <1>16
             DEF IInv, TypeOK

LEMMA ServerFlushFrontIInv ==
    ASSUME Wide, IInv, ServerFlushFront
    PROVE  IInv'
  <1> DEFINE n == AheadOf(lFlush, mFront)
  <1>1. /\ mFront \in Pos /\ mRear \in Pos /\ lRear \in Pos /\ lFlush \in Pos
        /\ mStop \in Pos /\ mFlush \in Pos
    BY Typed DEF IInv
  <1>2. /\ n <= Diff(lRear, mFront) /\ Diff(lRear, mFront) <= Filled /\ n \in 0..FrameCount
        /\ n <= Filled
    BY Distances DEF ServerFlushFront, IInv, FlushInv
  <1>3. mFront' = Plus(mFront, n)
    <2>1. InPipe(Diff(lRear, mFront))
      BY <1>2, Distances DEF InPipe
    <2> QED BY <1>1, <1>2, <2>1, FlushFrontExact DEF ServerFlushFront
  <1>4. /\ mFront' \in Pos /\ Filled' = Filled - n
        /\ \A mark \in Pos : n <= AheadOf(mark, mFront) =>
               AheadOf(mark, mFront') = AheadOf(mark, mFront) - n
    BY <1>2, <1>3, FrontMoves DEF ServerFlushFront
  <1>5. sHeld = 0 /\ sHeld' = 0 /\ sFlush' = lFlush /\ sPc = "front"
    BY DEF ServerFlushFront, IInv, HeldInv
  <1>6. mStop # sStopLast => StopAt' = StopAt - n /\ n <= StopAt /\ StopAt <= Filled
    <2>1. mStop # sStopLast => n <= StopAt
      BY <1>5 DEF IInv, FlushInv
    <2> QED BY <1>1, <1>4, <2>1 DEF ServerFlushFront, IInv, MarkInv
  <1>7. mFlush # lFlush => NewMark(mFlush) /\ FlushAt = Filled /\ FlushAt' = Filled - n
    <2>1. mFlush # lFlush => NewMark(mFlush) /\ FlushAt = Filled
      BY <1>1, <1>5, AtRear DEF IInv, FlushInv
    <2> QED BY <1>1, <1>2, <1>4, <2>1 DEF ServerFlushFront
  <1>8. mFront' % P2 \in 0..(P2 - 1)
    <2>1. 0 \in 0..P2
      BY Constants
    <2> QED BY <1>4, <2>1, StoragePlus
  <1>9. cPc = "stop" => Mark(mFlush) # lFlush \/ Filled' = 0
    <2>1. CASE lFlush = mFlush
      BY <1>1, <2>1, MarkParts
    <2>2. CASE Low(lFlush) = Low(mRear)
      BY <1>1, <1>4, <2>2, AtRear, Distances
    <2>3. CASE Low(lFlush) # Low(mRear)
      BY <1>1, <2>3, MarkParts
    <2> QED BY <2>1, <2>2, <2>3
  <1>10. sPc' = "idle" \/ sPc' = "stop"
    BY DEF ServerFlushFront, Return
  <1>11. cPc' = "stop" => NoAlias(mFlush, sFlush)' \/ Filled' = 0
    BY <1>5, <1>9 DEF ServerFlushFront, NoAlias, Mark
  <1> HIDE DEF n
  <1>12. ClientTypes' /\ ServerTypes' /\ FlagTypes'
    BY Constants
       DEF ServerFlushFront, Return, IInv, TypeOK, ClientTypes, ServerTypes, FlagTypes
  <1>13. PositionTypes'
    BY <1>4, Constants DEF ServerFlushFront, Return, IInv, TypeOK, PositionTypes, Pos
  <1>14. LateInv'
    BY Distances DEF ServerFlushFront, Return, IInv, LateInv
  <1>15. RingInv'
    BY <1>2, <1>4, Typed, Distances DEF ServerFlushFront, IInv, RingInv, InPipe
  <1>16. StorageInv'
    BY <1>5, <1>8, Constants DEF ServerFlushFront, IInv, StorageInv
  <1>17. HeldInv'
    BY <1>2, <1>4, <1>5, Typed, Distances DEF ServerFlushFront, Return, IInv, HeldInv
  <1>18. MarkInv'
    <2>1. /\ mFlush' = mFlush /\ mStop' = mStop /\ sStopLast' = sStopLast /\ cPc' = cPc
          /\ Low(mStop') = Low(mStop) /\ Low(mRear') = Low(mRear)
      BY DEF ServerFlushFront
    <2>2. Filled' = Filled - n /\ n \in Nat /\ n <= Filled /\ Filled \in Nat /\ StopAt \in Nat
      BY <1>2, <1>4, Distances
    <2>3. mFlush' # sFlush' => FlushAt' = Filled' /\ sHeld' <= FlushAt'
      BY <1>5, <1>7, <2>1, <2>2
    <2>4. mStop' # sStopLast' => sHeld' <= StopAt' /\ StopAt' <= Filled'
      BY <1>5, <1>6, <2>1, <2>2
    <2>5. mFlush' # sFlush' /\ mStop' # sStopLast' => FlushAt' <= StopAt'
      <3>1. mFlush # lFlush /\ mStop # sStopLast => Filled <= StopAt
        BY <1>5, <1>7, <2>2 DEF IInv, MarkInv, FlushInv
      <3> QED BY <1>5, <1>6, <1>7, <2>1, <2>2, <3>1
    <2>6. cPc' = "stop" => Low(mStop') = Low(mRear')
      BY <2>1 DEF IInv, MarkInv
    <2> HIDE DEF Filled, FlushAt, StopAt
    <2> QED BY <1>11, <2>2, <2>3, <2>4, <2>5, <2>6 DEF MarkInv
  <1>19. FlushInv'
    BY <1>10 DEF FlushInv
  <1>20. LoadInv'
    BY <1>5, <1>7 DEF ServerFlushFront, Return, IInv, LoadInv
  <1> QED BY <1>12, <1>13, <1>14, <1>15, <1>16, <1>17, <1>18, <1>19, <1>20 DEF IInv, TypeOK

LEMMA ClientReleaseIInv ==
    ASSUME Wide, Prompt, NEW n \in 1..FrameCount, IInv, ClientRelease(n)
    PROVE  IInv'
  <1>1. /\ n \in 0..FrameCount /\ n <= cUnreleased /\ mRear' = Plus(mRear, n) /\ ~late
        /\ cUnreleased \in 0..FrameCount /\ mFront \in Pos /\ mRear \in Pos
        /\ cUnreleased' = cUnreleased - n
    BY Typed, Constants DEF ClientRelease, NotLate, IInv
  <1>2. Filled' = Filled + n /\ Filled + cUnreleased <= FrameCount
    <2>1. Filled + cUnreleased <= FrameCount
      BY DEF IInv, RingInv
    <2>2. 0 <= Filled /\ Filled + n <= FrameCount
      BY <1>1, <2>1, Distances
    <2> QED BY <1>1, <2>1, <2>2, DiffMore DEF ClientRelease
  <1>3. mRear' \in Pos
    <2>1. n \in 0..Span
      BY <1>1, Constants
    <2> QED BY <1>1, <2>1, PlusParts
  <1>4. (mRear' % P2) + cUnreleased' <= P2
    <2>1. n \in 0..P2 /\ (mRear % P2) + cUnreleased <= P2
      BY <1>1, Constants DEF IInv, StorageInv
    <2> QED BY <1>1, <2>1, StoragePlus, Constants
  <1>5. cUnreleased' \in 0..FrameCount
    BY <1>1, Constants
  <1>6. ServerTypes' /\ FlagTypes'
    BY Constants DEF ClientRelease, IInv, TypeOK, ServerTypes, FlagTypes
  <1>7. PositionTypes'
    BY <1>3 DEF ClientRelease, IInv, TypeOK, PositionTypes, Pos
  <1>8. ClientTypes'
    BY <1>5 DEF ClientRelease, IInv, TypeOK, ClientTypes
  <1>9. RingInv'
    BY <1>1, <1>2, Distances DEF ClientRelease, IInv, RingInv, InPipe
  <1>10. StorageInv'
    BY <1>4 DEF ClientRelease, IInv, StorageInv
  <1>11. HeldInv'
    BY <1>1, <1>2, Typed, Distances DEF ClientRelease, IInv, HeldInv
  <1>12. LateInv'
    BY <1>1 DEF ClientRelease, IInv, LateInv
  <1>13. MarkInv'
    BY <1>1, <1>2, Distances DEF ClientRelease, IInv, MarkInv
  <1>14. FlushInv'
    BY <1>1, <1>2, Distances DEF ClientRelease, IInv, FlushInv
  <1>15. LoadInv'
    BY <1>1, <1>2, Distances DEF ClientRelease, IInv, LoadInv
  <1> QED BY <1>6, <1>7, <1>8, <1>9, <1>10, <1>11, <1>12, <1>13, <1>14, <1>15
             DEF IInv, TypeOK

LEMMA ClientStopIInv ==
    ASSUME Wide, IInv, ClientStop
    PROVE  IInv'
  <1>1. /\ mStop' \in Pos /\ Low(mStop') = Low(mRear) /\ mStop' # sStopLast
        /\ mRear' = mRear /\ mFront' = mFront
    BY Typed, MarkParts DEF ClientStop, NoAlias, IInv
  <1>2. StopAt' = Filled /\ Filled' = Filled
    BY <1>1, AtRear DEF ClientStop
  <1>3. ClientTypes' /\ ServerTypes' /\ FlagTypes'
    BY Constants DEF ClientStop, IInv, TypeOK, ClientTypes, ServerTypes, FlagTypes
  <1>4. PositionTypes'
    BY <1>1 DEF ClientStop, IInv, TypeOK, PositionTypes, Pos
  <1>5. RingInv' /\ StorageInv' /\ HeldInv' /\ LateInv'
    BY Distances DEF ClientStop, IInv, RingInv, StorageInv, HeldInv, LateInv
  <1>6. MarkInv'
    BY <1>1, <1>2, Typed, Distances DEF ClientStop, IInv, MarkInv, HeldInv, NoAlias, Mark
  <1>7. FlushInv'
    BY <1>1, <1>2, Distances DEF ClientStop, IInv, FlushInv
  <1>8. LoadInv'
    BY <1>1, <1>2, Distances DEF ClientStop, IInv, LoadInv
  <1> QED BY <1>3, <1>4, <1>5, <1>6, <1>7, <1>8 DEF IInv, TypeOK

LEMMA ClientFlushStopIInv ==
    ASSUME Wide, IInv, ClientFlushStop
    PROVE  IInv'
  <1>1. /\ mStop' \in Pos /\ Low(mStop') = Low(mRear) /\ mStop' # sStopLast
        /\ mRear' = mRear /\ mFront' = mFront
    BY Typed, MarkParts DEF ClientFlushStop, NoAlias, IInv
  <1>2. StopAt' = Filled /\ Filled' = Filled
    BY <1>1, AtRear DEF ClientFlushStop
  <1>3. ClientTypes' /\ ServerTypes' /\ FlagTypes'
    BY Constants DEF ClientFlushStop, IInv, TypeOK, ClientTypes, ServerTypes, FlagTypes
  <1>4. PositionTypes'
    BY <1>1 DEF ClientFlushStop, IInv, TypeOK, PositionTypes, Pos
  <1>5. RingInv' /\ StorageInv' /\ HeldInv' /\ LateInv'
    BY Distances DEF ClientFlushStop, IInv, RingInv, StorageInv, HeldInv, LateInv
  <1>6. MarkInv'
    BY <1>1, <1>2, Typed, Distances
       DEF ClientFlushStop, IInv, MarkInv, HeldInv, NoAlias, Mark
  <1>7. FlushInv'
    BY <1>1, <1>2, Distances DEF ClientFlushStop, IInv, FlushInv
  <1>8. LoadInv'
    BY <1>1, <1>2, Distances DEF ClientFlushStop, IInv, LoadInv
  <1> QED BY <1>3, <1>4, <1>5, <1>6, <1>7, <1>8 DEF IInv, TypeOK

LEMMA ClientFlushFlushIInv ==
    ASSUME Wide, IInv, ClientFlushFlush
    PROVE  IInv'
  <1>1. /\ mFlush' \in Pos /\ Low(mFlush') = Low(mRear)
        /\ mRear' = mRear /\ mFront' = mFront /\ mStop \in Pos
    BY Typed, MarkParts DEF ClientFlushFlush, IInv
  <1>2. FlushAt' = Filled /\ Filled' = Filled /\ StopAt = Filled
    BY <1>1, AtRear DEF ClientFlushFlush, IInv, MarkInv
  <1>3. mFlush' = sFlush => Filled = 0
    BY DEF ClientFlushFlush, IInv, MarkInv, NoAlias
  <1>4. ClientTypes' /\ ServerTypes' /\ FlagTypes'
    BY Constants DEF ClientFlushFlush, IInv, TypeOK, ClientTypes, ServerTypes, FlagTypes
  <1>5. PositionTypes'
    BY <1>1 DEF ClientFlushFlush, IInv, TypeOK, PositionTypes, Pos
  <1>6. RingInv' /\ StorageInv' /\ HeldInv' /\ LateInv'
    BY Distances DEF ClientFlushFlush, IInv, RingInv, StorageInv, HeldInv, LateInv
  <1>7. MarkInv'
    BY <1>1, <1>2, Typed, Distances DEF ClientFlushFlush, IInv, MarkInv, HeldInv
  <1>8. FlushInv'
    BY <1>1, <1>2, <1>3, Distances DEF ClientFlushFlush, IInv, FlushInv
  <1>9. LoadInv'
    BY <1>1, <1>2, Distances DEF ClientFlushFlush, IInv, LoadInv
  <1> QED BY <1>4, <1>5, <1>6, <1>7, <1>8, <1>9 DEF IInv, TypeOK

\* A binder call keeps the server's part of the invariant.
LEMMA BinderStep ==
    ASSUME Wide, IInv, ~late, Binder, cPc' # "stop",
           UNCHANGED <<mRear, mStop, mFlush, cUnreleased, cShutdown, call, late>>
    PROVE  /\ PositionTypes' /\ ServerTypes' /\ RingInv' /\ StorageInv' /\ HeldInv'
           /\ MarkInv' /\ FlushInv' /\ LoadInv' /\ active' \in BOOLEAN
  <1>1. CASE active
    <2>1. /\ mFront' = mFront /\ sFlush' = sFlush /\ active' = active /\ active \in BOOLEAN
          /\ UNCHANGED <<sShutdown, sUnreleased, sHeld>>
          /\ sStopLast' = mStop \/ sStopLast' = sStopLast
      BY <1>1 DEF Binder, IInv, TypeOK, FlagTypes
    <2>2. PositionTypes' /\ ServerTypes'
      BY <2>1 DEF IInv, TypeOK, PositionTypes, ServerTypes
    <2>3. RingInv' /\ StorageInv' /\ HeldInv'
      BY <2>1 DEF IInv, RingInv, StorageInv, HeldInv
    <2>4. MarkInv'
      BY <2>1 DEF IInv, MarkInv
    <2>5. FlushInv' /\ LoadInv'
      BY <2>1 DEF IInv, FlushInv, LoadInv
    <2> QED BY <2>1, <2>2, <2>3, <2>4, <2>5
  <1>2. CASE ~active
    <2> DEFINE n == Flushed
    <2>1. /\ FlushNow /\ UNCHANGED <<sShutdown, sUnreleased, sHeld>> /\ sPc = "idle" /\ sHeld = 0
          /\ sStopLast' = mStop \/ sStopLast' = sStopLast
          /\ active' \in BOOLEAN
      BY <1>2 DEF Binder, IInv, HeldInv, TypeOK, FlagTypes
    <2>2. n \in 0..FrameCount /\ n <= Filled /\ mFront' = Plus(mFront, n) /\ sFlush' = mFlush
      BY <2>1, FlushNowMoves DEF FlushNow
    <2>3. /\ mFront' \in Pos /\ Filled' = Filled - n
          /\ \A mark \in Pos : n <= AheadOf(mark, mFront) =>
                 AheadOf(mark, mFront') = AheadOf(mark, mFront) - n
      BY <2>2, FrontMoves
    <2>4. mStop # sStopLast => StopAt' = StopAt - n /\ n <= StopAt /\ StopAt <= Filled
      <3>1. mStop \in Pos
        BY Typed DEF IInv
      <3>2. mStop # sStopLast => n <= StopAt
        BY Distances DEF IInv, MarkInv, Flushed
      <3> QED BY <2>3, <3>1, <3>2 DEF IInv, MarkInv
    <2>5. mFront' % P2 \in 0..(P2 - 1)
      <3>1. 0 \in 0..P2
        BY Constants
      <3> QED BY <2>3, <3>1, StoragePlus
    <2> HIDE DEF n
    <2>6. PositionTypes' /\ ServerTypes'
      BY <2>1, <2>2, <2>3 DEF IInv, TypeOK, PositionTypes, ServerTypes, Pos
    <2>7. RingInv'
      BY <2>1, <2>2, <2>3, Typed, Distances DEF IInv, RingInv, InPipe
    <2>8. StorageInv'
      BY <2>1, <2>5, Constants DEF IInv, StorageInv
    <2>9. HeldInv'
      BY <2>1, <2>2, <2>3, Typed, Distances DEF IInv, HeldInv
    <2>10. MarkInv'
      BY <2>1, <2>2, <2>3, <2>4, Distances DEF IInv, MarkInv
    <2>11. FlushInv' /\ LoadInv'
      BY <2>1 DEF FlushInv, LoadInv
    <2> QED BY <2>1, <2>6, <2>7, <2>8, <2>9, <2>10, <2>11
  <1> QED BY <1>1, <1>2

LEMMA ClientStartIInv ==
    ASSUME Wide, Prompt, IInv, ClientStart
    PROVE  IInv'
  <1>1. Binder /\ ~late
    BY StartBinder DEF ClientStart, NotLate
  <1>2. /\ PositionTypes' /\ ServerTypes' /\ RingInv' /\ StorageInv' /\ HeldInv'
        /\ MarkInv' /\ FlushInv' /\ LoadInv' /\ active' \in BOOLEAN
    BY <1>1, BinderStep DEF ClientStart
  <1>3. ClientTypes'
    BY DEF ClientStart, IInv, TypeOK, ClientTypes
  <1>4. FlagTypes'
    BY <1>1, <1>2 DEF ClientStart, Binder, IInv, TypeOK, FlagTypes
  <1>5. LateInv'
    BY <1>1 DEF ClientStart, IInv, LateInv
  <1> QED BY <1>2, <1>3, <1>4, <1>5 DEF IInv, TypeOK

LEMMA ClientStartRefusedIInv ==
    ASSUME Wide, IInv, ClientStartRefused
    PROVE  IInv'
  <1>1. Binder /\ ~late
    BY StartBinder DEF ClientStartRefused, TrackRefused, IInv, LateInv, HeldInv
  <1>2. /\ PositionTypes' /\ ServerTypes' /\ RingInv' /\ StorageInv' /\ HeldInv'
        /\ MarkInv' /\ FlushInv' /\ LoadInv' /\ active' \in BOOLEAN
    BY <1>1, BinderStep DEF ClientStartRefused
  <1>3. ClientTypes'
    BY DEF ClientStartRefused, IInv, TypeOK, ClientTypes
  <1>4. FlagTypes'
    BY <1>1, <1>2 DEF ClientStartRefused, Binder, IInv, TypeOK, FlagTypes
  <1>5. LateInv'
    BY <1>1 DEF ClientStartRefused, IInv, LateInv
  <1> QED BY <1>2, <1>3, <1>4, <1>5 DEF IInv, TypeOK

LEMMA ClientRestartIInv ==
    ASSUME Wide, IInv, ClientRestart
    PROVE  IInv'
  <1>1. CASE disabled /\ cState = "ACTIVE"
    <2>1. Binder /\ ~late
      BY <1>1, StartBinder DEF ClientRestart, IInv, LateInv
    <2>2. /\ PositionTypes' /\ ServerTypes' /\ RingInv' /\ StorageInv' /\ HeldInv'
          /\ MarkInv' /\ FlushInv' /\ LoadInv' /\ active' \in BOOLEAN
      BY <2>1, BinderStep DEF ClientRestart
    <2>3. ClientTypes'
      BY DEF ClientRestart, IInv, TypeOK, ClientTypes
    <2>4. FlagTypes'
      BY <2>1, <2>2 DEF ClientRestart, Binder, IInv, TypeOK, FlagTypes
    <2>5. LateInv'
      BY <2>1 DEF ClientRestart, IInv, LateInv
    <2> QED BY <2>2, <2>3, <2>4, <2>5 DEF IInv, TypeOK
  <1>2. CASE ~(disabled /\ cState = "ACTIVE")
    <2>1. /\ UNCHANGED <<cblk, cState, cUnreleased, cShutdown, cSize, proxy, call, late, active>>
          /\ cPc' = "idle" /\ disabled' = FALSE
      BY <1>2 DEF ClientRestart
    <2>2. PositionTypes' /\ ClientTypes' /\ ServerTypes' /\ FlagTypes'
      BY <2>1 DEF IInv, TypeOK, PositionTypes, ClientTypes, ServerTypes, FlagTypes
    <2>3. RingInv' /\ StorageInv' /\ HeldInv' /\ LateInv'
      BY <2>1 DEF IInv, RingInv, StorageInv, HeldInv, LateInv
    <2>4. MarkInv' /\ FlushInv' /\ LoadInv'
      BY <2>1 DEF IInv, MarkInv, FlushInv, LoadInv
    <2> QED BY <2>2, <2>3, <2>4 DEF IInv, TypeOK
  <1> QED BY <1>1, <1>2

LEMMA ClientFlushTrackIInv ==
    ASSUME Wide, IInv, ClientFlushTrack
    PROVE  IInv'
  <1>1. CASE ~active
    <2>1. Binder /\ ~late
      BY <1>1 DEF ClientFlushTrack, Binder, IInv, LateInv, HeldInv
    <2>2. /\ PositionTypes' /\ ServerTypes' /\ RingInv' /\ StorageInv' /\ HeldInv'
          /\ MarkInv' /\ FlushInv' /\ LoadInv' /\ active' \in BOOLEAN
      BY <2>1, BinderStep DEF ClientFlushTrack
    <2>3. ClientTypes'
      BY DEF ClientFlushTrack, IInv, TypeOK, ClientTypes
    <2>4. FlagTypes'
      BY <2>1, <2>2 DEF ClientFlushTrack, Binder, IInv, TypeOK, FlagTypes
    <2>5. LateInv'
      BY <2>1 DEF ClientFlushTrack, IInv, LateInv
    <2> QED BY <2>2, <2>3, <2>4, <2>5 DEF IInv, TypeOK
  <1>2. CASE active
    <2>1. /\ UNCHANGED <<cblk, cState, cUnreleased, cShutdown, cSize, proxy, call, late, track>>
          /\ cPc' = "idle"
      BY <1>2 DEF ClientFlushTrack
    <2>2. PositionTypes' /\ ClientTypes' /\ ServerTypes' /\ FlagTypes'
      BY <2>1 DEF IInv, TypeOK, PositionTypes, ClientTypes, ServerTypes, FlagTypes
    <2>3. RingInv' /\ StorageInv' /\ HeldInv' /\ LateInv'
      BY <2>1 DEF IInv, RingInv, StorageInv, HeldInv, LateInv
    <2>4. MarkInv' /\ FlushInv' /\ LoadInv'
      BY <2>1 DEF IInv, MarkInv, FlushInv, LoadInv
    <2> QED BY <2>2, <2>3, <2>4 DEF IInv, TypeOK
  <1> QED BY <1>1, <1>2

LEMMA NextIInv ==
    ASSUME Wide, Prompt, IInv, [Next]_vars
    PROVE  IInv'
  <1>1. CASE ClientNext
    BY <1>1, ClientObtainIInv, ClientObtainFailsIInv, ClientReleaseIInv, ClientRestartIInv,
       ClientStartIInv, ClientStartRefusedIInv, ClientPauseIInv, ClientStopIInv,
       ClientFlushStopIInv, ClientFlushFlushIInv, ClientFlushTrackIInv, ClientSetSizeIInv
       DEF ClientNext
  <1>2. CASE ServerNext
    BY <1>2, ServerCallIInv, ServerFlushRearIInv, ServerFlushFrontIInv, ServerStopIInv,
       ServerRearIInv, ServerReadyIInv, ServerObtainIInv, ServerReleaseIInv, DeactivateIInv
       DEF ServerNext
  <1>3. CASE UNCHANGED vars
    <2>1. PositionTypes' /\ ClientTypes' /\ ServerTypes' /\ FlagTypes'
      BY <1>3 DEF vars, IInv, TypeOK, PositionTypes, ClientTypes, ServerTypes, FlagTypes
    <2>2. RingInv' /\ StorageInv' /\ HeldInv' /\ LateInv'
      BY <1>3 DEF vars, IInv, RingInv, StorageInv, HeldInv, LateInv
    <2>3. MarkInv' /\ FlushInv' /\ LoadInv'
      BY <1>3 DEF vars, IInv, MarkInv, FlushInv, LoadInv, NoAlias, Mark
    <2> QED BY <2>1, <2>2, <2>3 DEF IInv, TypeOK
  <1> QED BY <1>1, <1>2, <1>3 DEF Next

--------------------------------------------------------------------------------
(* The control block is a FIFO with flush.                                 *)

\* The frames that a flush which is not yet carried out dooms.
Doomed == IF mFlush = sFlush THEN 0 ELSE FlushAt

\* The state of the FIFO.
LEMMA FifoState ==
    /\ Fifo!fifo = <<Filled, Doomed, cUnreleased, sHeld>>
    /\ Fifo!fifo' = <<Filled', Doomed', cUnreleased', sHeld'>>
  BY DEF Fifo!fifo, Doomed, Ahead, AheadOf

\* The steps of the FIFO in the terms of the control block.
LEMMA FifoSteps ==
    ASSUME \/ /\ cUnreleased' \in 0..(FrameCount - Filled)
              /\ UNCHANGED <<Filled, Doomed, sHeld>>
           \/ \E n \in 1..cUnreleased :
                 /\ Filled' = Filled + n /\ cUnreleased' = cUnreleased - n
                 /\ UNCHANGED <<Doomed, sHeld>>
           \/ Doomed' = Filled /\ UNCHANGED <<Filled, cUnreleased, sHeld>>
           \/ /\ sHeld = 0 /\ sHeld' \in 0..(IF Doomed > 0 THEN Doomed ELSE Filled)
              /\ UNCHANGED <<Filled, Doomed, cUnreleased>>
           \/ \E n \in 1..sHeld :
                 /\ Filled' = Filled - n /\ Doomed' = IF n < Doomed THEN Doomed - n ELSE 0
                 /\ sHeld' = 0 /\ UNCHANGED cUnreleased
           \/ /\ sHeld = 0
              /\ \E n \in 1..Doomed : Filled' = Filled - n /\ Doomed' = Doomed - n
              /\ UNCHANGED <<cUnreleased, sHeld>>
    PROVE  Fifo!Next
  BY DEF Fifo!Next, Fifo!Reserve, Fifo!Write, Fifo!Flush, Fifo!Take, Fifo!Consume,
         Fifo!Discard,
         Doomed, Ahead, AheadOf

LEMMA DoomedType ==
    ASSUME IInv
    PROVE  Doomed \in 0..Filled /\ sHeld \in 0..Filled /\ cUnreleased \in 0..FrameCount
  BY Typed, Distances DEF Doomed, IInv, MarkInv, HeldInv

\* A step that moves mFront by n frames that a flush has doomed.
LEMMA DiscardStep ==
    ASSUME IInv, NEW n \in 0..Doomed, Filled' = Filled - n, Doomed' = Doomed - n, sHeld = 0,
           UNCHANGED <<cUnreleased, sHeld>>
    PROVE  [Fifo!Next]_(Fifo!fifo)
  <1>1. CASE n = 0
    <2>1. UNCHANGED <<Filled, Doomed, cUnreleased, sHeld>>
      BY <1>1, DoomedType, Distances
    <2> QED BY <2>1, FifoState
  <1>2. CASE n # 0
    <2>1. n \in 1..Doomed
      BY <1>2, DoomedType, Distances
    <2> QED BY <2>1, FifoSteps
  <1> QED BY <1>1, <1>2

LEMMA BinderFifo ==
    ASSUME Wide, IInv, Binder, UNCHANGED <<mRear, mFlush, cUnreleased>>
    PROVE  [Fifo!Next]_(Fifo!fifo)
  <1>1. CASE active
    <2>1. UNCHANGED <<Filled, Doomed, cUnreleased, sHeld>>
      BY <1>1 DEF Binder, Doomed
    <2> QED BY <2>1, FifoState
  <1>2. CASE ~active
    <2>1. FlushNow /\ sHeld = 0 /\ sHeld' = sHeld /\ sFlush' = mFlush
      BY <1>2 DEF Binder, FlushNow, IInv, HeldInv
    <2>2. Flushed \in 0..FrameCount /\ Flushed <= Filled /\ mFront' = Plus(mFront, Flushed)
      BY <2>1, FlushNowMoves
    <2>3. Filled' = Filled - Flushed
      BY <2>2, FrontMoves
    <2>4. Flushed = Doomed /\ Doomed' = 0 /\ Doomed \in 0..Doomed /\ Doomed - Doomed = 0
      BY <2>1, DoomedType, Distances DEF Flushed, Doomed
    <2> QED BY <2>1, <2>3, <2>4, DiscardStep
  <1> QED BY <1>1, <1>2

LEMMA FlushFrontFifo ==
    ASSUME Wide, IInv, ServerFlushFront
    PROVE  [Fifo!Next]_(Fifo!fifo)
  <1> DEFINE n == AheadOf(lFlush, mFront)
  <1>1. /\ mFront \in Pos /\ mRear \in Pos /\ lRear \in Pos /\ lFlush \in Pos /\ mFlush \in Pos
    BY Typed DEF IInv
  <1>2. /\ n <= Diff(lRear, mFront) /\ Diff(lRear, mFront) <= Filled /\ n \in 0..FrameCount
        /\ n <= Filled /\ sPc = "front"
    BY Distances DEF ServerFlushFront, IInv, FlushInv
  <1>3. mFront' = Plus(mFront, n)
    <2>1. InPipe(Diff(lRear, mFront))
      BY <1>2, Distances DEF InPipe
    <2> QED BY <1>1, <1>2, <2>1, FlushFrontExact DEF ServerFlushFront
  <1>4. /\ Filled' = Filled - n
        /\ n <= AheadOf(mFlush, mFront) => AheadOf(mFlush, mFront') = FlushAt - n
    BY <1>1, <1>2, <1>3, FrontMoves DEF ServerFlushFront
  <1>5. mFlush # lFlush => FlushAt = Filled
    BY <1>1, <1>2, AtRear DEF IInv, FlushInv
  <1>6. mFlush = sFlush => Filled = 0 /\ mFlush # lFlush
    BY <1>2 DEF IInv, FlushInv
  <1>7. sFlush' = lFlush /\ mFlush' = mFlush /\ sHeld = 0 /\ UNCHANGED <<cUnreleased, sHeld>>
    BY DEF ServerFlushFront, IInv, HeldInv
  <1>8. n \in 0..Doomed /\ Doomed' = Doomed - n
    <2>1. n <= FlushAt /\ FlushAt \in Nat
      BY <1>2, <1>5, Distances
    <2>2. AheadOf(mFlush, mFront') = FlushAt - n
      BY <1>4, <2>1
    <2>3. Doomed = FlushAt
      BY <1>5, <1>6 DEF Doomed
    <2>4. Doomed' = FlushAt - n
      <3>1. CASE mFlush = lFlush
        <4>1. n = FlushAt
          BY <3>1
        <4> QED BY <1>7, <2>1, <3>1, <4>1 DEF Doomed
      <3>2. CASE mFlush # lFlush
        BY <1>7, <2>2, <3>2 DEF Doomed
      <3> QED BY <3>1, <3>2
    <2> QED BY <1>2, <2>1, <2>3, <2>4
  <1> HIDE DEF n
  <1> QED BY <1>4, <1>7, <1>8, DiscardStep

LEMMA ServerFifo ==
    ASSUME Wide, Prompt, IInv, IInv', ServerNext
    PROVE  [Fifo!Next]_(Fifo!fifo)
  <1>1. CASE ServerFlushFront
    BY <1>1, FlushFrontFifo
  <1>2. ASSUME NEW ask \in Asks, ServerObtain(ask) PROVE [Fifo!Next]_(Fifo!fifo)
    <2>1. UNCHANGED <<Filled, Doomed, cUnreleased>> /\ sHeld = 0
      BY <1>2 DEF ServerObtain, Doomed, IInv, HeldInv
    <2>2. sHeld' \in 0..Filled /\ (mFlush # sFlush => sHeld' <= FlushAt)
      BY <1>2, <2>1, Typed, Distances, IInv'
         DEF ServerObtain, IInv, HeldInv, MarkInv, TypeOK, ServerTypes
    <2>3. sHeld' \in 0..(IF Doomed > 0 THEN Doomed ELSE Filled)
      BY <2>2, Distances DEF Doomed
    <2> QED BY <2>1, <2>3, FifoSteps
  <1>3. ASSUME NEW n \in 1..FrameCount, ServerRelease(n) PROVE [Fifo!Next]_(Fifo!fifo)
    <2>1. /\ n \in 1..sHeld /\ n \in 0..FrameCount /\ n <= Filled /\ sHeld \in 0..FrameCount
          /\ mFront' = Plus(mFront, n) /\ mRear' = mRear /\ sHeld' = 0
          /\ UNCHANGED <<mFlush, sFlush, cUnreleased>> /\ mFlush \in Pos
      BY <1>3, Typed, Distances, DoomedType DEF ServerRelease, IInv
    <2>2. /\ Filled' = Filled - n
          /\ n <= AheadOf(mFlush, mFront) => AheadOf(mFlush, mFront') = FlushAt - n
      BY <2>1, FrontMoves
    <2>3. mFlush # sFlush => n <= FlushAt
      BY <2>1, Distances DEF IInv, MarkInv
    <2>4. Doomed' = IF n < Doomed THEN Doomed - n ELSE 0
      <3>1. CASE mFlush = sFlush
        BY <2>1, <3>1 DEF Doomed
      <3>2. CASE mFlush # sFlush
        BY <2>1, <2>2, <2>3, <3>2, Distances DEF Doomed
      <3> QED BY <3>1, <3>2
    <2> QED BY <2>1, <2>2, <2>4, FifoSteps
  <1>4. CASE Deactivate
    <2>1. sHeld = 0 /\ sHeld' = 0
      BY <1>4 DEF Deactivate, IInv, RingInv
    <2>2. UNCHANGED <<Filled, Doomed, cUnreleased, sHeld>>
      BY <1>4, <2>1 DEF Deactivate, Doomed
    <2> QED BY <2>2, FifoState
  <1>5. CASE \/ \E op \in {"flush", "ready", "obtain"} : ServerCall(op)
             \/ ServerFlushRear \/ ServerStop \/ ServerRear \/ ServerReady
    <2>1. UNCHANGED <<Filled, Doomed, cUnreleased, sHeld>>
      BY <1>5 DEF ServerCall, ServerFlushRear, ServerStop, ServerRear, ServerReady, Doomed
    <2> QED BY <2>1, FifoState
  <1> QED BY <1>1, <1>2, <1>3, <1>4, <1>5 DEF ServerNext

LEMMA ClientFifo ==
    ASSUME Wide, Prompt, IInv, IInv', ClientNext
    PROVE  [Fifo!Next]_(Fifo!fifo)
  <1>1. CASE (\E ask \in Asks : ClientObtain(ask)) \/ ClientObtainFails
    <2>1. UNCHANGED <<Filled, Doomed, sHeld>>
      BY <1>1 DEF ClientObtain, ClientObtainFails, Doomed
    <2>2. cUnreleased' \in 0..FrameCount /\ Filled' + cUnreleased' <= FrameCount
      BY DEF IInv, RingInv, TypeOK, ClientTypes
    <2>3. cUnreleased' \in 0..(FrameCount - Filled)
      BY <2>1, <2>2, Distances
    <2> QED BY <2>1, <2>3, FifoSteps
  <1>2. ASSUME NEW n \in 1..FrameCount, ClientRelease(n) PROVE [Fifo!Next]_(Fifo!fifo)
    <2>1. /\ n \in 1..cUnreleased /\ mRear' = Plus(mRear, n) /\ mFront \in Pos /\ mRear \in Pos
          /\ cUnreleased' = cUnreleased - n /\ n \in 0..FrameCount
          /\ UNCHANGED <<Doomed, sHeld>>
      BY <1>2, Typed, Constants DEF ClientRelease, IInv, Doomed
    <2>2. 0 <= Filled /\ Filled + n <= FrameCount
      BY <2>1, Typed, Distances DEF IInv, RingInv
    <2>3. Filled' = Filled + n
      BY <1>2, <2>1, <2>2, DiffMore DEF ClientRelease
    <2> QED BY <2>1, <2>3, FifoSteps
  <1>3. CASE ClientFlushFlush
    <2>1. UNCHANGED <<Filled, cUnreleased, sHeld>> /\ mFront' = mFront /\ sFlush' = sFlush
      BY <1>3 DEF ClientFlushFlush
    <2>2. AheadOf(mFlush', mFront) = Filled
      <3>1. mFlush' \in Pos /\ Low(mFlush') = Low(mRear)
        BY <1>3, Typed, MarkParts DEF ClientFlushFlush, IInv
      <3> QED BY <3>1, AtRear
    <2>3. mFlush' = sFlush => Filled = 0
      BY <1>3 DEF ClientFlushFlush, IInv, MarkInv, NoAlias
    <2>4. Doomed' = Filled
      BY <2>1, <2>2, <2>3 DEF Doomed
    <2> QED BY <2>1, <2>4, FifoSteps
  <1>4. CASE ClientStart \/ ClientStartRefused
    <2>1. UNCHANGED <<mRear, mStop, mFlush, cUnreleased>> /\ (TrackStart \/ TrackRefused)
      BY <1>4 DEF ClientStart, ClientStartRefused
    <2> QED BY <2>1, StartBinder, BinderFifo
  <1>5. CASE ClientRestart
    <2>1. CASE disabled /\ cState = "ACTIVE"
      <3>1. UNCHANGED <<mRear, mStop, mFlush, cUnreleased>> /\ (TrackStart \/ TrackRefused)
        BY <1>5, <2>1 DEF ClientRestart
      <3> QED BY <3>1, StartBinder, BinderFifo
    <2>2. CASE ~(disabled /\ cState = "ACTIVE")
      <3>1. UNCHANGED <<Filled, Doomed, cUnreleased, sHeld>>
        BY <1>5, <2>2 DEF ClientRestart, Doomed
      <3> QED BY <3>1, FifoState
    <2> QED BY <2>1, <2>2
  <1>6. CASE ClientFlushTrack
    <2>1. UNCHANGED <<mRear, mFlush, cUnreleased>> /\ Binder
      BY <1>6 DEF ClientFlushTrack, Binder
    <2> QED BY <2>1, BinderFifo
  <1>7. CASE \/ ClientPause \/ ClientStop \/ ClientFlushStop
             \/ \E size \in Sizes : ClientSetSize(size)
    <2>1. UNCHANGED <<Filled, Doomed, cUnreleased, sHeld>>
      BY <1>7 DEF ClientPause, ClientStop, ClientFlushStop, ClientSetSize, Doomed
    <2> QED BY <2>1, FifoState
  <1> QED BY <1>1, <1>2, <1>3, <1>4, <1>5, <1>6, <1>7 DEF ClientNext

LEMMA FifoStep ==
    ASSUME Wide, Prompt, IInv, IInv', [Next]_vars
    PROVE  [Fifo!Next]_(Fifo!fifo)
  <1>1. CASE UNCHANGED vars
    <2>1. UNCHANGED <<Filled, Doomed, cUnreleased, sHeld>>
      BY <1>1 DEF vars, Doomed
    <2> QED BY <2>1, FifoState
  <1> QED BY <1>1, ClientFifo, ServerFifo DEF Next

--------------------------------------------------------------------------------
(* The theorems.                                                           *)

\* The invariant holds in every reachable state of a track whose mixer is prompt and
\* whose positions are at least four times as many as a mark tells apart.
THEOREM Invariance == ASSUME Wide, Prompt PROVE Spec => []IInv
  BY InitIInv, NextIInv, PTL DEF Spec

\* "pipe should not be overfull": obtainBuffer() of neither side shuts the track down,
\* for every buffer size, over wraps of the positions and however stops and flushes
\* fall between the mixer's loads.
THEOREM NeverOverfull == ASSUME Wide, Prompt PROVE Spec => []PipeNotOverfull
  <1>1. IInv => PipeNotOverfull
    BY DEF IInv, RingInv, PipeNotOverfull
  <1> QED BY <1>1, Invariance, PTL

\* The mixer never reads beyond a stop position before the next start().
THEOREM StopIsHonoured == ASSUME Wide, Prompt PROVE Spec => []StopHonoured
  <1>1. IInv => StopHonoured
    BY DEF IInv, MarkInv, StopHonoured, Ahead, AheadOf
  <1> QED BY <1>1, Invariance, PTL

\* flushBufferIfNeeded() reconstructs the very position the client flushed at from the
\* low bits in mFlush, on whichever sides of a multiple of Span mFront and mRear are.
THEOREM FlushIsExact == ASSUME Wide, Prompt PROVE Spec => []FlushExact
  <1>1. ASSUME Wide, IInv PROVE FlushExact
    <2> SUFFICES ASSUME sPc = "front"
                 PROVE  FlushFront(mFront, lRear, lFlush) = Plus(mFront, AheadOf(lFlush, mFront))
      BY DEF FlushExact, Ahead, AheadOf
    <2>1. mFront \in Pos /\ lRear \in Pos /\ lFlush \in Pos
      BY <1>1, Typed DEF IInv
    <2>2. AheadOf(lFlush, mFront) <= Diff(lRear, mFront) /\ InPipe(Diff(lRear, mFront))
      BY <1>1, Distances DEF IInv, FlushInv, InPipe
    <2> QED BY <1>1, <2>1, <2>2, FlushFrontExact
  <1> QED BY <1>1, Invariance, PTL

\* Frames at different distances from a position are at different places.
LEMMA PlacesDiffer ==
    ASSUME NEW p \in Pos, NEW i \in 0..(P2 - 1), NEW j \in 0..(P2 - 1),
           Plus(p, i) % P2 = Plus(p, j) % P2
    PROVE  i = j
  <1>1. i \in 0..P2 /\ j \in 0..P2
    BY Constants
  <1> QED BY <1>1, StoragePlus, Constants

\* Two steps forward are one.
LEMMA PlusPlus ==
    ASSUME NEW p \in Pos, NEW i \in 0..P2, NEW j \in 0..P2, i + j <= P2
    PROVE  Plus(Plus(p, i), j) = Plus(p, i + j)
  BY Constants DEF Plus, Pos

\* The frames the client fills are never frames that the mixer reads or will read, and
\* neither region crosses the end of the storage, also when mFrameCount is not a power
\* of two and the client resizes its buffer.
THEOREM RegionsAreDisjoint == ASSUME Wide, Prompt PROVE Spec => []RegionsDisjoint
  <1>1. ASSUME IInv PROVE RegionsDisjoint
    <2>1. /\ mFront \in Pos /\ mRear \in Pos /\ Filled \in 0..FrameCount
          /\ cUnreleased \in 0..FrameCount /\ sHeld \in 0..FrameCount
          /\ Filled + cUnreleased <= FrameCount /\ sHeld <= Filled
          /\ mRear = Plus(mFront, Filled)
      BY <1>1, Typed, Distances, PlusDiff DEF IInv, RingInv, HeldInv
    <2>2. ASSUME NEW i \in 0..(cUnreleased - 1), NEW j \in 0..(Filled - 1),
                 Plus(mRear, i) % P2 = Plus(mFront, j) % P2
          PROVE  FALSE
      <3>1. /\ i \in 0..P2 /\ Filled \in 0..P2 /\ Filled + i <= P2
            /\ Filled + i \in 0..(P2 - 1) /\ j \in 0..(P2 - 1) /\ j # Filled + i
        BY <2>1, <2>2, Constants
      <3>2. Plus(mRear, i) = Plus(mFront, Filled + i)
        <4> HIDE DEF Filled
        <4> QED BY <2>1, <3>1, PlusPlus
      <3> HIDE DEF Filled
      <3> QED BY <2>1, <2>2, <3>1, <3>2, PlacesDiffer
    <2>3. Slots(mRear, cUnreleased) \cap Slots(mFront, Diff(mRear, mFront)) = {}
      BY <2>2 DEF Slots
    <2>4. Slots(mFront, sHeld) \subseteq Slots(mFront, Diff(mRear, mFront))
      <3>1. \A i \in 0..(sHeld - 1) : i \in 0..(Filled - 1)
        BY <2>1
      <3> QED BY <3>1 DEF Slots
    <2> QED BY <1>1, <2>3, <2>4 DEF RegionsDisjoint, IInv, StorageInv
  <1> QED BY <1>1, Invariance, PTL

\* The two proxies over one control block implement the FIFO with flush: every step of
\* either is one of its steps or changes nothing of it.
THEOREM Refinement == ASSUME Wide, Prompt PROVE Spec => ImplementsFifo
  <1>1. Init => Fifo!Init
    <2>1. Init => Filled = 0 /\ Doomed = 0
      <3>1. 0 \in Pos
        BY Constants DEF Pos
      <3> QED BY <3>1, DiffSelf DEF Init, Doomed
    <2> QED BY <2>1 DEF Init, Fifo!Init, Doomed, Ahead, AheadOf
  <1>2. ASSUME Wide, Prompt, IInv, IInv', [Next]_vars PROVE [Fifo!Next]_(Fifo!fifo)
    BY <1>2, FifoStep
  <1> QED BY <1>1, <1>2, Invariance, PTL DEF Spec, Fifo!Spec, ImplementsFifo

================================================================================
