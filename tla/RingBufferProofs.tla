---------------------------- MODULE RingBufferProofs ----------------------------
(***************************************************************************)
(* What the cursor arithmetic of CRingBuffer computes, for any size: the   *)
(* facts that the proofs about its users cite.                             *)
(***************************************************************************)
EXTENDS RingBuffer, TLAPS

\* The cursors a ring is used with: end is a slot, and begin may be MaxMessageLen,
\* which stands for slot 0, while end is in front of it.
InRange(r) ==
  /\ r \in Rings
  /\ r.end < MaxMessageLen
  /\ r.begin = MaxMessageLen => r.end > 0

\* The same three lengths without the conversions to UINT16.
RoomAtEnd(b, e) ==
  IF b > e THEN b - e - 1 ELSE IF b = 0 THEN MaxMessageLen - e - 1 ELSE MaxMessageLen - e
AtBegin(b, e) ==
  IF b <= e THEN e - b ELSE IF e = 0 THEN MaxMessageLen - b - 1 ELSE MaxMessageLen - b
Between(b, e) == IF b > e THEN MaxMessageLen - b + e ELSE e - b

\* A conversion to UINT16 keeps what fits.
LEMMA UINT16Facts ==
  ASSUME NEW x \in Cursors
  PROVE  UINT16(x) = x
BY RingAssumption, SMT DEF UINT16, Cursors

\* GetBufPushPtrAndLen, GetBufPopPtrAndLen and GetRealLen never truncate.
LEMMA LengthFacts ==
  ASSUME NEW r, InRange(r)
  PROVE  /\ PushLen(r) = RoomAtEnd(r.begin, r.end)
         /\ PopLen(r) = AtBegin(r.begin, r.end)
         /\ RealLen(r.begin, r) = Between(r.begin, r.end)
         /\ PushLen(r) \in 0 .. MaxMessageLen - 1
         /\ PopLen(r) \in 0 .. MaxMessageLen - 1
         /\ RealLen(r.begin, r) \in 0 .. MaxMessageLen - 1
         /\ PushLen(r) + RealLen(r.begin, r) <= MaxMessageLen - 1
         /\ PopLen(r) <= RealLen(r.begin, r)
<1> DEFINE b == r.begin
           e == r.end
<1>1. /\ b \in 0 .. MaxMessageLen /\ e \in 0 .. MaxMessageLen - 1
      /\ b = MaxMessageLen => e > 0
  BY RingAssumption, SMT DEF InRange, Rings, Cursors
<1>2. /\ RoomAtEnd(b, e) \in 0 .. MaxMessageLen - 1
      /\ AtBegin(b, e) \in 0 .. MaxMessageLen - 1
      /\ Between(b, e) \in 0 .. MaxMessageLen - 1
      /\ RoomAtEnd(b, e) + Between(b, e) <= MaxMessageLen - 1
      /\ AtBegin(b, e) <= Between(b, e)
  BY <1>1, RingAssumption, SMT DEF RoomAtEnd, AtBegin, Between
<1>3. /\ UINT16(RoomAtEnd(b, e)) = RoomAtEnd(b, e)
      /\ UINT16(AtBegin(b, e)) = AtBegin(b, e)
      /\ UINT16(Between(b, e)) = Between(b, e)
  <2>1. 0 .. MaxMessageLen - 1 \subseteq Cursors
    BY RingAssumption, SMT DEF Cursors
  <2> QED BY <2>1, <1>2, UINT16Facts, Zenon
<1>4. /\ PushLen(r) = UINT16(RoomAtEnd(b, e))
      /\ PopLen(r) = UINT16(AtBegin(b, e))
      /\ RealLen(b, r) = UINT16(Between(b, e))
  BY Zenon DEF PushLen, PopLen, RealLen, RoomAtEnd, AtBegin, Between
<1> QED BY <1>2, <1>3, <1>4

\* AddBufLen of no more bytes than there is room for: end moves on, and goes to slot 0
\* when it meets the end of the buffer.
LEMMA AddFacts ==
  ASSUME NEW r, InRange(r), NEW n \in 1 .. PushLen(r)
  PROVE  /\ InRange(AddBufLen(r, n))
         /\ AddBufLen(r, n) = [r EXCEPT !.end = IF r.end + n = MaxMessageLen THEN 0
                                                ELSE r.end + n]
         /\ RealLen(r.begin, AddBufLen(r, n)) = RealLen(r.begin, r) + n
         /\ PopLen(AddBufLen(r, n)) >= PopLen(r)
<1> DEFINE b == r.begin
           e == r.end
           f == IF e + n = MaxMessageLen THEN 0 ELSE e + n
           s == [r EXCEPT !.end = f]
<1>1. /\ r \in Rings
      /\ b \in 0 .. MaxMessageLen /\ e \in 0 .. MaxMessageLen - 1
      /\ b = MaxMessageLen => e > 0
  BY RingAssumption, SMT DEF InRange, Rings, Cursors
<1>2. n \in 1 .. RoomAtEnd(b, e)
  BY LengthFacts, Zenon
<1>3. /\ e + n \in Cursors
      /\ f \in 0 .. MaxMessageLen - 1
      /\ b = MaxMessageLen => f > 0
      /\ Between(b, f) = Between(b, e) + n
      /\ AtBegin(b, f) >= AtBegin(b, e)
  BY <1>1, <1>2, RingAssumption, SMT DEF RoomAtEnd, Between, AtBegin, Cursors
<1>4. AddBufLen(r, n) = s
  <2>1. UINT16(e + n) = e + n
    BY <1>3, UINT16Facts
  <2>2. (IF UINT16(e + n) >= MaxMessageLen THEN UINT16(e + n) - MaxMessageLen
                                            ELSE UINT16(e + n)) = f
    BY <2>1, <1>1, <1>2, <1>3, RingAssumption, SMT DEF Cursors
  <2>3. AddBufLen(r, n) = [r EXCEPT !.end = IF UINT16(e + n) >= MaxMessageLen
                                            THEN UINT16(e + n) - MaxMessageLen
                                            ELSE UINT16(e + n)]
    BY Zenon DEF AddBufLen
  <2> HIDE DEF f
  <2> QED BY <2>2, <2>3, Zenon
<1>5. s \in Rings /\ s.begin = b /\ s.end = f
  BY <1>1, <1>3, RingAssumption, SMT DEF Rings, Cursors
<1>6. InRange(s)
  BY <1>3, <1>5, RingAssumption, SMT DEF InRange
<1>7. /\ RealLen(b, s) = Between(b, f) /\ PopLen(s) = AtBegin(b, f)
      /\ RealLen(b, r) = Between(b, e) /\ PopLen(r) = AtBegin(b, e)
  BY <1>5, <1>6, LengthFacts
<1> QED BY <1>3, <1>4, <1>6, <1>7

\* DiscardLen of no more bytes than can be taken in one piece: begin moves on and never
\* goes around the end, it stops at MaxMessageLen.
LEMMA DiscardFacts ==
  ASSUME NEW r, InRange(r), NEW n \in 1 .. PopLen(r)
  PROVE  /\ InRange(DiscardLen(r, n))
         /\ DiscardLen(r, n) = [r EXCEPT !.begin = r.begin + n]
         /\ RealLen(r.begin + n, r) = RealLen(r.begin, r) - n
         /\ PushLen(DiscardLen(r, n)) >= PushLen(r)
<1> DEFINE b == r.begin
           e == r.end
           s == [r EXCEPT !.begin = b + n]
<1>1. /\ r \in Rings
      /\ b \in 0 .. MaxMessageLen /\ e \in 0 .. MaxMessageLen - 1
      /\ b = MaxMessageLen => e > 0
  BY RingAssumption, SMT DEF InRange, Rings, Cursors
<1>2. n \in 1 .. AtBegin(b, e)
  BY LengthFacts, Zenon
<1>3. /\ b + n \in Cursors
      /\ b + n = MaxMessageLen => e > 0
      /\ b <= e => b + n <= e
      /\ Between(b + n, e) = Between(b, e) - n
      /\ RoomAtEnd(b + n, e) >= RoomAtEnd(b, e)
  BY <1>1, <1>2, RingAssumption, SMT DEF RoomAtEnd, Between, AtBegin, Cursors
<1>4. Discarded(b, r, n) = b + n
  <2>1. UINT16(b + n) = b + n
    BY <1>3, UINT16Facts
  <2> QED BY <2>1, <1>1, <1>2, <1>3, RingAssumption, SMT DEF Discarded, Cursors
<1>5. DiscardLen(r, n) = s
  BY <1>4 DEF DiscardLen
<1>6. s \in Rings /\ s.begin = b + n /\ s.end = e
  BY <1>1, <1>3, RingAssumption, SMT DEF Rings, Cursors
<1>7. InRange(s)
  BY <1>1, <1>3, <1>6, RingAssumption, SMT DEF InRange
<1>8. /\ RealLen(b + n, s) = Between(b + n, e) /\ PushLen(s) = RoomAtEnd(b + n, e)
      /\ RealLen(b, r) = Between(b, e) /\ PushLen(r) = RoomAtEnd(b, e)
  BY <1>6, <1>7, LengthFacts
<1>9. RealLen(b + n, r) = RealLen(b + n, s)
  BY <1>6 DEF RealLen
<1> QED BY <1>3, <1>5, <1>7, <1>8, <1>9

================================================================================
