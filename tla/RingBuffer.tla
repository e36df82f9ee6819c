------------------------------- MODULE RingBuffer -------------------------------
(***************************************************************************)
(* The cursor arithmetic of CRingBuffer (ringbuffer.cpp).  A ring is a     *)
(* record of its three UINT16 cursors: end, where bytes are added; begin,  *)
(* where they are discarded; push, up to where whole packets have been     *)
(* announced.  Each operator is what one method does while it holds        *)
(* m_oBuffLock.  MAX_MESSAGE_LEN is 65535, the largest UINT16, and the     *)
(* constant keeps that relation: cursors are computed modulo               *)
(* MaxMessageLen + 1.                                                      *)
(***************************************************************************)
EXTENDS Integers

CONSTANT MaxMessageLen     \* MAX_MESSAGE_LEN, the size of m_szMessBuf

ASSUME RingAssumption == MaxMessageLen \in Nat \ {0}

\* Conversion to UINT16.
UINT16(x) == x % (MaxMessageLen + 1)

Cursors == 0 .. MaxMessageLen
Rings == [begin : Cursors, end : Cursors, push : Cursors]

\* The constructor.
EmptyRing == [begin |-> 0, end |-> 0, push |-> 0]

\* Mutants of PushLen: the bytes in front of begin are not spared; no byte stays free.
PushLenToTheEnd(r) ==
  UINT16(IF r.begin = 0 THEN MaxMessageLen - r.end - 1 ELSE MaxMessageLen - r.end)
PushLenToBegin(r) ==
  UINT16(IF r.begin > r.end THEN r.begin - r.end ELSE MaxMessageLen - r.end)

\* GetBufPushPtrAndLen: how many bytes can be added at end in one piece.
PushLen(r) ==
  UINT16(IF r.begin > r.end THEN r.begin - r.end - 1
         ELSE IF r.begin = 0 THEN MaxMessageLen - r.end - 1
         ELSE MaxMessageLen - r.end)

\* Mutant of PopLen: as if the bytes always went around the end.
PopLenToTheEnd(r) == UINT16(MaxMessageLen - r.begin)

\* GetBufPopPtrAndLen: how many bytes can be taken from begin in one piece.
PopLen(r) ==
  UINT16(IF r.begin <= r.end THEN r.end - r.begin
         ELSE IF r.end = 0 THEN MaxMessageLen - r.begin - 1
         ELSE MaxMessageLen - r.begin)

\* GetRealLen: how many bytes lie between a cursor (begin or push) and end.
RealLen(cursor, r) ==
  UINT16(IF cursor > r.end THEN MaxMessageLen - cursor + r.end ELSE r.end - cursor)

AddBufLen(r, n) ==
  LET sum == UINT16(r.end + n)
  IN  [r EXCEPT !.end = IF sum >= MaxMessageLen THEN sum - MaxMessageLen ELSE sum]

\* What DiscardLen and DiscardMessPushLen do to their cursor.
Discarded(cursor, r, n) ==
  LET sum == UINT16(cursor + n)
      least(c) == IF c > r.end THEN r.end ELSE c
  IN  IF cursor <= r.end THEN least(sum)
      ELSE IF sum > MaxMessageLen THEN least(sum - MaxMessageLen)
      ELSE sum

DiscardLen(r, n) == [r EXCEPT !.begin = Discarded(@, r, n)]
DiscardMessPushLen(r, n) == [r EXCEPT !.push = Discarded(@, r, n)]

\* MemcpyBuf of n bytes from a cursor: the byte dst[i] is copied from, or Untouched.
\* When the bytes wrap around, both halves are copied to the start of dst.
Untouched == -1
CopiedFrom(cursor, r, n) ==
  LET first == MaxMessageLen - cursor
      wraps == cursor > r.end /\ n > first
  IN  [i \in 0 .. n - 1 |->
         IF wraps THEN IF i < n - first THEN i
                       ELSE IF i < first THEN cursor + i ELSE Untouched
         ELSE cursor + i]

================================================================================
