----------------------------- MODULE SendPathProofs -----------------------------
(***************************************************************************)
(* Proofs about SendPath for any size of the buffer, any messages and any  *)
(* number of tries: the bytes that go in come out in order, although both  *)
(* threads use pointers and lengths that are no longer current.            *)
(***************************************************************************)
EXTENDS SendPath, RingBufferProofs, SequenceTheorems

\* Inside Send there is something left to put in, and bytes are copied only on a try
\* that is not the last.
SenderInv ==
  /\ spc \in {"copy", "add"} => try < MaxTries
  /\ spc \in {"ask", "copy", "add"} => left > 0
  /\ spc # "idle" => sends > 0

\* What AskRoom was told stays true until end has moved: the epoll thread only makes
\* room, and end does not move before AddCopied.
RoomInv ==
  spc \in {"copy", "add"} =>
    /\ room.ptr = ring.end
    /\ room.len \in 1 .. PushLen(ring)

\* What was copied in is bytes of a message.
CopiedInv ==
  spc = "add" => \A k \in Slots(room, Copied) : buf[k] \in Bytes

\* What the epoll thread was told stays true until begin has moved: Send only adds
\* bytes behind, and begin does not move before DiscardWritten.
WriterInv ==
  /\ wpc = "write" => /\ ready.ptr = ring.begin
                      /\ ready.len \in 1 .. PopLen(ring)
  /\ wpc = "discard" => wrote \in 1 .. PopLen(ring)

IInv == TypeOK /\ InRange(ring) /\ SenderInv /\ RoomInv /\ CopiedInv /\ WriterInv

--------------------------------------------------------------------------------
(* The slots of the buffer                                                  *)

\* The remainder of a cursor that went around the end at most once.
LEMMA ModFacts ==
  ASSUME NEW x \in 0 .. 2 * MaxMessageLen - 1
  PROVE  x % MaxMessageLen = IF x < MaxMessageLen THEN x ELSE x - MaxMessageLen
BY RingAssumption, SMT

\* The bytes still to be written are in slots of the buffer, the room of Send is
\* in other slots, those that follow; what can be taken in one piece is at begin.
LEMMA SlotFacts ==
  ASSUME InRange(ring)
  PROVE  /\ \A n \in 0 .. RealLen(ring.begin, ring) - 1 : Slot(n) \in 0 .. MaxMessageLen - 1
         /\ \A n \in 0 .. PopLen(ring) - 1 : Slot(n) = ring.begin + n
         /\ \A j \in 0 .. PushLen(ring) - 1 :
              /\ ring.end + j \in 0 .. MaxMessageLen - 1
              /\ Slot(RealLen(ring.begin, ring) + j) = ring.end + j
              /\ \A n \in 0 .. RealLen(ring.begin, ring) - 1 : Slot(n) # ring.end + j
<1> DEFINE b == ring.begin
           e == ring.end
           W(x) == IF x < MaxMessageLen THEN x ELSE x - MaxMessageLen
<1>1. /\ b \in 0 .. MaxMessageLen /\ e \in 0 .. MaxMessageLen - 1
      /\ b = MaxMessageLen => e > 0
  BY RingAssumption, SMT DEF InRange, Rings, Cursors
<1>2. /\ PushLen(ring) = RoomAtEnd(b, e)
      /\ PopLen(ring) = AtBegin(b, e)
      /\ RealLen(b, ring) = Between(b, e)
      /\ RoomAtEnd(b, e) \in 0 .. MaxMessageLen - 1
      /\ AtBegin(b, e) \in 0 .. MaxMessageLen - 1
      /\ Between(b, e) \in 0 .. MaxMessageLen - 1
      /\ RoomAtEnd(b, e) + Between(b, e) <= MaxMessageLen - 1
  BY LengthFacts, Zenon
<1>3. \A n \in 0 .. MaxMessageLen - 1 : Slot(n) = W(b + n)
  <2> TAKE n \in 0 .. MaxMessageLen - 1
  <2>1. b + n \in 0 .. 2 * MaxMessageLen - 1
    BY <1>1, RingAssumption, SMT
  <2> QED BY <2>1, ModFacts DEF Slot
<1>4. /\ \A n \in 0 .. Between(b, e) - 1 : W(b + n) \in 0 .. MaxMessageLen - 1
      /\ \A n \in 0 .. AtBegin(b, e) - 1 : W(b + n) = b + n
      /\ \A j \in 0 .. RoomAtEnd(b, e) - 1 :
           /\ e + j \in 0 .. MaxMessageLen - 1
           /\ W(b + Between(b, e) + j) = e + j
           /\ \A n \in 0 .. Between(b, e) - 1 : W(b + n) # e + j
  BY <1>1, RingAssumption, SMT DEF Between, AtBegin, RoomAtEnd
<1>5. \A n \in 0 .. Between(b, e) - 1 : n \in 0 .. MaxMessageLen - 1
  BY <1>2, RingAssumption, SMT
<1>6. \A n \in 0 .. AtBegin(b, e) - 1 : n \in 0 .. MaxMessageLen - 1
  BY <1>2, RingAssumption, SMT
<1>7. \A j \in 0 .. RoomAtEnd(b, e) - 1 :
        /\ Between(b, e) + j \in 0 .. MaxMessageLen - 1
        /\ b + (Between(b, e) + j) = b + Between(b, e) + j
  BY <1>1, <1>2, RingAssumption, SMT
<1>8. \A n \in 0 .. Between(b, e) - 1 : Slot(n) = W(b + n)
  BY <1>3, <1>5
<1>9. \A n \in 0 .. AtBegin(b, e) - 1 : Slot(n) = b + n
  <2> HIDE DEF W
  <2> QED BY <1>3, <1>4, <1>6
<1>10. \A j \in 0 .. RoomAtEnd(b, e) - 1 : Slot(Between(b, e) + j) = e + j
  <2> HIDE DEF W
  <2> QED BY <1>3, <1>4, <1>7
<1> HIDE DEF W
<1> QED BY <1>2, <1>4, <1>8, <1>9, <1>10

--------------------------------------------------------------------------------
(* The invariant                                                            *)

\* What AskRoom, OutEvent and WriteAgain are told fits a UINT16.
LEMMA RegionFacts ==
  ASSUME InRange(ring)
  PROVE  /\ Region(ring.end, PushLen(ring)) \in [ptr : Cursors, len : Cursors]
         /\ Region(ring.begin, PopLen(ring)) \in [ptr : Cursors, len : Cursors]
<1>1. /\ ring.begin \in Cursors /\ ring.end \in Cursors
      /\ PushLen(ring) \in Cursors /\ PopLen(ring) \in Cursors
  BY LengthFacts, RingAssumption, SMT DEF InRange, Rings, Cursors
<1> QED BY <1>1 DEF Region

\* Copied is positive and no more than what Send was told or has left.
LEMMA CopiedFacts ==
  ASSUME IInv, spc \in {"copy", "add"}
  PROVE  /\ Copied \in 1 .. room.len
         /\ Copied \in 1 .. PushLen(ring)
         /\ Copied = IF room.len >= left THEN left ELSE room.len
<1>1. room.len \in 1 .. PushLen(ring) /\ left > 0 /\ left \in Nat
  BY DEF IInv, RoomInv, SenderInv, TypeOK
<1>2. PushLen(ring) \in Nat
  BY LengthFacts, RingAssumption, SMT DEF IInv
<1> QED BY <1>1, <1>2, SMT DEF Copied

\* A new connection has an empty buffer.
LEMMA InitIInv == Init => IInv
<1> SUFFICES ASSUME Init PROVE IInv
  OBVIOUS
<1>1. TypeOK
  <2>1. 0 \in Cursors /\ 0 \in 0 .. MaxSends /\ 1 \in 1 .. MaxTries
    BY RingAssumption, SendAssumption, SMT DEF Cursors
  <2>2. buf \in [0 .. MaxMessageLen - 1 -> Bytes \cup {NoByte}]
    BY DEF Init
  <2> QED BY <2>1, <2>2 DEF Init, TypeOK, EmptyRing, Rings, Region
<1>2. InRange(ring)
  BY RingAssumption, SMT DEF Init, InRange, EmptyRing, Rings, Cursors
<1> QED BY <1>1, <1>2 DEF Init, IInv, SenderInv, RoomInv, CopiedInv, WriterInv

\* A call of Send begins with something to put in.
LEMMA SendIInv ==
  ASSUME IInv, NEW len \in MessageLens, Send(len)
  PROVE  IInv'
<1>1. len \in Nat /\ len > 0
  BY SendAssumption, SMT
<1>2. /\ sends' \in 1 .. MaxSends /\ try' \in 1 .. MaxTries
  BY SendAssumption, SMT DEF IInv, TypeOK, Send
<1>3. TypeOK'
  BY <1>1, <1>2 DEF IInv, TypeOK, Send, writer, kernel
<1> QED
  BY <1>1, <1>2, <1>3
     DEF IInv, Send, SenderInv, RoomInv, CopiedInv, WriterInv, writer, kernel

\* What Send is told when it asks for room is current.
LEMMA AskRoomIInv ==
  ASSUME IInv, AskRoom
  PROVE  IInv'
<1>1. room' \in [ptr : Cursors, len : Cursors]
  BY RegionFacts DEF IInv, AskRoom
<1>2. PushLen(ring) \in 0 .. MaxMessageLen - 1
  BY LengthFacts DEF IInv
<1>3. try' \in 1 .. MaxTries
  BY SendAssumption, SMT DEF IInv, TypeOK, AskRoom
<1>4. TypeOK'
  BY <1>1, <1>3 DEF IInv, TypeOK, AskRoom, writer, kernel
<1>5. RoomInv'
  BY <1>2, RingAssumption, SMT DEF IInv, AskRoom, RoomInv, Region
<1> QED
  BY <1>4, <1>5
     DEF IInv, AskRoom, SenderInv, CopiedInv, WriterInv, writer, kernel

\* memcpy puts bytes of the message in its slots.
LEMMA CopyMessageIInv ==
  ASSUME IInv, CopyMessage
  PROVE  IInv'
<1>1. Copied \in 1 .. PushLen(ring) /\ PushLen(ring) \in 0 .. MaxMessageLen - 1
  BY CopiedFacts, LengthFacts DEF IInv, CopyMessage
<1>2. \A i \in 0 .. Copied - 1 : <<sends, i>> \in Bytes
  <2> TAKE i \in 0 .. Copied - 1
  <2>1. i \in 0 .. MaxMessageLen
    BY <1>1, RingAssumption, SMT
  <2>2. sends \in 1 .. MaxSends
    BY SendAssumption, SMT DEF IInv, TypeOK, SenderInv, CopyMessage
  <2> QED BY <2>1, <2>2 DEF Bytes
<1>3. buf' \in [0 .. MaxMessageLen - 1 -> Bytes \cup {NoByte}]
  BY <1>2 DEF IInv, TypeOK, CopyMessage
<1>4. \A k \in Slots(room, Copied) : k \in 0 .. MaxMessageLen - 1 /\ k - room.ptr \in 0 .. Copied - 1
  <2>1. room.ptr = ring.end
    BY DEF IInv, RoomInv, CopyMessage
  <2>2. \A j \in 0 .. PushLen(ring) - 1 : ring.end + j \in 0 .. MaxMessageLen - 1
    BY SlotFacts DEF IInv
  <2>3. ring.end \in Nat /\ MaxMessageLen \in Nat
    BY RingAssumption, SMT DEF IInv, InRange, Rings, Cursors
  <2> TAKE k \in Slots(room, Copied)
  <2>4. k - ring.end \in 0 .. PushLen(ring) - 1 /\ ring.end + (k - ring.end) = k
        /\ k - ring.end \in 0 .. Copied - 1
    BY <1>1, <2>1, <2>3, RingAssumption, SMT DEF Slots
  <2> QED BY <2>1, <2>2, <2>4
<1>5. Slots(room, Copied)' = Slots(room, Copied)
  BY DEF CopyMessage, Slots, Copied
<1>6. CopiedInv'
  BY <1>2, <1>4, <1>5 DEF CopiedInv, CopyMessage, IInv, TypeOK
<1>7. TypeOK'
  BY <1>3 DEF IInv, TypeOK, CopyMessage, writer, kernel
<1> QED
  BY <1>6, <1>7
     DEF IInv, CopyMessage, SenderInv, RoomInv, WriterInv, writer, kernel

\* AddBufLen only adds to what the epoll thread can take.
LEMMA AddCopiedIInv ==
  ASSUME IInv, AddCopied
  PROVE  IInv'
<1>1. Copied \in 1 .. PushLen(ring)
  BY CopiedFacts DEF AddCopied
<1>2. /\ InRange(ring)'
      /\ PopLen(ring') >= PopLen(ring)
      /\ ring'.begin = ring.begin
      /\ ring' \in Rings
  <2>1. InRange(ring) /\ ring \in Rings
    BY DEF IInv, InRange
  <2>2. InRange(ring') /\ PopLen(ring') >= PopLen(ring)
    BY <1>1, <2>1, AddFacts DEF AddCopied
  <2>3. ring'.begin = ring.begin
    BY <1>1, <2>1, AddFacts DEF AddCopied, Rings
  <2> QED BY <2>2, <2>3 DEF InRange
<1>3. left' \in Nat /\ (spc' = "ask" => left' > 0)
  BY CopiedFacts, SMT DEF IInv, TypeOK, AddCopied, Cursors
<1>4. try' \in 1 .. MaxTries
  BY SendAssumption, SMT DEF IInv, TypeOK, SenderInv, AddCopied
<1>5. TypeOK'
  BY <1>2, <1>3, <1>4 DEF IInv, TypeOK, AddCopied, writer, kernel
<1>6. WriterInv'
  <2>1. PopLen(ring) \in Nat /\ PopLen(ring') \in Nat
    BY <1>2, LengthFacts, RingAssumption, SMT DEF IInv
  <2> QED BY <1>2, <2>1, SMT DEF IInv, WriterInv, AddCopied, writer
<1> QED
  BY <1>2, <1>3, <1>5, <1>6 DEF IInv, AddCopied, SenderInv, RoomInv, CopiedInv

\* Dropping the rest of a message preserves the invariant.
LEMMA GiveUpIInv ==
  ASSUME IInv, GiveUp
  PROVE  IInv'
BY DEF IInv, TypeOK, GiveUp, SenderInv, RoomInv, CopiedInv, WriterInv, writer, kernel

\* The registration touches nothing the invariant is about.
LEMMA SendEpollMessIInv ==
  ASSUME IInv, SendEpollMess
  PROVE  IInv'
BY DEF IInv, TypeOK, SendEpollMess, SenderInv, RoomInv, CopiedInv, WriterInv, writer

\* What the epoll thread is told when it asks is current.
LEMMA OutEventIInv ==
  ASSUME IInv, OutEvent
  PROVE  IInv'
<1>1. ready' \in [ptr : Cursors, len : Cursors]
  BY RegionFacts DEF IInv, OutEvent
<1>2. WriterInv'
  <2>1. PopLen(ring) \in 0 .. MaxMessageLen - 1
    BY LengthFacts DEF IInv
  <2> QED BY <2>1, RingAssumption, SMT DEF OutEvent, WriterInv, Region
<1>3. TypeOK'
  BY <1>1 DEF IInv, TypeOK, OutEvent, sender
<1> QED BY <1>2, <1>3 DEF IInv, OutEvent, SenderInv, RoomInv, CopiedInv, sender, Copied

\* So is what it is told for the next turn of the write loop.
LEMMA WriteAgainIInv ==
  ASSUME IInv, WriteAgain
  PROVE  IInv'
<1>1. ready' \in [ptr : Cursors, len : Cursors]
  BY RegionFacts DEF IInv, WriteAgain
<1>2. WriterInv'
  <2>1. PopLen(ring) \in 0 .. MaxMessageLen - 1
    BY LengthFacts DEF IInv
  <2> QED BY <2>1, RingAssumption, SMT DEF WriteAgain, WriterInv, Region
<1>3. TypeOK'
  BY <1>1 DEF IInv, TypeOK, WriteAgain, sender, kernel
<1> QED BY <1>2, <1>3 DEF IInv, WriteAgain, SenderInv, RoomInv, CopiedInv, sender, Copied

\* write() takes no more than it was offered.
LEMMA WriteIInv ==
  ASSUME IInv, NEW n \in 1 .. MaxMessageLen, Write(n)
  PROVE  IInv'
<1>1. n \in Cursors
  BY RingAssumption, SMT DEF Cursors
<1>2. WriterInv'
  <2>1. PopLen(ring) \in 0 .. MaxMessageLen - 1
    BY LengthFacts DEF IInv
  <2>2. ready.len \in 1 .. PopLen(ring) /\ n \in 1 .. ready.len
    BY DEF IInv, WriterInv, Write
  <2>3. n \in 1 .. PopLen(ring)
    BY <2>1, <2>2, RingAssumption, SMT
  <2> QED BY <2>3 DEF Write, WriterInv
<1>3. TypeOK'
  BY <1>1 DEF IInv, TypeOK, Write, sender, kernel
<1> QED BY <1>2, <1>3 DEF IInv, Write, SenderInv, RoomInv, CopiedInv, sender, Copied

\* DiscardLen only adds to the room that Send was told of.
LEMMA DiscardWrittenIInv ==
  ASSUME IInv, DiscardWritten
  PROVE  IInv'
<1>1. wrote \in 1 .. PopLen(ring)
  BY DEF IInv, WriterInv, DiscardWritten
<1>2. /\ InRange(ring')
      /\ PushLen(ring') >= PushLen(ring)
      /\ ring'.end = ring.end
      /\ ring' \in Rings
  <2>1. InRange(ring) /\ ring \in Rings
    BY DEF IInv, InRange
  <2>2. InRange(ring') /\ PushLen(ring') >= PushLen(ring)
    BY <1>1, <2>1, DiscardFacts DEF DiscardWritten
  <2>3. ring'.end = ring.end
    BY <1>1, <2>1, DiscardFacts DEF DiscardWritten, Rings
  <2> QED BY <2>2, <2>3 DEF InRange
<1>3. TypeOK'
  BY <1>2 DEF IInv, TypeOK, DiscardWritten, sender, kernel
<1>4. RoomInv'
  <2>1. PushLen(ring) \in Nat /\ PushLen(ring') \in Nat
    BY <1>2, LengthFacts, RingAssumption, SMT DEF IInv
  <2> QED BY <1>2, <2>1, SMT DEF IInv, RoomInv, DiscardWritten, sender
<1> QED
  BY <1>2, <1>3, <1>4
     DEF IInv, DiscardWritten, SenderInv, CopiedInv, WriterInv, sender, Copied

\* The other steps of the epoll thread and the kernel touch nothing the invariant
\* is about but the program counter.
LEMMA OtherIInv ==
  ASSUME IInv, InOutEvent \/ WriteFails \/ Disarm \/ PeerReads \/ UNCHANGED vars
  PROVE  IInv'
<1>1. CASE InOutEvent
  BY <1>1 DEF IInv, TypeOK, InOutEvent, SenderInv, RoomInv, CopiedInv, WriterInv,
              sender, writer, Copied
<1>2. CASE WriteFails
  BY <1>2 DEF IInv, TypeOK, WriteFails, SenderInv, RoomInv, CopiedInv, WriterInv,
              sender, Copied
<1>3. CASE Disarm
  BY <1>3 DEF IInv, TypeOK, Disarm, SenderInv, RoomInv, CopiedInv, WriterInv,
              sender, Copied
<1>4. CASE PeerReads
  BY <1>4 DEF IInv, TypeOK, PeerReads, SenderInv, RoomInv, CopiedInv, WriterInv,
              sender, writer, Copied
<1>5. CASE UNCHANGED vars
  BY <1>5 DEF IInv, TypeOK, SenderInv, RoomInv, CopiedInv, WriterInv,
              vars, sender, writer, kernel, Copied
<1> QED BY <1>1, <1>2, <1>3, <1>4, <1>5

\* Every step of both threads and of the kernel preserves the invariant.
LEMMA NextIInv == IInv /\ [Next]_vars => IInv'
<1> SUFFICES ASSUME IInv, [Next]_vars PROVE IInv'
  OBVIOUS
<1>1. CASE Sender
  BY <1>1, SendIInv, AskRoomIInv, CopyMessageIInv, AddCopiedIInv, GiveUpIInv,
     SendEpollMessIInv DEF Sender
<1>2. CASE Writer
  BY <1>2, OutEventIInv, WriteIInv, DiscardWrittenIInv, WriteAgainIInv, OtherIInv
     DEF Writer, WaitOn
<1>3. CASE PeerReads \/ UNCHANGED vars
  BY <1>3, OtherIInv
<1> QED BY <1>1, <1>2, <1>3 DEF Next

\* The inductive invariant holds in every reachable state.
THEOREM Invariance == Spec => []IInv
BY InitIInv, NextIInv, PTL DEF Spec

\* The variables of Send, of the EPOLLOUT branch and of the send buffer keep their
\* types, and Send tries no more often than it may.
THEOREM TypeCorrect == Spec => []TypeOK
<1>1. IInv => TypeOK
  BY DEF IInv
<1> QED BY <1>1, Invariance, PTL

\* memcpy in Send writes only slots of the buffer that hold no byte still to be
\* written, whatever the epoll thread discarded since Send asked for room.
THEOREM CopiesIntoFreeRoom == Spec => []RoomIsFree
<1>1. IInv => RoomIsFree
  <2> SUFFICES ASSUME IInv, spc \in {"copy", "add"}
               PROVE  /\ Slots(room, Copied) \subseteq 0 .. MaxMessageLen - 1
                      /\ Slots(room, Copied) \cap Live = {}
    BY DEF RoomIsFree
  <2>1. room.ptr = ring.end /\ Copied \in 1 .. PushLen(ring)
    BY CopiedFacts DEF IInv, RoomInv
  <2>2. /\ PushLen(ring) \in Nat /\ ring.end \in Nat
    BY LengthFacts, RingAssumption, SMT DEF IInv, InRange, Rings, Cursors
  <2>3. ASSUME NEW k \in Slots(room, Copied)
        PROVE  k \in 0 .. MaxMessageLen - 1 /\ k \notin Live
    <3>1. k - ring.end \in 0 .. PushLen(ring) - 1 /\ ring.end + (k - ring.end) = k
      BY <2>1, <2>2, <2>3, SMT DEF Slots
    <3> QED BY <3>1, SlotFacts DEF IInv, Live
  <2> QED BY <2>3
<1> QED BY <1>1, Invariance, PTL

\* write() is given the oldest bytes of the buffer in their order and nothing behind
\* them, whatever Send added since the epoll thread asked.
THEOREM WritesTheOldestBytes == Spec => []WriteIsLive
<1>1. IInv => WriteIsLive
  <2> SUFFICES ASSUME IInv, wpc = "write"
               PROVE  /\ ready.len <= RealLen(ring.begin, ring)
                      /\ \A n \in 0 .. ready.len - 1 : Slot(n) = ready.ptr + n
    BY DEF WriteIsLive
  <2>1. ready.ptr = ring.begin /\ ready.len \in 1 .. PopLen(ring)
    BY DEF IInv, WriterInv
  <2>2. /\ PopLen(ring) \in Nat /\ RealLen(ring.begin, ring) \in Nat
        /\ PopLen(ring) <= RealLen(ring.begin, ring)
    BY LengthFacts, RingAssumption, SMT DEF IInv
  <2>3. ready.len <= RealLen(ring.begin, ring)
    BY <2>1, <2>2, SMT
  <2>4. \A n \in 0 .. ready.len - 1 : n \in 0 .. PopLen(ring) - 1
    BY <2>1, <2>2, SMT
  <2>5. \A n \in 0 .. PopLen(ring) - 1 : Slot(n) = ring.begin + n
    BY SlotFacts DEF IInv
  <2> QED BY <2>1, <2>3, <2>4, <2>5
<1> QED BY <1>1, Invariance, PTL

--------------------------------------------------------------------------------
(* The send buffer is a queue of bytes                                      *)

\* The bytes inside, oldest first: what Stream calls stream.
StreamNow == [n \in 1 .. RealLen(ring.begin, ring) |-> buf[Slot(n - 1)]]

\* A function over the first n numbers is a sequence of length n.
LEMMA FunctionIsSequence ==
  ASSUME NEW S, NEW n \in Nat, NEW f \in [1 .. n -> S]
  PROVE  f \in Seq(S) /\ Len(f) = n
<1>1. f \in Seq(S)
  BY SeqDef, Zenon
<1>2. DOMAIN f = 1 .. Len(f) /\ Len(f) \in Nat /\ DOMAIN f = 1 .. n
  BY <1>1, LenProperties
<1> QED BY <1>1, <1>2, SMT

\* What StreamNow is made of.
StreamIs ==
  /\ StreamNow \in Seq(Bytes \cup {NoByte})
  /\ Len(StreamNow) = RealLen(ring.begin, ring)
  /\ \A i \in 1 .. RealLen(ring.begin, ring) : StreamNow[i] = buf[Slot(i - 1)]

\* The bytes inside form a sequence of GetRealLen bytes.
LEMMA StreamFacts == IInv => StreamIs
<1> SUFFICES ASSUME IInv PROVE StreamIs
  OBVIOUS
<1> DEFINE L == RealLen(ring.begin, ring)
<1>1. L \in 0 .. MaxMessageLen - 1 /\ L \in Nat
  BY LengthFacts, RingAssumption, SMT DEF IInv
<1>2. \A i \in 1 .. L : buf[Slot(i - 1)] \in Bytes \cup {NoByte}
  <2> TAKE i \in 1 .. L
  <2>1. i - 1 \in 0 .. L - 1
    BY <1>1, SMT
  <2>2. Slot(i - 1) \in 0 .. MaxMessageLen - 1
    BY <2>1, SlotFacts DEF IInv
  <2> QED BY <2>2 DEF IInv, TypeOK
<1>3. StreamNow \in [1 .. L -> Bytes \cup {NoByte}]
  BY <1>2, Zenon DEF StreamNow
<1> QED BY <1>1, <1>3, FunctionIsSequence DEF StreamIs, StreamNow

\* memcpy changes no byte that is inside.
LEMMA CopyKeepsStream ==
  ASSUME IInv, CopyMessage
  PROVE  StreamNow' = StreamNow
<1> DEFINE L == RealLen(ring.begin, ring)
<1>1. L \in Nat /\ PushLen(ring) \in Nat /\ Copied \in 1 .. PushLen(ring)
  BY LengthFacts, CopiedFacts, RingAssumption, SMT DEF IInv, CopyMessage
<1>2. room.ptr = ring.end /\ ring.end \in Nat
  BY RingAssumption, SMT DEF IInv, RoomInv, CopyMessage, InRange, Rings, Cursors
<1>3. ASSUME NEW n \in 0 .. L - 1
      PROVE  buf'[Slot(n)] = buf[Slot(n)]
  <2>1. /\ Slot(n) \in 0 .. MaxMessageLen - 1
        /\ \A j \in 0 .. PushLen(ring) - 1 : Slot(n) # ring.end + j
    BY SlotFacts DEF IInv
  <2>2. Slot(n) \in Nat
    BY <2>1, RingAssumption, SMT
  <2> DEFINE k == Slot(n)
  <2> HIDE DEF k
  <2>3. k - ring.end \notin 0 .. Copied - 1
    <3> SUFFICES ASSUME k - ring.end \in 0 .. Copied - 1 PROVE FALSE
      OBVIOUS
    <3>1. k - ring.end \in 0 .. PushLen(ring) - 1 /\ k = ring.end + (k - ring.end)
      BY <1>1, <1>2, <2>2, SMT DEF k
    <3> QED BY <2>1, <3>1 DEF k
  <2> QED BY <1>2, <2>1, <2>3 DEF k, CopyMessage, IInv, TypeOK
<1>4. \A i \in 1 .. L : i - 1 \in 0 .. L - 1
  BY <1>1, SMT
<1>5. ring' = ring
  BY DEF CopyMessage
<1>6. \A i \in 1 .. L : buf'[Slot(i - 1)] = buf[Slot(i - 1)]
  BY <1>3, <1>4
<1>7. StreamNow' = [i \in 1 .. L |-> buf'[Slot(i - 1)]]
  BY <1>5 DEF StreamNow, Slot
<1> HIDE DEF L
<1> QED BY <1>6, <1>7 DEF StreamNow, L

\* AddBufLen puts the bytes that memcpy copied behind those inside.
LEMMA AddPuts ==
  ASSUME IInv, AddCopied
  PROVE  Stream!Put
<1> DEFINE L == RealLen(ring.begin, ring)
           n == Copied
<1>1. /\ L \in 0 .. MaxMessageLen - 1 /\ PushLen(ring) \in 0 .. MaxMessageLen - 1
      /\ PushLen(ring) + L <= MaxMessageLen - 1
      /\ n \in 1 .. PushLen(ring)
  BY LengthFacts, CopiedFacts DEF IInv, AddCopied
<1>2. /\ ring'.begin = ring.begin /\ buf' = buf
      /\ RealLen(ring'.begin, ring') = L + n
  <2>1. InRange(ring) /\ ring \in Rings /\ ring' = AddBufLen(ring, n) /\ buf' = buf
    BY DEF IInv, InRange, AddCopied
  <2>2. ring'.begin = ring.begin
    BY <1>1, <2>1, AddFacts DEF Rings
  <2>3. RealLen(ring.begin, AddBufLen(ring, n)) = L + n
    BY <1>1, <2>1, AddFacts
  <2> QED BY <2>1, <2>2, <2>3
<1>3. IInv'
  BY AddCopiedIInv
<1>4. /\ Len(StreamNow) = L
      /\ \A i \in 1 .. L : StreamNow[i] = buf[Slot(i - 1)]
  BY StreamFacts DEF StreamIs
<1>5. /\ Len(StreamNow') = L + n
      /\ \A i \in 1 .. L + n : StreamNow'[i] = buf[Slot(i - 1)]
  <2>1. /\ Len(StreamNow') = RealLen(ring'.begin, ring')
        /\ \A i \in 1 .. RealLen(ring'.begin, ring') : StreamNow'[i] = buf'[Slot(i - 1)']
    <3>1. StreamIs'
      BY <1>3, StreamFacts, PTL
    <3> QED BY <3>1 DEF StreamIs
  <2>2. \A i : Slot(i - 1)' = Slot(i - 1)
    BY <1>2 DEF Slot
  <2> QED BY <1>2, <2>1, <2>2
<1>6. \A i \in L + 1 .. L + n : buf[Slot(i - 1)] \in Bytes
  <2> TAKE i \in L + 1 .. L + n
  <2> DEFINE j == i - 1 - L
  <2>1. /\ j \in 0 .. PushLen(ring) - 1 /\ j \in 0 .. Copied - 1
        /\ i - 1 = L + j
    BY <1>1, RingAssumption, SMT
  <2>2. Slot(i - 1) = ring.end + j
    <3> HIDE DEF j
    <3> QED BY <2>1, SlotFacts DEF IInv
  <2>3. ring.end + j \in Slots(room, Copied)
    <3>1. room.ptr = ring.end /\ ring.end \in Nat
      BY RingAssumption, SMT DEF IInv, RoomInv, AddCopied, InRange, Rings, Cursors
    <3> HIDE DEF j
    <3> QED BY <1>1, <2>1, <3>1, RingAssumption, SMT DEF Slots
  <2>4. \A k \in Slots(room, Copied) : buf[k] \in Bytes
    BY DEF IInv, CopiedInv, AddCopied
  <2> QED BY <2>2, <2>3, <2>4
<1>7. n \in 1 .. MaxMessageLen - 1 - L
  BY <1>1, RingAssumption, SMT
<1>8. /\ \A i \in 1 .. L : i \in 1 .. L + n
      /\ \A i \in L + 1 .. L + n : i \in 1 .. L + n
  BY <1>1, RingAssumption, SMT
<1>9. /\ n \in 1 .. MaxMessageLen - 1 - Len(StreamNow)
      /\ Len(StreamNow') = Len(StreamNow) + n
      /\ \A i \in 1 .. Len(StreamNow) : StreamNow'[i] = StreamNow[i]
      /\ \A i \in Len(StreamNow) + 1 .. Len(StreamNow) + n : StreamNow'[i] \in Bytes
  <2> HIDE DEF L, n
  <2> QED BY <1>4, <1>5, <1>6, <1>7, <1>8
<1> QED BY <1>9 DEF Stream!Put, StreamNow

\* DiscardLen takes the bytes that write() took, the oldest.
LEMMA DiscardTakes ==
  ASSUME IInv, DiscardWritten
  PROVE  Stream!Take
<1> DEFINE L == RealLen(ring.begin, ring)
           n == wrote
<1>1. /\ L \in 0 .. MaxMessageLen - 1 /\ PopLen(ring) \in 0 .. MaxMessageLen - 1
      /\ PopLen(ring) <= L
      /\ n \in 1 .. PopLen(ring)
  BY LengthFacts DEF IInv, WriterInv, DiscardWritten
<1>2. /\ ring' = [ring EXCEPT !.begin = ring.begin + n] /\ buf' = buf
      /\ ring'.begin = ring.begin + n
      /\ RealLen(ring'.begin, ring') = L - n
  <2>1. InRange(ring) /\ ring \in Rings /\ ring' = DiscardLen(ring, n) /\ buf' = buf
    BY DEF IInv, InRange, DiscardWritten
  <2>2. ring' = [ring EXCEPT !.begin = ring.begin + n]
    BY <1>1, <2>1, DiscardFacts
  <2>3. ring'.begin = ring.begin + n /\ ring'.end = ring.end
    BY <2>1, <2>2 DEF Rings
  <2>4. RealLen(ring.begin + n, ring) = L - n
    BY <1>1, <2>1, DiscardFacts
  <2>5. RealLen(ring.begin + n, ring') = RealLen(ring.begin + n, ring)
    BY <2>3 DEF RealLen
  <2> QED BY <2>1, <2>2, <2>3, <2>4, <2>5
<1>3. IInv'
  BY DiscardWrittenIInv
<1>4. /\ StreamNow \in Seq(Bytes \cup {NoByte})
      /\ Len(StreamNow) = L
      /\ \A i \in 1 .. L : StreamNow[i] = buf[Slot(i - 1)]
  BY StreamFacts DEF StreamIs
<1>5. /\ StreamNow' \in Seq(Bytes \cup {NoByte})
      /\ Len(StreamNow') = L - n
      /\ \A i \in 1 .. L - n : StreamNow'[i] = buf[Slot(i - 1)']
  <2>1. /\ StreamNow' \in Seq(Bytes \cup {NoByte})
        /\ Len(StreamNow') = RealLen(ring'.begin, ring')
        /\ \A i \in 1 .. RealLen(ring'.begin, ring') : StreamNow'[i] = buf'[Slot(i - 1)']
    <3>1. StreamIs'
      BY <1>3, StreamFacts, PTL
    <3> QED BY <3>1 DEF StreamIs
  <2> QED BY <1>2, <2>1
<1>6. \A i \in 1 .. L - n : /\ Slot(i - 1)' = Slot((n + i) - 1)
                            /\ n + i \in 1 .. L
                            /\ n + 1 + i - 1 = n + i
  <2> TAKE i \in 1 .. L - n
  <2>1. ring.begin \in Nat
    BY RingAssumption, SMT DEF IInv, InRange, Rings, Cursors
  <2>2. ring.begin + n + (i - 1) = ring.begin + ((n + i) - 1)
    BY <1>1, <2>1, RingAssumption, SMT
  <2>3. Slot(i - 1)' = Slot((n + i) - 1)
    BY <1>2, <2>2 DEF Slot
  <2>4. n + i \in 1 .. L /\ n + 1 + i - 1 = n + i
    BY <1>1, RingAssumption, SMT
  <2> QED BY <2>3, <2>4
<1>7. \A i \in 1 .. L - n : StreamNow'[i] = StreamNow[n + i]
  <2> TAKE i \in 1 .. L - n
  <2>1. StreamNow'[i] = buf[Slot((n + i) - 1)]
    BY <1>5, <1>6
  <2>2. n + i \in 1 .. L
    BY <1>6
  <2>3. StreamNow[n + i] = buf[Slot((n + i) - 1)]
    <3> HIDE DEF L, n
    <3> QED BY <1>4, <2>2
  <2> QED BY <2>1, <2>3
<1>8. n \in Nat /\ L \in Nat /\ n + 1 <= L + 1 /\ n \in 1 .. L
  BY <1>1, RingAssumption, SMT
<1> DEFINE rest == SubSeq(StreamNow, n + 1, Len(StreamNow))
<1>9. /\ rest \in Seq(Bytes \cup {NoByte})
      /\ Len(rest) = L - n
      /\ \A i \in 1 .. L - n : rest[i] = StreamNow[n + 1 + i - 1]
  <2>1. \A i \in n + 1 .. L : StreamNow[i] \in Bytes \cup {NoByte}
    <3> TAKE i \in n + 1 .. L
    <3>1. i \in 1 .. L
      BY <1>8, SMT
    <3> QED BY <1>4, <3>1, ElementOfSeq
  <2>2. /\ rest \in Seq(Bytes \cup {NoByte})
        /\ Len(rest) = IF n + 1 <= L THEN L - (n + 1) + 1 ELSE 0
        /\ \A i \in 1 .. L - (n + 1) + 1 : rest[i] = StreamNow[n + 1 + i - 1]
    <3>1. n + 1 \in Int /\ L \in Int
      BY <1>8, SMT
    <3> HIDE DEF L, n
    <3> QED BY <1>4, <2>1, <3>1, SubSeqProperties
  <2>3. L - (n + 1) + 1 = L - n /\ (IF n + 1 <= L THEN L - (n + 1) + 1 ELSE 0) = L - n
    BY <1>8, SMT
  <2> HIDE DEF L, n, rest
  <2> QED BY <2>2, <2>3
<1>10. StreamNow' = rest
  <2>1. \A i \in 1 .. L - n : StreamNow'[i] = rest[i]
    <3> HIDE DEF L, n, rest
    <3> QED BY <1>6, <1>7, <1>9
  <2> HIDE DEF L, n, rest
  <2> QED BY <1>5, <1>9, <2>1, SeqEqual
<1>11. \E m \in 1 .. Len(StreamNow) : StreamNow' = SubSeq(StreamNow, m + 1, Len(StreamNow))
  <2>1. n \in 1 .. Len(StreamNow)
    BY <1>4, <1>8
  <2> WITNESS n \in 1 .. Len(StreamNow)
  <2> QED BY <1>10
<1> QED BY <1>11 DEF Stream!Take, StreamNow

\* Of the steps of both threads only AddCopied and DiscardWritten change what is inside.
LEMMA StepsOfTheStream ==
  ASSUME IInv, [Next]_vars
  PROVE  Stream!Put \/ Stream!Take \/ StreamNow' = StreamNow
<1>1. CASE CopyMessage
  BY <1>1, CopyKeepsStream
<1>2. CASE AddCopied
  BY <1>2, AddPuts
<1>3. CASE DiscardWritten
  BY <1>3, DiscardTakes
<1>4. CASE UNCHANGED <<ring, buf>>
  BY <1>4 DEF StreamNow, Slot
<1>5. CASE Sender
  BY <1>1, <1>2, <1>4, <1>5
     DEF Sender, Send, AskRoom, GiveUp, SendEpollMess
<1>6. CASE Writer
  BY <1>3, <1>4, <1>6
     DEF Writer, OutEvent, InOutEvent, Write, WriteFails, WriteAgain, Disarm, WaitOn, vars
<1>7. CASE PeerReads \/ UNCHANGED vars
  BY <1>4, <1>7 DEF PeerReads, vars
<1> QED BY <1>5, <1>6, <1>7 DEF Next

\* The send buffer is a queue of at most MAX_MESSAGE_LEN - 1 bytes: what Send adds
\* comes out in order, each byte once, although neither thread holds m_oBuffLock
\* while bytes are copied in or written out.
THEOREM SendBufferIsAQueue == Spec => StreamSpec
<1>1. Init => Stream!Init
  <2> SUFFICES ASSUME Init PROVE StreamNow = << >>
    BY DEF Stream!Init, StreamNow
  <2>1. IInv
    BY InitIInv
  <2>2. RealLen(ring.begin, ring) = 0
    <3>1. ring = EmptyRing /\ 0 \in Cursors
      BY RingAssumption, SMT DEF Init, Cursors
    <3>2. RealLen(0, EmptyRing) = UINT16(0)
      BY SMT DEF RealLen, EmptyRing
    <3> QED BY <3>1, <3>2, UINT16Facts DEF EmptyRing
  <2>3. StreamNow \in Seq(Bytes \cup {NoByte}) /\ Len(StreamNow) = 0
    BY <2>1, <2>2, StreamFacts DEF StreamIs
  <2> QED BY <2>3, EmptySeq
<1>2. IInv /\ [Next]_vars => [Stream!Put \/ Stream!Take]_StreamNow
  BY StepsOfTheStream
<1>3. IInv /\ [Next]_vars =>
        [Stream!Put \/ Stream!Take]_([n \in 1 .. RealLen(ring.begin, ring) |-> buf[Slot(n - 1)]])
  BY <1>2 DEF StreamNow
<1> QED BY <1>1, <1>3, Invariance, PTL DEF Spec, StreamSpec, Stream!Spec

================================================================================
