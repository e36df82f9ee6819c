---------------------------- MODULE ReceivePathProofs ---------------------------
(***************************************************************************)
(* Proofs about ReceivePath for any stream of packets and any size of the  *)
(* buffer: types throughout, and what OnRecv is given until the cursors    *)
(* come to the end of the buffer, which is MaxMessageLen bytes into the    *)
(* stream.                                                                 *)
(***************************************************************************)
EXTENDS ReceivePath, RingBufferProofs, SequenceTheorems

\* The end cursor has not come around the buffer, and will not until more bytes are sent.
FirstRound == sent < MaxMessageLen

\* No cursor that a packet's length is added to can leave the 16 bits of a UINT16.
PacketLens == {Lens[k] : k \in DOMAIN Lens}
CursorsFit == \A n \in PacketLens : sent + n <= MaxMessageLen

--------------------------------------------------------------------------------
(* The inductive invariant                                                  *)

Dealing == {"deal", "check", "copy", "parse", "announce", "event"}
EpollSteps == {"idle", "room", "read", "add"} \cup Dealing
MainSteps  == {"idle", "fetch", "drop", "message", "recv"} \cup Dealing

\* Every length that travels from one thread to the other is that of a packet.
LengthsInv ==
  /\ \A t \in Threads : pc[t] \in {"announce", "event"} => packetLen[t] \in PacketLens
  /\ events \in Seq(PacketLens \cup {0})
  /\ pc["main"] \in {"fetch", "drop", "message", "recv"} => recvLen \in PacketLens

TypeInv ==
  /\ TypeOK
  /\ pc \in [Threads -> EpollSteps \cup MainSteps]
  /\ DOMAIN header = Threads
  /\ LengthsInv

\* In the first round byte k of the stream is in slot k, the slots behind hold nothing,
\* and read() finds room for all that was sent.
RoundInv ==
  /\ ring.begin <= ring.end /\ ring.push <= ring.end
  /\ taken = ring.end + (IF pc["epoll"] = "add" THEN nRead ELSE 0)
  /\ pc["epoll"] = "read" => room.ptr = ring.end /\ room.len >= MaxMessageLen - 1 - ring.end
  /\ \A k \in 0 .. taken - 1 : buf[k] = k
  /\ \A k \in taken .. MaxMessageLen - 1 : buf[k] = NoByte

\* What MemcpyBuf tested before the copy still holds, or the epoll thread discarded a
\* header in between; then it has closed the connection and reads no more.
MessageInv ==
  pc["main"] = "message" =>
    \/ recvLen <= ring.end - ring.begin
    \/ closed /\ pc["epoll"] \in {"idle", "room"}

\* How far the message reaches that OnRecv has, or had last.
Reached == ring.begin + (IF pc["main"] = "recv" THEN recvLen ELSE 0)

\* What OnRecv was given lies in front of begin, or of where begin will be after it.
OnceInv == \A b \in delivered : b \in Nat /\ b < ring.end /\ b < Reached

\* When the peer waits, one thread at most has something to do with what it sent.
TurnsInv ==
  /\ pc["epoll"] \in {"add"} \cup Dealing => taken = sent
  /\ pc["epoll"] \in {"add"} \cup Dealing \/ taken < sent => pc["main"] = "idle" /\ events = <<>>
  /\ pc["main"] # "idle" => events = <<>>
  /\ closed => /\ pc["main"] = "idle" /\ pc["epoll"] \notin {"add"} \cup Dealing
               /\ events \in {<<>>, <<0>>}
               /\ pc["epoll"] = "idle" \/ taken = sent

\* The packet that OnRecv gets next, or has now.
Current == IF pc["main"] = "recv" THEN recvs ELSE recvs + 1
Announced ==
  events # <<>> \/ pc["main"] \in {"fetch", "drop", "message", "recv"} \/ \E t \in Threads : pc[t] = "event"

\* begin is at the start of the current packet, push there or behind it, if it is announced.
BufferPlaces ==
  /\ Current \in DOMAIN Start
  /\ ring.begin = Start[Current]
  /\ Announced \/ (\E t \in Threads : pc[t] = "announce") =>
       Current \in DOMAIN Lens /\ Start[Current + 1] <= ring.end
  /\ ring.push = IF Announced THEN Start[Current + 1] ELSE Start[Current]
  /\ events # <<>> => events = <<Lens[Current]>>
  /\ pc["main"] \in {"fetch", "drop", "message", "recv"} => recvLen = Lens[Current]
  /\ pc["main"] # "drop"
  /\ pc["main"] = "recv" => message = [i \in 0 .. Lens[Current] - 1 |-> Start[Current] + i]

\* A thread in DealBuffer2Packet sees what lies behind push.
DealPlaces(t) ==
  /\ pc[t] \in {"check", "copy", "parse"} =>
       real[t] = ring.end - ring.push /\ real[t] >= HeaderLen
  /\ pc[t] = "parse" => \A i \in 0 .. HeaderLen - 1 : header[t][i] = ring.push + i
  /\ pc[t] \in {"announce", "event"} => packetLen[t] = Lens[Current]

PlacesInv == BufferPlaces /\ \A t \in Threads : DealPlaces(t)

IInv ==
  /\ TypeInv
  /\ FirstRound => RoundInv /\ MessageInv
  /\ CursorsFit => OnceInv
  /\ FirstRound /\ lockstep => TurnsInv /\ (~closed => PlacesInv)

--------------------------------------------------------------------------------
(* The stream                                                               *)

\* Packets lie one behind the other, from 0 to StreamLen.
LEMMA StreamFacts ==
  /\ DOMAIN Start = 1 .. Len(Start) /\ Len(Start) \in Nat \ {0}
  /\ DOMAIN Lens = 1 .. Len(Start) - 1
  /\ \A k \in DOMAIN Start : Start[k] \in Nat /\ Start[k] <= StreamLen
  /\ StreamLen \in Nat
  /\ HeaderLen \in Nat \ {0}
<1>1. /\ Start \in Seq(Nat) /\ Start # <<>>
      /\ HeaderLen \in Nat \ {0}
      /\ \A j, k \in DOMAIN Start : j < k => Start[j] + HeaderLen <= Start[k]
  BY ReceiveAssumption
<1>2. DOMAIN Start = 1 .. Len(Start) /\ Len(Start) \in Nat \ {0}
  BY <1>1, SMT
<1>3. \A k \in DOMAIN Start : Start[k] \in Nat
  BY <1>1, SMT
<1>4. \A k \in DOMAIN Start : Start[k] <= StreamLen
  BY <1>1, <1>2, <1>3, SMT DEF StreamLen
<1> QED BY <1>1, <1>2, <1>3, <1>4, SMT DEF Lens, StreamLen

\* The length of a packet is where the next one starts, and no packet is shorter than a
\* header; so one packet starts at a place.
LEMMA PacketFacts ==
  /\ \A k \in DOMAIN Lens : /\ k \in DOMAIN Start /\ k + 1 \in DOMAIN Start
                            /\ Lens[k] \in Nat /\ Lens[k] >= HeaderLen
                            /\ Start[k + 1] = Start[k] + Lens[k]
  /\ \A j, k \in DOMAIN Start : Start[j] = Start[k] => j = k
  /\ PacketLens \subseteq Nat \ {0}
<1>1. \A j, k \in DOMAIN Start : j < k => Start[j] + HeaderLen <= Start[k]
  BY ReceiveAssumption
<1>2. \A k \in DOMAIN Lens : k \in DOMAIN Start /\ k + 1 \in DOMAIN Start /\ k < k + 1
  BY StreamFacts, SMT
<1>3. \A k \in DOMAIN Lens : Lens[k] = Start[k + 1] - Start[k]
  BY StreamFacts DEF Lens
<1>4. \A k \in DOMAIN Lens : /\ Lens[k] \in Nat /\ Lens[k] >= HeaderLen
                             /\ Start[k + 1] = Start[k] + Lens[k]
  BY <1>1, <1>2, <1>3, StreamFacts, SMT
<1>5. \A j, k \in DOMAIN Start : Start[j] = Start[k] => j = k
  BY <1>1, StreamFacts, SMT
<1>6. PacketLens \subseteq Nat \ {0}
  BY <1>4, StreamFacts, SMT DEF PacketLens
<1> QED BY <1>2, <1>4, <1>5, <1>6

--------------------------------------------------------------------------------
(* The ring                                                                 *)

\* Whatever the cursors are told, they stay cursors.
LEMMA CursorTypes ==
  ASSUME NEW r \in Rings, NEW n \in Nat
  PROVE  /\ PushLen(r) \in Cursors
         /\ \A c \in Cursors : RealLen(c, r) \in Cursors /\ Discarded(c, r, n) \in Cursors
         /\ AddBufLen(r, n) \in Rings
         /\ DiscardLen(r, n) \in Rings /\ DiscardLen(r, n).end = r.end
         /\ DiscardLen(r, n).push = r.push
         /\ DiscardMessPushLen(r, n) \in Rings /\ DiscardMessPushLen(r, n).end = r.end
         /\ DiscardMessPushLen(r, n).begin = r.begin
<1>1. \A x \in Int : UINT16(x) \in Cursors
  BY RingAssumption, SMT DEF UINT16, Cursors
<1>2. MaxMessageLen \in Nat \ {0} /\ r.begin \in Cursors /\ r.end \in Cursors /\ r.push \in Cursors
  BY RingAssumption DEF Rings
<1>3. Cursors \subseteq Int /\ \A c \in Cursors : 0 <= c /\ c <= MaxMessageLen
  BY <1>2, SMT DEF Cursors
<1>4. PushLen(r) \in Cursors
  <2>1. (IF r.begin > r.end THEN r.begin - r.end - 1
         ELSE IF r.begin = 0 THEN MaxMessageLen - r.end - 1
         ELSE MaxMessageLen - r.end) \in Int
    BY <1>2, SMT DEF Cursors
  <2> QED BY <1>1, <2>1, Zenon DEF PushLen
<1>5. \A c \in Cursors : RealLen(c, r) \in Cursors
  <2> TAKE c \in Cursors
  <2>1. (IF c > r.end THEN MaxMessageLen - c + r.end ELSE r.end - c) \in Int
    BY <1>2, SMT DEF Cursors
  <2> QED BY <1>1, <2>1, Zenon DEF RealLen
<1>6. \A c \in Cursors : Discarded(c, r, n) \in Cursors
  <2> TAKE c \in Cursors
  <2> DEFINE sum == UINT16(c + n)
  <2>1. sum \in Cursors
    <3>1. c + n \in Int
      BY <1>3, SMT
    <3> QED BY <1>1, <3>1, Zenon
  <2> HIDE DEF sum
  <2>2. Discarded(c, r, n) = IF c <= r.end THEN (IF sum > r.end THEN r.end ELSE sum)
                             ELSE IF sum > MaxMessageLen
                                  THEN (IF sum - MaxMessageLen > r.end THEN r.end
                                        ELSE sum - MaxMessageLen)
                                  ELSE sum
    BY Zenon DEF Discarded, sum
  <2> QED BY <1>2, <2>1, <2>2, SMT DEF Cursors
<1>7. AddBufLen(r, n) \in Rings
  <2> DEFINE sum == UINT16(r.end + n)
             e == IF sum >= MaxMessageLen THEN sum - MaxMessageLen ELSE sum
  <2>1. sum \in Cursors
    <3>1. r.end + n \in Int
      BY <1>2, SMT DEF Cursors
    <3> QED BY <1>1, <3>1, Zenon
  <2> HIDE DEF sum
  <2>2. e \in Cursors
    BY <1>2, <2>1, SMT DEF Cursors
  <2>3. AddBufLen(r, n) = [r EXCEPT !.end = e]
    BY Zenon DEF AddBufLen, sum
  <2> HIDE DEF e
  <2> QED BY <2>2, <2>3 DEF Rings
<1>8. /\ DiscardLen(r, n) = [r EXCEPT !.begin = Discarded(r.begin, r, n)]
      /\ DiscardMessPushLen(r, n) = [r EXCEPT !.push = Discarded(r.push, r, n)]
  BY Zenon DEF DiscardLen, DiscardMessPushLen
<1>9. Discarded(r.begin, r, n) \in Cursors /\ Discarded(r.push, r, n) \in Cursors
  BY <1>2, <1>6
<1> QED BY <1>4, <1>5, <1>6, <1>7, <1>8, <1>9 DEF Rings

\* A cursor that is not behind end: what lies between them, and where it moves to, which
\* is not beyond end, and forward if no 16 bits overflow.
LEMMA FlatFacts ==
  ASSUME NEW r \in Rings, NEW c \in Cursors, c <= r.end
  PROVE  /\ RealLen(c, r) = r.end - c
         /\ \A n \in Nat : Discarded(c, r, n) <= r.end
         /\ \A n \in Nat : c + n <= MaxMessageLen =>
              Discarded(c, r, n) = IF c + n > r.end THEN r.end ELSE c + n
         /\ \A n \in Nat : CopiedFrom(c, r, n) = [i \in 0 .. n - 1 |-> c + i]
<1>1. MaxMessageLen \in Nat \ {0} /\ r.end \in 0 .. MaxMessageLen /\ c \in 0 .. MaxMessageLen
  BY RingAssumption DEF Rings, Cursors
<1>2. RealLen(c, r) = r.end - c
  <2>1. r.end - c \in Cursors
    BY <1>1, SMT DEF Cursors
  <2>2. RealLen(c, r) = UINT16(r.end - c)
    BY <1>1, SMT DEF RealLen
  <2> QED BY <2>1, <2>2, UINT16Facts
<1>3. \A n \in Nat : Discarded(c, r, n) = IF UINT16(c + n) > r.end THEN r.end ELSE UINT16(c + n)
  BY Zenon DEF Discarded
<1>4. ASSUME NEW n \in Nat
      PROVE  /\ Discarded(c, r, n) <= r.end
             /\ c + n <= MaxMessageLen =>
                  Discarded(c, r, n) = IF c + n > r.end THEN r.end ELSE c + n
  <2>1. UINT16(c + n) \in Cursors
    BY <1>1, RingAssumption, SMT DEF UINT16, Cursors
  <2>2. c + n <= MaxMessageLen => UINT16(c + n) = c + n
    <3>1. c + n <= MaxMessageLen => c + n \in Cursors
      BY <1>1, SMT DEF Cursors
    <3> QED BY <3>1, UINT16Facts
  <2>3. Discarded(c, r, n) = IF UINT16(c + n) > r.end THEN r.end ELSE UINT16(c + n)
    BY <1>3
  <2> QED BY <1>1, <2>1, <2>2, <2>3, SMT DEF Cursors
<1>5. \A n \in Nat : CopiedFrom(c, r, n) = [i \in 0 .. n - 1 |-> c + i]
  <2>1. ~(c > r.end)
    BY <1>1, SMT
  <2> QED BY <2>1, Zenon DEF CopiedFrom
<1> QED BY <1>2, <1>4, <1>5

--------------------------------------------------------------------------------
(* Types                                                                    *)

\* Init.
LEMMA InitTypes == Init => TypeInv
<1> SUFFICES ASSUME Init PROVE TypeInv
  OBVIOUS
<1>1. 0 \in Cursors /\ MaxMessageLen \in Nat \ {0}
  BY RingAssumption, SMT DEF Cursors
<1>2. ring \in Rings
  BY <1>1, SMT DEF Init, EmptyRing, Rings
<1>3. buf \in [0 .. MaxMessageLen - 1 -> -1 .. StreamLen - 1]
  BY StreamFacts, SMT DEF Init, NoByte
<1>4. /\ pc = [t \in Threads |-> "idle"]
      /\ real \in [Threads -> Cursors] /\ packetLen \in [Threads -> Cursors]
  BY <1>1 DEF Init
<1>5. LengthsInv
  BY <1>4 DEF Init, LengthsInv, Threads
<1>6. TypeOK
  <2>1. events \in Seq(Nat) /\ recvs \in Nat /\ lockstep \in Pacings
        /\ edge \in BOOLEAN /\ closed \in BOOLEAN /\ delivered = {}
    <3>1. <<>> \in Seq(Nat)
      OBVIOUS
    <3> QED BY <3>1, Zenon DEF Init
  <2>2. taken \in 0 .. sent /\ sent \in 0 .. StreamLen
    BY StreamFacts, SMT DEF Init
  <2>3. room.ptr \in Cursors /\ room.len \in Cursors /\ nRead \in Cursors
    BY <1>1 DEF Init, NoRoom
  <2>4. DOMAIN message = {}
    BY SMT DEF Init
  <2> QED BY <1>2, <1>3, <1>4, <2>1, <2>2, <2>3, <2>4 DEF TypeOK, Threads
<1>7. DOMAIN header = Threads
  BY DEF Init
<1> QED BY <1>4, <1>5, <1>6, <1>7 DEF TypeInv, EpollSteps

\* A thread does not go on before DealBuffer2Packet, nor to steps of the other thread.
LEMMA StepTypes ==
  ASSUME TypeInv, [Next]_vars
  PROVE  /\ pc' \in [Threads -> EpollSteps \cup MainSteps]
         /\ pc'["epoll"] \in EpollSteps
         /\ pc'["main"] \in MainSteps
<1> DEFINE Good == /\ pc' \in [Threads -> EpollSteps \cup MainSteps]
                   /\ pc'["epoll"] \in EpollSteps
                   /\ pc'["main"] \in MainSteps
<1>1. /\ pc \in [Threads -> EpollSteps \cup MainSteps]
      /\ pc["epoll"] \in EpollSteps /\ pc["main"] \in MainSteps
      /\ Threads = {"epoll", "main"}
  BY DEF TypeInv, TypeOK, EpollSteps, MainSteps, Dealing, Threads
<1>2. ASSUME NEW w \in EpollSteps, Goto("epoll", w) PROVE Good
  BY <1>1, <1>2 DEF Goto
<1>3. ASSUME NEW w \in MainSteps, Goto("main", w) PROVE Good
  BY <1>1, <1>3 DEF Goto
<1>4. ASSUME NEW t \in Threads, NEW w \in Dealing \cup {AfterDeal(t)}, Goto(t, w) PROVE Good
  <2>1. CASE t = "epoll"
    BY <1>2, <1>4, <2>1 DEF AfterDeal, EpollSteps
  <2>2. CASE t = "main"
    BY <1>3, <1>4, <2>2 DEF AfterDeal, MainSteps
  <2> QED BY <1>1, <2>1, <2>2
<1>5. CASE UNCHANGED vars
  BY <1>1, <1>5 DEF vars
<1>6. CASE Peer \/ TakeError \/ Idle
  BY <1>1, <1>6 DEF Peer, PeerSends, TakeError, Idle, vars
<1>7. CASE EpollThread
  <2>1. \E w \in {"room", "read", "idle", "add", "deal"} : Goto("epoll", w)
    BY <1>7 DEF EpollThread, InEvent, AskRoom, Read, NothingToRead, AddRead
  <2> QED BY <1>2, <2>1 DEF EpollSteps, Dealing
<1>8. CASE Main /\ ~TakeError
  <2>1. \E w \in {"fetch", "drop", "message", "idle", "recv", "deal"} : Goto("main", w)
    BY <1>8 DEF Main, TakeRecv, CheckPacket, DropPacket, CopyPacket, DiscardPacket
  <2> QED BY <1>3, <2>1 DEF MainSteps, Dealing
<1>9. ASSUME NEW t \in Threads, DealBuffer2Packet(t) PROVE Good
  <2>1. \E w \in Dealing \cup {AfterDeal(t)} : Goto(t, w)
    BY <1>9 DEF DealBuffer2Packet, MeasureReal, CheckHeader, CopyHeader, ParsePacket, ParseFails,
         Announce, PushRecv, Dealing
  <2> QED BY <1>1, <1>3, <1>4, <2>1
<1> QED BY <1>5, <1>6, <1>7, <1>8, <1>9 DEF Next, Main

\* The steps of the epoll thread around read(), and of the peer.
LEMMA ReadTypes ==
  ASSUME TypeInv, Peer \/ EpollThread
  PROVE  TypeOK' /\ LengthsInv'
<1>1. Peer \/ EpollThread => [Next]_vars
  BY DEF Next
<1>2. /\ pc'["epoll"] \in EpollSteps /\ pc'["main"] \in MainSteps
      /\ pc \in [Threads -> EpollSteps \cup MainSteps]
  BY <1>1, StepTypes DEF TypeInv
<1>3. /\ ring' \in Rings /\ room'.ptr \in Cursors /\ room'.len \in Cursors /\ nRead' \in Cursors
      /\ taken' \in 0 .. sent' /\ sent' \in 0 .. StreamLen
      /\ edge' \in BOOLEAN /\ lockstep' = lockstep /\ closed' = closed
      /\ buf' \in [0 .. MaxMessageLen - 1 -> -1 .. StreamLen - 1]
      /\ UNCHANGED <<real, packetLen, events, recvs, recvLen, message, delivered>>
  <2>1. /\ 0 \in Cursors /\ MaxMessageLen \in Nat \ {0} /\ Cursors = 0 .. MaxMessageLen
        /\ StreamLen \in Nat
    BY RingAssumption, StreamFacts, SMT DEF Cursors
  <2>2. CASE Peer
    <3>1. PICK n \in 1 .. StreamLen : PeerSends(n)
      BY <2>2 DEF Peer
    <3>2. taken' \in 0 .. sent' /\ sent' \in 0 .. StreamLen
      BY <2>1, <3>1, SMT DEF PeerSends, TypeInv, TypeOK
    <3> QED BY <3>1, <3>2 DEF PeerSends, TypeInv, TypeOK, reader, parser, owner
  <2>7. CASE InEvent
    BY <2>7 DEF InEvent, TypeInv, TypeOK, reader, parser, owner
  <2>3. CASE AskRoom
    <3>1. PushLen(ring) \in Cursors /\ ring.end \in Cursors
      BY CursorTypes DEF TypeInv, TypeOK, Rings
    <3> QED BY <2>1, <2>3, <3>1 DEF AskRoom, NoRoom, TypeInv, TypeOK, parser, owner, wire
  <2>4. CASE Read
    <3>1. /\ nRead' \in Cursors /\ taken' \in 0 .. sent
          /\ taken' = taken + nRead' /\ taken' <= StreamLen /\ taken \in Nat
      <4>1. /\ taken \in 0 .. sent /\ sent \in 0 .. StreamLen /\ room.len \in 0 .. MaxMessageLen
            /\ nRead' = IF sent - taken < room.len THEN sent - taken ELSE room.len
            /\ taken' = taken + nRead'
        BY <2>1, <2>4 DEF Read, TypeInv, TypeOK
      <4> QED BY <2>1, <4>1, SMT
    <3>2. \A k \in 0 .. MaxMessageLen - 1 :
            k - room.ptr \in 0 .. nRead' - 1 => taken + k - room.ptr \in -1 .. StreamLen - 1
      <4>1. room.ptr \in 0 .. MaxMessageLen /\ nRead' \in 0 .. MaxMessageLen
        BY <2>1, <3>1 DEF TypeInv, TypeOK
      <4>2. taken \in Nat /\ taken + nRead' <= StreamLen /\ StreamLen \in Nat
        BY <2>1, <3>1
      <4>3. \A k \in 0 .. MaxMessageLen - 1, p, n \in 0 .. MaxMessageLen :
              k - p \in 0 .. n - 1 /\ taken + n <= StreamLen =>
                taken + k - p \in -1 .. StreamLen - 1
        BY <4>2, RingAssumption, SMT
      <4> QED BY <4>1, <4>2, <4>3
    <3>3. /\ buf \in [0 .. MaxMessageLen - 1 -> -1 .. StreamLen - 1]
          /\ buf' = [k \in DOMAIN buf |-> IF k - room.ptr \in 0 .. nRead' - 1
                                          THEN taken + k - room.ptr ELSE buf[k]]
      BY <2>4 DEF Read, TypeInv, TypeOK
    <3>4. buf' \in [0 .. MaxMessageLen - 1 -> -1 .. StreamLen - 1]
      BY <3>2, <3>3, Zenon
    <3> QED BY <2>1, <2>4, <3>1, <3>4 DEF Read, NoRoom, TypeInv, TypeOK, parser, owner
  <2>5. CASE NothingToRead
    BY <2>1, <2>5 DEF NothingToRead, NoRoom, TypeInv, TypeOK, parser, owner, wire
  <2>6. CASE AddRead
    <3>1. AddBufLen(ring, nRead) \in Rings
      BY CursorTypes, SMT DEF TypeInv, TypeOK, Cursors
    <3> QED BY <2>1, <2>6, <3>1 DEF AddRead, TypeInv, TypeOK, parser, owner, wire
  <2> QED BY <2>2, <2>3, <2>4, <2>5, <2>6, <2>7 DEF EpollThread
<1>4. /\ \A t \in Threads : pc'[t] \in {"announce", "event", "fetch", "drop", "message", "recv"} => pc'[t] = pc[t]
  BY <1>2 DEF Peer, PeerSends, EpollThread, InEvent, AskRoom, Read, NothingToRead, AddRead, Goto, Threads
<1>5. LengthsInv'
  BY <1>3, <1>4 DEF LengthsInv, TypeInv, Threads
<1> QED BY <1>2, <1>3, <1>5 DEF TypeOK, TypeInv, EpollSteps, MainSteps, Dealing

\* The steps of DealBuffer2Packet.
LEMMA DealTypes ==
  ASSUME TypeInv, NEW t \in Threads, DealBuffer2Packet(t)
  PROVE  TypeOK' /\ LengthsInv'
<1>1. DealBuffer2Packet(t) => [Next]_vars
  BY DEF Next
<1>2. /\ pc'["epoll"] \in EpollSteps /\ pc'["main"] \in MainSteps
      /\ pc \in [Threads -> EpollSteps \cup MainSteps]
  BY <1>1, StepTypes DEF TypeInv
<1>3. /\ 0 \in Cursors /\ Cursors = 0 .. MaxMessageLen
      /\ PacketLens \subseteq Nat \ {0} /\ HeaderLen \in Nat
      /\ PacketLens \cup {0} \subseteq Nat
  BY RingAssumption, StreamFacts, PacketFacts, SMT DEF Cursors
<1>4. /\ ring \in Rings /\ real \in [Threads -> Cursors] /\ packetLen \in [Threads -> Cursors]
      /\ events \in Seq(PacketLens \cup {0})
      /\ ring.push \in Cursors
  BY DEF TypeInv, LengthsInv, TypeOK, Rings
<1>5. AfterDeal(t) \in {"room", "idle"}
  BY DEF AfterDeal
<1>6. UNCHANGED <<room, nRead, buf, wire, recvLen, recvs, message, delivered>>
  BY DEF DealBuffer2Packet, MeasureReal, CheckHeader, CopyHeader, ParsePacket, ParseFails,
       Announce, PushRecv, reader, parser, owner
<1>7. closed' \in BOOLEAN
  BY DEF TypeInv, TypeOK, DealBuffer2Packet, MeasureReal, CheckHeader, CopyHeader, ParsePacket,
       ParseFails, Announce, PushRecv
<1>8. \A u \in Threads : /\ u # t => pc'[u] = pc[u]
                         /\ pc'[u] \in {"fetch", "drop", "message", "recv"} => pc'[u] = pc[u]
  BY <1>2, <1>5 DEF Goto, DealBuffer2Packet, MeasureReal, CheckHeader, CopyHeader, ParsePacket,
       ParseFails, Announce, PushRecv
<1>9. /\ ring' \in Rings /\ real' \in [Threads -> Cursors] /\ packetLen' \in [Threads -> Cursors]
      /\ events' \in Seq(PacketLens \cup {0})
      /\ \A u \in Threads : pc'[u] \in {"announce", "event"} => packetLen'[u] \in PacketLens
  <2>1. \A u \in Threads : pc[u] \in {"announce", "event"} => packetLen[u] \in PacketLens
    BY DEF TypeInv, LengthsInv
  <2>2. CASE MeasureReal(t) \/ CheckHeader(t) \/ CopyHeader(t)
    <3>1. RealLen(ring.push, ring) \in Cursors
      BY <1>3, <1>4, CursorTypes
    <3>2. real' \in [Threads -> Cursors]
      BY <2>2, <1>3, <1>4, <3>1 DEF MeasureReal, CheckHeader, CopyHeader, parser
    <3>3. UNCHANGED <<ring, packetLen, events>>
      BY <2>2 DEF MeasureReal, CheckHeader, CopyHeader, parser
    <3>4. pc'[t] \notin {"announce", "event"}
      BY <1>2, <1>5, <2>2 DEF MeasureReal, CheckHeader, CopyHeader, Goto
    <3> QED BY <1>4, <1>8, <2>1, <3>2, <3>3, <3>4
  <2>3. CASE ParsePacket(t)
    <3>1. PICK k \in HeaderOf(header[t]) :
            IF Lens[k] <= real[t]
            THEN packetLen' = [packetLen EXCEPT ![t] = Lens[k]] /\ Goto(t, "announce")
            ELSE UNCHANGED packetLen /\ Goto(t, AfterDeal(t))
      BY <2>3 DEF ParsePacket
    <3>2. k \in DOMAIN Lens /\ Lens[k] \in PacketLens
      BY <3>1 DEF HeaderOf, PacketLens
    <3>3. Lens[k] <= real[t] => Lens[k] \in Cursors
      <4>1. Lens[k] \in Nat /\ real[t] \in 0 .. MaxMessageLen
        BY <1>3, <1>4, <3>2
      <4> QED BY <1>3, <4>1, RingAssumption, SMT
    <3>4. real' \in [Threads -> Cursors] /\ UNCHANGED <<ring, events>>
      BY <1>3, <1>4, <2>3 DEF ParsePacket
    <3>5. /\ packetLen' \in [Threads -> Cursors]
          /\ pc'[t] \in {"announce", "event"} => packetLen'[t] = Lens[k]
          /\ \A u \in Threads : u # t => packetLen'[u] = packetLen[u]
      BY <1>2, <1>4, <1>5, <3>1, <3>3 DEF Goto
    <3> QED BY <1>4, <1>8, <2>1, <3>2, <3>4, <3>5
  <2>4. CASE ParseFails(t)
    <3>1. DiscardLen(ring, HeaderLen) \in Rings
      BY <1>3, <1>4, CursorTypes
    <3>2. Append(events, 0) \in Seq(PacketLens \cup {0})
      BY <1>4, AppendProperties
    <3>3. pc'[t] \notin {"announce", "event"}
      BY <1>2, <1>5, <2>4 DEF ParseFails, Goto
    <3> QED BY <1>3, <1>4, <1>8, <2>1, <2>4, <3>1, <3>2, <3>3 DEF ParseFails
  <2>5. CASE Announce(t)
    <3>1. packetLen[t] \in PacketLens
      BY <2>1, <2>5 DEF Announce
    <3>2. DiscardMessPushLen(ring, packetLen[t]) \in Rings
      BY <1>3, <1>4, <3>1, CursorTypes
    <3> QED BY <1>4, <1>8, <2>1, <2>5, <3>1, <3>2 DEF Announce, parser
  <2>6. CASE PushRecv(t)
    <3>1. packetLen[t] \in PacketLens
      BY <2>1, <2>6 DEF PushRecv
    <3>2. Append(events, packetLen[t]) \in Seq(PacketLens \cup {0})
      BY <1>4, <3>1, AppendProperties
    <3>3. pc'[t] \notin {"announce", "event"}
      BY <1>2, <1>5, <2>6 DEF PushRecv, Goto
    <3> QED BY <1>3, <1>4, <1>8, <2>1, <2>6, <3>2, <3>3 DEF PushRecv
  <2> QED BY <2>2, <2>3, <2>4, <2>5, <2>6 DEF DealBuffer2Packet
<1>10. events' \in Seq(Nat)
  BY <1>3, <1>9, SeqMonotonic
<1>11. LengthsInv'
  BY <1>6, <1>8, <1>9 DEF LengthsInv, TypeInv, Threads
<1> QED
  BY <1>2, <1>6, <1>7, <1>9, <1>10, <1>11 DEF TypeOK, TypeInv, wire, EpollSteps, MainSteps, Dealing

\* What MemcpyBuf leaves in the message buffer: bytes of the stream, or none.
LEMMA MemcpyTypes ==
  ASSUME TypeInv, NEW c, NEW n \in Nat
  PROVE  /\ DOMAIN Memcpy(c, n, message) = 0 .. n - 1
         /\ \A i \in 0 .. n - 1 : Memcpy(c, n, message)[i] \in -1 .. StreamLen - 1
<1> DEFINE from == CopiedFrom(c, ring, n)
<1>1. NoByte \in -1 .. StreamLen - 1
  BY StreamFacts, SMT DEF NoByte
<1>2. /\ \A k \in DOMAIN buf : buf[k] \in -1 .. StreamLen - 1
      /\ \A i \in DOMAIN message : message[i] \in -1 .. StreamLen - 1
  BY DEF TypeInv, TypeOK
<1>3. Memcpy(c, n, message) =
        [i \in 0 .. n - 1 |->
           IF from[i] = Untouched THEN (IF i \in DOMAIN message THEN message[i] ELSE NoByte)
           ELSE IF from[i] \in DOMAIN buf THEN buf[from[i]] ELSE NoByte]
  BY Zenon DEF Memcpy
<1> HIDE DEF from
<1> QED BY <1>1, <1>2, <1>3, Zenon

\* The steps of the main thread.
LEMMA MainTypes ==
  ASSUME TypeInv, Main
  PROVE  TypeOK' /\ LengthsInv'
<1>1. Main => [Next]_vars
  BY DEF Next
<1>2. /\ pc'["epoll"] \in EpollSteps /\ pc'["main"] \in MainSteps
      /\ pc \in [Threads -> EpollSteps \cup MainSteps]
  BY <1>1, StepTypes DEF TypeInv
<1>3. /\ PacketLens \subseteq Nat \ {0} /\ PacketLens \cup {0} \subseteq Nat
      /\ ring \in Rings /\ events \in Seq(PacketLens \cup {0}) /\ recvs \in Nat
      /\ pc["main"] \in {"fetch", "drop", "message", "recv"} => recvLen \in PacketLens
  BY PacketFacts, SMT DEF TypeInv, LengthsInv, TypeOK
<1>4. UNCHANGED <<room, nRead, buf, wire, closed, real, packetLen>>
  BY DEF Main, TakeRecv, TakeError, CheckPacket, DropPacket, CopyPacket, DiscardPacket, reader, parser
<1>5. \A t \in Threads : pc'[t] \in {"announce", "event"} => pc'[t] = pc[t]
  BY <1>2 DEF Main, TakeRecv, TakeError, CheckPacket, DropPacket, CopyPacket, DiscardPacket, Goto
<1>6. events # <<>> => Head(events) \in PacketLens \cup {0} /\ Tail(events) \in Seq(PacketLens \cup {0})
  BY <1>3, HeadTailProperties
<1>7. /\ ring' \in Rings
      /\ events' \in Seq(PacketLens \cup {0})
      /\ pc'["main"] \in {"fetch", "drop", "message", "recv"} => recvLen' \in PacketLens
      /\ recvs' \in Nat
      /\ \A i \in DOMAIN message' : message'[i] \in -1 .. StreamLen - 1
      /\ delivered' \subseteq 0 .. StreamLen - 1
  <2>0. /\ \A i \in DOMAIN message : message[i] \in -1 .. StreamLen - 1
        /\ delivered \subseteq 0 .. StreamLen - 1
    BY DEF TypeInv, TypeOK
  <2>1. CASE TakeRecv
    <3>1. Head(events) \in PacketLens
      BY <1>6, <2>1, SMT DEF TakeRecv
    <3> QED BY <1>3, <1>6, <2>0, <2>1, <3>1 DEF TakeRecv
  <2>2. CASE TakeError
    BY <1>3, <1>6, <2>0, <2>2 DEF TakeError, owner
  <2>3. CASE DropPacket \/ DiscardPacket
    <3>1. DiscardLen(ring, recvLen) \in Rings
      BY <1>3, <2>3, CursorTypes DEF DropPacket, DiscardPacket
    <3>2. pc'["main"] \notin {"fetch", "drop", "message", "recv"}
      BY <1>2, <2>3 DEF DropPacket, DiscardPacket, Goto, Threads
    <3> QED BY <1>3, <2>0, <2>3, <3>1, <3>2 DEF DropPacket, DiscardPacket
  <2>4. CASE CheckPacket
    BY <1>3, <2>0, <2>4 DEF CheckPacket, owner
  <2>5. CASE CopyPacket
    <3>1. /\ message' = Memcpy(ring.begin, recvLen, message) /\ recvLen \in Nat
          /\ delivered' = delivered \cup StreamBytes(message')
      BY <1>3, <2>5 DEF CopyPacket
    <3>2. \A i \in DOMAIN message' : message'[i] \in -1 .. StreamLen - 1
      BY <3>1, MemcpyTypes
    <3>3. \A b \in -1 .. StreamLen - 1 : b # NoByte => b \in 0 .. StreamLen - 1
      BY StreamFacts, SMT DEF NoByte
    <3>4. StreamBytes(message') \subseteq 0 .. StreamLen - 1
      BY <3>2, <3>3, Zenon DEF StreamBytes
    <3>5. UNCHANGED <<ring, events, recvLen>> /\ pc["main"] = "message" /\ recvs' \in Nat
      BY <1>3, <2>5, SMT DEF CopyPacket
    <3>6. delivered' \subseteq 0 .. StreamLen - 1
      BY <2>0, <3>1, <3>4, Zenon
    <3> QED BY <1>3, <3>2, <3>5, <3>6, Zenon
  <2> QED BY <2>1, <2>2, <2>3, <2>4, <2>5 DEF Main
<1>8. events' \in Seq(Nat)
  BY <1>3, <1>7, SeqMonotonic
<1>9. LengthsInv'
  BY <1>4, <1>5, <1>7 DEF LengthsInv, TypeInv, Threads
<1> QED
  BY <1>2, <1>4, <1>7, <1>8, <1>9 DEF TypeOK, TypeInv, wire, EpollSteps, MainSteps, Dealing

\* Every step.
LEMMA NextTypes ==
  ASSUME TypeInv, [Next]_vars
  PROVE  TypeInv'
<1>1. pc' \in [Threads -> EpollSteps \cup MainSteps]
  BY StepTypes
<1>2. DOMAIN header' = Threads
  <2>1. DOMAIN header = Threads
    BY DEF TypeInv
  <2>2. header' = header \/ \E t \in Threads : \E h : header' = [header EXCEPT ![t] = h]
    BY DEF Next, Peer, PeerSends, EpollThread, InEvent, AskRoom, Read, NothingToRead, AddRead,
       Main, TakeRecv, TakeError, CheckPacket, DropPacket, CopyPacket, DiscardPacket, DealBuffer2Packet,
       MeasureReal, CheckHeader, CopyHeader, ParsePacket, ParseFails, Announce, PushRecv, Idle,
       vars, parser
  <2> QED BY <2>1, <2>2
<1>3. CASE Idle \/ UNCHANGED vars
  BY <1>1, <1>2, <1>3 DEF Idle, vars, reader, parser, owner, wire, TypeInv, TypeOK, LengthsInv
<1> QED BY <1>1, <1>2, <1>3, ReadTypes, DealTypes, MainTypes DEF TypeInv, Next

--------------------------------------------------------------------------------
(* The first round                                                          *)

\* The peer only sends more.
LEMMA SentGrows ==
  ASSUME TypeInv, [Next]_vars
  PROVE  /\ sent' \in Nat /\ sent \in Nat /\ sent' >= sent
         /\ FirstRound' => FirstRound
         /\ CursorsFit' => CursorsFit
         /\ lockstep' = lockstep
<1>1. sent \in Nat /\ sent' \in Nat
  BY NextTypes, StreamFacts, SMT DEF TypeInv, TypeOK
<1>2. lockstep' = lockstep /\ (sent' = sent \/ \E n \in 1 .. StreamLen : sent' = sent + n)
  BY DEF Next, Peer, PeerSends, EpollThread, InEvent, AskRoom, Read, NothingToRead, AddRead,
       Main, TakeRecv, TakeError, CheckPacket, DropPacket, CopyPacket, DiscardPacket,
       DealBuffer2Packet, MeasureReal, CheckHeader, CopyHeader, ParsePacket, ParseFails,
       Announce, PushRecv, Idle, vars, wire
<1>3. sent' >= sent
  BY <1>1, <1>2, StreamFacts, SMT
<1>4. FirstRound' => FirstRound
  BY <1>1, <1>3, RingAssumption, SMT DEF FirstRound
<1>5. CursorsFit' => CursorsFit
  <2>1. PacketLens \subseteq Nat
    BY PacketFacts
  <2>2. ASSUME NEW n \in PacketLens, sent' + n <= MaxMessageLen PROVE sent + n <= MaxMessageLen
    <3>1. \A a, b, c, d \in Int : a >= b /\ a + c <= d => b + c <= d
      BY SMT
    <3>2. n \in Int /\ sent \in Int /\ sent' \in Int /\ MaxMessageLen \in Int
      BY <1>1, <2>1, RingAssumption
    <3> QED BY <1>3, <2>2, <3>1, <3>2, Zenon
  <2> QED BY <2>2 DEF CursorsFit
<1> QED BY <1>1, <1>2, <1>3, <1>4, <1>5

\* What the invariant of the first round says of the numbers.
LEMMA RoundFacts ==
  ASSUME TypeInv, FirstRound, RoundInv
  PROVE  /\ ring \in Rings
         /\ ring.begin \in 0 .. ring.end /\ ring.push \in 0 .. ring.end
         /\ ring.end \in 0 .. taken /\ taken \in 0 .. sent /\ sent \in 0 .. MaxMessageLen - 1
         /\ RealLen(ring.begin, ring) = ring.end - ring.begin
         /\ RealLen(ring.push, ring) = ring.end - ring.push
         /\ \A k \in 0 .. taken - 1 : k \in DOMAIN buf /\ buf[k] = k
         /\ \A k \in DOMAIN buf : k \in taken .. MaxMessageLen - 1 => buf[k] = NoByte
         /\ DOMAIN buf = 0 .. MaxMessageLen - 1
<1>1. /\ ring \in Rings
      /\ ring.begin \in Cursors /\ ring.push \in Cursors /\ ring.end \in Cursors /\ nRead \in Cursors
      /\ taken \in 0 .. sent /\ sent \in 0 .. StreamLen
      /\ buf \in [0 .. MaxMessageLen - 1 -> -1 .. StreamLen - 1]
  BY DEF TypeInv, TypeOK, Rings
<1>2. /\ ring.begin <= ring.end /\ ring.push <= ring.end
      /\ taken = ring.end + (IF pc["epoll"] = "add" THEN nRead ELSE 0)
      /\ \A k \in 0 .. taken - 1 : buf[k] = k
      /\ \A k \in taken .. MaxMessageLen - 1 : buf[k] = NoByte
      /\ sent < MaxMessageLen
  BY DEF RoundInv, FirstRound
<1>3. /\ RealLen(ring.begin, ring) = ring.end - ring.begin
      /\ RealLen(ring.push, ring) = ring.end - ring.push
  BY <1>1, <1>2, FlatFacts
<1>4. /\ ring.begin \in 0 .. ring.end /\ ring.push \in 0 .. ring.end
      /\ ring.end \in 0 .. taken /\ taken \in 0 .. sent /\ sent \in 0 .. MaxMessageLen - 1
  BY <1>1, <1>2, RingAssumption, StreamFacts, SMTT(30) DEF Cursors
<1>5. \A k \in 0 .. taken - 1 : k \in DOMAIN buf
  <2>1. DOMAIN buf = 0 .. MaxMessageLen - 1
    BY <1>1
  <2> QED BY <1>4, <2>1, RingAssumption, SMT
<1> QED BY <1>1, <1>2, <1>3, <1>4, <1>5

\* Cursors move up to end at most.
LEMMA DiscardsStay ==
  ASSUME TypeInv, FirstRound, RoundInv, NEW n \in Nat
  PROVE  /\ DiscardLen(ring, n).begin <= ring.end
         /\ DiscardMessPushLen(ring, n).push <= ring.end
         /\ ring.begin + n <= MaxMessageLen =>
              DiscardLen(ring, n).begin = IF ring.begin + n > ring.end THEN ring.end
                                          ELSE ring.begin + n
         /\ ring.push + n <= ring.end => DiscardMessPushLen(ring, n).push = ring.push + n
<1>1. /\ ring \in Rings /\ ring.begin \in Cursors /\ ring.push \in Cursors /\ ring.end \in Cursors
      /\ ring.begin <= ring.end /\ ring.push <= ring.end
  BY DEF TypeInv, TypeOK, Rings, RoundInv
<1>2. /\ DiscardLen(ring, n).begin = Discarded(ring.begin, ring, n)
      /\ DiscardMessPushLen(ring, n).push = Discarded(ring.push, ring, n)
  BY <1>1 DEF DiscardLen, DiscardMessPushLen, Rings
<1>3. ring.push + n <= ring.end => ring.push + n <= MaxMessageLen /\ ~(ring.push + n > ring.end)
  BY <1>1, RingAssumption, SMT DEF Cursors
<1> QED BY <1>1, <1>2, <1>3, FlatFacts

\* The first round lasts as long as fewer bytes were sent than the buffer has.
LEMMA RoundStep ==
  ASSUME TypeInv, FirstRound, RoundInv, FirstRound', [Next]_vars
  PROVE  RoundInv'
<1>1. /\ ring.begin \in 0 .. ring.end /\ ring.push \in 0 .. ring.end
      /\ ring.end \in 0 .. taken /\ taken \in 0 .. sent /\ sent \in 0 .. MaxMessageLen - 1
      /\ ring \in Rings
      /\ \A k \in 0 .. taken - 1 : buf[k] = k
  BY RoundFacts
<1>2. /\ pc \in [Threads -> EpollSteps \cup MainSteps]
      /\ pc["epoll"] = "read" => room.ptr = ring.end /\ room.len >= MaxMessageLen - 1 - ring.end
      /\ taken = ring.end + (IF pc["epoll"] = "add" THEN nRead ELSE 0)
      /\ room.ptr \in Cursors /\ room.len \in Cursors /\ nRead \in Cursors
      /\ buf \in [0 .. MaxMessageLen - 1 -> -1 .. StreamLen - 1]
  BY DEF TypeInv, RoundInv, TypeOK
<1>3. CASE Peer \/ Idle \/ UNCHANGED vars
  BY <1>3 DEF Peer, PeerSends, Idle, vars, reader, wire, RoundInv
<1>4. CASE InEvent \/ NothingToRead
  <2>1. /\ pc["epoll"] # "add" /\ pc'["epoll"] \notin {"read", "add"}
        /\ UNCHANGED <<ring, buf, taken>>
    BY <1>2, <1>4 DEF InEvent, NothingToRead, Goto, Threads, wire
  <2> QED BY <1>2, <2>1 DEF RoundInv
<1>5. CASE AskRoom
  <2>1. pc["epoll"] = "room" /\ pc'["epoll"] # "add" /\ UNCHANGED <<ring, buf, taken>>
    BY <1>2, <1>5 DEF AskRoom, Goto, Threads, wire
  <2>2. pc'["epoll"] = "read" => room' = [ptr |-> ring.end, len |-> PushLen(ring)]
    BY <1>2, <1>5 DEF AskRoom, Goto, Threads
  <2>3. PushLen(ring) >= MaxMessageLen - 1 - ring.end
    <3>1. InRange(ring)
      BY <1>1, RingAssumption, SMT DEF InRange
    <3>2. PushLen(ring) = RoomAtEnd(ring.begin, ring.end)
      BY <3>1, LengthFacts
    <3> QED BY <1>1, <3>2, RingAssumption, SMT DEF RoomAtEnd
  <2> QED BY <1>1, <1>2, <2>1, <2>2, <2>3 DEF RoundInv
<1>6. CASE Read
  <2>1. /\ pc["epoll"] = "read" /\ pc'["epoll"] = "add" /\ ring' = ring
        /\ nRead' = IF sent - taken < room.len THEN sent - taken ELSE room.len
        /\ taken' = taken + nRead' /\ room.ptr = ring.end /\ taken = ring.end
        /\ buf' = [k \in DOMAIN buf |-> IF k - room.ptr \in 0 .. nRead' - 1
                                        THEN taken + k - room.ptr ELSE buf[k]]
    BY <1>1, <1>2, <1>6, SMT DEF Read, Goto, Threads
  <2>2. /\ nRead' \in 0 .. sent - taken
    <3>1. room.len \in 0 .. MaxMessageLen /\ taken \in 0 .. sent /\ sent \in Nat
      BY <1>1, <1>2 DEF Cursors
    <3> QED BY <2>1, <3>1, RingAssumption, SMT
  <2>3. \A k \in 0 .. taken' - 1 : buf'[k] = k
    <3> SUFFICES ASSUME NEW k \in 0 .. taken' - 1 PROVE buf'[k] = k
      OBVIOUS
    <3>1. k \in 0 .. MaxMessageLen - 1
      BY <1>1, <2>1, <2>2, RingAssumption, SMT
    <3>2. buf'[k] = IF k - taken \in 0 .. nRead' - 1 THEN taken + k - taken ELSE buf[k]
      BY <1>2, <2>1, <3>1
    <3>3. k - taken \in 0 .. nRead' - 1 \/ k \in 0 .. taken - 1
      BY <1>1, <2>1, <2>2, <3>1, RingAssumption, SMT
    <3>4. taken + k - taken = k
      BY <1>1, <3>1, RingAssumption, SMT
    <3> QED BY <1>1, <3>2, <3>3, <3>4
  <2>4. \A k \in taken' .. MaxMessageLen - 1 : buf'[k] = NoByte
    <3> SUFFICES ASSUME NEW k \in taken' .. MaxMessageLen - 1 PROVE buf'[k] = NoByte
      OBVIOUS
    <3>1. /\ k \in 0 .. MaxMessageLen - 1 /\ k \in taken .. MaxMessageLen - 1
          /\ k - taken \notin 0 .. nRead' - 1
      BY <1>1, <2>1, <2>2, RingAssumption, SMT
    <3>2. buf'[k] = IF k - taken \in 0 .. nRead' - 1 THEN taken + k - taken ELSE buf[k]
      BY <1>2, <2>1, <3>1
    <3> QED BY <3>1, <3>2 DEF RoundInv
  <2> QED BY <1>1, <2>1, <2>3, <2>4 DEF RoundInv
<1>7. CASE AddRead
  <2>1. /\ pc["epoll"] = "add" /\ pc'["epoll"] = "deal" /\ ring' = AddBufLen(ring, nRead)
        /\ UNCHANGED <<buf, taken>>
    BY <1>2, <1>7 DEF AddRead, Goto, Threads, wire
  <2>2. ring.end + nRead = taken
    BY <1>2, <2>1
  <2>3. AddBufLen(ring, nRead) = [ring EXCEPT !.end = taken]
    <3>1. taken \in Cursors /\ ~(taken >= MaxMessageLen)
      BY <1>1, RingAssumption, SMT DEF Cursors
    <3>2. UINT16(ring.end + nRead) = taken
      BY <2>2, <3>1, UINT16Facts
    <3> QED BY <3>1, <3>2, Zenon DEF AddBufLen
  <2>4. ring'.begin = ring.begin /\ ring'.push = ring.push /\ ring'.end = taken
    BY <1>1, <2>1, <2>3 DEF Rings
  <2> QED BY <1>1, <2>1, <2>4, SMT DEF RoundInv
<1>8. CASE Main
  <2>1. pc'["epoll"] = pc["epoll"] /\ UNCHANGED <<buf, room, nRead, taken>>
    BY <1>2, <1>8 DEF Main, TakeRecv, TakeError, CheckPacket, DropPacket, CopyPacket, DiscardPacket, Goto,
         reader, wire, Threads
  <2>2. ring' = ring \/ \E n \in Nat : ring' = DiscardLen(ring, n)
    <3>1. pc["main"] \in {"fetch", "drop", "message", "recv"} => recvLen \in Nat
      BY PacketFacts DEF TypeInv, LengthsInv
    <3> QED BY <1>8, <3>1 DEF Main, TakeRecv, TakeError, CheckPacket, DropPacket, CopyPacket, DiscardPacket
  <2>3. ring'.begin <= ring'.end /\ ring'.push <= ring'.end /\ ring'.end = ring.end
    <3>1. ring.begin <= ring.end /\ ring.push <= ring.end
      BY DEF RoundInv
    <3>2. ASSUME NEW n \in Nat, ring' = DiscardLen(ring, n)
          PROVE  ring'.begin <= ring'.end /\ ring'.push <= ring'.end /\ ring'.end = ring.end
      BY <1>1, <3>1, <3>2, DiscardsStay, CursorTypes
    <3> QED BY <2>2, <3>1, <3>2
  <2> QED BY <2>1, <2>3 DEF RoundInv
<1>9. ASSUME NEW t \in Threads, DealBuffer2Packet(t) PROVE RoundInv'
  <2>1. UNCHANGED <<buf, room, nRead, taken>>
    BY <1>9 DEF DealBuffer2Packet, MeasureReal, CheckHeader, CopyHeader, ParsePacket,
         ParseFails, Announce, PushRecv, reader, wire
  <2>2. /\ pc["epoll"] = "add" => pc'["epoll"] = "add"
        /\ pc'["epoll"] \in {"read", "add"} => pc'["epoll"] = pc["epoll"]
    BY <1>2, <1>9 DEF DealBuffer2Packet, MeasureReal, CheckHeader, CopyHeader, ParsePacket,
         ParseFails, Announce, PushRecv, Goto, AfterDeal, Threads
  <2>3. ring' = ring \/ \E n \in Nat : ring' \in {DiscardLen(ring, n), DiscardMessPushLen(ring, n)}
    <3>1. HeaderLen \in Nat /\ (pc[t] = "announce" => packetLen[t] \in Nat)
      BY PacketFacts, StreamFacts DEF TypeInv, LengthsInv
    <3> QED BY <1>9, <3>1 DEF DealBuffer2Packet, MeasureReal, CheckHeader, CopyHeader,
              ParsePacket, ParseFails, Announce, PushRecv
  <2>4. ring'.begin <= ring'.end /\ ring'.push <= ring'.end /\ ring'.end = ring.end
    <3>1. ASSUME NEW n \in Nat
          PROVE  /\ DiscardLen(ring, n).begin <= ring.end
                 /\ DiscardLen(ring, n).push = ring.push /\ DiscardLen(ring, n).end = ring.end
                 /\ DiscardMessPushLen(ring, n).push <= ring.end
                 /\ DiscardMessPushLen(ring, n).begin = ring.begin
                 /\ DiscardMessPushLen(ring, n).end = ring.end
      BY <1>1, DiscardsStay, CursorTypes
    <3> QED BY <2>3, <3>1 DEF RoundInv
  <2> QED BY <1>2, <2>1, <2>2, <2>4 DEF RoundInv
<1> QED BY <1>3, <1>4, <1>5, <1>6, <1>7, <1>8, <1>9 DEF Next, EpollThread

\* In the first round MemcpyBuf copies the bytes of the stream that lie at the cursor, as
\* far as some were taken.
LEMMA CopyFacts ==
  ASSUME TypeInv, FirstRound, RoundInv, NEW c \in Nat, NEW n \in Nat, c <= ring.end, NEW dst
  PROVE  Memcpy(c, n, dst) = [i \in 0 .. n - 1 |-> IF c + i < taken THEN c + i ELSE NoByte]
<1>1. /\ ring \in Rings /\ ring.end \in 0 .. taken /\ taken \in 0 .. sent
      /\ sent \in 0 .. MaxMessageLen - 1
      /\ \A k \in 0 .. taken - 1 : k \in DOMAIN buf /\ buf[k] = k
      /\ \A k \in DOMAIN buf : k \in taken .. MaxMessageLen - 1 => buf[k] = NoByte
      /\ DOMAIN buf = 0 .. MaxMessageLen - 1
  BY RoundFacts
<1>2. c \in Cursors
  BY <1>1, RingAssumption, SMT DEF Cursors
<1>3. CopiedFrom(c, ring, n) = [i \in 0 .. n - 1 |-> c + i]
  BY <1>1, <1>2, FlatFacts
<1>4. \A i \in 0 .. n - 1 :
        /\ c + i # Untouched
        /\ c + i < taken => c + i \in 0 .. taken - 1
        /\ ~(c + i < taken) /\ c + i \in 0 .. MaxMessageLen - 1 =>
             c + i \in taken .. MaxMessageLen - 1
  BY <1>1, RingAssumption, SMT DEF Untouched
<1>5. \A i \in 0 .. n - 1 :
        /\ c + i # Untouched
        /\ (IF c + i \in DOMAIN buf THEN buf[c + i] ELSE NoByte) =
             IF c + i < taken THEN c + i ELSE NoByte
  <2> TAKE i \in 0 .. n - 1
  <2>1. CASE c + i < taken
    BY <1>1, <1>4, <2>1, Zenon
  <2>2. CASE ~(c + i < taken) /\ c + i \in DOMAIN buf
    BY <1>1, <1>4, <2>2, Zenon
  <2>3. CASE ~(c + i < taken) /\ c + i \notin DOMAIN buf
    BY <1>4, <2>3, Zenon
  <2> QED BY <2>1, <2>2, <2>3
<1> DEFINE from == CopiedFrom(c, ring, n)
<1>6. \A i \in 0 .. n - 1 : from[i] = c + i
  BY <1>3
<1>7. Memcpy(c, n, dst) =
        [i \in 0 .. n - 1 |->
           IF from[i] = Untouched THEN (IF i \in DOMAIN dst THEN dst[i] ELSE NoByte)
           ELSE IF from[i] \in DOMAIN buf THEN buf[from[i]] ELSE NoByte]
  BY Zenon DEF Memcpy
<1> HIDE DEF from
<1>8. \A i \in 0 .. n - 1 :
        (IF from[i] = Untouched THEN (IF i \in DOMAIN dst THEN dst[i] ELSE NoByte)
         ELSE IF from[i] \in DOMAIN buf THEN buf[from[i]] ELSE NoByte)
        = IF c + i < taken THEN c + i ELSE NoByte
  BY <1>5, <1>6, Zenon
<1> QED BY <1>7, <1>8, Zenon

\* They are all there when they lie in front of end.
LEMMA CopyWhole ==
  ASSUME TypeInv, FirstRound, RoundInv, NEW c \in Nat, NEW n \in Nat, c + n <= ring.end, NEW dst
  PROVE  Memcpy(c, n, dst) = [i \in 0 .. n - 1 |-> c + i]
<1>1. ring.end \in Nat /\ taken \in Nat /\ ring.end <= taken
  <2>1. ring.end \in 0 .. taken /\ taken \in 0 .. sent /\ sent \in 0 .. MaxMessageLen - 1
    BY RoundFacts
  <2> QED BY <2>1, RingAssumption, SMT
<1>2. c <= ring.end /\ \A i \in 0 .. n - 1 : c + i < taken
  BY <1>1, SMT
<1>3. Memcpy(c, n, dst) = [i \in 0 .. n - 1 |-> IF c + i < taken THEN c + i ELSE NoByte]
  BY <1>2, CopyFacts
<1> QED BY <1>2, <1>3, Zenon

\* As long as no packet's length overflows a cursor, the peer is in the first round.
LEMMA FitsFacts ==
  ASSUME TypeInv, CursorsFit
  PROVE  /\ FirstRound
         /\ \A n \in PacketLens : sent + n <= MaxMessageLen
         /\ sent + HeaderLen <= MaxMessageLen \/ sent = 0
<1>1. sent \in 0 .. StreamLen /\ MaxMessageLen \in Nat \ {0} /\ HeaderLen \in Nat
  BY StreamFacts, RingAssumption DEF TypeInv, TypeOK
<1>2. \A n \in PacketLens : sent + n <= MaxMessageLen
  BY DEF CursorsFit
<1>3. CASE DOMAIN Lens = {}
  <2>1. StreamLen = 0
    <3>1. Len(Start) = 1
      BY <1>3, StreamFacts, SMT
    <3> QED BY <3>1, ReceiveAssumption DEF StreamLen
  <2>2. sent = 0
    BY <1>1, <2>1, StreamFacts, SMT
  <2> QED BY <1>1, <1>2, <2>2, SMT DEF FirstRound
<1>4. CASE DOMAIN Lens # {}
  <2>1. PICK k \in DOMAIN Lens : TRUE
    BY <1>4
  <2>2. Lens[k] \in Nat \ {0} /\ Lens[k] >= HeaderLen /\ sent + Lens[k] <= MaxMessageLen
    BY <1>2, <2>1, PacketFacts DEF PacketLens
  <2>3. sent \in Nat
    BY <1>1, StreamFacts, SMT
  <2> QED BY <1>1, <1>2, <2>2, <2>3, SMT DEF FirstRound
<1> QED BY <1>3, <1>4

\* What was given to OnRecv is not given back to the buffer.
LEMMA ReachedGrows ==
  ASSUME TypeInv, FirstRound, RoundInv, CursorsFit, RoundInv', [Next]_vars, ~CopyPacket
  PROVE  /\ delivered' = delivered
         /\ ring.end \in Nat /\ ring'.end \in Nat /\ ring'.end >= ring.end
         /\ Reached \in Nat /\ Reached' \in Nat
         /\ Reached' >= Reached \/ Reached' >= ring.end
<1>1. /\ ring \in Rings /\ ring.begin \in Nat /\ ring.push \in Nat /\ ring.end \in Nat
      /\ ring.begin <= ring.end
      /\ ring.begin + HeaderLen <= MaxMessageLen \/ ring.end = 0
      /\ \A n \in PacketLens : n \in Nat /\ ring.begin + n <= MaxMessageLen
  <2>1. /\ ring \in Rings /\ ring.begin \in 0 .. ring.end /\ ring.push \in 0 .. ring.end
        /\ ring.end \in 0 .. taken /\ taken \in 0 .. sent /\ sent \in 0 .. MaxMessageLen - 1
    BY RoundFacts
  <2>2. ring.begin \in Nat /\ ring.end \in Nat /\ ring.push \in Nat /\ sent \in Nat
        /\ ring.begin <= sent /\ ring.end <= sent
    BY <2>1, RingAssumption, SMT
  <2>3. \A n \in PacketLens : n \in Nat /\ sent + n <= MaxMessageLen
    BY FitsFacts, PacketFacts
  <2>4. \A n \in PacketLens : n \in Nat /\ ring.begin + n <= MaxMessageLen
    BY <2>2, <2>3, RingAssumption, SMT
  <2>5. ring.begin + HeaderLen <= MaxMessageLen \/ ring.end = 0
    BY <2>2, FitsFacts, StreamFacts, RingAssumption, SMT
  <2> QED BY <2>1, <2>2, <2>4, <2>5, SMT
<1>2. /\ pc \in [Threads -> EpollSteps \cup MainSteps]
      /\ pc["main"] \in {"fetch", "drop", "message", "recv"} => recvLen \in PacketLens
      /\ pc'["main"] \in {"fetch", "drop", "message", "recv"} => recvLen' \in PacketLens
      /\ ring' \in Rings
  BY NextTypes DEF TypeInv, LengthsInv, TypeOK
<1>3. /\ ring'.begin \in Nat /\ ring'.end \in Nat /\ Reached \in Nat /\ Reached' \in Nat
  <2>1. ring'.begin \in Nat /\ ring'.end \in Nat
    BY <1>2, SMT DEF Rings, Cursors
  <2>2. Reached \in Nat
    BY <1>1, <1>2, SMT DEF Reached
  <2>3. /\ pc'["main"] = "recv" => recvLen' \in Nat
        /\ Reached' = ring'.begin + (IF pc'["main"] = "recv" THEN recvLen' ELSE 0)
    BY <1>1, <1>2 DEF Reached
  <2> QED BY <2>1, <2>2, <2>3, SMT
<1> DEFINE Goal == /\ delivered' = delivered
                   /\ ring'.end >= ring.end
                   /\ Reached' >= Reached \/ Reached' >= ring.end
<1>4. /\ ring.end >= ring.end
      /\ Reached' = Reached => Reached' >= Reached
  BY <1>1, <1>3, SMT
<1>5. CASE UNCHANGED vars
  <2>1. delivered' = delivered /\ ring' = ring /\ Reached' = Reached
    BY <1>5 DEF vars, owner, Reached
  <2> QED BY <1>1, <1>3, <1>4, <2>1
<1>6. CASE Peer \/ Idle \/ InEvent \/ AskRoom \/ Read \/ NothingToRead
  <2>1. ring' = ring /\ delivered' = delivered /\ pc'["main"] = pc["main"] /\ recvLen' = recvLen
    BY <1>2, <1>6 DEF Peer, PeerSends, Idle, InEvent, AskRoom, Read, NothingToRead, Goto, vars,
         owner, Threads
  <2>2. Reached' = Reached
    BY <2>1 DEF Reached
  <2> QED BY <1>1, <1>3, <1>4, <2>1, <2>2
<1>7. CASE AddRead
  <2>1. /\ pc["epoll"] = "add" /\ pc'["epoll"] = "deal" /\ taken' = taken
        /\ pc'["main"] = pc["main"] /\ recvLen' = recvLen /\ delivered' = delivered
        /\ ring'.begin = ring.begin
    BY <1>1, <1>2, <1>7 DEF AddRead, Goto, Threads, wire, owner, AddBufLen, Rings
  <2>2. ring'.end = ring.end + nRead /\ nRead \in Nat
    <3>1. taken = ring.end + nRead
      BY <2>1 DEF RoundInv
    <3>3. taken' = ring'.end + 0
      BY <2>1 DEF RoundInv
    <3>2. nRead \in Nat
      BY SMT DEF TypeInv, TypeOK, Cursors
    <3> QED BY <1>3, <2>1, <3>1, <3>2, <3>3, SMT
  <2>3. Reached' = Reached
    BY <2>1 DEF Reached
  <2> QED BY <1>1, <1>3, <2>1, <2>2, <2>3, SMT
<1>8. ASSUME NEW n \in Nat, ring' = DiscardLen(ring, n), ring.begin + n <= MaxMessageLen
      PROVE  /\ ring'.end = ring.end
             /\ ring'.begin = IF ring.begin + n > ring.end THEN ring.end ELSE ring.begin + n
  BY <1>1, <1>8, DiscardsStay, CursorTypes
<1>9. CASE TakeRecv \/ TakeError \/ CheckPacket
  <2>1. ring' = ring /\ delivered' = delivered /\ pc["main"] # "recv" /\ pc'["main"] # "recv"
    BY <1>2, <1>9 DEF TakeRecv, TakeError, CheckPacket, Goto, Threads, owner
  <2>2. Reached' = Reached
    BY <2>1 DEF Reached
  <2> QED BY <1>1, <1>3, <1>4, <2>1, <2>2
<1>10. CASE DropPacket \/ DiscardPacket
  <2>1. /\ delivered' = delivered /\ pc["main"] \in {"fetch", "drop", "message", "recv"} /\ pc'["main"] # "recv"
        /\ ring' = DiscardLen(ring, recvLen)
    BY <1>2, <1>10 DEF DropPacket, DiscardPacket, Goto, Threads
  <2>2. recvLen \in Nat /\ ring.begin + recvLen <= MaxMessageLen
    BY <1>1, <1>2, <2>1
  <2>3. /\ ring'.end = ring.end
        /\ ring'.begin = IF ring.begin + recvLen > ring.end THEN ring.end ELSE ring.begin + recvLen
    BY <1>8, <2>1, <2>2
  <2>4. Reached' = ring'.begin + 0 /\ Reached \in {ring.begin + 0, ring.begin + recvLen}
    BY <2>1 DEF Reached
  <2> QED BY <1>1, <1>3, <2>1, <2>2, <2>3, <2>4, SMT
<1>11. ASSUME NEW t \in Threads, DealBuffer2Packet(t) PROVE Goal
  <2>1. /\ delivered' = delivered /\ recvLen' = recvLen
        /\ pc["main"] = "recv" <=> pc'["main"] = "recv"
    BY <1>2, <1>11 DEF DealBuffer2Packet, MeasureReal, CheckHeader, CopyHeader, ParsePacket,
         ParseFails, Announce, PushRecv, Goto, AfterDeal, Threads, owner
  <2>2. CASE ring'.begin = ring.begin /\ ring'.end = ring.end
    <3>1. Reached' = Reached
      BY <2>1, <2>2 DEF Reached
    <3> QED BY <1>1, <1>3, <2>1, <2>2, <3>1, SMT
  <2>3. CASE ring' = ring
    BY <2>2, <2>3
  <2>4. CASE Announce(t)
    <3>1. packetLen[t] \in Nat
      BY <2>4, PacketFacts DEF Announce, TypeInv, LengthsInv
    <3> QED BY <1>1, <2>2, <2>4, <3>1, CursorTypes DEF Announce
  <2>5. CASE ParseFails(t)
    <3>1. HeaderLen \in Nat /\ ring' = DiscardLen(ring, HeaderLen)
      BY <2>5, StreamFacts DEF ParseFails
    <3>2. CASE ring.begin + HeaderLen <= MaxMessageLen
      <4>1. /\ ring'.end = ring.end
            /\ ring'.begin = IF ring.begin + HeaderLen > ring.end THEN ring.end
                             ELSE ring.begin + HeaderLen
        BY <1>8, <3>1, <3>2
      <4> DEFINE m == IF pc["main"] = "recv" THEN recvLen ELSE 0
      <4>2. m \in Nat
        BY <1>1, <1>2
      <4>3. Reached = ring.begin + m /\ Reached' = ring'.begin + m
        BY <2>1 DEF Reached
      <4> HIDE DEF m
      <4> QED BY <1>1, <1>3, <2>1, <3>1, <4>1, <4>2, <4>3, SMT
    <3>3. CASE ring.end = 0
      <4>1. ring'.end = ring.end
        BY <1>1, <3>1, CursorTypes
      <4> QED BY <1>1, <1>3, <2>1, <3>3, <4>1, SMT
    <3> QED BY <1>1, <3>2, <3>3
  <2> QED BY <1>11, <2>3, <2>4, <2>5 DEF DealBuffer2Packet, MeasureReal, CheckHeader, CopyHeader,
             ParsePacket, PushRecv
<1>12. Goal
  BY <1>5, <1>6, <1>7, <1>9, <1>10, <1>11 DEF Next, EpollThread, Main
<1> QED BY <1>1, <1>3, <1>12

\* OnRecv is given what lies at begin, as far as some was taken.
LEMMA CopyStep ==
  ASSUME TypeInv, FirstRound, RoundInv, CopyPacket
  PROVE  /\ message' = [i \in 0 .. recvLen - 1 |->
                          IF ring.begin + i < taken THEN ring.begin + i ELSE NoByte]
         /\ delivered' = delivered \cup StreamBytes(message')
         /\ ring' = ring /\ recvLen' = recvLen
         /\ pc["main"] = "message" /\ pc'["main"] = "recv"
         /\ ring.begin \in Nat /\ ring.end \in Nat /\ recvLen \in Nat /\ taken \in Nat
         /\ \A b \in StreamBytes(message') :
              \E i \in 0 .. recvLen - 1 : b = ring.begin + i /\ b < taken
<1>1. /\ pc["main"] = "message" /\ pc'["main"] = "recv" /\ ring' = ring /\ recvLen' = recvLen
      /\ message' = Memcpy(ring.begin, recvLen, message)
      /\ delivered' = delivered \cup StreamBytes(message')
  BY DEF CopyPacket, Goto, TypeInv, Threads
<1>2. recvLen \in Nat
  BY <1>1, PacketFacts DEF TypeInv, LengthsInv
<1>3. ring.begin \in Nat /\ ring.end \in Nat /\ ring.begin <= ring.end /\ taken \in Nat
  <2>1. /\ ring.begin \in 0 .. ring.end /\ ring.end \in 0 .. taken /\ taken \in 0 .. sent
        /\ sent \in 0 .. MaxMessageLen - 1
    BY RoundFacts
  <2> QED BY <2>1, RingAssumption, SMT
<1>4. Memcpy(ring.begin, recvLen, message) =
        [i \in 0 .. recvLen - 1 |-> IF ring.begin + i < taken THEN ring.begin + i ELSE NoByte]
  BY <1>2, <1>3, CopyFacts
<1>5. \A b \in StreamBytes(message') :
        \E i \in 0 .. recvLen - 1 : b = ring.begin + i /\ b < taken
  BY <1>1, <1>4, Zenon DEF StreamBytes
<1> QED BY <1>1, <1>2, <1>3, <1>4, <1>5

\* The test before the copy stays true, or the connection is closed.
LEMMA MessageStep ==
  ASSUME TypeInv, FirstRound, RoundInv, MessageInv, RoundInv', [Next]_vars
  PROVE  MessageInv'
<1>1. /\ pc \in [Threads -> EpollSteps \cup MainSteps] /\ Threads = {"epoll", "main"}
      /\ pc["epoll"] \in EpollSteps /\ pc["main"] \in MainSteps
  BY DEF TypeInv, TypeOK, Threads, EpollSteps, MainSteps, Dealing
<1>2. /\ ring \in Rings /\ RealLen(ring.begin, ring) = ring.end - ring.begin
      /\ ring.begin \in Nat /\ ring.end \in Nat
      /\ pc["main"] = "message" => recvLen \in Nat
  <2>1. /\ ring.begin \in 0 .. ring.end /\ ring.end \in 0 .. taken /\ taken \in 0 .. sent
        /\ sent \in 0 .. MaxMessageLen - 1 /\ ring \in Rings
        /\ RealLen(ring.begin, ring) = ring.end - ring.begin
    BY RoundFacts
  <2>2. pc["main"] = "message" => recvLen \in Nat
    BY PacketFacts DEF TypeInv, LengthsInv
  <2> QED BY <2>1, <2>2, RingAssumption, SMT
<1>3. CASE Peer \/ InEvent \/ AskRoom \/ Read \/ NothingToRead \/ Idle \/ UNCHANGED vars
  <2>1. /\ ring' = ring /\ recvLen' = recvLen /\ closed' = closed /\ pc'["main"] = pc["main"]
        /\ closed /\ pc["epoll"] \in {"idle", "room"} => pc'["epoll"] \in {"idle", "room"}
    BY <1>1, <1>3 DEF Peer, PeerSends, InEvent, AskRoom, Read, NothingToRead, Idle, vars, Goto,
         owner
  <2> QED BY <2>1 DEF MessageInv
<1>4. CASE AddRead
  <2>1. /\ pc["epoll"] = "add" /\ pc'["epoll"] = "deal" /\ pc'["main"] = pc["main"]
        /\ taken' = taken /\ recvLen' = recvLen /\ ring'.begin = ring.begin
    BY <1>1, <1>2, <1>4 DEF AddRead, Goto, wire, owner, AddBufLen, Rings
  <2>2. ring'.end = ring.end + nRead /\ nRead \in Nat
    <3>1. taken = ring.end + nRead
      BY <2>1 DEF RoundInv
    <3>2. taken' = ring'.end + 0
      BY <2>1 DEF RoundInv
    <3>3. nRead \in Nat
      BY SMT DEF TypeInv, TypeOK, Cursors
    <3>4. ring'.end \in Nat
      BY NextTypes, SMT DEF TypeInv, TypeOK, Rings, Cursors
    <3> QED BY <2>1, <3>1, <3>2, <3>3, <3>4, SMT
  <2>3. pc["main"] = "message" => recvLen <= ring.end - ring.begin
    BY <2>1 DEF MessageInv
  <2>4. pc'["main"] = "message" => recvLen' <= ring'.end - ring'.begin
    BY <1>2, <2>1, <2>2, <2>3, SMT
  <2> QED BY <2>4 DEF MessageInv
<1>5. CASE Main
  <2>1. CASE CheckPacket
    <3>1. /\ ring' = ring /\ recvLen' = recvLen
          /\ pc["main"] = "fetch"
          /\ pc'["main"] = "message" => ~(recvLen > RealLen(ring.begin, ring))
      BY <1>1, <2>1 DEF CheckPacket, Goto, owner
    <3>2. recvLen \in Nat
      BY <3>1, PacketFacts DEF TypeInv, LengthsInv
    <3>3. pc'["main"] = "message" => recvLen' <= ring'.end - ring'.begin
      BY <1>2, <3>1, <3>2, SMT
    <3> QED BY <3>3 DEF MessageInv
  <2>2. CASE TakeError
    BY <2>2 DEF TakeError, owner, MessageInv
  <2>3. CASE TakeRecv \/ DropPacket \/ CopyPacket \/ DiscardPacket
    <3>1. pc'["main"] # "message"
      BY <1>1, <2>3 DEF TakeRecv, DropPacket, CopyPacket, DiscardPacket, Goto
    <3> QED BY <3>1 DEF MessageInv
  <2> QED BY <1>5, <2>1, <2>2, <2>3 DEF Main
<1>6. ASSUME NEW t \in Threads, DealBuffer2Packet(t) PROVE MessageInv'
  <2>1. /\ recvLen' = recvLen /\ (closed => closed')
        /\ pc'["main"] = "message" => pc["main"] = "message" /\ t = "epoll"
    BY <1>1, <1>6 DEF DealBuffer2Packet, MeasureReal, CheckHeader, CopyHeader, ParsePacket,
         ParseFails, Announce, PushRecv, Goto, AfterDeal, owner, Dealing
  <2>2. CASE ParseFails(t)
    <3>1. closed' /\ (t = "epoll" => pc'["epoll"] = "room")
      BY <1>1, <2>2 DEF ParseFails, Goto, AfterDeal
    <3> QED BY <2>1, <3>1 DEF MessageInv
  <2>3. CASE ~ParseFails(t)
    <3>1. ring'.begin = ring.begin /\ ring'.end = ring.end
      <4>1. CASE Announce(t)
        <5>1. packetLen[t] \in Nat
          BY <4>1, PacketFacts DEF Announce, TypeInv, LengthsInv
        <5> QED BY <1>2, <4>1, <5>1, CursorTypes DEF Announce
      <4>2. CASE ~Announce(t)
        BY <1>6, <2>3, <4>2 DEF DealBuffer2Packet, MeasureReal, CheckHeader, CopyHeader,
             ParsePacket, PushRecv
      <4> QED BY <4>1, <4>2
    <3>2. pc[t] \in Dealing
      BY <1>6 DEF DealBuffer2Packet, MeasureReal, CheckHeader, CopyHeader, ParsePacket,
           ParseFails, Announce, PushRecv, Dealing
    <3>3. t = "epoll" => pc["epoll"] \notin {"idle", "room"}
      BY <3>2 DEF Dealing
    <3> QED BY <2>1, <3>1, <3>3 DEF MessageInv
  <2> QED BY <2>2, <2>3
<1> QED BY <1>3, <1>4, <1>5, <1>6 DEF Next, EpollThread

\* Every step leaves what was given to OnRecv behind.
LEMMA OnceStep ==
  ASSUME TypeInv, CursorsFit, RoundInv, MessageInv, OnceInv, RoundInv', [Next]_vars
  PROVE  OnceInv'
<1>1. FirstRound
  BY FitsFacts
<1>2. CASE CopyPacket
  <2>1. /\ delivered' = delivered \cup StreamBytes(message')
        /\ ring' = ring /\ recvLen' = recvLen
        /\ pc["main"] = "message" /\ pc'["main"] = "recv"
        /\ ring.begin \in Nat /\ ring.end \in Nat /\ recvLen \in Nat /\ taken \in Nat
        /\ \A b \in StreamBytes(message') :
             \E i \in 0 .. recvLen - 1 : b = ring.begin + i /\ b < taken
    BY <1>1, <1>2, CopyStep
  <2>2. recvLen <= ring.end - ring.begin \/ taken = ring.end + 0
    BY <2>1 DEF MessageInv, RoundInv
  <2>3. Reached = ring.begin + 0 /\ Reached' = ring.begin + recvLen
    BY <2>1 DEF Reached
  <2>4. ASSUME NEW i \in 0 .. recvLen - 1, ring.begin + i < taken
        PROVE  /\ ring.begin + i \in Nat /\ ring.begin + i < ring.end
               /\ ring.begin + i < Reached'
    BY <2>1, <2>2, <2>3, <2>4, SMT
  <2>5. \A b \in Nat : b < Reached => b < Reached'
    BY <2>1, <2>3, SMT
  <2>6. \A b \in StreamBytes(message') : b \in Nat /\ b < ring.end /\ b < Reached'
    BY <2>1, <2>4
  <2>7. \A b \in delivered : b \in Nat /\ b < ring.end /\ b < Reached'
    BY <2>5 DEF OnceInv
  <2> QED BY <2>1, <2>6, <2>7 DEF OnceInv
<1>3. CASE ~CopyPacket
  <2>1. /\ delivered' = delivered
        /\ ring.end \in Nat /\ ring'.end \in Nat /\ ring'.end >= ring.end
        /\ Reached \in Nat /\ Reached' \in Nat
        /\ Reached' >= Reached \/ Reached' >= ring.end
    BY <1>1, <1>3, ReachedGrows
  <2>2. \A m \in Nat : m < ring.end /\ m < Reached => m < ring'.end /\ m < Reached'
    BY <2>1, SMT
  <2> QED BY <2>1, <2>2 DEF OnceInv
<1> QED BY <1>2, <1>3

--------------------------------------------------------------------------------
(* Taking turns                                                             *)

\* The steps that have to do with what the peer sent.
Busy == {"add"} \cup Dealing

\* A thread that deals with what was sent is the only one that does.
LEMMA AloneFacts ==
  ASSUME TypeInv, TurnsInv
  PROVE  /\ pc["main"] # "idle" => /\ events = <<>> /\ taken = sent /\ ~closed
                                   /\ pc["epoll"] \notin Busy
         /\ pc["epoll"] \in Busy => /\ events = <<>> /\ taken = sent /\ ~closed
                                    /\ pc["main"] = "idle"
         /\ taken < sent => /\ pc["main"] = "idle" /\ events = <<>> /\ pc["epoll"] \notin Busy
         /\ closed => pc["epoll"] = "idle" \/ taken = sent
         /\ taken \in Nat /\ sent \in Nat /\ taken <= sent
<1>1. taken \in Nat /\ sent \in Nat /\ taken <= sent
  BY StreamFacts, SMT DEF TypeInv, TypeOK
<1>2. taken = sent \/ taken < sent
  BY <1>1, SMT
<1>3. ~(sent < sent)
  BY <1>1, SMT
<1> QED BY <1>1, <1>2, <1>3 DEF TurnsInv, Busy

\* There is one event at most, and an ERROR only once the connection is closed.
LEMMA OneEvent ==
  ASSUME TypeInv, TurnsInv, ~closed => PlacesInv, events # <<>>
  PROVE  /\ Tail(events) = <<>>
         /\ closed => Head(events) = 0
         /\ ~closed => /\ Head(events) = Lens[Current] /\ Head(events) \in Nat \ {0}
                       /\ Current \in DOMAIN Lens
<1>1. CASE closed
  <2>1. events = <<0>>
    BY <1>1 DEF TurnsInv
  <2>2. Tail(<<0>>) = <<>> /\ Head(<<0>>) = 0
    OBVIOUS
  <2> QED BY <1>1, <2>1, <2>2
<1>2. CASE ~closed
  <2>1. events = <<Lens[Current]>> /\ Current \in DOMAIN Lens
    BY <1>2 DEF PlacesInv, BufferPlaces, Announced
  <2>2. Lens[Current] \in Nat \ {0}
    BY <2>1, PacketFacts DEF PacketLens
  <2> QED BY <1>2, <2>1, <2>2
<1> QED BY <1>1, <1>2

\* With room for all that was sent, read() takes it all.
LEMMA ReadAll ==
  ASSUME TypeInv, FirstRound, RoundInv, Read
  PROVE  taken' = sent
<1>1. /\ ring.end \in 0 .. taken /\ taken \in 0 .. sent /\ sent \in 0 .. MaxMessageLen - 1
  BY RoundFacts
<1>2. /\ room.len >= MaxMessageLen - 1 - ring.end
      /\ taken = ring.end
      /\ nRead' = IF sent - taken < room.len THEN sent - taken ELSE room.len
      /\ taken' = taken + nRead'
  BY <1>1, SMT DEF Read, RoundInv
<1>3. room.len \in 0 .. MaxMessageLen
  BY DEF TypeInv, TypeOK, Cursors
<1> QED BY <1>1, <1>2, <1>3, RingAssumption, SMT

\* The threads keep taking turns.
LEMMA TurnsStep ==
  ASSUME TypeInv, FirstRound, RoundInv, lockstep, TurnsInv, ~closed => PlacesInv, [Next]_vars
  PROVE  TurnsInv'
<1> DEFINE Turns == /\ pc'["epoll"] \in Busy => taken' = sent'
                    /\ pc'["epoll"] \in Busy \/ taken' < sent' => pc'["main"] = "idle" /\ events' = <<>>
                    /\ pc'["main"] # "idle" => events' = <<>>
                    /\ closed' => /\ pc'["main"] = "idle" /\ pc'["epoll"] \notin Busy
                                  /\ events' \in {<<>>, <<0>>}
                                  /\ pc'["epoll"] = "idle" \/ taken' = sent'
<1>1. Turns => TurnsInv'
  BY DEF TurnsInv, Busy
<1> HIDE DEF Turns
<1>2. /\ pc["main"] # "idle" => /\ events = <<>> /\ taken = sent /\ ~closed
                                /\ pc["epoll"] \notin Busy
      /\ pc["epoll"] \in Busy => /\ events = <<>> /\ taken = sent /\ ~closed
                                 /\ pc["main"] = "idle"
      /\ taken < sent => /\ pc["main"] = "idle" /\ events = <<>> /\ pc["epoll"] \notin Busy
      /\ closed => pc["epoll"] = "idle" \/ taken = sent
      /\ closed => events \in {<<>>, <<0>>}
  BY AloneFacts DEF TurnsInv
<1>3. /\ pc \in [Threads -> EpollSteps \cup MainSteps] /\ Threads = {"epoll", "main"}
      /\ ~(sent < sent)
      /\ ~(taken < sent) => taken = sent
  <2>1. taken \in Nat /\ sent \in Nat /\ taken <= sent
    BY AloneFacts
  <2>2. ~(sent < sent) /\ (~(taken < sent) => taken = sent)
    BY <2>1, SMT
  <2> QED BY <2>2 DEF TypeInv, Threads
<1>4. CASE Idle \/ UNCHANGED vars
  <2>1. UNCHANGED <<pc, events, taken, sent, closed>>
    BY <1>4 DEF Idle, vars, wire
  <2> QED BY <2>1 DEF TurnsInv
<1>5. CASE Peer
  <2>1. /\ pc["epoll"] = "idle" /\ pc["main"] = "idle" /\ events = <<>>
        /\ UNCHANGED <<pc, events, closed>>
    BY <1>3, <1>5 DEF Peer, PeerSends, AllHandled
  <2> QED BY <1>1, <2>1 DEF Turns, Busy, Dealing
<1>6. CASE InEvent \/ AskRoom \/ NothingToRead
  <2>1. /\ UNCHANGED <<events, taken, sent, closed>> /\ pc'["main"] = pc["main"]
        /\ pc["epoll"] \notin Busy /\ pc'["epoll"] \notin Busy
        /\ closed => taken = sent
    BY <1>2, <1>3, <1>6 DEF InEvent, AskRoom, NothingToRead, Goto, wire, Busy, Dealing
  <2> QED BY <1>1, <1>2, <2>1 DEF Turns
<1>7. CASE Read
  <2>1. taken' = sent /\ UNCHANGED <<events, sent, closed>> /\ pc'["main"] = pc["main"]
        /\ pc["epoll"] = "read" /\ taken < sent
    BY <1>3, <1>7, ReadAll DEF Read, Goto
  <2>2. ~closed
    BY <1>2, <1>3, <2>1
  <2> QED BY <1>1, <1>2, <2>1, <2>2 DEF Turns
<1>8. CASE AddRead
  <2>1. /\ UNCHANGED <<events, taken, sent, closed>> /\ pc'["main"] = pc["main"]
        /\ pc["epoll"] \in Busy
    BY <1>3, <1>8 DEF AddRead, Goto, wire, Busy
  <2> QED BY <1>1, <1>2, <2>1 DEF Turns
<1>9. CASE TakeRecv \/ TakeError
  <2>1. /\ events # <<>> /\ events' = Tail(events) /\ pc'["epoll"] = pc["epoll"]
        /\ UNCHANGED <<taken, sent, closed>>
        /\ Head(events) > 0 \/ (pc'["main"] = pc["main"] /\ pc["main"] = "idle")
    BY <1>3, <1>9 DEF TakeRecv, TakeError, Goto, wire
  <2>2. Tail(events) = <<>> /\ (closed => Head(events) = 0)
    BY <2>1, OneEvent
  <2>3. closed => ~(Head(events) > 0)
    BY <2>2, SMT
  <2>4. pc["epoll"] \notin Busy /\ ~(taken < sent)
    BY <1>2, <2>1
  <2> QED BY <1>1, <1>2, <1>3, <2>1, <2>2, <2>3, <2>4 DEF Turns
<1>10. CASE CheckPacket \/ DropPacket \/ CopyPacket \/ DiscardPacket
  <2>1. /\ pc["main"] # "idle" /\ UNCHANGED <<events, taken, sent, closed>>
        /\ pc'["epoll"] = pc["epoll"]
    BY <1>3, <1>10 DEF CheckPacket, DropPacket, CopyPacket, DiscardPacket, Goto, wire
  <2> QED BY <1>1, <1>2, <1>3, <2>1 DEF Turns
<1>11. ASSUME NEW t \in Threads, DealBuffer2Packet(t) PROVE TurnsInv'
  <2>1. pc[t] \in Dealing
    BY <1>11 DEF DealBuffer2Packet, MeasureReal, CheckHeader, CopyHeader, ParsePacket,
         ParseFails, Announce, PushRecv, Dealing
  <2>2. events = <<>> /\ taken = sent /\ ~closed /\ UNCHANGED <<taken, sent>>
    BY <1>2, <1>3, <1>11, <2>1 DEF DealBuffer2Packet, MeasureReal, CheckHeader, CopyHeader,
       ParsePacket, ParseFails, Announce, PushRecv, Dealing, Busy, wire
  <2>3. \A u \in Threads : u # t => pc'[u] = pc[u]
    BY <1>3, <1>11 DEF DealBuffer2Packet, MeasureReal, CheckHeader, CopyHeader,
       ParsePacket, ParseFails, Announce, PushRecv, Goto
  <2>4. t = "epoll" => pc["main"] = "idle"
    BY <1>2, <2>1 DEF Busy
  <2>5. t = "main" => pc["epoll"] \notin Busy
    BY <1>2, <2>1 DEF Dealing
  <2>6. CASE ParseFails(t) \/ PushRecv(t)
    <3>1. /\ pc'[t] = AfterDeal(t)
          /\ closed' => events' = <<0>>
      BY <1>3, <2>2, <2>6 DEF ParseFails, PushRecv, Goto
    <3>2. pc'["epoll"] \notin Busy /\ pc'["main"] = "idle"
      BY <1>3, <2>3, <2>4, <2>5, <3>1 DEF AfterDeal, Busy, Dealing
    <3> QED BY <1>1, <1>3, <2>2, <3>1, <3>2 DEF Turns
  <2>7. CASE ~(ParseFails(t) \/ PushRecv(t))
    <3>1. UNCHANGED <<events, closed>>
      BY <1>11, <2>7 DEF DealBuffer2Packet, MeasureReal, CheckHeader, CopyHeader,
         ParsePacket, Announce
    <3>2. pc'["epoll"] \in Busy => pc'["main"] = "idle"
      BY <1>3, <2>3, <2>4, <2>5
    <3> QED BY <1>1, <1>3, <2>2, <3>1, <3>2 DEF Turns
  <2> QED BY <2>6, <2>7
<1> QED BY <1>4, <1>5, <1>6, <1>7, <1>8, <1>9, <1>10, <1>11 DEF Next, EpollThread, Main

\* The steps of one thread in DealBuffer2Packet: what the other one does not touch, and
\* what is left to show.
LEMMA DealFrame ==
  ASSUME TypeInv, TurnsInv, PlacesInv, NEW t \in Threads, DealBuffer2Packet(t)
  PROVE  /\ events = <<>> /\ ~closed /\ Current' = Current
         /\ Current \in DOMAIN Start /\ ring.begin = Start[Current]
         /\ pc[t] # "event" => ring.push = Start[Current]
         /\ pc[t] = "event" => ring.push = Start[Current + 1]
         /\ pc[t] \in {"announce", "event"} =>
              Current \in DOMAIN Lens /\ Start[Current + 1] <= ring.end
         /\ (/\ ring'.begin = Start[Current]
             /\ events' # <<>> \/ pc'[t] \in {"announce", "event"} =>
                  Current \in DOMAIN Lens /\ Start[Current + 1] <= ring'.end
             /\ ring'.push = IF events' # <<>> \/ pc'[t] = "event" THEN Start[Current + 1]
                             ELSE Start[Current]
             /\ events' # <<>> => events' = <<Lens[Current]>>
             /\ DealPlaces(t)')
            => PlacesInv'
<1>1. /\ pc \in [Threads -> EpollSteps \cup MainSteps] /\ Threads = {"epoll", "main"}
      /\ \A w \in {"idle", "fetch", "drop", "message", "recv"} : w \notin Dealing
      /\ {"deal", "check", "copy", "parse", "announce", "event"} = Dealing
  BY DEF TypeInv, Threads, Dealing
<1>2. pc[t] \in Dealing /\ recvs' = recvs /\ \E w : Goto(t, w) /\ w \in Dealing \cup {AfterDeal(t)}
  BY DEF DealBuffer2Packet, MeasureReal, CheckHeader, CopyHeader, ParsePacket,
         ParseFails, Announce, PushRecv, Dealing, owner
<1>3. /\ events = <<>> /\ ~closed
      /\ \A u \in Threads : u # t => pc[u] \notin Dealing
      /\ pc["main"] \notin {"fetch", "drop", "message", "recv"}
  BY <1>1, <1>2, AloneFacts DEF Busy
<1>4. /\ \A u \in Threads : u # t => pc'[u] = pc[u]
      /\ pc'[t] \in Dealing \cup {AfterDeal(t)}
  BY <1>1, <1>2 DEF Goto
<1>5. pc'["main"] \notin {"fetch", "drop", "message", "recv"}
  BY <1>1, <1>3, <1>4 DEF AfterDeal
<1>6. Current = recvs + 1 /\ Current' = Current
  BY <1>2, <1>3, <1>5 DEF Current
<1>7. /\ Announced <=> pc[t] = "event"
      /\ Announced' <=> events' # <<>> \/ pc'[t] = "event"
      /\ (\E u \in Threads : pc[u] = "announce") <=> pc[t] = "announce"
      /\ (\E u \in Threads : pc'[u] = "announce") <=> pc'[t] = "announce"
  BY <1>1, <1>3, <1>4, <1>5 DEF Announced
<1>8. \A u \in Threads : u # t => DealPlaces(u)'
  BY <1>1, <1>3, <1>4 DEF DealPlaces
<1> DEFINE C == Current
<1>9. /\ C \in DOMAIN Start /\ ring.begin = Start[C]
      /\ Announced \/ (\E u \in Threads : pc[u] = "announce") =>
           C \in DOMAIN Lens /\ Start[C + 1] <= ring.end
      /\ ring.push = IF Announced THEN Start[C + 1] ELSE Start[C]
  BY DEF PlacesInv, BufferPlaces
<1>10. Current' = C
  BY <1>6
<1> HIDE DEF C
<1>11. (/\ ring'.begin = Start[C]
        /\ events' # <<>> \/ pc'[t] \in {"announce", "event"} =>
             C \in DOMAIN Lens /\ Start[C + 1] <= ring'.end
        /\ ring'.push = IF events' # <<>> \/ pc'[t] = "event" THEN Start[C + 1] ELSE Start[C]
        /\ events' # <<>> => events' = <<Lens[C]>>
        /\ DealPlaces(t)')
       => PlacesInv'
  <2> SUFFICES ASSUME ring'.begin = Start[C],
                      events' # <<>> \/ pc'[t] \in {"announce", "event"} =>
                        C \in DOMAIN Lens /\ Start[C + 1] <= ring'.end,
                      ring'.push = IF events' # <<>> \/ pc'[t] = "event" THEN Start[C + 1]
                                   ELSE Start[C],
                      events' # <<>> => events' = <<Lens[C]>>,
                      DealPlaces(t)'
               PROVE  PlacesInv'
    OBVIOUS
  <2>1. \A u \in Threads : DealPlaces(u)'
    BY <1>8
  <2>2. BufferPlaces'
    BY <1>5, <1>7, <1>9, <1>10 DEF BufferPlaces
  <2> QED BY <2>1, <2>2 DEF PlacesInv
<1> QED BY <1>3, <1>6, <1>7, <1>9, <1>11 DEF C

\* A thread in DealBuffer2Packet finds the packet at push and announces it.
LEMMA DealPlacesStep ==
  ASSUME TypeInv, FirstRound, RoundInv, TurnsInv, PlacesInv, ~closed',
         NEW t \in Threads, DealBuffer2Packet(t)
  PROVE  PlacesInv'
<1>1. /\ events = <<>> /\ ~closed /\ Current' = Current
      /\ Current \in DOMAIN Start /\ ring.begin = Start[Current]
      /\ pc[t] # "event" => ring.push = Start[Current]
      /\ pc[t] = "event" => ring.push = Start[Current + 1]
      /\ pc[t] \in {"announce", "event"} => Current \in DOMAIN Lens /\ Start[Current + 1] <= ring.end
      /\ DealPlaces(t)
  BY DealFrame DEF PlacesInv
<1>2. (/\ ring'.begin = Start[Current]
       /\ events' # <<>> \/ pc'[t] \in {"announce", "event"} =>
            Current \in DOMAIN Lens /\ Start[Current + 1] <= ring'.end
       /\ ring'.push = IF events' # <<>> \/ pc'[t] = "event" THEN Start[Current + 1] ELSE Start[Current]
       /\ events' # <<>> => events' = <<Lens[Current]>>
       /\ DealPlaces(t)')
      => PlacesInv'
  BY DealFrame
<1>3. /\ pc \in [Threads -> EpollSteps \cup MainSteps]
      /\ real \in [Threads -> Cursors] /\ packetLen \in [Threads -> Cursors]
      /\ ring \in Rings
  BY DEF TypeInv, TypeOK
<1>4. /\ ring.push \in Nat /\ ring.end \in Nat /\ ring.push <= ring.end
      /\ RealLen(ring.push, ring) = ring.end - ring.push
      /\ HeaderLen \in Nat \ {0}
  <2>1. /\ ring.push \in 0 .. ring.end /\ ring.end \in 0 .. taken /\ taken \in 0 .. sent
        /\ sent \in 0 .. MaxMessageLen - 1
        /\ RealLen(ring.push, ring) = ring.end - ring.push
    BY RoundFacts
  <2> QED BY <2>1, StreamFacts, RingAssumption, SMT
<1>5. AfterDeal(t) \notin Dealing
  BY DEF AfterDeal, Dealing
<1>6. ASSUME UNCHANGED <<ring, events>>, pc[t] # "event", pc'[t] \notin {"announce", "event"},
             DealPlaces(t)'
      PROVE  PlacesInv'
  BY <1>1, <1>2, <1>6
<1>7. CASE MeasureReal(t)
  <2>1. /\ UNCHANGED <<ring, events>> /\ pc[t] = "deal"
        /\ real'[t] = IF RealLen(ring.push, ring) >= HeaderLen THEN RealLen(ring.push, ring) ELSE 0
        /\ pc'[t] = IF real'[t] # 0 THEN "check" ELSE AfterDeal(t)
    BY <1>3, <1>7 DEF MeasureReal, Goto
  <2>2. real'[t] # 0 => real'[t] = ring.end - ring.push /\ real'[t] >= HeaderLen
    BY <1>4, <2>1
  <2>3. DealPlaces(t)'
    BY <1>5, <2>1, <2>2 DEF DealPlaces, Dealing
  <2> QED BY <1>5, <1>6, <2>1, <2>3 DEF Dealing
<1>8. CASE CheckHeader(t)
  <2>1. /\ UNCHANGED <<ring, events, real>> /\ pc[t] = "check"
        /\ pc'[t] = IF HeaderLen > RealLen(ring.push, ring) THEN "parse" ELSE "copy"
    BY <1>3, <1>8 DEF CheckHeader, Goto, parser
  <2>2. real[t] = ring.end - ring.push /\ real[t] >= HeaderLen
    BY <1>1, <2>1 DEF DealPlaces
  <2>3. pc'[t] = "copy"
    BY <1>4, <2>1, <2>2, SMT
  <2>4. DealPlaces(t)'
    BY <2>1, <2>2, <2>3 DEF DealPlaces
  <2> QED BY <1>6, <2>1, <2>3, <2>4
<1>9. CASE CopyHeader(t)
  <2>1. /\ UNCHANGED <<ring, events, real>> /\ pc[t] = "copy" /\ pc'[t] = "parse"
    BY <1>3, <1>9 DEF CopyHeader, Goto
  <2>2. real[t] = ring.end - ring.push /\ real[t] >= HeaderLen
    BY <1>1, <2>1 DEF DealPlaces
  <2>3. ring.push + HeaderLen <= ring.end
    BY <1>4, <2>2, SMT
  <2>4. header' = [header EXCEPT ![t] = Memcpy(ring.push, HeaderLen, @)]
    BY <1>9 DEF CopyHeader
  <2>5. header'[t] = [i \in 0 .. HeaderLen - 1 |-> ring.push + i]
    <3>1. Memcpy(ring.push, HeaderLen, header[t]) = [i \in 0 .. HeaderLen - 1 |-> ring.push + i]
      BY <1>4, <2>3, CopyWhole
    <3> QED BY <2>4, <3>1 DEF TypeInv
  <2>6. DealPlaces(t)'
    BY <2>1, <2>2, <2>5 DEF DealPlaces
  <2> QED BY <1>6, <2>1, <2>6
<1>10. CASE ParsePacket(t)
  <2>1. /\ UNCHANGED <<ring, events>> /\ pc[t] = "parse"
    BY <1>10 DEF ParsePacket
  <2>2. PICK k \in HeaderOf(header[t]) :
          IF Lens[k] <= real[t]
          THEN packetLen' = [packetLen EXCEPT ![t] = Lens[k]] /\ Goto(t, "announce")
          ELSE UNCHANGED packetLen /\ Goto(t, AfterDeal(t))
    BY <1>10 DEF ParsePacket
  <2>3. /\ real[t] = ring.end - ring.push
        /\ \A i \in 0 .. HeaderLen - 1 : header[t][i] = ring.push + i
        /\ ring.push = Start[Current]
    BY <1>1, <2>1 DEF DealPlaces
  <2>4. k = Current /\ k \in DOMAIN Lens
    <3>1. k \in DOMAIN Lens /\ header[t][0] = Start[k] + 0 /\ header[t][0] = ring.push + 0
      BY <1>4, <2>2, <2>3, SMT DEF HeaderOf
    <3>2. k \in DOMAIN Start /\ Start[k] \in Nat
      BY <3>1, PacketFacts, StreamFacts
    <3>3. Start[k] = Start[Current]
      BY <1>4, <2>3, <3>1, <3>2, SMT
    <3> QED BY <1>1, <3>1, <3>2, <3>3, PacketFacts
  <2>5. CASE Lens[k] <= real[t]
    <3>1. pc'[t] = "announce" /\ packetLen'[t] = Lens[Current]
      BY <1>3, <2>2, <2>4, <2>5 DEF Goto
    <3>2. Start[Current + 1] <= ring.end
      <4>1. Start[Current + 1] = Start[Current] + Lens[Current] /\ Lens[Current] \in Nat
        BY <2>4, PacketFacts
      <4> QED BY <1>4, <2>3, <2>4, <2>5, <4>1, SMT
    <3>3. DealPlaces(t)'
      BY <3>1, <1>1, <1>2 DEF DealPlaces
    <3> QED BY <1>1, <1>2, <2>1, <2>3, <2>4, <3>1, <3>2, <3>3
  <2>6. CASE ~(Lens[k] <= real[t])
    <3>1. pc'[t] = AfterDeal(t)
      BY <1>3, <2>2, <2>6 DEF Goto
    <3> QED BY <1>5, <1>6, <2>1, <3>1 DEF DealPlaces, Dealing
  <2> QED BY <2>5, <2>6
<1>11. CASE ParseFails(t)
  BY <1>11 DEF ParseFails
<1>12. CASE Announce(t)
  <2>1. /\ pc[t] = "announce" /\ pc'[t] = "event" /\ UNCHANGED <<events, packetLen>>
        /\ ring' = DiscardMessPushLen(ring, packetLen[t])
    BY <1>3, <1>12 DEF Announce, Goto, parser
  <2>2. /\ packetLen[t] = Lens[Current] /\ Current \in DOMAIN Lens /\ Start[Current + 1] <= ring.end
        /\ ring.push = Start[Current]
    BY <1>1, <2>1 DEF DealPlaces
  <2>3. Lens[Current] \in Nat /\ Start[Current + 1] = ring.push + Lens[Current] /\ ring.push + Lens[Current] <= ring.end
    BY <2>2, PacketFacts
  <2>4. ring'.push = Start[Current + 1] /\ ring'.begin = ring.begin /\ ring'.end = ring.end
    BY <1>3, <2>1, <2>2, <2>3, DiscardsStay, CursorTypes
  <2>5. DealPlaces(t)'
    BY <1>1, <2>1, <2>2 DEF DealPlaces
  <2> QED BY <1>1, <1>2, <2>1, <2>2, <2>4, <2>5
<1>13. CASE PushRecv(t)
  <2>1. /\ pc[t] = "event" /\ pc'[t] = AfterDeal(t) /\ UNCHANGED ring
        /\ events' = <<packetLen[t]>>
    BY <1>1, <1>3, <1>13 DEF PushRecv, Goto
  <2>2. packetLen[t] = Lens[Current]
    BY <1>1, <2>1 DEF DealPlaces
  <2>3. DealPlaces(t)'
    BY <1>5, <2>1 DEF DealPlaces, Dealing
  <2> QED BY <1>1, <1>2, <1>5, <2>1, <2>2, <2>3 DEF Dealing
<1> QED BY <1>7, <1>8, <1>9, <1>10, <1>11, <1>12, <1>13 DEF DealBuffer2Packet

\* The main thread takes the packet at begin, and goes on with the next one.
LEMMA MainPlacesStep ==
  ASSUME TypeInv, FirstRound, RoundInv, TurnsInv, ~closed, PlacesInv, Main
  PROVE  PlacesInv'
<1>1. /\ pc \in [Threads -> EpollSteps \cup MainSteps] /\ Threads = {"epoll", "main"}
      /\ ring \in Rings /\ recvs \in Nat
  BY DEF TypeInv, TypeOK, Threads
<1>2. /\ pc["main"] # "idle" => events = <<>> /\ pc["epoll"] \notin Busy
      /\ events # <<>> => /\ Tail(events) = <<>>
                          /\ Head(events) = Lens[Current] /\ Head(events) \in Nat \ {0}
  BY AloneFacts, OneEvent
<1>3. /\ Current \in DOMAIN Start
      /\ ring.begin = Start[Current]
      /\ Announced => Current \in DOMAIN Lens /\ Start[Current + 1] <= ring.end
      /\ (\E t \in Threads : pc[t] = "announce") =>
           Current \in DOMAIN Lens /\ Start[Current + 1] <= ring.end
      /\ ring.push = IF Announced THEN Start[Current + 1] ELSE Start[Current]
      /\ pc["main"] \in {"fetch", "drop", "message", "recv"} => recvLen = Lens[Current]
      /\ \A t \in Threads : DealPlaces(t)
  BY DEF PlacesInv, BufferPlaces
<1>4. /\ UNCHANGED <<real, header, packetLen>>
      /\ \A t \in Threads : pc'[t] \in Dealing \ {"deal"} <=> pc[t] \in Dealing \ {"deal"}
      /\ \A t \in Threads : pc'[t] \in Dealing \ {"deal"} => pc'[t] = pc[t]
      /\ pc'["epoll"] = pc["epoll"]
  BY <1>1 DEF Main, TakeRecv, TakeError, CheckPacket, DropPacket, CopyPacket, DiscardPacket, Goto, parser,
       Dealing
<1>5. /\ ring.begin \in Nat /\ ring.end \in Nat
      /\ RealLen(ring.begin, ring) = ring.end - ring.begin
  <2>1. /\ ring.begin \in 0 .. ring.end /\ ring.end \in 0 .. taken /\ taken \in 0 .. sent
        /\ sent \in 0 .. MaxMessageLen - 1
        /\ RealLen(ring.begin, ring) = ring.end - ring.begin
    BY RoundFacts
  <2> QED BY <2>1, RingAssumption, SMT
<1>6. CASE TakeRecv
  <2>1. /\ events # <<>> /\ events' = <<>> /\ recvLen' = Lens[Current]
        /\ pc["main"] = "idle" /\ pc'["main"] = "fetch"
        /\ UNCHANGED <<ring, recvs, message>>
    BY <1>1, <1>2, <1>6 DEF TakeRecv, Goto
  <2>2. Current' = Current /\ Announced /\ Announced'
    BY <2>1 DEF Current, Announced
  <2>3. \A t \in Threads : DealPlaces(t)'
    BY <1>3, <1>4, <2>1, <2>2 DEF DealPlaces, Dealing
  <2>4. BufferPlaces'
    BY <1>3, <2>1, <2>2 DEF BufferPlaces
  <2> QED BY <2>3, <2>4 DEF PlacesInv
<1>7. CASE TakeError
  <2>1. events # <<>> /\ Head(events) = 0
    BY <1>7 DEF TakeError
  <2> QED BY <1>2, <2>1
<1>8. CASE CheckPacket
  <2>1. /\ UNCHANGED <<ring, recvLen, events, recvs, message>>
        /\ pc["main"] = "fetch" /\ recvLen = Lens[Current]
        /\ pc'["main"] = IF recvLen > RealLen(ring.begin, ring) THEN "drop" ELSE "message"
    BY <1>1, <1>3, <1>8 DEF CheckPacket, Goto, owner
  <2>2. Current \in DOMAIN Lens /\ Start[Current + 1] <= ring.end
    BY <1>3, <2>1 DEF Announced
  <2>3. Start[Current + 1] = ring.begin + Lens[Current] /\ Lens[Current] \in Nat
    BY <1>3, <2>2, PacketFacts
  <2>4. pc'["main"] = "message"
    BY <1>5, <2>1, <2>2, <2>3, SMT
  <2>5. Current' = Current /\ Announced /\ Announced'
    BY <2>1, <2>4 DEF Current, Announced
  <2>6. \A t \in Threads : DealPlaces(t)'
    BY <1>3, <1>4, <2>1, <2>5 DEF DealPlaces, Dealing
  <2>7. events' = <<>>
    BY <1>2, <2>1
  <2>8. BufferPlaces'
    BY <1>3, <2>1, <2>2, <2>4, <2>5, <2>7 DEF BufferPlaces
  <2> QED BY <2>6, <2>8 DEF PlacesInv
<1>9. CASE DropPacket
  BY <1>9 DEF DropPacket, PlacesInv, BufferPlaces
<1>11. CASE CopyPacket
  <2>1. /\ message' = [i \in 0 .. recvLen - 1 |->
                         IF ring.begin + i < taken THEN ring.begin + i ELSE NoByte]
        /\ UNCHANGED <<ring, recvLen, events>> /\ recvs' = recvs + 1
        /\ pc["main"] = "message" /\ pc'["main"] = "recv" /\ recvLen \in Nat /\ taken \in Nat
    BY <1>11, CopyStep DEF CopyPacket
  <2>2. /\ Current' = Current /\ Announced /\ Announced' /\ recvLen = Lens[Current]
        /\ Current \in DOMAIN Lens /\ Start[Current + 1] <= ring.end
    BY <1>3, <2>1 DEF Current, Announced
  <2>3. \A t \in Threads : DealPlaces(t)'
    BY <1>3, <1>4, <2>1, <2>2 DEF DealPlaces, Dealing
  <2>4. \A i \in 0 .. recvLen - 1 : ring.begin + i < taken
    <3>1. Start[Current + 1] = ring.begin + recvLen
      BY <1>3, <2>2, PacketFacts
    <3>2. ring.end <= taken
      <4>1. ring.end \in 0 .. taken
        BY RoundFacts
      <4> QED BY <2>1, <4>1, SMT
    <3> QED BY <1>5, <2>1, <2>2, <3>1, <3>2, SMT
  <2>5. message' = [i \in 0 .. Lens[Current] - 1 |-> Start[Current] + i]
    BY <1>3, <2>1, <2>2, <2>4, Zenon
  <2>6. events' = <<>>
    BY <1>2, <2>1
  <2>7. BufferPlaces'
    BY <1>3, <2>1, <2>2, <2>5, <2>6 DEF BufferPlaces
  <2> QED BY <2>3, <2>7 DEF PlacesInv
<1>10. CASE DiscardPacket
  <2>1. /\ ring' = DiscardLen(ring, recvLen) /\ UNCHANGED <<events, recvs>>
        /\ pc["main"] = "recv" /\ pc'["main"] = "deal"
    BY <1>1, <1>10 DEF DiscardPacket, Goto
  <2>2. /\ Current = recvs /\ Announced /\ recvLen = Lens[Current]
        /\ Current \in DOMAIN Lens /\ Start[Current + 1] <= ring.end
        /\ ring.push = Start[Current + 1]
    BY <1>3, <2>1 DEF Current, Announced
  <2>3. Current' = Current + 1
    BY <2>1, <2>2 DEF Current
  <2>4. /\ Start[Current + 1] = ring.begin + recvLen /\ recvLen \in Nat
        /\ Current + 1 \in DOMAIN Start
    BY <1>3, <2>2, PacketFacts
  <2>5. ring'.begin = Start[Current + 1] /\ ring'.push = ring.push /\ ring'.end = ring.end
    <3>1. ring.begin + recvLen <= MaxMessageLen /\ ~(ring.begin + recvLen > ring.end)
      <4>1. ring.end \in 0 .. MaxMessageLen
        BY <1>1 DEF Rings, Cursors
      <4> QED BY <1>5, <2>2, <2>4, <4>1, RingAssumption, SMT
    <3> QED BY <1>1, <2>1, <2>4, <3>1, DiscardsStay, CursorTypes
  <2>6. events' = <<>> /\ pc["epoll"] \notin Busy /\ pc'["epoll"] \notin Busy
    BY <1>2, <1>4, <2>1
  <2>7. \A t \in Threads : pc'[t] \notin Dealing \ {"deal"}
    BY <1>1, <2>1, <2>6 DEF Busy
  <2>8. ~Announced' /\ ~(\E t \in Threads : pc'[t] = "announce")
    BY <2>1, <2>6, <2>7 DEF Announced, Dealing
  <2>9. \A t \in Threads : DealPlaces(t)'
    BY <2>7 DEF DealPlaces, Dealing
  <2>10. BufferPlaces'
    BY <2>1, <2>2, <2>3, <2>4, <2>5, <2>6, <2>8 DEF BufferPlaces
  <2> QED BY <2>9, <2>10 DEF PlacesInv
<1> QED BY <1>6, <1>7, <1>8, <1>9, <1>10, <1>11 DEF Main

\* Every step of the threads, and of the peer, leaves the packets at their places.
LEMMA PlacesStep ==
  ASSUME TypeInv, FirstRound, RoundInv, TurnsInv, ~closed => PlacesInv, ~closed', [Next]_vars
  PROVE  PlacesInv'
<1>1. ~closed /\ PlacesInv
  BY DEF Next, Peer, PeerSends, EpollThread, InEvent, AskRoom, Read, NothingToRead, AddRead,
       Main, TakeRecv, TakeError, CheckPacket, DropPacket, CopyPacket, DiscardPacket, DealBuffer2Packet,
       MeasureReal, CheckHeader, CopyHeader, ParsePacket, ParseFails, Announce, PushRecv, Idle, vars
<1>2. pc \in [Threads -> EpollSteps \cup MainSteps] /\ Threads = {"epoll", "main"}
  BY DEF TypeInv, Threads
<1>3. CASE Peer \/ InEvent \/ AskRoom \/ Read \/ NothingToRead \/ Idle \/ UNCHANGED vars
  <2>1. /\ UNCHANGED <<ring, events, recvs, recvLen, message, real, header, packetLen>>
        /\ \A t \in Threads : pc'[t] \in Dealing <=> pc[t] \in Dealing
        /\ \A t \in Threads : pc'[t] \in Dealing => pc'[t] = pc[t]
        /\ pc'["main"] = pc["main"]
    BY <1>2, <1>3 DEF Peer, PeerSends, InEvent, AskRoom, Read, NothingToRead, Idle, vars, Goto,
         parser, owner, Dealing
  <2>2. Current' = Current /\ (Announced' <=> Announced)
    BY <2>1 DEF Current, Announced, Dealing
  <2>3. (\E t \in Threads : pc'[t] = "announce") <=> \E t \in Threads : pc[t] = "announce"
    BY <2>1 DEF Dealing
  <2>4. \A t \in Threads : DealPlaces(t)'
    BY <1>1, <2>1, <2>2 DEF PlacesInv, DealPlaces, Dealing
  <2>5. BufferPlaces'
    BY <1>1, <2>1, <2>2, <2>3 DEF PlacesInv, BufferPlaces
  <2> QED BY <2>4, <2>5 DEF PlacesInv
<1>4. CASE AddRead
  <2>1. /\ pc["epoll"] = "add" /\ pc'["epoll"] = "deal" /\ pc'["main"] = pc["main"]
        /\ UNCHANGED <<events, recvs>>
        /\ ring'.begin = ring.begin /\ ring'.push = ring.push
    BY <1>2, <1>4 DEF AddRead, Goto, owner, AddBufLen, TypeInv, TypeOK, Rings
  <2>2. pc["main"] = "idle" /\ events = <<>>
    BY <2>1, AloneFacts DEF Busy
  <2>3. \A t \in Threads : pc'[t] \notin Dealing \ {"deal"}
    BY <1>2, <2>1, <2>2 DEF Dealing
  <2>4. Current' = Current /\ ~Announced /\ ~Announced' /\ ~\E t \in Threads : pc'[t] = "announce"
    BY <1>2, <2>1, <2>2, <2>3 DEF Current, Announced, Dealing
  <2>5. \A t \in Threads : DealPlaces(t)'
    BY <2>3 DEF DealPlaces, Dealing
  <2>6. BufferPlaces'
    BY <1>1, <2>1, <2>2, <2>4 DEF PlacesInv, BufferPlaces
  <2> QED BY <2>5, <2>6 DEF PlacesInv
<1> QED BY <1>1, <1>3, <1>4, MainPlacesStep, DealPlacesStep DEF Next, EpollThread

--------------------------------------------------------------------------------
(* The theorems                                                             *)

\* At first nothing was sent, and all cursors are where the first packet starts.
LEMMA InitInvariant == Init => IInv
<1> SUFFICES ASSUME Init PROVE IInv
  OBVIOUS
<1>1. TypeInv
  BY InitTypes
<1>2. /\ pc = [t \in Threads |-> "idle"] /\ ring = EmptyRing /\ events = <<>>
      /\ taken = 0 /\ sent = 0 /\ ~closed /\ recvs = 0
      /\ message = [i \in 0 .. -1 |-> NoByte]
      /\ Threads = {"epoll", "main"}
  BY DEF Init, Threads
<1>3. RoundInv
  <2>1. ring.begin = 0 /\ ring.push = 0 /\ ring.end = 0 /\ pc["epoll"] = "idle"
    BY <1>2 DEF EmptyRing
  <2>2. buf = [k \in 0 .. MaxMessageLen - 1 |-> NoByte]
    BY DEF Init
  <2> QED BY <1>2, <2>1, <2>2, SMT DEF RoundInv
<1>4. OnceInv /\ MessageInv
  BY <1>2 DEF Init, OnceInv, MessageInv
<1>5. TurnsInv
  <2>1. ~(taken < sent)
    BY <1>2, SMT
  <2> QED BY <1>2, <2>1 DEF TurnsInv, Dealing
<1>6. PlacesInv
  <2>1. Current = 1 /\ ~Announced /\ ~\E t \in Threads : pc[t] = "announce"
    BY <1>2, SMT DEF Current, Announced
  <2>2. 1 \in DOMAIN Start /\ Start[1] = 0
    BY StreamFacts, ReceiveAssumption, SMT
  <2>3. \A t \in Threads : DealPlaces(t)
    BY <1>2 DEF DealPlaces
  <2> QED BY <1>2, <2>1, <2>2, <2>3 DEF PlacesInv, BufferPlaces, EmptyRing
<1> QED BY <1>1, <1>3, <1>4, <1>5, <1>6 DEF IInv

\* Every step preserves it: a part that holds up to some number of bytes was true before,
\* as the peer only sends more.
LEMMA NextInvariant == IInv /\ [Next]_vars => IInv'
<1> SUFFICES ASSUME IInv, [Next]_vars PROVE IInv'
  OBVIOUS
<1>1. TypeInv /\ TypeInv'
  BY NextTypes DEF IInv
<1>2. /\ FirstRound' => FirstRound
      /\ CursorsFit' => CursorsFit
      /\ lockstep' = lockstep
  BY <1>1, SentGrows
<1>3. FirstRound' => RoundInv /\ RoundInv' /\ MessageInv /\ MessageInv'
  BY <1>1, <1>2, RoundStep, MessageStep DEF IInv
<1>4. CursorsFit' => OnceInv'
  <2> SUFFICES ASSUME CursorsFit' PROVE OnceInv'
    OBVIOUS
  <2>1. FirstRound'
    BY <1>1, FitsFacts, PTL
  <2> QED BY <1>1, <1>2, <1>3, <2>1, OnceStep DEF IInv
<1>5. FirstRound' /\ lockstep' => TurnsInv' /\ (~closed' => PlacesInv')
  BY <1>1, <1>2, <1>3, TurnsStep, PlacesStep DEF IInv
<1> QED BY <1>1, <1>3, <1>4, <1>5 DEF IInv

\* The inductive invariant holds throughout.
THEOREM Invariance == Spec => []IInv
BY InitInvariant, NextInvariant, PTL DEF Spec

\* Types: whatever lengths the threads announce and discard while they race, cursors and
\* lengths stay 16 bit numbers, and only lengths of whole packets travel as RECV events.
THEOREM TypeCorrect == Spec => []TypeOK
<1>1. IInv => TypeOK
  BY DEF IInv, TypeInv
<1> QED BY <1>1, Invariance, PTL

\* OnRecv is given the packets whole and in their order (OnRecvGetsThePackets), for every
\* stream of packets, as long as fewer bytes were sent than the buffer has.
THEOREM PacketsArriveWhole == Spec => [](FirstRound => OnRecvGetsThePackets)
<1>1. IInv => (FirstRound => OnRecvGetsThePackets)
  <2> SUFFICES ASSUME IInv, FirstRound, lockstep, pc["main"] = "recv"
               PROVE  /\ recvs \in DOMAIN Lens
                      /\ message = [i \in 0 .. Lens[recvs] - 1 |-> Start[recvs] + i]
    BY DEF OnRecvGetsThePackets
  <2>1. TurnsInv /\ (~closed => PlacesInv)
    BY DEF IInv
  <2>2. ~closed
    BY <2>1 DEF TurnsInv
  <2> QED BY <2>1, <2>2 DEF PlacesInv, BufferPlaces, Announced, Current
<1> QED BY <1>1, Invariance, PTL

\* The push cursor lies between begin and end, as ringbuffer.h:32 says, while the threads
\* take turns and the connection is open (PushIsBetweenInTurns), in the first round.
THEOREM PushStaysBetween == Spec => [](FirstRound => PushIsBetweenInTurns)
<1>1. IInv => (FirstRound => PushIsBetweenInTurns)
  <2> SUFFICES ASSUME IInv, FirstRound, lockstep, ~closed
               PROVE  RealLen(ring.begin, ring) >= RealLen(ring.push, ring)
    BY DEF PushIsBetweenInTurns, PushIsBetween
  <2>1. TypeInv /\ RoundInv /\ PlacesInv
    BY DEF IInv
  <2>2. /\ ring.begin \in 0 .. ring.end /\ ring.push \in 0 .. ring.end
        /\ ring.end \in 0 .. taken /\ taken \in 0 .. sent /\ sent \in 0 .. MaxMessageLen - 1
        /\ RealLen(ring.begin, ring) = ring.end - ring.begin
        /\ RealLen(ring.push, ring) = ring.end - ring.push
    BY <2>1, RoundFacts
  <2>3. ring.begin <= ring.push
    <3>1. /\ ring.begin = Start[Current] /\ Current \in DOMAIN Start
          /\ ring.push = IF Announced THEN Start[Current + 1] ELSE Start[Current]
          /\ Announced => Current \in DOMAIN Lens
      BY <2>1 DEF PlacesInv, BufferPlaces
    <3>2. Announced => Start[Current + 1] = Start[Current] + Lens[Current] /\ Lens[Current] \in Nat
      BY <3>1, PacketFacts
    <3>3. Start[Current] \in Nat
      BY <3>1, StreamFacts
    <3> QED BY <3>1, <3>2, <3>3, SMT
  <2> QED BY <2>2, <2>3, RingAssumption, SMT
<1> QED BY <1>1, Invariance, PTL

\* A step of OnRecv gets bytes that follow, in the stream, all that it was given before.
LEMMA NewBytes ==
  ASSUME IInv, CursorsFit, [Next]_vars, recvs' # recvs
  PROVE  \A b \in delivered, c \in StreamBytes(message') : b < c
<1>1. TypeInv /\ FirstRound /\ RoundInv /\ OnceInv
  BY FitsFacts DEF IInv
<1>2. CopyPacket
  BY DEF Next, Peer, PeerSends, EpollThread, InEvent, AskRoom, Read, NothingToRead, AddRead,
       Main, TakeRecv, TakeError, CheckPacket, DropPacket, DiscardPacket, DealBuffer2Packet,
       MeasureReal, CheckHeader, CopyHeader, ParsePacket, ParseFails, Announce, PushRecv, Idle,
       vars, owner
<1>3. /\ pc["main"] = "message" /\ ring.begin \in Nat /\ recvLen \in Nat
      /\ \A c \in StreamBytes(message') : \E i \in 0 .. recvLen - 1 : c = ring.begin + i
  BY <1>1, <1>2, CopyStep
<1>4. \A b \in delivered : b \in Nat /\ b < ring.begin + 0
  BY <1>1, <1>3 DEF OnceInv, Reached
<1>5. \A b \in Nat : \A i \in 0 .. recvLen - 1 : b < ring.begin + 0 => b < ring.begin + i
  BY <1>3, SMT
<1> QED BY <1>3, <1>4, <1>5

\* No byte of the stream is delivered twice or late while no packet's length can overflow
\* a cursor, whatever the threads announce and discard while they race, between the test
\* and the copy of MemcpyBuf too.
THEOREM NoByteTwiceYet ==
  Spec => [][CursorsFit /\ recvs' # recvs =>
               \A b \in delivered, c \in StreamBytes(message') : b < c]_vars
<1>1. IInv /\ [Next]_vars =>
        [CursorsFit /\ recvs' # recvs =>
           \A b \in delivered, c \in StreamBytes(message') : b < c]_vars
  BY NewBytes
<1> QED BY <1>1, Invariance, PTL DEF Spec

\* So a peer whose stream fits, with one more packet, into the buffer gets no byte to
\* OnRecv twice (NoByteTwice).
THEOREM NoByteIsTwice ==
  ASSUME \A n \in PacketLens : StreamLen + n <= MaxMessageLen
  PROVE  Spec => NoByteTwice
<1>1. IInv => CursorsFit
  <2> SUFFICES ASSUME IInv, NEW n \in PacketLens PROVE sent + n <= MaxMessageLen
    BY DEF CursorsFit
  <2>1. sent \in 0 .. StreamLen /\ n \in Nat /\ StreamLen + n <= MaxMessageLen
    BY PacketFacts DEF IInv, TypeInv, TypeOK
  <2> QED BY <2>1, StreamFacts, RingAssumption, SMT
<1>2. IInv /\ [Next]_vars =>
        [recvs' # recvs => \A b \in delivered, c \in StreamBytes(message') : b < c]_vars
  BY <1>1, NewBytes
<1> QED BY <1>2, Invariance, PTL DEF Spec, NoByteTwice

================================================================================
