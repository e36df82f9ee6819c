------------------------------ MODULE ReceivePath -------------------------------
(***************************************************************************)
(* Receiving on one connection: the read loop of ThreadEpollFunc           *)
(* (epollthread.cpp), CRingBuffer::DealBuffer2Packet (ringbuffer.cpp) and  *)
(* CConnection::_ProcRecv (connection.cpp).  The epoll thread reads into   *)
(* the receive buffer and announces whole packets as RECV events; the main *)
(* thread copies an announced packet out, gives it to OnRecv, discards it, *)
(* and announces the next one itself.  Both threads run                    *)
(* DealBuffer2Packet, whose calls on the buffer are each under m_oBuffLock *)
(* but not together: one action is one such call.                          *)
(*                                                                         *)
(* The peer sends packets (with their headers) that start at the places    *)
(* Start in the stream; byte n of that stream is the number n.  The event  *)
(* queue is the FIFO of NetEvents, with room.  After an unparsable header  *)
(* the connection is closed; what follows is in NetEvents.                 *)
(***************************************************************************)
EXTENDS RingBuffer, Sequences

CONSTANTS
  HeaderLen,    \* sizeof(SPacketHeader)
  Start,        \* where each packet of the peer starts in the stream, and where the last ends
  BadPackets,   \* those whose header does not pass __CheckPkgHeader
  Pacings       \* how the peer may send: in lockstep or freely

ASSUME ReceiveAssumption ==
  /\ HeaderLen \in Nat \ {0}
  /\ Start \in Seq(Nat) /\ Start # <<>> /\ Start[1] = 0
  /\ \A j, k \in DOMAIN Start : j < k => Start[j] + HeaderLen <= Start[k]
  /\ BadPackets \subseteq 1 .. Len(Start) - 1
  /\ Pacings \subseteq BOOLEAN

Threads == {"epoll", "main"}

\* How long each packet is, and the stream.
Lens == [k \in 1 .. Len(Start) - 1 |-> Start[k + 1] - Start[k]]
StreamLen == Start[Len(Start)]

\* The content of memory nothing of the stream was copied to.
NoByte == -1

VARIABLES
  pc,         \* where each thread is
  ring,       \* the cursors of m_oRecvBuffer
  buf,        \* its bytes
  room,       \* pOut and wOutLen of the epoll thread
  nRead,      \* nReadRet
  real,       \* wRealLen of each thread
  header,     \* szPacket of each thread
  packetLen,  \* nPacketLen of each thread
  events,     \* m_eventNet: the lengths of RECV events, 0 for an ERROR
  recvLen,    \* dwLen of _ProcRecv
  message,    \* m_szMessBuffer of the module
  lockstep,   \* the peer sends on only when everything it sent was handled
  sent,       \* how many bytes the peer has sent
  taken,      \* how many of them read() has taken
  edge,       \* epoll_wait will report EPOLLIN
  closed,     \* the connection was closed
  recvs,      \* how often OnRecv was called
  delivered   \* the bytes of the stream it was given (history)

reader == <<room, nRead>>
parser == <<real, header, packetLen>>
owner  == <<recvLen, message, recvs, delivered>>
wire   == <<lockstep, sent, taken, edge>>
vars   == <<pc, ring, buf, reader, parser, events, owner, wire, closed>>

Goto(t, where) == pc' = [pc EXCEPT ![t] = where]

\* Where a thread goes on after DealBuffer2Packet.
AfterDeal(t) == IF t = "epoll" THEN "room" ELSE "idle"

--------------------------------------------------------------------------------
(* The peer and the kernel                                                  *)

AllHandled ==
  /\ \A t \in Threads : pc[t] = "idle"
  /\ events = <<>>

PeerSends(n) ==
  /\ sent + n <= StreamLen
  /\ lockstep => AllHandled
  /\ sent' = sent + n
  /\ edge' = TRUE
  /\ UNCHANGED <<pc, ring, buf, reader, parser, events, owner, lockstep, taken, closed>>

--------------------------------------------------------------------------------
(* The EPOLLIN branch of ThreadEpollFunc                                    *)

InEvent ==
  /\ pc["epoll"] = "idle"
  /\ edge
  /\ ~closed
  /\ edge' = FALSE
  /\ Goto("epoll", "room")
  /\ UNCHANGED <<ring, buf, reader, parser, events, owner, lockstep, sent, taken, closed>>

\* A local variable is reset when the code does not read it again.
NoRoom == [ptr |-> 0, len |-> 0]

\* GetBufPushPtrAndLen; without room the loop ends.
AskRoom ==
  /\ pc["epoll"] = "room"
  /\ LET goesOn == PushLen(ring) > 0 /\ ~closed
     IN  /\ room' = IF goesOn THEN [ptr |-> ring.end, len |-> PushLen(ring)] ELSE NoRoom
         /\ Goto("epoll", IF goesOn THEN "read" ELSE "idle")
  /\ UNCHANGED <<ring, buf, nRead, parser, events, owner, wire, closed>>

\* Mutant of Read: the length asked for is taken for the length read.
ReadFull ==
  /\ pc["epoll"] = "read"
  /\ taken < sent
  /\ nRead' = room.len
  /\ buf' = [k \in DOMAIN buf |->
               IF k - room.ptr \in 0 .. nRead' - 1 THEN taken + k - room.ptr ELSE buf[k]]
  /\ taken' = taken + nRead'
  /\ room' = NoRoom
  /\ Goto("epoll", "add")
  /\ UNCHANGED <<ring, parser, events, owner, lockstep, sent, edge, closed>>

\* read() takes what there is, as far as there is room for it.
Read ==
  /\ pc["epoll"] = "read"
  /\ taken < sent
  /\ nRead' = IF sent - taken < room.len THEN sent - taken ELSE room.len
  /\ buf' = [k \in DOMAIN buf |->
               IF k - room.ptr \in 0 .. nRead' - 1 THEN taken + k - room.ptr ELSE buf[k]]
  /\ taken' = taken + nRead'
  /\ room' = NoRoom
  /\ Goto("epoll", "add")
  /\ UNCHANGED <<ring, parser, events, owner, lockstep, sent, edge, closed>>

\* read() fails with EAGAIN.
NothingToRead ==
  /\ pc["epoll"] = "read"
  /\ taken = sent
  /\ room' = NoRoom
  /\ Goto("epoll", "idle")
  /\ UNCHANGED <<ring, buf, nRead, parser, events, owner, wire, closed>>

AddRead ==
  /\ pc["epoll"] = "add"
  /\ ring' = AddBufLen(ring, nRead)
  /\ nRead' = 0
  /\ Goto("epoll", "deal")
  /\ UNCHANGED <<buf, room, parser, events, owner, wire, closed>>

--------------------------------------------------------------------------------
(* CRingBuffer::DealBuffer2Packet, run by thread t                          *)

NoHeader == [i \in 0 .. HeaderLen - 1 |-> NoByte]

\* GetRealLen(true).  szPacket is not initialised: it may still hold the header that
\* the thread's last call left at the same place on its stack, or anything else.
MeasureReal(t) ==
  /\ pc[t] = "deal"
  /\ real' = [real EXCEPT ![t] = IF RealLen(ring.push, ring) >= HeaderLen
                                 THEN RealLen(ring.push, ring) ELSE 0]
  /\ \E h \in {header[t], NoHeader} : header' = [header EXCEPT ![t] = h]
  /\ Goto(t, IF real'[t] # 0 THEN "check" ELSE AfterDeal(t))
  /\ UNCHANGED <<ring, buf, reader, packetLen, events, owner, wire, closed>>

\* MemcpyBuf measures again; its failure is not noticed.
CheckHeader(t) ==
  /\ pc[t] = "check"
  /\ Goto(t, IF HeaderLen > RealLen(ring.push, ring) THEN "parse" ELSE "copy")
  /\ UNCHANGED <<ring, buf, reader, parser, events, owner, wire, closed>>

\* The bytes that MemcpyBuf leaves in dst; a byte behind the buffer is no byte of
\* the stream.
Memcpy(cursor, n, dst) ==
  LET from == CopiedFrom(cursor, ring, n)
  IN  [i \in 0 .. n - 1 |->
         IF from[i] = Untouched THEN (IF i \in DOMAIN dst THEN dst[i] ELSE NoByte)
         ELSE IF from[i] \in DOMAIN buf THEN buf[from[i]] ELSE NoByte]

CopyHeader(t) ==
  /\ pc[t] = "copy"
  /\ header' = [header EXCEPT ![t] = Memcpy(ring.push, HeaderLen, @)]
  /\ Goto(t, "parse")
  /\ UNCHANGED <<ring, buf, reader, real, packetLen, events, owner, wire, closed>>

\* FxPacketParser::ParsePacket of the header h: the packet whose header it is.
\* Other bytes fail the tests of mark and check sum.
HeaderOf(h) ==
  {k \in DOMAIN Lens \ BadPackets : \A i \in 0 .. HeaderLen - 1 : h[i] = Start[k] + i}

\* The whole packet is there: it will be announced.
ParsePacket(t) ==
  /\ pc[t] = "parse"
  /\ \E k \in HeaderOf(header[t]) :
       IF Lens[k] <= real[t]
       THEN packetLen' = [packetLen EXCEPT ![t] = Lens[k]] /\ Goto(t, "announce")
       ELSE UNCHANGED packetLen /\ Goto(t, AfterDeal(t))
  /\ real' = [real EXCEPT ![t] = 0]
  /\ UNCHANGED <<ring, buf, reader, header, events, owner, wire, closed>>

\* Mutant of ParseFails: the connection stays open.
ParseFailsOpen(t) ==
  /\ pc[t] = "parse"
  /\ HeaderOf(header[t]) = {}
  /\ ring' = DiscardLen(ring, HeaderLen)
  /\ events' = IF closed THEN events ELSE Append(events, 0)
  /\ real' = [real EXCEPT ![t] = 0]
  /\ Goto(t, AfterDeal(t))
  /\ UNCHANGED <<buf, reader, header, packetLen, owner, wire, closed>>

\* The parser returned -1: the header is discarded, ERROR is pushed, the connection
\* is closed.  (Nothing between the three concerns the buffer.)
ParseFails(t) ==
  /\ pc[t] = "parse"
  /\ HeaderOf(header[t]) = {}
  /\ ring' = DiscardLen(ring, HeaderLen)
  /\ events' = IF closed THEN events ELSE Append(events, 0)
  /\ closed' = TRUE
  /\ real' = [real EXCEPT ![t] = 0]
  /\ Goto(t, AfterDeal(t))
  /\ UNCHANGED <<buf, reader, header, packetLen, owner, wire>>

\* Mutant of Announce: the push cursor stays.
AnnounceOnly(t) ==
  /\ pc[t] = "announce"
  /\ Goto(t, "event")
  /\ UNCHANGED <<ring, buf, reader, parser, events, owner, wire, closed>>

\* DiscardMessPushLen
Announce(t) ==
  /\ pc[t] = "announce"
  /\ ring' = DiscardMessPushLen(ring, packetLen[t])
  /\ Goto(t, "event")
  /\ UNCHANGED <<buf, reader, parser, events, owner, wire, closed>>

\* PushEvent(NETEVT_RECV, nPacketLen), dropped when the connection is closed.
PushRecv(t) ==
  /\ pc[t] = "event"
  /\ events' = IF closed THEN events ELSE Append(events, packetLen[t])
  /\ packetLen' = [packetLen EXCEPT ![t] = 0]
  /\ Goto(t, AfterDeal(t))
  /\ UNCHANGED <<ring, buf, reader, real, header, owner, wire, closed>>

--------------------------------------------------------------------------------
(* The main thread: ProcEvent and _ProcRecv                                 *)

TakeRecv ==
  /\ pc["main"] = "idle"
  /\ events # <<>>
  /\ Head(events) > 0
  /\ recvLen' = Head(events)
  /\ events' = Tail(events)
  /\ Goto("main", "fetch")
  /\ UNCHANGED <<ring, buf, reader, parser, message, recvs, delivered, wire, closed>>

\* _ProcError: OnError.
TakeError ==
  /\ pc["main"] = "idle"
  /\ events # <<>>
  /\ Head(events) = 0
  /\ events' = Tail(events)
  /\ UNCHANGED <<pc, ring, buf, reader, parser, owner, wire, closed>>

\* The test of MemcpyBuf: are as many bytes there as were announced?
CheckPacket ==
  /\ pc["main"] = "fetch"
  /\ Goto("main", IF recvLen > RealLen(ring.begin, ring) THEN "drop" ELSE "message")
  /\ UNCHANGED <<ring, buf, reader, parser, events, owner, wire, closed>>

\* MemcpyBuf failed: what was announced is discarded.
DropPacket ==
  /\ pc["main"] = "drop"
  /\ ring' = DiscardLen(ring, recvLen)
  /\ recvLen' = 0
  /\ Goto("main", "idle")
  /\ UNCHANGED <<buf, reader, parser, events, message, recvs, delivered, wire, closed>>

\* The bytes of the stream in a message; the others are leftovers of memory.
StreamBytes(m) == {m[i] : i \in DOMAIN m} \ {NoByte}

\* Mutant of CopyPacket: copied from the push cursor.
CopyPushed ==
  /\ pc["main"] = "message"
  /\ message' = Memcpy(ring.push, recvLen, message)
  /\ recvs' = recvs + 1
  /\ delivered' = delivered \cup StreamBytes(message')
  /\ Goto("main", "recv")
  /\ UNCHANGED <<ring, buf, reader, parser, events, recvLen, wire, closed>>

\* The copy of MemcpyBuf into the message buffer, from where begin is by now, and
\* OnRecv.
CopyPacket ==
  /\ pc["main"] = "message"
  /\ message' = Memcpy(ring.begin, recvLen, message)
  /\ recvs' = recvs + 1
  /\ delivered' = delivered \cup StreamBytes(message')
  /\ Goto("main", "recv")
  /\ UNCHANGED <<ring, buf, reader, parser, events, recvLen, wire, closed>>

\* Mutants of DiscardPacket: the next packet is not looked for; only the payload is
\* discarded.
DiscardAndReturn ==
  /\ pc["main"] = "recv"
  /\ ring' = DiscardLen(ring, recvLen)
  /\ recvLen' = 0
  /\ Goto("main", "idle")
  /\ UNCHANGED <<buf, reader, parser, events, message, recvs, delivered, wire, closed>>
DiscardPayload ==
  /\ pc["main"] = "recv"
  /\ ring' = DiscardLen(ring, recvLen - HeaderLen)
  /\ recvLen' = 0
  /\ Goto("main", "deal")
  /\ UNCHANGED <<buf, reader, parser, events, message, recvs, delivered, wire, closed>>

\* DiscardLen after OnRecv.
DiscardPacket ==
  /\ pc["main"] = "recv"
  /\ ring' = DiscardLen(ring, recvLen)
  /\ recvLen' = 0
  /\ Goto("main", "deal")
  /\ UNCHANGED <<buf, reader, parser, events, message, recvs, delivered, wire, closed>>

\* Both threads find nothing to do.
Idle ==
  /\ AllHandled
  /\ closed \/ ~edge
  /\ UNCHANGED vars

--------------------------------------------------------------------------------

Init ==
  /\ pc = [t \in Threads |-> "idle"]
  /\ ring = EmptyRing
  /\ buf = [k \in 0 .. MaxMessageLen - 1 |-> NoByte]
  /\ room = NoRoom
  /\ nRead = 0
  /\ real = [t \in Threads |-> 0]
  /\ header = [t \in Threads |-> NoHeader]
  /\ packetLen = [t \in Threads |-> 0]
  /\ events = <<>>
  /\ recvLen = 0
  /\ message = [i \in 0 .. -1 |-> NoByte]
  /\ lockstep \in Pacings
  /\ sent = 0
  /\ taken = 0
  /\ edge = FALSE
  /\ closed = FALSE
  /\ recvs = 0
  /\ delivered = {}

Peer == \E n \in 1 .. StreamLen : PeerSends(n)

EpollThread == InEvent \/ AskRoom \/ Read \/ NothingToRead \/ AddRead

DealBuffer2Packet(t) ==
  \/ MeasureReal(t)
  \/ CheckHeader(t)
  \/ CopyHeader(t)
  \/ ParsePacket(t)
  \/ ParseFails(t)
  \/ Announce(t)
  \/ PushRecv(t)

Main == TakeRecv \/ TakeError \/ CheckPacket \/ DropPacket \/ CopyPacket \/ DiscardPacket

Next ==
  \/ Peer
  \/ EpollThread
  \/ Main
  \/ \E t \in Threads : DealBuffer2Packet(t)
  \/ Idle

Spec == Init /\ [][Next]_vars

FairSpec ==
  /\ Spec
  /\ WF_vars(EpollThread \/ DealBuffer2Packet("epoll"))
  /\ WF_vars(Main \/ DealBuffer2Packet("main"))

--------------------------------------------------------------------------------
(* Properties                                                               *)

TypeOK ==
  /\ pc["epoll"] \in {"idle", "room", "read", "add", "deal", "check", "copy", "parse",
                      "announce", "event"}
  /\ pc["main"] \in {"idle", "fetch", "drop", "message", "recv", "deal", "check", "copy",
                     "parse", "announce", "event"}
  /\ ring \in Rings
  /\ buf \in [0 .. MaxMessageLen - 1 -> -1 .. StreamLen - 1]
  /\ room.ptr \in Cursors /\ room.len \in Cursors
  /\ nRead \in Cursors
  /\ real \in [Threads -> Cursors]
  /\ packetLen \in [Threads -> Cursors]
  /\ events \in Seq(Nat)
  /\ taken \in 0 .. sent /\ sent \in 0 .. StreamLen
  /\ lockstep \in Pacings
  /\ edge \in BOOLEAN /\ closed \in BOOLEAN
  /\ \A i \in DOMAIN message : message[i] \in -1 .. StreamLen - 1
  /\ recvs \in Nat
  /\ delivered \subseteq 0 .. StreamLen - 1

\* testmain.cpp:30: what OnRecv is given is one packet, the header and then the
\* payload, and the calls get the packets in the order they were sent, if the
\* peer waits for each answer.
OnRecvGetsThePackets ==
  (lockstep /\ pc["main"] = "recv") =>
    /\ recvs \in DOMAIN Lens
    /\ message = [i \in 0 .. Lens[recvs] - 1 |-> Start[recvs] + i]

\* ringbuffer.h:32: the push cursor always lies between begin and end, here as long
\* as the connection is open (the error path moves begin and leaves push).
PushIsBetween ==
  ~closed => RealLen(ring.begin, ring) >= RealLen(ring.push, ring)

\* That is so while the threads take turns.
PushIsBetweenInTurns == lockstep => PushIsBetween

\* Both threads frame packets at once, may announce wrong lengths and move begin
\* under each other's copies; OnRecv may then be given leftovers of memory.  But the
\* bytes of the stream it is given always follow, in the stream, all those it was
\* given before: none is delivered twice or late.
NoByteTwice ==
  [][recvs' # recvs =>
       \A b \in delivered, c \in StreamBytes(message') : b < c]_vars

\* A packet the peer has sent completely reaches OnRecv, if the peer waits for
\* each answer and it and those before it are good.
EveryPacketIsReceived ==
  \A k \in DOMAIN Lens :
    (lockstep /\ sent >= Start[k + 1] /\ \A j \in 1 .. k : j \notin BadPackets) ~> recvs >= k

\* The header of a packet that does not parse, once it was sent, closes the
\* connection; OnRecvGetsThePackets says that nothing behind it is delivered.
BadHeaderCloses ==
  \A k \in BadPackets : (lockstep /\ sent >= Start[k] + HeaderLen) ~> closed

================================================================================
