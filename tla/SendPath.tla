-------------------------------- MODULE SendPath --------------------------------
(***************************************************************************)
(* Sending on one open connection: CLSocket::Send and SendEpollMess        *)
(* (lsocket.cpp, epolldisposer.cpp, epollthread.cpp) run by the thread     *)
(* that calls FxSession::Send, and the EPOLLOUT branch of ThreadEpollFunc  *)
(* (epollthread.cpp) run by the socket's epoll thread.  They share the     *)
(* send buffer: each call on it is under m_oBuffLock, but the bytes are    *)
(* copied in and written out between the calls, with the pointer and the   *)
(* length that the last call returned.                                     *)
(*                                                                         *)
(* The kernel is external: a socket is writable or not, and epoll reports  *)
(* EPOLLOUT once (EPOLLET) when the registration is modified or the socket *)
(* becomes writable while the registration asks for it.                    *)
(***************************************************************************)
EXTENDS RingBuffer, Sequences

CONSTANTS
  MessageLens,   \* the lengths of the messages Send is called with
  MaxSends,      \* bound: how often Send is called
  MaxTries       \* the 30 of CLSocket::Send

ASSUME SendAssumption ==
  /\ MessageLens \subseteq Nat \ {0}
  /\ MaxSends \in Nat
  /\ MaxTries \in Nat \ {0}

\* The i-th byte of the k-th message.
Bytes == {<<k, i>> : k \in 1 .. MaxSends, i \in 0 .. MaxMessageLen}
NoByte == <<0, 0>>

VARIABLES
  ring,       \* the cursors of m_oSendBuffer
  buf,        \* its bytes, m_szMessBuf
  sends,      \* the number of Send calls so far
  spc,        \* where the sender is in Send
  left,       \* uLen, what is still to be put in
  try,        \* n
  room,       \* pPush and wPushLen
  wpc,        \* where the epoll thread is in the EPOLLOUT branch
  ready,      \* pPop and wPopLen
  wrote,      \* nWriteRet
  interest,   \* the registration asks for EPOLLOUT
  pending,    \* epoll_wait will report EPOLLOUT
  writable    \* the kernel's buffer of the socket has room

sender == <<sends, spc, left, try, room>>
writer == <<wpc, ready, wrote>>
kernel == <<interest, pending, writable>>
vars == <<ring, buf, sender, writer, kernel>>

Region(ptr, len) == [ptr |-> ptr, len |-> len]

--------------------------------------------------------------------------------
(* CLSocket::Send                                                           *)

Send(len) ==
  /\ spc = "idle"
  /\ sends < MaxSends
  /\ sends' = sends + 1
  /\ left' = len
  /\ try' = 1
  /\ spc' = "ask"
  /\ UNCHANGED <<ring, buf, room, writer, kernel>>

\* Mutant of AskRoom: tried without end.
AskRoomForEver ==
  /\ spc = "ask"
  /\ room' = Region(ring.end, PushLen(ring))
  /\ IF room'.len > 0 THEN spc' = "copy" /\ UNCHANGED try
                      ELSE try' = try + 1 /\ UNCHANGED spc
  /\ UNCHANGED <<ring, buf, sends, left, writer, kernel>>

\* GetBufPushPtrAndLen; without room the next try follows at once.
AskRoom ==
  /\ spc = "ask"
  /\ try < MaxTries
  /\ room' = Region(ring.end, PushLen(ring))
  /\ IF room'.len > 0 THEN spc' = "copy" /\ UNCHANGED try
                      ELSE try' = try + 1 /\ UNCHANGED spc
  /\ UNCHANGED <<ring, buf, sends, left, writer, kernel>>

Copied == IF room.len >= left THEN left ELSE room.len

\* memcpy, always from the start of the message: pBuf is not advanced.
CopyMessage ==
  /\ spc = "copy"
  /\ buf' = [k \in DOMAIN buf |->
               IF k - room.ptr \in 0 .. Copied - 1 THEN <<sends, k - room.ptr>> ELSE buf[k]]
  /\ spc' = "add"
  /\ UNCHANGED <<ring, sends, left, try, room, writer, kernel>>

\* AddBufLen, and the next try when the message did not fit.
AddCopied ==
  /\ spc = "add"
  /\ ring' = AddBufLen(ring, Copied)
  /\ IF room.len >= left
     THEN spc' = "arm" /\ UNCHANGED <<left, try>>
     ELSE spc' = "ask" /\ left' = left - room.len /\ try' = try + 1
  /\ UNCHANGED <<buf, sends, room, writer, kernel>>

\* The tries are used up: the rest of the message is dropped.
GiveUp ==
  /\ spc = "ask"
  /\ try >= MaxTries
  /\ spc' = "arm"
  /\ UNCHANGED <<ring, buf, sends, left, try, room, writer, kernel>>

\* SendEpollMess: EPOLL_CTL_MOD with EPOLLIN | EPOLLOUT | EPOLLET.
SendEpollMess ==
  /\ spc = "arm"
  /\ interest' = TRUE
  /\ pending' = writable
  /\ spc' = "idle"
  /\ UNCHANGED <<ring, buf, sends, left, try, room, writer, writable>>

--------------------------------------------------------------------------------
(* The EPOLLOUT branch of ThreadEpollFunc                                   *)

\* epoll_wait reports EPOLLOUT alone; GetBufPopPtrAndLen.
OutEvent ==
  /\ wpc = "wait"
  /\ pending
  /\ pending' = FALSE
  /\ ready' = Region(ring.begin, PopLen(ring))
  /\ wpc' = IF ready'.len > 0 THEN "write" ELSE "wait"
  /\ UNCHANGED <<ring, buf, sender, wrote, interest, writable>>

\* epoll_wait reports EPOLLIN with it: only the EPOLLIN branch is taken.
InOutEvent ==
  /\ wpc = "wait"
  /\ pending
  /\ pending' = FALSE
  /\ UNCHANGED <<ring, buf, sender, writer, interest, writable>>

\* write() took n bytes.
Write(n) ==
  /\ wpc = "write"
  /\ writable
  /\ n \in 1 .. ready.len
  /\ wrote' = n
  /\ wpc' = "discard"
  /\ UNCHANGED <<ring, buf, sender, ready, kernel>>

\* write() failed: with EAGAIN, or with an error that is pushed as NETEVT_ERROR.
WriteFails ==
  /\ wpc = "write"
  /\ writable' = FALSE
  /\ wpc' = "disarm"
  /\ UNCHANGED <<ring, buf, sender, ready, wrote, interest, pending>>

DiscardWritten ==
  /\ wpc = "discard"
  /\ ring' = DiscardLen(ring, wrote)
  /\ wpc' = "again"
  /\ UNCHANGED <<buf, sender, ready, wrote, kernel>>

\* GetBufPopPtrAndLen for the next turn of the write loop.
WriteAgain ==
  /\ wpc = "again"
  /\ ready' = Region(ring.begin, PopLen(ring))
  /\ wpc' = IF ready'.len > 0 THEN "write" ELSE "disarm"
  /\ UNCHANGED <<ring, buf, sender, wrote, kernel>>

\* EPOLL_CTL_MOD with EPOLLIN | EPOLLET.
Disarm ==
  /\ wpc = "disarm"
  /\ interest' = FALSE
  /\ pending' = FALSE
  /\ wpc' = "wait"
  /\ UNCHANGED <<ring, buf, sender, ready, wrote, writable>>

\* epoll_wait reports nothing.
WaitOn ==
  /\ wpc = "wait"
  /\ ~pending
  /\ UNCHANGED vars

--------------------------------------------------------------------------------
(* The kernel                                                               *)

\* The peer read: the socket is writable again.
PeerReads ==
  /\ ~writable
  /\ writable' = TRUE
  /\ pending' = interest
  /\ UNCHANGED <<ring, buf, sender, writer, interest>>

--------------------------------------------------------------------------------

Init ==
  /\ ring = EmptyRing
  /\ buf = [k \in 0 .. MaxMessageLen - 1 |-> NoByte]
  /\ sends = 0
  /\ spc = "idle"
  /\ left = 0
  /\ try = 1
  /\ room = Region(0, 0)
  /\ wpc = "wait"
  /\ ready = Region(0, 0)
  /\ wrote = 0
  /\ interest = FALSE
  /\ pending = FALSE
  /\ writable = TRUE

Sender ==
  \/ \E len \in MessageLens : Send(len)
  \/ AskRoom
  \/ CopyMessage
  \/ AddCopied
  \/ GiveUp
  \/ SendEpollMess

Writer ==
  \/ OutEvent
  \/ InOutEvent
  \/ \E n \in 1 .. MaxMessageLen : Write(n)
  \/ WriteFails
  \/ DiscardWritten
  \/ WriteAgain
  \/ Disarm
  \/ WaitOn

Next == Sender \/ Writer \/ PeerReads

Spec == Init /\ [][Next]_vars

--------------------------------------------------------------------------------
(* Properties                                                               *)

TypeOK ==
  /\ ring \in Rings
  /\ buf \in [0 .. MaxMessageLen - 1 -> Bytes \cup {NoByte}]
  /\ sends \in 0 .. MaxSends
  /\ spc \in {"idle", "ask", "copy", "add", "arm"}
  /\ left \in Nat
  /\ try \in 1 .. MaxTries
  /\ room \in [ptr : Cursors, len : Cursors]
  /\ wpc \in {"wait", "write", "discard", "again", "disarm"}
  /\ ready \in [ptr : Cursors, len : Cursors]
  /\ wrote \in Cursors
  /\ interest \in BOOLEAN /\ pending \in BOOLEAN /\ writable \in BOOLEAN

\* The slot after n bytes from begin; a begin of MaxMessageLen stands for 0.
Slot(n) == (ring.begin + n) % MaxMessageLen
Live == {Slot(n) : n \in 0 .. RealLen(ring.begin, ring) - 1}

Slots(region, len) == region.ptr .. region.ptr + len - 1

\* Bytes are copied into slots of the buffer that hold no byte still to be
\* written, although the writer may have moved begin since Send asked.
RoomIsFree ==
  spc \in {"copy", "add"} =>
    /\ Slots(room, Copied) \subseteq 0 .. MaxMessageLen - 1
    /\ Slots(room, Copied) \cap Live = {}

\* write() is given the oldest bytes and nothing behind them, although the sender
\* may have moved end since the writer asked.
WriteIsLive ==
  wpc = "write" =>
    /\ ready.len <= RealLen(ring.begin, ring)
    /\ \A n \in 0 .. ready.len - 1 : Slot(n) = ready.ptr + n

\* The send buffer is a queue of bytes: no byte that was added is lost, repeated or
\* overtaken until it was written, and adding never makes it look empty (the
\* comment in GetBufPushPtrAndLen: begin and end must not meet).
Stream ==
  INSTANCE ByteStream WITH
    Capacity <- MaxMessageLen - 1,
    stream   <- [n \in 1 .. RealLen(ring.begin, ring) |-> buf[Slot(n - 1)]]

StreamSpec == Stream!Spec

\* The comment at epollthread.cpp:90 says that the registration made after writing
\* is for writing: bytes that remain are still waited for.
RemainingBytesAreWatched ==
  (spc = "idle" /\ wpc = "wait" /\ PopLen(ring) > 0) => interest

================================================================================
