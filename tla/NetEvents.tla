------------------------------- MODULE NetEvents -------------------------------
(***************************************************************************)
(* The life of a connection: the accept loop (epolldisposer.cpp) takes a   *)
(* CLSocket and a CConnection from their pools, ties them to a descriptor  *)
(* and a session, announces the connection and registers it with an epoll  *)
(* thread (epollthread.cpp); events travel from the thread that meets them *)
(* to the session's callback in the main thread (connection.cpp, net.cpp); *)
(* and CLSocket::Close and _ProcClose, in whatever threads they run, take  *)
(* all of it apart again (lsocket.cpp).                                    *)
(*                                                                         *)
(* An event is stored twice: as an SNetEvent in the m_eventNet of its      *)
(* connection, and as a pointer to the connection, its token here, in the  *)
(* m_eventQueue of the module.  The main thread takes a token and then the *)
(* oldest event of that connection.  The two queues are TEventQueues, used *)
(* here as the FIFOs that EventQueue refines in builds that store a cursor *)
(* once.  CConnection::Init sets the cursors of m_eventNet while others    *)
(* may be at it, which EventQueue does not cover: then the queue is torn.  *)
(*                                                                         *)
(* The k-th client that connects gets an FxSession of its own, called k.   *)
(* Descriptors, CLSockets and CConnections are used again.  Each step is   *)
(* one access to what threads share, in the order of the code; what is     *)
(* tested and then used is read twice, as a build may do.  Bytes are left  *)
(* out: whether a read completes a packet, breaks one or fails is a        *)
(* choice, and Traffic bounds how often one is made.                       *)
(***************************************************************************)
EXTENDS Integers, Sequences, FiniteSets, SequencesExt

CONSTANTS
  Conns,            \* the objects of CConnectionMgr's pool
  Socks,            \* the objects of CLSocketMgr's pool
  EpollThreads,     \* the threads of m_vecEpollThread
  NetEventPerSock,  \* MAX_NETEVENT_PERSOCK, the size of every m_eventNet
  TotalEventCount,  \* m_nTotalEventCount, the size of m_eventQueue
  MaxAccepts,       \* bound: how many clients connect
  Traffic,          \* bound: packets and errors per client
  Batched,          \* one read may bring more than one packet
  Malformed,        \* clients may send a header that does not parse
  AppCloses,        \* the callbacks of the session may call FxSession::Close
  AppSends          \* and FxSession::Send

NULL     == 0
NoThread == -1    \* in the place of an epoll thread that could not be made

\* The objects of the pools are allocated, and the threads are in a vector.
ASSUME NetAssumption ==
  /\ IsFiniteSet(Conns) /\ IsFiniteSet(Socks) /\ IsFiniteSet(EpollThreads)
  /\ {NULL, NoThread} \cap (Conns \cup Socks) = {}
  /\ NetEventPerSock \in Nat \ {0}
  /\ TotalEventCount \in Nat \ {0}
  /\ MaxAccepts \in Nat
  /\ Traffic \in Nat
  /\ Batched \in BOOLEAN
  /\ Malformed \in BOOLEAN
  /\ AppCloses \in BOOLEAN
  /\ AppSends \in BOOLEAN
  /\ {"acceptor", "main", "none"} \cap EpollThreads = {}

Threads == {"acceptor", "main"} \cup EpollThreads
Clients == 1 .. MaxAccepts
Stdin   == -1
Fds     == 0 .. MaxAccepts        \* the descriptors a client can get

ENetEvtType == {"INVALID", "CONNECTED", "ERROR", "RECV", "CLOSE"}

VARIABLES
  todo,         \* what each thread has still to do of the call it is in
  conn,         \* m_bClose, m_eventNet, m_poSocket and m_pFxSession of each connection,
                \* and whether m_eventNet is torn
  eventQueue,   \* m_eventQueue of the module
  sock,         \* m_nSocket, m_pConnection and m_uMark (the thread it chooses) of each socket
  epEvent,      \* m_epEvent.data.ptr of each epoll thread that m_vecEpollThread holds
  sessConn,     \* m_pConnection of each session
  connPool,     \* m_ListFree and every m_byRef of the connections' pool
  sockPool,     \* and of the sockets' pool
  peer,         \* the kernel: what each descriptor is open on, or NULL
  watched,      \* the kernel: the registrations in the epoll sets
  backlog,      \* the kernel: clients to be accepted, whether epoll will say so, and
                \* whether accept() failed although they wait
  accepted,     \* how many clients have been accepted
  traffic,      \* how much traffic each client had
  heard         \* the callbacks each session got (history)

pools  == <<connPool, sockPool>>
kernel == <<peer, watched, backlog, accepted, traffic>>
vars   == <<todo, conn, eventQueue, sock, epEvent, sessConn, pools, kernel, heard>>

--------------------------------------------------------------------------------
(* The steps of a call.  todo[t] is a sequence of them, run one at a time.  *)

Ops == {"check", "net", "module", "close", "deref", "uninit", "closefd", "clearfd", "detach",
        "releaseconn", "releasesock", "begin", "deaf", "accept", "fetch", "pointers",
        "events", "bclose", "session", "setconn", "setsock", "setsocket", "register",
        "send", "sendto", "connected", "aim", "modify", "event", "read", "rearm", "proc", "unlink", "release", "crash"}

\* A step on x: a connection, a socket, or what the accept loop holds.
Step(op, x) == [op |-> op, of |-> x]

\* The step op of PushEvent(e) on connection c.
EventStep(op, c, e) == Step(op, [conn |-> c, event |-> e])

PushEvent(c, e) == <<EventStep("check", c, e)>>
ConnClose(c)    == <<Step("close", c)>>
ConnSend(c)     == <<Step("send", c)>>
SocketClose(s)  == PushEvent(sock[s].conn, "CLOSE") \o <<Step("uninit", s)>>

At(t, op) == todo[t] # <<>> /\ Head(todo[t]).op = op
Of(t)     == Head(todo[t]).of

\* Thread t replaces its current step by the steps s.
Continue(t, s) == todo' = [todo EXCEPT ![t] = s \o Tail(@)]

\* Thread t follows a pointer that is NULL: the program is gone.
Crash(t) == Continue(t, <<Step("crash", t)>>)
Crashed  == \E t \in Threads : At(t, "crash")

--------------------------------------------------------------------------------
(* The pools: TDynamicPoolEx, whose critical sections DynamicPool models    *)

Fetched(pool) ==
  [free |-> Tail(pool.free), ref |-> [pool.ref EXCEPT ![Head(pool.free)] = 1]]

\* Mutant of Released: the reference count, a UINT8, is not tested.
ReleasedBlindly(pool, x) ==
  [free |-> Append(pool.free, x), ref |-> [pool.ref EXCEPT ![x] = (@ + 255) % 256]]

\* ReleaseObj: ignored unless the reference count is 1.
Released(pool, x) ==
  IF pool.ref[x] = 1
  THEN [free |-> Append(pool.free, x), ref |-> [pool.ref EXCEPT ![x] = 0]]
  ELSE pool

--------------------------------------------------------------------------------
(* CConnection::PushEvent                                                   *)

\* Mutant of Closes: CLOSE does not set m_bClose.
ClosesNever(e) == FALSE
Closes(e)      == e = "CLOSE"

\* The part under m_oCloseLock: events of a closed connection are dropped, and
\* the first CLOSE closes it.
CheckClose(t) ==
  /\ At(t, "check")
  /\ LET c == Of(t).conn
         e == Of(t).event
         dropped == conn[c].bClose /\ e # "CONNECTED"
     IN  /\ conn' = [conn EXCEPT ![c].bClose = dropped \/ Closes(e)]
         /\ Continue(t, IF dropped THEN <<>> ELSE <<EventStep("net", c, e)>>)
  /\ UNCHANGED <<eventQueue, sock, epEvent, sessConn, pools, kernel, heard>>

\* The queue after an access of another thread than Init's that should leave q: if the
\* cursors are torn, what is between them is any slots, with events of any time.
Stored(c, q) ==
  IF conn[c].torn THEN SeqOf(ENetEvtType, NetEventPerSock - 1) ELSE {q}

\* Mutant of Token: a token only when the connection had no event.
TokenOfTheFirst(c, e) ==
  IF conn[c].eventNet = <<>> THEN <<EventStep("module", c, e)>> ELSE <<>>
Token(c, e) == <<EventStep("module", c, e)>>

\* m_eventNet.PushBack, retried until there is room (bWaitFor is never false).
PushNet(t) ==
  /\ At(t, "net")
  /\ LET c == Of(t).conn
         e == Of(t).event
     IN  /\ Len(conn[c].eventNet) < NetEventPerSock - 1
         /\ \E q \in Stored(c, Append(conn[c].eventNet, e)) :
              conn' = [conn EXCEPT ![c].eventNet = q]
         /\ Continue(t, Token(c, e))
  /\ UNCHANGED <<eventQueue, sock, epEvent, sessConn, pools, kernel, heard>>

\* Mutant of PushEventQueue: not retried.
PushEventQueueOnce(t) ==
  /\ At(t, "module")
  /\ eventQueue' = IF Len(eventQueue) < TotalEventCount - 1
                   THEN Append(eventQueue, Of(t).conn) ELSE eventQueue
  /\ Continue(t, <<>>)
  /\ UNCHANGED <<conn, sock, epEvent, sessConn, pools, kernel, heard>>

\* FxNetModule::PushEventQueue, retried until there is room.
PushEventQueue(t) ==
  /\ At(t, "module")
  /\ Len(eventQueue) < TotalEventCount - 1
  /\ eventQueue' = Append(eventQueue, Of(t).conn)
  /\ Continue(t, <<>>)
  /\ UNCHANGED <<conn, sock, epEvent, sessConn, pools, kernel, heard>>

--------------------------------------------------------------------------------
(* Closing a connection: CConnection::Close, CLSocket::Close and Uninit      *)

\* m_poSocket is tested ...
CloseConnection(t) ==
  /\ At(t, "close")
  /\ Continue(t, IF conn[Of(t)].poSocket = NULL THEN <<>> ELSE <<Step("deref", Of(t))>>)
  /\ UNCHANGED <<conn, eventQueue, sock, epEvent, sessConn, pools, kernel, heard>>

\* ... and read again, when another thread may have cleared it.
CloseSocket(t) ==
  /\ At(t, "deref")
  /\ LET s == conn[Of(t)].poSocket
     IN  IF s = NULL THEN Crash(t) ELSE Continue(t, SocketClose(s))
  /\ UNCHANGED <<conn, eventQueue, sock, epEvent, sessConn, pools, kernel, heard>>

\* Mutant of UninitSteps: the socket does not go back to its pool.
UninitNoRelease(s) == <<Step("detach", s), Step("releaseconn", s)>>
UninitSteps(s) == <<Step("detach", s), Step("releaseconn", s), Step("releasesock", s)>>

\* m_nSocket is tested, and read again for close().
Uninit(t) ==
  /\ At(t, "uninit")
  /\ LET s == Of(t)
     IN  Continue(t, (IF sock[s].nSocket = 0 THEN <<>>
                      ELSE <<Step("closefd", s), Step("clearfd", s)>>) \o UninitSteps(s))
  /\ UNCHANGED <<conn, eventQueue, sock, epEvent, sessConn, pools, kernel, heard>>

NoWatch == [thread |-> "none", sock |-> NULL]

\* close(m_nSocket), which also takes it out of its epoll set.
CloseFd(t) ==
  /\ At(t, "closefd")
  /\ LET f == sock[Of(t)].nSocket
     IN  /\ peer' = [peer EXCEPT ![f] = NULL]
         /\ watched' = [watched EXCEPT ![f] = NoWatch]
  /\ Continue(t, <<>>)
  /\ UNCHANGED <<conn, eventQueue, sock, epEvent, sessConn, pools, backlog, accepted, traffic,
                 heard>>

\* m_nSocket = 0, after the kernel may have given the number to another client.
ClearFd(t) ==
  /\ At(t, "clearfd")
  /\ sock' = [sock EXCEPT ![Of(t)].nSocket = 0]
  /\ Continue(t, <<>>)
  /\ UNCHANGED <<conn, eventQueue, epEvent, sessConn, pools, kernel, heard>>

\* m_pConnection->SetSocket(NULL)
Detach(t) ==
  /\ At(t, "detach")
  /\ conn' = [conn EXCEPT ![sock[Of(t)].conn].poSocket = NULL]
  /\ Continue(t, <<>>)
  /\ UNCHANGED <<eventQueue, sock, epEvent, sessConn, pools, kernel, heard>>

\* m_pConnection->Uninit(): the connection's pool gets it back.
ReleaseConnection(t) ==
  /\ At(t, "releaseconn")
  /\ connPool' = Released(connPool, sock[Of(t)].conn)
  /\ Continue(t, <<>>)
  /\ UNCHANGED <<conn, eventQueue, sock, epEvent, sessConn, sockPool, kernel, heard>>

ReleaseSocket(t) ==
  /\ At(t, "releasesock")
  /\ sockPool' = Released(sockPool, Of(t))
  /\ Continue(t, <<>>)
  /\ UNCHANGED <<conn, eventQueue, sock, epEvent, sessConn, connPool, kernel, heard>>

--------------------------------------------------------------------------------
(* CConnection::Send and CLSocket::Send, whose buffer SendPath models        *)

\* m_poSocket is tested ...
Send(t) ==
  /\ At(t, "send")
  /\ Continue(t, IF conn[Of(t)].poSocket = NULL THEN <<>> ELSE <<Step("sendto", Of(t))>>)
  /\ UNCHANGED <<conn, eventQueue, sock, epEvent, sessConn, pools, kernel, heard>>

\* ... and read again.
SendTo(t) ==
  /\ At(t, "sendto")
  /\ LET s == conn[Of(t)].poSocket
     IN  IF s = NULL THEN Crash(t) ELSE Continue(t, <<Step("connected", s)>>)
  /\ UNCHANGED <<conn, eventQueue, sock, epEvent, sessConn, pools, kernel, heard>>

\* Only a connected socket copies the message and asks for EPOLLOUT.
IsConnected(t) ==
  /\ At(t, "connected")
  /\ LET s == Of(t)
     IN  Continue(t, IF conn[sock[s].conn].bClose THEN <<>>
                     ELSE <<Step("aim", s), Step("modify", s)>>)
  /\ UNCHANGED <<conn, eventQueue, sock, epEvent, sessConn, pools, kernel, heard>>

\* m_epEvent.data.ptr = poSocket, for a sender and for the accept loop alike.  The mark
\* is taken modulo the number of threads, which is 0 if none could be made.
Aim(t) ==
  /\ At(t, "aim")
  /\ IF epEvent[sock[Of(t)].mark] = NoThread
     THEN Crash(t) /\ UNCHANGED epEvent
     ELSE epEvent' = [epEvent EXCEPT ![sock[Of(t)].mark] = Of(t)] /\ Continue(t, <<>>)
  /\ UNCHANGED <<conn, eventQueue, sock, sessConn, pools, kernel, heard>>

\* EPOLL_CTL_MOD with what m_epEvent holds by now; it fails on a descriptor that the
\* thread does not watch.
SendEpollMess(t) ==
  /\ At(t, "modify")
  /\ LET s == sock[Of(t)]
     IN  watched' = IF watched[s.nSocket].thread = s.mark
                    THEN [watched EXCEPT ![s.nSocket].sock = epEvent[s.mark]]
                    ELSE watched
  /\ Continue(t, <<>>)
  /\ UNCHANGED <<conn, eventQueue, sock, epEvent, sessConn, pools, peer, backlog,
                 accepted, traffic, heard>>

--------------------------------------------------------------------------------
(* The accept loop: CWorkThread::Listen, DisposerBegin and DisposerWork     *)

\* A client connects.  The listening socket is edge triggered: epoll reports it
\* once after clients have come, however many they are.
ClientConnects ==
  /\ ~At("acceptor", "begin")
  /\ accepted + backlog.clients < MaxAccepts
  /\ backlog' = [clients |-> backlog.clients + 1, edge |-> TRUE, refused |-> FALSE]
  /\ UNCHANGED <<todo, conn, eventQueue, sock, epEvent, sessConn, pools, peer, watched,
                 accepted, traffic, heard>>

\* DisposerBegin makes the sockets and then the threads, and stops where that fails.
\* Listen ignores its result: without the sockets DisposerWork waits for ever, else it
\* goes on with the threads that were made.
DisposerBegin ==
  /\ At("acceptor", "begin")
  /\ \/ Continue("acceptor", <<Step("deaf", "acceptor")>>) /\ UNCHANGED epEvent
     \/ \E made \in SUBSET EpollThreads :
          /\ epEvent' = [t \in EpollThreads |-> IF t \in made THEN NULL ELSE NoThread]
          /\ Continue("acceptor", <<>>)
  /\ UNCHANGED <<conn, eventQueue, sock, sessConn, pools, kernel, heard>>

\* epoll_wait reports the listening socket.
EpollWait ==
  /\ todo["acceptor"] = <<>>
  /\ backlog.edge
  /\ backlog' = [backlog EXCEPT !.edge = FALSE, !.refused = FALSE]
  /\ todo' = [todo EXCEPT !["acceptor"] = <<Step("accept", NULL)>>]
  /\ UNCHANGED <<conn, eventQueue, sock, epEvent, sessConn, pools, peer, watched, accepted,
                 traffic, heard>>

\* Mutant of AfterAccept: one client is accepted for each report.
AcceptOne == <<>>
AfterAccept == <<Step("accept", NULL)>>

LowestFd == CHOOSE f \in Fds : peer[f] = NULL /\ \A g \in 0 .. f - 1 : peer[g] # NULL

\* accept() fails and the loop ends: nobody waits, the clients stay in the backlog
\* (EMFILE), or one of them is gone (ECONNABORTED).
AcceptFails ==
  /\ At("acceptor", "accept")
  /\ \E gone \in {0, 1} :
       /\ gone <= backlog.clients
       /\ backlog' = [backlog EXCEPT !.clients = @ - gone, !.refused = gone < backlog.clients]
       /\ accepted' = accepted + gone
  /\ Continue("acceptor", <<>>)
  /\ UNCHANGED <<conn, eventQueue, sock, epEvent, sessConn, pools, peer, watched, traffic, heard>>

\* The epoll threads a socket's mark can choose: those that were made, if any was.
MarksOf(s) ==
  LET made == {t \in EpollThreads : epEvent[t] # NoThread}
  IN  IF made = {} THEN {sock[s].mark} ELSE made

\* accept() takes the lowest free descriptor; 0 ends the loop like a failure.  Setting
\* up the descriptor may fail: it is closed and the client lost.  Else FetchSocket
\* takes a socket, whose mark will choose a thread.  (Bound: the pools do not grow
\* here, the loop waits instead.)
Accept ==
  /\ At("acceptor", "accept")
  /\ backlog.clients > 0
  /\ sockPool.free # <<>>
  /\ LET k == accepted + 1
         s == Head(sockPool.free)
     IN  /\ backlog' = [backlog EXCEPT !.clients = @ - 1,
                                       !.refused = LowestFd = 0 /\ backlog.clients > 1]
         /\ accepted' = k
         /\ \/ /\ LowestFd # 0
               /\ Continue("acceptor", AfterAccept)
               /\ UNCHANGED <<sock, sockPool, peer>>
            \/ /\ peer' = [peer EXCEPT ![LowestFd] = k]
               /\ IF LowestFd = 0
                  THEN Continue("acceptor", <<>>) /\ UNCHANGED <<sock, sockPool>>
                  ELSE /\ sockPool' = Fetched(sockPool)
                       /\ \E t \in MarksOf(s) : sock' = [sock EXCEPT ![s].mark = t]
                       /\ Continue("acceptor",
                            <<Step("fetch", [client |-> k, fd |-> LowestFd, sock |-> s])>>
                            \o AfterAccept)
  /\ UNCHANGED <<conn, eventQueue, epEvent, sessConn, connPool, watched, traffic, heard>>

\* Mutant of AcceptSteps: the socket is watched before the connection is announced.
WatchFirst(a) ==
  <<Step("pointers", a), Step("events", a), Step("bclose", a), Step("session", a),
    Step("setconn", a), Step("setsock", a), Step("setsocket", a), Step("aim", a.sock), Step("register", a.sock)>>
  \o PushEvent(a.conn, "CONNECTED")


\* CConnection::Init, the session, and the rest of the loop's body, in their order.
AcceptSteps(a) ==
  <<Step("pointers", a), Step("events", a), Step("bclose", a), Step("session", a),
    Step("setconn", a), Step("setsock", a), Step("setsocket", a)>>
  \o PushEvent(a.conn, "CONNECTED") \o <<Step("aim", a.sock), Step("register", a.sock)>>

\* CreateConnection fetches a connection.
FetchConnection ==
  /\ At("acceptor", "fetch")
  /\ connPool.free # <<>>
  /\ connPool' = Fetched(connPool)
  /\ LET a == Of("acceptor")
     IN  Continue("acceptor",
           AcceptSteps([client |-> a.client, fd |-> a.fd, sock |-> a.sock,
                        conn |-> Head(connPool.free)]))
  /\ UNCHANGED <<conn, eventQueue, sock, epEvent, sessConn, sockPool, kernel, heard>>

\* A step that assigns members of the connection or the socket.
Assign(op, connNext, sockNext) ==
  /\ At("acceptor", op)
  /\ conn' = connNext
  /\ sock' = sockNext
  /\ Continue("acceptor", <<>>)
  /\ UNCHANGED <<eventQueue, epEvent, pools, kernel, heard>>

\* What the accept loop holds.
Held == Of("acceptor")

\* CConnection::Init; the buffers keep what they held.
InitPointers ==
  /\ Assign("pointers", [conn EXCEPT ![Held.conn].poSocket = NULL,
                                     ![Held.conn].session = NULL], sock)
  /\ UNCHANGED sessConn

\* Another thread is inside PushBack or PopFront of the connection's m_eventNet.
Busy(c) ==
  \/ At("main", "proc") /\ Of("main") = c
  \/ \E t \in Threads \ {"acceptor"} : At(t, "net") /\ Of(t).conn = c

\* Init stores the two cursors of m_eventNet without the lock.  If one of the stores
\* comes between two accesses of another thread, the cursors are torn from then on.
InitEvents ==
  /\ At("acceptor", "events")
  /\ \E torn \in {FALSE, Busy(Held.conn)} :
       \E q \in IF torn THEN SeqOf(ENetEvtType, NetEventPerSock - 1) ELSE {<<>>} :
         Assign("events", [conn EXCEPT ![Held.conn].eventNet = q, ![Held.conn].torn = torn], sock)
  /\ UNCHANGED sessConn
InitClose == Assign("bclose", [conn EXCEPT ![Held.conn].bClose = TRUE], sock)
               /\ UNCHANGED sessConn

\* The factory makes a session ...
SetSession ==
  /\ Assign("session", [conn EXCEPT ![Held.conn].session = Held.client], sock)
  /\ sessConn' = [sessConn EXCEPT ![Held.client] = Held.conn]

\* ... or none, and the connection, the descriptor and the socket are given back.
NoSession ==
  /\ At("acceptor", "session")
  /\ LET a == Of("acceptor")
     IN  /\ connPool' = Released(connPool, a.conn)
         /\ peer' = [peer EXCEPT ![a.fd] = NULL]
         /\ sockPool' = Released(sockPool, a.sock)
  /\ todo' = [todo EXCEPT !["acceptor"] = AfterAccept]
  /\ UNCHANGED <<conn, eventQueue, sock, epEvent, sessConn, watched, backlog, accepted, traffic, heard>>

SetConnection == Assign("setconn", conn, [sock EXCEPT ![Held.sock].conn = Held.conn])
                   /\ UNCHANGED sessConn
SetSock == Assign("setsock", conn, [sock EXCEPT ![Held.sock].nSocket = Held.fd])
             /\ UNCHANGED sessConn
SetSocket == Assign("setsocket", [conn EXCEPT ![Held.conn].poSocket = Held.sock], sock)
               /\ UNCHANGED sessConn

\* AllocateEpollThread: m_epEvent is the thread's, not the caller's; what it holds by
\* now is registered.  epoll_ctl fails on a descriptor that is closed meanwhile, and on
\* the standard input.
Register ==
  /\ At("acceptor", "register")
  /\ LET s == sock[Of("acceptor")]
     IN  watched' = IF peer[s.nSocket] \in Clients
                    THEN [watched EXCEPT ![s.nSocket] =
                            [thread |-> s.mark, sock |-> epEvent[s.mark]]]
                    ELSE watched
  /\ Continue("acceptor", <<>>)
  /\ UNCHANGED <<conn, eventQueue, sock, epEvent, sessConn, pools, peer, backlog, accepted,
                 traffic, heard>>

--------------------------------------------------------------------------------
(* An epoll thread: ThreadEpollFunc                                         *)

\* epoll_wait reports a socket the thread watches.  (It reports several at once;
\* one that is handled after another is one that is reported and left for a while.)
Report(t) ==
  /\ todo[t] = <<>>
  /\ \E f \in Fds : /\ watched[f].thread = t
                    /\ todo' = [todo EXCEPT ![t] = <<Step("event", watched[f].sock)>>]
  /\ UNCHANGED <<conn, eventQueue, sock, epEvent, sessConn, pools, kernel, heard>>

\* int fd = poSocket->GetSock(), which the loop goes on with.
GetSock(t) ==
  /\ At(t, "event")
  /\ Continue(t, <<Step("read", [sock |-> Of(t), fd |-> sock[Of(t)].nSocket])>>)
  /\ UNCHANGED <<conn, eventQueue, sock, epEvent, sessConn, pools, kernel, heard>>

\* One turn of the read loop, or the write loop, after which come steps.
Turn(t, steps) ==
  /\ At(t, "read")
  /\ Continue(t, steps)
  /\ UNCHANGED <<conn, eventQueue, sock, epEvent, sessConn, pools, peer, watched, backlog,
                 accepted, heard>>

Reading(t) == sock[Of(t).sock].conn

Arrives(k) ==
  /\ k \in Clients
  /\ traffic[k] < Traffic
  /\ traffic' = [traffic EXCEPT ![k] = @ + 1]

\* read() brought the end of a packet; the loop goes on.
ReadPacket(t) ==
  /\ At(t, "read")
  /\ Arrives(peer[Of(t).fd])
  /\ Turn(t, PushEvent(Reading(t), "RECV") \o <<Head(todo[t])>>)

\* What DealBuffer2Packet does about a header that does not parse.
PacketError(c) == PushEvent(c, "ERROR") \o ConnClose(c)

\* read() brought such a header; the loop goes on with the closed socket.
ReadBadPacket(t) ==
  /\ At(t, "read")
  /\ Malformed
  /\ Arrives(peer[Of(t).fd])
  /\ Turn(t, PacketError(Reading(t)) \o <<Head(todo[t])>>)

\* read() or write() may fail; on a descriptor that was closed it always does.
Fails(t) ==
  /\ At(t, "read")
  /\ IF peer[Of(t).fd] = NULL THEN UNCHANGED traffic ELSE Arrives(peer[Of(t).fd])

\* The error is reported and the socket stays open.
SocketError(t) == Fails(t) /\ Turn(t, PushEvent(Reading(t), "ERROR"))

\* The report is of EPOLLOUT, which only a sender asks for: after the write loop,
\* whether or not it failed, the registration is changed back.
WriteLoop(t) ==
  /\ AppSends
  /\ \/ Turn(t, <<Step("rearm", Of(t))>>) /\ UNCHANGED traffic
     \/ Fails(t) /\ Turn(t, PushEvent(Reading(t), "ERROR") \o <<Step("rearm", Of(t))>>)

\* EPOLL_CTL_MOD of the descriptor the event began with.
Rearm(t) ==
  /\ At(t, "rearm")
  /\ watched' = IF watched[Of(t).fd].thread = t
                THEN [watched EXCEPT ![Of(t).fd].sock = Of(t).sock] ELSE watched
  /\ Continue(t, <<>>)
  /\ UNCHANGED <<conn, eventQueue, sock, epEvent, sessConn, pools, peer, backlog,
                 accepted, traffic, heard>>

\* read() returned 0, as it does on the standard input (/dev/null): CLSocket::Close.
PeerCloses(t) ==
  /\ At(t, "read")
  /\ peer[Of(t).fd] # NULL
  /\ Turn(t, SocketClose(Of(t).sock))
  /\ UNCHANGED traffic

\* There is nothing to read, or no room for it.
ReadNothing(t) == Turn(t, <<>>) /\ UNCHANGED traffic

--------------------------------------------------------------------------------
(* The main thread: FxNetModule::Run and CConnection::ProcEvent             *)

\* Run takes a token.
PopToken ==
  /\ todo["main"] = <<>>
  /\ eventQueue # <<>>
  /\ todo' = [todo EXCEPT !["main"] = <<Step("proc", Head(eventQueue))>>]
  /\ eventQueue' = Tail(eventQueue)
  /\ UNCHANGED <<conn, sock, epEvent, sessConn, pools, kernel, heard>>

\* Run finds no token and returns.
PollNothing ==
  /\ todo["main"] = <<>>
  /\ eventQueue = <<>>
  /\ UNCHANGED vars

\* ProcEvent finds no event for the token.
ProcNothing ==
  /\ At("main", "proc")
  /\ conn[Of("main")].eventNet = <<>>
  /\ Continue("main", <<>>)
  /\ UNCHANGED <<conn, eventQueue, sock, epEvent, sessConn, pools, kernel, heard>>

\* m_eventNet.PopFront brings an event of type e.
PopEvent(e) ==
  /\ At("main", "proc")
  /\ LET c   == Of("main")
         net == conn[c].eventNet
     IN  /\ net # <<>>
         /\ Head(net) = e
         /\ \E q \in Stored(c, Tail(net)) : conn' = [conn EXCEPT ![c].eventNet = q]

\* An event of no type, from a slot that was never written, is ignored.
ProcInvalid ==
  /\ PopEvent("INVALID")
  /\ Continue("main", <<>>)
  /\ UNCHANGED <<eventQueue, sock, epEvent, sessConn, pools, kernel, heard>>

\* What a callback of session k may do: nothing, FxSession::Close or FxSession::Send,
\* which do nothing without a connection.
AppSteps(k) ==
  {<<>>} \cup {ConnClose(c) : c \in IF AppCloses THEN {sessConn[k]} \ {NULL} ELSE {}}
         \cup {ConnSend(c) : c \in IF AppSends THEN {sessConn[k]} \ {NULL} ELSE {}}

\* ProcEvent takes an event of type e, and its session hears it, which must be there
\* unless the event is a CLOSE; then come found, of the connection.
Proc(e, found) ==
  /\ PopEvent(e)
  /\ LET k == conn[Of("main")].session
     IN  IF k # NULL
         THEN /\ heard' = [heard EXCEPT ![k] = @ \cup {e}]
              /\ \E app \in AppSteps(k) : Continue("main", app \o found)
         ELSE /\ UNCHANGED heard
              /\ IF e = "CLOSE" THEN Continue("main", Tail(found)) ELSE Crash("main")
  /\ UNCHANGED <<eventQueue, sock, epEvent, sessConn, pools, peer, watched, backlog, accepted>>

ProcConnected == Proc("CONNECTED", <<>>) /\ UNCHANGED traffic
ProcError     == Proc("ERROR", <<>>) /\ UNCHANGED traffic

\* _ProcRecv: after OnRecv, DealBuffer2Packet looks for one more packet.
ProcRecv ==
  \/ Proc("RECV", <<>>) /\ UNCHANGED traffic
  \/ /\ Batched
     /\ At("main", "proc")
     /\ Arrives(conn[Of("main")].session)
     /\ \/ Proc("RECV", PushEvent(Of("main"), "RECV"))
        \/ Malformed /\ Proc("RECV", PacketError(Of("main")))

\* _ProcClose: OnClose, if there is a session, and then it and the pool let go of
\* the connection.
ProcClose ==
  /\ Proc("CLOSE", <<Step("unlink", Of("main")), Step("release", Of("main"))>>)
  /\ UNCHANGED traffic

\* m_pFxSession->SetConnection(NULL)
Unlink ==
  /\ At("main", "unlink")
  /\ LET k == conn[Of("main")].session
     IN  IF k = NULL THEN Crash("main") /\ UNCHANGED sessConn
         ELSE Continue("main", <<>>) /\ sessConn' = [sessConn EXCEPT ![k] = NULL]
  /\ UNCHANGED <<conn, eventQueue, sock, epEvent, pools, kernel, heard>>

ReleaseHeard ==
  /\ At("main", "release")
  /\ connPool' = Released(connPool, Of("main"))
  /\ Continue("main", <<>>)
  /\ UNCHANGED <<conn, eventQueue, sock, epEvent, sessConn, sockPool, kernel, heard>>

--------------------------------------------------------------------------------

Init ==
  /\ todo = [t \in Threads |-> IF t = "acceptor" THEN <<Step("begin", t)>> ELSE <<>>]
  /\ conn = [c \in Conns |->
               [bClose |-> TRUE, eventNet |-> <<>>, torn |-> FALSE,
                poSocket |-> NULL, session |-> NULL]]
  /\ eventQueue = <<>>
  /\ \E t \in EpollThreads : sock = [s \in Socks |-> [nSocket |-> 0, conn |-> NULL, mark |-> t]]
  /\ epEvent = [t \in EpollThreads |-> NoThread]
  /\ sessConn = [k \in Clients |-> NULL]
  /\ connPool = [free |-> SetToSeq(Conns), ref |-> [c \in Conns |-> 0]]
  /\ sockPool = [free |-> SetToSeq(Socks), ref |-> [s \in Socks |-> 0]]
  /\ peer = [f \in Fds |-> IF f = 0 THEN Stdin ELSE NULL]
  /\ watched = [f \in Fds |-> NoWatch]
  /\ backlog = [clients |-> 0, edge |-> FALSE, refused |-> FALSE]
  /\ accepted = 0
  /\ traffic = [k \in Clients |-> 0]
  /\ heard = [k \in Clients |-> {}]

\* What a thread does inside a call it has begun.
Run(t) ==
  \/ CheckClose(t)
  \/ PushNet(t)
  \/ PushEventQueue(t)
  \/ CloseConnection(t)
  \/ CloseSocket(t)
  \/ Uninit(t)
  \/ CloseFd(t)
  \/ ClearFd(t)
  \/ Detach(t)
  \/ ReleaseConnection(t)
  \/ ReleaseSocket(t)
  \/ Send(t)
  \/ SendTo(t)
  \/ IsConnected(t)
  \/ Aim(t)
  \/ SendEpollMess(t)

Acceptor ==
  \/ DisposerBegin
  \/ EpollWait
  \/ AcceptFails
  \/ Accept
  \/ FetchConnection
  \/ InitPointers
  \/ InitEvents
  \/ InitClose
  \/ SetSession
  \/ NoSession
  \/ SetConnection
  \/ SetSock
  \/ SetSocket
  \/ Register
  \/ Run("acceptor")

ReadLoop(t) ==
  \/ GetSock(t)
  \/ ReadPacket(t)
  \/ ReadBadPacket(t)
  \/ SocketError(t)
  \/ PeerCloses(t)
  \/ WriteLoop(t)
  \/ Rearm(t)
  \/ ReadNothing(t)
  \/ Run(t)

Main ==
  \/ PopToken
  \/ ProcNothing
  \/ ProcInvalid
  \/ ProcConnected
  \/ ProcError
  \/ ProcRecv
  \/ ProcClose
  \/ Unlink
  \/ ReleaseHeard
  \/ Run("main")

Next ==
  \/ ~Crashed /\ (ClientConnects \/ Acceptor \/ Main)
  \/ ~Crashed /\ \E t \in EpollThreads : Report(t) \/ ReadLoop(t)
  \/ PollNothing
  \/ Crashed /\ UNCHANGED vars

Spec == Init /\ [][Next]_vars

\* Threads are scheduled: one that is inside a call goes on with it, and the main
\* thread polls (testmain.cpp:110).  Sockets need not become ready, and no client
\* need connect.
FairSpec ==
  /\ Spec
  /\ WF_vars(~Crashed /\ Main)
  /\ WF_vars(~Crashed /\ Acceptor)
  /\ \A t \in EpollThreads : WF_vars(~Crashed /\ ReadLoop(t))

--------------------------------------------------------------------------------
(* Properties                                                               *)

TypeOK ==
  /\ \A t \in Threads : \A i \in DOMAIN todo[t] : todo[t][i].op \in Ops
  /\ conn \in [Conns -> [bClose : BOOLEAN, eventNet : Seq(ENetEvtType), torn : BOOLEAN,
                         poSocket : Socks \cup {NULL}, session : Clients \cup {NULL}]]
  /\ \A c \in Conns : Len(conn[c].eventNet) < NetEventPerSock
  /\ eventQueue \in Seq(Conns)
  /\ Len(eventQueue) < TotalEventCount
  /\ sock \in [Socks -> [nSocket : Fds, conn : Conns \cup {NULL}, mark : EpollThreads]]
  /\ epEvent \in [EpollThreads -> Socks \cup {NULL, NoThread}]
  /\ sessConn \in [Clients -> Conns \cup {NULL}]
  /\ connPool.free \in Seq(Conns) /\ connPool.ref \in [Conns -> {0, 1}]
  /\ sockPool.free \in Seq(Socks) /\ sockPool.ref \in [Socks -> {0, 1}]
  /\ peer \in [Fds -> Clients \cup {NULL, Stdin}]
  /\ watched \in [Fds -> [thread : EpollThreads, sock : Socks] \cup {NoWatch}]
  /\ backlog \in [clients : 0 .. MaxAccepts, edge : BOOLEAN, refused : BOOLEAN]
  /\ accepted \in 0 .. MaxAccepts
  /\ traffic \in [Clients -> 0 .. Traffic]
  /\ heard \in [Clients -> SUBSET ENetEvtType]

Occurrences(s, x) == Cardinality({i \in DOMAIN s : s[i] = x})
PushersAt(op, c)  == {t \in Threads : At(t, op) /\ Of(t).conn = c}
Hears(c)          == IF conn[c].session = NULL THEN {} ELSE heard[conn[c].session]

\* How often ProcEvent will still be called for c.
Tokens(c) ==
  Occurrences(eventQueue, c) + Cardinality(PushersAt("module", c))
                             + (IF At("main", "proc") /\ Of("main") = c THEN 1 ELSE 0)

\* The two queues that hold an event stay in step although no lock covers both:
\* a connection has one event for every token in the module's queue, one for
\* every thread between the two pushes, and one for the token the main thread
\* has taken.  So ProcEvent always finds an event and none is left behind.
EveryEventHasItsToken == \A c \in Conns : Len(conn[c].eventNet) = Tokens(c)

\* Also when the pool hands out a connection again while tokens of its former
\* life are queued, and while its former users may still push and pop, no event
\* waits without a token: unless Init's two stores tore the cursors, that is, came
\* between the accesses of such a user.
NoEventIsStranded ==
  \A c \in Conns : ~conn[c].torn => Len(conn[c].eventNet) <= Tokens(c)

\* A session hears OnConnect before anything else: the accept loop announces the
\* connection before an epoll thread can watch it.
ConnectIsHeardFirst == \A k \in Clients : heard[k] # {} => "CONNECTED" \in heard[k]

\* However many threads close a connection at once, one CLOSE is pushed: m_bClose
\* is tested and set under one lock.
CloseIsPushedOnce ==
  \A c \in Conns :
    Occurrences(conn[c].eventNet, "CLOSE")
      + Cardinality({t \in PushersAt("net", c) : Of(t).event = "CLOSE"})
      + Cardinality(Hears(c) \cap {"CLOSE"}) <= 1

\* m_bClose does not cover the two pushes, so an event that was let through can
\* end up behind CLOSE and reach the session after OnClose; but only one, since
\* only the epoll thread and the main thread push for a connection that lives.
LateEvents(c) ==
  LET net == conn[c].eventNet
  IN  IF "CLOSE" \in Hears(c) THEN Len(net)
      ELSE Cardinality({j \in DOMAIN net : \E i \in 1 .. j - 1 : net[i] = "CLOSE"})

AtMostOneLateEvent == \A c \in Conns : LateEvents(c) <= 1



\* A thread that waits for room in a full queue gets it, but in one whose cursors are
\* torn: the main thread comes there only for a token, and there may be none.
Pushing(t) == At(t, "net") \/ At(t, "module")
EveryPushEnds ==
  \A t \in Threads :
    Pushing(t) ~> (Crashed \/ ~Pushing(t) \/ (At(t, "net") /\ conn[Of(t).conn].torn))

\* After a close all that the accept loop took for a client is given back, each
\* object once, although two threads may run CLSocket::Uninit and a third runs
\* _ProcClose: the descriptor, the CLSocket and the CConnection.
EverythingIsGivenBack ==
  \A k \in Clients :
    "CLOSE" \in heard[k] ~>
      \/ Crashed
      \/ /\ \A f \in Fds : peer[f] # k
         /\ ToSet(connPool.free) = Conns /\ Len(connPool.free) = Cardinality(Conns)
         /\ ToSet(sockPool.free) = Socks /\ Len(sockPool.free) = Cardinality(Socks)

\* Clients wait in the backlog only while epoll will still report them, while the
\* accept loop is not through, or since accept() itself failed: the loop drains the
\* edge-triggered socket.
NobodyIsLeftWaiting ==
  backlog.clients > 0 =>
    \/ backlog.edge
    \/ backlog.refused
    \/ At("acceptor", "deaf")
    \/ \E i \in DOMAIN todo["acceptor"] : todo["acceptor"][i].op = "accept"

\* What is released twice does not go back to the pool: a connection on its free
\* list is never one that is open.
ReleasedOnce == \A c \in Conns : ~conn[c].bClose => c \notin ToSet(connPool.free)

================================================================================
