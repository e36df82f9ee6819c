----------------------------- MODULE NetEventsProofs ----------------------------
(***************************************************************************)
(* Proofs about NetEvents for any pools, epoll threads, queue sizes,       *)
(* clients and traffic: what the threads hand each other keeps its type,   *)
(* and no event is stranded in the queue of its connection.                *)
(***************************************************************************)
EXTENDS NetEvents, SequenceTheorems, FunctionTheorems, FiniteSetTheorems, TLAPS

\* The sockets that were tied to a connection, as every one is before it is published.
Linked == {s \in Socks : sock[s].conn \in Conns}

EventData == [conn : Conns, event : ENetEvtType]
FetchData == [client : Clients, fd : Fds, sock : Socks]
HeldData  == [client : Clients, fd : Fds, sock : Socks, conn : Conns]

\* All steps there can be.
Things == EventData \cup Conns \cup Socks \cup [sock : Socks, fd : Fds]
            \cup FetchData \cup HeldData \cup Threads \cup {NULL}
Steps == [op : Ops, of : Things]

PushOps == {"check", "net", "module"}
ConnOps == {"close", "deref", "send", "sendto", "proc", "unlink", "release"}
SockOps == {"uninit", "closefd", "clearfd", "detach", "releaseconn", "releasesock", "connected",
            "aim", "modify", "event"}
ReadOps == {"read", "rearm"}

\* The steps an epoll thread or the main thread can have to do: what they are about is there.
GoodSteps ==
  [op : PushOps, of : EventData] \cup [op : ConnOps, of : Conns] \cup [op : SockOps, of : Linked]
    \cup [op : ReadOps, of : [sock : Linked, fd : Fds]] \cup [op : {"crash"}, of : Threads]

StepsInv ==
  /\ todo \in [Threads -> Seq(Steps)]
  /\ \A t \in Threads \ {"acceptor"} : todo[t] \in Seq(GoodSteps)

--------------------------------------------------------------------------------
(* What the accept loop has to do, from each of its steps on               *)

FromRegister(a)   == <<Step("register", a.sock)>> \o AfterAccept
FromAim(a)        == <<Step("aim", a.sock)>> \o FromRegister(a)
Announcing(op, a) == <<EventStep(op, a.conn, "CONNECTED")>> \o FromAim(a)
FromSetSocket(a)  == <<Step("setsocket", a)>> \o Announcing("check", a)
FromSetSock(a)    == <<Step("setsock", a)>> \o FromSetSocket(a)
FromSetConn(a)    == <<Step("setconn", a)>> \o FromSetSock(a)
FromSession(a)    == <<Step("session", a)>> \o FromSetConn(a)
FromClose(a)      == <<Step("bclose", a)>> \o FromSession(a)
FromEvents(a)     == <<Step("events", a)>> \o FromClose(a)
FromPointers(a)   == <<Step("pointers", a)>> \o FromEvents(a)
FromFetch(a)      == <<Step("fetch", a)>> \o AfterAccept

\* The socket is tied to the connection before it is published, and m_epEvent of its
\* thread points to a socket before the descriptor is registered with it.
Serving(a) ==
  \/ todo["acceptor"] \in {FromPointers(a), FromEvents(a), FromClose(a), FromSession(a),
                           FromSetConn(a)}
  \/ /\ todo["acceptor"] \in {FromSetSock(a), FromSetSocket(a), FromAim(a)}
                               \cup {Announcing(op, a) : op \in PushOps}
     /\ a.sock \in Linked
  \/ /\ todo["acceptor"] = FromRegister(a)
     /\ a.sock \in Linked /\ epEvent[sock[a.sock].mark] \in Linked

\* At first it has to begin, and no thread is there to point to a socket.
Beginning == <<Step("begin", "acceptor")>>

AcceptorInv ==
  \/ todo["acceptor"] \in {<<>>, AfterAccept, <<Step("deaf", "acceptor")>>}
  \/ todo["acceptor"] = Beginning /\ \A t \in EpollThreads : epEvent[t] = NoThread
  \/ At("acceptor", "crash")
  \/ \E a \in FetchData : todo["acceptor"] = FromFetch(a)
  \/ \E a \in HeldData : Serving(a)

--------------------------------------------------------------------------------
(* The rest of the state                                                    *)

Pools(O) == [free : Seq(O), ref : [O -> {0, 1}]]

ConnInv ==
  /\ conn \in [Conns -> [bClose : BOOLEAN, eventNet : Seq(ENetEvtType), torn : BOOLEAN,
                         poSocket : Linked \cup {NULL}, session : Clients \cup {NULL}]]
  /\ \A c \in Conns : Len(conn[c].eventNet) < NetEventPerSock
  /\ eventQueue \in Seq(Conns)
  /\ Len(eventQueue) < TotalEventCount

SockInv ==
  /\ sock \in [Socks -> [nSocket : Fds, conn : Conns \cup {NULL}, mark : EpollThreads]]
  /\ epEvent \in [EpollThreads -> Linked \cup {NULL, NoThread}]
  /\ sessConn \in [Clients -> Conns \cup {NULL}]

PoolsInv ==
  /\ connPool \in Pools(Conns)
  /\ sockPool \in Pools(Socks)

\* No descriptor is open twice on one client, and a thread that watches one points
\* to a socket with its m_epEvent.
KernelInv ==
  /\ peer \in [Fds -> {NULL, Stdin} \cup 1 .. accepted]
  /\ \A f, g \in Fds : peer[f] = peer[g] /\ peer[f] # NULL => f = g
  /\ watched \in [Fds -> [thread : EpollThreads, sock : Linked] \cup {NoWatch}]
  /\ \A f \in Fds : watched[f].thread \in EpollThreads => epEvent[watched[f].thread] \in Linked
  /\ backlog \in [clients : Nat, edge : BOOLEAN, refused : BOOLEAN]
  /\ accepted \in Nat
  /\ accepted + backlog.clients <= MaxAccepts

HistoryInv ==
  /\ traffic \in [Clients -> 0 .. Traffic]
  /\ heard \in [Clients -> SUBSET ENetEvtType]

DataInv == ConnInv /\ SockInv /\ PoolsInv /\ KernelInv /\ HistoryInv

IInv == StepsInv /\ AcceptorInv /\ DataInv /\ NoEventIsStranded

--------------------------------------------------------------------------------
(* Sequences of steps                                                       *)

\* A step before others.
LEMMA ConsFacts ==
  ASSUME NEW S, NEW x \in S, NEW r \in Seq(S)
  PROVE  /\ <<x>> \o r \in Seq(S) /\ <<x>> \o r # <<>>
         /\ Head(<<x>> \o r) = x /\ Tail(<<x>> \o r) = r
OBVIOUS

\* What a thread has to do is one step and then the others, and it may put steps before those.
LEMMA ContinueFacts ==
  ASSUME StepsInv, NEW t \in Threads, todo[t] # <<>>, NEW s, Continue(t, s)
  PROVE  /\ Head(todo[t]) \in Steps /\ Tail(todo[t]) \in Seq(Steps)
         /\ s \in Seq(Steps) => todo' \in [Threads -> Seq(Steps)]
         /\ todo'[t] = s \o Tail(todo[t])
         /\ \A u \in Threads : u # t => todo'[u] = todo[u]
<1>1. todo \in [Threads -> Seq(Steps)] /\ todo[t] \in Seq(Steps)
  BY DEF StepsInv
<1>2. Head(todo[t]) \in Steps /\ Tail(todo[t]) \in Seq(Steps)
  BY <1>1, HeadTailProperties
<1>3. s \in Seq(Steps) => s \o Tail(todo[t]) \in Seq(Steps)
  BY <1>2, ConcatProperties
<1>4. todo' = [todo EXCEPT ![t] = s \o Tail(todo[t])]
  BY <1>1 DEF Continue
<1> QED BY <1>1, <1>2, <1>3, <1>4

\* Good steps stay good: a socket that is linked stays linked.
LEMMA GoodStepsGrow ==
  ASSUME Linked \subseteq Linked'
  PROVE  GoodSteps \subseteq GoodSteps'
<1>1. [op : SockOps, of : Linked] \subseteq [op : SockOps, of : Linked']
  OBVIOUS
<1>2. [op : ReadOps, of : [sock : Linked, fd : Fds]] \subseteq
        [op : ReadOps, of : [sock : Linked', fd : Fds]]
  OBVIOUS
<1> QED BY <1>1, <1>2 DEF GoodSteps

\* Good steps are steps.
LEMMA GoodStepsAreSteps == GoodSteps \subseteq Steps
<1>1. Linked \subseteq Socks
  BY DEF Linked
<1>2. PushOps \subseteq Ops /\ ConnOps \subseteq Ops /\ SockOps \subseteq Ops /\ ReadOps \subseteq Ops
      /\ "crash" \in Ops
  BY DEF PushOps, ConnOps, SockOps, ReadOps, Ops
<1>3. [sock : Linked, fd : Fds] \subseteq [sock : Socks, fd : Fds]
  BY <1>1
<1>4. \A A \in SUBSET Ops : \A B \in SUBSET Things : [op : A, of : B] \subseteq Steps
  BY DEF Steps
<1>5. /\ EventData \subseteq Things /\ Conns \subseteq Things /\ Linked \subseteq Things
      /\ [sock : Linked, fd : Fds] \subseteq Things /\ Threads \subseteq Things
  BY <1>1, <1>3 DEF Things
<1>6. /\ [op : PushOps, of : EventData] \subseteq Steps /\ [op : ConnOps, of : Conns] \subseteq Steps
      /\ [op : SockOps, of : Linked] \subseteq Steps
      /\ [op : ReadOps, of : [sock : Linked, fd : Fds]] \subseteq Steps
      /\ [op : {"crash"}, of : Threads] \subseteq Steps
  BY <1>2, <1>4, <1>5
<1> QED BY <1>6 DEF GoodSteps

\* What a good step is about.
LEMMA GoodStepFacts ==
  ASSUME NEW st \in GoodSteps
  PROVE  /\ st.op \in PushOps => st.of \in EventData
         /\ st.op \in ConnOps => st.of \in Conns
         /\ st.op \in SockOps => st.of \in Linked
         /\ st.op \in ReadOps => st.of \in [sock : Linked, fd : Fds]
         /\ st.op \in PushOps \cup ConnOps \cup SockOps \cup ReadOps \cup {"crash"}
BY DEF GoodSteps, PushOps, ConnOps, SockOps, ReadOps

\* And how to make one.
LEMMA GoodStepsMade ==
  /\ \A d \in EventData : \A op \in PushOps : Step(op, d) \in GoodSteps
  /\ \A c \in Conns : \A op \in ConnOps : Step(op, c) \in GoodSteps
  /\ \A x \in Linked : \A op \in SockOps : Step(op, x) \in GoodSteps
  /\ \A x \in Linked, f \in Fds : \A op \in ReadOps :
       Step(op, [sock |-> x, fd |-> f]) \in GoodSteps
  /\ \A t \in Threads : Step("crash", t) \in GoodSteps
BY DEF GoodSteps, Step

\* The steps of the accept loop are steps.
LEMMA AcceptStepsMade ==
  ASSUME NEW op \in Ops
  PROVE  /\ \A a \in HeldData : Step(op, a) \in Steps
         /\ \A a \in FetchData : Step(op, a) \in Steps
         /\ \A d \in EventData : Step(op, d) \in Steps
         /\ \A x \in Socks : Step(op, x) \in Steps
         /\ \A t \in Threads : Step(op, t) \in Steps
         /\ Step(op, NULL) \in Steps
BY DEF Steps, Things, Step

\* What the accept loop has to do, step by step.
LEMMA ShapeFacts ==
  ASSUME NEW a \in HeldData
  PROVE  LET Is(seq, step, rest) ==
               seq \in Seq(Steps) /\ seq # <<>> /\ Head(seq) = step /\ Tail(seq) = rest
         IN  /\ Is(AfterAccept, Step("accept", NULL), <<>>)
             /\ Is(FromRegister(a), Step("register", a.sock), AfterAccept)
             /\ Is(FromAim(a), Step("aim", a.sock), FromRegister(a))
             /\ \A op \in PushOps :
                  Is(Announcing(op, a), EventStep(op, a.conn, "CONNECTED"), FromAim(a))
             /\ Is(FromSetSocket(a), Step("setsocket", a), Announcing("check", a))
             /\ Is(FromSetSock(a), Step("setsock", a), FromSetSocket(a))
             /\ Is(FromSetConn(a), Step("setconn", a), FromSetSock(a))
             /\ Is(FromSession(a), Step("session", a), FromSetConn(a))
             /\ Is(FromClose(a), Step("bclose", a), FromSession(a))
             /\ Is(FromEvents(a), Step("events", a), FromClose(a))
             /\ Is(FromPointers(a), Step("pointers", a), FromEvents(a))
<1> DEFINE Is(seq, step, rest) ==
             seq \in Seq(Steps) /\ seq # <<>> /\ Head(seq) = step /\ Tail(seq) = rest
<1>1. \A x \in Steps : \A r \in Seq(Steps) : Is(<<x>> \o r, x, r)
  BY ConsFacts
<1>2. /\ a.sock \in Socks /\ a.conn \in Conns
      /\ {"accept", "register", "aim", "setsocket", "setsock", "setconn", "session", "bclose",
          "events", "pointers"} \cup PushOps \subseteq Ops
  BY DEF HeldData, Ops, PushOps
<1>3. Is(AfterAccept, Step("accept", NULL), <<>>)
  BY <1>2, AcceptStepsMade DEF AfterAccept
<1>4. \A op \in PushOps : EventStep(op, a.conn, "CONNECTED") \in Steps
  <2>1. [conn |-> a.conn, event |-> "CONNECTED"] \in EventData
    BY <1>2 DEF EventData, ENetEvtType
  <2> QED BY <1>2, <2>1, AcceptStepsMade DEF EventStep
<1>5. Is(FromRegister(a), Step("register", a.sock), AfterAccept)
  BY <1>1, <1>2, <1>3, AcceptStepsMade DEF FromRegister
<1>6. Is(FromAim(a), Step("aim", a.sock), FromRegister(a))
  BY <1>1, <1>2, <1>5, AcceptStepsMade DEF FromAim
<1>7. \A op \in PushOps : Is(Announcing(op, a), EventStep(op, a.conn, "CONNECTED"), FromAim(a))
  BY <1>1, <1>4, <1>6 DEF Announcing
<1>8. Is(FromSetSocket(a), Step("setsocket", a), Announcing("check", a))
  BY <1>1, <1>2, <1>7, AcceptStepsMade DEF FromSetSocket, PushOps
<1>9. Is(FromSetSock(a), Step("setsock", a), FromSetSocket(a))
  BY <1>1, <1>2, <1>8, AcceptStepsMade DEF FromSetSock
<1>10. Is(FromSetConn(a), Step("setconn", a), FromSetSock(a))
  BY <1>1, <1>2, <1>9, AcceptStepsMade DEF FromSetConn
<1>11. Is(FromSession(a), Step("session", a), FromSetConn(a))
  BY <1>1, <1>2, <1>10, AcceptStepsMade DEF FromSession
<1>12. Is(FromClose(a), Step("bclose", a), FromSession(a))
  BY <1>1, <1>2, <1>11, AcceptStepsMade DEF FromClose
<1>13. Is(FromEvents(a), Step("events", a), FromClose(a))
  BY <1>1, <1>2, <1>12, AcceptStepsMade DEF FromEvents
<1>14. Is(FromPointers(a), Step("pointers", a), FromEvents(a))
  BY <1>1, <1>2, <1>13, AcceptStepsMade DEF FromPointers
<1> QED BY <1>3, <1>5, <1>6, <1>7, <1>8, <1>9, <1>10, <1>11, <1>12, <1>13, <1>14

\* The accept loop adds its steps for a client to those it has.
LEMMA FetchedShape ==
  ASSUME NEW a \in HeldData
  PROVE  AcceptSteps(a) \o AfterAccept = FromPointers(a)
BY SMT DEF AcceptSteps, AfterAccept, PushEvent, FromRegister, FromAim, Announcing, FromSetSocket,
           FromSetSock, FromSetConn, FromSession, FromClose, FromEvents, FromPointers

\* Where the accept loop is, and what it does next.
Is(step, rest) == Head(todo["acceptor"]) = step /\ Tail(todo["acceptor"]) = rest

\* Its step for a client is one of these.
ServingStep(a) ==
  \/ Is(Step("pointers", a), FromEvents(a))
  \/ Is(Step("events", a), FromClose(a))
  \/ Is(Step("bclose", a), FromSession(a))
  \/ Is(Step("session", a), FromSetConn(a))
  \/ Is(Step("setconn", a), FromSetSock(a))
  \/ /\ a.sock \in Linked
     /\ \/ Is(Step("setsock", a), FromSetSocket(a))
        \/ Is(Step("setsocket", a), Announcing("check", a))
        \/ \E op \in PushOps : Is(EventStep(op, a.conn, "CONNECTED"), FromAim(a))
        \/ Is(Step("aim", a.sock), FromRegister(a))
        \/ /\ epEvent[sock[a.sock].mark] \in Linked
           /\ Is(Step("register", a.sock), AfterAccept)

\* Where it is while it serves a client.
LEMMA ServingHead ==
  ASSUME NEW a \in HeldData, Serving(a)
  PROVE  ServingStep(a)
<1>1. ASSUME todo["acceptor"] \in {FromPointers(a), FromEvents(a), FromClose(a), FromSession(a),
                                   FromSetConn(a)}
      PROVE  \/ Is(Step("pointers", a), FromEvents(a))
             \/ Is(Step("events", a), FromClose(a))
             \/ Is(Step("bclose", a), FromSession(a))
             \/ Is(Step("session", a), FromSetConn(a))
             \/ Is(Step("setconn", a), FromSetSock(a))
  BY <1>1, ShapeFacts DEF Is
<1>2. ASSUME todo["acceptor"] \in {FromSetSock(a), FromSetSocket(a), FromAim(a)}
                                    \cup {Announcing(op, a) : op \in PushOps}
      PROVE  \/ Is(Step("setsock", a), FromSetSocket(a))
             \/ Is(Step("setsocket", a), Announcing("check", a))
             \/ \E op \in PushOps : Is(EventStep(op, a.conn, "CONNECTED"), FromAim(a))
             \/ Is(Step("aim", a.sock), FromRegister(a))
  <2>1. CASE todo["acceptor"] \in {FromSetSock(a), FromSetSocket(a), FromAim(a)}
    BY <2>1, ShapeFacts DEF Is
  <2>2. ASSUME NEW op \in PushOps, todo["acceptor"] = Announcing(op, a)
        PROVE  Is(EventStep(op, a.conn, "CONNECTED"), FromAim(a))
    BY <2>2, ShapeFacts DEF Is
  <2> QED BY <1>2, <2>1, <2>2
<1>3. ASSUME todo["acceptor"] = FromRegister(a)
      PROVE  Is(Step("register", a.sock), AfterAccept)
  BY <1>3, ShapeFacts DEF Is
<1>4. CASE todo["acceptor"] \in {FromPointers(a), FromEvents(a), FromClose(a), FromSession(a),
                                 FromSetConn(a)}
  BY <1>1, <1>4 DEF ServingStep
<1>5. CASE /\ todo["acceptor"] \in {FromSetSock(a), FromSetSocket(a), FromAim(a)}
                                      \cup {Announcing(op, a) : op \in PushOps}
           /\ a.sock \in Linked
  BY <1>2, <1>5 DEF ServingStep
<1>6. CASE /\ todo["acceptor"] = FromRegister(a)
           /\ a.sock \in Linked /\ epEvent[sock[a.sock].mark] \in Linked
  BY <1>3, <1>6 DEF ServingStep
<1> QED BY <1>4, <1>5, <1>6 DEF Serving

\* Where the accept loop can be.
LEMMA AcceptorHead ==
  ASSUME AcceptorInv, todo["acceptor"] # <<>>
  PROVE  \/ Is(Step("begin", "acceptor"), <<>>) \/ At("acceptor", "crash")
         \/ Is(Step("deaf", "acceptor"), <<>>)
         \/ Is(Step("accept", NULL), <<>>)
         \/ \E a \in FetchData : Is(Step("fetch", a), AfterAccept)
         \/ \E a \in HeldData : ServingStep(a)
<1>1. CASE todo["acceptor"] = Beginning
  BY <1>1 DEF Beginning, Is
<1>2. CASE todo["acceptor"] = <<Step("deaf", "acceptor")>>
  BY <1>2 DEF Is
<1>3. CASE todo["acceptor"] = AfterAccept
  BY <1>3 DEF AfterAccept, Is
<1>4. ASSUME NEW a \in FetchData, todo["acceptor"] = FromFetch(a)
      PROVE  Is(Step("fetch", a), AfterAccept)
  <2>1. Step("fetch", a) \in Steps /\ Step("accept", NULL) \in Steps
    BY AcceptStepsMade DEF Ops
  <2>2. AfterAccept \in Seq(Steps)
    BY <2>1 DEF AfterAccept
  <2> QED BY <1>4, <2>1, <2>2, ConsFacts DEF FromFetch, Is
<1>5. ASSUME NEW a \in HeldData, Serving(a) PROVE ServingStep(a)
  BY <1>5, ServingHead
<1> QED BY <1>1, <1>2, <1>3, <1>4, <1>5 DEF AcceptorInv

\* What is known of the step a thread is at.
LEMMA OfFacts ==
  ASSUME StepsInv, AcceptorInv, NEW t \in Threads, todo[t] # <<>>
  PROVE  LET op == Head(todo[t]).op
         IN  /\ op \in PushOps => Of(t) \in EventData
             /\ op \in ConnOps => Of(t) \in Conns /\ t # "acceptor"
             /\ op \in SockOps => Of(t) \in Linked /\ (t = "acceptor" => op = "aim")
             /\ op \in ReadOps => Of(t) \in [sock : Linked, fd : Fds] /\ t # "acceptor"
             /\ t = "acceptor" \/ op \in PushOps \cup ConnOps \cup SockOps \cup ReadOps \cup {"crash"}
<1>1. CASE t # "acceptor"
  <2>1. Head(todo[t]) \in GoodSteps
    <3>1. todo[t] \in Seq(GoodSteps)
      BY <1>1 DEF StepsInv
    <3> QED BY <3>1, HeadTailProperties
  <2> QED BY <1>1, <2>1, GoodStepFacts DEF Of
<1>2. CASE t = "acceptor"
  <2> DEFINE h == Head(todo["acceptor"])
  <2>1. CASE h.op \in {"begin", "deaf", "accept", "fetch", "pointers", "events", "bclose", "session",
                       "setconn", "setsock", "setsocket", "register", "crash"}
    BY <1>2, <2>1 DEF PushOps, ConnOps, SockOps, ReadOps
  <2> DEFINE Own == {"begin", "deaf", "accept", "fetch", "pointers", "events", "bclose", "session",
                     "setconn", "setsock", "setsocket", "register", "crash"}
             Known == \/ h.op \in PushOps /\ h.of \in EventData
                      \/ h.op = "aim" /\ h.of \in Linked
  <2>2. ASSUME NEW a \in HeldData, ServingStep(a)
        PROVE  h.op \in Own \/ Known
    <3>1. ASSUME NEW op \in PushOps, h = EventStep(op, a.conn, "CONNECTED")
          PROVE  h.op \in PushOps /\ h.of \in EventData
      BY <3>1 DEF EventStep, Step, HeldData, EventData, ENetEvtType
    <3>2. ASSUME a.sock \in Linked, h = Step("aim", a.sock)
          PROVE  h.op = "aim" /\ h.of \in Linked
      BY <3>2 DEF Step
    <3>3. \/ \E op \in Own : h = Step(op, a) \/ h = Step(op, a.sock)
          \/ \E op \in PushOps : h = EventStep(op, a.conn, "CONNECTED")
          \/ a.sock \in Linked /\ h = Step("aim", a.sock)
      <4> HIDE DEF h
      <4> QED BY <2>2, Zenon DEF ServingStep, Is, h
    <3>4. ASSUME NEW op \in Own, NEW x, h = Step(op, x) PROVE h.op \in Own
      BY <3>4 DEF Step
    <3> HIDE DEF h, Own
    <3> QED BY <3>1, <3>2, <3>3, <3>4
  <2>3. h.op \in Own \/ Known
    <3>1. \/ \E op \in Own, x \in FetchData \cup {NULL, "acceptor"} : h = Step(op, x)
          \/ h.op = "crash"
          \/ \E a \in HeldData : ServingStep(a)
      BY <1>2, AcceptorHead DEF Is, At
    <3>2. ASSUME NEW op \in Own, NEW x, h = Step(op, x) PROVE h.op \in Own
      BY <3>2 DEF Step
    <3>3. "crash" \in Own
      OBVIOUS
    <3> HIDE DEF h, Own, Known
    <3> QED BY <2>2, <3>1, <3>2, <3>3
  <2> QED BY <1>2, <2>1, <2>3 DEF Of, PushOps, ConnOps, SockOps, ReadOps
<1> QED BY <1>1, <1>2

--------------------------------------------------------------------------------
(* What a step leaves alone                                                 *)

\* The sockets are as linked as before, and so is what the threads point to.
EventsKept ==
  /\ Linked \subseteq Linked'
  /\ \A t \in EpollThreads : epEvent[t] \in Linked => epEvent'[t] \in Linked'

\* And each socket keeps the thread it chose, and none comes to be there.
LinksKept ==
  /\ EventsKept
  /\ \A x \in Socks : sock'[x].mark = sock[x].mark
  /\ \A t \in EpollThreads : epEvent[t] = NoThread => epEvent'[t] = NoThread

\* They are when neither the sockets nor the pointers change.
LEMMA LinksSame ==
  ASSUME UNCHANGED <<sock, epEvent>>
  PROVE  LinksKept /\ Linked' = Linked
BY DEF LinksKept, EventsKept, Linked

\* The accept loop is where it was when another thread took a step.
LEMMA AcceptorKept ==
  ASSUME SockInv, AcceptorInv, LinksKept, todo'["acceptor"] = todo["acceptor"]
  PROVE  AcceptorInv'
<1>1. CASE \/ todo["acceptor"] \in {<<>>, AfterAccept, <<Step("deaf", "acceptor")>>}
           \/ At("acceptor", "crash")
  BY <1>1 DEF AcceptorInv, At
<1>0. CASE todo["acceptor"] = Beginning /\ \A t \in EpollThreads : epEvent[t] = NoThread
  BY <1>0 DEF AcceptorInv, LinksKept
<1>2. ASSUME NEW a \in FetchData, todo["acceptor"] = FromFetch(a)
      PROVE  AcceptorInv'
  BY <1>2 DEF AcceptorInv
<1>3. ASSUME NEW a \in HeldData, Serving(a)
      PROVE  Serving(a)'
  <2>1. a.sock \in Socks /\ (a.sock \in Linked => a.sock \in Linked')
    BY DEF HeldData, LinksKept, EventsKept
  <2>2. CASE todo["acceptor"] \in {FromPointers(a), FromEvents(a), FromClose(a), FromSession(a),
                                   FromSetConn(a)}
    BY <2>2 DEF Serving
  <2>3. CASE /\ todo["acceptor"] \in {FromSetSock(a), FromSetSocket(a), FromAim(a)}
                                        \cup {Announcing(op, a) : op \in PushOps}
             /\ a.sock \in Linked
    BY <2>1, <2>3 DEF Serving
  <2>4. CASE /\ todo["acceptor"] = FromRegister(a)
             /\ a.sock \in Linked /\ epEvent[sock[a.sock].mark] \in Linked
    <3>1. sock'[a.sock].mark = sock[a.sock].mark /\ sock[a.sock].mark \in EpollThreads
      BY <2>1 DEF LinksKept, EventsKept, SockInv
    <3>2. epEvent'[sock'[a.sock].mark] \in Linked'
      BY <2>4, <3>1 DEF LinksKept, EventsKept
    <3> QED BY <2>1, <2>4, <3>2 DEF Serving
  <2> QED BY <1>3, <2>2, <2>3, <2>4 DEF Serving
<1> QED BY <1>0, <1>1, <1>2, <1>3 DEF AcceptorInv

\* A thread other than the accept loop does a step and puts good ones in its place.
LEMMA ThreadGoesOn ==
  ASSUME StepsInv, SockInv, AcceptorInv, LinksKept, NEW t \in Threads \ {"acceptor"}, todo[t] # <<>>,
         NEW s \in Seq(GoodSteps), Continue(t, s)
  PROVE  StepsInv' /\ AcceptorInv'
<1>1. GoodSteps \subseteq GoodSteps' /\ GoodSteps \subseteq Steps
  BY GoodStepsGrow, GoodStepsAreSteps DEF LinksKept, EventsKept
<1>2. s \in Seq(Steps)
  BY <1>1
<1>3. /\ todo' \in [Threads -> Seq(Steps)] /\ todo'[t] = s \o Tail(todo[t])
      /\ \A u \in Threads : u # t => todo'[u] = todo[u]
  BY <1>2, ContinueFacts
<1>4. todo[t] \in Seq(GoodSteps)
  BY DEF StepsInv
<1>5. Tail(todo[t]) \in Seq(GoodSteps)
  BY <1>4, HeadTailProperties
<1>6. todo'[t] \in Seq(GoodSteps)
  BY <1>3, <1>5, ConcatProperties
<1>7. \A u \in Threads \ {"acceptor"} : todo'[u] \in Seq(GoodSteps)
  BY <1>3, <1>6 DEF StepsInv
<1>8. \A u \in Threads \ {"acceptor"} : todo'[u] \in Seq(GoodSteps')
  BY <1>1, <1>7
<1>9. StepsInv'
  BY <1>3, <1>8 DEF StepsInv
<1>10. todo'["acceptor"] = todo["acceptor"]
  BY <1>3 DEF Threads
<1> QED BY <1>9, <1>10, AcceptorKept

\* A thread that waited for something to do begins with a good step.
LEMMA ThreadBegins ==
  ASSUME StepsInv, SockInv, AcceptorInv, LinksKept, NEW t \in Threads \ {"acceptor"},
         NEW x \in GoodSteps, todo' = [todo EXCEPT ![t] = <<x>>]
  PROVE  StepsInv' /\ AcceptorInv'
<1>1. GoodSteps \subseteq GoodSteps' /\ GoodSteps \subseteq Steps
  BY GoodStepsGrow, GoodStepsAreSteps DEF LinksKept, EventsKept
<1>2. /\ todo' \in [Threads -> Seq(Steps)] /\ todo'[t] = <<x>>
      /\ \A u \in Threads : u # t => todo'[u] = todo[u]
  BY <1>1 DEF StepsInv
<1>3. \A u \in Threads \ {"acceptor"} : todo'[u] \in Seq(GoodSteps)
  BY <1>2 DEF StepsInv
<1>4. \A u \in Threads \ {"acceptor"} : todo'[u] \in Seq(GoodSteps')
  BY <1>1, <1>3
<1>5. StepsInv'
  BY <1>2, <1>4 DEF StepsInv
<1>6. todo'["acceptor"] = todo["acceptor"]
  BY <1>2 DEF Threads
<1> QED BY <1>5, <1>6, AcceptorKept

\* The accept loop does a step, and what it has to do then is as it should be.
LEMMA AcceptorGoesOn ==
  ASSUME StepsInv, Linked \subseteq Linked', NEW s \in Seq(Steps),
         todo' = [todo EXCEPT !["acceptor"] = s]
  PROVE  StepsInv' /\ todo'["acceptor"] = s
<1>1. GoodSteps \subseteq GoodSteps'
  BY GoodStepsGrow
<1>2. /\ todo' \in [Threads -> Seq(Steps)] /\ todo'["acceptor"] = s
      /\ \A u \in Threads : u # "acceptor" => todo'[u] = todo[u]
  BY DEF StepsInv, Threads
<1>3. \A u \in Threads \ {"acceptor"} : todo'[u] \in Seq(GoodSteps)
  BY <1>2 DEF StepsInv
<1>4. \A u \in Threads \ {"acceptor"} : todo'[u] \in Seq(GoodSteps')
  BY <1>1, <1>3
<1> QED BY <1>2, <1>4 DEF StepsInv

--------------------------------------------------------------------------------
(* The accept loop by its steps                                             *)

\* What the accept loop has to do after each of its steps.
LEMMA AcceptorAt ==
  ASSUME AcceptorInv, NEW op, At("acceptor", op)
  PROVE  /\ op \in {"begin", "deaf", "accept"} => Tail(todo["acceptor"]) = <<>>
         /\ op = "fetch" => \E a \in FetchData : Is(Step("fetch", a), AfterAccept)
         /\ op \notin {"begin", "deaf", "accept", "fetch", "crash"}
              => \E a \in HeldData : ServingStep(a)
<1> DEFINE h == Head(todo["acceptor"])
<1>1. h.op = op /\ todo["acceptor"] # <<>>
  BY DEF At
<1>2. ASSUME NEW x, NEW y, NEW r, Is(Step(x, y), r)
      PROVE  op = x /\ Tail(todo["acceptor"]) = r
  BY <1>1, <1>2 DEF Is, Step
<1>3. CASE Is(Step("begin", "acceptor"), <<>>)
  BY <1>2, <1>3
<1>4. CASE Is(Step("deaf", "acceptor"), <<>>)
  BY <1>2, <1>4
<1>5. CASE Is(Step("accept", NULL), <<>>)
  BY <1>2, <1>5
<1>6. CASE \E a \in FetchData : Is(Step("fetch", a), AfterAccept)
  BY <1>2, <1>6
<1>7. ASSUME NEW a \in HeldData, ServingStep(a)
      PROVE  op \notin {"begin", "deaf", "accept", "fetch", "crash"}
  <2>1. \/ \E x \in {"pointers", "events", "bclose", "session", "setconn", "setsock", "setsocket"} :
             \E r : Is(Step(x, a), r)
        \/ \E x \in {"aim", "register"} : \E r : Is(Step(x, a.sock), r)
        \/ \E x \in PushOps : \E r : Is(EventStep(x, a.conn, "CONNECTED"), r)
    BY <1>7, Zenon DEF ServingStep
  <2> QED BY <1>2, <2>1 DEF EventStep, PushOps
<1>8. CASE At("acceptor", "crash")
  BY <1>1, <1>8 DEF At
<1> QED BY <1>1, <1>3, <1>4, <1>5, <1>6, <1>7, <1>8, AcceptorHead

\* And with what it serves a client.
LEMMA ServingAt ==
  ASSUME NEW a \in HeldData, ServingStep(a), NEW op, At("acceptor", op)
  PROVE  /\ op = "pointers" => Is(Step("pointers", a), FromEvents(a))
         /\ op = "events" => Is(Step("events", a), FromClose(a))
         /\ op = "bclose" => Is(Step("bclose", a), FromSession(a))
         /\ op = "session" => Is(Step("session", a), FromSetConn(a))
         /\ op = "setconn" => Is(Step("setconn", a), FromSetSock(a))
         /\ op \notin {"pointers", "events", "bclose", "session", "setconn"} => a.sock \in Linked
         /\ op = "setsock" => Is(Step("setsock", a), FromSetSocket(a))
         /\ op = "setsocket" => Is(Step("setsocket", a), Announcing("check", a))
         /\ op \in PushOps => Is(EventStep(op, a.conn, "CONNECTED"), FromAim(a))
         /\ op = "aim" => Is(Step("aim", a.sock), FromRegister(a))
         /\ op = "register" => /\ epEvent[sock[a.sock].mark] \in Linked
                               /\ Is(Step("register", a.sock), AfterAccept)
         /\ op \in {"pointers", "events", "bclose", "session", "setconn", "setsock", "setsocket",
                    "aim", "register"} \cup PushOps
<1>1. ASSUME NEW x, NEW y, NEW r, Is(Step(x, y), r)
      PROVE  op = x
  BY <1>1 DEF Is, Step, At
<1>2. ASSUME NEW x, Is(EventStep(x, a.conn, "CONNECTED"), FromAim(a))
      PROVE  op = x
  BY <1>1, <1>2 DEF EventStep
<1>3. CASE \/ Is(Step("pointers", a), FromEvents(a))
           \/ Is(Step("events", a), FromClose(a))
           \/ Is(Step("bclose", a), FromSession(a))
           \/ Is(Step("session", a), FromSetConn(a))
           \/ Is(Step("setconn", a), FromSetSock(a))
  BY <1>1, <1>3 DEF PushOps
<1>4. CASE a.sock \in Linked /\ Is(Step("setsock", a), FromSetSocket(a))
  BY <1>1, <1>4 DEF PushOps
<1>5. CASE a.sock \in Linked /\ Is(Step("setsocket", a), Announcing("check", a))
  BY <1>1, <1>5 DEF PushOps
<1>6. CASE a.sock \in Linked /\ Is(Step("aim", a.sock), FromRegister(a))
  BY <1>1, <1>6 DEF PushOps
<1>7. CASE /\ a.sock \in Linked /\ epEvent[sock[a.sock].mark] \in Linked
           /\ Is(Step("register", a.sock), AfterAccept)
  BY <1>1, <1>7 DEF PushOps
<1>8. CASE a.sock \in Linked /\ \E x \in PushOps : Is(EventStep(x, a.conn, "CONNECTED"), FromAim(a))
  BY <1>2, <1>8 DEF PushOps
<1> QED BY <1>3, <1>4, <1>5, <1>6, <1>7, <1>8 DEF ServingStep

\* Before it begins it has nothing else to do.
LEMMA AtBegin ==
  ASSUME AcceptorInv, At("acceptor", "begin")
  PROVE  todo["acceptor"] = Beginning /\ \A t \in EpollThreads : epEvent[t] = NoThread
<1>1. Head(todo["acceptor"]).op = "begin" /\ todo["acceptor"] # <<>>
  BY DEF At
<1>2. CASE todo["acceptor"] \in {AfterAccept, <<Step("deaf", "acceptor")>>}
  BY <1>1, <1>2 DEF AfterAccept, Step
<1>3. CASE At("acceptor", "crash")
  BY <1>1, <1>3 DEF At
<1>4. ASSUME NEW a \in FetchData, todo["acceptor"] = FromFetch(a) PROVE FALSE
  <2>1. Step("fetch", a) \in Steps /\ AfterAccept \in Seq(Steps)
    BY AcceptStepsMade DEF Ops, AfterAccept
  <2>2. Head(todo["acceptor"]) = Step("fetch", a)
    BY <1>4, <2>1, ConsFacts DEF FromFetch
  <2> QED BY <1>1, <2>2 DEF Step
<1>5. ASSUME NEW a \in HeldData, Serving(a) PROVE FALSE
  BY <1>5, ServingHead, ServingAt DEF PushOps
<1> QED BY <1>1, <1>2, <1>3, <1>4, <1>5 DEF AcceptorInv

\* Of the steps any thread can take, the accept loop takes those of PushEvent and the
\* one on m_epEvent.
LEMMA AcceptorRuns ==
  ASSUME AcceptorInv, NEW op, At("acceptor", op), op \in PushOps \cup ConnOps \cup SockOps \cup ReadOps
  PROVE  \E a \in HeldData :
           /\ a.sock \in Linked
           /\ \/ op \in PushOps /\ Is(EventStep(op, a.conn, "CONNECTED"), FromAim(a))
              \/ op = "aim" /\ Is(Step("aim", a.sock), FromRegister(a))
<1>1. op \notin {"begin", "deaf", "accept", "fetch", "pointers", "events", "bclose", "session",
                 "setconn", "setsock", "setsocket", "register", "crash"}
  BY DEF PushOps, ConnOps, SockOps, ReadOps
<1>2. PICK a \in HeldData : ServingStep(a)
  BY <1>1, AcceptorAt
<1> QED BY <1>1, <1>2, ServingAt

--------------------------------------------------------------------------------
(* What the calls on connections and sockets leave a thread to do           *)

\* Inside a call, no socket is tied to another connection or thread, and m_epEvent keeps
\* pointing to a socket.
LEMMA RunKeepsLinks ==
  ASSUME StepsInv, AcceptorInv, SockInv, NEW t \in Threads, Run(t)
  PROVE  LinksKept
<1>1. CASE ClearFd(t)
  <2>1. Of(t) \in Socks
    BY <1>1, OfFacts DEF ClearFd, At, SockOps, Linked
  <2>2. sock' = [sock EXCEPT ![Of(t)].nSocket = 0] /\ epEvent' = epEvent
    BY <1>1 DEF ClearFd
  <2>3. \A x \in Socks : sock'[x].mark = sock[x].mark /\ sock'[x].conn = sock[x].conn
    BY <2>1, <2>2 DEF SockInv
  <2> QED BY <2>2, <2>3 DEF LinksKept, EventsKept, Linked
<1>2. CASE Aim(t)
  <2>1. Of(t) \in Linked
    BY <1>2, OfFacts DEF Aim, At, SockOps
  <2>2. sock' = sock /\ Linked' = Linked
    BY <1>2 DEF Aim, Linked
  <2>3. \A u \in EpollThreads :
          epEvent'[u] = epEvent[u] \/ (epEvent'[u] = Of(t) /\ epEvent[u] # NoThread)
    BY <1>2 DEF Aim, SockInv
  <2> QED BY <2>1, <2>2, <2>3 DEF LinksKept, EventsKept
<1>3. CASE UNCHANGED <<sock, epEvent>>
  BY <1>3, LinksSame
<1> QED
  BY <1>1, <1>2, <1>3 DEF Run, CheckClose, PushNet, PushEventQueue, CloseConnection, CloseSocket,
       Uninit, CloseFd, Detach, ReleaseConnection, ReleaseSocket, Send, SendTo, IsConnected,
       SendEpollMess

\* A thread with a NULL pointer has the crash before it, which is a good step.
LEMMA CrashIsGood ==
  ASSUME NEW t \in Threads, Crash(t)
  PROVE  \E s \in Seq(GoodSteps) : Continue(t, s)
<1>1. <<Step("crash", t)>> \in Seq(GoodSteps)
  BY GoodStepsMade
<1> QED BY <1>1 DEF Crash

\* Good steps, alone and in sequences.
LEMMA GoodSequences ==
  /\ <<>> \in Seq(GoodSteps) /\ \A x \in GoodSteps : <<x>> \in Seq(GoodSteps)
  /\ \A x, y \in Seq(GoodSteps) : x \o y \in Seq(GoodSteps)
  /\ \A c \in Conns, e \in ENetEvtType : PushEvent(c, e) \in Seq(GoodSteps)
  /\ \A c \in Conns : ConnClose(c) \in Seq(GoodSteps) /\ ConnSend(c) \in Seq(GoodSteps)
  /\ \A s \in Linked : SocketClose(s) \in Seq(GoodSteps)
<1>1. <<>> \in Seq(GoodSteps) /\ \A x \in GoodSteps : <<x>> \in Seq(GoodSteps)
  OBVIOUS
<1>2. \A x, y \in Seq(GoodSteps) : x \o y \in Seq(GoodSteps)
  BY ConcatProperties
<1>3. \A c \in Conns, e \in ENetEvtType : PushEvent(c, e) \in Seq(GoodSteps)
  <2>1. \A c \in Conns, e \in ENetEvtType : [conn |-> c, event |-> e] \in EventData
    BY DEF EventData
  <2>2. \A c \in Conns, e \in ENetEvtType : EventStep("check", c, e) \in GoodSteps
    BY <2>1, GoodStepsMade DEF EventStep, PushOps
  <2> QED BY <1>1, <2>2 DEF PushEvent
<1>4. \A c \in Conns : ConnClose(c) \in Seq(GoodSteps) /\ ConnSend(c) \in Seq(GoodSteps)
  BY <1>1, GoodStepsMade DEF ConnClose, ConnSend, ConnOps
<1>5. ASSUME NEW s \in Linked PROVE SocketClose(s) \in Seq(GoodSteps)
  <2>1. PushEvent(sock[s].conn, "CLOSE") \in Seq(GoodSteps)
    BY <1>3 DEF Linked, ENetEvtType
  <2>2. <<Step("uninit", s)>> \in Seq(GoodSteps)
    BY <1>1, GoodStepsMade DEF SockOps
  <2> QED BY <1>2, <2>1, <2>2 DEF SocketClose
<1> QED BY <1>1, <1>2, <1>3, <1>4, <1>5

\* What a thread other than the accept loop gets to do inside a call is good.
LEMMA RunSteps ==
  ASSUME StepsInv, AcceptorInv, SockInv, ConnInv, NEW t \in Threads \ {"acceptor"}, Run(t)
  PROVE  todo[t] # <<>> /\ \E s \in Seq(GoodSteps) : Continue(t, s)
<1>1. <<>> \in Seq(GoodSteps) /\ \A x \in GoodSteps : <<x>> \in Seq(GoodSteps)
  BY GoodSequences
<1>2. \A x, y \in Seq(GoodSteps) : x \o y \in Seq(GoodSteps)
  BY GoodSequences
<1>3. \A c \in Conns, e \in ENetEvtType : \A op \in PushOps : EventStep(op, c, e) \in GoodSteps
  <2>1. \A c \in Conns, e \in ENetEvtType : [conn |-> c, event |-> e] \in EventData
    BY DEF EventData
  <2> QED BY <2>1, GoodStepsMade DEF EventStep
<1>4. CASE CheckClose(t)
  <2>1. Of(t).conn \in Conns /\ Of(t).event \in ENetEvtType
    BY <1>4, OfFacts DEF CheckClose, At, PushOps, EventData
  <2>2. <<EventStep("net", Of(t).conn, Of(t).event)>> \in Seq(GoodSteps)
    BY <1>1, <1>3, <2>1 DEF PushOps
  <2> QED BY <1>1, <1>4, <2>2 DEF CheckClose, At
<1>5. CASE PushNet(t)
  <2>1. Of(t).conn \in Conns /\ Of(t).event \in ENetEvtType
    BY <1>5, OfFacts DEF PushNet, At, PushOps, EventData
  <2>2. Token(Of(t).conn, Of(t).event) \in Seq(GoodSteps)
    BY <1>1, <1>3, <2>1 DEF PushOps, Token
  <2> QED BY <1>5, <2>2 DEF PushNet, At
<1>6. CASE CloseConnection(t)
  <2>1. Of(t) \in Conns
    BY <1>6, OfFacts DEF CloseConnection, At, ConnOps
  <2>2. <<Step("deref", Of(t))>> \in Seq(GoodSteps)
    BY <1>1, <2>1, GoodStepsMade DEF ConnOps
  <2> QED BY <1>1, <1>6, <2>2 DEF CloseConnection, At
<1>7. CASE CloseSocket(t)
  <2>1. Of(t) \in Conns
    BY <1>7, OfFacts DEF CloseSocket, At, ConnOps
  <2>2. todo[t] # <<>>
    BY <1>7 DEF CloseSocket, At
  <2>3. CASE Crash(t)
    BY <2>2, <2>3, CrashIsGood
  <2>4. CASE conn[Of(t)].poSocket # NULL /\ Continue(t, SocketClose(conn[Of(t)].poSocket))
    <3>1. PICK x : x = conn[Of(t)].poSocket
      OBVIOUS
    <3>2. x \in Linked
      BY <2>1, <2>4, <3>1 DEF ConnInv
    <3>3. SocketClose(x) \in Seq(GoodSteps)
      BY <3>2, GoodSequences
    <3> QED BY <2>2, <2>4, <3>1, <3>3
  <2> QED BY <1>7, <2>3, <2>4 DEF CloseSocket
<1>8. CASE Uninit(t)
  <2>1. PICK x \in Linked : x = Of(t)
    BY <1>8, OfFacts DEF Uninit, At, SockOps
  <2>2. <<Step("closefd", x), Step("clearfd", x)>> \in Seq(GoodSteps)
    <3>1. Step("closefd", x) \in GoodSteps /\ Step("clearfd", x) \in GoodSteps
      BY GoodStepsMade DEF SockOps
    <3> QED BY <3>1
  <2>3. /\ Step("detach", x) \in GoodSteps /\ Step("releaseconn", x) \in GoodSteps
        /\ Step("releasesock", x) \in GoodSteps
    BY GoodStepsMade DEF SockOps
  <2>4. UninitSteps(x) \in Seq(GoodSteps)
    BY <2>3 DEF UninitSteps
  <2>5. (IF sock[x].nSocket = 0 THEN <<>> ELSE <<Step("closefd", x), Step("clearfd", x)>>)
          \o UninitSteps(x) \in Seq(GoodSteps)
    BY <1>1, <1>2, <2>2, <2>4
  <2> QED BY <1>8, <2>1, <2>5 DEF Uninit, At
<1>9. CASE Send(t)
  <2>1. Of(t) \in Conns
    BY <1>9, OfFacts DEF Send, At, ConnOps
  <2>2. <<Step("sendto", Of(t))>> \in Seq(GoodSteps)
    BY <1>1, <2>1, GoodStepsMade DEF ConnOps
  <2> QED BY <1>1, <1>9, <2>2 DEF Send, At
<1>10. CASE SendTo(t)
  <2>1. Of(t) \in Conns
    BY <1>10, OfFacts DEF SendTo, At, ConnOps
  <2>2. todo[t] # <<>>
    BY <1>10 DEF SendTo, At
  <2>3. CASE Crash(t)
    BY <2>2, <2>3, CrashIsGood
  <2>4. CASE /\ conn[Of(t)].poSocket # NULL
             /\ Continue(t, <<Step("connected", conn[Of(t)].poSocket)>>)
    <3>1. conn[Of(t)].poSocket \in Linked
      BY <2>1, <2>4 DEF ConnInv
    <3>2. <<Step("connected", conn[Of(t)].poSocket)>> \in Seq(GoodSteps)
      BY <1>1, <3>1, GoodStepsMade DEF SockOps
    <3> QED BY <2>2, <2>4, <3>2
  <2> QED BY <1>10, <2>3, <2>4 DEF SendTo
<1>11. CASE IsConnected(t)
  <2>1. Of(t) \in Linked
    BY <1>11, OfFacts DEF IsConnected, At, SockOps
  <2>2. Step("aim", Of(t)) \in GoodSteps /\ Step("modify", Of(t)) \in GoodSteps
    BY <2>1, GoodStepsMade DEF SockOps
  <2>3. <<Step("aim", Of(t)), Step("modify", Of(t))>> \in Seq(GoodSteps)
    BY <2>2
  <2> QED BY <1>1, <1>11, <2>3 DEF IsConnected, At
<1>12. CASE \/ PushEventQueue(t) \/ CloseFd(t) \/ ClearFd(t) \/ Detach(t) \/ ReleaseConnection(t)
            \/ ReleaseSocket(t) \/ SendEpollMess(t)
  BY <1>1, <1>12 DEF PushEventQueue, CloseFd, ClearFd, Detach, ReleaseConnection, ReleaseSocket,
                     SendEpollMess, At
<1>13. CASE Aim(t)
  BY <1>1, <1>13, CrashIsGood DEF Aim, At
<1> QED BY <1>4, <1>5, <1>6, <1>7, <1>8, <1>9, <1>10, <1>11, <1>12, <1>13 DEF Run

\* The accept loop announces a connection or sets m_epEvent, and goes on.
LEMMA AcceptorRunsOn ==
  ASSUME StepsInv, AcceptorInv, SockInv, ConnInv, Run("acceptor")
  PROVE  StepsInv' /\ AcceptorInv'
<1>0. LinksKept /\ "acceptor" \in Threads
  BY RunKeepsLinks DEF Threads
<1>1. PICK op \in PushOps \cup ConnOps \cup SockOps : At("acceptor", op)
  BY DEF Run, CheckClose, PushNet, PushEventQueue, CloseConnection, CloseSocket, Uninit, CloseFd,
         ClearFd, Detach, ReleaseConnection, ReleaseSocket, Send, SendTo, IsConnected, Aim,
         SendEpollMess, PushOps, ConnOps, SockOps
<1>2. PICK a \in HeldData :
        /\ a.sock \in Linked
        /\ \/ op \in PushOps /\ Is(EventStep(op, a.conn, "CONNECTED"), FromAim(a))
           \/ op = "aim" /\ Is(Step("aim", a.sock), FromRegister(a))
  BY <1>1, AcceptorRuns
<1>3. a.sock \in Linked' /\ todo["acceptor"] # <<>> /\ Head(todo["acceptor"]).op = op
  BY <1>0, <1>1, <1>2 DEF LinksKept, EventsKept, At
<1>4. /\ Announcing("net", a) \in Seq(Steps) /\ Announcing("module", a) \in Seq(Steps)
      /\ FromAim(a) \in Seq(Steps) /\ FromRegister(a) \in Seq(Steps)
  BY ShapeFacts DEF PushOps
<1>5. \A x \in Seq(Steps) : <<>> \o x = x
  OBVIOUS
<1>6. CASE CheckClose("acceptor") \/ PushNet("acceptor") \/ PushEventQueue("acceptor")
  <2>1. op \in PushOps /\ Is(EventStep(op, a.conn, "CONNECTED"), FromAim(a))
    BY <1>2, <1>3, <1>6 DEF CheckClose, PushNet, PushEventQueue, At, PushOps
  <2>2. Of("acceptor").conn = a.conn /\ Of("acceptor").event = "CONNECTED"
    BY <2>1 DEF Is, Of, EventStep, Step
  <2>3. \/ todo' = [todo EXCEPT !["acceptor"] = Announcing("net", a)]
        \/ todo' = [todo EXCEPT !["acceptor"] = Announcing("module", a)]
        \/ todo' = [todo EXCEPT !["acceptor"] = FromAim(a)]
    <3>1. CASE CheckClose("acceptor")
      BY <2>1, <2>2, <3>1 DEF CheckClose, Is, Continue, Announcing
    <3>2. CASE PushNet("acceptor")
      BY <2>1, <2>2, <3>2 DEF PushNet, Token, Is, Continue, Announcing
    <3>3. CASE PushEventQueue("acceptor")
      BY <1>4, <1>5, <2>1, <3>3 DEF PushEventQueue, Is, Continue
    <3> QED BY <1>6, <3>1, <3>2, <3>3
  <2>4. PICK s \in {Announcing("net", a), Announcing("module", a), FromAim(a)} :
          todo' = [todo EXCEPT !["acceptor"] = s]
    BY <2>3
  <2>5. StepsInv' /\ todo'["acceptor"] = s
    BY <1>0, <1>4, <2>4, AcceptorGoesOn DEF LinksKept, EventsKept
  <2>6. Serving(a)'
    BY <1>3, <2>4, <2>5 DEF Serving, PushOps
  <2> QED BY <2>5, <2>6 DEF AcceptorInv
<1>9. CASE Aim("acceptor") /\ Crash("acceptor")
  <2>1. Is(Step("aim", a.sock), FromRegister(a))
    BY <1>2, <1>3, <1>9 DEF Aim, At, PushOps
  <2>2. PICK x \in Steps : x = Step("crash", "acceptor")
    BY <1>0, AcceptStepsMade DEF Ops
  <2>3. /\ <<x>> \o FromRegister(a) \in Seq(Steps) /\ <<x>> \o FromRegister(a) # <<>>
        /\ Head(<<x>> \o FromRegister(a)) = x
    BY <1>4, ConsFacts
  <2>4. todo' = [todo EXCEPT !["acceptor"] = <<x>> \o FromRegister(a)]
    BY <1>9, <2>1, <2>2 DEF Crash, Is, Continue
  <2>5. StepsInv' /\ todo'["acceptor"] = <<x>> \o FromRegister(a)
    BY <1>0, <2>3, <2>4, AcceptorGoesOn DEF LinksKept, EventsKept
  <2>6. At("acceptor", "crash")'
    BY <2>2, <2>3, <2>5 DEF At, Step
  <2> QED BY <2>5, <2>6 DEF AcceptorInv
<1>7. CASE Aim("acceptor") /\ ~Crash("acceptor")
  <2>1. Is(Step("aim", a.sock), FromRegister(a))
    BY <1>2, <1>3, <1>7 DEF Aim, At, PushOps
  <2>2. Of("acceptor") = a.sock
    BY <2>1 DEF Is, Of, Step
  <2>3. todo' = [todo EXCEPT !["acceptor"] = FromRegister(a)]
    BY <1>4, <1>5, <1>7, <2>1 DEF Aim, Is, Continue
  <2>4. StepsInv' /\ todo'["acceptor"] = FromRegister(a)
    BY <1>0, <1>4, <2>3, AcceptorGoesOn DEF LinksKept, EventsKept
  <2>5. a.sock \in Socks /\ sock[a.sock].mark \in EpollThreads /\ sock' = sock
    BY <1>7 DEF HeldData, SockInv, Aim
  <2>6. epEvent'[sock'[a.sock].mark] = a.sock
    BY <1>7, <2>2, <2>5 DEF Aim, SockInv
  <2>7. Serving(a)'
    BY <1>3, <2>4, <2>6 DEF Serving
  <2> QED BY <2>4, <2>7 DEF AcceptorInv
<1>8. CASE ~(CheckClose("acceptor") \/ PushNet("acceptor") \/ PushEventQueue("acceptor")
               \/ Aim("acceptor"))
  <2>1. op \in {"close", "deref", "uninit", "closefd", "clearfd", "detach", "releaseconn",
                "releasesock", "send", "sendto", "connected", "modify"}
    BY <1>3, <1>8 DEF Run, CloseConnection, CloseSocket, Uninit, CloseFd, ClearFd, Detach,
                      ReleaseConnection, ReleaseSocket, Send, SendTo, IsConnected, SendEpollMess, At
  <2> QED BY <1>2, <2>1 DEF PushOps
<1> QED BY <1>6, <1>7, <1>8, <1>9

\* Inside a call every thread keeps the shape of what it has to do.
LEMMA RunControl ==
  ASSUME StepsInv, AcceptorInv, SockInv, ConnInv, NEW t \in Threads, Run(t)
  PROVE  StepsInv' /\ AcceptorInv'
<1>1. CASE t = "acceptor"
  BY <1>1, AcceptorRunsOn
<1>2. CASE t # "acceptor"
  BY <1>2, RunSteps, RunKeepsLinks, ThreadGoesOn
<1> QED BY <1>1, <1>2

--------------------------------------------------------------------------------
(* What the calls on connections and sockets leave in the rest of the state *)

\* A pool hands out what is its own and takes it back.
LEMMA PoolFacts ==
  ASSUME NEW O, NEW p \in Pools(O)
  PROVE  /\ p.free # <<>> => Head(p.free) \in O /\ Fetched(p) \in Pools(O)
         /\ \A x \in O : Released(p, x) \in Pools(O)
<1>1. p.free \in Seq(O) /\ p.ref \in [O -> {0, 1}]
  BY DEF Pools
<1>2. ASSUME p.free # <<>> PROVE Head(p.free) \in O /\ Fetched(p) \in Pools(O)
  <2>1. Head(p.free) \in O /\ Tail(p.free) \in Seq(O)
    BY <1>1, <1>2, HeadTailProperties
  <2>2. [p.ref EXCEPT ![Head(p.free)] = 1] \in [O -> {0, 1}]
    BY <1>1
  <2> QED BY <2>1, <2>2 DEF Fetched, Pools
<1>3. ASSUME NEW x \in O PROVE Released(p, x) \in Pools(O)
  <2>1. Append(p.free, x) \in Seq(O) /\ [p.ref EXCEPT ![x] = 0] \in [O -> {0, 1}]
    BY <1>1, AppendProperties
  <2> QED BY <2>1 DEF Released, Pools
<1> QED BY <1>2, <1>3

ConnData == [bClose : BOOLEAN, eventNet : Seq(ENetEvtType), torn : BOOLEAN,
             poSocket : Linked \cup {NULL}, session : Clients \cup {NULL}]

\* What Init and the accesses that meet it leave in the queue of events fits in it.
LEMMA TornFits ==
  ASSUME NEW q \in SeqOf(ENetEvtType, NetEventPerSock - 1)
  PROVE  q \in Seq(ENetEvtType) /\ Len(q) < NetEventPerSock
<1>1. PICK m \in 0 .. NetEventPerSock - 1 : q \in [1 .. m -> ENetEvtType]
  BY DEF SeqOf
<1>2. m \in Nat /\ m < NetEventPerSock /\ q \in Seq(ENetEvtType)
  BY <1>1, NetAssumption
<1>3. Len(q) = m
  BY <1>1, <1>2, LenProperties
<1> QED BY <1>2, <1>3

\* Also what another access leaves in it, if it fits.
LEMMA StoredFits ==
  ASSUME NEW c \in Conns, NEW p \in Seq(ENetEvtType), Len(p) < NetEventPerSock,
         NEW q \in Stored(c, p)
  PROVE  /\ q \in Seq(ENetEvtType) /\ Len(q) < NetEventPerSock
         /\ ~conn[c].torn => q = p
<1>1. CASE conn[c].torn
  BY <1>1, TornFits DEF Stored
<1>2. CASE ~conn[c].torn
  BY <1>2 DEF Stored
<1> QED BY <1>1, <1>2

\* One connection changes.
LEMMA ConnChanges ==
  ASSUME ConnInv, Linked \subseteq Linked', NEW c \in Conns, NEW r,
         r \in ConnData \/ r \in ConnData', Len(r.eventNet) < NetEventPerSock,
         conn' = [conn EXCEPT ![c] = r], eventQueue' = eventQueue
  PROVE  ConnInv'
<1>1. ConnData \subseteq ConnData'
  BY DEF ConnData
<1>2. conn \in [Conns -> ConnData'] /\ r \in ConnData'
  BY <1>1 DEF ConnInv, ConnData
<1>3. conn' \in [Conns -> ConnData'] /\ \A d \in Conns : conn'[d] = IF d = c THEN r ELSE conn[d]
  BY <1>2
<1>4. \A d \in Conns : Len(conn'[d].eventNet) < NetEventPerSock
  BY <1>3 DEF ConnInv
<1> QED BY <1>3, <1>4 DEF ConnInv, ConnData

\* No connection does.
LEMMA ConnKept ==
  ASSUME ConnInv, Linked \subseteq Linked', UNCHANGED <<conn, eventQueue>>
  PROVE  ConnInv'
<1>1. ConnData \subseteq ConnData'
  BY DEF ConnData
<1>2. conn \in [Conns -> ConnData']
  BY <1>1 DEF ConnInv, ConnData
<1> QED BY <1>2 DEF ConnInv, ConnData

\* The sockets and sessions stay the same.
LEMMA SockKept ==
  ASSUME SockInv, UNCHANGED <<sock, epEvent, sessConn>>
  PROVE  SockInv'
BY DEF SockInv, Linked

\* The kernel stays the same.
LEMMA KernelKept ==
  ASSUME KernelInv, EventsKept, UNCHANGED <<peer, watched, backlog, accepted>>
  PROVE  KernelInv'
<1>1. watched' \in [Fds -> [thread : EpollThreads, sock : Linked'] \cup {NoWatch}]
  BY DEF KernelInv, EventsKept
<1>2. \A f \in Fds : watched'[f].thread \in EpollThreads => epEvent'[watched'[f].thread] \in Linked'
  BY DEF KernelInv, EventsKept
<1> QED BY <1>1, <1>2 DEF KernelInv

\* The registration of a descriptor changes.
LEMMA Watches ==
  ASSUME KernelInv, EventsKept, NEW f \in Fds,
         NEW w \in [thread : EpollThreads, sock : Linked'] \cup {NoWatch},
         w.thread \in EpollThreads => epEvent'[w.thread] \in Linked',
         watched' = [watched EXCEPT ![f] = w], UNCHANGED <<peer, backlog, accepted>>
  PROVE  KernelInv'
<1>1. watched \in [Fds -> [thread : EpollThreads, sock : Linked'] \cup {NoWatch}]
  BY DEF KernelInv, EventsKept
<1>2. /\ watched' \in [Fds -> [thread : EpollThreads, sock : Linked'] \cup {NoWatch}]
      /\ \A g \in Fds : watched'[g] = IF g = f THEN w ELSE watched[g]
  BY <1>1
<1>3. \A g \in Fds : watched'[g].thread \in EpollThreads => epEvent'[watched'[g].thread] \in Linked'
  BY <1>2 DEF KernelInv, EventsKept
<1> QED BY <1>2, <1>3 DEF KernelInv

\* A descriptor is closed, and may be taken out of its epoll set.
LEMMA Closing ==
  ASSUME KernelInv, EventsKept, NEW f \in Fds, peer' = [peer EXCEPT ![f] = NULL],
         watched' = watched \/ watched' = [watched EXCEPT ![f] = NoWatch],
         UNCHANGED <<backlog, accepted>>
  PROVE  KernelInv'
<1>1. /\ peer' \in [Fds -> {NULL, Stdin} \cup 1 .. accepted]
      /\ \A g, h \in Fds : peer'[g] = peer'[h] /\ peer'[g] # NULL => g = h
  BY DEF KernelInv
<1>2. NoWatch.thread \notin EpollThreads
  BY NetAssumption DEF NoWatch
<1>3. watched \in [Fds -> [thread : EpollThreads, sock : Linked'] \cup {NoWatch}]
  BY DEF KernelInv, EventsKept
<1>4. /\ watched' \in [Fds -> [thread : EpollThreads, sock : Linked'] \cup {NoWatch}]
      /\ \A g \in Fds : watched'[g] = watched[g] \/ watched'[g] = NoWatch
  BY <1>3
<1>5. \A g \in Fds : watched'[g].thread \in EpollThreads => epEvent'[watched'[g].thread] \in Linked'
  BY <1>2, <1>4 DEF KernelInv, EventsKept
<1> QED BY <1>1, <1>4, <1>5 DEF KernelInv

\* The history stays the same.
LEMMA HistoryKept ==
  ASSUME HistoryInv, UNCHANGED <<traffic, heard>>
  PROVE  HistoryInv'
BY DEF HistoryInv

\* Inside a call all of the rest keeps its type.
LEMMA RunData ==
  ASSUME StepsInv, AcceptorInv, DataInv, NEW t \in Threads, Run(t)
  PROVE  DataInv'
<1>1. EventsKept /\ Linked \subseteq Linked'
  BY RunKeepsLinks DEF DataInv, LinksKept, EventsKept
<1>2. ConnInv /\ SockInv /\ PoolsInv /\ KernelInv /\ HistoryInv
  BY DEF DataInv
<1>3. /\ UNCHANGED <<conn, eventQueue>> => ConnInv'
      /\ UNCHANGED <<sock, epEvent, sessConn>> => SockInv'
      /\ UNCHANGED <<connPool, sockPool>> => PoolsInv'
      /\ UNCHANGED <<peer, watched, backlog, accepted>> => KernelInv'
      /\ UNCHANGED <<traffic, heard>> => HistoryInv'
  BY <1>1, <1>2, ConnKept, SockKept, KernelKept, HistoryKept DEF PoolsInv
<1>4. \A c \in Conns : conn[c] \in ConnData /\ Len(conn[c].eventNet) < NetEventPerSock
  BY <1>2 DEF ConnInv, ConnData
<1>5. CASE CheckClose(t)
  <2>1. PICK c \in Conns : c = Of(t).conn
    BY <1>5, OfFacts DEF CheckClose, At, PushOps, EventData
  <2>2. PICK b \in BOOLEAN : conn' = [conn EXCEPT ![c].bClose = b]
    BY <1>5, <2>1 DEF CheckClose
  <2>3. PICK r : r = [conn[c] EXCEPT !.bClose = b]
    OBVIOUS
  <2>4. r \in ConnData /\ r.eventNet = conn[c].eventNet
    BY <1>4, <2>3 DEF ConnData
  <2>5. conn' = [conn EXCEPT ![c] = r]
    BY <2>2, <2>3
  <2>6. ConnInv'
    BY <1>1, <1>2, <1>4, <1>5, <2>4, <2>5, ConnChanges DEF CheckClose
  <2> QED BY <1>3, <1>5, <2>6 DEF CheckClose, pools, kernel, DataInv
<1>6. CASE PushNet(t)
  <2>1. PICK c \in Conns : c = Of(t).conn
    BY <1>6, OfFacts DEF PushNet, At, PushOps, EventData
  <2>2. PICK e \in ENetEvtType : e = Of(t).event
    BY <1>6, OfFacts DEF PushNet, At, PushOps, EventData
  <2>3. PICK q \in Stored(c, Append(conn[c].eventNet, e)) :
          conn' = [conn EXCEPT ![c].eventNet = q]
    BY <1>6, <2>1, <2>2 DEF PushNet
  <2>4. conn[c].eventNet \in Seq(ENetEvtType) /\ Len(conn[c].eventNet) < NetEventPerSock - 1
    BY <1>4, <1>6, <2>1 DEF PushNet, ConnData
  <2>5. q \in Seq(ENetEvtType) /\ Len(q) < NetEventPerSock
    <3>4. /\ Append(conn[c].eventNet, e) \in Seq(ENetEvtType)
          /\ Len(Append(conn[c].eventNet, e)) = Len(conn[c].eventNet) + 1
      BY <2>2, <2>4, AppendProperties
    <3>1. PICK p : p = Append(conn[c].eventNet, e)
      OBVIOUS
    <3>5. p \in Seq(ENetEvtType) /\ Len(p) = Len(conn[c].eventNet) + 1
      BY <3>1, <3>4
    <3>2. Len(conn[c].eventNet) \in Nat /\ NetEventPerSock \in Nat
      BY <2>4, LenProperties, NetAssumption
    <3>3. Len(p) < NetEventPerSock
      BY <2>4, <3>2, <3>5
    <3> QED BY <2>3, <3>1, <3>3, <3>5, StoredFits
  <2>6. PICK r : r = [conn[c] EXCEPT !.eventNet = q]
    OBVIOUS
  <2>7. r \in ConnData /\ r.eventNet = q
    BY <1>4, <2>5, <2>6 DEF ConnData
  <2>8. conn' = [conn EXCEPT ![c] = r]
    BY <2>3, <2>6
  <2>9. ConnInv'
    BY <1>1, <1>2, <1>6, <2>5, <2>7, <2>8, ConnChanges DEF PushNet
  <2> QED BY <1>3, <1>6, <2>9 DEF PushNet, pools, kernel, DataInv
<1>7. CASE PushEventQueue(t)
  <2>1. PICK c \in Conns : c = Of(t).conn
    BY <1>7, OfFacts DEF PushEventQueue, At, PushOps, EventData
  <2>2. eventQueue' = Append(eventQueue, c) /\ Len(eventQueue) < TotalEventCount - 1 /\ conn' = conn
    BY <1>7, <2>1 DEF PushEventQueue
  <2>3. eventQueue' \in Seq(Conns) /\ Len(eventQueue') = Len(eventQueue) + 1
    BY <1>2, <2>2, AppendProperties DEF ConnInv
  <2>4. Len(eventQueue) \in Nat /\ TotalEventCount \in Nat
    BY <1>2, LenProperties, NetAssumption DEF ConnInv
  <2>5. Len(eventQueue') < TotalEventCount
    BY <2>2, <2>3, <2>4
  <2>6. conn \in [Conns -> ConnData']
    BY <1>1, <1>4, <1>2 DEF ConnInv, ConnData
  <2>7. ConnInv'
    BY <1>4, <2>2, <2>3, <2>5, <2>6 DEF ConnInv, ConnData
  <2> QED BY <1>3, <1>7, <2>7 DEF PushEventQueue, pools, kernel, DataInv
<1>8. CASE CloseFd(t)
  <2>1. PICK x \in Socks : x = Of(t)
    BY <1>8, OfFacts DEF CloseFd, At, SockOps, Linked
  <2>2. PICK f \in Fds : f = sock[x].nSocket
    BY <1>2, <2>1 DEF SockInv
  <2>3. KernelInv'
    BY <1>1, <1>2, <1>8, <2>1, <2>2, Closing DEF CloseFd
  <2> QED BY <1>3, <1>8, <2>3 DEF CloseFd, pools, DataInv
<1>15. CASE ClearFd(t)
  <2>1. PICK x \in Socks : x = Of(t)
    BY <1>15, OfFacts DEF ClearFd, At, SockOps, Linked
  <2>2. sock' = [sock EXCEPT ![x].nSocket = 0] /\ 0 \in Fds
    BY <1>15, <2>1, NetAssumption DEF ClearFd, Fds
  <2>3. sock' \in [Socks -> [nSocket : Fds, conn : Conns \cup {NULL}, mark : EpollThreads]]
    BY <1>2, <2>2 DEF SockInv
  <2>4. SockInv'
    <3>1. epEvent' \in [EpollThreads -> Linked' \cup {NULL, NoThread}]
      BY <1>1, <1>2, <1>15 DEF SockInv, ClearFd
    <3> QED BY <1>2, <1>15, <2>3, <3>1 DEF SockInv, ClearFd
  <2> QED BY <1>3, <1>15, <2>4 DEF ClearFd, pools, kernel, DataInv
<1>9. CASE Detach(t)
  <2>1. PICK c \in Conns : c = sock[Of(t)].conn
    BY <1>9, OfFacts DEF Detach, At, SockOps, Linked
  <2>2. PICK r : r = [conn[c] EXCEPT !.poSocket = NULL]
    OBVIOUS
  <2>3. r \in ConnData /\ r.eventNet = conn[c].eventNet
    BY <1>4, <2>2 DEF ConnData
  <2>4. conn' = [conn EXCEPT ![c] = r]
    BY <1>9, <2>1, <2>2 DEF Detach
  <2>5. ConnInv'
    BY <1>1, <1>2, <1>4, <1>9, <2>3, <2>4, ConnChanges DEF Detach
  <2> QED BY <1>3, <1>9, <2>5 DEF Detach, pools, kernel, DataInv
<1>10. CASE ReleaseConnection(t)
  <2>1. sock[Of(t)].conn \in Conns
    BY <1>10, OfFacts DEF ReleaseConnection, At, SockOps, Linked
  <2>2. PoolsInv'
    BY <1>2, <1>10, <2>1, PoolFacts DEF PoolsInv, ReleaseConnection
  <2> QED BY <1>3, <1>10, <2>2 DEF ReleaseConnection, kernel, DataInv
<1>11. CASE ReleaseSocket(t)
  <2>1. Of(t) \in Socks
    BY <1>11, OfFacts DEF ReleaseSocket, At, SockOps, Linked
  <2>2. PoolsInv'
    BY <1>2, <1>11, <2>1, PoolFacts DEF PoolsInv, ReleaseSocket
  <2> QED BY <1>3, <1>11, <2>2 DEF ReleaseSocket, kernel, DataInv
<1>12. CASE Aim(t)
  <2>1. Of(t) \in Linked
    BY <1>12, OfFacts DEF Aim, At, SockOps
  <2>2. epEvent' \in [EpollThreads -> Linked' \cup {NULL, NoThread}]
    <3>1. epEvent \in [EpollThreads -> Linked' \cup {NULL, NoThread}] /\ Of(t) \in Linked'
      BY <1>1, <1>2, <2>1 DEF SockInv
    <3>2. epEvent' = epEvent \/ \E u : epEvent' = [epEvent EXCEPT ![u] = Of(t)]
      BY <1>12 DEF Aim
    <3> QED BY <3>1, <3>2
  <2>3. SockInv'
    BY <1>2, <1>12, <2>2 DEF SockInv, Aim
  <2> QED BY <1>3, <1>12, <2>3 DEF Aim, pools, kernel, DataInv
<1>13. CASE SendEpollMess(t)
  <2>1. PICK x \in Socks : x = Of(t)
    BY <1>13, OfFacts DEF SendEpollMess, At, SockOps, Linked
  <2>2. PICK f \in Fds : f = sock[x].nSocket
    BY <1>2, <2>1 DEF SockInv
  <2>3. PICK u \in EpollThreads : u = sock[x].mark
    BY <1>2, <2>1 DEF SockInv
  <2>4. ASSUME watched[f].thread = u PROVE KernelInv'
    <3>1. watched[f] \in [thread : EpollThreads, sock : Linked] /\ epEvent[u] \in Linked
      BY <1>2, <2>3, <2>4, NetAssumption DEF KernelInv, NoWatch
    <3>2. epEvent[u] \in Linked' /\ epEvent' = epEvent
      BY <1>1, <1>13, <3>1 DEF SendEpollMess
    <3>3. PICK w : w = [watched[f] EXCEPT !.sock = epEvent[u]]
      OBVIOUS
    <3>4. w \in [thread : EpollThreads, sock : Linked'] /\ w.thread = u
      BY <2>4, <3>1, <3>2, <3>3
    <3>5. watched' = [watched EXCEPT ![f] = w]
      BY <1>13, <2>1, <2>2, <2>3, <2>4, <3>3 DEF SendEpollMess
    <3> QED BY <1>1, <1>2, <1>13, <3>2, <3>4, <3>5, Watches DEF SendEpollMess
  <2>5. ASSUME watched[f].thread # u PROVE KernelInv'
    <3>1. watched' = watched
      BY <1>13, <2>1, <2>2, <2>3, <2>5 DEF SendEpollMess
    <3> QED BY <1>3, <1>13, <3>1 DEF SendEpollMess
  <2>6. KernelInv'
    BY <1>3, <1>13, <2>4, <2>5 DEF SendEpollMess
  <2> QED BY <1>3, <1>13, <2>6 DEF SendEpollMess, pools, DataInv
<1>14. CASE UNCHANGED <<conn, eventQueue, sock, epEvent, sessConn, pools, kernel, heard>>
  BY <1>3, <1>14 DEF pools, kernel, DataInv
<1> QED
  BY <1>5, <1>6, <1>7, <1>8, <1>9, <1>10, <1>11, <1>12, <1>13, <1>14, <1>15
     DEF Run, CloseConnection, CloseSocket, Uninit, Send, SendTo, IsConnected

--------------------------------------------------------------------------------
(* The accept loop's own steps                                              *)

\* There is a least one among some natural numbers.
LEMMA LeastNatural ==
  ASSUME NEW S \in SUBSET Nat, S # {}
  PROVE  \E x \in S : \A y \in S : x <= y
<1>1. PICK R : R = OpToRel(<, Nat)
  OBVIOUS
<1>2. IsWellFoundedOn(R, Nat)
  BY <1>1, NatLessThanWellFounded
<1>3. PICK x \in S : \A y \in S : <<y, x>> \notin R
  BY <1>2, WFMin
<1>4. \A y \in S : ~(y < x)
  BY <1>1, <1>3 DEF OpToRel
<1> QED BY <1>4

\* While clients wait there is a descriptor for the next: there are more descriptors
\* than clients that were accepted, and the standard input has one.
LEMMA ADescriptorIsFree ==
  ASSUME KernelInv, backlog.clients > 0
  PROVE  \E f \in Fds : peer[f] = NULL
<1>1. SUFFICES ASSUME \A f \in Fds : peer[f] # NULL PROVE FALSE
  OBVIOUS
<1>2. accepted \in Nat /\ backlog.clients \in Nat /\ accepted + backlog.clients <= MaxAccepts
      /\ MaxAccepts \in Nat
  BY NetAssumption DEF KernelInv
<1>3. IsFiniteSet(Fds) /\ Cardinality(Fds) = MaxAccepts + 1
  <2>1. IsFiniteSet(0 .. MaxAccepts)
        /\ Cardinality(0 .. MaxAccepts) = IF 0 > MaxAccepts THEN 0 ELSE MaxAccepts - 0 + 1
    BY <1>2, FS_Interval
  <2> QED BY <1>2, <2>1 DEF Fds
<1>4. IsFiniteSet(1 .. accepted) /\ Cardinality(1 .. accepted) = accepted
  <2>1. IsFiniteSet(1 .. accepted)
        /\ Cardinality(1 .. accepted) = IF 1 > accepted THEN 0 ELSE accepted - 1 + 1
    BY <1>2, FS_Interval
  <2> QED BY <1>2, <2>1
<1>5. Stdin \notin 1 .. accepted
  BY <1>2 DEF Stdin
<1>6. /\ IsFiniteSet((1 .. accepted) \cup {Stdin})
      /\ Cardinality((1 .. accepted) \cup {Stdin}) = accepted + 1
  BY <1>4, <1>5, FS_AddElement
<1>7. peer \in [Fds -> (1 .. accepted) \cup {Stdin}]
  BY <1>1 DEF KernelInv
<1>8. Cardinality((1 .. accepted) \cup {Stdin}) < Cardinality(Fds)
  BY <1>2, <1>3, <1>6
<1>9. \E f, g \in Fds : f # g /\ peer[f] = peer[g]
  BY <1>3, <1>6, <1>7, <1>8, FS_PigeonHole
<1> QED BY <1>1, <1>9 DEF KernelInv

\* And LowestFd is one.
LEMMA LowestFdIsFree ==
  ASSUME KernelInv, backlog.clients > 0
  PROVE  LowestFd \in Fds /\ peer[LowestFd] = NULL
<1> DEFINE Free == {f \in Fds : peer[f] = NULL}
<1>1. Free # {} /\ Free \in SUBSET Nat
  BY ADescriptorIsFree DEF Fds
<1>2. PICK f \in Free : \A g \in Free : f <= g
  BY <1>1, LeastNatural
<1>3. \A g \in 0 .. f - 1 : peer[g] # NULL
  BY <1>2, NetAssumption DEF Fds
<1>4. \E d \in Fds : peer[d] = NULL /\ \A g \in 0 .. d - 1 : peer[g] # NULL
  BY <1>2, <1>3
<1> QED BY <1>4 DEF LowestFd

\* What the accept loop gets to do is a sequence of steps.
LEMMA AcceptorContinues ==
  ASSUME StepsInv, NEW op, At("acceptor", op), Linked \subseteq Linked', NEW r, NEW s \in Seq(Steps),
         Tail(todo["acceptor"]) = r, NEW x \in Seq(Steps), x = s \o r,
         Continue("acceptor", s)
  PROVE  StepsInv' /\ todo'["acceptor"] = x
<1>1. todo' = [todo EXCEPT !["acceptor"] = x]
  BY DEF Continue
<1> QED BY <1>1, AcceptorGoesOn

\* DisposerBegin makes the threads, which point to nothing yet.
LEMMA DisposerBeginStep ==
  ASSUME StepsInv, AcceptorInv, DataInv, DisposerBegin
  PROVE  StepsInv' /\ AcceptorInv' /\ DataInv'
<1>1. ConnInv /\ SockInv /\ PoolsInv /\ KernelInv /\ HistoryInv
  BY DEF DataInv
<1>2. /\ At("acceptor", "begin")
      /\ UNCHANGED <<conn, eventQueue, sock, sessConn, pools, kernel, heard>>
  BY DEF DisposerBegin
<1>3. todo["acceptor"] = Beginning /\ \A t \in EpollThreads : epEvent[t] = NoThread
  BY <1>2, AtBegin
<1>4. NoThread \notin Linked /\ Linked' = Linked
  BY <1>2, NetAssumption DEF Linked
<1>5. EventsKept /\ Linked \subseteq Linked'
  BY <1>3, <1>4 DEF EventsKept
<1>6. epEvent' \in [EpollThreads -> Linked' \cup {NULL, NoThread}]
  BY <1>1, <1>4 DEF DisposerBegin, SockInv
<1>7. DataInv'
  <2>1. SockInv'
    BY <1>1, <1>2, <1>6 DEF SockInv
  <2> QED BY <1>1, <1>2, <1>5, <2>1, ConnKept, KernelKept, HistoryKept
          DEF pools, kernel, PoolsInv, DataInv
<1>8. PICK s \in {<<>>, <<Step("deaf", "acceptor")>>} : Continue("acceptor", s)
  BY DEF DisposerBegin
<1>9. Tail(todo["acceptor"]) = <<>>
  BY <1>2, AcceptorAt
<1>10. s \in Seq(Steps) /\ s = s \o <<>>
  <2>1. Step("deaf", "acceptor") \in Steps
    BY AcceptStepsMade DEF Ops, Threads
  <2>2. <<>> \in Seq(Steps) /\ <<Step("deaf", "acceptor")>> \in Seq(Steps)
    BY <2>1
  <2>3. s \in Seq(Steps)
    BY <1>8, <2>2
  <2>4. \A x \in Seq(Steps) : x \o <<>> = x
    OBVIOUS
  <2> QED BY <2>3, <2>4
<1>11. StepsInv' /\ todo'["acceptor"] = s
  BY <1>2, <1>5, <1>8, <1>9, <1>10, AcceptorContinues
<1>12. AcceptorInv'
  BY <1>8, <1>11 DEF AcceptorInv
<1> QED BY <1>7, <1>11, <1>12

\* epoll_wait reports the listening socket.
LEMMA EpollWaitStep ==
  ASSUME StepsInv, AcceptorInv, DataInv, EpollWait
  PROVE  StepsInv' /\ AcceptorInv' /\ DataInv'
<1>1. ConnInv /\ SockInv /\ PoolsInv /\ KernelInv /\ HistoryInv
  BY DEF DataInv
<1>2. /\ UNCHANGED <<conn, eventQueue, sock, epEvent, sessConn, pools, peer, watched, accepted,
                     traffic, heard>>
      /\ backlog' = [backlog EXCEPT !.edge = FALSE, !.refused = FALSE]
      /\ todo' = [todo EXCEPT !["acceptor"] = AfterAccept]
  BY DEF EpollWait, AfterAccept
<1>3. EventsKept /\ Linked \subseteq Linked' /\ Linked' = Linked
  BY <1>2, LinksSame DEF LinksKept, EventsKept
<1>4. AfterAccept \in Seq(Steps)
  BY AcceptStepsMade DEF AfterAccept, Ops
<1>5. StepsInv' /\ todo'["acceptor"] = AfterAccept
  BY <1>2, <1>3, <1>4, AcceptorGoesOn
<1>6. AcceptorInv'
  BY <1>5 DEF AcceptorInv
<1>7. KernelInv'
  <2>1. /\ backlog' \in [clients : Nat, edge : BOOLEAN, refused : BOOLEAN]
        /\ backlog'.clients = backlog.clients
    BY <1>1, <1>2 DEF KernelInv
  <2> QED BY <1>1, <1>2, <1>3, <2>1 DEF KernelInv
<1>8. DataInv'
  BY <1>1, <1>2, <1>3, <1>7, ConnKept, SockKept, HistoryKept DEF pools, PoolsInv, DataInv
<1> QED BY <1>5, <1>6, <1>8

\* What a comparison stores in a flag.
LEMMA FlagOf ==
  ASSUME NEW m \in Int, NEW n \in Int
  PROVE  \E b \in BOOLEAN : b = (m < n) /\ (m < n => b)
<1>1. CASE m < n
  <2>1. TRUE = (m < n)
    BY <1>1
  <2> QED BY <1>1, <2>1
<1>2. CASE ~(m < n)
  <2>1. FALSE = (m < n)
    BY <1>2
  <2> QED BY <1>2, <2>1
<1> QED BY <1>1, <1>2

\* accept() fails: a client stays in the backlog or is gone.
LEMMA AcceptFailsStep ==
  ASSUME StepsInv, AcceptorInv, DataInv, AcceptFails
  PROVE  StepsInv' /\ AcceptorInv' /\ DataInv'
<1>1. ConnInv /\ SockInv /\ PoolsInv /\ KernelInv /\ HistoryInv
  BY DEF DataInv
<1>2. /\ UNCHANGED <<conn, eventQueue, sock, epEvent, sessConn, pools, peer, watched, traffic, heard>>
      /\ At("acceptor", "accept") /\ Continue("acceptor", <<>>)
  BY DEF AcceptFails
<1>3. PICK gone \in {0, 1} :
        /\ gone <= backlog.clients
        /\ backlog' = [backlog EXCEPT !.clients = @ - gone, !.refused = gone < backlog.clients]
        /\ accepted' = accepted + gone
  BY DEF AcceptFails
<1>4. EventsKept /\ Linked \subseteq Linked' /\ Linked' = Linked
  BY <1>2, LinksSame DEF LinksKept, EventsKept
<1>5. StepsInv' /\ todo'["acceptor"] = <<>>
  <2>1. Tail(todo["acceptor"]) = <<>>
    BY <1>2, AcceptorAt
  <2>2. <<>> \in Seq(Steps) /\ <<>> = <<>> \o <<>>
    OBVIOUS
  <2> QED BY <1>2, <1>4, <2>1, <2>2, AcceptorContinues
<1>6. AcceptorInv'
  BY <1>5 DEF AcceptorInv
<1>7. KernelInv'
  <2>1. /\ backlog.clients \in Nat /\ accepted \in Nat /\ MaxAccepts \in Nat
        /\ accepted + backlog.clients <= MaxAccepts
    BY <1>1, NetAssumption DEF KernelInv
  <2>2. PICK n \in Nat : n = backlog.clients - gone
    BY <1>3, <2>1
  <2>7. PICK b \in BOOLEAN : b = (gone < backlog.clients)
    BY <2>1, FlagOf
  <2>3. backlog' = [backlog EXCEPT !.clients = n, !.refused = b]
    BY <1>3, <2>2, <2>7
  <2>8. backlog \in [clients : Nat, edge : BOOLEAN, refused : BOOLEAN]
    BY <1>1 DEF KernelInv
  <2>4. /\ backlog' \in [clients : Nat, edge : BOOLEAN, refused : BOOLEAN]
        /\ backlog'.clients = n
    BY <2>3, <2>8
  <2>5. accepted' \in Nat /\ accepted' + backlog'.clients <= MaxAccepts
    BY <1>3, <2>1, <2>2, <2>4
  <2>6. peer' \in [Fds -> {NULL, Stdin} \cup 1 .. accepted']
    <3>1. 1 .. accepted \subseteq 1 .. accepted'
      BY <1>3, <2>1
    <3> QED BY <1>1, <1>2, <3>1 DEF KernelInv
  <2> QED BY <1>1, <1>2, <1>4, <2>4, <2>5, <2>6 DEF KernelInv
<1>8. DataInv'
  BY <1>1, <1>2, <1>4, <1>7, ConnKept, SockKept, HistoryKept DEF pools, PoolsInv, DataInv
<1> QED BY <1>5, <1>6, <1>8

\* accept() gives a descriptor that is free to a client that has none, and a socket of the
\* pool goes with it.
LEMMA AcceptStep ==
  ASSUME StepsInv, AcceptorInv, DataInv, Accept
  PROVE  StepsInv' /\ AcceptorInv' /\ DataInv'
<1>1. ConnInv /\ SockInv /\ PoolsInv /\ KernelInv /\ HistoryInv
  BY DEF DataInv
<1>2. At("acceptor", "accept") /\ Tail(todo["acceptor"]) = <<>>
  BY AcceptorAt DEF Accept
<1>3. /\ AfterAccept \in Seq(Steps) /\ <<>> \in Seq(Steps)
      /\ \A a \in FetchData : /\ <<Step("fetch", a)>> \o AfterAccept \in Seq(Steps)
                              /\ FromFetch(a) = <<Step("fetch", a)>> \o AfterAccept
  <2>1. Step("accept", NULL) \in Steps /\ \A a \in FetchData : Step("fetch", a) \in Steps
    BY AcceptStepsMade DEF Ops
  <2> QED BY <2>1 DEF AfterAccept, FromFetch
<1>4. \A s \in Seq(Steps) : s \o <<>> = s
  OBVIOUS
<1>5. UNCHANGED <<conn, eventQueue, epEvent, sessConn, connPool, watched, traffic, heard>>
  BY DEF Accept
<1>6. backlog.clients > 0
  BY DEF Accept
<1>7. StepsInv' /\ AcceptorInv' /\ DataInv'
  <2>1. PICK k : k = accepted + 1
    OBVIOUS
  <2>2. PICK f : f = LowestFd
    OBVIOUS
  <2>3. /\ sockPool.free # <<>>
        /\ \E b \in BOOLEAN : backlog' = [backlog EXCEPT !.clients = @ - 1, !.refused = b]
        /\ accepted' = k
        /\ \/ /\ Continue("acceptor", AfterAccept)
              /\ UNCHANGED <<sock, sockPool, peer>>
           \/ /\ peer' = [peer EXCEPT ![f] = k]
              /\ f = 0
              /\ Continue("acceptor", <<>>) /\ UNCHANGED <<sock, sockPool>>
           \/ /\ peer' = [peer EXCEPT ![f] = k]
              /\ sockPool' = Fetched(sockPool)
              /\ \E t \in EpollThreads : sock' = [sock EXCEPT ![Head(sockPool.free)].mark = t]
              /\ Continue("acceptor",
                   <<Step("fetch", [client |-> k, fd |-> f, sock |-> Head(sockPool.free)])>>
                     \o AfterAccept)
    <3>1. \A x \in Socks : x = Head(sockPool.free) => MarksOf(x) \subseteq EpollThreads
      BY <1>1 DEF MarksOf, SockInv
    <3>2. /\ sockPool.free # <<>> /\ accepted' = k
          /\ backlog' = [backlog EXCEPT !.clients = @ - 1, !.refused = f = 0 /\ backlog.clients > 1]
      BY <2>1, <2>2 DEF Accept
    <3>3. PICK b \in BOOLEAN : b = (f = 0 /\ backlog.clients > 1)
      OBVIOUS
    <3>4. Head(sockPool.free) \in Socks
      BY <1>1, <3>2, PoolFacts DEF PoolsInv
    <3> QED BY <2>1, <2>2, <3>1, <3>2, <3>3, <3>4 DEF Accept
  <2>4. /\ backlog.clients \in Nat /\ backlog.clients > 0 /\ accepted \in Nat /\ MaxAccepts \in Nat
        /\ accepted + backlog.clients <= MaxAccepts
    BY <1>1, <1>6, NetAssumption DEF KernelInv
  <2>5. k \in Clients /\ k \in Nat /\ k \notin 1 .. accepted /\ k # NULL /\ k # Stdin
        /\ k \in 1 .. k /\ 1 .. accepted \subseteq 1 .. k
    BY <2>1, <2>4 DEF Clients, NULL, Stdin
  <2>6. f \in Fds /\ peer[f] = NULL
    BY <1>1, <2>2, <2>4, LowestFdIsFree
  <2>7. PICK s : s = Head(sockPool.free)
    OBVIOUS
  <2>8. s \in Socks /\ Fetched(sockPool) \in Pools(Socks)
    BY <1>1, <2>3, <2>7, PoolFacts DEF PoolsInv
  <2>9. /\ sock' \in [Socks -> [nSocket : Fds, conn : Conns \cup {NULL}, mark : EpollThreads]]
        /\ \A x \in Socks : sock'[x].conn = sock[x].conn
    <3>1. CASE sock' = sock
      BY <1>1, <3>1 DEF SockInv
    <3>2. ASSUME NEW t \in EpollThreads, sock' = [sock EXCEPT ![s].mark = t]
          PROVE  <2>9!:
      BY <1>1, <2>8, <3>2 DEF SockInv
    <3> QED BY <2>3, <2>7, <3>1, <3>2
  <2>10. Linked' = Linked /\ EventsKept
    BY <1>5, <2>9 DEF Linked, EventsKept
  <2>11. SockInv'
    BY <1>1, <1>5, <2>9, <2>10 DEF SockInv
  <2>12. PoolsInv'
    BY <1>1, <1>5, <2>3, <2>8 DEF PoolsInv
  <2>13. /\ peer' \in [Fds -> {NULL, Stdin} \cup 1 .. accepted']
         /\ \A g, h \in Fds : peer'[g] = peer'[h] /\ peer'[g] # NULL => g = h
    <3>1. /\ peer \in [Fds -> {NULL, Stdin} \cup 1 .. k]
          /\ \A g \in Fds : peer[g] # k
          /\ \A g, h \in Fds : peer[g] = peer[h] /\ peer[g] # NULL => g = h
      BY <1>1, <2>5 DEF KernelInv
    <3>2. CASE peer' = peer
      BY <2>3, <3>1, <3>2
    <3>3. CASE peer' = [peer EXCEPT ![f] = k]
      <4>1. \A g \in Fds : peer'[g] = IF g = f THEN k ELSE peer[g]
        BY <3>1, <3>3
      <4>2. peer' \in [Fds -> {NULL, Stdin} \cup 1 .. accepted']
        BY <2>3, <2>5, <3>1, <3>3
      <4> QED BY <3>1, <4>1, <4>2
    <3> QED BY <2>3, <3>2, <3>3
  <2>14. KernelInv'
    <3>1. /\ backlog' \in [clients : Nat, edge : BOOLEAN, refused : BOOLEAN]
          /\ backlog'.clients = backlog.clients - 1
      <4>1. PICK n \in Nat : n = backlog.clients - 1
        BY <2>4
      <4>2. PICK b \in BOOLEAN : backlog' = [backlog EXCEPT !.clients = n, !.refused = b]
        BY <2>3, <4>1
      <4> QED BY <1>1, <4>1, <4>2 DEF KernelInv
    <3>2. accepted' \in Nat /\ accepted' + backlog'.clients <= MaxAccepts
      BY <2>1, <2>3, <2>4, <3>1
    <3>3. /\ watched' \in [Fds -> [thread : EpollThreads, sock : Linked'] \cup {NoWatch}]
          /\ \A g \in Fds : watched'[g].thread \in EpollThreads => epEvent'[watched'[g].thread] \in Linked'
      BY <1>1, <1>5, <2>10 DEF KernelInv
    <3> QED BY <2>13, <3>1, <3>2, <3>3 DEF KernelInv
  <2>15. DataInv'
    BY <1>1, <1>5, <2>10, <2>11, <2>12, <2>14, ConnKept, HistoryKept DEF DataInv
  <2>16. StepsInv' /\ AcceptorInv'
    <3>1. CASE Continue("acceptor", AfterAccept)
      <4>1. StepsInv' /\ todo'["acceptor"] = AfterAccept
        BY <1>2, <1>3, <1>4, <2>10, <3>1, AcceptorContinues
      <4> QED BY <4>1 DEF AcceptorInv
    <3>2. CASE Continue("acceptor", <<>>)
      <4>1. StepsInv' /\ todo'["acceptor"] = <<>>
        BY <1>2, <1>3, <1>4, <2>10, <3>2, AcceptorContinues
      <4> QED BY <4>1 DEF AcceptorInv
    <3>3. CASE Continue("acceptor",
                 <<Step("fetch", [client |-> k, fd |-> f, sock |-> s])>> \o AfterAccept)
      <4>1. PICK a : a = [client |-> k, fd |-> f, sock |-> s]
        OBVIOUS
      <4>2. a \in FetchData
        BY <2>5, <2>6, <2>8, <4>1 DEF FetchData
      <4>3. StepsInv' /\ todo'["acceptor"] = FromFetch(a)
        BY <1>2, <1>3, <1>4, <2>10, <3>3, <4>1, <4>2, AcceptorContinues
      <4> QED BY <4>2, <4>3 DEF AcceptorInv
    <3> QED BY <2>3, <2>7, <3>1, <3>2, <3>3
  <2> QED BY <2>15, <2>16
<1> QED BY <1>7

\* A connection of the pool goes with it, too.
LEMMA FetchStep ==
  ASSUME StepsInv, AcceptorInv, DataInv, FetchConnection
  PROVE  StepsInv' /\ AcceptorInv' /\ DataInv'
<1>1. ConnInv /\ SockInv /\ PoolsInv /\ KernelInv /\ HistoryInv
  BY DEF DataInv
<1>2. LinksKept /\ EventsKept /\ Linked \subseteq Linked'
  BY LinksSame DEF FetchConnection, LinksKept, EventsKept
<1>3. PICK a \in FetchData : Is(Step("fetch", a), AfterAccept)
  BY AcceptorAt DEF FetchConnection
<1>4. a = Of("acceptor") /\ Tail(todo["acceptor"]) = AfterAccept
  BY <1>3 DEF Is, Of, Step
<1>5. PICK b : b = [client |-> a.client, fd |-> a.fd, sock |-> a.sock, conn |-> Head(connPool.free)]
  OBVIOUS
<1>6. Head(connPool.free) \in Conns /\ Fetched(connPool) \in Pools(Conns)
  BY <1>1, PoolFacts DEF FetchConnection, PoolsInv
<1>7. b \in HeldData
  BY <1>5, <1>6 DEF HeldData, FetchData
<1>8. Continue("acceptor", AcceptSteps(b))
  BY <1>4, <1>5 DEF FetchConnection
<1>9. FromPointers(b) = AcceptSteps(b) \o AfterAccept /\ FromPointers(b) \in Seq(Steps)
  BY <1>7, FetchedShape, ShapeFacts
<1>10. todo' = [todo EXCEPT !["acceptor"] = FromPointers(b)]
  BY <1>4, <1>8, <1>9 DEF Continue
<1>11. StepsInv' /\ todo'["acceptor"] = FromPointers(b)
  BY <1>2, <1>9, <1>10, AcceptorGoesOn
<1>12. Serving(b)'
  BY <1>11 DEF Serving
<1>13. AcceptorInv'
  BY <1>7, <1>12 DEF AcceptorInv
<1>14. PoolsInv'
  BY <1>1, <1>6 DEF PoolsInv, FetchConnection
<1>15. DataInv'
  BY <1>1, <1>2, <1>14, ConnKept, SockKept, KernelKept, HistoryKept
     DEF FetchConnection, kernel, DataInv
<1> QED BY <1>11, <1>13, <1>15

\* A step of the accept loop that is about what it holds, with the steps that come next.
LEMMA HeldAt ==
  ASSUME StepsInv, AcceptorInv, NEW op \in {"pointers", "events", "bclose", "session", "setconn",
                                            "setsock", "setsocket"},
         At("acceptor", op)
  PROVE  \E a \in HeldData :
           /\ ServingStep(a) /\ Held = a
           /\ op \notin {"pointers", "events", "bclose", "session", "setconn"} => a.sock \in Linked
           /\ \A n : /\ op = "pointers" => n = FromEvents(a)
                     /\ op = "events" => n = FromClose(a)
                     /\ op = "bclose" => n = FromSession(a)
                     /\ op = "session" => n = FromSetConn(a)
                     /\ op = "setconn" => n = FromSetSock(a)
                     /\ op = "setsock" => n = FromSetSocket(a)
                     /\ op = "setsocket" => n = Announcing("check", a)
                     /\ Linked \subseteq Linked' /\ Continue("acceptor", <<>>)
                     => StepsInv' /\ todo'["acceptor"] = n
<1>1. PICK a \in HeldData : ServingStep(a)
  BY AcceptorAt
<1>2. Held = a
  <2>1. \E r : Is(Step(op, a), r)
    BY <1>1, ServingAt DEF PushOps
  <2> QED BY <2>1 DEF Is, Held, Of, Step
<1>3. \A x \in Seq(Steps) : <<>> \o x = x
  OBVIOUS
<1>4. ASSUME NEW n,
             /\ op = "pointers" => n = FromEvents(a)
             /\ op = "events" => n = FromClose(a)
             /\ op = "bclose" => n = FromSession(a)
             /\ op = "session" => n = FromSetConn(a)
             /\ op = "setconn" => n = FromSetSock(a)
             /\ op = "setsock" => n = FromSetSocket(a)
             /\ op = "setsocket" => n = Announcing("check", a),
             Linked \subseteq Linked', Continue("acceptor", <<>>)
      PROVE  StepsInv' /\ todo'["acceptor"] = n
  <2>1. Tail(todo["acceptor"]) = n
    BY <1>1, <1>4, ServingAt DEF Is
  <2>2. n \in Seq(Steps)
    BY <1>4, ShapeFacts DEF PushOps
  <2>3. todo' = [todo EXCEPT !["acceptor"] = n]
    BY <1>3, <1>4, <2>1, <2>2 DEF Continue
  <2> QED BY <1>4, <2>2, <2>3, AcceptorGoesOn
<1>5. op \notin {"pointers", "events", "bclose", "session", "setconn"} => a.sock \in Linked
  BY <1>1, ServingAt
<1> QED BY <1>1, <1>2, <1>4, <1>5

\* The queue of events is empty, or its cursors are torn.
Emptied(q, b) ==
  /\ q \in Seq(ENetEvtType) /\ Len(q) < NetEventPerSock
  /\ b \in BOOLEAN
  /\ ~b => q = <<>>

\* Another thread is at the queue or not.
LEMMA BusyIsBoolean == \A c : Busy(c) \in BOOLEAN
BY DEF Busy, At

\* CConnection::Init changes one connection.
LEMMA InitSteps ==
  ASSUME StepsInv, AcceptorInv, DataInv, InitPointers \/ InitEvents \/ InitClose
  PROVE  StepsInv' /\ AcceptorInv' /\ DataInv'
<1>1. ConnInv /\ SockInv /\ PoolsInv /\ KernelInv /\ HistoryInv
  BY DEF DataInv
<1>2. UNCHANGED <<eventQueue, sock, epEvent, sessConn, pools, kernel, heard>>
  BY DEF InitPointers, InitEvents, InitClose, Assign
<1>3. LinksKept /\ EventsKept /\ Linked \subseteq Linked'
  BY <1>2, LinksSame DEF LinksKept, EventsKept
<1>4. PICK op \in {"pointers", "events", "bclose"} :
        /\ At("acceptor", op)
        /\ Continue("acceptor", <<>>)
        /\ \/ op = "pointers" /\ conn' = [conn EXCEPT ![Held.conn].poSocket = NULL,
                                                      ![Held.conn].session = NULL]
           \/ op = "events" /\ \E q, b : /\ Emptied(q, b)
                                       /\ conn' = [conn EXCEPT ![Held.conn].eventNet = q,
                                                               ![Held.conn].torn = b]
           \/ op = "bclose" /\ conn' = [conn EXCEPT ![Held.conn].bClose = TRUE]
  <2>1. CASE InitPointers
    BY <2>1 DEF InitPointers, Assign
  <2>2. CASE InitEvents
    <3>4. PICK b \in {FALSE, Busy(Held.conn)} :
            \E q \in IF b THEN SeqOf(ENetEvtType, NetEventPerSock - 1) ELSE {<<>>} :
              Assign("events", [conn EXCEPT ![Held.conn].eventNet = q, ![Held.conn].torn = b], sock)
      BY <2>2 DEF InitEvents
    <3>1. PICK q \in IF b THEN SeqOf(ENetEvtType, NetEventPerSock - 1) ELSE {<<>>} :
            Assign("events", [conn EXCEPT ![Held.conn].eventNet = q, ![Held.conn].torn = b], sock)
      BY <3>4
    <3>2. b \in BOOLEAN
      BY <3>4, BusyIsBoolean
    <3>3. Emptied(q, b)
      <4>1. CASE b = TRUE
        <5>1. q \in SeqOf(ENetEvtType, NetEventPerSock - 1)
          BY <3>1, <4>1
        <5> QED BY <4>1, <5>1, TornFits DEF Emptied
      <4>2. CASE b = FALSE
        <5>1. q = <<>>
          BY <3>1, <4>2
        <5>2. <<>> \in Seq(ENetEvtType) /\ Len(<<>>) < NetEventPerSock
          BY NetAssumption
        <5> QED BY <4>2, <5>1, <5>2 DEF Emptied
      <4> QED BY <3>2, <4>1, <4>2
    <3> QED BY <2>2, <3>1, <3>3 DEF InitEvents, Assign
  <2>3. CASE InitClose
    BY <2>3 DEF InitClose, Assign
  <2> QED BY <2>1, <2>2, <2>3
<1>5. PICK a \in HeldData :
        /\ Held = a
        /\ \A n : /\ op = "pointers" => n = FromEvents(a)
                  /\ op = "events" => n = FromClose(a)
                  /\ op = "bclose" => n = FromSession(a)
                  => StepsInv' /\ todo'["acceptor"] = n
  BY <1>3, <1>4, HeldAt
<1>6. PICK n \in {FromEvents(a), FromClose(a), FromSession(a)} :
        /\ op = "pointers" => n = FromEvents(a)
        /\ op = "events" => n = FromClose(a)
        /\ op = "bclose" => n = FromSession(a)
  BY <1>4
<1>7. StepsInv' /\ todo'["acceptor"] = n
  BY <1>5, <1>6
<1>8. AcceptorInv'
  <2>1. Serving(a)'
    BY <1>6, <1>7 DEF Serving
  <2> QED BY <2>1 DEF AcceptorInv
<1>9. PICK c \in Conns : c = a.conn
  BY DEF HeldData
<1>10. conn[c] \in ConnData /\ Len(conn[c].eventNet) < NetEventPerSock
  BY <1>1 DEF ConnInv, ConnData
<1>11. PICK q, b : op = "events" => /\ Emptied(q, b)
                                    /\ conn' = [conn EXCEPT ![Held.conn].eventNet = q,
                                                            ![Held.conn].torn = b]
  BY <1>4
<1>12. PICK r : r = CASE op = "pointers" -> [conn[c] EXCEPT !.poSocket = NULL, !.session = NULL]
                      [] op = "events" -> [conn[c] EXCEPT !.eventNet = q, !.torn = b]
                      [] op = "bclose" -> [conn[c] EXCEPT !.bClose = TRUE]
  OBVIOUS
<1>13. r \in ConnData /\ Len(r.eventNet) < NetEventPerSock /\ conn' = [conn EXCEPT ![c] = r]
  <2>1. CASE op = "pointers"
    <3>1. r = [conn[c] EXCEPT !.poSocket = NULL, !.session = NULL]
      BY <1>12, <2>1
    <3>2. r \in ConnData /\ r.eventNet = conn[c].eventNet
      BY <1>10, <3>1 DEF ConnData
    <3>3. conn' = [conn EXCEPT ![c] = r]
      BY <1>1, <1>4, <1>5, <1>9, <2>1, <3>1 DEF ConnInv
    <3> QED BY <1>10, <3>2, <3>3
  <2>2. CASE op = "events"
    <3>1. r = [conn[c] EXCEPT !.eventNet = q, !.torn = b]
      BY <1>12, <2>2
    <3>2. q \in Seq(ENetEvtType) /\ Len(q) < NetEventPerSock /\ b \in BOOLEAN
      BY <1>11, <2>2 DEF Emptied
    <3>3. r \in ConnData /\ r.eventNet = q
      BY <1>10, <3>1, <3>2 DEF ConnData
    <3>4. conn' = [conn EXCEPT ![c] = r]
      BY <1>1, <1>5, <1>9, <1>11, <2>2, <3>1 DEF ConnInv
    <3> QED BY <3>2, <3>3, <3>4
  <2>3. CASE op = "bclose"
    <3>1. r = [conn[c] EXCEPT !.bClose = TRUE]
      BY <1>12, <2>3
    <3>2. r \in ConnData /\ r.eventNet = conn[c].eventNet
      BY <1>10, <3>1 DEF ConnData
    <3>3. conn' = [conn EXCEPT ![c] = r]
      BY <1>4, <1>5, <1>9, <2>3, <3>1
    <3> QED BY <1>10, <3>2, <3>3
  <2> QED BY <1>4, <2>1, <2>2, <2>3
<1>14. ConnInv'
  BY <1>1, <1>2, <1>3, <1>13, ConnChanges
<1>15. DataInv'
  BY <1>1, <1>2, <1>3, <1>14, SockKept, KernelKept, HistoryKept DEF pools, kernel, PoolsInv, DataInv
<1> QED BY <1>7, <1>8, <1>15

\* The session and the connection know each other.
LEMMA SetSessionStep ==
  ASSUME StepsInv, AcceptorInv, DataInv, SetSession
  PROVE  StepsInv' /\ AcceptorInv' /\ DataInv'
<1>1. ConnInv /\ SockInv /\ PoolsInv /\ KernelInv /\ HistoryInv
  BY DEF DataInv
<1>2. /\ UNCHANGED <<eventQueue, sock, epEvent, pools, kernel, heard>>
      /\ At("acceptor", "session") /\ Continue("acceptor", <<>>)
      /\ conn' = [conn EXCEPT ![Held.conn].session = Held.client]
      /\ sessConn' = [sessConn EXCEPT ![Held.client] = Held.conn]
  BY DEF SetSession, Assign
<1>3. LinksKept /\ EventsKept /\ Linked \subseteq Linked' /\ Linked' = Linked
  BY <1>2, LinksSame DEF LinksKept, EventsKept
<1>4. PICK a \in HeldData :
        /\ Held = a
        /\ \A n : n = FromSetConn(a) => StepsInv' /\ todo'["acceptor"] = n
  BY <1>2, <1>3, HeldAt
<1>5. StepsInv' /\ todo'["acceptor"] = FromSetConn(a)
  BY <1>4
<1>6. AcceptorInv'
  BY <1>5 DEF AcceptorInv, Serving
<1>7. a.conn \in Conns /\ a.client \in Clients
  BY DEF HeldData
<1>8. conn[a.conn] \in ConnData /\ Len(conn[a.conn].eventNet) < NetEventPerSock
  BY <1>1, <1>7 DEF ConnInv, ConnData
<1>9. PICK r : r = [conn[a.conn] EXCEPT !.session = a.client]
  OBVIOUS
<1>10. r \in ConnData /\ r.eventNet = conn[a.conn].eventNet
  BY <1>7, <1>8, <1>9 DEF ConnData
<1>11. conn' = [conn EXCEPT ![a.conn] = r]
  BY <1>2, <1>4, <1>9
<1>12. ConnInv'
  BY <1>1, <1>2, <1>3, <1>7, <1>8, <1>10, <1>11, ConnChanges
<1>13. SockInv'
  <2>1. sessConn' \in [Clients -> Conns \cup {NULL}]
    BY <1>1, <1>2, <1>4, <1>7 DEF SockInv
  <2> QED BY <1>1, <1>2, <1>3, <2>1 DEF SockInv
<1>14. DataInv'
  BY <1>1, <1>2, <1>3, <1>12, <1>13, KernelKept, HistoryKept DEF pools, kernel, PoolsInv, DataInv
<1> QED BY <1>5, <1>6, <1>14

\* Without a session all goes back.
LEMMA NoSessionStep ==
  ASSUME StepsInv, AcceptorInv, DataInv, NoSession
  PROVE  StepsInv' /\ AcceptorInv' /\ DataInv'
<1>1. ConnInv /\ SockInv /\ PoolsInv /\ KernelInv /\ HistoryInv
  BY DEF DataInv
<1>2. LinksKept /\ EventsKept /\ Linked \subseteq Linked'
  BY LinksSame DEF NoSession, LinksKept, EventsKept
<1>3. PICK a \in HeldData : a = Of("acceptor")
  BY HeldAt DEF NoSession, Held
<1>4. /\ connPool' = Released(connPool, a.conn) /\ sockPool' = Released(sockPool, a.sock)
      /\ peer' = [peer EXCEPT ![a.fd] = NULL]
  BY <1>3 DEF NoSession
<1>5. a.conn \in Conns /\ a.sock \in Socks /\ a.fd \in Fds
  BY DEF HeldData
<1>6. AfterAccept \in Seq(Steps)
  BY <1>3, ShapeFacts
<1>7. StepsInv' /\ todo'["acceptor"] = AfterAccept
  BY <1>2, <1>6, AcceptorGoesOn DEF NoSession
<1>8. AcceptorInv'
  BY <1>7 DEF AcceptorInv
<1>9. PoolsInv'
  BY <1>1, <1>4, <1>5, PoolFacts DEF PoolsInv
<1>10. KernelInv'
  BY <1>1, <1>2, <1>4, <1>5, Closing DEF NoSession
<1>11. DataInv'
  BY <1>1, <1>2, <1>9, <1>10, ConnKept, SockKept, HistoryKept DEF NoSession, DataInv
<1> QED BY <1>7, <1>8, <1>11

\* The socket gets its connection, so it is linked.
LEMMA SetConnectionStep ==
  ASSUME StepsInv, AcceptorInv, DataInv, SetConnection
  PROVE  StepsInv' /\ AcceptorInv' /\ DataInv'
<1>1. ConnInv /\ SockInv /\ PoolsInv /\ KernelInv /\ HistoryInv
  BY DEF DataInv
<1>2. /\ UNCHANGED <<conn, eventQueue, epEvent, sessConn, pools, kernel, heard>>
      /\ At("acceptor", "setconn") /\ Continue("acceptor", <<>>)
      /\ sock' = [sock EXCEPT ![Held.sock].conn = Held.conn]
  BY DEF SetConnection, Assign
<1>3. PICK a \in HeldData :
        /\ Held = a
        /\ \A n : n = FromSetSock(a) /\ Linked \subseteq Linked' /\ Continue("acceptor", <<>>)
                    => StepsInv' /\ todo'["acceptor"] = n
  BY <1>2, HeldAt
<1>4. a.sock \in Socks /\ a.conn \in Conns
  BY DEF HeldData
<1>5. /\ sock' \in [Socks -> [nSocket : Fds, conn : Conns \cup {NULL}, mark : EpollThreads]]
      /\ \A x \in Socks : sock'[x].mark = sock[x].mark
      /\ \A x \in Socks : sock'[x].conn = IF x = a.sock THEN a.conn ELSE sock[x].conn
  BY <1>1, <1>2, <1>3, <1>4 DEF SockInv
<1>6. Linked \subseteq Linked' /\ a.sock \in Linked'
  BY <1>4, <1>5 DEF Linked
<1>7. LinksKept /\ EventsKept
  BY <1>2, <1>5, <1>6 DEF LinksKept, EventsKept
<1>8. StepsInv' /\ todo'["acceptor"] = FromSetSock(a)
  BY <1>2, <1>3, <1>6
<1>9. AcceptorInv'
  <2>1. Serving(a)'
    BY <1>6, <1>8 DEF Serving
  <2> QED BY <2>1 DEF AcceptorInv
<1>10. SockInv'
  <2>1. epEvent' \in [EpollThreads -> Linked' \cup {NULL, NoThread}]
    BY <1>1, <1>2, <1>6 DEF SockInv
  <2> QED BY <1>1, <1>2, <1>5, <2>1 DEF SockInv
<1>11. DataInv'
  BY <1>1, <1>2, <1>6, <1>7, <1>10, ConnKept, KernelKept, HistoryKept
     DEF pools, kernel, PoolsInv, DataInv
<1> QED BY <1>8, <1>9, <1>11

\* And its descriptor.
LEMMA SetSockStep ==
  ASSUME StepsInv, AcceptorInv, DataInv, SetSock
  PROVE  StepsInv' /\ AcceptorInv' /\ DataInv'
<1>1. ConnInv /\ SockInv /\ PoolsInv /\ KernelInv /\ HistoryInv
  BY DEF DataInv
<1>2. /\ UNCHANGED <<conn, eventQueue, epEvent, sessConn, pools, kernel, heard>>
      /\ At("acceptor", "setsock") /\ Continue("acceptor", <<>>)
      /\ sock' = [sock EXCEPT ![Held.sock].nSocket = Held.fd]
  BY DEF SetSock, Assign
<1>3. PICK a \in HeldData :
        /\ Held = a /\ a.sock \in Linked
        /\ \A n : n = FromSetSocket(a) /\ Linked \subseteq Linked' /\ Continue("acceptor", <<>>)
                    => StepsInv' /\ todo'["acceptor"] = n
  BY <1>2, HeldAt
<1>4. a.sock \in Socks /\ a.fd \in Fds
  BY DEF HeldData
<1>5. /\ sock' \in [Socks -> [nSocket : Fds, conn : Conns \cup {NULL}, mark : EpollThreads]]
      /\ \A x \in Socks : sock'[x].mark = sock[x].mark /\ sock'[x].conn = sock[x].conn
  BY <1>1, <1>2, <1>3, <1>4 DEF SockInv
<1>6. Linked' = Linked /\ LinksKept /\ EventsKept
  BY <1>2, <1>5 DEF Linked, LinksKept, EventsKept
<1>7. StepsInv' /\ todo'["acceptor"] = FromSetSocket(a)
  BY <1>2, <1>3, <1>6
<1>8. AcceptorInv'
  <2>1. Serving(a)'
    BY <1>3, <1>6, <1>7 DEF Serving
  <2> QED BY <2>1 DEF AcceptorInv
<1>9. SockInv'
  BY <1>1, <1>2, <1>5, <1>6 DEF SockInv
<1>10. DataInv'
  BY <1>1, <1>2, <1>6, <1>9, ConnKept, KernelKept, HistoryKept DEF pools, kernel, PoolsInv, DataInv
<1> QED BY <1>7, <1>8, <1>10

\* And the connection gets its socket, which is linked.
LEMMA SetSocketStep ==
  ASSUME StepsInv, AcceptorInv, DataInv, SetSocket
  PROVE  StepsInv' /\ AcceptorInv' /\ DataInv'
<1>1. ConnInv /\ SockInv /\ PoolsInv /\ KernelInv /\ HistoryInv
  BY DEF DataInv
<1>2. /\ UNCHANGED <<eventQueue, sock, epEvent, sessConn, pools, kernel, heard>>
      /\ At("acceptor", "setsocket") /\ Continue("acceptor", <<>>)
      /\ conn' = [conn EXCEPT ![Held.conn].poSocket = Held.sock]
  BY DEF SetSocket, Assign
<1>3. LinksKept /\ EventsKept /\ Linked \subseteq Linked' /\ Linked' = Linked
  BY <1>2, LinksSame DEF LinksKept, EventsKept
<1>4. PICK a \in HeldData :
        /\ Held = a /\ a.sock \in Linked
        /\ \A n : n = Announcing("check", a) => StepsInv' /\ todo'["acceptor"] = n
  BY <1>2, <1>3, HeldAt
<1>5. StepsInv' /\ todo'["acceptor"] = Announcing("check", a)
  BY <1>4
<1>6. AcceptorInv'
  <2>1. Serving(a)'
    BY <1>3, <1>4, <1>5 DEF Serving, PushOps
  <2> QED BY <2>1 DEF AcceptorInv
<1>7. a.conn \in Conns
  BY DEF HeldData
<1>8. conn[a.conn] \in ConnData /\ Len(conn[a.conn].eventNet) < NetEventPerSock
  BY <1>1, <1>7 DEF ConnInv, ConnData
<1>9. PICK r : r = [conn[a.conn] EXCEPT !.poSocket = a.sock]
  OBVIOUS
<1>10. r \in ConnData /\ r.eventNet = conn[a.conn].eventNet
  BY <1>4, <1>8, <1>9 DEF ConnData
<1>11. conn' = [conn EXCEPT ![a.conn] = r]
  BY <1>2, <1>4, <1>9
<1>12. ConnInv'
  BY <1>1, <1>2, <1>3, <1>7, <1>8, <1>10, <1>11, ConnChanges
<1>13. DataInv'
  BY <1>1, <1>2, <1>3, <1>12, SockKept, KernelKept, HistoryKept DEF pools, kernel, PoolsInv, DataInv
<1> QED BY <1>5, <1>6, <1>13

\* The descriptor is registered with what m_epEvent of the thread points to, a linked socket.
LEMMA RegisterStep ==
  ASSUME StepsInv, AcceptorInv, DataInv, Register
  PROVE  StepsInv' /\ AcceptorInv' /\ DataInv'
<1>1. ConnInv /\ SockInv /\ PoolsInv /\ KernelInv /\ HistoryInv
  BY DEF DataInv
<1>2. At("acceptor", "register") /\ Continue("acceptor", <<>>)
      /\ UNCHANGED <<conn, eventQueue, sock, epEvent, sessConn, pools, peer, backlog, accepted,
                     traffic, heard>>
  BY DEF Register
<1>3. LinksKept /\ EventsKept /\ Linked \subseteq Linked' /\ Linked' = Linked
  BY <1>2, LinksSame DEF LinksKept, EventsKept
<1>4. PICK a \in HeldData : ServingStep(a)
  BY <1>2, AcceptorAt
<1>5. /\ epEvent[sock[a.sock].mark] \in Linked
      /\ Is(Step("register", a.sock), AfterAccept)
  BY <1>2, <1>4, ServingAt
<1>6. Of("acceptor") = a.sock /\ Tail(todo["acceptor"]) = AfterAccept
  BY <1>5 DEF Is, Of, Step
<1>7. StepsInv' /\ todo'["acceptor"] = AfterAccept
  <2>1. AfterAccept \in Seq(Steps) /\ <<>> \in Seq(Steps)
    BY ShapeFacts
  <2>2. AfterAccept = <<>> \o AfterAccept
    BY <2>1
  <2> QED BY <1>2, <1>3, <1>6, <2>1, <2>2, AcceptorContinues
<1>8. AcceptorInv'
  BY <1>7 DEF AcceptorInv
<1>9. KernelInv'
  <2>1. PICK f \in Fds : f = sock[a.sock].nSocket
    BY <1>1 DEF SockInv, HeldData
  <2>2. PICK u \in EpollThreads : u = sock[a.sock].mark
    BY <1>1 DEF SockInv, HeldData
  <2>3. PICK w : w = [thread |-> u, sock |-> epEvent[u]]
    OBVIOUS
  <2>4. watched' = watched \/ watched' = [watched EXCEPT ![f] = w]
    BY <1>6, <2>1, <2>2, <2>3 DEF Register
  <2>5. w \in [thread : EpollThreads, sock : Linked'] /\ w.thread = u /\ epEvent'[u] \in Linked'
    BY <1>2, <1>3, <1>5, <2>2, <2>3
  <2>6. CASE watched' = watched
    BY <1>1, <1>2, <1>3, <2>6, KernelKept
  <2>7. CASE watched' = [watched EXCEPT ![f] = w]
    BY <1>1, <1>2, <1>3, <2>5, <2>7, Watches
  <2> QED BY <2>4, <2>6, <2>7
<1>10. DataInv'
  BY <1>1, <1>2, <1>3, <1>9, ConnKept, SockKept, HistoryKept DEF pools, PoolsInv, DataInv
<1> QED BY <1>7, <1>8, <1>10

--------------------------------------------------------------------------------
(* The epoll threads and the main thread                                    *)

\* The two are not the accept loop.
LEMMA OtherThreads ==
  /\ EpollThreads \subseteq Threads \ {"acceptor", "main"}
  /\ "main" \in Threads \ {"acceptor"} /\ "main" \notin EpollThreads
BY NetAssumption DEF Threads

\* Traffic is counted up to its bound.
LEMMA ArrivesFacts ==
  ASSUME HistoryInv, NEW k, Arrives(k)
  PROVE  traffic' \in [Clients -> 0 .. Traffic]
<1>1. k \in Clients /\ traffic[k] \in 0 .. Traffic /\ traffic[k] < Traffic /\ Traffic \in Nat
  BY NetAssumption DEF Arrives, HistoryInv
<1>2. traffic[k] + 1 \in 0 .. Traffic
  BY <1>1
<1>3. traffic' = [traffic EXCEPT ![k] = traffic[k] + 1]
  BY DEF Arrives
<1> QED BY <1>1, <1>2, <1>3 DEF HistoryInv

\* A turn of the read loop leaves a thread with good steps and changes nothing else.
LEMMA TurnStep ==
  ASSUME StepsInv, AcceptorInv, DataInv, NEW t \in EpollThreads, NEW s \in Seq(GoodSteps), Turn(t, s),
         traffic' \in [Clients -> 0 .. Traffic]
  PROVE  StepsInv' /\ AcceptorInv' /\ DataInv'
<1>1. ConnInv /\ SockInv /\ PoolsInv /\ KernelInv /\ HistoryInv
  BY DEF DataInv
<1>2. todo[t] # <<>> /\ Continue(t, s)
      /\ UNCHANGED <<conn, eventQueue, sock, epEvent, sessConn, pools, peer, watched, backlog, accepted,
                     heard>>
  BY DEF Turn, At
<1>3. LinksKept /\ EventsKept /\ Linked \subseteq Linked'
  BY <1>2, LinksSame DEF LinksKept, EventsKept
<1>4. StepsInv' /\ AcceptorInv'
  BY <1>1, <1>2, <1>3, OtherThreads, ThreadGoesOn
<1>5. HistoryInv'
  BY <1>1, <1>2 DEF HistoryInv
<1>6. DataInv'
  BY <1>1, <1>2, <1>3, <1>5, ConnKept, SockKept, KernelKept DEF pools, PoolsInv, DataInv
<1> QED BY <1>4, <1>6

\* The read and write loops.
LEMMA TurnSteps ==
  ASSUME StepsInv, AcceptorInv, DataInv, NEW t \in EpollThreads,
         ReadPacket(t) \/ ReadBadPacket(t) \/ SocketError(t) \/ PeerCloses(t) \/ WriteLoop(t)
           \/ ReadNothing(t)
  PROVE  StepsInv' /\ AcceptorInv' /\ DataInv'
<1>1. HistoryInv /\ SockInv /\ t \in Threads \ {"acceptor"}
  BY OtherThreads DEF DataInv
<1>2. At(t, "read")
  BY DEF ReadPacket, ReadBadPacket, SocketError, PeerCloses, WriteLoop, ReadNothing, Turn, Fails
<1>3. Of(t) \in [sock : Linked, fd : Fds]
  BY <1>1, <1>2, OfFacts DEF At, ReadOps
<1>4. Reading(t) \in Conns
  BY <1>3 DEF Reading, Linked
<1>5. <<Head(todo[t])>> \in Seq(GoodSteps)
  <2>1. todo[t] \in Seq(GoodSteps) /\ todo[t] # <<>>
    BY <1>1, <1>2 DEF StepsInv, At
  <2>2. Head(todo[t]) \in GoodSteps
    BY <2>1, HeadTailProperties
  <2> QED BY <2>2, GoodSequences
<1>6. traffic \in [Clients -> 0 .. Traffic]
  BY <1>1 DEF HistoryInv
<1>7. Fails(t) => traffic' \in [Clients -> 0 .. Traffic]
  BY <1>1, <1>6, ArrivesFacts DEF Fails
<1>8. CASE ReadPacket(t)
  <2>1. PushEvent(Reading(t), "RECV") \o <<Head(todo[t])>> \in Seq(GoodSteps)
    BY <1>4, <1>5, GoodSequences DEF ENetEvtType
  <2> QED BY <1>1, <1>8, <2>1, ArrivesFacts, TurnStep DEF ReadPacket
<1>9. CASE ReadBadPacket(t)
  <2>1. PacketError(Reading(t)) \o <<Head(todo[t])>> \in Seq(GoodSteps)
    BY <1>4, <1>5, GoodSequences DEF ENetEvtType, PacketError
  <2> QED BY <1>1, <1>9, <2>1, ArrivesFacts, TurnStep DEF ReadBadPacket
<1>10. CASE SocketError(t)
  <2>1. PushEvent(Reading(t), "ERROR") \in Seq(GoodSteps)
    BY <1>4, GoodSequences DEF ENetEvtType
  <2> QED BY <1>7, <1>10, <2>1, TurnStep DEF SocketError
<1>11. CASE PeerCloses(t)
  <2>1. SocketClose(Of(t).sock) \in Seq(GoodSteps)
    BY <1>3, GoodSequences
  <2> QED BY <1>6, <1>11, <2>1, TurnStep DEF PeerCloses
<1>12. CASE WriteLoop(t)
  <2>1. PICK r : r = Of(t)
    OBVIOUS
  <2>2. Step("rearm", r) \in GoodSteps
    BY <1>3, <2>1 DEF GoodSteps, Step, ReadOps
  <2>3. <<Step("rearm", r)>> \in Seq(GoodSteps)
    BY <2>2, GoodSequences
  <2>4. PushEvent(Reading(t), "ERROR") \o <<Step("rearm", r)>> \in Seq(GoodSteps)
    BY <1>4, <2>3, GoodSequences DEF ENetEvtType
  <2>5. CASE Turn(t, <<Step("rearm", r)>>) /\ UNCHANGED traffic
    BY <1>6, <2>3, <2>5, TurnStep
  <2>6. CASE Fails(t) /\ Turn(t, PushEvent(Reading(t), "ERROR") \o <<Step("rearm", r)>>)
    BY <1>7, <2>4, <2>6, TurnStep
  <2> QED BY <1>12, <2>1, <2>5, <2>6 DEF WriteLoop
<1>13. CASE ReadNothing(t)
  BY <1>6, <1>13, GoodSequences, TurnStep DEF ReadNothing
<1> QED BY <1>8, <1>9, <1>10, <1>11, <1>12, <1>13

\* The thread is told of a socket and asks for its descriptor.
LEMMA ReportSteps ==
  ASSUME StepsInv, AcceptorInv, DataInv, NEW t \in EpollThreads, Report(t) \/ GetSock(t)
  PROVE  StepsInv' /\ AcceptorInv' /\ DataInv'
<1>1. ConnInv /\ SockInv /\ PoolsInv /\ KernelInv /\ HistoryInv /\ t \in Threads \ {"acceptor"}
  BY OtherThreads DEF DataInv
<1>2. UNCHANGED <<conn, eventQueue, sock, epEvent, sessConn, pools, kernel, heard>>
  BY DEF Report, GetSock
<1>3. LinksKept /\ EventsKept /\ Linked \subseteq Linked'
  BY <1>2, LinksSame DEF LinksKept, EventsKept
<1>4. DataInv'
  BY <1>1, <1>2, <1>3, ConnKept, SockKept, KernelKept, HistoryKept DEF pools, kernel, PoolsInv, DataInv
<1>5. CASE Report(t)
  <2>1. PICK f \in Fds : /\ watched[f].thread = t
                         /\ todo' = [todo EXCEPT ![t] = <<Step("event", watched[f].sock)>>]
    BY <1>5 DEF Report
  <2>2. watched[f].sock \in Linked
    BY <1>1, <2>1, NetAssumption DEF KernelInv, NoWatch
  <2>3. Step("event", watched[f].sock) \in GoodSteps
    BY <2>2, GoodStepsMade DEF SockOps
  <2> QED BY <1>1, <1>3, <1>4, <2>1, <2>3, ThreadBegins
<1>6. CASE GetSock(t)
  <2>1. Of(t) \in Linked /\ todo[t] # <<>>
    BY <1>1, <1>6, OfFacts DEF GetSock, At, SockOps
  <2>2. sock[Of(t)].nSocket \in Fds
    BY <1>1, <2>1 DEF SockInv, Linked
  <2>3. Step("read", [sock |-> Of(t), fd |-> sock[Of(t)].nSocket]) \in GoodSteps
    BY <2>1, <2>2, GoodStepsMade DEF ReadOps
  <2>4. <<Step("read", [sock |-> Of(t), fd |-> sock[Of(t)].nSocket])>> \in Seq(GoodSteps)
    BY <2>3, GoodSequences
  <2>5. Continue(t, <<Step("read", [sock |-> Of(t), fd |-> sock[Of(t)].nSocket])>>)
    BY <1>6 DEF GetSock
  <2> QED BY <1>1, <1>3, <1>4, <2>1, <2>4, <2>5, ThreadGoesOn
<1> QED BY <1>5, <1>6

\* The registration is changed back.
LEMMA RearmStep ==
  ASSUME StepsInv, AcceptorInv, DataInv, NEW t \in EpollThreads, Rearm(t)
  PROVE  StepsInv' /\ AcceptorInv' /\ DataInv'
<1>1. ConnInv /\ SockInv /\ PoolsInv /\ KernelInv /\ HistoryInv /\ t \in Threads \ {"acceptor"}
  BY OtherThreads DEF DataInv
<1>2. /\ UNCHANGED <<conn, eventQueue, sock, epEvent, sessConn, pools, peer, backlog, accepted, traffic,
                     heard>>
      /\ At(t, "rearm") /\ todo[t] # <<>> /\ Continue(t, <<>>)
  BY DEF Rearm, At
<1>3. LinksKept /\ EventsKept /\ Linked \subseteq Linked'
  BY <1>2, LinksSame DEF LinksKept, EventsKept
<1>4. PICK f \in Fds, x \in Linked : f = Of(t).fd /\ x = Of(t).sock
  BY <1>1, <1>2, OfFacts DEF At, ReadOps
<1>5. StepsInv' /\ AcceptorInv'
  BY <1>1, <1>2, <1>3, GoodSequences, ThreadGoesOn
<1>6. KernelInv'
  <2>1. CASE watched[f].thread = t
    <3>1. watched[f] \in [thread : EpollThreads, sock : Linked] /\ epEvent[t] \in Linked
      BY <1>1, <2>1, NetAssumption DEF KernelInv, NoWatch
    <3>2. PICK w : w = [watched[f] EXCEPT !.sock = x]
      OBVIOUS
    <3>3. w \in [thread : EpollThreads, sock : Linked'] /\ w.thread = t
      BY <1>3, <2>1, <3>1, <3>2
    <3>4. epEvent'[t] \in Linked'
      BY <1>3, <3>1 DEF EventsKept
    <3>5. watched' = [watched EXCEPT ![f] = w]
      BY <1>4, <2>1, <3>2 DEF Rearm
    <3> QED BY <1>1, <1>2, <1>3, <3>3, <3>4, <3>5, Watches
  <2>2. CASE watched[f].thread # t
    <3>1. watched' = watched
      BY <1>4, <2>2 DEF Rearm
    <3> QED BY <1>1, <1>2, <1>3, <3>1, KernelKept
  <2> QED BY <2>1, <2>2
<1>7. DataInv'
  BY <1>1, <1>2, <1>3, <1>6, ConnKept, SockKept, HistoryKept DEF pools, PoolsInv, DataInv
<1> QED BY <1>5, <1>7

\* A client comes.
LEMMA ClientStep ==
  ASSUME StepsInv, AcceptorInv, DataInv, ClientConnects
  PROVE  StepsInv' /\ AcceptorInv' /\ DataInv'
<1>1. ConnInv /\ SockInv /\ PoolsInv /\ KernelInv /\ HistoryInv
  BY DEF DataInv
<1>2. /\ UNCHANGED <<todo, conn, eventQueue, sock, epEvent, sessConn, pools, peer, watched, accepted,
                     traffic, heard>>
      /\ backlog' = [clients |-> backlog.clients + 1, edge |-> TRUE, refused |-> FALSE]
      /\ accepted + backlog.clients < MaxAccepts
  BY DEF ClientConnects
<1>3. LinksKept /\ EventsKept /\ Linked \subseteq Linked' /\ Linked' = Linked
  BY <1>2, LinksSame DEF LinksKept, EventsKept
<1>4. StepsInv'
  BY <1>2, <1>3 DEF StepsInv, GoodSteps
<1>5. AcceptorInv'
  BY <1>1, <1>2, <1>3, AcceptorKept
<1>6. KernelInv'
  <2>1. /\ backlog' \in [clients : Nat, edge : BOOLEAN, refused : BOOLEAN]
        /\ accepted' + backlog'.clients <= MaxAccepts
    BY <1>1, <1>2, NetAssumption DEF KernelInv
  <2> QED BY <1>1, <1>2, <1>3, <2>1 DEF KernelInv
<1>7. DataInv'
  BY <1>1, <1>2, <1>3, <1>6, ConnKept, SockKept, HistoryKept DEF pools, PoolsInv, DataInv
<1> QED BY <1>4, <1>5, <1>7

\* Run takes a token.
LEMMA PopStep ==
  ASSUME StepsInv, AcceptorInv, DataInv, PopToken
  PROVE  StepsInv' /\ AcceptorInv' /\ DataInv'
<1>1. ConnInv /\ SockInv /\ PoolsInv /\ KernelInv /\ HistoryInv
  BY DEF DataInv
<1>2. /\ UNCHANGED <<conn, sock, epEvent, sessConn, pools, kernel, heard>>
      /\ todo' = [todo EXCEPT !["main"] = <<Step("proc", Head(eventQueue))>>]
      /\ eventQueue # <<>> /\ eventQueue' = Tail(eventQueue)
  BY DEF PopToken
<1>3. LinksKept /\ EventsKept /\ Linked \subseteq Linked' /\ Linked' = Linked
  BY <1>2, LinksSame DEF LinksKept, EventsKept
<1>4. /\ eventQueue \in Seq(Conns) /\ Head(eventQueue) \in Conns
      /\ Tail(eventQueue) \in Seq(Conns) /\ Len(Tail(eventQueue)) = Len(eventQueue) - 1
      /\ Len(eventQueue) < TotalEventCount
  BY <1>1, <1>2, HeadTailProperties DEF ConnInv
<1>5. Len(eventQueue) \in Nat /\ TotalEventCount \in Nat
  BY <1>4, LenProperties, NetAssumption
<1>6. Len(eventQueue') < TotalEventCount
  BY <1>2, <1>4, <1>5
<1>7. ConnInv'
  BY <1>1, <1>2, <1>3, <1>4, <1>6 DEF ConnInv
<1>8. Step("proc", Head(eventQueue)) \in GoodSteps
  BY <1>4, GoodStepsMade DEF ConnOps
<1>9. StepsInv' /\ AcceptorInv'
  BY <1>1, <1>2, <1>3, <1>8, OtherThreads, ThreadBegins
<1>10. DataInv'
  BY <1>1, <1>2, <1>3, <1>7, SockKept, KernelKept, HistoryKept DEF pools, kernel, PoolsInv, DataInv
<1> QED BY <1>9, <1>10

\* ProcEvent finds nothing.
LEMMA ProcNothingStep ==
  ASSUME StepsInv, AcceptorInv, DataInv, ProcNothing
  PROVE  StepsInv' /\ AcceptorInv' /\ DataInv'
<1>1. ConnInv /\ SockInv /\ PoolsInv /\ KernelInv /\ HistoryInv
  BY DEF DataInv
<1>2. /\ UNCHANGED <<conn, eventQueue, sock, epEvent, sessConn, pools, kernel, heard>>
      /\ todo["main"] # <<>> /\ Continue("main", <<>>)
  BY DEF ProcNothing, At
<1>3. LinksKept /\ EventsKept /\ Linked \subseteq Linked'
  BY <1>2, LinksSame DEF LinksKept, EventsKept
<1>4. StepsInv' /\ AcceptorInv'
  BY <1>1, <1>2, <1>3, OtherThreads, GoodSequences, ThreadGoesOn
<1>5. DataInv'
  BY <1>1, <1>2, <1>3, ConnKept, SockKept, KernelKept, HistoryKept DEF pools, kernel, PoolsInv, DataInv
<1> QED BY <1>4, <1>5

\* What a callback does is good.
LEMMA AppStepsAreGood ==
  ASSUME SockInv, NEW k \in Clients
  PROVE  AppSteps(k) \subseteq Seq(GoodSteps)
<1>1. sessConn[k] \in Conns \cup {NULL}
  BY DEF SockInv
<1>2. /\ \A c \in {sessConn[k]} \ {NULL} : c \in Conns
      /\ \A c \in Conns : ConnClose(c) \in Seq(GoodSteps) /\ ConnSend(c) \in Seq(GoodSteps)
      /\ <<>> \in Seq(GoodSteps)
  BY <1>1, GoodSequences
<1> QED BY <1>2 DEF AppSteps

\* An event less is in the queue, or what Init left of it.
LEMMA PopKeepsConn ==
  ASSUME ConnInv, Linked \subseteq Linked', NEW c \in Conns, conn[c].eventNet # <<>>,
         \E q \in Stored(c, Tail(conn[c].eventNet)) : conn' = [conn EXCEPT ![c].eventNet = q],
         eventQueue' = eventQueue
  PROVE  ConnInv'
<1>1. conn[c] \in ConnData /\ Len(conn[c].eventNet) < NetEventPerSock
  BY DEF ConnInv, ConnData
<1>2. PICK p : p = Tail(conn[c].eventNet)
  OBVIOUS
<1>3. PICK q \in Stored(c, p) : conn' = [conn EXCEPT ![c].eventNet = q]
  BY <1>2
<1>4. /\ conn[c].eventNet \in Seq(ENetEvtType) /\ p \in Seq(ENetEvtType)
      /\ Len(p) = Len(conn[c].eventNet) - 1
  BY <1>1, <1>2, HeadTailProperties DEF ConnData
<1>5. Len(conn[c].eventNet) \in Nat /\ NetEventPerSock \in Nat
  BY <1>4, LenProperties, NetAssumption
<1>6. Len(p) < NetEventPerSock
  BY <1>1, <1>4, <1>5
<1>7. q \in Seq(ENetEvtType) /\ Len(q) < NetEventPerSock
  BY <1>3, <1>4, <1>6, StoredFits
<1>8. PICK r : r = [conn[c] EXCEPT !.eventNet = q]
  OBVIOUS
<1>9. r \in ConnData /\ r.eventNet = q
  BY <1>1, <1>7, <1>8 DEF ConnData
<1>10. conn' = [conn EXCEPT ![c] = r]
  BY <1>3, <1>8
<1> QED BY <1>7, <1>9, <1>10, ConnChanges

\* ProcEvent takes an event of no type and forgets it.
LEMMA ProcInvalidStep ==
  ASSUME StepsInv, AcceptorInv, DataInv, ProcInvalid
  PROVE  StepsInv' /\ AcceptorInv' /\ DataInv'
<1>1. ConnInv /\ SockInv /\ PoolsInv /\ KernelInv /\ HistoryInv
  BY DEF DataInv
<1>2. /\ UNCHANGED <<eventQueue, sock, epEvent, sessConn, pools, kernel, heard>>
      /\ At("main", "proc") /\ todo["main"] # <<>> /\ Continue("main", <<>>)
  BY DEF ProcInvalid, PopEvent, At
<1>3. LinksKept /\ EventsKept /\ Linked \subseteq Linked'
  BY <1>2, LinksSame DEF LinksKept, EventsKept
<1>4. PICK c \in Conns : c = Of("main")
  BY <1>2, OtherThreads, OfFacts DEF At, ConnOps
<1>5. /\ conn[c].eventNet # <<>>
      /\ \E q \in Stored(c, Tail(conn[c].eventNet)) : conn' = [conn EXCEPT ![c].eventNet = q]
  BY <1>4 DEF ProcInvalid, PopEvent
<1>6. StepsInv' /\ AcceptorInv'
  BY <1>1, <1>2, <1>3, OtherThreads, GoodSequences, ThreadGoesOn
<1>7. ConnInv'
  BY <1>1, <1>2, <1>3, <1>5, PopKeepsConn
<1>8. DataInv'
  BY <1>1, <1>2, <1>3, <1>7, SockKept, KernelKept, HistoryKept DEF pools, kernel, PoolsInv, DataInv
<1> QED BY <1>6, <1>8

\* ProcEvent takes an event, which its session hears.
LEMMA ProcStep ==
  ASSUME StepsInv, AcceptorInv, DataInv, NEW e \in ENetEvtType, NEW found \in Seq(GoodSteps),
         e = "CLOSE" => found # <<>>, Proc(e, found), traffic' \in [Clients -> 0 .. Traffic]
  PROVE  StepsInv' /\ AcceptorInv' /\ DataInv'
<1>1. ConnInv /\ SockInv /\ PoolsInv /\ KernelInv /\ HistoryInv
  BY DEF DataInv
<1>2. UNCHANGED <<eventQueue, sock, epEvent, sessConn, pools, peer, watched, backlog, accepted>>
      /\ At("main", "proc") /\ todo["main"] # <<>>
  BY DEF Proc, PopEvent, At
<1>3. LinksKept /\ EventsKept /\ Linked \subseteq Linked'
  BY <1>2, LinksSame DEF LinksKept, EventsKept
<1>4. PICK c \in Conns : c = Of("main")
  BY <1>2, OtherThreads, OfFacts DEF At, ConnOps
<1>5. PICK k : k = conn[c].session
  OBVIOUS
<1>6. conn[c] \in ConnData /\ Len(conn[c].eventNet) < NetEventPerSock /\ k \in Clients \cup {NULL}
  BY <1>1, <1>5 DEF ConnInv, ConnData
<1>7. /\ conn[c].eventNet # <<>>
      /\ \E q \in Stored(c, Tail(conn[c].eventNet)) : conn' = [conn EXCEPT ![c].eventNet = q]
      /\ \/ /\ k # NULL
            /\ heard' = [heard EXCEPT ![k] = @ \cup {e}]
            /\ \E app \in AppSteps(k) : Continue("main", app \o found)
         \/ /\ UNCHANGED heard
            /\ \/ e = "CLOSE" /\ Continue("main", Tail(found))
               \/ Crash("main")
  BY <1>4, <1>5, Zenon DEF Proc, PopEvent
<1>8. ConnInv'
  BY <1>1, <1>2, <1>3, <1>7, PopKeepsConn
<1>9. StepsInv' /\ AcceptorInv'
  <2>1. \E s \in Seq(GoodSteps) : Continue("main", s)
    <3>1. ASSUME k # NULL, NEW app \in AppSteps(k), Continue("main", app \o found)
          PROVE  \E s \in Seq(GoodSteps) : Continue("main", s)
      <4>1. app \in Seq(GoodSteps)
        BY <1>1, <1>6, <3>1, AppStepsAreGood
      <4>2. app \o found \in Seq(GoodSteps)
        BY <4>1, GoodSequences
      <4> QED BY <3>1, <4>2
    <3>2. ASSUME e = "CLOSE", Continue("main", Tail(found))
          PROVE  \E s \in Seq(GoodSteps) : Continue("main", s)
      <4>1. Tail(found) \in Seq(GoodSteps)
        BY <3>2, HeadTailProperties
      <4> QED BY <3>2, <4>1
    <3>3. Crash("main") => \E s \in Seq(GoodSteps) : Continue("main", s)
      BY OtherThreads, CrashIsGood
    <3> QED BY <1>7, <3>1, <3>2, <3>3
  <2> QED BY <1>1, <1>2, <1>3, <2>1, OtherThreads, ThreadGoesOn
<1>10. HistoryInv'
  <2>1. heard \in [Clients -> SUBSET ENetEvtType]
    BY <1>1 DEF HistoryInv
  <2>2. heard' \in [Clients -> SUBSET ENetEvtType]
    BY <1>7, <2>1
  <2> QED BY <2>2 DEF HistoryInv
<1>11. DataInv'
  BY <1>1, <1>2, <1>3, <1>8, <1>10, SockKept, KernelKept DEF pools, PoolsInv, DataInv
<1> QED BY <1>9, <1>11

\* The events of the main thread.
LEMMA ProcSteps ==
  ASSUME StepsInv, AcceptorInv, DataInv,
         ProcInvalid \/ ProcConnected \/ ProcError \/ ProcRecv \/ ProcClose
  PROVE  StepsInv' /\ AcceptorInv' /\ DataInv'
<1>1. {"CONNECTED", "ERROR", "RECV", "CLOSE"} \subseteq ENetEvtType /\ <<>> \in Seq(GoodSteps)
  BY GoodSequences DEF ENetEvtType
<1>2. HistoryInv /\ traffic \in [Clients -> 0 .. Traffic]
  BY DEF DataInv, HistoryInv
<1>8. CASE ProcInvalid
  BY <1>8, ProcInvalidStep
<1>3. Of("main") \in Conns
  <2>1. At("main", "proc")
    BY DEF ProcInvalid, ProcConnected, ProcError, ProcRecv, ProcClose, Proc, PopEvent
  <2> QED BY <2>1, OtherThreads, OfFacts DEF At, ConnOps
<1>4. CASE ProcConnected
  BY <1>1, <1>2, <1>4, ProcStep DEF ProcConnected
<1>5. CASE ProcError
  BY <1>1, <1>2, <1>5, ProcStep DEF ProcError
<1>6. CASE ProcRecv
  <2>1. PushEvent(Of("main"), "RECV") \in Seq(GoodSteps) /\ PacketError(Of("main")) \in Seq(GoodSteps)
    BY <1>1, <1>3, GoodSequences DEF PacketError
  <2>2. CASE Proc("RECV", <<>>) /\ UNCHANGED traffic
    BY <1>1, <1>2, <2>2, ProcStep
  <2>3. CASE /\ Arrives(conn[Of("main")].session)
             /\ Proc("RECV", PushEvent(Of("main"), "RECV")) \/ Proc("RECV", PacketError(Of("main")))
    <3>1. traffic' \in [Clients -> 0 .. Traffic]
      BY <1>2, <2>3, ArrivesFacts
    <3> QED BY <1>1, <2>1, <2>3, <3>1, ProcStep
  <2> QED BY <1>6, <2>2, <2>3 DEF ProcRecv
<1>7. CASE ProcClose
  <2>1. PICK c \in Conns : c = Of("main")
    BY <1>3
  <2>2. Step("unlink", c) \in GoodSteps /\ Step("release", c) \in GoodSteps
    BY GoodStepsMade DEF ConnOps
  <2>3. <<Step("unlink", c), Step("release", c)>> \in Seq(GoodSteps)
        /\ <<Step("unlink", c), Step("release", c)>> # <<>>
    BY <2>2
  <2> QED BY <1>1, <1>2, <1>7, <2>1, <2>3, ProcStep DEF ProcClose
<1> QED BY <1>4, <1>5, <1>6, <1>7, <1>8

\* _ProcClose lets go of the session and of the connection.
LEMMA CloseSteps ==
  ASSUME StepsInv, AcceptorInv, DataInv, Unlink \/ ReleaseHeard
  PROVE  StepsInv' /\ AcceptorInv' /\ DataInv'
<1>1. ConnInv /\ SockInv /\ PoolsInv /\ KernelInv /\ HistoryInv
  BY DEF DataInv
<1>2. UNCHANGED <<conn, eventQueue, sock, epEvent, sockPool, kernel, heard>> /\ todo["main"] # <<>>
  BY DEF Unlink, ReleaseHeard, At, pools
<1>3. LinksKept /\ EventsKept /\ Linked \subseteq Linked' /\ Linked' = Linked
  BY <1>2, LinksSame DEF LinksKept, EventsKept
<1>4. PICK c \in Conns : c = Of("main")
  <2>1. At("main", "unlink") \/ At("main", "release")
    BY DEF Unlink, ReleaseHeard
  <2> QED BY <2>1, OtherThreads, OfFacts DEF At, ConnOps
<1>5. StepsInv' /\ AcceptorInv'
  <2>1. \E s \in Seq(GoodSteps) : Continue("main", s)
    <3>1. Crash("main") => \E s \in Seq(GoodSteps) : Continue("main", s)
      BY OtherThreads, CrashIsGood
    <3>2. Crash("main") \/ Continue("main", <<>>)
      BY DEF Unlink, ReleaseHeard
    <3> QED BY <3>1, <3>2, GoodSequences
  <2> QED BY <1>1, <1>2, <1>3, <2>1, OtherThreads, ThreadGoesOn
<1>6. SockInv' /\ PoolsInv'
  <2>1. CASE Unlink
    <3>1. sessConn' \in [Clients -> Conns \cup {NULL}]
      <4>1. sessConn' = sessConn \/ \E k : sessConn' = [sessConn EXCEPT ![k] = NULL]
        BY <2>1 DEF Unlink
      <4> QED BY <1>1, <4>1 DEF SockInv
    <3> QED BY <1>1, <1>2, <1>3, <2>1, <3>1 DEF SockInv, PoolsInv, Unlink, pools
  <2>2. CASE ReleaseHeard
    <3>1. connPool' = Released(connPool, c) /\ sessConn' = sessConn
      BY <1>4, <2>2 DEF ReleaseHeard
    <3>2. PoolsInv'
      BY <1>1, <1>2, <3>1, PoolFacts DEF PoolsInv
    <3> QED BY <1>1, <1>2, <3>1, <3>2, SockKept
  <2> QED BY <2>1, <2>2
<1>7. DataInv'
  BY <1>1, <1>2, <1>3, <1>6, ConnKept, KernelKept, HistoryKept DEF kernel, DataInv
<1> QED BY <1>5, <1>7

--------------------------------------------------------------------------------
(* Counting tokens                                                          *)

\* Where an element occurs are finitely many places.
LEMMA OccurrencesType ==
  ASSUME NEW S, NEW s \in Seq(S), NEW x
  PROVE  IsFiniteSet({i \in DOMAIN s : s[i] = x}) /\ Occurrences(s, x) \in Nat
<1>1. DOMAIN s = 1 .. Len(s) /\ Len(s) \in Nat
  BY LenProperties
<1>2. IsFiniteSet(1 .. Len(s))
  BY <1>1, FS_Interval
<1>3. IsFiniteSet({i \in DOMAIN s : s[i] = x})
  BY <1>1, <1>2, FS_Subset
<1> QED BY <1>3, FS_CardinalityType DEF Occurrences

\* An element that comes in at the end is one more.
LEMMA OccurrencesAppend ==
  ASSUME NEW S, NEW s \in Seq(S), NEW y \in S, NEW x
  PROVE  Occurrences(Append(s, y), x) = Occurrences(s, x) + (IF y = x THEN 1 ELSE 0)
<1> DEFINE A == {i \in DOMAIN s : s[i] = x}
           B == {i \in DOMAIN Append(s, y) : Append(s, y)[i] = x}
<1>1. IsFiniteSet(A) /\ Cardinality(A) \in Nat
  BY OccurrencesType DEF Occurrences
<1>2. /\ Len(s) \in Nat /\ DOMAIN s = 1 .. Len(s) /\ DOMAIN Append(s, y) = 1 .. Len(s) + 1
      /\ \A i \in 1 .. Len(s) : Append(s, y)[i] = s[i]
      /\ Append(s, y)[Len(s) + 1] = y
  BY LenProperties, AppendProperties
<1>3. CASE y = x
  <2>1. B = A \cup {Len(s) + 1} /\ Len(s) + 1 \notin A
    BY <1>2, <1>3
  <2>2. Cardinality(B) = Cardinality(A) + 1
    BY <1>1, <2>1, FS_AddElement
  <2> QED BY <1>3, <2>2 DEF Occurrences
<1>4. CASE y # x
  <2>1. B = A
    BY <1>2, <1>4
  <2>2. PICK n \in Nat : n = Cardinality(A)
    BY <1>1
  <2>3. Occurrences(Append(s, y), x) = Cardinality(B) /\ Occurrences(s, x) = Cardinality(A)
    BY Zenon DEF Occurrences
  <2> HIDE DEF A, B
  <2>4. Occurrences(Append(s, y), x) = n /\ Occurrences(s, x) = n
    BY <2>1, <2>2, <2>3
  <2> QED BY <1>4, <2>4
<1> QED BY <1>3, <1>4

\* The element that is taken at the head is one less.
LEMMA OccurrencesTail ==
  ASSUME NEW S, NEW s \in Seq(S), s # <<>>, NEW x
  PROVE  Occurrences(Tail(s), x) = Occurrences(s, x) - (IF Head(s) = x THEN 1 ELSE 0)
<1> DEFINE A == {i \in DOMAIN Tail(s) : Tail(s)[i] = x}
           B == {i \in DOMAIN s : s[i] = x}
           C == {i \in B : i # 1}
           f == [i \in A |-> i + 1]
<1>1. IsFiniteSet(B) /\ Cardinality(B) \in Nat
  BY OccurrencesType DEF Occurrences
<1>2. /\ Len(s) \in Nat /\ Len(s) >= 1 /\ DOMAIN s = 1 .. Len(s) /\ Head(s) = s[1]
      /\ DOMAIN Tail(s) = 1 .. Len(s) - 1
      /\ \A i \in 1 .. Len(s) - 1 : Tail(s)[i] = s[i + 1]
  BY LenProperties, HeadTailProperties, EmptySeq
<1>3. f \in Bijection(A, C)
  <2>1. f \in [A -> C]
    BY <1>2
  <2>2. \A i, j \in A : f[i] = f[j] => i = j
    BY <1>2
  <2>3. ASSUME NEW j \in C PROVE \E i \in A : f[i] = j
    <3>1. j - 1 \in A
      BY <1>2
    <3>2. f[j - 1] = j
      BY <1>2, <3>1
    <3> QED BY <3>1, <3>2
  <2> QED BY <2>1, <2>2, <2>3, Fun_IsBij
<1>4. IsFiniteSet(C) /\ Cardinality(C) \in Nat
  BY <1>1, FS_Subset, FS_CardinalityType
<1>5. Cardinality(A) = Cardinality(C)
  <2>1. ExistsBijection(C, A)
    BY <1>3, Fun_ExistsBijSymmetric DEF ExistsBijection
  <2> QED BY <1>4, <2>1, FS_Bijection
<1>6. PICK n \in Nat : n = Cardinality(C)
  BY <1>4
<1>7. Occurrences(Tail(s), x) = n
  BY <1>5, <1>6 DEF Occurrences
<1>8. CASE Head(s) = x
  <2>1. 1 \in B /\ B = C \cup {1} /\ 1 \notin C
    BY <1>2, <1>8
  <2>2. Occurrences(s, x) = n + 1
    BY <1>4, <1>6, <2>1, FS_AddElement DEF Occurrences
  <2> QED BY <1>7, <1>8, <2>2
<1>9. CASE Head(s) # x
  <2>1. B = C
    BY <1>2, <1>9
  <2>2. Occurrences(s, x) = n
    BY <1>6, <2>1 DEF Occurrences
  <2> QED BY <1>7, <1>9, <2>2
<1> QED BY <1>8, <1>9

\* The threads are finitely many.
LEMMA ThreadsAreFinite == IsFiniteSet(Threads)
<1>1. IsFiniteSet(EpollThreads \cup {"main"})
  BY NetAssumption, FS_AddElement
<1>2. IsFiniteSet((EpollThreads \cup {"main"}) \cup {"acceptor"})
  BY <1>1, FS_AddElement
<1>3. Threads = (EpollThreads \cup {"main"}) \cup {"acceptor"}
  BY DEF Threads
<1> QED BY <1>2, <1>3

\* Some of them and one more are at least that many and one.
LEMMA OneMore ==
  ASSUME NEW A \in SUBSET Threads, NEW B \in SUBSET Threads, NEW t, A \ {t} \subseteq B
  PROVE  /\ Cardinality(A) \in Nat /\ Cardinality(B) \in Nat
         /\ Cardinality(B) >= Cardinality(A) - (IF t \in A THEN 1 ELSE 0) + (IF t \in B THEN 1 ELSE 0)
<1>1. IsFiniteSet(A) /\ IsFiniteSet(B)
  BY ThreadsAreFinite, FS_Subset
<1>2. /\ IsFiniteSet(A \ {t}) /\ IsFiniteSet(B \ {t})
      /\ Cardinality(A \ {t}) = IF t \in A THEN Cardinality(A) - 1 ELSE Cardinality(A)
      /\ Cardinality(B \ {t}) = IF t \in B THEN Cardinality(B) - 1 ELSE Cardinality(B)
  BY <1>1, FS_RemoveElement
<1>3. A \ {t} \subseteq B \ {t}
  OBVIOUS
<1>4. Cardinality(A \ {t}) <= Cardinality(B \ {t})
  BY <1>2, <1>3, FS_Subset
<1>5. Cardinality(A) \in Nat /\ Cardinality(B) \in Nat
  BY <1>1, FS_CardinalityType
<1>6. PICK a \in Nat, b \in Nat : a = Cardinality(A) /\ b = Cardinality(B)
  BY <1>5
<1>7. (IF t \in A THEN a - 1 ELSE a) <= (IF t \in B THEN b - 1 ELSE b)
  BY <1>2, <1>4, <1>6
<1>8. b >= a - (IF t \in A THEN 1 ELSE 0) + (IF t \in B THEN 1 ELSE 0)
  BY <1>7
<1> QED BY <1>5, <1>6, <1>8

\* Thread t is about to give connection c a token, or has taken one of its tokens.
HasToken(t, c) ==
  \/ At(t, "module") /\ Of(t).conn = c
  \/ t = "main" /\ At(t, "proc") /\ Of(t) = c

\* When one thread takes a step, the tokens of a connection change by those in the queue
\* and by that of the thread.
LEMMA TokensChange ==
  ASSUME NEW t \in Threads, \A u \in Threads : u # t => todo'[u] = todo[u],
         eventQueue \in Seq(Conns), eventQueue' \in Seq(Conns), NEW c, NEW d \in Int,
         Occurrences(eventQueue', c) >= Occurrences(eventQueue, c) + d,
         NEW before \in {0, 1}, HasToken(t, c) => before = 1,
         NEW after \in {0, 1}, after = 1 => HasToken(t, c)'
  PROVE  /\ Tokens(c) \in Nat /\ Tokens(c)' \in Nat
         /\ Tokens(c)' >= Tokens(c) + d - before + after
<1> DEFINE P == PushersAt("module", c)
<1>1. P \in SUBSET Threads /\ P' \in SUBSET Threads /\ P \ {t} \subseteq P'
  BY DEF PushersAt, At, Of
<1>2. PICK a \in Nat, b \in Nat : /\ a = Cardinality(P) /\ b = Cardinality(P')
        /\ b >= a - (IF t \in P THEN 1 ELSE 0) + (IF t \in P' THEN 1 ELSE 0)
  BY <1>1, OneMore
<1>3. PICK p \in Nat, q \in Nat : p = Occurrences(eventQueue, c) /\ q = Occurrences(eventQueue', c)
  BY OccurrencesType
<1>4. q >= p + d
  BY <1>3
<1>5. PICK m \in {0, 1} : m = IF At("main", "proc") /\ Of("main") = c THEN 1 ELSE 0
  OBVIOUS
<1>6. PICK n \in {0, 1} : n = (IF At("main", "proc") /\ Of("main") = c THEN 1 ELSE 0)'
  OBVIOUS
<1>7. Tokens(c) = p + a + m
  BY <1>2, <1>3, <1>5 DEF Tokens
<1>8. Tokens(c)' = q + b + n
  BY <1>2, <1>3, <1>6 DEF Tokens
<1>9. /\ t \in P <=> At(t, "module") /\ Of(t).conn = c
      /\ t \in P' <=> (At(t, "module") /\ Of(t).conn = c)'
  BY DEF PushersAt
<1>10. /\ ~(At(t, "module") /\ At(t, "proc")) /\ ~(At(t, "module") /\ At(t, "proc"))'
  BY DEF At
<1>11. t # "main" => m = n
  BY <1>5, <1>6 DEF At, Of, Threads
<1>12. PICK i \in {0, 1}, j \in {0, 1} : /\ i = IF t \in P THEN 1 ELSE 0
                                         /\ j = IF t \in P' THEN 1 ELSE 0
  OBVIOUS
<1>13. b >= a - i + j
  BY <1>2, <1>12
<1>14. b + n >= a + m - before + after
  <2>1. CASE t = "main"
    <3>1. (i = 1 => m = 0 /\ before = 1) /\ (m = 1 => before = 1)
      BY <1>5, <1>9, <1>10, <1>12, <2>1 DEF HasToken
    <3>2. after = 1 => j = 1 \/ n = 1
      BY <1>6, <1>9, <1>12, <2>1 DEF HasToken
    <3> QED BY <1>13, <3>1, <3>2
  <2>2. CASE t # "main"
    <3>1. i = 1 => before = 1
      BY <1>9, <1>12 DEF HasToken
    <3>2. after = 1 => j = 1
      BY <1>9, <1>12, <2>2 DEF HasToken
    <3> QED BY <1>11, <1>13, <2>2, <3>1, <3>2
  <2> QED BY <2>1, <2>2
<1> QED BY <1>4, <1>7, <1>8, <1>14

\* A step that neither pushes nor takes strands nothing.
LEMMA QuietStep ==
  ASSUME NoEventIsStranded, NEW t \in Threads, \A u \in Threads : u # t => todo'[u] = todo[u],
         eventQueue \in Seq(Conns), eventQueue' = eventQueue,
         ~At(t, "module"), t = "main" => ~At(t, "proc"),
         \A c \in Conns : /\ Len(conn[c].eventNet) \in Nat /\ Len(conn'[c].eventNet) \in Nat
                          /\ ~conn'[c].torn => \/ Len(conn'[c].eventNet) = 0
                                               \/ /\ ~conn[c].torn
                                                  /\ Len(conn'[c].eventNet) <= Len(conn[c].eventNet)
  PROVE  NoEventIsStranded'
<1>1. SUFFICES ASSUME NEW c \in Conns, ~conn'[c].torn PROVE Len(conn'[c].eventNet) <= Tokens(c)'
  BY DEF NoEventIsStranded
<1>2. ~HasToken(t, c)
  BY DEF HasToken
<1>3. Occurrences(eventQueue, c) \in Nat
  BY OccurrencesType
<1>4. Occurrences(eventQueue', c) >= Occurrences(eventQueue, c) + 0
  BY <1>3
<1>5. Tokens(c) \in Nat /\ Tokens(c)' \in Nat /\ Tokens(c)' >= Tokens(c) + 0 - 0 + 0
  BY <1>2, <1>4, TokensChange
<1>6. ~conn[c].torn => Len(conn[c].eventNet) <= Tokens(c)
  BY DEF NoEventIsStranded
<1>7. \/ Len(conn'[c].eventNet) = 0
      \/ ~conn[c].torn /\ Len(conn'[c].eventNet) <= Len(conn[c].eventNet)
  BY <1>1
<1> QED BY <1>5, <1>6, <1>7

\* The queues have lengths.
LEMMA Lengths ==
  ASSUME ConnInv
  PROVE  eventQueue \in Seq(Conns) /\ \A c \in Conns : Len(conn[c].eventNet) \in Nat
BY LenProperties DEF ConnInv

\* What a thread takes on leaves the others alone.
LEMMA OthersKept ==
  ASSUME StepsInv, NEW t \in Threads, NEW s, Continue(t, s)
  PROVE  \A u \in Threads : u # t => todo'[u] = todo[u]
BY DEF Continue, StepsInv

\* Inside a call an event goes to its connection, and then its token to the module.
LEMMA RunStrandsNothing ==
  ASSUME StepsInv, AcceptorInv, DataInv, DataInv', NoEventIsStranded, NEW t \in Threads, Run(t)
  PROVE  NoEventIsStranded'
<1>1. /\ eventQueue \in Seq(Conns) /\ \A c \in Conns : Len(conn[c].eventNet) \in Nat
      /\ eventQueue' \in Seq(Conns) /\ \A c \in Conns : Len(conn'[c].eventNet) \in Nat
      /\ conn \in [Conns -> ConnData]
  BY Lengths, LenProperties DEF DataInv, ConnInv, ConnData
<1>2. todo[t] # <<>> /\ \E s : Continue(t, s)
  BY DEF Run, CheckClose, PushNet, PushEventQueue, CloseConnection, CloseSocket, Uninit, CloseFd, ClearFd,
         Detach, ReleaseConnection, ReleaseSocket, Send, SendTo, IsConnected, Aim, SendEpollMess, At, Crash
<1>3. \A u \in Threads : u # t => todo'[u] = todo[u]
  BY <1>2, OthersKept
<1>4. \A c \in Conns : ~conn[c].torn => Len(conn[c].eventNet) <= Tokens(c)
  BY DEF NoEventIsStranded
<1>5. \A c \in Conns : Occurrences(eventQueue, c) \in Nat
  BY <1>1, OccurrencesType
<1>6. CASE PushNet(t)
  <2>1. PICK c \in Conns, e \in ENetEvtType : c = Of(t).conn /\ e = Of(t).event
    BY <1>6, OfFacts DEF PushNet, At, PushOps, EventData
  <2>2. /\ \E q \in Stored(c, Append(conn[c].eventNet, e)) : conn' = [conn EXCEPT ![c].eventNet = q]
        /\ Continue(t, <<EventStep("module", c, e)>>) /\ At(t, "net") /\ eventQueue' = eventQueue
    BY <1>6, <2>1 DEF PushNet, Token
  <2>3. HasToken(t, c)'
    <3>1. [conn |-> c, event |-> e] \in EventData
      BY DEF EventData
    <3>2. EventStep("module", c, e) \in Steps
      BY <3>1, AcceptStepsMade DEF EventStep, Ops
    <3>3. Tail(todo[t]) \in Seq(Steps) /\ todo'[t] = <<EventStep("module", c, e)>> \o Tail(todo[t])
      BY <1>2, <2>2, ContinueFacts
    <3>4. todo'[t] # <<>> /\ Head(todo'[t]) = EventStep("module", c, e)
      BY <3>2, <3>3, ConsFacts
    <3> QED BY <3>4 DEF HasToken, At, Of, EventStep, Step
  <2>4. \A d \in Conns : ~HasToken(t, d)
    BY <2>2 DEF HasToken, At
  <2>5. ASSUME NEW d \in Conns, ~conn'[d].torn PROVE Len(conn'[d].eventNet) <= Tokens(d)'
    <3>1. Occurrences(eventQueue', d) >= Occurrences(eventQueue, d) + 0
      BY <1>5, <2>2
    <3>4. ~conn[d].torn
      BY <1>1, <2>2, <2>5 DEF ConnData
    <3>2. CASE d = c
      <4>1. Tokens(c) \in Nat /\ Tokens(c)' \in Nat /\ Tokens(c)' >= Tokens(c) + 0 - 0 + 1
        BY <1>1, <1>3, <2>3, <2>4, <3>1, <3>2, TokensChange
      <4>2. Len(conn'[c].eventNet) = Len(conn[c].eventNet) + 1
        <5>1. conn'[c].eventNet = Append(conn[c].eventNet, e)
          BY <1>1, <2>2, <3>2, <3>4 DEF ConnData, Stored
        <5> QED BY <1>1, <5>1, AppendProperties DEF ConnData
      <4> QED BY <1>1, <1>4, <3>2, <3>4, <4>1, <4>2
    <3>3. CASE d # c
      <4>1. Tokens(d) \in Nat /\ Tokens(d)' \in Nat /\ Tokens(d)' >= Tokens(d) + 0 - 0 + 0
        BY <1>1, <1>3, <2>4, <3>1, TokensChange
      <4>2. conn'[d] = conn[d]
        BY <1>1, <2>2, <3>3
      <4> QED BY <1>1, <1>4, <3>4, <4>1, <4>2
    <3> QED BY <3>2, <3>3
  <2> QED BY <2>5 DEF NoEventIsStranded
<1>7. CASE PushEventQueue(t)
  <2>1. PICK c \in Conns : c = Of(t).conn
    BY <1>7, OfFacts DEF PushEventQueue, At, PushOps, EventData
  <2>2. eventQueue' = Append(eventQueue, c) /\ conn' = conn /\ At(t, "module")
    BY <1>7, <2>1 DEF PushEventQueue
  <2>3. \A d \in Conns : d # c => ~HasToken(t, d)
    BY <2>1, <2>2 DEF HasToken, At
  <2>4. ASSUME NEW d \in Conns, ~conn'[d].torn PROVE Len(conn'[d].eventNet) <= Tokens(d)'
    <3>1. Occurrences(eventQueue', d) = Occurrences(eventQueue, d) + (IF c = d THEN 1 ELSE 0)
      BY <1>1, <2>2, OccurrencesAppend
    <3>2. CASE d = c
      <4>1. Occurrences(eventQueue', d) >= Occurrences(eventQueue, d) + 1
        BY <1>5, <3>1, <3>2
      <4>2. Tokens(d) \in Nat /\ Tokens(d)' \in Nat /\ Tokens(d)' >= Tokens(d) + 1 - 1 + 0
        BY <1>1, <1>3, <4>1, TokensChange
      <4> QED BY <1>1, <1>4, <2>2, <2>4, <4>2
    <3>3. CASE d # c
      <4>1. Occurrences(eventQueue', d) >= Occurrences(eventQueue, d) + 0
        BY <1>5, <3>1, <3>3
      <4>2. Tokens(d) \in Nat /\ Tokens(d)' \in Nat /\ Tokens(d)' >= Tokens(d) + 0 - 0 + 0
        BY <1>1, <1>3, <2>3, <3>3, <4>1, TokensChange
      <4> QED BY <1>1, <1>4, <2>2, <2>4, <4>2
    <3> QED BY <3>2, <3>3
  <2> QED BY <2>4 DEF NoEventIsStranded
<1>8. CASE ~PushNet(t) /\ ~PushEventQueue(t)
  <2>1. ~At(t, "module") /\ ~At(t, "proc")
    BY <1>8 DEF Run, CheckClose, CloseConnection, CloseSocket, Uninit, CloseFd, ClearFd, Detach,
                ReleaseConnection, ReleaseSocket, Send, SendTo, IsConnected, Aim, SendEpollMess, At
  <2>2. eventQueue' = eventQueue
    BY <1>8 DEF Run, CheckClose, CloseConnection, CloseSocket, Uninit, CloseFd, ClearFd, Detach,
                ReleaseConnection, ReleaseSocket, Send, SendTo, IsConnected, Aim, SendEpollMess
  <2>3. \A c \in Conns : conn'[c].eventNet = conn[c].eventNet /\ conn'[c].torn = conn[c].torn
    <3>1. CASE CheckClose(t)
      <4>1. \E b : conn' = [conn EXCEPT ![Of(t).conn].bClose = b]
        BY <3>1 DEF CheckClose
      <4> QED BY <1>1, <4>1 DEF ConnData
    <3>2. CASE Detach(t)
      <4>1. \E c : conn' = [conn EXCEPT ![c].poSocket = NULL]
        BY <3>2 DEF Detach
      <4> QED BY <1>1, <4>1 DEF ConnData
    <3>3. CASE conn' = conn
      BY <3>3
    <3> QED
      BY <1>8, <3>1, <3>2, <3>3
         DEF Run, CloseConnection, CloseSocket, Uninit, CloseFd, ClearFd, ReleaseConnection,
             ReleaseSocket, Send, SendTo, IsConnected, Aim, SendEpollMess
  <2>4. \A c \in Conns : /\ Len(conn[c].eventNet) \in Nat /\ Len(conn'[c].eventNet) \in Nat
                         /\ Len(conn'[c].eventNet) <= Len(conn[c].eventNet)
                         /\ conn'[c].torn = conn[c].torn
    BY <1>1, <2>3
  <2> QED BY <1>1, <1>3, <2>1, <2>2, <2>4, QuietStep
<1> QED BY <1>6, <1>7, <1>8

\* Nor do clients and the accept loop, which empties the queue of a connection it got from
\* the pool.
LEMMA AcceptorStrandsNothing ==
  ASSUME StepsInv, DataInv, DataInv', NoEventIsStranded,
         \/ DisposerBegin \/ EpollWait \/ AcceptFails \/ Accept \/ FetchConnection \/ InitPointers
         \/ InitEvents \/ InitClose \/ SetSession \/ NoSession \/ SetConnection \/ SetSock \/ SetSocket \/ Register
         \/ ClientConnects
  PROVE  NoEventIsStranded'
<1>1. /\ eventQueue \in Seq(Conns) /\ \A c \in Conns : Len(conn[c].eventNet) \in Nat
      /\ \A c \in Conns : Len(conn'[c].eventNet) \in Nat
      /\ conn \in [Conns -> ConnData]
  BY Lengths, LenProperties DEF DataInv, ConnInv, ConnData
<1>2. CASE ClientConnects
  BY <1>2 DEF ClientConnects, NoEventIsStranded, Tokens, Occurrences, PushersAt, At, Of
<1>3. CASE ~ClientConnects
  <2>1. eventQueue' = eventQueue
    BY <1>3 DEF DisposerBegin, EpollWait, AcceptFails, Accept, FetchConnection, InitPointers, InitEvents,
                InitClose, SetSession, NoSession, SetConnection, SetSock, SetSocket, Register, Assign
  <2>2. ~At("acceptor", "module")
    BY <1>3 DEF DisposerBegin, EpollWait, AcceptFails, Accept, FetchConnection, InitPointers, InitEvents,
                InitClose, SetSession, NoSession, SetConnection, SetSock, SetSocket, Register, Assign, At
  <2>3. "acceptor" \in Threads /\ \A u \in Threads : u # "acceptor" => todo'[u] = todo[u]
    <3>1. \E s : todo' = [todo EXCEPT !["acceptor"] = s]
      <4>1. CASE EpollWait \/ NoSession
        BY <4>1 DEF EpollWait, NoSession
      <4>2. CASE ~(EpollWait \/ NoSession)
        <5>1. \E s : Continue("acceptor", s)
          BY <1>3, <4>2
             DEF DisposerBegin, AcceptFails, Accept, FetchConnection, InitPointers, InitEvents,
                 InitClose, SetSession, SetConnection, SetSock, SetSocket, Register, Assign
        <5> QED BY <5>1 DEF Continue
      <4> QED BY <4>1, <4>2
    <3> QED BY <3>1 DEF StepsInv, Threads
  <2>4. \A c \in Conns :
          ~conn'[c].torn => \/ conn'[c].eventNet = conn[c].eventNet /\ ~conn[c].torn
                            \/ conn'[c].eventNet = <<>>
    <3>1. CASE InitPointers
      <4>1. \E d : conn' = [conn EXCEPT ![d].poSocket = NULL, ![d].session = NULL]
        BY <3>1 DEF InitPointers, Assign
      <4> QED BY <1>1, <4>1 DEF ConnData
    <3>2. CASE InitEvents
      <4>1. PICK d, b, q : /\ ~b => q = <<>>
                           /\ conn' = [conn EXCEPT ![d].eventNet = q, ![d].torn = b]
        BY <3>2, BusyIsBoolean DEF InitEvents, Assign
      <4>2. ASSUME NEW c \in Conns, c = d
            PROVE  conn'[c].eventNet = q /\ conn'[c].torn = b
        BY <1>1, <4>1, <4>2 DEF ConnData
      <4>3. ASSUME NEW c \in Conns, c # d
            PROVE  conn'[c] = conn[c]
        BY <1>1, <4>1, <4>3
      <4> QED BY <4>1, <4>2, <4>3
    <3>3. CASE InitClose
      <4>1. \E d : conn' = [conn EXCEPT ![d].bClose = TRUE]
        BY <3>3 DEF InitClose, Assign
      <4> QED BY <1>1, <4>1 DEF ConnData
    <3>4. CASE SetSession
      <4>1. \E d, k : conn' = [conn EXCEPT ![d].session = k]
        BY <3>4 DEF SetSession, Assign
      <4> QED BY <1>1, <4>1 DEF ConnData
    <3>5. CASE SetSocket
      <4>1. \E d, x : conn' = [conn EXCEPT ![d].poSocket = x]
        BY <3>5 DEF SetSocket, Assign
      <4> QED BY <1>1, <4>1 DEF ConnData
    <3>6. CASE UNCHANGED conn
      BY <3>6
    <3> QED
      BY <1>3, <3>1, <3>2, <3>3, <3>4, <3>5, <3>6
         DEF DisposerBegin, EpollWait, AcceptFails, Accept, FetchConnection, NoSession, SetConnection,
             SetSock, Register, Assign
  <2>5. \A c \in Conns : /\ Len(conn[c].eventNet) \in Nat /\ Len(conn'[c].eventNet) \in Nat
                         /\ ~conn'[c].torn => \/ Len(conn'[c].eventNet) = 0
                                              \/ /\ ~conn[c].torn
                                                 /\ Len(conn'[c].eventNet) <= Len(conn[c].eventNet)
    <3>1. Len(<<>>) = 0
      OBVIOUS
    <3>2. ASSUME NEW c \in Conns, ~conn'[c].torn
          PROVE  \/ ~conn[c].torn /\ Len(conn'[c].eventNet) = Len(conn[c].eventNet)
                 \/ Len(conn'[c].eventNet) = 0
      BY <2>4, <3>1, <3>2
    <3> QED BY <1>1, <3>2
  <2> QED BY <1>1, <2>1, <2>2, <2>3, <2>5, QuietStep
<1> QED BY <1>2, <1>3

\* Nor do the epoll threads between their calls.
LEMMA ReadLoopStrandsNothing ==
  ASSUME StepsInv, DataInv, NoEventIsStranded, NEW t \in EpollThreads,
         \/ Report(t) \/ GetSock(t) \/ ReadPacket(t) \/ ReadBadPacket(t) \/ SocketError(t)
         \/ PeerCloses(t) \/ WriteLoop(t) \/ Rearm(t) \/ ReadNothing(t)
  PROVE  NoEventIsStranded'
<1>1. /\ eventQueue \in Seq(Conns) /\ \A c \in Conns : Len(conn[c].eventNet) \in Nat
      /\ t \in Threads /\ t # "main"
  BY Lengths, OtherThreads DEF DataInv
<1>2. ASSUME NEW s, Turn(t, s) PROVE NoEventIsStranded'
  <2>1. /\ ~At(t, "module") /\ UNCHANGED <<conn, eventQueue>>
        /\ \A u \in Threads : u # t => todo'[u] = todo[u]
    BY <1>1, <1>2, OthersKept DEF Turn, At
  <2> QED BY <1>1, <2>1, QuietStep
<1>3. CASE Report(t) \/ GetSock(t) \/ Rearm(t)
  <2>1. ~At(t, "module") /\ UNCHANGED <<conn, eventQueue>>
    BY <1>3 DEF Report, GetSock, Rearm, At
  <2>2. \A u \in Threads : u # t => todo'[u] = todo[u]
    <3>1. CASE Report(t)
      <4>1. \E s : todo' = [todo EXCEPT ![t] = s]
        BY <3>1 DEF Report
      <4> QED BY <1>1, <4>1 DEF StepsInv
    <3>2. CASE GetSock(t) \/ Rearm(t)
      <4>1. \E s : Continue(t, s)
        BY <3>2 DEF GetSock, Rearm
      <4> QED BY <1>1, <4>1, OthersKept
    <3> QED BY <1>3, <3>1, <3>2
  <2> QED BY <1>1, <2>1, <2>2, QuietStep
<1>4. CASE ReadPacket(t) \/ ReadBadPacket(t) \/ SocketError(t) \/ PeerCloses(t) \/ WriteLoop(t)
             \/ ReadNothing(t)
  <2>1. \E s : Turn(t, s)
    BY <1>4, Zenon DEF ReadPacket, ReadBadPacket, SocketError, PeerCloses, WriteLoop, ReadNothing
  <2> QED BY <1>2, <2>1
<1> QED BY <1>3, <1>4

\* A token that the main thread takes from the queue is in its hands.
LEMMA PopStrandsNothing ==
  ASSUME StepsInv, DataInv, DataInv', NoEventIsStranded, PopToken
  PROVE  NoEventIsStranded'
<1>1. /\ eventQueue \in Seq(Conns) /\ \A c \in Conns : Len(conn[c].eventNet) \in Nat
      /\ eventQueue' \in Seq(Conns) /\ "main" \in Threads
  BY Lengths, OtherThreads DEF DataInv, ConnInv
<1>2. /\ todo["main"] = <<>> /\ eventQueue # <<>> /\ eventQueue' = Tail(eventQueue) /\ conn' = conn
      /\ todo' = [todo EXCEPT !["main"] = <<Step("proc", Head(eventQueue))>>]
  BY DEF PopToken
<1>3. PICK h : h = Head(eventQueue)
  OBVIOUS
<1>4. /\ \A u \in Threads : u # "main" => todo'[u] = todo[u]
      /\ todo'["main"] = <<Step("proc", h)>>
  BY <1>1, <1>2, <1>3 DEF StepsInv
<1>5. HasToken("main", h)'
  BY <1>2, <1>4 DEF HasToken, At, Of, Step
<1>6. ASSUME NEW c \in Conns, ~conn'[c].torn PROVE Len(conn'[c].eventNet) <= Tokens(c)'
  <2>1. Occurrences(eventQueue', c) = Occurrences(eventQueue, c) - (IF h = c THEN 1 ELSE 0)
    BY <1>1, <1>2, <1>3, OccurrencesTail
  <2>2. Occurrences(eventQueue, c) \in Nat /\ Len(conn[c].eventNet) <= Tokens(c)
        /\ ~HasToken("main", c)
    BY <1>1, <1>2, <1>6, OccurrencesType DEF NoEventIsStranded, HasToken, At
  <2>3. CASE h = c
    <3>1. Occurrences(eventQueue', c) >= Occurrences(eventQueue, c) + (-1)
      BY <2>1, <2>2, <2>3
    <3>2. HasToken("main", c)'
      BY <1>5, <2>3
    <3>3. -1 \in Int
      OBVIOUS
    <3>4. Tokens(c) \in Nat /\ Tokens(c)' \in Nat /\ Tokens(c)' >= Tokens(c) + (-1) - 0 + 1
      BY <1>1, <1>4, <2>2, <3>1, <3>2, <3>3, TokensChange
    <3> QED BY <1>1, <1>2, <2>2, <3>4
  <2>4. CASE h # c
    <3>1. Occurrences(eventQueue', c) >= Occurrences(eventQueue, c) + 0
      BY <2>1, <2>2, <2>4
    <3>2. Tokens(c) \in Nat /\ Tokens(c)' \in Nat /\ Tokens(c)' >= Tokens(c) + 0 - 0 + 0
      BY <1>1, <1>4, <2>2, <3>1, TokensChange
    <3> QED BY <1>1, <1>2, <2>2, <3>2
  <2> QED BY <2>3, <2>4
<1> QED BY <1>6 DEF NoEventIsStranded

\* With the token it took the main thread takes an event, if there is one.
LEMMA ProcStrandsNothing ==
  ASSUME StepsInv, AcceptorInv, DataInv, NoEventIsStranded,
         ProcNothing \/ ProcInvalid \/ ProcConnected \/ ProcError \/ ProcRecv \/ ProcClose
  PROVE  NoEventIsStranded'
<1>1. /\ eventQueue \in Seq(Conns) /\ \A c \in Conns : Len(conn[c].eventNet) \in Nat
      /\ "main" \in Threads /\ conn \in [Conns -> ConnData]
  BY Lengths, OtherThreads DEF DataInv, ConnInv, ConnData
<1>2. ProcNothing \/ ProcInvalid \/ \E e, found : Proc(e, found)
  BY Zenon DEF ProcConnected, ProcError, ProcRecv, ProcClose
<1>8. ProcNothing \/ \E e : PopEvent(e)
  BY <1>2 DEF ProcInvalid, Proc
<1>3. At("main", "proc") /\ eventQueue' = eventQueue
  BY <1>2 DEF ProcNothing, ProcInvalid, Proc, PopEvent
<1>4. PICK c \in Conns : c = Of("main")
  BY <1>1, <1>3, OfFacts DEF At, ConnOps
<1>5. \A u \in Threads : u # "main" => todo'[u] = todo[u]
  <2>1. \E s : Continue("main", s)
    BY <1>2, Zenon DEF ProcNothing, ProcInvalid, Proc, Crash
  <2> QED BY <1>1, <2>1, OthersKept
<1>6. \/ conn[c].eventNet = <<>> /\ conn' = conn
      \/ /\ conn[c].eventNet # <<>>
         /\ \E q \in Stored(c, Tail(conn[c].eventNet)) : conn' = [conn EXCEPT ![c].eventNet = q]
  BY <1>4, <1>8 DEF ProcNothing, PopEvent
<1>7. ASSUME NEW d \in Conns, ~conn'[d].torn PROVE Len(conn'[d].eventNet) <= Tokens(d)'
  <2>5. ~conn[d].torn
    BY <1>1, <1>6, <1>7 DEF ConnData
  <2>1. Occurrences(eventQueue, d) \in Nat /\ Len(conn[d].eventNet) <= Tokens(d)
    BY <1>1, <2>5, OccurrencesType DEF NoEventIsStranded
  <2>2. Occurrences(eventQueue', d) >= Occurrences(eventQueue, d) + 0
    BY <1>3, <2>1
  <2>3. CASE d = c
    <3>1. Tokens(d) \in Nat /\ Tokens(d)' \in Nat /\ Tokens(d)' >= Tokens(d) + 0 - 1 + 0
      BY <1>1, <1>3, <1>5, <2>2, TokensChange
    <3>2. CASE conn[c].eventNet = <<>> /\ conn' = conn
      <4>1. Len(conn'[c].eventNet) = 0
        BY <3>2
      <4> QED BY <2>3, <3>1, <4>1
    <3>3. CASE /\ conn[c].eventNet # <<>>
               /\ \E q \in Stored(c, Tail(conn[c].eventNet)) :
                    conn' = [conn EXCEPT ![c].eventNet = q]
      <4>1. conn'[c].eventNet = Tail(conn[c].eventNet) /\ conn[c].eventNet \in Seq(ENetEvtType)
        BY <1>1, <2>3, <2>5, <3>3 DEF ConnData, Stored
      <4>2. Len(conn'[c].eventNet) = Len(conn[c].eventNet) - 1
        BY <3>3, <4>1, HeadTailProperties
      <4> QED BY <1>1, <2>1, <2>3, <3>1, <4>2
    <3> QED BY <1>6, <3>2, <3>3
  <2>4. CASE d # c
    <3>1. ~HasToken("main", d)
      BY <1>3, <1>4, <2>4 DEF HasToken, At
    <3>2. Tokens(d) \in Nat /\ Tokens(d)' \in Nat /\ Tokens(d)' >= Tokens(d) + 0 - 0 + 0
      BY <1>1, <1>3, <1>5, <2>2, <3>1, TokensChange
    <3>3. conn'[d] = conn[d]
      BY <1>1, <1>6, <2>4
    <3> QED BY <1>1, <2>1, <3>2, <3>3
  <2> QED BY <2>3, <2>4
<1> QED BY <1>7 DEF NoEventIsStranded

\* Letting go of a connection strands nothing.
LEMMA CloseStrandsNothing ==
  ASSUME StepsInv, DataInv, NoEventIsStranded, Unlink \/ ReleaseHeard
  PROVE  NoEventIsStranded'
<1>1. /\ eventQueue \in Seq(Conns) /\ \A c \in Conns : Len(conn[c].eventNet) \in Nat
      /\ "main" \in Threads
  BY Lengths, OtherThreads DEF DataInv
<1>2. ~At("main", "module") /\ ~At("main", "proc") /\ UNCHANGED <<conn, eventQueue>>
  BY DEF Unlink, ReleaseHeard, At
<1>3. \A u \in Threads : u # "main" => todo'[u] = todo[u]
  <2>1. \E s : Continue("main", s)
    BY DEF Unlink, ReleaseHeard, Crash
  <2> QED BY <1>1, <2>1, OthersKept
<1> QED BY <1>1, <1>2, <1>3, QuietStep

--------------------------------------------------------------------------------
(* The invariant                                                            *)

\* The objects of a pool are all on its free list when it is made.
LEMMA NewPool ==
  ASSUME NEW O, IsFiniteSet(O)
  PROVE  [free |-> SetToSeq(O), ref |-> [x \in O |-> 0]] \in Pools(O)
<1>1. /\ Cardinality(O) \in Nat /\ ExistsBijection(1 .. Cardinality(O), O)
  BY FS_CardinalityType
<1>2. \E g \in [1 .. Cardinality(O) -> O] : IsInjective(g)
  BY <1>1 DEF ExistsBijection, Bijection, Injection
<1>3. SetToSeq(O) \in [1 .. Cardinality(O) -> O]
  BY <1>2 DEF SetToSeq
<1>4. SetToSeq(O) \in Seq(O)
  BY <1>1, <1>3
<1> QED BY <1>4 DEF Pools

\* The program starts with nothing but the accept loop.
LEMMA InitIInv ==
  ASSUME Init
  PROVE  IInv
<1>1. todo \in [Threads -> Seq(Steps)] /\ "acceptor" \in Threads
      /\ todo["acceptor"] = <<Step("begin", "acceptor")>>
      /\ \A t \in Threads \ {"acceptor"} : todo[t] = <<>>
  <2>1. Step("begin", "acceptor") \in Steps
    BY AcceptStepsMade DEF Ops, Threads
  <2> QED BY <2>1 DEF Init, Threads
<1>2. StepsInv
  BY <1>1 DEF StepsInv
<1>3. AcceptorInv
  BY <1>1 DEF AcceptorInv, Beginning, Init
<1>4. ConnInv
  BY NetAssumption DEF ConnInv, Init
<1>5. SockInv
  BY NetAssumption DEF SockInv, Init, Fds
<1>6. PoolsInv
  BY NetAssumption, NewPool DEF PoolsInv, Init
<1>7. KernelInv
  <2>1. /\ peer \in [Fds -> {NULL, Stdin} \cup 1 .. accepted]
        /\ \A f, g \in Fds : peer[f] = peer[g] /\ peer[f] # NULL => f = g
    BY DEF Init
  <2>2. watched \in [Fds -> [thread : EpollThreads, sock : Linked] \cup {NoWatch}]
        /\ \A f \in Fds : watched[f].thread \notin EpollThreads
    BY NetAssumption DEF Init, NoWatch
  <2>3. /\ backlog \in [clients : Nat, edge : BOOLEAN, refused : BOOLEAN] /\ accepted \in Nat
        /\ accepted + backlog.clients <= MaxAccepts
    BY NetAssumption DEF Init
  <2> QED BY <2>1, <2>2, <2>3 DEF KernelInv
<1>8. HistoryInv
  BY NetAssumption DEF HistoryInv, Init
<1>9. NoEventIsStranded
  <2>1. SUFFICES ASSUME NEW c \in Conns PROVE Len(conn[c].eventNet) <= Tokens(c)
    BY DEF NoEventIsStranded
  <2>2. Len(conn[c].eventNet) = 0
    BY DEF Init
  <2>3. /\ Occurrences(eventQueue, c) \in Nat /\ Cardinality(PushersAt("module", c)) \in Nat
    <3>1. eventQueue \in Seq(Conns) /\ PushersAt("module", c) \in SUBSET Threads
      BY DEF Init, PushersAt
    <3> QED BY <3>1, OccurrencesType, OneMore
  <2>4. Tokens(c) >= 0
    BY <2>3 DEF Tokens
  <2> QED BY <2>2, <2>4
<1> QED BY <1>2, <1>3, <1>4, <1>5, <1>6, <1>7, <1>8, <1>9 DEF IInv, DataInv

\* A step of the program keeps the invariant.
LEMMA NextIInv ==
  ASSUME IInv, [Next]_vars
  PROVE  IInv'
<1>1. StepsInv /\ AcceptorInv /\ DataInv /\ NoEventIsStranded /\ ConnInv /\ SockInv
  BY DEF IInv, DataInv
<1>2. CASE \E t \in Threads : Run(t)
  BY <1>1, <1>2, RunControl, RunData, RunStrandsNothing DEF IInv
<1>3. CASE ClientConnects
  BY <1>1, <1>3, ClientStep, AcceptorStrandsNothing DEF IInv
<1>4. CASE Acceptor
  <2>1. CASE DisposerBegin \/ EpollWait
    BY <1>1, <2>1, DisposerBeginStep, EpollWaitStep, AcceptorStrandsNothing DEF IInv
  <2>11. CASE AcceptFails
    BY <1>1, <2>11, AcceptFailsStep, AcceptorStrandsNothing DEF IInv
  <2>2. CASE Accept
    BY <1>1, <2>2, AcceptStep, AcceptorStrandsNothing DEF IInv
  <2>3. CASE FetchConnection
    BY <1>1, <2>3, FetchStep, AcceptorStrandsNothing DEF IInv
  <2>4. CASE InitPointers \/ InitEvents \/ InitClose
    BY <1>1, <2>4, InitSteps, AcceptorStrandsNothing DEF IInv
  <2>5. CASE SetSession
    BY <1>1, <2>5, SetSessionStep, AcceptorStrandsNothing DEF IInv
  <2>6. CASE NoSession
    BY <1>1, <2>6, NoSessionStep, AcceptorStrandsNothing DEF IInv
  <2>7. CASE SetConnection
    BY <1>1, <2>7, SetConnectionStep, AcceptorStrandsNothing DEF IInv
  <2>8. CASE SetSock
    BY <1>1, <2>8, SetSockStep, AcceptorStrandsNothing DEF IInv
  <2>9. CASE SetSocket
    BY <1>1, <2>9, SetSocketStep, AcceptorStrandsNothing DEF IInv
  <2>10. CASE Register
    BY <1>1, <2>10, RegisterStep, AcceptorStrandsNothing DEF IInv
  <2> QED
    BY <1>2, <1>4, <2>1, <2>2, <2>3, <2>4, <2>5, <2>6, <2>7, <2>8, <2>9, <2>10, <2>11
       DEF Acceptor, Threads
<1>5. CASE Main
  <2>1. CASE PopToken
    BY <1>1, <2>1, PopStep, PopStrandsNothing DEF IInv
  <2>2. CASE ProcNothing
    BY <1>1, <2>2, ProcNothingStep, ProcStrandsNothing DEF IInv
  <2>3. CASE ProcInvalid \/ ProcConnected \/ ProcError \/ ProcRecv \/ ProcClose
    BY <1>1, <2>3, ProcSteps, ProcStrandsNothing DEF IInv
  <2>4. CASE Unlink \/ ReleaseHeard
    BY <1>1, <2>4, CloseSteps, CloseStrandsNothing DEF IInv
  <2> QED BY <1>2, <1>5, <2>1, <2>2, <2>3, <2>4 DEF Main, Threads
<1>6. ASSUME NEW t \in EpollThreads, Report(t) \/ ReadLoop(t) PROVE IInv'
  <2>1. CASE Report(t) \/ GetSock(t)
    BY <1>1, <2>1, ReportSteps, ReadLoopStrandsNothing DEF IInv
  <2>2. CASE ReadPacket(t) \/ ReadBadPacket(t) \/ SocketError(t) \/ PeerCloses(t) \/ WriteLoop(t)
               \/ ReadNothing(t)
    BY <1>1, <2>2, TurnSteps, ReadLoopStrandsNothing DEF IInv
  <2>3. CASE Rearm(t)
    BY <1>1, <2>3, RearmStep, ReadLoopStrandsNothing DEF IInv
  <2> QED BY <1>2, <1>6, <2>1, <2>2, <2>3 DEF ReadLoop, Threads
<1>7. CASE UNCHANGED vars
  <2>1. UNCHANGED <<todo, conn, eventQueue, sock, epEvent, sessConn, pools, kernel, heard>>
    BY <1>7 DEF vars
  <2>2. LinksKept /\ EventsKept /\ Linked \subseteq Linked' /\ Linked' = Linked
    BY <2>1, LinksSame DEF LinksKept, EventsKept
  <2>3. DataInv'
    BY <1>1, <2>1, <2>2, ConnKept, SockKept, KernelKept, HistoryKept
       DEF pools, kernel, PoolsInv, DataInv
  <2>4. StepsInv' /\ AcceptorInv'
    BY <1>1, <2>1, <2>2, AcceptorKept DEF StepsInv, GoodSteps
  <2>5. NoEventIsStranded'
    BY <1>1, <2>1 DEF NoEventIsStranded, Tokens, Occurrences, PushersAt, At, Of
  <2> QED BY <2>3, <2>4, <2>5 DEF IInv
<1> QED BY <1>3, <1>4, <1>5, <1>6, <1>7 DEF Next, PollNothing

\* All of it holds whatever the threads and the clients do.
THEOREM Invariance == Spec => []IInv
BY InitIInv, NextIInv, PTL DEF Spec

\* The queues, the pools, the pointers of connections, sockets, threads and sessions, and
\* what the kernel holds keep their types, and no thread has a step of no kind before it.
THEOREM TypeCorrect == Spec => []TypeOK
<1>1. IInv => TypeOK
  <2> SUFFICES ASSUME IInv PROVE TypeOK
    OBVIOUS
  <2>1. StepsInv /\ ConnInv /\ SockInv /\ PoolsInv /\ KernelInv /\ HistoryInv
    BY DEF IInv, DataInv
  <2>2. \A t \in Threads : \A i \in DOMAIN todo[t] : todo[t][i].op \in Ops
    <3>1. ASSUME NEW t \in Threads, NEW i \in DOMAIN todo[t] PROVE todo[t][i] \in Steps
      <4>1. todo[t] \in Seq(Steps)
        BY <2>1 DEF StepsInv
      <4> QED BY <4>1, ElementOfSeq, LenProperties
    <3> QED BY <3>1 DEF Steps
  <2>3. Linked \subseteq Socks
    BY DEF Linked
  <2>4. conn \in [Conns -> [bClose : BOOLEAN, eventNet : Seq(ENetEvtType), torn : BOOLEAN,
                            poSocket : Socks \cup {NULL}, session : Clients \cup {NULL}]]
    BY <2>1, <2>3 DEF ConnInv
  <2>5. epEvent \in [EpollThreads -> Socks \cup {NULL, NoThread}]
    BY <2>1, <2>3 DEF SockInv
  <2>6. /\ connPool.free \in Seq(Conns) /\ connPool.ref \in [Conns -> {0, 1}]
        /\ sockPool.free \in Seq(Socks) /\ sockPool.ref \in [Socks -> {0, 1}]
    BY <2>1 DEF PoolsInv, Pools
  <2>7. watched \in [Fds -> [thread : EpollThreads, sock : Socks] \cup {NoWatch}]
    BY <2>1, <2>3 DEF KernelInv
  <2>8. /\ accepted \in 0 .. MaxAccepts
        /\ backlog \in [clients : 0 .. MaxAccepts, edge : BOOLEAN, refused : BOOLEAN]
    <3>1. /\ accepted \in Nat /\ backlog.clients \in Nat /\ MaxAccepts \in Nat
          /\ accepted + backlog.clients <= MaxAccepts
          /\ backlog \in [clients : Nat, edge : BOOLEAN, refused : BOOLEAN]
      BY <2>1, NetAssumption DEF KernelInv
    <3>2. backlog.clients \in 0 .. MaxAccepts /\ accepted \in 0 .. MaxAccepts
      BY <3>1
    <3> QED BY <3>1, <3>2
  <2>9. peer \in [Fds -> Clients \cup {NULL, Stdin}]
    <3>1. 1 .. accepted \subseteq Clients
      BY <2>8, NetAssumption DEF Clients
    <3> QED BY <2>1, <3>1 DEF KernelInv
  <2> QED
    BY <2>1, <2>2, <2>4, <2>5, <2>6, <2>7, <2>8, <2>9
       DEF TypeOK, ConnInv, SockInv, KernelInv, HistoryInv
<1> QED BY <1>1, Invariance, PTL

\* PushEvent puts the event in m_eventNet before the token in m_eventQueue, and nothing takes
\* a token without an event: whatever the threads do, for as many clients as come and
\* however often a connection is handed out again, no event is left without a token in a
\* queue whose cursors TEventQueue::Init did not tear, as its two unlocked stores do when
\* they come between the accesses of a thread that is still at the queue.
THEOREM NothingIsStranded == Spec => []NoEventIsStranded
<1>1. IInv => NoEventIsStranded
  BY DEF IInv
<1> QED BY <1>1, Invariance, PTL

--------------------------------------------------------------------------------
(* Clients in the backlog                                                   *)

\* The accept loop will call accept() again.
WillAccept(q) == \E i \in DOMAIN q : q[i].op = "accept"

\* Steps put before others leave an accept() among the others there.
LEMMA WillAcceptAfter ==
  ASSUME NEW S, NEW s \in Seq(S), NEW r \in Seq(S), WillAccept(r)
  PROVE  WillAccept(s \o r)
<1>1. PICK i \in DOMAIN r : r[i].op = "accept"
  BY DEF WillAccept
<1>2. /\ Len(s) \in Nat /\ Len(r) \in Nat /\ i \in 1 .. Len(r) /\ Len(s \o r) = Len(s) + Len(r)
      /\ DOMAIN (s \o r) = 1 .. Len(s) + Len(r) /\ (s \o r)[Len(s) + i] = r[i]
  BY ConcatProperties, LenProperties
<1>3. Len(s) + i \in DOMAIN (s \o r)
  BY <1>2
<1> QED BY <1>1, <1>2, <1>3 DEF WillAccept

\* So does one step, or none.
LEMMA WillAcceptNext ==
  ASSUME NEW r \in Seq(Steps), WillAccept(r)
  PROVE  WillAccept(<<>> \o r) /\ \A x : WillAccept(<<x>> \o r)
<1>1. WillAccept(<<>> \o r)
  OBVIOUS
<1>2. ASSUME NEW x PROVE WillAccept(<<x>> \o r)
  <2>1. <<x>> \in Seq(Steps \cup {x}) /\ r \in Seq(Steps \cup {x})
    OBVIOUS
  <2> QED BY <2>1, WillAcceptAfter
<1> QED BY <1>1, <1>2

\* There is one behind all that the accept loop does for a client.
LEMMA ShapesAccept ==
  /\ AfterAccept \in Seq(Steps) /\ WillAccept(AfterAccept)
  /\ \A a \in HeldData :
       \A q \in {FromPointers(a), FromEvents(a), FromClose(a), FromSession(a), FromSetConn(a),
                 FromSetSock(a), FromSetSocket(a), Announcing("check", a), FromAim(a),
                 FromRegister(a)} :
         q \in Seq(Steps) /\ WillAccept(q)
<1>1. AfterAccept \in Seq(Steps) /\ WillAccept(AfterAccept)
  <2>1. Step("accept", NULL) \in Steps
    BY AcceptStepsMade DEF Ops
  <2>2. 1 \in DOMAIN AfterAccept /\ AfterAccept[1].op = "accept"
    BY DEF AfterAccept, Step
  <2> QED BY <2>1, <2>2 DEF AfterAccept, WillAccept
<1>2. ASSUME NEW a \in HeldData
      PROVE  \A q \in {FromPointers(a), FromEvents(a), FromClose(a), FromSession(a), FromSetConn(a),
                       FromSetSock(a), FromSetSocket(a), Announcing("check", a), FromAim(a),
                       FromRegister(a)} :
               q \in Seq(Steps) /\ WillAccept(q)
  <2>1. WillAccept(FromRegister(a)) /\ FromRegister(a) \in Seq(Steps)
    BY <1>1, WillAcceptNext, ShapeFacts DEF FromRegister
  <2>2. WillAccept(FromAim(a)) /\ FromAim(a) \in Seq(Steps)
    BY <2>1, WillAcceptNext, ShapeFacts DEF FromAim
  <2>3. WillAccept(Announcing("check", a)) /\ Announcing("check", a) \in Seq(Steps)
    BY <2>2, WillAcceptNext, ShapeFacts DEF PushOps, Announcing
  <2>4. WillAccept(FromSetSocket(a)) /\ FromSetSocket(a) \in Seq(Steps)
    BY <2>3, WillAcceptNext, ShapeFacts DEF FromSetSocket
  <2>5. WillAccept(FromSetSock(a)) /\ FromSetSock(a) \in Seq(Steps)
    BY <2>4, WillAcceptNext, ShapeFacts DEF FromSetSock
  <2>6. WillAccept(FromSetConn(a)) /\ FromSetConn(a) \in Seq(Steps)
    BY <2>5, WillAcceptNext, ShapeFacts DEF FromSetConn
  <2>7. WillAccept(FromSession(a)) /\ FromSession(a) \in Seq(Steps)
    BY <2>6, WillAcceptNext, ShapeFacts DEF FromSession
  <2>8. WillAccept(FromClose(a)) /\ FromClose(a) \in Seq(Steps)
    BY <2>7, WillAcceptNext, ShapeFacts DEF FromClose
  <2>9. WillAccept(FromEvents(a)) /\ FromEvents(a) \in Seq(Steps)
    BY <2>8, WillAcceptNext, ShapeFacts DEF FromEvents
  <2>10. WillAccept(FromPointers(a)) /\ FromPointers(a) \in Seq(Steps)
    BY <2>9, WillAcceptNext, ShapeFacts DEF FromPointers
  <2> QED BY <2>1, <2>2, <2>3, <2>4, <2>5, <2>6, <2>7, <2>8, <2>9, <2>10
<1> QED BY <1>1, <1>2

\* While the accept loop serves a client it has an accept() before it.
LEMMA AcceptComes ==
  ASSUME AcceptorInv, NEW op, At("acceptor", op), op \notin {"begin", "deaf", "accept", "crash"}
  PROVE  Tail(todo["acceptor"]) \in Seq(Steps) /\ WillAccept(Tail(todo["acceptor"]))
<1>1. CASE op = "fetch"
  BY <1>1, AcceptorAt, ShapesAccept DEF Is
<1>2. CASE op # "fetch"
  <2>1. PICK a \in HeldData : ServingStep(a)
    BY <1>2, AcceptorAt
  <2>2. Tail(todo["acceptor"]) \in {FromEvents(a), FromClose(a), FromSession(a), FromSetConn(a),
          FromSetSock(a), FromSetSocket(a), Announcing("check", a), FromAim(a), FromRegister(a),
          AfterAccept}
    BY <2>1 DEF ServingStep, Is
  <2> QED BY <2>2, ShapesAccept
<1> QED BY <1>1, <1>2

\* But not before it has the listening socket.
LEMMA BeginIsAlone ==
  /\ ~WillAccept(Beginning)
  /\ AcceptorInv /\ At("acceptor", "begin") => todo["acceptor"] = Beginning
<1>1. ~WillAccept(Beginning)
  BY DEF WillAccept, Beginning, Step
<1>2. AcceptorInv /\ At("acceptor", "begin") => todo["acceptor"] = Beginning
  BY AtBegin
<1> QED BY <1>1, <1>2

\* Before DisposerBegin made the listening socket no client waits for it.
BacklogInv ==
  /\ todo["acceptor"] = Beginning => backlog.clients = 0
  /\ NobodyIsLeftWaiting

\* An accept() before the accept loop is enough.
LEMMA AcceptIsEnough ==
  /\ WillAccept(todo["acceptor"]) => BacklogInv
  /\ WillAccept(todo'["acceptor"]) => BacklogInv'
BY BeginIsAlone DEF BacklogInv, NobodyIsLeftWaiting, WillAccept

\* While the accept loop serves a client it comes back to accept().
LEMMA ServingComesBack ==
  ASSUME AcceptorInv, StepsInv, NEW op, At("acceptor", op),
         op \notin {"begin", "deaf", "accept", "crash"},
         NEW s, s = <<>> \/ \E x : s = <<x>>, Continue("acceptor", s)
  PROVE  BacklogInv'
<1>1. Tail(todo["acceptor"]) \in Seq(Steps) /\ WillAccept(Tail(todo["acceptor"]))
  BY AcceptComes
<1>2. WillAccept(s \o Tail(todo["acceptor"]))
  BY <1>1, WillAcceptNext
<1>3. todo'["acceptor"] = s \o Tail(todo["acceptor"])
  BY DEF Continue, StepsInv, Threads
<1> QED BY <1>2, <1>3, AcceptIsEnough

\* What the accept loop does not take part in changes nothing about it.
LEMMA BacklogKept ==
  ASSUME BacklogInv, todo'["acceptor"] = todo["acceptor"], backlog' = backlog
  PROVE  BacklogInv'
BY DEF BacklogInv, NobodyIsLeftWaiting, At

\* The accept loop itself.
LEMMA AcceptorBacklog ==
  ASSUME StepsInv, AcceptorInv, KernelInv, BacklogInv, Acceptor
  PROVE  BacklogInv'
<1>1. todo \in [Threads -> Seq(Steps)] /\ "acceptor" \in Threads
  BY DEF StepsInv, Threads
<1>2. CASE DisposerBegin
  <2>1. AcceptorInv /\ At("acceptor", "begin") /\ backlog' = backlog
    BY <1>2 DEF DisposerBegin, kernel
  <2>2. todo["acceptor"] = Beginning
    BY <2>1, BeginIsAlone
  <2>3. backlog'.clients = 0
    BY <2>1, <2>2 DEF BacklogInv
  <2> QED BY <2>3 DEF BacklogInv, NobodyIsLeftWaiting
<1>3. CASE EpollWait
  BY <1>1, <1>3, AcceptIsEnough, ShapesAccept DEF EpollWait, AfterAccept
<1>4. CASE NoSession
  BY <1>1, <1>4, AcceptIsEnough, ShapesAccept DEF NoSession
<1>5. CASE Accept
  <2>1. Tail(todo["acceptor"]) = <<>> /\ At("acceptor", "accept")
    BY <1>5, AcceptorAt DEF Accept
  <2>2. ASSUME NEW s \in Seq(Steps), Continue("acceptor", s) PROVE todo'["acceptor"] = s
    <3>1. s \o <<>> = s
      OBVIOUS
    <3> QED BY <1>1, <2>1, <2>2, <3>1 DEF Continue
  <2>4. CASE Continue("acceptor", AfterAccept)
    BY <2>2, <2>4, AcceptIsEnough, ShapesAccept
  <2>5. ASSUME NEW a, Continue("acceptor", <<Step("fetch", a)>> \o AfterAccept)
        PROVE  BacklogInv'
    <3>1. <<Step("fetch", a)>> \in Seq(Steps \cup {Step("fetch", a)})
          /\ AfterAccept \in Seq(Steps \cup {Step("fetch", a)})
      BY ShapesAccept
    <3>2. todo'["acceptor"] = <<Step("fetch", a)>> \o AfterAccept
      <4>1. PICK s : s = <<Step("fetch", a)>> \o AfterAccept
        OBVIOUS
      <4>2. s \o <<>> = s
        BY <3>1, <4>1
      <4> QED BY <1>1, <2>1, <2>5, <4>1, <4>2 DEF Continue
    <3> QED BY <3>2, AcceptIsEnough, ShapesAccept, WillAcceptNext
  <2>6. CASE LowestFd = 0 /\ Continue("acceptor", <<>>)
    <3>1. todo'["acceptor"] # Beginning
      <4>1. <<>> \in Seq(Steps) /\ Beginning # <<>>
        BY DEF Beginning
      <4> QED BY <2>2, <2>6, <4>1
    <3>2. backlog' = [backlog EXCEPT !.clients = @ - 1,
                                     !.refused = LowestFd = 0 /\ backlog.clients > 1]
      BY <1>5 DEF Accept
    <3>6. backlog \in [clients : Nat, edge : BOOLEAN, refused : BOOLEAN] /\ backlog.clients \in Nat
      BY DEF KernelInv
    <3>3. PICK n \in Int : n = backlog.clients - 1
      BY <3>6
    <3>7. PICK b \in BOOLEAN : b = (1 < backlog.clients) /\ (1 < backlog.clients => b)
      BY <3>6, FlagOf
    <3>9. (backlog.clients > 1) = (1 < backlog.clients)
      BY <3>6
    <3>8. backlog' = [backlog EXCEPT !.clients = n, !.refused = b]
      BY <2>6, <3>2, <3>3, <3>7, <3>9
    <3>4. backlog'.clients = n /\ backlog'.refused = b
      BY <3>6, <3>8
    <3>5. n > 0 => b
      BY <3>3, <3>6, <3>7
    <3> QED BY <3>1, <3>4, <3>5 DEF BacklogInv, NobodyIsLeftWaiting
  <2> QED BY <1>5, <2>4, <2>5, <2>6 DEF Accept
<1>9. CASE AcceptFails
  <2>1. Tail(todo["acceptor"]) = <<>> /\ Continue("acceptor", <<>>)
    BY <1>9, AcceptorAt DEF AcceptFails
  <2>2. todo'["acceptor"] # Beginning
    <3>1. todo'["acceptor"] = <<>> \o <<>>
      BY <1>1, <2>1 DEF Continue
    <3>2. <<>> \o <<>> = <<>> /\ Beginning # <<>>
      BY DEF Beginning
    <3> QED BY <3>1, <3>2
  <2>3. PICK gone \in {0, 1} :
          backlog' = [backlog EXCEPT !.clients = @ - gone, !.refused = gone < backlog.clients]
    BY <1>9 DEF AcceptFails
  <2>7. backlog \in [clients : Nat, edge : BOOLEAN, refused : BOOLEAN] /\ backlog.clients \in Nat
    BY DEF KernelInv
  <2>4. PICK n \in Int : n = backlog.clients - gone
    BY <2>7
  <2>8. PICK b \in BOOLEAN : b = (gone < backlog.clients) /\ (gone < backlog.clients => b)
    BY <2>7, FlagOf
  <2>9. backlog' = [backlog EXCEPT !.clients = n, !.refused = b]
    BY <2>3, <2>4, <2>8
  <2>5. backlog'.clients = n /\ backlog'.refused = b
    BY <2>7, <2>9
  <2>6. n > 0 => b
    BY <2>4, <2>7, <2>8
  <2> QED BY <2>2, <2>5, <2>6 DEF BacklogInv, NobodyIsLeftWaiting
<1>6. CASE FetchConnection
  <2>1. PICK a \in FetchData : Is(Step("fetch", a), AfterAccept)
    BY <1>6, AcceptorAt DEF FetchConnection
  <2>2. \E b : Continue("acceptor", AcceptSteps(b))
    BY <1>6 DEF FetchConnection
  <2>3. PICK b : Continue("acceptor", AcceptSteps(b))
    BY <2>2
  <2>4. PICK S : S = Steps \cup {AcceptSteps(b)[i] : i \in DOMAIN AcceptSteps(b)}
    OBVIOUS
  <2>5. AcceptSteps(b) \in Seq(S) /\ AfterAccept \in Seq(S)
    BY <2>4, ShapesAccept DEF AcceptSteps, PushEvent
  <2>6. WillAccept(AcceptSteps(b) \o AfterAccept)
    BY <2>5, ShapesAccept, WillAcceptAfter
  <2> QED BY <1>1, <2>1, <2>3, <2>6, AcceptIsEnough DEF Is, Continue
<1>7. CASE \/ InitPointers \/ InitEvents \/ InitClose \/ SetSession \/ SetConnection \/ SetSock
           \/ SetSocket \/ Register
  <2>1. PICK op \in {"pointers", "events", "bclose", "session", "setconn", "setsock", "setsocket",
                     "register"} : At("acceptor", op)
    BY <1>7 DEF InitPointers, InitEvents, InitClose, SetSession, SetConnection, SetSock, SetSocket,
                Register, Assign
  <2>2. Continue("acceptor", <<>>)
    BY <1>7 DEF InitPointers, InitEvents, InitClose, SetSession, SetConnection, SetSock, SetSocket,
                Register, Assign
  <2> QED BY <2>1, <2>2, ServingComesBack
<1>8. CASE Run("acceptor")
  <2>1. PICK op \in PushOps \cup ConnOps \cup SockOps : At("acceptor", op)
    BY <1>8 DEF Run, CheckClose, PushNet, PushEventQueue, CloseConnection, CloseSocket, Uninit,
           CloseFd, ClearFd, Detach, ReleaseConnection, ReleaseSocket, Send, SendTo, IsConnected, Aim,
           SendEpollMess, PushOps, ConnOps, SockOps
  <2>2. op \in PushOps \cup {"aim"} /\ op \notin {"begin", "deaf", "accept", "crash"}
    BY <2>1, AcceptorRuns DEF PushOps
  <2>3. CheckClose("acceptor") \/ PushNet("acceptor") \/ PushEventQueue("acceptor") \/ Aim("acceptor")
    BY <1>8, <2>1, <2>2 DEF Run, CloseConnection, CloseSocket, Uninit, CloseFd, ClearFd,
         Detach, ReleaseConnection, ReleaseSocket, Send, SendTo, IsConnected, SendEpollMess, At, PushOps
  <2>4. PICK s : (s = <<>> \/ \E x : s = <<x>>) /\ Continue("acceptor", s)
    BY <2>3, Zenon DEF CheckClose, PushNet, PushEventQueue, Aim, Token, Crash
  <2> QED BY <2>1, <2>2, <2>4, ServingComesBack
<1> QED BY <1>2, <1>3, <1>4, <1>5, <1>6, <1>7, <1>8, <1>9 DEF Acceptor

\* Other threads take no part in it.
LEMMA OthersBacklog ==
  ASSUME StepsInv, KernelInv, BacklogInv, NEW t \in Threads, t # "acceptor",
         Run(t) \/ (t = "main" /\ Main) \/ (t \in EpollThreads /\ (Report(t) \/ ReadLoop(t)))
  PROVE  BacklogInv'
<1>1. todo \in [Threads -> Seq(Steps)] /\ "acceptor" \in Threads /\ "main" # "acceptor"
  BY DEF StepsInv, Threads
<1>2. ASSUME NEW s, Continue(t, s) PROVE todo'["acceptor"] = todo["acceptor"]
  BY <1>1, <1>2 DEF Continue
<1>3. ASSUME NEW s, Continue("main", s) PROVE todo'["acceptor"] = todo["acceptor"]
  BY <1>1, <1>3 DEF Continue
<1>4. CASE Run(t)
  <2>1. PICK s : Continue(t, s)
    BY <1>4, Zenon
       DEF Run, CheckClose, PushNet, PushEventQueue, CloseConnection, CloseSocket, Uninit, CloseFd,
           ClearFd, Detach, ReleaseConnection, ReleaseSocket, Send, SendTo, IsConnected, Aim, SendEpollMess,
           Crash
  <2>2. backlog' = backlog
    BY <1>4
       DEF Run, CheckClose, PushNet, PushEventQueue, CloseConnection, CloseSocket, Uninit, CloseFd,
           ClearFd, Detach, ReleaseConnection, ReleaseSocket, Send, SendTo, IsConnected, Aim, SendEpollMess,
           kernel
  <2> QED BY <1>2, <2>1, <2>2, BacklogKept
<1>5. CASE Main /\ ~Run("main")
  <2>1. todo'["acceptor"] = todo["acceptor"]
    <3>1. CASE PopToken
      BY <1>1, <3>1 DEF PopToken
    <3>2. CASE ~PopToken
      <4>1. PICK s : Continue("main", s)
        BY <1>5, <3>2, Zenon DEF Main, ProcNothing, ProcInvalid, ProcConnected, ProcError, ProcRecv, ProcClose, Proc, Unlink,
                          ReleaseHeard, Crash
      <4> QED BY <1>3, <4>1
    <3> QED BY <3>1, <3>2
  <2>2. UNCHANGED backlog
    BY <1>5 DEF Main, PopToken, ProcNothing, ProcInvalid, ProcConnected, ProcError, ProcRecv, ProcClose, Proc,
                Unlink, ReleaseHeard, kernel
  <2> QED BY <2>1, <2>2, BacklogKept
<1>6. CASE t \in EpollThreads /\ (Report(t) \/ ReadLoop(t)) /\ ~Run(t)
  <2>1. todo'["acceptor"] = todo["acceptor"]
    <3>1. CASE Report(t)
      BY <1>1, <3>1 DEF Report
    <3>2. CASE ReadLoop(t) /\ ~Run(t)
      <4>1. PICK s : Continue(t, s)
        BY <3>2, Zenon DEF ReadLoop, GetSock, ReadPacket, ReadBadPacket, SocketError, PeerCloses,
                           WriteLoop, Rearm, ReadNothing, Turn
      <4> QED BY <1>2, <4>1
    <3> QED BY <1>6, <3>1, <3>2
  <2>2. UNCHANGED backlog
    BY <1>6 DEF Report, ReadLoop, GetSock, ReadPacket, ReadBadPacket, SocketError, PeerCloses,
                WriteLoop, Rearm, ReadNothing, Turn, kernel
  <2> QED BY <2>1, <2>2, BacklogKept
<1> QED BY <1>4, <1>5, <1>6

\* So it is with every step, and at first no client waits.
LEMMA BacklogInductive ==
  /\ Init => BacklogInv
  /\ IInv /\ BacklogInv /\ [Next]_vars => BacklogInv'
<1>1. ASSUME Init PROVE BacklogInv
  <2>1. backlog.clients = 0
    BY <1>1 DEF Init
  <2> QED BY <2>1 DEF BacklogInv, NobodyIsLeftWaiting
<1>2. ASSUME IInv, BacklogInv, [Next]_vars PROVE BacklogInv'
  <2>1. StepsInv /\ AcceptorInv /\ KernelInv
    BY <1>2 DEF IInv, DataInv
  <2>2. CASE ClientConnects
    <3>1. /\ ~At("acceptor", "begin") /\ todo' = todo /\ peer' = peer
          /\ backlog'.edge = TRUE
      BY <2>2 DEF ClientConnects
    <3>2. todo["acceptor"] # Beginning
      BY <3>1 DEF At, Beginning, Step
    <3> QED BY <3>1, <3>2 DEF BacklogInv, NobodyIsLeftWaiting
  <2>3. CASE Acceptor
    BY <1>2, <2>1, <2>3, AcceptorBacklog
  <2>4. CASE Main
    BY <1>2, <2>1, <2>4, OtherThreads, OthersBacklog
  <2>5. ASSUME NEW t \in EpollThreads, Report(t) \/ ReadLoop(t) PROVE BacklogInv'
    BY <1>2, <2>1, <2>5, OtherThreads, OthersBacklog
  <2>6. CASE UNCHANGED vars
    BY <1>2, <2>6, BacklogKept DEF vars, kernel
  <2> QED BY <1>2, <2>2, <2>3, <2>4, <2>5, <2>6 DEF Next, PollNothing
<1> QED BY <1>1, <1>2

\* DisposerWork drains the edge-triggered listening socket: clients wait in the backlog only
\* while epoll will still report them, the loop is not through or it has no sockets, or since
\* accept() failed.  (When another thread has closed descriptor 0, the standard input, accept()
\* returns it, which the loop takes for a failure.)
THEOREM BacklogIsDrained == Spec => []NobodyIsLeftWaiting
<1>1. BacklogInv => NobodyIsLeftWaiting
  BY DEF BacklogInv
<1> QED BY <1>1, Invariance, BacklogInductive, PTL DEF Spec

================================================================================
