---------------------------- MODULE NetFirstUseProofs ----------------------------
(***************************************************************************)
(* Proofs about NetEvents as long as no connection and no socket is handed *)
(* out again.  The pools are FIFOs, so that is so until more clients have  *)
(* been accepted than there are objects in a pool.  What the accept loop   *)
(* takes is then new: no thread knows of it until the loop has announced   *)
(* it, and only what is announced is closed.                               *)
(***************************************************************************)
EXTENDS NetEventsProofs

\* So many clients can be served with objects that nobody had before.
FirstUse == accepted <= Cardinality(Conns) /\ accepted <= Cardinality(Socks)

--------------------------------------------------------------------------------
(* What is announced                                                        *)

\* CONNECTED was pushed for the connection: it is in m_eventNet, or was heard.
Announced == {c \in Conns : \/ conn[c].eventNet # <<>>
                            \/ conn[c].session # NULL /\ heard[conn[c].session] # {}}
Reachable == {s \in Linked : sock[s].conn \in Announced}

\* What the other threads do is about connections K and sockets S: a push or a token is
\* only ever the step they are at, and their events are not CONNECTED.
OpenData(K)    == [conn : K, event : ENetEvtType \ {"CONNECTED"}]
PlainOn(K, S) ==
  [op : {"check"}, of : OpenData(K)] \cup [op : ConnOps \ {"proc"}, of : K] \cup [op : SockOps, of : S]
    \cup [op : ReadOps, of : [sock : S, fd : Fds]] \cup [op : {"crash"}, of : Threads]
FirstOn(K) == [op : {"net", "module"}, of : OpenData(K)] \cup [op : {"proc"}, of : K]

IsCall(q, K, S) ==
  q # <<>> => Head(q) \in PlainOn(K, S) \cup FirstOn(K) /\ Tail(q) \in Seq(PlainOn(K, S))

\* They know nothing else, nor do the queue, the epoll sets and the connections.
CallsInv == \A t \in Threads \ {"acceptor"} : IsCall(todo[t], Announced, Reachable)
LinksInv ==
  /\ eventQueue \in Seq(Announced)
  /\ epEvent \in [EpollThreads -> Reachable \cup {NULL, NoThread}]
  /\ \A f \in Fds : watched[f].thread \in EpollThreads => watched[f].sock \in Reachable
OwnInv ==
  \A c \in Announced : /\ conn[c].poSocket \in Reachable \cup {NULL}
                       /\ conn[c].session \in Clients
                       /\ sessConn[conn[c].session] \in {c, NULL}

\* Each connection has a session of its own, and no session heard anything before its client.
SessionsInv ==
  /\ \A c \in Conns : conn[c].session \in 0 .. accepted
  /\ \A c, d \in Conns : conn[c].session = conn[d].session /\ conn[c].session # NULL => c = d
  /\ \A k \in Clients : k > accepted => heard[k] = {}

--------------------------------------------------------------------------------
(* What is new                                                              *)

NewConns     == {c \in Conns : conn[c].session = NULL /\ conn[c].eventNet = <<>>}
NewSocks     == {s \in Socks : sock[s].conn = NULL}
NewClient(k) == k = accepted /\ heard[k] = {} /\ \A c \in Conns : conn[c].session # k

\* The connection has a session, which does not know it yet.
Made(c) == LET k == conn[c].session
           IN  k \in Clients /\ heard[k] = {} /\ sessConn[k] = c /\ conn[c].eventNet = <<>>

\* The first n of a free list are different ones of new.
Left(free, n, new) ==
  /\ n <= Len(free)
  /\ \A i \in 1 .. n : free[i] \in new
  /\ \A i, j \in 1 .. n : free[i] = free[j] => i = j

\* There is a new one for every client to come, and n more connections.
Reserve(n, newConns, newSocks) ==
  /\ Left(connPool.free, Cardinality(Conns) - accepted + n, newConns)
  /\ Left(sockPool.free, Cardinality(Socks) - accepted, newSocks)

Stage(a) ==
  \/ /\ todo["acceptor"] \in {FromPointers(a), FromEvents(a), FromClose(a), FromSession(a)}
     /\ NewClient(a.client) /\ a.sock \in NewSocks /\ a.conn \in NewConns
     /\ Reserve(0, NewConns \ {a.conn}, NewSocks \ {a.sock})
  \/ /\ todo["acceptor"] = FromSetConn(a)
     /\ Made(a.conn) /\ a.sock \in NewSocks
     /\ Reserve(0, NewConns, NewSocks \ {a.sock})
  \/ /\ sock[a.sock].conn = a.conn
     /\ Reserve(0, NewConns, NewSocks)
     /\ \/ todo["acceptor"] \in {FromSetSock(a), FromSetSocket(a)} /\ Made(a.conn)
        \/ /\ todo["acceptor"] \in {Announcing("check", a), Announcing("net", a)}
           /\ Made(a.conn) /\ conn[a.conn].poSocket \in {a.sock, NULL}
        \/ /\ todo["acceptor"] \in {Announcing("module", a), FromAim(a), FromRegister(a)}
           /\ a.conn \in Announced

\* What the accept loop holds is new until it has announced it.
StageInv ==
  \/ /\ todo["acceptor"] \in {<<>>, AfterAccept, <<Step("begin", "acceptor")>>,
                              <<Step("deaf", "acceptor")>>}
     /\ Reserve(0, NewConns, NewSocks)
  \/ \E a \in FetchData :
       /\ todo["acceptor"] = FromFetch(a)
       /\ NewClient(a.client) /\ a.sock \in NewSocks
       /\ Reserve(1, NewConns, NewSocks \ {a.sock})
  \/ \E a \in HeldData : Stage(a)
  \/ At("acceptor", "crash")

--------------------------------------------------------------------------------
(* What follows for the events                                              *)

ConnectInv ==
  \A c \in Announced :
    \/ "CONNECTED" \in heard[conn[c].session]
    \/ conn[c].eventNet # <<>> /\ Head(conn[c].eventNet) = "CONNECTED"

ClosersOf(c) == {t \in PushersAt("net", c) : Of(t).event = "CLOSE"}
Closings(c) ==
  Occurrences(conn[c].eventNet, "CLOSE") + Cardinality(ClosersOf(c))
                                         + Cardinality(Hears(c) \cap {"CLOSE"})

\* A connection that is open was not closed.
CloseInv  == \A c \in Announced : Closings(c) <= (IF conn[c].bClose THEN 1 ELSE 0)
TokensInv == \A c \in Conns : Tokens(c) <= Len(conn[c].eventNet)

\* No connection is initialised while another thread is at its queue of events.
IntactInv == \A c \in Conns : ~conn[c].torn

KnownInv   == CallsInv /\ LinksInv /\ OwnInv /\ SessionsInv /\ StageInv
EventsInv  == ConnectInv /\ CloseInv /\ TokensInv
FirstInv   == FirstUse => KnownInv /\ EventsInv /\ IntactInv /\ ConnectIsHeardFirst

Plain == PlainOn(Announced, Reachable)

--------------------------------------------------------------------------------
(* Calls                                                                    *)

\* What a plain step is about.
LEMMA PlainFacts ==
  ASSUME NEW K, NEW S, NEW x \in PlainOn(K, S)
  PROVE  /\ x.op = "check" => x.of \in OpenData(K)
         /\ x.op \in ConnOps => x.of \in K
         /\ x.op \in SockOps => x.of \in S
         /\ x.op \in ReadOps => x.of \in [sock : S, fd : Fds]
         /\ x.op \notin {"net", "module", "proc"}
         /\ x.op \in {"check", "crash"} \cup ConnOps \cup SockOps \cup ReadOps
BY DEF PlainOn, ConnOps, SockOps, ReadOps

\* And a push or a token.
LEMMA FirstFacts ==
  ASSUME NEW K, NEW x \in FirstOn(K)
  PROVE  /\ x.op \in {"net", "module"} => x.of \in OpenData(K)
         /\ x.op = "proc" => x.of \in K
         /\ x.op \in {"net", "module", "proc"}
BY DEF FirstOn

\* How to make them.
LEMMA PlainMade ==
  ASSUME NEW K, NEW S
  PROVE  /\ \A d \in OpenData(K) : Step("check", d) \in PlainOn(K, S)
         /\ \A c \in K : \A op \in ConnOps \ {"proc"} : Step(op, c) \in PlainOn(K, S)
         /\ \A x \in S : \A op \in SockOps : Step(op, x) \in PlainOn(K, S)
         /\ \A x \in S, f \in Fds : \A op \in ReadOps :
              Step(op, [sock |-> x, fd |-> f]) \in PlainOn(K, S)
         /\ \A t \in Threads : Step("crash", t) \in PlainOn(K, S)
         /\ \A d \in OpenData(K) : \A op \in {"net", "module"} : Step(op, d) \in FirstOn(K)
         /\ \A c \in K : Step("proc", c) \in FirstOn(K)
<1>1. \A d \in OpenData(K) : Step("check", d) \in PlainOn(K, S)
  BY DEF PlainOn, Step
<1>2. \A c \in K : \A op \in ConnOps \ {"proc"} : Step(op, c) \in PlainOn(K, S)
  BY DEF PlainOn, Step
<1>3. \A x \in S : \A op \in SockOps : Step(op, x) \in PlainOn(K, S)
  BY DEF PlainOn, Step
<1>4. \A x \in S, f \in Fds : \A op \in ReadOps :
        Step(op, [sock |-> x, fd |-> f]) \in PlainOn(K, S)
  BY DEF PlainOn, Step
<1>5. \A t \in Threads : Step("crash", t) \in PlainOn(K, S)
  BY DEF PlainOn, Step
<1>6. /\ \A d \in OpenData(K) : \A op \in {"net", "module"} : Step(op, d) \in FirstOn(K)
      /\ \A c \in K : Step("proc", c) \in FirstOn(K)
  BY DEF FirstOn, Step
<1> QED BY <1>1, <1>2, <1>3, <1>4, <1>5, <1>6

\* Plain steps before plain ones, or before nothing; one push or token first.
LEMMA Calls ==
  ASSUME NEW K, NEW S
  PROVE  /\ <<>> \in Seq(PlainOn(K, S)) /\ \A x \in PlainOn(K, S) : <<x>> \in Seq(PlainOn(K, S))
         /\ \A p, q \in Seq(PlainOn(K, S)) : p \o q \in Seq(PlainOn(K, S))
         /\ \A q \in Seq(PlainOn(K, S)) : IsCall(q, K, S)
         /\ \A x \in FirstOn(K) : \A q \in Seq(PlainOn(K, S)) :
              IsCall(<<x>> \o q, K, S) /\ <<x>> \o q # <<>> /\ Head(<<x>> \o q) = x
<1>1. <<>> \in Seq(PlainOn(K, S)) /\ \A x \in PlainOn(K, S) : <<x>> \in Seq(PlainOn(K, S))
  OBVIOUS
<1>2. \A p, q \in Seq(PlainOn(K, S)) : p \o q \in Seq(PlainOn(K, S))
  BY ConcatProperties
<1>3. \A q \in Seq(PlainOn(K, S)) : IsCall(q, K, S)
  BY HeadTailProperties DEF IsCall
<1>4. ASSUME NEW x \in FirstOn(K), NEW q \in Seq(PlainOn(K, S))
      PROVE  IsCall(<<x>> \o q, K, S) /\ <<x>> \o q # <<>> /\ Head(<<x>> \o q) = x
  <2>1. q \in Seq(PlainOn(K, S) \cup FirstOn(K)) /\ x \in PlainOn(K, S) \cup FirstOn(K)
    OBVIOUS
  <2>2. <<x>> \o q # <<>> /\ Head(<<x>> \o q) = x /\ Tail(<<x>> \o q) = q
    BY <2>1, ConsFacts
  <2> QED BY <2>1, <2>2 DEF IsCall
<1> QED BY <1>1, <1>2, <1>3, <1>4

\* What is reachable and announced makes calls on what is.
LEMMA PlainSequences ==
  /\ \A c \in Announced, e \in ENetEvtType \ {"CONNECTED"} : PushEvent(c, e) \in Seq(Plain)
  /\ \A c \in Announced : ConnClose(c) \in Seq(Plain) /\ ConnSend(c) \in Seq(Plain)
  /\ \A s \in Reachable : SocketClose(s) \in Seq(Plain)
<1>1. ASSUME NEW c \in Announced, NEW e \in ENetEvtType \ {"CONNECTED"}
      PROVE  PushEvent(c, e) \in Seq(Plain)
  <2>1. [conn |-> c, event |-> e] \in OpenData(Announced)
    BY DEF OpenData
  <2>2. EventStep("check", c, e) \in Plain
    BY <2>1, PlainMade DEF EventStep, Plain
  <2> QED BY <2>2 DEF PushEvent
<1>2. \A c \in Announced : ConnClose(c) \in Seq(Plain) /\ ConnSend(c) \in Seq(Plain)
  <2>1. \A c \in Announced : Step("close", c) \in Plain /\ Step("send", c) \in Plain
    BY PlainMade DEF Plain, ConnOps
  <2> QED BY <2>1 DEF ConnClose, ConnSend
<1>3. ASSUME NEW s \in Reachable PROVE SocketClose(s) \in Seq(Plain)
  <2>1. PushEvent(sock[s].conn, "CLOSE") \in Seq(Plain)
    BY <1>1 DEF Reachable, ENetEvtType
  <2>2. Step("uninit", s) \in Plain
    BY PlainMade DEF Plain, SockOps
  <2>3. PushEvent(sock[s].conn, "CLOSE") \o <<Step("uninit", s)>> \in Seq(Plain)
    BY <2>1, <2>2
  <2> QED BY <2>3 DEF SocketClose
<1> QED BY <1>1, <1>2, <1>3

\* What a thread other than the accept loop is at.
LEMMA CallAt ==
  ASSUME CallsInv, NEW t \in Threads \ {"acceptor"}, todo[t] # <<>>
  PROVE  LET op == Head(todo[t]).op
         IN  /\ op \in PushOps => Of(t) \in OpenData(Announced)
             /\ op \in ConnOps => Of(t) \in Announced
             /\ op \in SockOps => Of(t) \in Reachable
             /\ op \in ReadOps => Of(t) \in [sock : Reachable, fd : Fds]
             /\ Tail(todo[t]) \in Seq(Plain)
             /\ op \notin {"net", "module", "proc"} => Head(todo[t]) \in Plain
<1>1. IsCall(todo[t], Announced, Reachable)
  BY DEF CallsInv
<1>2. Head(todo[t]) \in Plain \cup FirstOn(Announced) /\ Tail(todo[t]) \in Seq(Plain)
  BY <1>1 DEF IsCall, Plain
<1>3. CASE Head(todo[t]) \in Plain
  BY <1>2, <1>3, PlainFacts DEF Plain, Of, PushOps
<1>4. CASE Head(todo[t]) \in FirstOn(Announced)
  BY <1>2, <1>4, FirstFacts DEF Of, PushOps, ConnOps, SockOps, ReadOps
<1> QED BY <1>2, <1>3, <1>4

--------------------------------------------------------------------------------
(* The free lists                                                           *)

\* Fewer, or ones of a larger set, are left too.
LEMMA LeftOver ==
  ASSUME NEW free, NEW n \in Int, NEW m \in Int, m <= n, NEW A, NEW B, A \subseteq B,
         Left(free, n, A), Len(free) \in Nat
  PROVE  Left(free, m, B)
<1>1. n <= Len(free) /\ (\A i \in 1 .. n : free[i] \in A)
      /\ \A i, j \in 1 .. n : free[i] = free[j] => i = j
  BY DEF Left
<1>2. 1 .. m \subseteq 1 .. n /\ m <= Len(free)
  BY <1>1
<1> QED BY <1>1, <1>2 DEF Left

\* What comes back to the pool goes to the end of the list.
LEMMA LeftAppend ==
  ASSUME NEW O, NEW free \in Seq(O), NEW x \in O, NEW n \in Int, NEW A, Left(free, n, A)
  PROVE  Left(Append(free, x), n, A)
<1>1. /\ n <= Len(free) /\ Len(free) \in Nat
      /\ (\A i \in 1 .. n : free[i] \in A)
      /\ \A i, j \in 1 .. n : free[i] = free[j] => i = j
  BY LenProperties DEF Left
<1>2. Len(Append(free, x)) = Len(free) + 1 /\ \A i \in 1 .. Len(free) : Append(free, x)[i] = free[i]
  BY AppendProperties
<1>3. n <= Len(Append(free, x)) /\ \A i \in 1 .. n : Append(free, x)[i] = free[i]
  BY <1>1, <1>2
<1> QED BY <1>1, <1>3 DEF Left

\* What is taken is new, and none of those that are left.
LEMMA LeftTail ==
  ASSUME NEW O, NEW free \in Seq(O), NEW n \in Int, n >= 1, NEW A, Left(free, n, A)
  PROVE  /\ free # <<>> /\ Head(free) \in A
         /\ Left(Tail(free), n - 1, A \ {Head(free)})
<1>1. /\ n <= Len(free) /\ Len(free) \in Nat
      /\ (\A i \in 1 .. n : free[i] \in A)
      /\ \A i, j \in 1 .. n : free[i] = free[j] => i = j
  BY LenProperties DEF Left
<1>2. free # <<>> /\ Head(free) = free[1] /\ Len(Tail(free)) = Len(free) - 1
      /\ \A i \in 1 .. Len(free) - 1 : Tail(free)[i] = free[i + 1]
  <2>1. free # <<>>
    BY <1>1
  <2> QED BY <1>1, <2>1, HeadTailProperties, LenProperties
<1>3. Head(free) \in A
  BY <1>1, <1>2
<1>4. \A i \in 1 .. n - 1 : i + 1 \in 1 .. n /\ i \in 1 .. Len(free) - 1 /\ i + 1 # 1
  BY <1>1
<1>5. \A i \in 1 .. n - 1 : Tail(free)[i] = free[i + 1]
  BY <1>2, <1>4
<1>6. \A i \in 1 .. n - 1 : Tail(free)[i] \in A \ {Head(free)}
  <2>1. 1 \in 1 .. n
    OBVIOUS
  <2> QED BY <1>1, <1>2, <1>4, <1>5, <2>1
<1>7. \A i, j \in 1 .. n - 1 : Tail(free)[i] = Tail(free)[j] => i = j
  <2>1. ASSUME NEW i \in 1 .. n - 1, NEW j \in 1 .. n - 1, Tail(free)[i] = Tail(free)[j] PROVE i = j
    <3>1. i + 1 = j + 1
      BY <1>1, <1>4, <1>5, <2>1
    <3> QED BY <3>1
  <2> QED BY <2>1
<1>8. n - 1 <= Len(Tail(free))
  BY <1>1, <1>2
<1> QED BY <1>2, <1>3, <1>6, <1>7, <1>8 DEF Left

\* A list stays the same or something comes back to it.
Grows(p, q, O) == q = p \/ \E x \in O : q = Append(p, x)

\* What was left of it is left then.
LEMMA LeftGrows ==
  ASSUME NEW O, NEW p \in Seq(O), NEW q, Grows(p, q, O), NEW n \in Int, NEW A, NEW B, A \subseteq B,
         Left(p, n, A)
  PROVE  Left(q, n, B)
<1>1. Left(q, n, A) /\ Len(q) \in Nat
  <2>1. CASE q = p
    BY <2>1, LenProperties
  <2>2. ASSUME NEW x \in O, q = Append(p, x) PROVE Left(q, n, A) /\ Len(q) \in Nat
    BY <2>2, LeftAppend, AppendProperties, LenProperties
  <2> QED BY <2>1, <2>2 DEF Grows
<1> QED BY <1>1, LeftOver

\* As it does when an object is released.
LEMMA ReleasedGrows ==
  ASSUME NEW O, NEW p, NEW x \in O
  PROVE  Grows(p.free, Released(p, x).free, O)
BY DEF Grows, Released

\* The numbers of objects.
LEMMA Counts ==
  ASSUME accepted \in Nat
  PROVE  /\ Cardinality(Conns) \in Nat /\ Cardinality(Socks) \in Nat
         /\ Cardinality(Conns) - accepted + 0 \in Int /\ Cardinality(Conns) - accepted + 1 \in Int
         /\ Cardinality(Socks) - accepted \in Int
<1>1. Cardinality(Conns) \in Nat /\ Cardinality(Socks) \in Nat
  BY NetAssumption, FS_CardinalityType
<1> QED BY <1>1

\* So what the clients to come need stays in the pools while they grow.
LEMMA ReserveKept ==
  ASSUME PoolsInv, accepted \in Nat, accepted' = accepted,
         Grows(connPool.free, connPool'.free, Conns), Grows(sockPool.free, sockPool'.free, Socks),
         NEW n \in {0, 1}, NEW A, NEW B, NEW C, NEW D, A \subseteq C, B \subseteq D, Reserve(n, A, B)
  PROVE  /\ Left(connPool'.free, Cardinality(Conns) - accepted' + n, C)
         /\ Left(sockPool'.free, Cardinality(Socks) - accepted', D)
<1>1. connPool.free \in Seq(Conns) /\ sockPool.free \in Seq(Socks)
  BY DEF PoolsInv, Pools
<1>2. Cardinality(Conns) - accepted + n \in Int /\ Cardinality(Socks) - accepted \in Int
  BY Counts
<1>3. /\ Left(connPool.free, Cardinality(Conns) - accepted + n, A)
      /\ Left(sockPool.free, Cardinality(Socks) - accepted, B)
  BY DEF Reserve
<1>4. Left(connPool'.free, Cardinality(Conns) - accepted + n, C)
  BY <1>1, <1>2, <1>3, LeftGrows
<1>5. Left(sockPool'.free, Cardinality(Socks) - accepted, D)
  BY <1>1, <1>2, <1>3, LeftGrows
<1> QED BY <1>4, <1>5

--------------------------------------------------------------------------------
(* What a step leaves alone                                                 *)

\* Another thread than the accept loop changes nothing but what is announced.
OnlyKnown ==
  /\ accepted' = accepted /\ todo'["acceptor"] = todo["acceptor"]
  /\ \A x \in Socks : sock'[x].conn = sock[x].conn
  /\ Grows(connPool.free, connPool'.free, Conns) /\ Grows(sockPool.free, sockPool'.free, Socks)
  /\ \A c \in Conns : /\ conn'[c].session = conn[c].session
                      /\ conn'[c].poSocket \in {conn[c].poSocket, NULL}
                      /\ c \notin Announced => conn'[c].eventNet = conn[c].eventNet
                      /\ c \in Announced => \/ conn'[c].eventNet # <<>>
                                            \/ heard'[conn[c].session] # {}
  /\ \A k \in Clients : heard'[k] # heard[k] => \E c \in Announced : conn[c].session = k
  /\ \A k \in Clients : sessConn'[k] # sessConn[k] =>
                          sessConn'[k] = NULL /\ \E c \in Announced : conn[c].session = k

\* So the same connections are announced.
LEMMA AnnouncedKept ==
  ASSUME IInv, OwnInv, SessionsInv, OnlyKnown
  PROVE  Announced' = Announced /\ Reachable' = Reachable
<1>1. ASSUME NEW c \in Conns PROVE c \in Announced' <=> c \in Announced
  <2>1. CASE c \in Announced
    BY <2>1, NetAssumption DEF Announced, OnlyKnown, OwnInv, Clients, NULL
  <2>2. CASE c \notin Announced
    <3>1. conn'[c].eventNet = <<>> /\ conn'[c].session = conn[c].session
      BY <2>2 DEF OnlyKnown, Announced
    <3>2. ASSUME conn[c].session # NULL PROVE heard'[conn[c].session] = {}
      <4>1. heard[conn[c].session] = {} /\ conn[c].session \in Clients
        BY <2>2, <3>2 DEF Announced, IInv, DataInv, ConnInv
      <4>2. \A d \in Announced : conn[d].session # conn[c].session
        BY <2>2, <3>2 DEF SessionsInv, Announced
      <4> QED BY <4>1, <4>2 DEF OnlyKnown
    <3> QED BY <2>2, <3>1, <3>2 DEF Announced
  <2> QED BY <2>1, <2>2
<1>2. Announced' = Announced
  BY <1>1 DEF Announced
<1>3. Linked' = Linked
  BY DEF OnlyKnown, Linked
<1>4. Reachable' = Reachable
  BY <1>2, <1>3 DEF OnlyKnown, Reachable, Linked
<1> QED BY <1>2, <1>4

\* And what is new stays new.
LEMMA NewKept ==
  ASSUME IInv, OwnInv, SessionsInv, OnlyKnown
  PROVE  /\ NewConns \subseteq NewConns' /\ NewSocks = NewSocks'
         /\ \A k \in Clients : NewClient(k) => NewClient(k)'
         /\ \A c \in Conns : Made(c) => Made(c)'
<1>1. NewConns \subseteq NewConns'
  BY DEF NewConns, OnlyKnown, Announced
<1>2. NewSocks = NewSocks'
  BY DEF NewSocks, OnlyKnown
<1>3. ASSUME NEW k \in Clients, NewClient(k) PROVE NewClient(k)'
  <2>1. heard'[k] = heard[k]
    BY <1>3 DEF NewClient, OnlyKnown, Announced
  <2> QED BY <1>3, <2>1 DEF NewClient, OnlyKnown
<1>4. ASSUME NEW c \in Conns, Made(c) PROVE Made(c)'
  <2>1. PICK k \in Clients : k = conn[c].session
    BY <1>4 DEF Made
  <2>2. heard[k] = {} /\ sessConn[k] = c /\ conn[c].eventNet = <<>> /\ k # NULL
    BY <1>4, <2>1, NetAssumption DEF Made, Clients, NULL
  <2>3. c \notin Announced
    BY <2>1, <2>2 DEF Announced
  <2>4. \A d \in Announced : conn[d].session # k
    BY <2>1, <2>2, <2>3 DEF SessionsInv, Announced
  <2>5. heard'[k] = {} /\ sessConn'[k] = c
    BY <2>2, <2>4 DEF OnlyKnown
  <2>6. conn'[c].session = k /\ conn'[c].eventNet = <<>>
    BY <2>1, <2>2, <2>3 DEF OnlyKnown
  <2> QED BY <2>5, <2>6 DEF Made
<1> QED BY <1>1, <1>2, <1>3, <1>4

\* The accept loop is where it was.
LEMMA StageKept ==
  ASSUME IInv, OwnInv, SessionsInv, StageInv, OnlyKnown
  PROVE  StageInv'
<1>1. /\ NewConns \subseteq NewConns' /\ NewSocks = NewSocks'
      /\ \A k \in Clients : NewClient(k) => NewClient(k)'
      /\ \A c \in Conns : Made(c) => Made(c)'
  BY NewKept
<1>2. Announced' = Announced
  BY AnnouncedKept
<1>3. /\ PoolsInv /\ accepted \in Nat /\ accepted' = accepted /\ todo'["acceptor"] = todo["acceptor"]
      /\ Grows(connPool.free, connPool'.free, Conns) /\ Grows(sockPool.free, sockPool'.free, Socks)
  BY DEF OnlyKnown, IInv, DataInv, KernelInv
<1>4. ASSUME NEW n \in {0, 1}, NEW A, NEW B, NEW C, NEW D, A \subseteq C, B \subseteq D,
             Reserve(n, A, B)
      PROVE  /\ Left(connPool'.free, Cardinality(Conns) - accepted' + n, C)
             /\ Left(sockPool'.free, Cardinality(Socks) - accepted', D)
  BY <1>3, <1>4, ReserveKept
<1>5. CASE /\ todo["acceptor"] \in {<<>>, AfterAccept, <<Step("begin", "acceptor")>>,
                                    <<Step("deaf", "acceptor")>>}
           /\ Reserve(0, NewConns, NewSocks)
  <2>1. Reserve(0, NewConns, NewSocks)'
    BY <1>1, <1>4, <1>5 DEF Reserve
  <2> QED BY <1>3, <1>5, <2>1 DEF StageInv
<1>6. ASSUME NEW a \in FetchData, todo["acceptor"] = FromFetch(a), NewClient(a.client),
             a.sock \in NewSocks, Reserve(1, NewConns, NewSocks \ {a.sock})
      PROVE  StageInv'
  <2>1. Reserve(1, NewConns, NewSocks \ {a.sock})'
    BY <1>1, <1>4, <1>6 DEF Reserve
  <2>2. NewClient(a.client)' /\ a.sock \in NewSocks'
    BY <1>1, <1>6 DEF FetchData
  <2> QED BY <1>3, <1>6, <2>1, <2>2 DEF StageInv
<1>7. ASSUME NEW a \in HeldData, Stage(a) PROVE Stage(a)'
  <2>1. a.client \in Clients /\ a.conn \in Conns /\ a.sock \in Socks
    BY DEF HeldData
  <2>2. /\ sock'[a.sock].conn = sock[a.sock].conn
        /\ conn[a.conn].poSocket \in {a.sock, NULL} => conn'[a.conn].poSocket \in {a.sock, NULL}
    BY <2>1 DEF OnlyKnown
  <2>3. /\ Reserve(0, NewConns \ {a.conn}, NewSocks \ {a.sock}) =>
             Reserve(0, NewConns \ {a.conn}, NewSocks \ {a.sock})'
        /\ Reserve(0, NewConns, NewSocks \ {a.sock}) => Reserve(0, NewConns, NewSocks \ {a.sock})'
        /\ Reserve(0, NewConns, NewSocks) => Reserve(0, NewConns, NewSocks)'
    BY <1>1, <1>4 DEF Reserve
  <2>4. CASE /\ todo["acceptor"] \in {FromPointers(a), FromEvents(a), FromClose(a), FromSession(a)}
             /\ NewClient(a.client) /\ a.sock \in NewSocks /\ a.conn \in NewConns
             /\ Reserve(0, NewConns \ {a.conn}, NewSocks \ {a.sock})
    BY <1>1, <1>3, <2>1, <2>3, <2>4 DEF Stage
  <2>5. CASE /\ todo["acceptor"] = FromSetConn(a)
             /\ Made(a.conn) /\ a.sock \in NewSocks
             /\ Reserve(0, NewConns, NewSocks \ {a.sock})
    BY <1>1, <1>3, <2>1, <2>3, <2>5 DEF Stage
  <2>6. CASE /\ sock[a.sock].conn = a.conn
             /\ Reserve(0, NewConns, NewSocks)
             /\ todo["acceptor"] \in {FromSetSock(a), FromSetSocket(a)} /\ Made(a.conn)
    BY <1>1, <1>3, <2>1, <2>2, <2>3, <2>6 DEF Stage
  <2>7. CASE /\ sock[a.sock].conn = a.conn
             /\ Reserve(0, NewConns, NewSocks)
             /\ todo["acceptor"] \in {Announcing("check", a), Announcing("net", a)}
             /\ Made(a.conn) /\ conn[a.conn].poSocket \in {a.sock, NULL}
    BY <1>1, <1>3, <2>1, <2>2, <2>3, <2>7 DEF Stage
  <2>8. CASE /\ sock[a.sock].conn = a.conn
             /\ Reserve(0, NewConns, NewSocks)
             /\ todo["acceptor"] \in {Announcing("module", a), FromAim(a), FromRegister(a)}
             /\ a.conn \in Announced
    BY <1>2, <1>3, <2>2, <2>3, <2>8 DEF Stage
  <2> QED BY <1>7, <2>4, <2>5, <2>6, <2>7, <2>8 DEF Stage
<1>8. At("acceptor", "crash") => At("acceptor", "crash")'
  BY <1>3 DEF At
<1> QED BY <1>5, <1>6, <1>7, <1>8 DEF StageInv

\* All that is known of connections and of the accept loop is still so.
LEMMA KnownKept ==
  ASSUME IInv, OwnInv, SessionsInv, StageInv, OnlyKnown
  PROVE  OwnInv' /\ SessionsInv' /\ StageInv' /\ Announced' = Announced /\ Reachable' = Reachable
<1>1. Announced' = Announced /\ Reachable' = Reachable /\ StageInv'
  BY AnnouncedKept, StageKept
<1>2. OwnInv'
  BY <1>1 DEF OwnInv, OnlyKnown, Announced
<1>3. SessionsInv'
  <2>1. ASSUME NEW k \in Clients, k > accepted PROVE heard'[k] = {}
    <3>1. \A c \in Conns : conn[c].session # k
      BY <2>1 DEF SessionsInv, IInv, DataInv, KernelInv
    <3> QED BY <2>1, <3>1 DEF SessionsInv, OnlyKnown, Announced
  <2> QED BY <2>1 DEF SessionsInv, OnlyKnown
<1> QED BY <1>1, <1>2, <1>3

--------------------------------------------------------------------------------
(* Counting                                                                 *)

\* When one thread takes a step, a connection gets no more tokens than the queue and the
\* thread make: TokensChange the other way around.
LEMMA TokensAtMost ==
  ASSUME NEW t \in Threads, \A u \in Threads : u # t => todo'[u] = todo[u],
         eventQueue \in Seq(Conns), eventQueue' \in Seq(Conns), NEW c, NEW d \in Int,
         Occurrences(eventQueue', c) <= Occurrences(eventQueue, c) + d,
         NEW before \in {0, 1}, before = 1 => HasToken(t, c),
         NEW after \in {0, 1}, HasToken(t, c)' => after = 1
  PROVE  /\ Tokens(c) \in Nat /\ Tokens(c)' \in Nat
         /\ Tokens(c)' <= Tokens(c) + d - before + after
<1> DEFINE P == PushersAt("module", c)
<1>1. P \in SUBSET Threads /\ P' \in SUBSET Threads /\ P' \ {t} \subseteq P
  BY DEF PushersAt, At, Of
<1>2. PICK a \in Nat, b \in Nat : /\ a = Cardinality(P) /\ b = Cardinality(P')
        /\ a >= b - (IF t \in P' THEN 1 ELSE 0) + (IF t \in P THEN 1 ELSE 0)
  BY <1>1, OneMore
<1>3. PICK p \in Nat, q \in Nat : p = Occurrences(eventQueue, c) /\ q = Occurrences(eventQueue', c)
  BY OccurrencesType
<1>4. q <= p + d
  BY <1>3
<1>5. PICK m \in {0, 1} : m = IF At("main", "proc") /\ Of("main") = c THEN 1 ELSE 0
  OBVIOUS
<1>6. PICK n \in {0, 1} : n = (IF At("main", "proc") /\ Of("main") = c THEN 1 ELSE 0)'
  OBVIOUS
<1>7. Tokens(c) = p + a + m
  BY <1>2, <1>3, <1>5 DEF Tokens
<1>8. Tokens(c)' = q + b + n
  BY <1>2, <1>3, <1>6 DEF Tokens
<1>9. /\ t \in P <=> At(t, "module") /\ Of(t).conn = c
      /\ t \in P' <=> (At(t, "module") /\ Of(t).conn = c)'
  BY DEF PushersAt
<1>10. /\ ~(At(t, "module") /\ At(t, "proc")) /\ ~(At(t, "module") /\ At(t, "proc"))'
  BY DEF At
<1>11. t # "main" => m = n
  BY <1>5, <1>6 DEF At, Of, Threads
<1>12. PICK i \in {0, 1}, j \in {0, 1} : /\ i = IF t \in P THEN 1 ELSE 0
                                         /\ j = IF t \in P' THEN 1 ELSE 0
  OBVIOUS
<1>13. a >= b - j + i
  BY <1>2, <1>12
<1>14. b + n <= a + m - before + after
  <2>1. CASE t = "main"
    <3>1. (j = 1 => n = 0 /\ after = 1) /\ (n = 1 => after = 1)
      BY <1>6, <1>9, <1>10, <1>12, <2>1 DEF HasToken
    <3>2. before = 1 => i = 1 \/ m = 1
      BY <1>5, <1>9, <1>12, <2>1 DEF HasToken
    <3> QED BY <1>13, <3>1, <3>2
  <2>2. CASE t # "main"
    <3>1. j = 1 => after = 1
      BY <1>9, <1>12 DEF HasToken
    <3>2. before = 1 => i = 1
      BY <1>9, <1>12, <2>2 DEF HasToken
    <3> QED BY <1>11, <1>13, <2>2, <3>1, <3>2
  <2> QED BY <2>1, <2>2
<1> QED BY <1>4, <1>7, <1>8, <1>14

\* Nor are there more threads about to push a CLOSE than by the step of that thread.
LEMMA ClosersAtMost ==
  ASSUME NEW t \in Threads, \A u \in Threads : u # t => todo'[u] = todo[u], NEW c
  PROVE  /\ Cardinality(ClosersOf(c)) \in Nat /\ Cardinality(ClosersOf(c)') \in Nat
         /\ Cardinality(ClosersOf(c)') <= Cardinality(ClosersOf(c))
              - (IF t \in ClosersOf(c) THEN 1 ELSE 0) + (IF t \in ClosersOf(c)' THEN 1 ELSE 0)
<1> DEFINE P == ClosersOf(c)
<1>1. P \in SUBSET Threads /\ P' \in SUBSET Threads /\ P' \ {t} \subseteq P
  BY DEF ClosersOf, PushersAt, At, Of
<1>2. PICK a \in Nat, b \in Nat : /\ a = Cardinality(P) /\ b = Cardinality(P')
        /\ a >= b - (IF t \in P' THEN 1 ELSE 0) + (IF t \in P THEN 1 ELSE 0)
  BY <1>1, OneMore
<1>3. PICK i \in {0, 1}, j \in {0, 1} : /\ i = IF t \in P THEN 1 ELSE 0
                                        /\ j = IF t \in P' THEN 1 ELSE 0
  OBVIOUS
<1>4. a >= b - j + i
  BY <1>2, <1>3
<1>5. b <= a - i + j
  BY <1>4
<1> QED BY <1>2, <1>3, <1>5

\* A session heard of the end or did not.
LEMMA EndHeard ==
  ASSUME NEW A
  PROVE  Cardinality(A \cap {"CLOSE"}) = IF "CLOSE" \in A THEN 1 ELSE 0
<1>1. CASE "CLOSE" \in A
  <2>1. A \cap {"CLOSE"} = {"CLOSE"}
    BY <1>1
  <2> QED BY <1>1, <2>1, FS_Singleton
<1>2. CASE "CLOSE" \notin A
  <2>1. A \cap {"CLOSE"} = {}
    BY <1>2
  <2> QED BY <1>2, <2>1, FS_EmptySet
<1> QED BY <1>1, <1>2

\* When one thread takes a step, the closings of a connection change by those in its queue,
\* by the one the thread is about to push and by what the session hears.
LEMMA ClosingsChange ==
  ASSUME ConnInv, ConnInv', NEW t \in Threads, \A u \in Threads : u # t => todo'[u] = todo[u],
         NEW c \in Conns, NEW d \in Int,
         Occurrences(conn'[c].eventNet, "CLOSE") <= Occurrences(conn[c].eventNet, "CLOSE") + d,
         NEW before \in {0, 1}, before = 1 => t \in ClosersOf(c),
         NEW after \in {0, 1}, t \in ClosersOf(c)' => after = 1,
         NEW ends \in {0, 1}, "CLOSE" \in Hears(c)' => "CLOSE" \in Hears(c) \/ ends = 1
  PROVE  /\ Closings(c) \in Nat /\ Closings(c)' \in Nat
         /\ Closings(c)' <= Closings(c) + d - before + after + ends
<1>1. conn[c].eventNet \in Seq(ENetEvtType) /\ conn'[c].eventNet \in Seq(ENetEvtType)
  BY DEF ConnInv
<1>2. PICK o \in Nat, q \in Nat : /\ o = Occurrences(conn[c].eventNet, "CLOSE")
                                  /\ q = Occurrences(conn'[c].eventNet, "CLOSE")
  BY <1>1, OccurrencesType
<1>3. q <= o + d
  BY <1>2
<1>4. PICK i \in {0, 1}, j \in {0, 1} : /\ i = IF t \in ClosersOf(c) THEN 1 ELSE 0
                                        /\ j = IF t \in ClosersOf(c)' THEN 1 ELSE 0
  OBVIOUS
<1>5. PICK a \in Nat, b \in Nat : /\ a = Cardinality(ClosersOf(c)) /\ b = Cardinality(ClosersOf(c)')
                                  /\ b <= a - i + j
  BY <1>4, ClosersAtMost
<1>6. b <= a - before + after
  <2>1. (before = 1 => i = 1) /\ (j = 1 => after = 1)
    BY <1>4
  <2> QED BY <1>5, <2>1
<1>7. PICK g \in {0, 1}, h \in {0, 1} : /\ g = IF "CLOSE" \in Hears(c) THEN 1 ELSE 0
                                        /\ h = IF "CLOSE" \in Hears(c)' THEN 1 ELSE 0
  OBVIOUS
<1>8. h <= g + ends
  BY <1>7
<1>9. /\ Cardinality(Hears(c) \cap {"CLOSE"}) = g
      /\ Cardinality(Hears(c)' \cap {"CLOSE"}) = h
  BY <1>7, EndHeard
<1>10. Closings(c) = o + a + g
  BY <1>2, <1>5, <1>9 DEF Closings
<1>11. Closings(c)' = q + b + h
  BY <1>2, <1>5, <1>9 DEF Closings
<1> QED BY <1>3, <1>6, <1>8, <1>10, <1>11

--------------------------------------------------------------------------------
(* Steps that neither push nor take an event                                *)

\* Such a step changes neither what waits in the queues nor what is closed.
LEMMA EventsSame ==
  ASSUME IInv, ConnInv', EventsInv, NEW t \in Threads, \A u \in Threads : u # t => todo'[u] = todo[u],
         UNCHANGED <<eventQueue, heard>>, Announced' = Announced,
         \A c \in Conns : conn'[c].eventNet = conn[c].eventNet,
         \A c \in Announced : conn'[c].bClose = conn[c].bClose /\ conn'[c].session = conn[c].session,
         \A c \in Conns : ~HasToken(t, c)' /\ t \notin ClosersOf(c)'
  PROVE  EventsInv'
<1>1. ConnInv /\ eventQueue \in Seq(Conns) /\ Announced \subseteq Conns
  BY DEF IInv, DataInv, ConnInv, Announced
<1>2. ConnectInv'
  BY <1>1 DEF EventsInv, ConnectInv
<1>3. ASSUME NEW c \in Announced PROVE Closings(c)' <= (IF conn'[c].bClose THEN 1 ELSE 0)
  <2>1. c \in Conns /\ Hears(c)' = Hears(c)
    BY <1>1 DEF Hears
  <2>2. conn[c].eventNet \in Seq(ENetEvtType)
    BY <1>1 DEF ConnInv
  <2>3. Occurrences(conn[c].eventNet, "CLOSE") \in Nat
    BY <2>2, OccurrencesType
  <2>4. Occurrences(conn'[c].eventNet, "CLOSE") <= Occurrences(conn[c].eventNet, "CLOSE") + 0
    BY <2>1, <2>3
  <2>5. /\ Closings(c) \in Nat /\ Closings(c)' \in Nat
        /\ Closings(c)' <= Closings(c) + 0 - 0 + 0 + 0
    BY <1>1, <2>1, <2>4, ClosingsChange
  <2>6. Closings(c) <= (IF conn[c].bClose THEN 1 ELSE 0) /\ conn'[c].bClose = conn[c].bClose
    BY DEF EventsInv, CloseInv
  <2> QED BY <2>5, <2>6
<1>4. ASSUME NEW c \in Conns PROVE Tokens(c)' <= Len(conn'[c].eventNet)
  <2>1. Occurrences(eventQueue, c) \in Nat
    BY <1>1, OccurrencesType
  <2>2. Occurrences(eventQueue', c) <= Occurrences(eventQueue, c) + 0
    BY <2>1
  <2>3. Tokens(c) \in Nat /\ Tokens(c)' \in Nat /\ Tokens(c)' <= Tokens(c) + 0 - 0 + 0
    BY <1>1, <2>2, TokensAtMost
  <2>4. Len(conn[c].eventNet) \in Nat /\ Tokens(c) <= Len(conn[c].eventNet)
    BY <1>1, Lengths DEF EventsInv, TokensInv
  <2> QED BY <2>3, <2>4
<1> QED BY <1>2, <1>3, <1>4 DEF EventsInv, CloseInv, TokensInv

\* A thread that is in plain steps is about to push nothing and has no token.
LEMMA PlainThread ==
  ASSUME NEW t \in Threads, NEW K, NEW S, todo'[t] \in Seq(PlainOn(K, S)), NEW c
  PROVE  ~HasToken(t, c)' /\ t \notin ClosersOf(c)'
<1>1. CASE todo'[t] = <<>>
  BY <1>1 DEF HasToken, ClosersOf, PushersAt, At
<1>2. CASE todo'[t] # <<>>
  <2>1. Head(todo'[t]) \in PlainOn(K, S)
    BY <1>2, HeadTailProperties
  <2>2. Head(todo'[t]).op \notin {"net", "module", "proc"}
    BY <2>1, PlainFacts
  <2> QED BY <2>2 DEF HasToken, ClosersOf, PushersAt, At
<1> QED BY <1>1, <1>2

\* A thread other than the accept loop does plain steps.
LEMMA QuietThread ==
  ASSUME IInv, ConnInv', KnownInv, EventsInv, NEW t \in Threads \ {"acceptor"},
         \A u \in Threads : u # t => todo'[u] = todo[u], todo'[t] \in Seq(Plain),
         OnlyKnown, UNCHANGED <<eventQueue, heard>>,
         \A c \in Conns : conn'[c].eventNet = conn[c].eventNet /\ conn'[c].bClose = conn[c].bClose,
         epEvent' \in [EpollThreads -> Reachable \cup {NULL, NoThread}],
         \A f \in Fds : watched'[f].thread \in EpollThreads => watched'[f].sock \in Reachable
  PROVE  KnownInv' /\ EventsInv'
<1>1. OwnInv' /\ SessionsInv' /\ StageInv' /\ Announced' = Announced /\ Reachable' = Reachable
  BY KnownKept DEF KnownInv
<1>2. LinksInv'
  BY <1>1 DEF LinksInv, KnownInv
<1>3. IsCall(todo'[t], Announced, Reachable)
  BY Calls DEF Plain
<1>4. CallsInv'
  BY <1>1, <1>3 DEF CallsInv, KnownInv
<1>5. \A c \in Conns : ~HasToken(t, c)' /\ t \notin ClosersOf(c)'
  BY PlainThread DEF Plain
<1>6. EventsInv'
  BY <1>1, <1>5, EventsSame DEF OnlyKnown, Announced
<1> QED BY <1>1, <1>2, <1>4, <1>6 DEF KnownInv

\* A thread that puts plain steps before the others is in plain steps.
LEMMA PlainGoesOn ==
  ASSUME IInv, CallsInv, NEW t \in Threads \ {"acceptor"}, todo[t] # <<>>, NEW s \in Seq(Plain),
         Continue(t, s)
  PROVE  /\ \A u \in Threads : u # t => todo'[u] = todo[u]
         /\ todo'["acceptor"] = todo["acceptor"] /\ todo'[t] \in Seq(Plain)
<1>1. Tail(todo[t]) \in Seq(Plain) /\ StepsInv
  BY CallAt DEF IInv
<1>2. /\ \A u \in Threads : u # t => todo'[u] = todo[u]
      /\ todo'[t] = s \o Tail(todo[t])
  BY <1>1, ContinueFacts
<1>3. s \o Tail(todo[t]) \in Seq(Plain)
  BY <1>1, Calls DEF Plain
<1> QED BY <1>2, <1>3 DEF Threads

\* The steps of a call are plain but for the pushes.
LEMMA PlainRun ==
  ASSUME IInv, KnownInv, NEW t \in Threads \ {"acceptor"},
         \/ CloseConnection(t) \/ CloseSocket(t) \/ Uninit(t) \/ CloseFd(t) \/ ClearFd(t) \/ Detach(t)
         \/ ReleaseConnection(t) \/ ReleaseSocket(t) \/ Send(t) \/ SendTo(t) \/ IsConnected(t)
         \/ Aim(t) \/ SendEpollMess(t)
  PROVE  todo[t] # <<>> /\ \E s \in Seq(Plain) : Continue(t, s)
<1>1. <<>> \in Seq(Plain) /\ (\A x \in Plain : <<x>> \in Seq(Plain))
      /\ \A p, q \in Seq(Plain) : p \o q \in Seq(Plain)
  BY Calls DEF Plain
<1>2. CallsInv /\ OwnInv /\ todo[t] # <<>>
  BY DEF KnownInv, CloseConnection, CloseSocket, Uninit, CloseFd, ClearFd, Detach, ReleaseConnection,
         ReleaseSocket, Send, SendTo, IsConnected, Aim, SendEpollMess, At
<1>3. /\ Head(todo[t]).op \in ConnOps => Of(t) \in Announced
      /\ Head(todo[t]).op \in SockOps => Of(t) \in Reachable
  BY <1>2, CallAt
<1>4. ASSUME Crash(t) PROVE \E s \in Seq(Plain) : Continue(t, s)
  <2>1. Step("crash", t) \in Plain
    BY PlainMade DEF Plain
  <2> QED BY <1>1, <1>4, <2>1 DEF Crash
<1>5. CASE CloseConnection(t)
  <2>1. Step("deref", Of(t)) \in Plain
    BY <1>3, <1>5, PlainMade DEF CloseConnection, At, ConnOps, Plain
  <2> QED BY <1>1, <1>2, <1>5, <2>1 DEF CloseConnection
<1>6. CASE CloseSocket(t)
  <2>1. Of(t) \in Announced
    BY <1>3, <1>6 DEF CloseSocket, At, ConnOps
  <2>2. PICK x : x = conn[Of(t)].poSocket
    OBVIOUS
  <2>3. CASE x = NULL
    BY <1>2, <1>4, <1>6, <2>2, <2>3 DEF CloseSocket
  <2>4. CASE x # NULL
    <3>1. x \in Reachable /\ Continue(t, SocketClose(x))
      BY <1>2, <1>6, <2>1, <2>2, <2>4 DEF CloseSocket, OwnInv
    <3> QED BY <1>2, <3>1, PlainSequences
  <2> QED BY <2>3, <2>4
<1>7. CASE Uninit(t)
  <2>1. PICK x \in Reachable : x = Of(t)
    BY <1>3, <1>7 DEF Uninit, At, SockOps
  <2>2. /\ Step("closefd", x) \in Plain /\ Step("clearfd", x) \in Plain /\ Step("detach", x) \in Plain
        /\ Step("releaseconn", x) \in Plain /\ Step("releasesock", x) \in Plain
    BY PlainMade DEF Plain, SockOps
  <2>3. UninitSteps(x) \in Seq(Plain) /\ <<Step("closefd", x), Step("clearfd", x)>> \in Seq(Plain)
    BY <2>2 DEF UninitSteps
  <2>4. (IF sock[x].nSocket = 0 THEN <<>> ELSE <<Step("closefd", x), Step("clearfd", x)>>) \o UninitSteps(x) \in Seq(Plain)
    BY <1>1, <2>3
  <2> QED BY <1>2, <1>7, <2>1, <2>4 DEF Uninit
<1>8. CASE Send(t)
  <2>1. Step("sendto", Of(t)) \in Plain
    BY <1>3, <1>8, PlainMade DEF Send, At, ConnOps, Plain
  <2> QED BY <1>1, <1>2, <1>8, <2>1 DEF Send
<1>9. CASE SendTo(t)
  <2>1. Of(t) \in Announced
    BY <1>3, <1>9 DEF SendTo, At, ConnOps
  <2>2. PICK x : x = conn[Of(t)].poSocket
    OBVIOUS
  <2>3. CASE x = NULL
    BY <1>2, <1>4, <1>9, <2>2, <2>3 DEF SendTo
  <2>4. CASE x # NULL
    <3>1. x \in Reachable /\ Continue(t, <<Step("connected", x)>>)
      BY <1>2, <1>9, <2>1, <2>2, <2>4 DEF SendTo, OwnInv
    <3>2. Step("connected", x) \in Plain
      BY <3>1, PlainMade DEF Plain, SockOps
    <3> QED BY <1>1, <1>2, <3>1, <3>2
  <2> QED BY <2>3, <2>4
<1>10. CASE IsConnected(t)
  <2>1. Step("aim", Of(t)) \in Plain /\ Step("modify", Of(t)) \in Plain
    BY <1>3, <1>10, PlainMade DEF IsConnected, At, SockOps, Plain
  <2>2. <<Step("aim", Of(t)), Step("modify", Of(t))>> \in Seq(Plain)
    BY <2>1
  <2> QED BY <1>1, <1>2, <1>10, <2>2 DEF IsConnected
<1>11. CASE \/ CloseFd(t) \/ ClearFd(t) \/ Detach(t) \/ ReleaseConnection(t) \/ ReleaseSocket(t)
            \/ Aim(t) \/ SendEpollMess(t)
  BY <1>1, <1>2, <1>4, <1>11
     DEF CloseFd, ClearFd, Detach, ReleaseConnection, ReleaseSocket, Aim, SendEpollMess
<1> QED BY <1>5, <1>6, <1>7, <1>8, <1>9, <1>10, <1>11

\* A step that leaves the connections and the sessions alone changes only what is known.
LEMMA ConnsSame ==
  ASSUME UNCHANGED <<conn, heard, sessConn, accepted>>, todo'["acceptor"] = todo["acceptor"],
         \A x \in Socks : sock'[x].conn = sock[x].conn,
         Grows(connPool.free, connPool'.free, Conns), Grows(sockPool.free, sockPool'.free, Socks)
  PROVE  OnlyKnown
BY DEF OnlyKnown, Announced

\* What the kernel and the threads point to can be reached.
LEMMA Aimed ==
  ASSUME IInv, LinksInv, NEW f \in Fds, NEW u \in EpollThreads, watched[f].thread = u
  PROVE  epEvent[u] \in Reachable
<1>1. epEvent[u] \in Linked /\ epEvent[u] \in Reachable \cup {NULL, NoThread}
  BY DEF IInv, DataInv, KernelInv, LinksInv
<1>2. NULL \notin Linked /\ NoThread \notin Linked
  BY NetAssumption DEF Linked
<1> QED BY <1>1, <1>2

\* The kernel's registrations when none or one changes.
LEMMA WatchesKnown ==
  ASSUME IInv, LinksInv,
         \/ watched' = watched
         \/ \E f \in Fds : \E w : /\ watched' = [watched EXCEPT ![f] = w]
                                  /\ w.thread \in EpollThreads => w.sock \in Reachable
  PROVE  \A f \in Fds : watched'[f].thread \in EpollThreads => watched'[f].sock \in Reachable
<1>1. CASE watched' = watched
  BY <1>1 DEF LinksInv
<1>2. ASSUME NEW f \in Fds, NEW w, watched' = [watched EXCEPT ![f] = w],
             w.thread \in EpollThreads => w.sock \in Reachable
      PROVE  \A g \in Fds : watched'[g].thread \in EpollThreads => watched'[g].sock \in Reachable
  <2>1. \A g \in Fds : watched'[g] = IF g = f THEN w ELSE watched[g]
    BY <1>2 DEF IInv, DataInv, KernelInv
  <2> QED BY <1>2, <2>1 DEF LinksInv
<1> QED BY <1>1, <1>2

\* So these steps keep all of it.
LEMMA QuietRun ==
  ASSUME IInv, IInv', KnownInv, EventsInv, NEW t \in Threads \ {"acceptor"},
         \/ CloseConnection(t) \/ CloseSocket(t) \/ Uninit(t) \/ CloseFd(t) \/ ClearFd(t) \/ Detach(t)
         \/ ReleaseConnection(t) \/ ReleaseSocket(t) \/ Send(t) \/ SendTo(t) \/ IsConnected(t)
         \/ Aim(t) \/ SendEpollMess(t)
  PROVE  KnownInv' /\ EventsInv'
<1>1. /\ todo[t] # <<>> /\ CallsInv /\ LinksInv /\ OwnInv /\ ConnInv' /\ ConnInv /\ SockInv /\ KernelInv
      /\ PoolsInv
  BY PlainRun DEF KnownInv, IInv, DataInv
<1>2. PICK s \in Seq(Plain) : Continue(t, s)
  BY PlainRun
<1>3. /\ \A u \in Threads : u # t => todo'[u] = todo[u]
      /\ todo'["acceptor"] = todo["acceptor"] /\ todo'[t] \in Seq(Plain)
  BY <1>1, <1>2, PlainGoesOn
<1>4. UNCHANGED <<eventQueue, heard>> /\ UNCHANGED <<sessConn, accepted>>
  BY DEF CloseConnection, CloseSocket, Uninit, CloseFd, ClearFd, Detach, ReleaseConnection, ReleaseSocket,
         Send, SendTo, IsConnected, Aim, SendEpollMess, kernel
<1>5. Head(todo[t]).op \in SockOps => Of(t) \in Reachable /\ Of(t) \in Socks
  BY <1>1, CallAt DEF Reachable, Linked
<1>6. /\ epEvent' = epEvent => epEvent' \in [EpollThreads -> Reachable \cup {NULL, NoThread}]
      /\ watched' = watched =>
           \A f \in Fds : watched'[f].thread \in EpollThreads => watched'[f].sock \in Reachable
  BY <1>1 DEF LinksInv
<1>7. ASSUME UNCHANGED <<conn, sock, epEvent, watched>>,
             Grows(connPool.free, connPool'.free, Conns), Grows(sockPool.free, sockPool'.free, Socks)
      PROVE  KnownInv' /\ EventsInv'
  <2>1. OnlyKnown
    BY <1>3, <1>4, <1>7, ConnsSame
  <2> QED BY <1>1, <1>3, <1>4, <1>6, <1>7, <2>1, QuietThread
<1>8. CASE \/ CloseConnection(t) \/ CloseSocket(t) \/ Uninit(t) \/ Send(t) \/ SendTo(t)
           \/ IsConnected(t)
  <2>1. UNCHANGED <<conn, sock, epEvent, watched, connPool, sockPool>>
    BY <1>8 DEF CloseConnection, CloseSocket, Uninit, Send, SendTo, IsConnected, pools, kernel
  <2> QED BY <1>7, <2>1 DEF Grows
<1>9. CASE ReleaseConnection(t)
  <2>1. sock[Of(t)].conn \in Conns
    BY <1>5, <1>9 DEF ReleaseConnection, At, SockOps, Reachable, Linked
  <2>2. Grows(connPool.free, connPool'.free, Conns)
    BY <1>9, <2>1, ReleasedGrows DEF ReleaseConnection
  <2> QED BY <1>7, <1>9, <2>2 DEF ReleaseConnection, kernel, Grows
<1>10. CASE ReleaseSocket(t)
  <2>1. Of(t) \in Socks
    BY <1>5, <1>10 DEF ReleaseSocket, At, SockOps
  <2>2. Grows(sockPool.free, sockPool'.free, Socks)
    BY <1>10, <2>1, ReleasedGrows DEF ReleaseSocket
  <2> QED BY <1>7, <1>10, <2>2 DEF ReleaseSocket, kernel, Grows
<1>11. CASE CloseFd(t)
  <2>1. PICK x \in Socks : x = Of(t)
    BY <1>5, <1>11 DEF CloseFd, At, SockOps
  <2>2. PICK f \in Fds : f = sock[x].nSocket
    BY <1>1, <2>1 DEF SockInv
  <2>3. UNCHANGED <<conn, sock, epEvent, connPool, sockPool>>
        /\ watched' = [watched EXCEPT ![f] = NoWatch]
    BY <1>11, <2>1, <2>2 DEF CloseFd, pools
  <2>4. OnlyKnown
    BY <1>3, <1>4, <2>3, ConnsSame DEF Grows
  <2>5. NoWatch.thread \notin EpollThreads
    BY NetAssumption DEF NoWatch
  <2>6. \A g \in Fds : watched'[g].thread \in EpollThreads => watched'[g].sock \in Reachable
    BY <1>1, <2>3, <2>5, WatchesKnown
  <2> QED BY <1>1, <1>3, <1>4, <1>6, <2>3, <2>4, <2>6, QuietThread
<1>15. CASE ClearFd(t)
  <2>1. PICK x \in Socks : x = Of(t)
    BY <1>5, <1>15 DEF ClearFd, At, SockOps
  <2>2. sock' = [sock EXCEPT ![x].nSocket = 0]
        /\ UNCHANGED <<conn, epEvent, watched, connPool, sockPool>>
    BY <1>15, <2>1 DEF ClearFd, pools, kernel
  <2>3. \A y \in Socks : sock'[y].conn = sock[y].conn
    BY <1>1, <2>2 DEF SockInv
  <2>4. OnlyKnown
    BY <1>3, <1>4, <2>2, <2>3, ConnsSame DEF Grows
  <2> QED BY <1>1, <1>3, <1>4, <1>6, <2>2, <2>4, QuietThread
<1>12. CASE Detach(t)
  <2>1. PICK c \in Announced : c = sock[Of(t)].conn
    BY <1>5, <1>12 DEF Detach, At, SockOps, Reachable
  <2>2. /\ conn' = [conn EXCEPT ![c].poSocket = NULL]
        /\ UNCHANGED <<sock, epEvent, watched, connPool, sockPool>>
    BY <1>12, <2>1 DEF Detach, pools, kernel
  <2>3. \A d \in Conns : /\ conn'[d].eventNet = conn[d].eventNet /\ conn'[d].bClose = conn[d].bClose
                         /\ conn'[d].session = conn[d].session
                         /\ conn'[d].poSocket \in {conn[d].poSocket, NULL}
    BY <1>1, <2>2 DEF ConnInv
  <2>4. OnlyKnown
    BY <1>3, <1>4, <2>2, <2>3 DEF OnlyKnown, Grows, Announced
  <2> QED BY <1>1, <1>3, <1>4, <1>6, <2>2, <2>3, <2>4, QuietThread
<1>13. CASE Aim(t)
  <2>1. /\ Of(t) \in Reachable
        /\ epEvent' = epEvent \/ epEvent' = [epEvent EXCEPT ![sock[Of(t)].mark] = Of(t)]
        /\ UNCHANGED <<conn, sock, watched, connPool, sockPool>>
    BY <1>5, <1>13 DEF Aim, At, SockOps, pools, kernel
  <2>2. OnlyKnown
    BY <1>3, <1>4, <2>1, ConnsSame DEF Grows
  <2>3. epEvent' \in [EpollThreads -> Reachable \cup {NULL, NoThread}]
    BY <1>1, <2>1 DEF LinksInv
  <2> QED BY <1>1, <1>3, <1>4, <1>6, <2>1, <2>2, <2>3, QuietThread
<1>14. CASE SendEpollMess(t)
  <2>1. PICK x \in Socks : x = Of(t)
    BY <1>5, <1>14 DEF SendEpollMess, At, SockOps
  <2>2. PICK f \in Fds, u \in EpollThreads : f = sock[x].nSocket /\ u = sock[x].mark
    BY <1>1, <2>1 DEF SockInv
  <2>3. /\ UNCHANGED <<conn, sock, epEvent, connPool, sockPool>>
        /\ watched' = IF watched[f].thread = u
                      THEN [watched EXCEPT ![f].sock = epEvent[u]] ELSE watched
    BY <1>14, <2>1, <2>2 DEF SendEpollMess, pools
  <2>4. OnlyKnown
    BY <1>3, <1>4, <2>3, ConnsSame DEF Grows
  <2>5. CASE watched[f].thread = u
    <3>1. epEvent[u] \in Reachable
      BY <1>1, <2>5, Aimed
    <3>2. watched[f] \in [thread : EpollThreads, sock : Linked]
      BY <1>1, <2>5, NetAssumption DEF KernelInv, NoWatch
    <3>3. PICK w : w = [watched[f] EXCEPT !.sock = epEvent[u]]
      OBVIOUS
    <3>4. w.sock \in Reachable
      BY <3>1, <3>2, <3>3
    <3>5. watched' = [watched EXCEPT ![f] = w]
      BY <2>3, <2>5, <3>3
    <3>6. \A g \in Fds : watched'[g].thread \in EpollThreads => watched'[g].sock \in Reachable
      BY <1>1, <3>4, <3>5, WatchesKnown
    <3> QED BY <1>1, <1>3, <1>4, <1>6, <2>3, <2>4, <3>6, QuietThread
  <2>6. CASE watched[f].thread # u
    <3>1. watched' = watched
      BY <2>3, <2>6
    <3> QED BY <1>1, <1>3, <1>4, <1>6, <2>3, <2>4, <3>1, QuietThread
  <2> QED BY <2>5, <2>6
<1> QED BY <1>8, <1>9, <1>10, <1>11, <1>12, <1>13, <1>14, <1>15

\* The epoll threads between their calls: what they are told of can be reached.
LEMMA TurnQuiet ==
  ASSUME IInv, IInv', KnownInv, EventsInv, NEW t \in EpollThreads, NEW s \in Seq(Plain), Turn(t, s)
  PROVE  KnownInv' /\ EventsInv'
<1>1. /\ todo[t] # <<>> /\ CallsInv /\ LinksInv /\ ConnInv' /\ t \in Threads \ {"acceptor"}
  BY OtherThreads DEF Turn, At, KnownInv, IInv, DataInv
<1>2. /\ UNCHANGED <<conn, eventQueue, sock, epEvent, sessConn, pools, watched, accepted, heard>>
      /\ Continue(t, s)
  BY DEF Turn
<1>3. /\ \A u \in Threads : u # t => todo'[u] = todo[u]
      /\ todo'["acceptor"] = todo["acceptor"] /\ todo'[t] \in Seq(Plain)
  BY <1>1, <1>2, PlainGoesOn
<1>4. OnlyKnown
  BY <1>2, <1>3, ConnsSame DEF Grows, pools
<1> QED BY <1>1, <1>2, <1>3, <1>4, QuietThread DEF LinksInv

\* Those turns are the ones of the read and the write loop.
LEMMA TurnsQuiet ==
  ASSUME IInv, IInv', KnownInv, EventsInv, NEW t \in EpollThreads,
         \/ ReadPacket(t) \/ ReadBadPacket(t) \/ SocketError(t) \/ PeerCloses(t) \/ WriteLoop(t)
         \/ ReadNothing(t)
  PROVE  KnownInv' /\ EventsInv'
<1>1. At(t, "read") /\ todo[t] # <<>> /\ CallsInv /\ t \in Threads \ {"acceptor"}
  BY OtherThreads DEF ReadPacket, ReadBadPacket, SocketError, PeerCloses, WriteLoop, ReadNothing, Turn,
                      Fails, At, KnownInv
<1>2. /\ Of(t) \in [sock : Reachable, fd : Fds] /\ Head(todo[t]) \in Plain
  BY <1>1, CallAt DEF At, ReadOps
<1>3. PICK x \in Reachable : x = Of(t).sock
  BY <1>2
<1>4. PICK c \in Announced : c = Reading(t)
  BY <1>3 DEF Reading, Reachable
<1>5. /\ PushEvent(c, "RECV") \in Seq(Plain) /\ PushEvent(c, "ERROR") \in Seq(Plain)
      /\ ConnClose(c) \in Seq(Plain) /\ SocketClose(x) \in Seq(Plain)
  BY PlainSequences DEF ENetEvtType
<1>6. <<>> \in Seq(Plain) /\ (\A y \in Plain : <<y>> \in Seq(Plain))
      /\ \A p, q \in Seq(Plain) : p \o q \in Seq(Plain)
  BY Calls DEF Plain
<1>7. PacketError(c) \in Seq(Plain)
  BY <1>5, <1>6 DEF PacketError
<1>8. <<Step("rearm", Of(t))>> \in Seq(Plain)
  <2>1. PICK f \in Fds : Of(t) = [sock |-> x, fd |-> f]
    BY <1>2, <1>3
  <2>2. Step("rearm", Of(t)) \in Plain
    BY <2>1, PlainMade DEF Plain, ReadOps
  <2> QED BY <1>6, <2>2
<1>9. \E s \in Seq(Plain) : Turn(t, s)
  <2>1. CASE ReadPacket(t)
    BY <1>2, <1>4, <1>5, <1>6, <2>1 DEF ReadPacket
  <2>2. CASE ReadBadPacket(t)
    BY <1>2, <1>4, <1>6, <1>7, <2>2 DEF ReadBadPacket
  <2>3. CASE SocketError(t)
    BY <1>4, <1>5, <2>3 DEF SocketError
  <2>4. CASE PeerCloses(t)
    BY <1>3, <1>5, <2>4 DEF PeerCloses
  <2>5. CASE WriteLoop(t)
    <3>1. PushEvent(c, "ERROR") \o <<Step("rearm", Of(t))>> \in Seq(Plain)
      BY <1>5, <1>6, <1>8
    <3> QED BY <1>4, <1>8, <2>5, <3>1 DEF WriteLoop
  <2>6. CASE ReadNothing(t)
    BY <1>6, <2>6 DEF ReadNothing
  <2> QED BY <2>1, <2>2, <2>3, <2>4, <2>5, <2>6
<1> QED BY <1>9, TurnQuiet

\* What an epoll thread is told of, and watches again, is reachable.
LEMMA ReportQuiet ==
  ASSUME IInv, IInv', KnownInv, EventsInv, NEW t \in EpollThreads,
         Report(t) \/ GetSock(t) \/ Rearm(t)
  PROVE  KnownInv' /\ EventsInv'
<1>1. /\ CallsInv /\ LinksInv /\ ConnInv' /\ SockInv /\ KernelInv /\ StepsInv
      /\ t \in Threads \ {"acceptor"}
  BY OtherThreads DEF KnownInv, IInv, DataInv
<1>2. /\ UNCHANGED <<conn, eventQueue, sock, epEvent, sessConn, connPool, sockPool, accepted, heard>>
  BY DEF Report, GetSock, Rearm, pools, kernel
<1>3. \A x \in Plain : <<x>> \in Seq(Plain)
  BY Calls DEF Plain
<1>4. ASSUME \A u \in Threads : u # t => todo'[u] = todo[u], todo'[t] \in Seq(Plain),
             \A f \in Fds : watched'[f].thread \in EpollThreads => watched'[f].sock \in Reachable
      PROVE  KnownInv' /\ EventsInv'
  <2>1. todo'["acceptor"] = todo["acceptor"]
    BY <1>1, <1>4 DEF Threads
  <2>2. OnlyKnown
    BY <1>2, <2>1, ConnsSame DEF Grows
  <2> QED BY <1>1, <1>2, <1>4, <2>2, QuietThread DEF LinksInv
<1>5. CASE Report(t)
  <2>1. PICK f \in Fds : /\ watched[f].thread = t
                         /\ todo' = [todo EXCEPT ![t] = <<Step("event", watched[f].sock)>>]
    BY <1>5 DEF Report
  <2>2. Step("event", watched[f].sock) \in Plain
    BY <1>1, <2>1, PlainMade DEF LinksInv, Plain, SockOps
  <2>3. (\A u \in Threads : u # t => todo'[u] = todo[u]) /\ todo'[t] \in Seq(Plain)
    BY <1>1, <1>3, <2>1, <2>2 DEF StepsInv
  <2>4. watched' = watched
    BY <1>5 DEF Report, kernel
  <2> QED BY <1>1, <1>4, <2>3, <2>4 DEF LinksInv
<1>6. CASE GetSock(t)
  <2>1. PICK x \in Reachable : x = Of(t)
    BY <1>1, <1>6, CallAt DEF GetSock, At, SockOps
  <2>2. sock[x].nSocket \in Fds
    BY <1>1 DEF SockInv, Reachable, Linked
  <2>3. Step("read", [sock |-> x, fd |-> sock[x].nSocket]) \in Plain
    BY <2>2, PlainMade DEF Plain, ReadOps
  <2>4. PICK s \in Seq(Plain) : Continue(t, s)
    BY <1>3, <1>6, <2>1, <2>3 DEF GetSock
  <2>5. (\A u \in Threads : u # t => todo'[u] = todo[u]) /\ todo'[t] \in Seq(Plain)
    BY <1>1, <1>6, <2>4, PlainGoesOn DEF GetSock, At
  <2>6. watched' = watched
    BY <1>6 DEF GetSock, kernel
  <2> QED BY <1>1, <1>4, <2>5, <2>6 DEF LinksInv
<1>7. CASE Rearm(t)
  <2>1. Of(t) \in [sock : Reachable, fd : Fds]
    BY <1>1, <1>7, CallAt DEF Rearm, At, ReadOps
  <2>2. PICK x \in Reachable, f \in Fds : x = Of(t).sock /\ f = Of(t).fd
    BY <2>1
  <2>3. <<>> \in Seq(Plain) /\ Continue(t, <<>>)
    BY <1>7 DEF Rearm
  <2>4. (\A u \in Threads : u # t => todo'[u] = todo[u]) /\ todo'[t] \in Seq(Plain)
    BY <1>1, <1>7, <2>3, PlainGoesOn DEF Rearm, At
  <2>5. watched' = IF watched[f].thread = t THEN [watched EXCEPT ![f].sock = x] ELSE watched
    BY <1>7, <2>2 DEF Rearm
  <2>6. CASE watched[f].thread = t
    <3>1. watched[f] \in [thread : EpollThreads, sock : Linked]
      BY <1>1, <2>6, NetAssumption DEF KernelInv, NoWatch
    <3>2. PICK w : w = [watched[f] EXCEPT !.sock = x]
      OBVIOUS
    <3>3. w.sock \in Reachable
      BY <3>1, <3>2
    <3>4. watched' = [watched EXCEPT ![f] = w]
      BY <2>5, <2>6, <3>2
    <3>5. \A g \in Fds : watched'[g].thread \in EpollThreads => watched'[g].sock \in Reachable
      BY <1>1, <3>3, <3>4, WatchesKnown
    <3> QED BY <1>4, <2>4, <3>5
  <2>7. CASE watched[f].thread # t
    <3>1. watched' = watched
      BY <2>5, <2>7
    <3> QED BY <1>1, <1>4, <2>4, <3>1 DEF LinksInv
  <2> QED BY <2>6, <2>7
<1> QED BY <1>5, <1>6, <1>7

\* The main thread lets go of a connection that was announced.
LEMMA CloseQuiet ==
  ASSUME IInv, IInv', KnownInv, EventsInv, Unlink \/ ReleaseHeard
  PROVE  KnownInv' /\ EventsInv'
<1>1. /\ CallsInv /\ LinksInv /\ OwnInv /\ ConnInv' /\ SockInv /\ todo["main"] # <<>>
      /\ "main" \in Threads \ {"acceptor"}
  BY OtherThreads DEF KnownInv, IInv, DataInv, Unlink, ReleaseHeard, At
<1>2. PICK c \in Announced : c = Of("main")
  BY <1>1, CallAt DEF Unlink, ReleaseHeard, At, ConnOps
<1>3. PICK k \in Clients : k = conn[c].session
  BY <1>1 DEF OwnInv
<1>4. k # NULL
  BY NetAssumption DEF Clients, NULL
<1>5. <<>> \in Seq(Plain) /\ Continue("main", <<>>)
  BY <1>2, <1>3, <1>4 DEF Unlink, ReleaseHeard
<1>6. /\ \A u \in Threads : u # "main" => todo'[u] = todo[u]
      /\ todo'["acceptor"] = todo["acceptor"] /\ todo'["main"] \in Seq(Plain)
  BY <1>1, <1>5, PlainGoesOn
<1>7. UNCHANGED <<conn, eventQueue, sock, epEvent, sockPool, watched, accepted, heard>>
  BY DEF Unlink, ReleaseHeard, pools, kernel
<1>8. OnlyKnown
  <2>1. CASE Unlink
    <3>1. sessConn' = [sessConn EXCEPT ![k] = NULL] /\ connPool' = connPool
      BY <1>2, <1>3, <1>4, <2>1 DEF Unlink, pools
    <3>2. \A j \in Clients : sessConn'[j] # sessConn[j] => j = k /\ sessConn'[j] = NULL
      BY <1>1, <3>1 DEF SockInv
    <3> QED BY <1>3, <1>6, <1>7, <3>1, <3>2 DEF OnlyKnown, Grows, Announced
  <2>2. CASE ReleaseHeard
    <3>1. Grows(connPool.free, connPool'.free, Conns)
      BY <1>2, <2>2, ReleasedGrows DEF ReleaseHeard, Announced
    <3> QED BY <1>6, <1>7, <2>2, <3>1, ConnsSame DEF ReleaseHeard, Grows
  <2> QED BY <2>1, <2>2
<1> QED BY <1>1, <1>6, <1>7, <1>8, QuietThread DEF LinksInv

--------------------------------------------------------------------------------
(* Steps that push or take an event                                         *)

\* Such a step is about what is announced, too.
LEMMA LoudThread ==
  ASSUME IInv, KnownInv, NEW t \in Threads \ {"acceptor"},
         \A u \in Threads : u # t => todo'[u] = todo[u], IsCall(todo'[t], Announced, Reachable),
         OnlyKnown, eventQueue' \in Seq(Announced), UNCHANGED <<epEvent, watched>>
  PROVE  KnownInv' /\ Announced' = Announced
<1>1. OwnInv' /\ SessionsInv' /\ StageInv' /\ Announced' = Announced /\ Reachable' = Reachable
  BY KnownKept DEF KnownInv
<1>2. LinksInv'
  BY <1>1 DEF LinksInv, KnownInv
<1>3. CallsInv'
  BY <1>1 DEF CallsInv, KnownInv
<1> QED BY <1>1, <1>2, <1>3 DEF KnownInv

\* A thread that puts a push before its other steps.
LEMMA FirstGoesOn ==
  ASSUME IInv, CallsInv, NEW t \in Threads \ {"acceptor"}, todo[t] # <<>>,
         NEW x \in FirstOn(Announced), Continue(t, <<x>>)
  PROVE  /\ \A u \in Threads : u # t => todo'[u] = todo[u]
         /\ todo'["acceptor"] = todo["acceptor"]
         /\ todo'[t] # <<>> /\ Head(todo'[t]) = x /\ IsCall(todo'[t], Announced, Reachable)
<1>1. Tail(todo[t]) \in Seq(Plain) /\ StepsInv
  BY CallAt DEF IInv
<1>2. /\ \A u \in Threads : u # t => todo'[u] = todo[u]
      /\ todo'[t] = <<x>> \o Tail(todo[t])
  BY <1>1, ContinueFacts
<1>3. /\ IsCall(<<x>> \o Tail(todo[t]), Announced, Reachable)
      /\ <<x>> \o Tail(todo[t]) # <<>> /\ Head(<<x>> \o Tail(todo[t])) = x
  <2>1. \A q \in Seq(Plain) : /\ IsCall(<<x>> \o q, Announced, Reachable)
                              /\ <<x>> \o q # <<>> /\ Head(<<x>> \o q) = x
    BY Calls DEF Plain
  <2> QED BY <1>1, <2>1
<1>4. "acceptor" \in Threads /\ "acceptor" # t
  BY DEF Threads
<1> QED BY <1>2, <1>3, <1>4

\* What is open is closed at most once: m_bClose is tested and set in one step.
LEMMA CheckStep ==
  ASSUME IInv, IInv', KnownInv, EventsInv, NEW t \in Threads \ {"acceptor"}, CheckClose(t)
  PROVE  KnownInv' /\ EventsInv'
<1>1. /\ CallsInv /\ LinksInv /\ ConnInv' /\ ConnInv /\ todo[t] # <<>>
      /\ eventQueue \in Seq(Conns)
  BY DEF KnownInv, IInv, DataInv, CheckClose, At, ConnInv
<1>2. Of(t) \in OpenData(Announced)
  BY <1>1, CallAt DEF CheckClose, At, PushOps
<1>3. PICK c \in Announced, e \in ENetEvtType \ {"CONNECTED"} :
        Of(t) = [conn |-> c, event |-> e] /\ c = Of(t).conn /\ e = Of(t).event /\ c \in Conns
  BY <1>2 DEF OpenData, Announced
<1>4. /\ conn' = [conn EXCEPT ![c].bClose = conn[c].bClose \/ Closes(e)]
      /\ Continue(t, IF conn[c].bClose THEN <<>> ELSE <<EventStep("net", c, e)>>)
      /\ UNCHANGED <<eventQueue, sock, epEvent, sessConn, watched, accepted, heard, connPool, sockPool>>
  BY <1>3 DEF CheckClose, pools, kernel
<1>5. /\ \A d \in Conns : /\ conn'[d].eventNet = conn[d].eventNet
                          /\ conn'[d].session = conn[d].session /\ conn'[d].poSocket = conn[d].poSocket
                          /\ d # c => conn'[d].bClose = conn[d].bClose
      /\ conn'[c].bClose = (conn[c].bClose \/ Closes(e))
  BY <1>1, <1>3, <1>4 DEF ConnInv
<1>6. ASSUME todo'["acceptor"] = todo["acceptor"] PROVE OnlyKnown
  BY <1>4, <1>5, <1>6 DEF OnlyKnown, Grows, Announced
<1>7. CASE conn[c].bClose
  <2>1. Continue(t, <<>>) /\ <<>> \in Seq(Plain)
    BY <1>4, <1>7
  <2>2. /\ \A u \in Threads : u # t => todo'[u] = todo[u]
        /\ todo'["acceptor"] = todo["acceptor"] /\ todo'[t] \in Seq(Plain)
    BY <1>1, <2>1, PlainGoesOn
  <2>3. \A d \in Conns : conn'[d].bClose = conn[d].bClose
    <3>1. conn[c].bClose = TRUE /\ conn'[c].bClose = TRUE
      BY <1>1, <1>3, <1>5, <1>7 DEF ConnInv
    <3> QED BY <1>5, <3>1
  <2> QED BY <1>1, <1>4, <1>5, <1>6, <2>2, <2>3, QuietThread DEF LinksInv
<1>8. CASE ~conn[c].bClose
  <2>1. EventStep("net", c, e) \in FirstOn(Announced) /\ Continue(t, <<EventStep("net", c, e)>>)
    <3>1. Step("net", Of(t)) \in FirstOn(Announced)
      BY <1>2, PlainMade
    <3> QED BY <1>3, <1>4, <1>8, <3>1 DEF EventStep
  <2>2. /\ \A u \in Threads : u # t => todo'[u] = todo[u]
        /\ todo'["acceptor"] = todo["acceptor"] /\ IsCall(todo'[t], Announced, Reachable)
        /\ todo'[t] # <<>> /\ Head(todo'[t]) = EventStep("net", c, e)
    BY <1>1, <2>1, FirstGoesOn
  <2>3. KnownInv' /\ Announced' = Announced
    BY <1>1, <1>4, <1>6, <2>2, LoudThread DEF LinksInv
  <2>4. ConnectInv'
    BY <1>4, <1>5, <2>3 DEF EventsInv, ConnectInv, Announced
  <2>5. \A d \in Conns : ~HasToken(t, d)' /\ (t \in ClosersOf(d)' => d = c /\ e = "CLOSE")
    BY <2>2 DEF HasToken, ClosersOf, PushersAt, At, Of, EventStep, Step
  <2>6. ASSUME NEW d \in Announced PROVE Closings(d)' <= (IF conn'[d].bClose THEN 1 ELSE 0)
    <3>1. d \in Conns /\ Hears(d)' = Hears(d)
      BY <1>4, <1>5 DEF Hears, Announced
    <3>2. conn[d].eventNet \in Seq(ENetEvtType)
      BY <1>1, <3>1 DEF ConnInv
    <3>3. Occurrences(conn[d].eventNet, "CLOSE") \in Nat
      BY <3>2, OccurrencesType
    <3>4. Occurrences(conn'[d].eventNet, "CLOSE") <= Occurrences(conn[d].eventNet, "CLOSE") + 0
      BY <1>5, <3>1, <3>3
    <3>5. Closings(d) <= (IF conn[d].bClose THEN 1 ELSE 0)
      BY DEF EventsInv, CloseInv
    <3>6. CASE d = c /\ e = "CLOSE"
      <4>1. /\ Closings(d) \in Nat /\ Closings(d)' \in Nat
            /\ Closings(d)' <= Closings(d) + 0 - 0 + 1 + 0
        BY <1>1, <2>2, <3>1, <3>4, ClosingsChange
      <4>2. conn'[d].bClose
        BY <1>5, <3>6 DEF Closes
      <4>3. Closings(d) <= 0
        BY <1>8, <3>5, <3>6
      <4> QED BY <4>1, <4>2, <4>3
    <3>7. CASE ~(d = c /\ e = "CLOSE")
      <4>1. /\ Closings(d) \in Nat /\ Closings(d)' \in Nat
            /\ Closings(d)' <= Closings(d) + 0 - 0 + 0 + 0
        BY <1>1, <2>2, <2>5, <3>1, <3>4, <3>7, ClosingsChange
      <4>2. conn'[d].bClose <=> conn[d].bClose
        BY <1>5, <1>8, <3>1, <3>7 DEF Closes
      <4> QED BY <3>5, <4>1, <4>2
    <3> QED BY <3>6, <3>7
  <2>7. ASSUME NEW d \in Conns PROVE Tokens(d)' <= Len(conn'[d].eventNet)
    <3>1. Occurrences(eventQueue, d) \in Nat
      BY <1>1, OccurrencesType
    <3>2. Occurrences(eventQueue', d) <= Occurrences(eventQueue, d) + 0
      BY <1>4, <3>1
    <3>3. eventQueue' \in Seq(Conns)
      BY <1>1, <1>4
    <3>4. Tokens(d) \in Nat /\ Tokens(d)' \in Nat /\ Tokens(d)' <= Tokens(d) + 0 - 0 + 0
      BY <1>1, <2>2, <2>5, <3>2, <3>3, TokensAtMost
    <3>5. Len(conn[d].eventNet) \in Nat /\ Tokens(d) <= Len(conn[d].eventNet)
      BY <1>1, Lengths DEF EventsInv, TokensInv
    <3> QED BY <1>5, <3>4, <3>5
  <2> QED BY <2>3, <2>4, <2>6, <2>7 DEF EventsInv, CloseInv, TokensInv
<1> QED BY <1>7, <1>8

\* An event goes behind those of its connection, and makes one token.
LEMMA NetPushed ==
  ASSUME IntactInv, NEW t, PushNet(t), Of(t).conn \in Conns
  PROVE  conn' = [conn EXCEPT ![Of(t).conn].eventNet = Append(conn[Of(t).conn].eventNet, Of(t).event)]
<1> DEFINE c == Of(t).conn
           e == Of(t).event
<1>1. PICK q \in Stored(c, Append(conn[c].eventNet, e)) : conn' = [conn EXCEPT ![c].eventNet = q]
  BY DEF PushNet
<1>2. q = Append(conn[c].eventNet, e)
  BY <1>1 DEF IntactInv, Stored
<1> QED BY <1>1, <1>2

\* Another thread than the accept loop pushes one.
LEMMA PushNetStep ==
  ASSUME IInv, IInv', KnownInv, EventsInv, IntactInv, NEW t \in Threads \ {"acceptor"}, PushNet(t)
  PROVE  KnownInv' /\ EventsInv'
<1>1. /\ CallsInv /\ LinksInv /\ ConnInv' /\ ConnInv /\ todo[t] # <<>>
      /\ eventQueue \in Seq(Conns)
  BY DEF KnownInv, IInv, DataInv, PushNet, At, ConnInv
<1>2. Of(t) \in OpenData(Announced)
  BY <1>1, CallAt DEF PushNet, At, PushOps
<1>3. PICK c \in Announced, e \in ENetEvtType \ {"CONNECTED"} :
        Of(t) = [conn |-> c, event |-> e] /\ c = Of(t).conn /\ e = Of(t).event /\ c \in Conns
  BY <1>2 DEF OpenData, Announced
<1>4. /\ conn' = [conn EXCEPT ![c].eventNet = Append(conn[c].eventNet, e)]
      /\ Continue(t, <<EventStep("module", c, e)>>) /\ At(t, "net")
      /\ UNCHANGED <<eventQueue, sock, epEvent, sessConn, watched, accepted, heard, connPool, sockPool>>
  <2>1. conn' = [conn EXCEPT ![c].eventNet = Append(conn[c].eventNet, e)]
    BY <1>3, NetPushed
  <2> QED BY <1>3, <2>1 DEF PushNet, Token, pools, kernel
<1>5. PICK net \in Seq(ENetEvtType) : net = conn[c].eventNet
  BY <1>1, <1>3 DEF ConnInv
<1>6. /\ \A d \in Conns : /\ conn'[d].session = conn[d].session /\ conn'[d].poSocket = conn[d].poSocket
                          /\ conn'[d].bClose = conn[d].bClose
                          /\ d # c => conn'[d].eventNet = conn[d].eventNet
      /\ conn'[c].eventNet = Append(net, e)
  BY <1>1, <1>3, <1>4, <1>5 DEF ConnInv
<1>7. /\ Append(net, e) # <<>> /\ Len(Append(net, e)) = Len(net) + 1
      /\ net # <<>> => Head(Append(net, e)) = Head(net)
  <2>1. Append(net, e) # <<>> /\ Len(Append(net, e)) = Len(net) + 1
    BY AppendProperties
  <2>2. net # <<>> => Head(Append(net, e)) = Head(net)
    BY <2>1, AppendProperties, HeadTailProperties, LenProperties, EmptySeq
  <2> QED BY <2>1, <2>2
<1>8. EventStep("module", c, e) \in FirstOn(Announced)
  <2>1. Step("module", Of(t)) \in FirstOn(Announced)
    BY <1>2, PlainMade
  <2> QED BY <1>3, <2>1 DEF EventStep
<1>9. /\ \A u \in Threads : u # t => todo'[u] = todo[u]
      /\ todo'["acceptor"] = todo["acceptor"] /\ IsCall(todo'[t], Announced, Reachable)
      /\ todo'[t] # <<>> /\ Head(todo'[t]) = EventStep("module", c, e)
  BY <1>1, <1>4, <1>8, FirstGoesOn
<1>10. OnlyKnown
  BY <1>3, <1>4, <1>6, <1>7, <1>9 DEF OnlyKnown, Grows, Announced
<1>11. KnownInv' /\ Announced' = Announced
  BY <1>1, <1>4, <1>9, <1>10, LoudThread DEF LinksInv
<1>12. ConnectInv'
  <2>1. ASSUME NEW d \in Announced
        PROVE  \/ "CONNECTED" \in heard'[conn'[d].session]
               \/ conn'[d].eventNet # <<>> /\ Head(conn'[d].eventNet) = "CONNECTED"
    <3>1. \/ "CONNECTED" \in heard[conn[d].session]
          \/ conn[d].eventNet # <<>> /\ Head(conn[d].eventNet) = "CONNECTED"
      BY DEF EventsInv, ConnectInv
    <3> QED BY <1>4, <1>5, <1>6, <1>7, <3>1 DEF Announced
  <2> QED BY <1>11, <2>1 DEF ConnectInv
<1>13. /\ HasToken(t, c)' /\ \A d \in Conns : d # c => ~HasToken(t, d)'
       /\ \A d \in Conns : ~HasToken(t, d) /\ t \notin ClosersOf(d)'
       /\ e = "CLOSE" => t \in ClosersOf(c)
  <2>1. /\ At(t, "module")' /\ ~At(t, "net")' /\ ~At(t, "proc")'
        /\ Of(t)' = [conn |-> c, event |-> e]
    BY <1>9 DEF At, Of, EventStep, Step
  <2>2. At(t, "net") /\ ~At(t, "module") /\ ~At(t, "proc")
    BY <1>4 DEF At
  <2>3. HasToken(t, c)' /\ \A d \in Conns : d # c => ~HasToken(t, d)'
    BY <2>1 DEF HasToken
  <2>4. \A d \in Conns : ~HasToken(t, d) /\ t \notin ClosersOf(d)'
    BY <2>1, <2>2 DEF HasToken, ClosersOf, PushersAt
  <2>5. e = "CLOSE" => t \in ClosersOf(c)
    BY <1>3, <2>2 DEF ClosersOf, PushersAt
  <2> QED BY <2>3, <2>4, <2>5
<1>14. ASSUME NEW d \in Announced PROVE Closings(d)' <= (IF conn'[d].bClose THEN 1 ELSE 0)
  <2>1. d \in Conns /\ Hears(d)' = Hears(d)
    BY <1>4, <1>6 DEF Hears, Announced
  <2>2. conn[d].eventNet \in Seq(ENetEvtType)
    BY <1>1, <2>1 DEF ConnInv
  <2>3. Occurrences(conn[d].eventNet, "CLOSE") \in Nat
    BY <2>2, OccurrencesType
  <2>4. Closings(d) <= (IF conn[d].bClose THEN 1 ELSE 0) /\ conn'[d].bClose = conn[d].bClose
    BY <1>6, <2>1 DEF EventsInv, CloseInv
  <2>5. CASE d = c /\ e = "CLOSE"
    <3>1. Occurrences(conn'[c].eventNet, "CLOSE") = Occurrences(net, "CLOSE") + 1
      BY <1>6, <2>5, OccurrencesAppend
    <3>2. Occurrences(conn'[d].eventNet, "CLOSE") <= Occurrences(conn[d].eventNet, "CLOSE") + 1
      BY <1>5, <2>3, <2>5, <3>1
    <3>3. /\ Closings(d) \in Nat /\ Closings(d)' \in Nat
          /\ Closings(d)' <= Closings(d) + 1 - 1 + 0 + 0
      BY <1>1, <1>9, <1>13, <2>1, <2>5, <3>2, ClosingsChange
    <3> QED BY <2>4, <3>3
  <2>6. CASE ~(d = c /\ e = "CLOSE")
    <3>1. Occurrences(conn'[d].eventNet, "CLOSE") <= Occurrences(conn[d].eventNet, "CLOSE") + 0
      <4>1. CASE d = c
        <5>1. Occurrences(conn'[c].eventNet, "CLOSE") = Occurrences(net, "CLOSE") + 0
          BY <1>6, <2>6, <4>1, OccurrencesAppend
        <5> QED BY <1>5, <2>3, <4>1, <5>1
      <4>2. CASE d # c
        BY <1>6, <2>1, <2>3, <4>2
      <4> QED BY <4>1, <4>2
    <3>2. /\ Closings(d) \in Nat /\ Closings(d)' \in Nat
          /\ Closings(d)' <= Closings(d) + 0 - 0 + 0 + 0
      BY <1>1, <1>9, <1>13, <2>1, <3>1, ClosingsChange
    <3> QED BY <2>4, <3>2
  <2> QED BY <2>5, <2>6
<1>15. ASSUME NEW d \in Conns PROVE Tokens(d)' <= Len(conn'[d].eventNet)
  <2>1. Occurrences(eventQueue, d) \in Nat
    BY <1>1, OccurrencesType
  <2>2. Occurrences(eventQueue', d) <= Occurrences(eventQueue, d) + 0
    BY <1>4, <2>1
  <2>3. eventQueue' \in Seq(Conns)
    BY <1>1, <1>4
  <2>4. Len(conn[d].eventNet) \in Nat /\ Tokens(d) <= Len(conn[d].eventNet)
    BY <1>1, Lengths DEF EventsInv, TokensInv
  <2>5. CASE d = c
    <3>1. Tokens(d) \in Nat /\ Tokens(d)' \in Nat /\ Tokens(d)' <= Tokens(d) + 0 - 0 + 1
      BY <1>1, <1>9, <2>2, <2>3, TokensAtMost
    <3> QED BY <1>5, <1>6, <1>7, <2>4, <2>5, <3>1
  <2>6. CASE d # c
    <3>1. Tokens(d) \in Nat /\ Tokens(d)' \in Nat /\ Tokens(d)' <= Tokens(d) + 0 - 0 + 0
      BY <1>1, <1>9, <1>13, <2>2, <2>3, <2>6, TokensAtMost
    <3> QED BY <1>6, <2>4, <2>6, <3>1
  <2> QED BY <2>5, <2>6
<1> QED BY <1>11, <1>12, <1>14, <1>15 DEF EventsInv, CloseInv, TokensInv

\* The token goes into the module's queue.
LEMMA PushQueueStep ==
  ASSUME IInv, IInv', KnownInv, EventsInv, NEW t \in Threads \ {"acceptor"}, PushEventQueue(t)
  PROVE  KnownInv' /\ EventsInv'
<1>1. /\ CallsInv /\ LinksInv /\ ConnInv' /\ ConnInv /\ todo[t] # <<>>
      /\ eventQueue \in Seq(Conns) /\ eventQueue' \in Seq(Conns)
  BY DEF KnownInv, IInv, DataInv, PushEventQueue, At, ConnInv
<1>2. Of(t) \in OpenData(Announced)
  BY <1>1, CallAt DEF PushEventQueue, At, PushOps
<1>3. PICK c \in Announced : c = Of(t).conn /\ c \in Conns
  BY <1>2 DEF OpenData, Announced
<1>4. /\ eventQueue' = Append(eventQueue, c) /\ At(t, "module")
      /\ Continue(t, <<>>) /\ <<>> \in Seq(Plain)
      /\ UNCHANGED <<conn, sock, epEvent, sessConn, watched, accepted, heard, connPool, sockPool>>
  BY <1>3 DEF PushEventQueue, pools, kernel
<1>5. /\ \A u \in Threads : u # t => todo'[u] = todo[u]
      /\ todo'["acceptor"] = todo["acceptor"] /\ todo'[t] \in Seq(Plain)
  BY <1>1, <1>4, PlainGoesOn
<1>6. OnlyKnown
  BY <1>4, <1>5, ConnsSame DEF Grows
<1>7. IsCall(todo'[t], Announced, Reachable)
  BY <1>5, Calls DEF Plain
<1>8. eventQueue' \in Seq(Announced)
  BY <1>1, <1>3, <1>4, AppendProperties DEF LinksInv
<1>9. KnownInv' /\ Announced' = Announced
  BY <1>4, <1>5, <1>6, <1>7, <1>8, LoudThread
<1>10. \A d \in Conns : ~HasToken(t, d)' /\ t \notin ClosersOf(d)'
  BY <1>5, PlainThread DEF Plain
<1>11. ConnectInv'
  BY <1>4, <1>9 DEF EventsInv, ConnectInv
<1>12. ASSUME NEW d \in Announced PROVE Closings(d)' <= (IF conn'[d].bClose THEN 1 ELSE 0)
  <2>1. d \in Conns /\ Hears(d)' = Hears(d)
    BY <1>4 DEF Hears, Announced
  <2>2. conn[d].eventNet \in Seq(ENetEvtType)
    BY <1>1, <2>1 DEF ConnInv
  <2>3. Occurrences(conn[d].eventNet, "CLOSE") \in Nat
    BY <2>2, OccurrencesType
  <2>4. Occurrences(conn'[d].eventNet, "CLOSE") <= Occurrences(conn[d].eventNet, "CLOSE") + 0
    BY <1>4, <2>3
  <2>5. /\ Closings(d) \in Nat /\ Closings(d)' \in Nat
        /\ Closings(d)' <= Closings(d) + 0 - 0 + 0 + 0
    BY <1>1, <1>5, <1>10, <2>1, <2>4, ClosingsChange
  <2>6. Closings(d) <= (IF conn[d].bClose THEN 1 ELSE 0) /\ conn'[d].bClose = conn[d].bClose
    BY <1>4 DEF EventsInv, CloseInv
  <2> QED BY <2>5, <2>6
<1>13. ASSUME NEW d \in Conns PROVE Tokens(d)' <= Len(conn'[d].eventNet)
  <2>1. Occurrences(eventQueue', d) = Occurrences(eventQueue, d) + (IF c = d THEN 1 ELSE 0)
    BY <1>1, <1>3, <1>4, OccurrencesAppend
  <2>2. Occurrences(eventQueue, d) \in Nat
    BY <1>1, OccurrencesType
  <2>3. Len(conn[d].eventNet) \in Nat /\ Tokens(d) <= Len(conn[d].eventNet)
    BY <1>1, Lengths DEF EventsInv, TokensInv
  <2>4. CASE d = c
    <3>1. Occurrences(eventQueue', d) <= Occurrences(eventQueue, d) + 1
      BY <2>1, <2>2, <2>4
    <3>2. HasToken(t, d)
      BY <1>3, <1>4, <2>4 DEF HasToken
    <3>3. Tokens(d) \in Nat /\ Tokens(d)' \in Nat /\ Tokens(d)' <= Tokens(d) + 1 - 1 + 0
      BY <1>1, <1>5, <1>10, <3>1, <3>2, TokensAtMost
    <3> QED BY <1>4, <2>3, <3>3
  <2>5. CASE d # c
    <3>1. Occurrences(eventQueue', d) <= Occurrences(eventQueue, d) + 0
      BY <2>1, <2>2, <2>5
    <3>2. Tokens(d) \in Nat /\ Tokens(d)' \in Nat /\ Tokens(d)' <= Tokens(d) + 0 - 0 + 0
      BY <1>1, <1>5, <1>10, <3>1, TokensAtMost
    <3> QED BY <1>4, <2>3, <3>2
  <2> QED BY <2>4, <2>5
<1> QED BY <1>9, <1>11, <1>12, <1>13 DEF EventsInv, CloseInv, TokensInv

\* And the main thread takes it from there.
LEMMA PopTokenStep ==
  ASSUME IInv, IInv', KnownInv, EventsInv, PopToken
  PROVE  KnownInv' /\ EventsInv'
<1>1. /\ CallsInv /\ LinksInv /\ ConnInv' /\ ConnInv /\ StepsInv
      /\ eventQueue \in Seq(Conns) /\ eventQueue' \in Seq(Conns)
      /\ "main" \in Threads \ {"acceptor"}
  BY OtherThreads DEF KnownInv, IInv, DataInv, ConnInv
<1>2. PICK c \in Announced : c = Head(eventQueue)
  BY <1>1, HeadTailProperties DEF PopToken, LinksInv
<1>3. /\ todo["main"] = <<>> /\ todo' = [todo EXCEPT !["main"] = <<Step("proc", c)>>]
      /\ eventQueue # <<>> /\ eventQueue' = Tail(eventQueue)
      /\ UNCHANGED <<conn, sock, epEvent, sessConn, watched, accepted, heard, connPool, sockPool>>
  BY <1>2 DEF PopToken, pools, kernel
<1>4. /\ \A u \in Threads : u # "main" => todo'[u] = todo[u]
      /\ todo'["acceptor"] = todo["acceptor"] /\ todo'["main"] = <<Step("proc", c)>>
  BY <1>1, <1>3 DEF StepsInv, Threads
<1>5. IsCall(todo'["main"], Announced, Reachable)
  BY <1>4, PlainMade DEF IsCall
<1>6. OnlyKnown
  BY <1>3, <1>4, ConnsSame DEF Grows
<1>7. eventQueue' \in Seq(Announced)
  BY <1>1, <1>3, HeadTailProperties DEF LinksInv
<1>8. KnownInv' /\ Announced' = Announced
  BY <1>1, <1>3, <1>4, <1>5, <1>6, <1>7, LoudThread
<1>9. \A d \in Conns : /\ HasToken("main", d)' => d = c
                       /\ "main" \notin ClosersOf(d)'
  BY <1>4 DEF HasToken, ClosersOf, PushersAt, At, Of, Step
<1>10. ConnectInv'
  BY <1>3, <1>8 DEF EventsInv, ConnectInv
<1>11. ASSUME NEW d \in Announced PROVE Closings(d)' <= (IF conn'[d].bClose THEN 1 ELSE 0)
  <2>1. d \in Conns /\ Hears(d)' = Hears(d)
    BY <1>3 DEF Hears, Announced
  <2>2. conn[d].eventNet \in Seq(ENetEvtType)
    BY <1>1, <2>1 DEF ConnInv
  <2>3. Occurrences(conn[d].eventNet, "CLOSE") \in Nat
    BY <2>2, OccurrencesType
  <2>4. Occurrences(conn'[d].eventNet, "CLOSE") <= Occurrences(conn[d].eventNet, "CLOSE") + 0
    BY <1>3, <2>3
  <2>5. /\ Closings(d) \in Nat /\ Closings(d)' \in Nat
        /\ Closings(d)' <= Closings(d) + 0 - 0 + 0 + 0
    BY <1>1, <1>4, <1>9, <2>1, <2>4, ClosingsChange
  <2>6. Closings(d) <= (IF conn[d].bClose THEN 1 ELSE 0) /\ conn'[d].bClose = conn[d].bClose
    BY <1>3 DEF EventsInv, CloseInv
  <2> QED BY <2>5, <2>6
<1>12. ASSUME NEW d \in Conns PROVE Tokens(d)' <= Len(conn'[d].eventNet)
  <2>1. Occurrences(eventQueue', d) = Occurrences(eventQueue, d) - (IF c = d THEN 1 ELSE 0)
    BY <1>1, <1>2, <1>3, OccurrencesTail
  <2>2. Occurrences(eventQueue, d) \in Nat
    BY <1>1, OccurrencesType
  <2>3. Len(conn[d].eventNet) \in Nat /\ Tokens(d) <= Len(conn[d].eventNet)
    BY <1>1, Lengths DEF EventsInv, TokensInv
  <2>4. CASE d = c
    <3>1. Occurrences(eventQueue', d) <= Occurrences(eventQueue, d) + (-1) /\ -1 \in Int
      BY <2>1, <2>2, <2>4
    <3>2. Tokens(d) \in Nat /\ Tokens(d)' \in Nat /\ Tokens(d)' <= Tokens(d) + (-1) - 0 + 1
      BY <1>1, <1>4, <3>1, TokensAtMost
    <3> QED BY <1>3, <2>3, <3>2
  <2>5. CASE d # c
    <3>1. Occurrences(eventQueue', d) <= Occurrences(eventQueue, d) + 0
      BY <2>1, <2>2, <2>5
    <3>2. Tokens(d) \in Nat /\ Tokens(d)' \in Nat /\ Tokens(d)' <= Tokens(d) + 0 - 0 + 0
      BY <1>1, <1>4, <1>9, <2>5, <3>1, TokensAtMost
    <3> QED BY <1>3, <2>3, <3>2
  <2> QED BY <2>4, <2>5
<1> QED BY <1>8, <1>10, <1>11, <1>12 DEF EventsInv, CloseInv, TokensInv

--------------------------------------------------------------------------------
(* The main thread takes an event                                           *)

\* What a callback does is plain: the session knows only its own connection.
LEMMA AppStepsArePlain ==
  ASSUME IInv, OwnInv, NEW c \in Announced, NEW k \in Clients, k = conn[c].session
  PROVE  AppSteps(k) \subseteq Seq(Plain)
<1>1. sessConn[k] \in {c, NULL}
  BY DEF OwnInv
<1>2. ConnClose(c) \in Seq(Plain) /\ ConnSend(c) \in Seq(Plain) /\ <<>> \in Seq(Plain)
  BY PlainSequences
<1>3. \A x \in {sessConn[k]} \ {NULL} : x = c
  BY <1>1
<1> QED BY <1>2, <1>3 DEF AppSteps

\* The oldest event is taken from the connection's queue.
LEMMA NetPopped ==
  ASSUME IntactInv, NEW e, PopEvent(e), NEW c \in Conns, c = Of("main")
  PROVE  /\ conn[c].eventNet # <<>> /\ Head(conn[c].eventNet) = e
         /\ conn' = [conn EXCEPT ![c].eventNet = Tail(conn[c].eventNet)]
<1>1. /\ conn[c].eventNet # <<>> /\ Head(conn[c].eventNet) = e
      /\ \E q \in Stored(c, Tail(conn[c].eventNet)) : conn' = [conn EXCEPT ![c].eventNet = q]
  BY DEF PopEvent
<1>2. PICK q \in Stored(c, Tail(conn[c].eventNet)) : conn' = [conn EXCEPT ![c].eventNet = q]
  BY <1>1
<1>3. q = Tail(conn[c].eventNet)
  BY <1>2 DEF IntactInv, Stored
<1> QED BY <1>1, <1>2, <1>3

\* An event and a token are gone, and the session of the connection heard of the event, or
\* the event is of no type.
LEMMA TakeStep ==
  ASSUME IInv, IInv', KnownInv, EventsInv, IntactInv, NEW e \in ENetEvtType, PopEvent(e),
         NEW c \in Announced, c = Of("main"), NEW k \in Clients, k = conn[c].session,
         NEW E, E = {e} \/ (E = {} /\ e = "INVALID"), heard' = [heard EXCEPT ![k] = heard[k] \cup E],
         NEW s \in Seq(Plain), Continue("main", s),
         UNCHANGED <<eventQueue, sock, epEvent, sessConn, watched, accepted, connPool, sockPool>>
  PROVE  KnownInv' /\ EventsInv'
<1>1. /\ CallsInv /\ LinksInv /\ OwnInv /\ SessionsInv /\ ConnInv' /\ ConnInv /\ HistoryInv
      /\ todo["main"] # <<>> /\ eventQueue \in Seq(Conns) /\ "main" \in Threads \ {"acceptor"}
  BY OtherThreads DEF KnownInv, IInv, DataInv, PopEvent, At, ConnInv
<1>2. c = Of("main") /\ c \in Conns
  BY DEF Announced
<1>3. k = conn[c].session
  OBVIOUS
<1>4. k # NULL
  BY NetAssumption DEF Clients, NULL
<1>5. PICK net \in Seq(ENetEvtType) : net = conn[c].eventNet
  BY <1>1, <1>2 DEF ConnInv
<1>6. /\ net # <<>> /\ Head(net) = e /\ conn' = [conn EXCEPT ![c].eventNet = Tail(net)]
      /\ heard' = [heard EXCEPT ![k] = heard[k] \cup E]
  BY <1>2, <1>5, NetPopped
<1>7. UNCHANGED <<eventQueue, sock, epEvent, sessConn, watched, accepted, connPool, sockPool>>
      /\ At("main", "proc")
  BY DEF PopEvent
<1>20. /\ E = {e} \/ "CONNECTED" \in heard[k]
       /\ E \subseteq {e}
  <2>1. CASE E = {} /\ e = "INVALID"
    <3>1. "CONNECTED" \in heard[k] \/ Head(net) = "CONNECTED"
      BY <1>3, <1>5 DEF EventsInv, ConnectInv
    <3> QED BY <1>6, <2>1, <3>1
  <2> QED BY <2>1
<1>8. /\ \A d \in Conns : /\ conn'[d].session = conn[d].session /\ conn'[d].poSocket = conn[d].poSocket
                          /\ conn'[d].bClose = conn[d].bClose
                          /\ d # c => conn'[d].eventNet = conn[d].eventNet
      /\ conn'[c].eventNet = Tail(net)
  BY <1>1, <1>2, <1>6 DEF ConnInv
<1>9. /\ heard'[k] = heard[k] \cup E
      /\ \A j \in Clients : j # k => heard'[j] = heard[j]
  BY <1>1, <1>6 DEF HistoryInv
<1>10. \A d \in Announced : /\ d \in Conns /\ conn[d].session \in Clients
                            /\ d # c => conn[d].session # k
  BY <1>1, <1>2, <1>3, <1>4 DEF SessionsInv, OwnInv, Announced
<1>11. s \in Seq(Plain) /\ Continue("main", s)
  OBVIOUS
<1>12. /\ \A u \in Threads : u # "main" => todo'[u] = todo[u]
       /\ todo'["acceptor"] = todo["acceptor"] /\ todo'["main"] \in Seq(Plain)
  BY <1>1, <1>11, PlainGoesOn
<1>13. OnlyKnown
  <2>1. \A d \in Announced : conn'[d].eventNet # <<>> \/ heard'[conn[d].session] # {}
    <3>1. ASSUME NEW d \in Announced, d # c
          PROVE  conn'[d].eventNet # <<>> \/ heard'[conn[d].session] # {}
      BY <1>8, <1>9, <1>10, <3>1 DEF Announced
    <3>2. heard'[conn[c].session] # {}
      BY <1>3, <1>9, <1>20
    <3> QED BY <3>1, <3>2
  <2>2. \A d \in Conns : d \notin Announced => conn'[d].eventNet = conn[d].eventNet
    BY <1>8
  <2>3. \A j \in Clients : heard'[j] # heard[j] => conn[c].session = j
    BY <1>3, <1>9
  <2> QED BY <1>7, <1>8, <1>12, <2>1, <2>2, <2>3 DEF OnlyKnown, Grows
<1>14. IsCall(todo'["main"], Announced, Reachable)
  BY <1>12, Calls DEF Plain
<1>15. KnownInv' /\ Announced' = Announced
  BY <1>1, <1>7, <1>12, <1>13, <1>14, LoudThread DEF LinksInv
<1>16. \A d \in Conns : ~HasToken("main", d)' /\ "main" \notin ClosersOf(d)'
  BY <1>1, <1>12, PlainThread DEF Plain
<1>17. ConnectInv'
  <2>1. ASSUME NEW d \in Announced
        PROVE  \/ "CONNECTED" \in heard'[conn'[d].session]
               \/ conn'[d].eventNet # <<>> /\ Head(conn'[d].eventNet) = "CONNECTED"
    <3>1. \/ "CONNECTED" \in heard[conn[d].session]
          \/ conn[d].eventNet # <<>> /\ Head(conn[d].eventNet) = "CONNECTED"
      BY DEF EventsInv, ConnectInv
    <3>2. CASE d = c
      BY <1>3, <1>5, <1>6, <1>8, <1>9, <1>10, <1>20, <3>1, <3>2
    <3>3. CASE d # c
      BY <1>8, <1>9, <1>10, <3>1, <3>3
    <3> QED BY <3>2, <3>3
  <2> QED BY <1>15, <2>1 DEF ConnectInv
<1>18. ASSUME NEW d \in Announced PROVE Closings(d)' <= (IF conn'[d].bClose THEN 1 ELSE 0)
  <2>1. d \in Conns /\ conn[d].session \in Clients /\ conn[d].session # NULL
    BY <1>10, NetAssumption DEF Clients, NULL
  <2>2. Hears(d) = heard[conn[d].session] /\ Hears(d)' = heard'[conn[d].session]
    BY <1>8, <2>1 DEF Hears
  <2>3. conn[d].eventNet \in Seq(ENetEvtType)
    BY <1>1, <2>1 DEF ConnInv
  <2>4. Occurrences(conn[d].eventNet, "CLOSE") \in Nat
    BY <2>3, OccurrencesType
  <2>5. Closings(d) <= (IF conn[d].bClose THEN 1 ELSE 0) /\ conn'[d].bClose = conn[d].bClose
    BY <1>8, <2>1 DEF EventsInv, CloseInv
  <2>6. CASE d = c
    <3>1. Occurrences(Tail(net), "CLOSE") = Occurrences(net, "CLOSE") - (IF e = "CLOSE" THEN 1 ELSE 0)
      BY <1>6, OccurrencesTail
    <3>2. CASE e = "CLOSE"
      <4>1. Occurrences(conn'[d].eventNet, "CLOSE") <= Occurrences(conn[d].eventNet, "CLOSE") + (-1)
            /\ -1 \in Int
        BY <1>5, <1>8, <2>4, <2>6, <3>1, <3>2
      <4>2. /\ Closings(d) \in Nat /\ Closings(d)' \in Nat
            /\ Closings(d)' <= Closings(d) + (-1) - 0 + 0 + 1
        BY <1>1, <1>12, <1>16, <2>1, <4>1, ClosingsChange
      <4> QED BY <2>5, <4>2
    <3>3. CASE e # "CLOSE"
      <4>1. Occurrences(conn'[d].eventNet, "CLOSE") <= Occurrences(conn[d].eventNet, "CLOSE") + 0
        BY <1>5, <1>8, <2>4, <2>6, <3>1, <3>3
      <4>2. "CLOSE" \in Hears(d)' => "CLOSE" \in Hears(d)
        BY <1>3, <1>9, <1>20, <2>2, <2>6, <3>3
      <4>3. /\ Closings(d) \in Nat /\ Closings(d)' \in Nat
            /\ Closings(d)' <= Closings(d) + 0 - 0 + 0 + 0
        BY <1>1, <1>12, <1>16, <2>1, <4>1, <4>2, ClosingsChange
      <4> QED BY <2>5, <4>3
    <3> QED BY <3>2, <3>3
  <2>7. CASE d # c
    <3>1. Occurrences(conn'[d].eventNet, "CLOSE") <= Occurrences(conn[d].eventNet, "CLOSE") + 0
      BY <1>8, <2>1, <2>4, <2>7
    <3>2. Hears(d)' = Hears(d)
      BY <1>9, <1>10, <2>2, <2>7
    <3>3. /\ Closings(d) \in Nat /\ Closings(d)' \in Nat
          /\ Closings(d)' <= Closings(d) + 0 - 0 + 0 + 0
      BY <1>1, <1>12, <1>16, <2>1, <3>1, <3>2, ClosingsChange
    <3> QED BY <2>5, <3>3
  <2> QED BY <2>6, <2>7
<1>19. ASSUME NEW d \in Conns PROVE Tokens(d)' <= Len(conn'[d].eventNet)
  <2>1. Occurrences(eventQueue, d) \in Nat
    BY <1>1, OccurrencesType
  <2>2. Occurrences(eventQueue', d) <= Occurrences(eventQueue, d) + 0 /\ eventQueue' \in Seq(Conns)
    BY <1>1, <1>7, <2>1
  <2>3. Len(conn[d].eventNet) \in Nat /\ Tokens(d) <= Len(conn[d].eventNet)
    BY <1>1, Lengths DEF EventsInv, TokensInv
  <2>4. CASE d = c
    <3>1. HasToken("main", d)
      BY <1>2, <1>7, <2>4 DEF HasToken
    <3>2. "main" \in Threads /\ ~HasToken("main", d)' /\ eventQueue \in Seq(Conns)
      BY <1>1, <1>16
    <3>3. Tokens(d) \in Nat /\ Tokens(d)' \in Nat /\ Tokens(d)' <= Tokens(d) + 0 - 1 + 0
      BY <1>12, <2>2, <3>1, <3>2, TokensAtMost
    <3>4. Len(Tail(net)) = Len(net) - 1 /\ Len(net) \in Nat
      BY <1>6, HeadTailProperties, LenProperties
    <3>5. Len(conn'[d].eventNet) = Len(net) - 1 /\ Tokens(d) <= Len(net)
      BY <1>5, <1>8, <2>3, <2>4, <3>4
    <3> QED BY <3>3, <3>4, <3>5
  <2>5. CASE d # c
    <3>1. /\ "main" \in Threads /\ ~HasToken("main", d)' /\ eventQueue \in Seq(Conns)
          /\ \A u \in Threads : u # "main" => todo'[u] = todo[u]
      BY <1>1, <1>12, <1>16
    <3>2. Tokens(d) \in Nat /\ Tokens(d)' \in Nat /\ Tokens(d)' <= Tokens(d) + 0 - 0 + 0
      BY <2>2, <3>1, TokensAtMost
    <3> QED BY <1>8, <2>3, <2>5, <3>2
  <2> QED BY <2>4, <2>5
<1> QED BY <1>15, <1>17, <1>18, <1>19 DEF EventsInv, CloseInv, TokensInv

\* The session of an announced connection is there and hears of the event.
LEMMA HearStep ==
  ASSUME IInv, IInv', KnownInv, EventsInv, IntactInv, NEW e \in ENetEvtType, NEW found \in Seq(Plain),
         Proc(e, found)
  PROVE  KnownInv' /\ EventsInv'
<1>1. /\ CallsInv /\ OwnInv /\ todo["main"] # <<>> /\ "main" \in Threads \ {"acceptor"}
      /\ PopEvent(e) /\ At("main", "proc")
  BY OtherThreads DEF KnownInv, Proc, PopEvent, At
<1>2. PICK c \in Announced : c = Of("main")
  BY <1>1, CallAt DEF At, ConnOps
<1>3. PICK k \in Clients : k = conn[c].session
  BY <1>1 DEF OwnInv
<1>4. k # NULL
  BY NetAssumption DEF Clients, NULL
<1>5. /\ heard' = [heard EXCEPT ![k] = heard[k] \cup {e}]
      /\ \E app \in AppSteps(k) : Continue("main", app \o found)
      /\ UNCHANGED <<eventQueue, sock, epEvent, sessConn, watched, accepted, connPool, sockPool>>
  BY <1>2, <1>3, <1>4 DEF Proc, pools
<1>6. PICK app \in AppSteps(k) : Continue("main", app \o found)
  BY <1>5
<1>7. app \o found \in Seq(Plain)
  <2>1. app \in Seq(Plain)
    BY <1>1, <1>3, AppStepsArePlain
  <2> QED BY <2>1, Calls DEF Plain
<1> QED BY <1>1, <1>2, <1>3, <1>5, <1>6, <1>7, TakeStep

\* No session hears of an event of no type.
LEMMA InvalidStep ==
  ASSUME IInv, IInv', KnownInv, EventsInv, IntactInv, ProcInvalid
  PROVE  KnownInv' /\ EventsInv'
<1>1. /\ CallsInv /\ OwnInv /\ HistoryInv /\ todo["main"] # <<>> /\ "main" \in Threads \ {"acceptor"}
      /\ PopEvent("INVALID") /\ At("main", "proc") /\ Continue("main", <<>>)
      /\ UNCHANGED <<eventQueue, sock, epEvent, sessConn, watched, accepted, connPool, sockPool, heard>>
  BY OtherThreads DEF KnownInv, IInv, DataInv, ProcInvalid, PopEvent, At, pools, kernel
<1>2. PICK c \in Announced : c = Of("main")
  BY <1>1, CallAt DEF At, ConnOps
<1>3. PICK k \in Clients : k = conn[c].session
  BY <1>1 DEF OwnInv
<1>4. PICK E : E = {}
  OBVIOUS
<1>5. heard' = [heard EXCEPT ![k] = heard[k] \cup E]
  BY <1>1, <1>4 DEF HistoryInv
<1>6. "INVALID" \in ENetEvtType /\ <<>> \in Seq(Plain)
  BY DEF ENetEvtType
<1> QED BY <1>1, <1>2, <1>3, <1>4, <1>5, <1>6, TakeStep

\* It does so for each of the events, and there always is one.
LEMMA HearSteps ==
  ASSUME IInv, IInv', KnownInv, EventsInv, IntactInv,
         \/ ProcConnected \/ ProcError \/ ProcRecv \/ ProcClose \/ ProcNothing
         \/ ProcInvalid
  PROVE  KnownInv' /\ EventsInv'
<1>1. {"CONNECTED", "ERROR", "RECV", "CLOSE"} \subseteq ENetEvtType /\ <<>> \in Seq(Plain)
  BY DEF ENetEvtType
<1>2. /\ At("main", "proc") /\ todo["main"] # <<>> /\ CallsInv
      /\ "main" \in Threads \ {"acceptor"}
  BY OtherThreads DEF ProcConnected, ProcError, ProcRecv, ProcClose, ProcNothing, ProcInvalid, Proc,
                      PopEvent, At, KnownInv
<1>3. PICK c \in Announced : c = Of("main") /\ c \in Conns
  BY <1>2, CallAt DEF At, ConnOps, Announced
<1>4. /\ PushEvent(c, "RECV") \in Seq(Plain) /\ PushEvent(c, "ERROR") \in Seq(Plain)
      /\ ConnClose(c) \in Seq(Plain)
  BY PlainSequences DEF ENetEvtType
<1>5. PacketError(c) \in Seq(Plain)
  BY <1>4, Calls DEF PacketError, Plain
<1>6. <<Step("unlink", c), Step("release", c)>> \in Seq(Plain)
  <2>1. Step("unlink", c) \in Plain /\ Step("release", c) \in Plain
    BY PlainMade DEF Plain, ConnOps
  <2> QED BY <2>1
<1>7. CASE ProcConnected
  BY <1>1, <1>7, HearStep DEF ProcConnected
<1>8. CASE ProcError
  BY <1>1, <1>8, HearStep DEF ProcError
<1>9. CASE ProcRecv
  <2>1. Proc("RECV", <<>>) \/ Proc("RECV", PushEvent(c, "RECV")) \/ Proc("RECV", PacketError(c))
    BY <1>3, <1>9 DEF ProcRecv
  <2> QED BY <1>1, <1>4, <1>5, <2>1, HearStep
<1>10. CASE ProcClose
  BY <1>1, <1>3, <1>6, <1>10, HearStep DEF ProcClose
<1>11. CASE ProcNothing
  <2>1. conn[c].eventNet = <<>>
    BY <1>3, <1>11 DEF ProcNothing
  <2>2. Tokens(c) <= 0
    BY <1>3, <2>1 DEF EventsInv, TokensInv
  <2>3. PICK p \in Nat, a \in Nat : /\ p = Occurrences(eventQueue, c)
                                    /\ a = Cardinality(PushersAt("module", c))
    <3>1. eventQueue \in Seq(Conns)
      BY DEF IInv, DataInv, ConnInv
    <3>2. IsFiniteSet(PushersAt("module", c))
      BY ThreadsAreFinite, FS_Subset DEF PushersAt
    <3> QED BY <3>1, <3>2, OccurrencesType, FS_CardinalityType
  <2>4. Tokens(c) = p + a + 1
    BY <1>2, <1>3, <2>3 DEF Tokens
  <2> QED BY <2>2, <2>3, <2>4
<1>12. CASE ProcInvalid
  BY <1>12, InvalidStep
<1> QED BY <1>7, <1>8, <1>9, <1>10, <1>11, <1>12

--------------------------------------------------------------------------------
(* The accept loop                                                          *)

\* By its first step one sees what the accept loop has to do.
LEMMA ShapeOps ==
  ASSUME NEW a \in HeldData
  PROVE  /\ AfterAccept # <<>> /\ Head(AfterAccept).op = "accept"
         /\ FromRegister(a) # <<>> /\ Head(FromRegister(a)) = Step("register", a.sock)
         /\ FromAim(a) # <<>> /\ Head(FromAim(a)) = Step("aim", a.sock)
         /\ \A op \in PushOps : /\ Announcing(op, a) # <<>>
                                /\ Head(Announcing(op, a)) = EventStep(op, a.conn, "CONNECTED")
         /\ FromSetSocket(a) # <<>> /\ Head(FromSetSocket(a)) = Step("setsocket", a)
         /\ FromSetSock(a) # <<>> /\ Head(FromSetSock(a)) = Step("setsock", a)
         /\ FromSetConn(a) # <<>> /\ Head(FromSetConn(a)) = Step("setconn", a)
         /\ FromSession(a) # <<>> /\ Head(FromSession(a)) = Step("session", a)
         /\ FromClose(a) # <<>> /\ Head(FromClose(a)) = Step("bclose", a)
         /\ FromEvents(a) # <<>> /\ Head(FromEvents(a)) = Step("events", a)
         /\ FromPointers(a) # <<>> /\ Head(FromPointers(a)) = Step("pointers", a)
<1>1. AfterAccept # <<>> /\ Head(AfterAccept).op = "accept"
  BY DEF AfterAccept, Step
<1> QED BY <1>1, ShapeFacts

\* And after it comes the rest.
LEMMA ShapeTails ==
  ASSUME NEW a \in HeldData
  PROVE  /\ Tail(FromRegister(a)) = AfterAccept
         /\ Tail(FromAim(a)) = FromRegister(a)
         /\ \A op \in PushOps : Tail(Announcing(op, a)) = FromAim(a)
         /\ Tail(FromSetSocket(a)) = Announcing("check", a)
         /\ Tail(FromSetSock(a)) = FromSetSocket(a)
         /\ Tail(FromSetConn(a)) = FromSetSock(a)
         /\ Tail(FromSession(a)) = FromSetConn(a)
         /\ Tail(FromClose(a)) = FromSession(a)
         /\ Tail(FromEvents(a)) = FromClose(a)
         /\ Tail(FromPointers(a)) = FromEvents(a)
BY ShapeFacts

\* The same for a client that has a socket and no connection yet.
LEMMA FetchShape ==
  ASSUME NEW a \in FetchData
  PROVE  /\ FromFetch(a) \in Seq(Steps) /\ FromFetch(a) # <<>>
         /\ Head(FromFetch(a)) = Step("fetch", a) /\ Tail(FromFetch(a)) = AfterAccept
<1>1. Step("fetch", a) \in Steps /\ AfterAccept \in Seq(Steps)
  <2>1. Step("accept", NULL) \in Steps /\ Step("fetch", a) \in Steps
    BY AcceptStepsMade DEF Ops
  <2> QED BY <2>1 DEF AfterAccept
<1> QED BY <1>1, ConsFacts DEF FromFetch

\* So much is new when it is at a step.
StageOf(op, q) ==
  \/ op = "crash"
  \/ op \in {"begin", "deaf", "accept"} /\ Reserve(0, NewConns, NewSocks)
  \/ /\ op = "fetch"
     /\ \E a \in FetchData : /\ q = FromFetch(a)
                             /\ NewClient(a.client) /\ a.sock \in NewSocks
                             /\ Reserve(1, NewConns, NewSocks \ {a.sock})
  \/ \E a \in HeldData :
       /\ \/ op = "pointers" /\ q = FromPointers(a)
          \/ op = "events" /\ q = FromEvents(a)
          \/ op = "bclose" /\ q = FromClose(a)
          \/ op = "session" /\ q = FromSession(a)
       /\ NewClient(a.client) /\ a.sock \in NewSocks /\ a.conn \in NewConns
       /\ Reserve(0, NewConns \ {a.conn}, NewSocks \ {a.sock})
  \/ \E a \in HeldData :
       /\ op = "setconn" /\ q = FromSetConn(a)
       /\ Made(a.conn) /\ a.sock \in NewSocks
       /\ Reserve(0, NewConns, NewSocks \ {a.sock})
  \/ \E a \in HeldData :
       /\ sock[a.sock].conn = a.conn /\ Reserve(0, NewConns, NewSocks)
       /\ \/ op = "setsock" /\ q = FromSetSock(a) /\ Made(a.conn)
          \/ op = "setsocket" /\ q = FromSetSocket(a) /\ Made(a.conn)
          \/ /\ op \in {"check", "net"} /\ q = Announcing(op, a)
             /\ Made(a.conn) /\ conn[a.conn].poSocket \in {a.sock, NULL}
          \/ op = "module" /\ q = Announcing(op, a) /\ a.conn \in Announced
          \/ op = "aim" /\ q = FromAim(a) /\ a.conn \in Announced
          \/ op = "register" /\ q = FromRegister(a) /\ a.conn \in Announced

\* It is at that step in one of the stages.
LEMMA StageAt ==
  ASSUME StageInv, NEW op, At("acceptor", op)
  PROVE  StageOf(op, todo["acceptor"])
<1> DEFINE q == todo["acceptor"]
<1>1. q # <<>> /\ Head(q).op = op
  BY DEF At
<1>2. CASE /\ q \in {<<>>, AfterAccept, <<Step("begin", "acceptor")>>, <<Step("deaf", "acceptor")>>}
           /\ Reserve(0, NewConns, NewSocks)
  <2>1. op \in {"begin", "deaf", "accept"}
    BY <1>1, <1>2 DEF AfterAccept, Step
  <2> QED BY <1>2, <2>1 DEF StageOf
<1>3. ASSUME NEW a \in FetchData, q = FromFetch(a), NewClient(a.client), a.sock \in NewSocks,
             Reserve(1, NewConns, NewSocks \ {a.sock})
      PROVE  StageOf(op, q)
  <2>1. op = "fetch"
    BY <1>1, <1>3, FetchShape DEF Step
  <2> QED BY <1>3, <2>1 DEF StageOf
<1>4. ASSUME NEW a \in HeldData, NEW o \in PushOps, q = Announcing(o, a) PROVE op = o
  <2>1. Head(q) = EventStep(o, a.conn, "CONNECTED")
    BY <1>4, ShapeOps
  <2> QED BY <1>1, <2>1 DEF EventStep, Step
<1>5. ASSUME NEW a \in HeldData, Stage(a) PROVE StageOf(op, q)
  <2>1. CASE /\ q \in {FromPointers(a), FromEvents(a), FromClose(a), FromSession(a)}
             /\ NewClient(a.client) /\ a.sock \in NewSocks /\ a.conn \in NewConns
             /\ Reserve(0, NewConns \ {a.conn}, NewSocks \ {a.sock})
    <3>1. \/ op = "pointers" /\ q = FromPointers(a)
          \/ op = "events" /\ q = FromEvents(a)
          \/ op = "bclose" /\ q = FromClose(a)
          \/ op = "session" /\ q = FromSession(a)
      BY <1>1, <2>1, ShapeOps DEF Step
    <3> QED BY <2>1, <3>1 DEF StageOf
  <2>2. CASE /\ q = FromSetConn(a)
             /\ Made(a.conn) /\ a.sock \in NewSocks
             /\ Reserve(0, NewConns, NewSocks \ {a.sock})
    <3>1. op = "setconn"
      BY <1>1, <2>2, ShapeOps DEF Step
    <3> QED BY <2>2, <3>1 DEF StageOf
  <2>3. CASE /\ sock[a.sock].conn = a.conn /\ Reserve(0, NewConns, NewSocks)
             /\ q \in {FromSetSock(a), FromSetSocket(a)} /\ Made(a.conn)
    <3>1. \/ q = FromSetSock(a) /\ op = "setsock"
          \/ q = FromSetSocket(a) /\ op = "setsocket"
      BY <1>1, <2>3, ShapeOps DEF Step
    <3> QED BY <2>3, <3>1 DEF StageOf
  <2>4. CASE /\ sock[a.sock].conn = a.conn /\ Reserve(0, NewConns, NewSocks)
             /\ q \in {Announcing("check", a), Announcing("net", a)}
             /\ Made(a.conn) /\ conn[a.conn].poSocket \in {a.sock, NULL}
    <3>1. op \in {"check", "net"} /\ q = Announcing(op, a)
      BY <1>1, <1>4, <2>4 DEF PushOps
    <3> QED BY <2>4, <3>1 DEF StageOf
  <2>5. CASE /\ sock[a.sock].conn = a.conn /\ Reserve(0, NewConns, NewSocks)
             /\ q \in {Announcing("module", a), FromAim(a), FromRegister(a)}
             /\ a.conn \in Announced
    <3>1. \/ op = "module" /\ q = Announcing(op, a)
          \/ op = "aim" /\ q = FromAim(a)
          \/ op = "register" /\ q = FromRegister(a)
      <4>1. CASE q = Announcing("module", a)
        BY <1>4, <4>1 DEF PushOps
      <4>2. CASE q = FromAim(a)
        BY <1>1, <4>2, ShapeOps DEF Step
      <4>3. CASE q = FromRegister(a)
        BY <1>1, <4>3, ShapeOps DEF Step
      <4> QED BY <2>5, <4>1, <4>2, <4>3
    <3> QED BY <2>5, <3>1 DEF StageOf
  <2> QED BY <1>5, <2>1, <2>2, <2>3, <2>4, <2>5 DEF Stage
<1>6. CASE At("acceptor", "crash")
  BY <1>1, <1>6 DEF At, StageOf
<1> QED BY <1>2, <1>3, <1>5, <1>6 DEF StageInv

\* Each step has one stage.
LEMMA StageOps ==
  ASSUME NEW q
  PROVE  /\ StageOf("begin", q) \/ StageOf("accept", q) => Reserve(0, NewConns, NewSocks)
         /\ StageOf("fetch", q) =>
              \E a \in FetchData : /\ q = FromFetch(a)
                                   /\ NewClient(a.client) /\ a.sock \in NewSocks
                                   /\ Reserve(1, NewConns, NewSocks \ {a.sock})
         /\ StageOf("session", q) =>
              \E a \in HeldData :
                /\ q = FromSession(a)
                /\ NewClient(a.client) /\ a.sock \in NewSocks /\ a.conn \in NewConns
                /\ Reserve(0, NewConns \ {a.conn}, NewSocks \ {a.sock})
         /\ StageOf("setconn", q) =>
              \E a \in HeldData : /\ q = FromSetConn(a)
                                  /\ Made(a.conn) /\ a.sock \in NewSocks
                                  /\ Reserve(0, NewConns, NewSocks \ {a.sock})
         /\ StageOf("net", q) =>
              \E a \in HeldData :
                /\ sock[a.sock].conn = a.conn /\ Reserve(0, NewConns, NewSocks)
                /\ q = Announcing("net", a)
                /\ Made(a.conn) /\ conn[a.conn].poSocket \in {a.sock, NULL}
         /\ StageOf("module", q) =>
              \E a \in HeldData :
                /\ sock[a.sock].conn = a.conn /\ Reserve(0, NewConns, NewSocks)
                /\ q = Announcing("module", a) /\ a.conn \in Announced
         /\ StageOf("aim", q) =>
              \E a \in HeldData :
                /\ sock[a.sock].conn = a.conn /\ Reserve(0, NewConns, NewSocks)
                /\ q = FromAim(a) /\ a.conn \in Announced
         /\ StageOf("register", q) =>
              \E a \in HeldData :
                /\ sock[a.sock].conn = a.conn /\ Reserve(0, NewConns, NewSocks)
                /\ q = FromRegister(a) /\ a.conn \in Announced
<1>1. StageOf("begin", q) \/ StageOf("accept", q) => Reserve(0, NewConns, NewSocks)
  BY DEF StageOf
<1>2. StageOf("fetch", q) =>
        \E a \in FetchData : /\ q = FromFetch(a)
                             /\ NewClient(a.client) /\ a.sock \in NewSocks
                             /\ Reserve(1, NewConns, NewSocks \ {a.sock})
  BY DEF StageOf
<1>3. StageOf("session", q) =>
        \E a \in HeldData :
          /\ q = FromSession(a)
          /\ NewClient(a.client) /\ a.sock \in NewSocks /\ a.conn \in NewConns
          /\ Reserve(0, NewConns \ {a.conn}, NewSocks \ {a.sock})
  BY DEF StageOf
<1>4. StageOf("setconn", q) =>
        \E a \in HeldData : /\ q = FromSetConn(a)
                            /\ Made(a.conn) /\ a.sock \in NewSocks
                            /\ Reserve(0, NewConns, NewSocks \ {a.sock})
  BY DEF StageOf
<1>5. StageOf("net", q) =>
        \E a \in HeldData :
          /\ sock[a.sock].conn = a.conn /\ Reserve(0, NewConns, NewSocks)
          /\ q = Announcing("net", a)
          /\ Made(a.conn) /\ conn[a.conn].poSocket \in {a.sock, NULL}
  BY DEF StageOf
<1>6. StageOf("module", q) =>
        \E a \in HeldData :
          /\ sock[a.sock].conn = a.conn /\ Reserve(0, NewConns, NewSocks)
          /\ q = Announcing("module", a) /\ a.conn \in Announced
  BY DEF StageOf
<1>7. StageOf("aim", q) =>
        \E a \in HeldData :
          /\ sock[a.sock].conn = a.conn /\ Reserve(0, NewConns, NewSocks)
          /\ q = FromAim(a) /\ a.conn \in Announced
  BY DEF StageOf
<1>8. StageOf("register", q) =>
        \E a \in HeldData :
          /\ sock[a.sock].conn = a.conn /\ Reserve(0, NewConns, NewSocks)
          /\ q = FromRegister(a) /\ a.conn \in Announced
  BY DEF StageOf
<1> QED BY <1>1, <1>2, <1>3, <1>4, <1>5, <1>6, <1>7, <1>8

\* A step that is done gives way to the next.
LEMMA AcceptorNext ==
  ASSUME StepsInv, NEW op, At("acceptor", op), NEW s \in Seq(Steps), Continue("acceptor", s)
  PROVE  /\ todo'["acceptor"] = s \o Tail(todo["acceptor"])
         /\ s = <<>> => todo'["acceptor"] = Tail(todo["acceptor"])
         /\ \A u \in Threads : u # "acceptor" => todo'[u] = todo[u]
<1>1. "acceptor" \in Threads /\ todo["acceptor"] # <<>>
  BY DEF Threads, At
<1>2. /\ todo'["acceptor"] = s \o Tail(todo["acceptor"]) /\ Tail(todo["acceptor"]) \in Seq(Steps)
      /\ \A u \in Threads : u # "acceptor" => todo'[u] = todo[u]
  BY <1>1, ContinueFacts
<1>3. \A x \in Seq(Steps) : <<>> \o x = x
  OBVIOUS
<1> QED BY <1>2, <1>3

\* As when nothing comes before it.
LEMMA AcceptorDone ==
  ASSUME StepsInv, NEW op, At("acceptor", op), Continue("acceptor", <<>>)
  PROVE  /\ todo'["acceptor"] = Tail(todo["acceptor"])
         /\ \A u \in Threads : u # "acceptor" => todo'[u] = todo[u]
<1>1. <<>> \in Seq(Steps)
  OBVIOUS
<1> QED BY <1>1, AcceptorNext

\* What it does before and after the announcement, but for the token, is nothing to the others.
LEMMA AcceptorQuiet ==
  ASSUME IInv, ConnInv', KnownInv, EventsInv, \A u \in Threads : u # "acceptor" => todo'[u] = todo[u],
         UNCHANGED <<eventQueue, heard>>, Announced' = Announced, Reachable' = Reachable,
         \A c \in Conns : conn'[c].eventNet = conn[c].eventNet,
         \A c \in Announced : /\ conn'[c] = conn[c]
                              /\ sessConn'[conn[c].session] = sessConn[conn[c].session],
         epEvent' \in [EpollThreads -> Reachable \cup {NULL, NoThread}],
         \A f \in Fds : watched'[f].thread \in EpollThreads => watched'[f].sock \in Reachable,
         SessionsInv', StageInv',
         \/ todo'["acceptor"] = <<>>
         \/ Head(todo'["acceptor"]).op \notin {"net", "module", "proc"}
         \/ Head(todo'["acceptor"]).op = "net" /\ Head(todo'["acceptor"]).of.event # "CLOSE"
  PROVE  KnownInv' /\ EventsInv'
<1>1. CallsInv'
  BY DEF KnownInv, CallsInv
<1>2. LinksInv'
  BY DEF KnownInv, LinksInv
<1>3. OwnInv'
  BY DEF KnownInv, OwnInv
<1>4. \A c \in Conns : ~HasToken("acceptor", c)' /\ "acceptor" \notin ClosersOf(c)'
  BY DEF HasToken, ClosersOf, PushersAt, At, Of
<1>5. EventsInv'
  <2>1. "acceptor" \in Threads
    BY DEF Threads
  <2> QED BY <1>4, <2>1, EventsSame
<1> QED BY <1>1, <1>2, <1>3, <1>5 DEF KnownInv

\* Sessions, events and ties that stay the same show the same as announced and as new.
LEMMA SeenSame ==
  ASSUME \A c \in Conns : conn'[c].eventNet = conn[c].eventNet /\ conn'[c].session = conn[c].session,
         \A x \in Socks : sock'[x].conn = sock[x].conn, UNCHANGED heard
  PROVE  /\ Announced' = Announced /\ Reachable' = Reachable
         /\ NewConns' = NewConns /\ NewSocks' = NewSocks
         /\ accepted' = accepted => \A k : NewClient(k) => NewClient(k)'
         /\ sessConn' = sessConn => \A c \in Conns : Made(c) => Made(c)'
         /\ accepted' = accepted /\ SessionsInv => SessionsInv'
<1>1. Announced' = Announced
  BY DEF Announced
<1>2. Reachable' = Reachable
  BY <1>1 DEF Reachable, Linked
<1>3. NewConns' = NewConns /\ NewSocks' = NewSocks
  BY DEF NewConns, NewSocks
<1>4. accepted' = accepted => \A k : NewClient(k) => NewClient(k)'
  BY DEF NewClient
<1>5. sessConn' = sessConn => \A c \in Conns : Made(c) => Made(c)'
  BY DEF Made
<1>6. accepted' = accepted /\ SessionsInv => SessionsInv'
  BY DEF SessionsInv
<1> QED BY <1>1, <1>2, <1>3, <1>4, <1>5, <1>6

\* Nothing of it sees the clients, the descriptors and the traffic.
LEMMA UnseenStep ==
  ASSUME KnownInv, EventsInv,
         UNCHANGED <<todo, conn, eventQueue, sock, epEvent, sessConn, connPool, sockPool, watched,
                     accepted, heard>>
  PROVE  KnownInv' /\ EventsInv'
<1>1. /\ Announced' = Announced /\ Reachable' = Reachable
      /\ NewConns' = NewConns /\ NewSocks' = NewSocks
      /\ (\A k : NewClient(k) => NewClient(k)') /\ \A c \in Conns : Made(c) => Made(c)'
  BY SeenSame
<1>2. CallsInv' /\ LinksInv' /\ OwnInv' /\ SessionsInv'
  <2>1. CallsInv' /\ LinksInv' /\ OwnInv'
    BY <1>1 DEF KnownInv, CallsInv, LinksInv, OwnInv
  <2>2. SessionsInv'
    BY DEF KnownInv, SessionsInv
  <2> QED BY <2>1, <2>2
<1>3. \A n \in {0, 1} : \A A, B : Reserve(n, A, B) => /\ Left(connPool'.free, Cardinality(Conns) - accepted' + n, A)
                                                      /\ Left(sockPool'.free, Cardinality(Socks) - accepted', B)
  BY DEF Reserve
<1>4. \A a \in HeldData : Stage(a) => Stage(a)'
  BY <1>1, <1>3 DEF Stage, Reserve, HeldData
<1>5. StageInv'
  <2>1. At("acceptor", "crash") => At("acceptor", "crash")'
    BY DEF At
  <2> QED BY <1>1, <1>3, <1>4, <2>1 DEF KnownInv, StageInv, Reserve
<1>6. ConnectInv'
  BY <1>1 DEF EventsInv, ConnectInv
<1>7. \A c \in Conns : Tokens(c)' = Tokens(c) /\ Closings(c)' = Closings(c)
  BY DEF Tokens, PushersAt, At, Of, Closings, ClosersOf, Hears
<1>8. CloseInv' /\ TokensInv'
  BY <1>1, <1>7 DEF EventsInv, CloseInv, TokensInv, Announced
<1> QED BY <1>2, <1>5, <1>6, <1>8 DEF KnownInv, EventsInv

\* The sockets are made and a client is waited for.
LEMMA WaitingQuiet ==
  ASSUME IInv, IInv', KnownInv, EventsInv, DisposerBegin \/ EpollWait
  PROVE  KnownInv' /\ EventsInv'
<1>1. /\ StepsInv /\ ConnInv' /\ LinksInv /\ SessionsInv /\ StageInv
      /\ UNCHANGED <<conn, eventQueue, sock, sessConn, connPool, sockPool, watched, accepted, heard>>
  BY DEF IInv, DataInv, KnownInv, DisposerBegin, EpollWait, pools, kernel
<1>7. epEvent' \in [EpollThreads -> Reachable \cup {NULL, NoThread}]
  BY <1>1 DEF DisposerBegin, EpollWait, LinksInv
<1>2. /\ \A u \in Threads : u # "acceptor" => todo'[u] = todo[u]
      /\ todo'["acceptor"] \in {<<>>, AfterAccept, <<Step("deaf", "acceptor")>>}
      /\ Reserve(0, NewConns, NewSocks)
  <2>1. CASE DisposerBegin
    <3>1. PICK s \in {<<>>, <<Step("deaf", "acceptor")>>} : Continue("acceptor", s)
      BY <2>1 DEF DisposerBegin
    <3>2. Tail(todo["acceptor"]) = <<>> /\ At("acceptor", "begin")
      BY <2>1, AcceptorAt DEF DisposerBegin, IInv
    <3>3. s \in Seq(Steps) /\ s \o <<>> = s
      <4>1. Step("deaf", "acceptor") \in Steps
        BY AcceptStepsMade DEF Ops, Threads
      <4>2. s \in Seq(Steps)
        <5>1. <<>> \in Seq(Steps) /\ <<Step("deaf", "acceptor")>> \in Seq(Steps)
          BY <4>1
        <5> QED BY <3>1, <5>1
      <4> QED BY <4>2, ConcatEmptySeq
    <3>4. Reserve(0, NewConns, NewSocks)
      <4>1. StageOf("begin", todo["acceptor"])
        BY <1>1, <3>2, StageAt
      <4> QED BY <4>1, StageOps
    <3> QED BY <1>1, <3>1, <3>2, <3>3, <3>4, AcceptorNext
  <2>2. CASE EpollWait
    <3>1. todo["acceptor"] = <<>> /\ todo' = [todo EXCEPT !["acceptor"] = AfterAccept]
      BY <2>2 DEF EpollWait, AfterAccept
    <3>2. Reserve(0, NewConns, NewSocks)
      <4>1. \A a \in FetchData : FromFetch(a) # <<>>
        BY FetchShape
      <4>2. \A a \in HeldData : ~Stage(a)
        BY <3>1, ShapeOps DEF Stage, PushOps
      <4>3. ~At("acceptor", "crash")
        BY <3>1 DEF At
      <4> QED BY <1>1, <3>1, <4>1, <4>2, <4>3 DEF StageInv
    <3> QED BY <1>1, <3>1, <3>2 DEF StepsInv, Threads
  <2> QED BY <2>1, <2>2
<1>3. /\ Announced' = Announced /\ Reachable' = Reachable /\ SessionsInv'
      /\ NewConns' = NewConns /\ NewSocks' = NewSocks
  BY <1>1, SeenSame
<1>4. StageInv'
  BY <1>1, <1>2, <1>3 DEF StageInv, Reserve
<1>5. \/ todo'["acceptor"] = <<>>
      \/ Head(todo'["acceptor"]).op \notin {"net", "module", "proc"}
  BY <1>2 DEF AfterAccept, Step
<1>6. \A c \in Announced : c \in Conns
  BY DEF Announced
<1> QED BY <1>1, <1>2, <1>3, <1>4, <1>5, <1>6, <1>7, AcceptorQuiet DEF LinksInv

\* The first of a list that is left goes to the next client; the others are left.
LEMMA TakeSock ==
  ASSUME PoolsInv, accepted \in Nat, accepted + 1 <= Cardinality(Socks), Reserve(0, NewConns, NewSocks)
  PROVE  /\ sockPool.free # <<>> /\ Head(sockPool.free) \in NewSocks
         /\ Left(Tail(sockPool.free), Cardinality(Socks) - (accepted + 1), NewSocks \ {Head(sockPool.free)})
<1>1. Cardinality(Socks) \in Nat /\ sockPool.free \in Seq(Socks)
  BY Counts DEF PoolsInv, Pools
<1>2. PICK n \in Int : n = Cardinality(Socks) - accepted
  BY <1>1
<1>3. n >= 1 /\ n - 1 = Cardinality(Socks) - (accepted + 1)
  BY <1>1, <1>2
<1>4. Left(sockPool.free, n, NewSocks)
  BY <1>2 DEF Reserve
<1> QED BY <1>1, <1>3, <1>4, LeftTail

\* So with the connections.
LEMMA TakeConn ==
  ASSUME PoolsInv, accepted \in Nat, accepted <= Cardinality(Conns), NEW B, Reserve(1, NewConns, B)
  PROVE  /\ connPool.free # <<>> /\ Head(connPool.free) \in NewConns
         /\ Left(Tail(connPool.free), Cardinality(Conns) - accepted + 0, NewConns \ {Head(connPool.free)})
<1>1. Cardinality(Conns) \in Nat /\ connPool.free \in Seq(Conns)
  BY Counts DEF PoolsInv, Pools
<1>2. PICK n \in Int : n = Cardinality(Conns) - accepted + 1
  BY <1>1
<1>3. n >= 1 /\ n - 1 = Cardinality(Conns) - accepted + 0
  BY <1>1, <1>2
<1>4. Left(connPool.free, n, NewConns)
  BY <1>2 DEF Reserve
<1> QED BY <1>1, <1>3, <1>4, LeftTail

\* A client takes one of the sockets that are left, or is lost.
LEMMA AcceptQuiet ==
  ASSUME IInv, IInv', FirstUse', KnownInv, EventsInv, Accept \/ AcceptFails
  PROVE  KnownInv' /\ EventsInv'
<1>1. /\ StepsInv /\ ConnInv /\ ConnInv' /\ LinksInv /\ SessionsInv /\ StageInv /\ PoolsInv /\ KernelInv
      /\ SockInv /\ At("acceptor", "accept")
      /\ UNCHANGED <<conn, eventQueue, epEvent, sessConn, connPool, watched, heard>>
  BY DEF IInv, DataInv, KnownInv, Accept, AcceptFails, pools
<1>2. Tail(todo["acceptor"]) = <<>> /\ Reserve(0, NewConns, NewSocks) /\ accepted \in Nat
      /\ connPool.free \in Seq(Conns) /\ sockPool.free \in Seq(Socks)
  <2>1. StageOf("accept", todo["acceptor"])
    BY <1>1, StageAt
  <2>2. Reserve(0, NewConns, NewSocks)
    BY <2>1, StageOps
  <2> QED BY <1>1, <2>2, AcceptorAt DEF IInv, KernelInv, PoolsInv, Pools
<1>3. /\ AfterAccept \in Seq(Steps) /\ <<>> \in Seq(Steps)
      /\ \A s \in Seq(Steps) : s \o <<>> = s
  <2>1. Step("accept", NULL) \in Steps
    BY AcceptStepsMade DEF Ops
  <2> QED BY <2>1, ConcatEmptySeq DEF AfterAccept
<1>4. \A x \in Socks : sock'[x].conn = sock[x].conn
  <2>1. sock' = sock \/ \E s, t : sock' = [sock EXCEPT ![s].mark = t]
    BY DEF Accept, AcceptFails
  <2> QED BY <1>1, <2>1 DEF SockInv
<1>5. /\ Announced' = Announced /\ Reachable' = Reachable
      /\ NewConns' = NewConns /\ NewSocks' = NewSocks
  BY <1>1, <1>4, SeenSame
<1>6. accepted' \in {accepted, accepted + 1}
  <2>1. CASE Accept
    BY <2>1 DEF Accept
  <2>2. CASE AcceptFails
    <3>1. PICK gone \in {0, 1} : accepted' = accepted + gone
      BY <2>2 DEF AcceptFails
    <3> QED BY <1>2, <3>1
  <2> QED BY <2>1, <2>2
<1>7. SessionsInv'
  <2>1. 0 .. accepted \subseteq 0 .. accepted'
    BY <1>2, <1>6
  <2>2. \A k \in Clients : k > accepted' => k > accepted
    BY <1>2, <1>6, NetAssumption DEF Clients
  <2> QED BY <1>1, <2>1, <2>2 DEF SessionsInv
<1>8. ASSUME StageInv', \A u \in Threads : u # "acceptor" => todo'[u] = todo[u],
             \/ todo'["acceptor"] = <<>>
             \/ Head(todo'["acceptor"]).op \notin {"net", "module", "proc"}
      PROVE  KnownInv' /\ EventsInv'
  <2>1. \A c \in Announced : c \in Conns
    BY DEF Announced
  <2> QED BY <1>1, <1>5, <1>7, <1>8, <2>1, AcceptorQuiet DEF LinksInv
<1>9. PICK n \in {0, 1} : accepted' = accepted + n
  BY <1>2, <1>6
<1>10. Cardinality(Conns) \in Nat /\ Cardinality(Socks) \in Nat
  BY <1>2, Counts
<1>11. CASE sockPool' = sockPool /\ (Continue("acceptor", <<>>) \/ Continue("acceptor", AfterAccept))
  <2>1. /\ todo'["acceptor"] \in {<<>>, AfterAccept}
        /\ \A u \in Threads : u # "acceptor" => todo'[u] = todo[u]
    BY <1>1, <1>2, <1>3, <1>11, AcceptorNext
  <2>2. /\ Left(connPool.free, Cardinality(Conns) - accepted + 0, NewConns)
        /\ Left(sockPool.free, Cardinality(Socks) - accepted, NewSocks)
    BY <1>2 DEF Reserve
  <2>3. /\ Cardinality(Conns) - accepted + 0 \in Int /\ Cardinality(Socks) - accepted \in Int
        /\ Cardinality(Conns) - accepted' + 0 \in Int /\ Cardinality(Socks) - accepted' \in Int
        /\ Cardinality(Conns) - accepted' + 0 <= Cardinality(Conns) - accepted + 0
        /\ Cardinality(Socks) - accepted' <= Cardinality(Socks) - accepted
    BY <1>2, <1>9, <1>10
  <2>4. Len(connPool.free) \in Nat /\ Len(sockPool.free) \in Nat
    BY <1>2, LenProperties
  <2>5. Left(connPool.free, Cardinality(Conns) - accepted' + 0, NewConns)
    BY <2>2, <2>3, <2>4, LeftOver
  <2>6. Left(sockPool.free, Cardinality(Socks) - accepted', NewSocks)
    BY <2>2, <2>3, <2>4, LeftOver
  <2>7. Reserve(0, NewConns, NewSocks)'
    BY <1>1, <1>5, <1>11, <2>5, <2>6 DEF Reserve
  <2>8. StageInv'
    BY <2>1, <2>7 DEF StageInv
  <2>9. \/ todo'["acceptor"] = <<>>
        \/ Head(todo'["acceptor"]).op \notin {"net", "module", "proc"}
    BY <2>1 DEF AfterAccept, Step
  <2> QED BY <1>8, <2>1, <2>8, <2>9
<1>12. PICK f : f = LowestFd
  OBVIOUS
<1>13. PICK s : s = Head(sockPool.free)
  OBVIOUS
<1>14. CASE /\ backlog.clients > 0 /\ accepted' = accepted + 1 /\ sockPool' = Fetched(sockPool)
            /\ Continue("acceptor", <<Step("fetch", [client |-> accepted + 1, fd |-> f, sock |-> s])>>
                                      \o AfterAccept)
  <2>1. f \in Fds
    BY <1>1, <1>12, <1>14, LowestFdIsFree
  <2>2. accepted + 1 \in Clients
    <3>1. backlog.clients \in Nat /\ accepted + backlog.clients <= MaxAccepts /\ MaxAccepts \in Nat
      BY <1>1, NetAssumption DEF KernelInv
    <3> QED BY <1>2, <1>14, <3>1 DEF Clients
  <2>3. accepted + 1 <= Cardinality(Socks) /\ accepted + 1 <= Cardinality(Conns)
    BY <1>14 DEF FirstUse
  <2>4. /\ s \in NewSocks
        /\ Left(Tail(sockPool.free), Cardinality(Socks) - (accepted + 1), NewSocks \ {s})
    BY <1>1, <1>2, <1>13, <2>3, TakeSock
  <2>5. PICK a : a = [client |-> accepted + 1, fd |-> f, sock |-> s]
    OBVIOUS
  <2>6. a \in FetchData /\ a.client = accepted + 1 /\ a.sock = s
    BY <2>1, <2>2, <2>4, <2>5 DEF FetchData, NewSocks
  <2>7. <<Step("fetch", a)>> \o AfterAccept = FromFetch(a) /\ FromFetch(a) \in Seq(Steps)
    BY <2>6, FetchShape DEF FromFetch
  <2>8. /\ todo'["acceptor"] = FromFetch(a)
        /\ \A u \in Threads : u # "acceptor" => todo'[u] = todo[u]
    BY <1>1, <1>2, <1>3, <1>14, <2>5, <2>7, AcceptorNext
  <2>9. NewClient(a.client)'
    <3>1. heard[accepted + 1] = {}
      <4>1. accepted + 1 > accepted
        BY <1>2
      <4> QED BY <1>1, <2>2, <4>1 DEF SessionsInv
    <3>2. \A c \in Conns : conn[c].session # accepted + 1
      <4>1. accepted + 1 \notin 0 .. accepted
        BY <1>2
      <4> QED BY <1>1, <4>1 DEF SessionsInv
    <3> QED BY <1>1, <1>14, <2>6, <3>1, <3>2 DEF NewClient
  <2>10. Reserve(1, NewConns, NewSocks \ {a.sock})'
    <3>1. sockPool'.free = Tail(sockPool.free)
      BY <1>14 DEF Fetched
    <3>2. Cardinality(Conns) - accepted' + 1 = Cardinality(Conns) - accepted + 0
      BY <1>2, <1>10, <1>14
    <3>3. Left(connPool'.free, Cardinality(Conns) - accepted' + 1, NewConns)
      BY <1>1, <1>2, <3>2 DEF Reserve
    <3>4. Left(sockPool'.free, Cardinality(Socks) - accepted', NewSocks \ {a.sock})
      BY <1>14, <2>4, <2>6, <3>1
    <3> QED BY <1>5, <3>3, <3>4 DEF Reserve
  <2>11. StageInv'
    BY <1>5, <2>4, <2>6, <2>8, <2>9, <2>10 DEF StageInv
  <2>12. Head(todo'["acceptor"]).op \notin {"net", "module", "proc"}
    BY <2>6, <2>8, FetchShape DEF Step
  <2> QED BY <1>8, <2>8, <2>11, <2>12
<1>15. \/ sockPool' = sockPool /\ (Continue("acceptor", <<>>) \/ Continue("acceptor", AfterAccept))
       \/ /\ backlog.clients > 0 /\ accepted' = accepted + 1 /\ sockPool' = Fetched(sockPool)
          /\ Continue("acceptor", <<Step("fetch", [client |-> accepted + 1, fd |-> f, sock |-> s])>>
                                    \o AfterAccept)
  BY <1>12, <1>13 DEF Accept, AcceptFails, pools
<1> QED BY <1>11, <1>14, <1>15

\* And one of the connections.
LEMMA FetchQuiet ==
  ASSUME IInv, IInv', FirstUse', KnownInv, EventsInv, FetchConnection
  PROVE  KnownInv' /\ EventsInv'
<1>1. /\ StepsInv /\ ConnInv /\ ConnInv' /\ LinksInv /\ SessionsInv /\ StageInv /\ PoolsInv
      /\ At("acceptor", "fetch") /\ connPool' = Fetched(connPool)
      /\ UNCHANGED <<conn, eventQueue, sock, epEvent, sessConn, sockPool, watched, accepted, heard>>
      /\ accepted \in Nat
  BY DEF IInv, DataInv, KnownInv, FetchConnection, kernel, KernelInv
<1>2. PICK a \in FetchData :
        /\ todo["acceptor"] = FromFetch(a)
        /\ NewClient(a.client) /\ a.sock \in NewSocks
        /\ Reserve(1, NewConns, NewSocks \ {a.sock})
  <2>1. StageOf("fetch", todo["acceptor"])
    BY <1>1, StageAt
  <2> QED BY <2>1, StageOps
<1>3. PICK c : c = Head(connPool.free)
  OBVIOUS
<1>4. accepted <= Cardinality(Conns)
  BY <1>1 DEF FirstUse
<1>5. /\ c \in NewConns
      /\ Left(Tail(connPool.free), Cardinality(Conns) - accepted + 0, NewConns \ {c})
  BY <1>1, <1>2, <1>3, <1>4, TakeConn
<1>6. PICK b : b = [client |-> a.client, fd |-> a.fd, sock |-> a.sock, conn |-> c]
  OBVIOUS
<1>7. b \in HeldData /\ b.client = a.client /\ b.sock = a.sock /\ b.conn = c
  BY <1>5, <1>6 DEF HeldData, FetchData, NewConns
<1>8. Of("acceptor") = a /\ Tail(todo["acceptor"]) = AfterAccept
  BY <1>2, FetchShape DEF Of, Step
<1>9. Continue("acceptor", AcceptSteps(b))
  BY <1>3, <1>6, <1>8 DEF FetchConnection
<1>10. AcceptSteps(b) \o AfterAccept = FromPointers(b) /\ FromPointers(b) \in Seq(Steps)
  BY <1>7, FetchedShape, ShapeFacts
<1>11. todo' = [todo EXCEPT !["acceptor"] = FromPointers(b)]
  BY <1>8, <1>9, <1>10 DEF Continue
<1>12. /\ todo'["acceptor"] = FromPointers(b)
       /\ \A u \in Threads : u # "acceptor" => todo'[u] = todo[u]
  BY <1>1, <1>11 DEF StepsInv, Threads
<1>13. /\ Announced' = Announced /\ Reachable' = Reachable /\ SessionsInv'
       /\ NewConns' = NewConns /\ NewSocks' = NewSocks /\ NewClient(b.client)'
  BY <1>1, <1>2, <1>7, SeenSame
<1>14. Reserve(0, NewConns \ {b.conn}, NewSocks \ {b.sock})'
  <2>1. connPool'.free = Tail(connPool.free)
    BY <1>1 DEF Fetched
  <2> QED BY <1>1, <1>2, <1>5, <1>7, <1>13, <2>1 DEF Reserve
<1>15. Stage(b)'
  BY <1>2, <1>5, <1>7, <1>12, <1>13, <1>14 DEF Stage
<1>16. StageInv'
  BY <1>7, <1>15 DEF StageInv
<1>17. Head(todo'["acceptor"]).op \notin {"net", "module", "proc"}
  BY <1>7, <1>12, ShapeOps, ShapeTails DEF Step
<1>18. \A d \in Announced : d \in Conns
  BY DEF Announced
<1> QED BY <1>1, <1>12, <1>13, <1>16, <1>17, <1>18, AcceptorQuiet DEF LinksInv

\* Nobody else is at the queue of a new connection.
LEMMA InitIsAlone ==
  ASSUME KnownInv, InitEvents
  PROVE  conn' = [conn EXCEPT ![Held.conn].eventNet = <<>>, ![Held.conn].torn = FALSE]
<1>1. At("acceptor", "events") /\ StageInv /\ CallsInv
  BY DEF InitEvents, Assign, KnownInv
<1>2. PICK a \in HeldData : todo["acceptor"] = FromEvents(a) /\ a.conn \in NewConns
  <2>1. StageOf("events", todo["acceptor"])
    BY <1>1, StageAt
  <2> QED BY <2>1 DEF StageOf
<1>3. Held = a
  <2>1. Head(todo["acceptor"]) = Step("events", a)
    BY <1>2, ShapeOps
  <2> QED BY <2>1 DEF Held, Of, Step
<1>4. a.conn \notin Announced
  BY <1>2 DEF NewConns, Announced
<1>5. ASSUME At("main", "proc") PROVE Of("main") \in Announced
  BY <1>1, <1>5, OtherThreads, CallAt DEF At, ConnOps
<1>6. ASSUME NEW t \in Threads \ {"acceptor"}, At(t, "net") PROVE Of(t).conn \in Announced
  <2>1. Of(t) \in OpenData(Announced)
    BY <1>1, <1>6, CallAt DEF At, PushOps
  <2> QED BY <2>1 DEF OpenData
<1>7. Busy(Held.conn) = FALSE
  <2>1. ~Busy(a.conn)
    BY <1>4, <1>5, <1>6 DEF Busy
  <2> QED BY <1>3, <2>1, BusyIsBoolean
<1>8. PICK b \in {FALSE, Busy(Held.conn)} :
        \E q \in IF b THEN SeqOf(ENetEvtType, NetEventPerSock - 1) ELSE {<<>>} :
          conn' = [conn EXCEPT ![Held.conn].eventNet = q, ![Held.conn].torn = b]
  BY DEF InitEvents, Assign
<1>9. b = FALSE
  BY <1>7, <1>8
<1>10. PICK q \in {<<>>} : conn' = [conn EXCEPT ![Held.conn].eventNet = q, ![Held.conn].torn = b]
  BY <1>8, <1>9
<1> QED BY <1>9, <1>10

\* CConnection::Init makes a new connection as it was.
LEMMA InitQuiet ==
  ASSUME IInv, IInv', KnownInv, EventsInv, InitPointers \/ InitEvents \/ InitClose
  PROVE  KnownInv' /\ EventsInv'
<1>1. PICK op \in {"pointers", "events", "bclose"} :
        /\ At("acceptor", op)
        /\ op = "pointers" => InitPointers
        /\ op = "events" => InitEvents
        /\ op = "bclose" => InitClose
  BY DEF InitPointers, InitEvents, InitClose, Assign
<1>2. /\ StepsInv /\ ConnInv /\ ConnInv' /\ LinksInv /\ SessionsInv /\ StageInv
      /\ Continue("acceptor", <<>>)
      /\ UNCHANGED <<eventQueue, sock, epEvent, sessConn, connPool, sockPool, watched, accepted, heard>>
  BY <1>1 DEF IInv, DataInv, KnownInv, InitPointers, InitEvents, InitClose, Assign, kernel, pools
<1>3. PICK a \in HeldData :
        /\ op = "pointers" => todo["acceptor"] = FromPointers(a)
        /\ op = "events" => todo["acceptor"] = FromEvents(a)
        /\ op = "bclose" => todo["acceptor"] = FromClose(a)
        /\ NewClient(a.client) /\ a.sock \in NewSocks /\ a.conn \in NewConns
        /\ Reserve(0, NewConns \ {a.conn}, NewSocks \ {a.sock})
  BY <1>1, <1>2, StageAt DEF StageOf
<1>4. /\ todo'["acceptor"] \in {FromEvents(a), FromClose(a), FromSession(a)}
      /\ \A u \in Threads : u # "acceptor" => todo'[u] = todo[u]
      /\ Held = a
  <2>1. /\ Tail(todo["acceptor"]) \in {FromEvents(a), FromClose(a), FromSession(a)}
        /\ Held = a
    <3>1. CASE op = "pointers"
      <4>1. todo["acceptor"] = FromPointers(a)
        BY <1>3, <3>1
      <4>2. Head(todo["acceptor"]) = Step("pointers", a) /\ Tail(todo["acceptor"]) = FromEvents(a)
        BY <4>1, ShapeOps, ShapeTails
      <4> QED BY <4>2 DEF Held, Of, Step
    <3>2. CASE op = "events"
      <4>1. todo["acceptor"] = FromEvents(a)
        BY <1>3, <3>2
      <4>2. Head(todo["acceptor"]) = Step("events", a) /\ Tail(todo["acceptor"]) = FromClose(a)
        BY <4>1, ShapeOps, ShapeTails
      <4> QED BY <4>2 DEF Held, Of, Step
    <3>3. CASE op = "bclose"
      <4>1. todo["acceptor"] = FromClose(a)
        BY <1>3, <3>3
      <4>2. Head(todo["acceptor"]) = Step("bclose", a) /\ Tail(todo["acceptor"]) = FromSession(a)
        BY <4>1, ShapeOps, ShapeTails
      <4> QED BY <4>2 DEF Held, Of, Step
    <3> QED BY <1>1, <3>1, <3>2, <3>3
  <2> QED BY <1>1, <1>2, <2>1, AcceptorDone
<1>5. a.conn \in Conns /\ conn[a.conn].session = NULL /\ conn[a.conn].eventNet = <<>>
      /\ a.conn \notin Announced
  BY <1>3 DEF NewConns, Announced
<1>6. \A d \in Conns : /\ conn'[d].eventNet = conn[d].eventNet /\ conn'[d].session = conn[d].session
                       /\ d # a.conn => conn'[d] = conn[d]
  <2>1. CASE op = "pointers"
    <3>1. conn' = [conn EXCEPT ![a.conn].poSocket = NULL, ![a.conn].session = NULL]
      BY <1>1, <1>4, <2>1 DEF InitPointers, Assign
    <3> QED BY <1>2, <1>5, <3>1 DEF ConnInv
  <2>2. CASE op = "events"
    <3>1. conn' = [conn EXCEPT ![a.conn].eventNet = <<>>, ![a.conn].torn = FALSE]
      BY <1>1, <1>4, <2>2, InitIsAlone
    <3> QED BY <1>2, <1>5, <3>1 DEF ConnInv
  <2>3. CASE op = "bclose"
    <3>1. conn' = [conn EXCEPT ![a.conn].bClose = TRUE]
      BY <1>1, <1>4, <2>3 DEF InitClose, Assign
    <3> QED BY <1>2, <1>5, <3>1 DEF ConnInv
  <2> QED BY <2>1, <2>2, <2>3
<1>7. /\ Announced' = Announced /\ Reachable' = Reachable /\ SessionsInv'
      /\ NewConns' = NewConns /\ NewSocks' = NewSocks /\ NewClient(a.client)'
  BY <1>2, <1>3, <1>6, SeenSame
<1>8. Stage(a)'
  BY <1>2, <1>3, <1>4, <1>7 DEF Stage, Reserve
<1>9. StageInv'
  BY <1>8 DEF StageInv
<1>10. Head(todo'["acceptor"]).op \notin {"net", "module", "proc"}
  BY <1>4, ShapeOps, ShapeTails DEF Step
<1>11. \A c \in Announced : /\ conn'[c] = conn[c]
                            /\ sessConn'[conn[c].session] = sessConn[conn[c].session]
  BY <1>2, <1>5, <1>6 DEF Announced
<1> QED BY <1>2, <1>4, <1>6, <1>7, <1>9, <1>10, <1>11, AcceptorQuiet DEF LinksInv

\* The session is the client's, and heard nothing.
LEMMA SetSessionQuiet ==
  ASSUME IInv, IInv', KnownInv, EventsInv, SetSession
  PROVE  KnownInv' /\ EventsInv'
<1>1. /\ StepsInv /\ ConnInv /\ ConnInv' /\ LinksInv /\ OwnInv /\ SessionsInv /\ StageInv /\ SockInv
      /\ Continue("acceptor", <<>>) /\ At("acceptor", "session") /\ accepted \in Nat
      /\ UNCHANGED <<eventQueue, sock, epEvent, connPool, sockPool, watched, accepted, heard>>
  BY DEF IInv, DataInv, KnownInv, SetSession, Assign, kernel, pools, KernelInv
<1>2. PICK a \in HeldData :
        /\ todo["acceptor"] = FromSession(a)
        /\ NewClient(a.client) /\ a.sock \in NewSocks /\ a.conn \in NewConns
        /\ Reserve(0, NewConns \ {a.conn}, NewSocks \ {a.sock})
  <2>1. StageOf("session", todo["acceptor"])
    BY <1>1, StageAt
  <2> QED BY <2>1, StageOps
<1>3. /\ todo'["acceptor"] = FromSetConn(a) /\ Held = a
      /\ \A u \in Threads : u # "acceptor" => todo'[u] = todo[u]
  <2>1. Tail(todo["acceptor"]) = FromSetConn(a) /\ Held = a
    BY <1>2, ShapeOps, ShapeTails DEF Held, Of, Step
  <2> QED BY <1>1, <2>1, AcceptorDone
<1>4. PICK c \in Conns, k \in Clients : c = a.conn /\ k = a.client
  BY DEF HeldData
<1>5. /\ conn[c].session = NULL /\ conn[c].eventNet = <<>> /\ c \notin Announced
      /\ heard[k] = {} /\ k = accepted /\ (\A d \in Conns : conn[d].session # k) /\ k # NULL
  BY <1>2, <1>4, NetAssumption DEF NewConns, NewClient, Announced, Clients, NULL
<1>6. conn' = [conn EXCEPT ![c].session = k] /\ sessConn' = [sessConn EXCEPT ![k] = c]
  BY <1>3, <1>4 DEF SetSession, Assign
<1>7. /\ \A d \in Conns : /\ conn'[d].eventNet = conn[d].eventNet
                          /\ d # c => conn'[d] = conn[d]
      /\ conn'[c].session = k
      /\ \A j \in Clients : j # k => sessConn'[j] = sessConn[j]
      /\ sessConn'[k] = c
  BY <1>1, <1>6 DEF ConnInv, SockInv
<1>8. Announced' = Announced
  <2>1. c \notin Announced'
    BY <1>1, <1>5, <1>7 DEF Announced
  <2>2. \A d \in Conns : d # c => (d \in Announced' <=> d \in Announced)
    BY <1>1, <1>7 DEF Announced
  <2>3. \A d \in Conns : d \in Announced' <=> d \in Announced
    BY <1>5, <2>1, <2>2
  <2>4. Announced \subseteq Conns /\ Announced' \subseteq Conns
    BY DEF Announced
  <2> QED BY <2>3, <2>4
<1>9. Reachable' = Reachable /\ NewSocks' = NewSocks
  BY <1>1, <1>8 DEF Reachable, Linked, NewSocks
<1>10. NewConns' = NewConns \ {c}
  <2>1. c \notin NewConns'
    BY <1>5, <1>7 DEF NewConns
  <2>2. \A d \in Conns : d # c => (d \in NewConns' <=> d \in NewConns)
    BY <1>7 DEF NewConns
  <2>3. NewConns \subseteq Conns /\ NewConns' \subseteq Conns
    BY DEF NewConns
  <2> QED BY <2>1, <2>2, <2>3
<1>11. SessionsInv'
  <2>1. \A d \in Conns : conn'[d].session \in 0 .. accepted
    <3>1. k \in 0 .. accepted
      BY <1>1, <1>5
    <3> QED BY <1>1, <1>7, <3>1 DEF SessionsInv
  <2>2. ASSUME NEW d \in Conns, NEW e \in Conns, conn'[d].session = conn'[e].session,
               conn'[d].session # NULL
        PROVE  d = e
    <3>1. CASE d = c \/ e = c
      BY <1>5, <1>7, <2>2, <3>1
    <3>2. CASE d # c /\ e # c
      BY <1>1, <1>7, <2>2, <3>2 DEF SessionsInv
    <3> QED BY <3>1, <3>2
  <2> QED BY <1>1, <2>1, <2>2 DEF SessionsInv
<1>12. Made(c)'
  BY <1>1, <1>5, <1>7 DEF Made
<1>13. Stage(a)'
  BY <1>1, <1>2, <1>3, <1>4, <1>9, <1>10, <1>12 DEF Stage, Reserve
<1>14. StageInv'
  BY <1>13 DEF StageInv
<1>15. Head(todo'["acceptor"]).op \notin {"net", "module", "proc"}
  BY <1>3, ShapeOps, ShapeTails DEF Step
<1>16. \A d \in Announced : /\ conn'[d] = conn[d]
                            /\ sessConn'[conn[d].session] = sessConn[conn[d].session]
  BY <1>1, <1>5, <1>7 DEF Announced, OwnInv
<1> QED BY <1>1, <1>3, <1>7, <1>8, <1>9, <1>11, <1>14, <1>15, <1>16, AcceptorQuiet DEF LinksInv

\* Without a session all goes back and the next client is waited for.
LEMMA NoSessionQuiet ==
  ASSUME IInv, IInv', KnownInv, EventsInv, NoSession
  PROVE  KnownInv' /\ EventsInv'
<1>1. /\ StepsInv /\ ConnInv /\ ConnInv' /\ LinksInv /\ SessionsInv /\ StageInv /\ PoolsInv
      /\ At("acceptor", "session") /\ accepted \in Nat
      /\ UNCHANGED <<conn, eventQueue, sock, epEvent, sessConn, watched, accepted, heard>>
      /\ todo' = [todo EXCEPT !["acceptor"] = AfterAccept]
  BY DEF IInv, DataInv, KnownInv, NoSession, KernelInv
<1>2. PICK a \in HeldData :
        /\ todo["acceptor"] = FromSession(a)
        /\ NewClient(a.client) /\ a.sock \in NewSocks /\ a.conn \in NewConns
        /\ Reserve(0, NewConns \ {a.conn}, NewSocks \ {a.sock})
  <2>1. StageOf("session", todo["acceptor"])
    BY <1>1, StageAt
  <2> QED BY <2>1, StageOps
<1>3. Of("acceptor") = a
  BY <1>2, ShapeOps, ShapeTails DEF Of, Step
<1>4. connPool' = Released(connPool, a.conn) /\ sockPool' = Released(sockPool, a.sock)
      /\ a.conn \in Conns /\ a.sock \in Socks
  BY <1>3 DEF NoSession, HeldData
<1>5. Grows(connPool.free, connPool'.free, Conns) /\ Grows(sockPool.free, sockPool'.free, Socks)
  BY <1>4, ReleasedGrows
<1>6. /\ todo'["acceptor"] = AfterAccept
      /\ \A u \in Threads : u # "acceptor" => todo'[u] = todo[u]
  BY <1>1 DEF StepsInv, Threads
<1>7. /\ Announced' = Announced /\ Reachable' = Reachable /\ SessionsInv'
      /\ NewConns' = NewConns /\ NewSocks' = NewSocks
  BY <1>1, SeenSame
<1>8. Reserve(0, NewConns, NewSocks)'
  <2>1. NewConns \ {a.conn} \subseteq NewConns /\ NewSocks \ {a.sock} \subseteq NewSocks
    OBVIOUS
  <2>2. /\ Left(connPool'.free, Cardinality(Conns) - accepted' + 0, NewConns)
        /\ Left(sockPool'.free, Cardinality(Socks) - accepted', NewSocks)
    BY <1>1, <1>2, <1>5, <2>1, ReserveKept
  <2> QED BY <1>7, <2>2 DEF Reserve
<1>9. StageInv'
  BY <1>6, <1>8 DEF StageInv
<1>10. Head(todo'["acceptor"]).op \notin {"net", "module", "proc"}
  BY <1>6 DEF AfterAccept, Step
<1>11. \A c \in Announced : c \in Conns
  BY DEF Announced
<1> QED BY <1>1, <1>6, <1>7, <1>9, <1>10, <1>11, AcceptorQuiet DEF LinksInv

\* The socket is tied to a connection that is not announced.
LEMMA SetConnectionQuiet ==
  ASSUME IInv, IInv', KnownInv, EventsInv, SetConnection
  PROVE  KnownInv' /\ EventsInv'
<1>1. /\ StepsInv /\ ConnInv /\ ConnInv' /\ LinksInv /\ OwnInv /\ SessionsInv /\ StageInv /\ SockInv
      /\ Continue("acceptor", <<>>) /\ At("acceptor", "setconn")
      /\ UNCHANGED <<conn, eventQueue, epEvent, sessConn, connPool, sockPool, watched, accepted, heard>>
  BY DEF IInv, DataInv, KnownInv, SetConnection, Assign, kernel, pools
<1>2. PICK a \in HeldData :
        /\ todo["acceptor"] = FromSetConn(a)
        /\ Made(a.conn) /\ a.sock \in NewSocks
        /\ Reserve(0, NewConns, NewSocks \ {a.sock})
  <2>1. StageOf("setconn", todo["acceptor"])
    BY <1>1, StageAt
  <2> QED BY <2>1, StageOps
<1>3. /\ todo'["acceptor"] = FromSetSock(a) /\ Held = a
      /\ \A u \in Threads : u # "acceptor" => todo'[u] = todo[u]
  <2>1. Tail(todo["acceptor"]) = FromSetSock(a) /\ Held = a
    BY <1>2, ShapeOps, ShapeTails DEF Held, Of, Step
  <2> QED BY <1>1, <2>1, AcceptorDone
<1>4. PICK c \in Conns, s \in Socks : c = a.conn /\ s = a.sock
  BY DEF HeldData
<1>5. sock' = [sock EXCEPT ![s].conn = c]
  BY <1>3, <1>4 DEF SetConnection, Assign
<1>6. sock'[s].conn = c /\ \A x \in Socks : x # s => sock'[x].conn = sock[x].conn
  BY <1>1, <1>5 DEF SockInv
<1>7. c \notin Announced /\ sock[s].conn = NULL /\ NULL \notin Conns
  BY <1>2, <1>4, NetAssumption DEF Made, Announced, NewSocks
<1>8. Announced' = Announced /\ NewConns' = NewConns /\ Made(c)' /\ SessionsInv'
  BY <1>1, <1>2, <1>4 DEF Announced, NewConns, Made, SessionsInv
<1>9. Reachable' = Reachable
  <2>1. \A x \in Socks : x \in Reachable' <=> x \in Reachable
    BY <1>6, <1>7, <1>8 DEF Reachable, Linked
  <2> QED BY <2>1 DEF Reachable, Linked
<1>10. NewSocks' = NewSocks \ {s}
  <2>1. \A x \in Socks : x \in NewSocks' <=> x \in NewSocks /\ x # s
    BY <1>6, <1>7 DEF NewSocks
  <2> QED BY <2>1 DEF NewSocks
<1>11. Stage(a)'
  BY <1>1, <1>2, <1>3, <1>4, <1>6, <1>8, <1>10 DEF Stage, Reserve
<1>12. StageInv'
  BY <1>11 DEF StageInv
<1>13. Head(todo'["acceptor"]).op \notin {"net", "module", "proc"}
  BY <1>3, ShapeOps, ShapeTails DEF Step
<1>14. \A d \in Announced : d \in Conns
  BY DEF Announced
<1> QED BY <1>1, <1>3, <1>8, <1>9, <1>12, <1>13, <1>14, AcceptorQuiet DEF LinksInv

\* Socket and connection point to each other, and the connection is opened.
LEMMA TieQuiet ==
  ASSUME IInv, IInv', KnownInv, EventsInv, SetSock \/ SetSocket \/ CheckClose("acceptor")
  PROVE  KnownInv' /\ EventsInv'
<1>1. PICK op \in {"setsock", "setsocket", "check"} :
        /\ At("acceptor", op)
        /\ op = "setsock" => SetSock
        /\ op = "setsocket" => SetSocket
        /\ op = "check" => CheckClose("acceptor")
  BY DEF SetSock, SetSocket, CheckClose, Assign
<1>2. /\ StepsInv /\ ConnInv /\ ConnInv' /\ LinksInv /\ SessionsInv /\ StageInv /\ SockInv
      /\ UNCHANGED <<eventQueue, epEvent, sessConn, connPool, sockPool, watched, accepted, heard>>
  BY DEF IInv, DataInv, KnownInv, SetSock, SetSocket, CheckClose, Assign, kernel, pools
<1>3. PICK a \in HeldData :
        /\ sock[a.sock].conn = a.conn /\ Reserve(0, NewConns, NewSocks)
        /\ op = "setsock" => todo["acceptor"] = FromSetSock(a)
        /\ op = "setsocket" => todo["acceptor"] = FromSetSocket(a)
        /\ op = "check" => todo["acceptor"] = Announcing("check", a)
        /\ Made(a.conn)
        /\ op = "check" => conn[a.conn].poSocket \in {a.sock, NULL}
  BY <1>1, <1>2, StageAt DEF StageOf
<1>4. PICK c \in Conns, s \in Socks : c = a.conn /\ s = a.sock
  BY DEF HeldData
<1>5. /\ conn[c].eventNet = <<>> /\ c \notin Announced
  BY <1>3, <1>4, NetAssumption DEF Made, Announced
<1>6. \A u \in Threads : u # "acceptor" => todo'[u] = todo[u]
  <2>1. \E p : Continue("acceptor", p)
    BY DEF SetSock, SetSocket, CheckClose, Assign
  <2> QED BY <1>2, <2>1, OthersKept DEF Threads
<1>7. /\ \A x \in Socks : sock'[x].conn = sock[x].conn
      /\ \A d \in Conns : /\ conn'[d].eventNet = conn[d].eventNet /\ conn'[d].session = conn[d].session
                          /\ d # c => conn'[d] = conn[d]
      /\ op = "setsock" => todo'["acceptor"] = FromSetSocket(a)
      /\ op = "setsocket" => todo'["acceptor"] = Announcing("check", a) /\ conn'[c].poSocket = s
      /\ op = "check" => todo'["acceptor"] = Announcing("net", a)
                           /\ conn'[c].poSocket = conn[c].poSocket
  <2>1. CASE op = "setsock"
    <3>1. Tail(todo["acceptor"]) = FromSetSocket(a) /\ Held = a
      BY <1>3, <2>1, ShapeOps, ShapeTails DEF Held, Of, Step
    <3>2. Continue("acceptor", <<>>) /\ conn' = conn /\ sock' = [sock EXCEPT ![s].nSocket = a.fd]
      BY <1>1, <1>4, <2>1, <3>1 DEF SetSock, Assign
    <3>3. todo'["acceptor"] = FromSetSocket(a)
      BY <1>1, <1>2, <3>1, <3>2, AcceptorDone
    <3> QED BY <1>2, <2>1, <3>2, <3>3 DEF SockInv
  <2>2. CASE op = "setsocket"
    <3>1. Tail(todo["acceptor"]) = Announcing("check", a) /\ Held = a
      BY <1>3, <2>2, ShapeOps, ShapeTails DEF Held, Of, Step
    <3>2. Continue("acceptor", <<>>) /\ sock' = sock /\ conn' = [conn EXCEPT ![c].poSocket = s]
      BY <1>1, <1>4, <2>2, <3>1 DEF SetSocket, Assign
    <3>3. todo'["acceptor"] = Announcing("check", a)
      BY <1>1, <1>2, <3>1, <3>2, AcceptorDone
    <3> QED BY <1>2, <2>2, <3>2, <3>3 DEF ConnInv
  <2>3. CASE op = "check"
    <3>1. Tail(todo["acceptor"]) = FromAim(a) /\ Of("acceptor") = [conn |-> c, event |-> "CONNECTED"]
      <4>1. todo["acceptor"] = Announcing("check", a) /\ "check" \in PushOps
        BY <1>3, <2>3 DEF PushOps
      <4>2. /\ Head(todo["acceptor"]) = EventStep("check", c, "CONNECTED")
            /\ Tail(todo["acceptor"]) = FromAim(a)
        BY <1>4, <4>1, ShapeOps, ShapeTails
      <4> QED BY <4>2 DEF Of, EventStep, Step
    <3>2. /\ Continue("acceptor", <<EventStep("net", c, "CONNECTED")>>) /\ sock' = sock
          /\ \E b : conn' = [conn EXCEPT ![c].bClose = b]
      BY <1>1, <2>3, <3>1 DEF CheckClose
    <3>3. <<EventStep("net", c, "CONNECTED")>> \in Seq(Steps)
      <4>1. [conn |-> c, event |-> "CONNECTED"] \in EventData
        BY DEF EventData, ENetEvtType
      <4>2. EventStep("net", c, "CONNECTED") \in Steps
        BY <4>1, AcceptStepsMade DEF EventStep, Ops
      <4> QED BY <4>2
    <3>4. todo'["acceptor"] = Announcing("net", a)
      BY <1>1, <1>2, <1>4, <3>1, <3>2, <3>3, AcceptorNext DEF Announcing
    <3> QED BY <1>2, <2>3, <3>2, <3>4 DEF ConnInv
  <2> QED BY <2>1, <2>2, <2>3
<1>8. /\ Announced' = Announced /\ Reachable' = Reachable /\ SessionsInv'
      /\ NewConns' = NewConns /\ NewSocks' = NewSocks /\ Made(c)'
  BY <1>2, <1>3, <1>4, <1>7, SeenSame
<1>9. Stage(a)'
  <2>1. Reserve(0, NewConns, NewSocks)'
    BY <1>2, <1>3, <1>8 DEF Reserve
  <2>2. sock'[a.sock].conn = a.conn
    BY <1>3, <1>4, <1>7
  <2> QED BY <1>3, <1>4, <1>7, <1>8, <2>1, <2>2 DEF Stage
<1>10. StageInv'
  BY <1>9 DEF StageInv
<1>11. \/ Head(todo'["acceptor"]).op \notin {"net", "module", "proc"}
       \/ Head(todo'["acceptor"]).op = "net" /\ Head(todo'["acceptor"]).of.event # "CLOSE"
  <2>1. CASE todo'["acceptor"] = FromSetSocket(a)
    BY <2>1, ShapeOps DEF Step
  <2>2. ASSUME NEW o \in {"check", "net"}, todo'["acceptor"] = Announcing(o, a)
        PROVE  /\ Head(todo'["acceptor"]).op = o
               /\ Head(todo'["acceptor"]).of.event = "CONNECTED"
    <3>1. Head(todo'["acceptor"]) = EventStep(o, a.conn, "CONNECTED")
      BY <2>2, ShapeOps DEF PushOps
    <3> QED BY <3>1 DEF EventStep, Step
  <2> QED BY <1>7, <2>1, <2>2
<1>12. \A d \in Announced : /\ conn'[d] = conn[d]
                            /\ sessConn'[conn[d].session] = sessConn[conn[d].session]
  BY <1>2, <1>5, <1>7 DEF Announced
<1> QED BY <1>2, <1>6, <1>7, <1>8, <1>10, <1>11, <1>12, AcceptorQuiet DEF LinksInv

\* The others may know more.
LEMMA CallsGrow ==
  ASSUME NEW K, NEW S, NEW L, NEW T, K \subseteq L, S \subseteq T, NEW q, IsCall(q, K, S)
  PROVE  IsCall(q, L, T)
<1>1. OpenData(K) \subseteq OpenData(L)
  BY DEF OpenData
<1>2. [sock : S, fd : Fds] \subseteq [sock : T, fd : Fds]
  OBVIOUS
<1>3. PlainOn(K, S) \subseteq PlainOn(L, T)
  BY <1>1, <1>2 DEF PlainOn
<1>4. FirstOn(K) \subseteq FirstOn(L)
  BY <1>1 DEF FirstOn
<1>5. Seq(PlainOn(K, S)) \subseteq Seq(PlainOn(L, T))
  BY <1>3
<1> QED BY <1>3, <1>4, <1>5 DEF IsCall

\* CONNECTED is the first event of a new connection, which is announced by that.
LEMMA AnnounceStep ==
  ASSUME IInv, IInv', KnownInv, EventsInv, IntactInv, PushNet("acceptor")
  PROVE  KnownInv' /\ EventsInv'
<1>1. /\ StepsInv /\ ConnInv /\ ConnInv' /\ CallsInv /\ LinksInv /\ OwnInv /\ SessionsInv /\ StageInv
      /\ At("acceptor", "net") /\ "acceptor" \in Threads /\ eventQueue \in Seq(Conns)
      /\ UNCHANGED <<eventQueue, sock, epEvent, sessConn, connPool, sockPool, watched, accepted, heard>>
  BY DEF IInv, DataInv, KnownInv, PushNet, kernel, pools, Threads, ConnInv
<1>2. PICK a \in HeldData :
        /\ sock[a.sock].conn = a.conn /\ Reserve(0, NewConns, NewSocks)
        /\ todo["acceptor"] = Announcing("net", a)
        /\ Made(a.conn) /\ conn[a.conn].poSocket \in {a.sock, NULL}
  <2>1. StageOf("net", todo["acceptor"])
    BY <1>1, StageAt
  <2> QED BY <2>1, StageOps
<1>3. PICK c \in Conns, s \in Socks : c = a.conn /\ s = a.sock
  BY DEF HeldData
<1>4. PICK k \in Clients : /\ k = conn[c].session /\ heard[k] = {} /\ sessConn[k] = c
                           /\ conn[c].eventNet = <<>> /\ k # NULL
  BY <1>2, <1>3, NetAssumption DEF Made, Clients, NULL
<1>5. c \notin Announced
  BY <1>4 DEF Announced
<1>6. Tail(todo["acceptor"]) = FromAim(a) /\ Of("acceptor") = [conn |-> c, event |-> "CONNECTED"]
  BY <1>2, <1>3, ShapeOps, ShapeTails DEF PushOps, Of, EventStep, Step
<1>7. /\ conn' = [conn EXCEPT ![c].eventNet = <<"CONNECTED">>]
      /\ Continue("acceptor", <<EventStep("module", c, "CONNECTED")>>)
  <2>1. /\ conn' = [conn EXCEPT ![c].eventNet = Append(conn[c].eventNet, "CONNECTED")]
        /\ Continue("acceptor", <<EventStep("module", c, "CONNECTED")>>)
    <3>1. Of("acceptor").conn = c /\ Of("acceptor").event = "CONNECTED"
      BY <1>6
    <3>2. conn' = [conn EXCEPT ![c].eventNet = Append(conn[c].eventNet, "CONNECTED")]
      BY <1>3, <3>1, NetPushed
    <3>3. Continue("acceptor", Token(c, "CONNECTED"))
      BY <3>1 DEF PushNet
    <3> QED BY <3>1, <3>2, <3>3 DEF Token
  <2>2. Append(conn[c].eventNet, "CONNECTED") = <<"CONNECTED">>
    BY <1>4
  <2> QED BY <2>1, <2>2
<1>8. /\ todo'["acceptor"] = Announcing("module", a)
      /\ \A u \in Threads : u # "acceptor" => todo'[u] = todo[u]
  <2>1. <<EventStep("module", c, "CONNECTED")>> \in Seq(Steps)
    <3>1. [conn |-> c, event |-> "CONNECTED"] \in EventData
      BY DEF EventData, ENetEvtType
    <3>2. EventStep("module", c, "CONNECTED") \in Steps
      BY <3>1, AcceptStepsMade DEF EventStep, Ops
    <3> QED BY <3>2
  <2> QED BY <1>1, <1>3, <1>6, <1>7, <2>1, AcceptorNext DEF Announcing
<1>9. /\ \A d \in Conns : /\ conn'[d].session = conn[d].session /\ conn'[d].poSocket = conn[d].poSocket
                          /\ conn'[d].bClose = conn[d].bClose
                          /\ d # c => conn'[d].eventNet = conn[d].eventNet
      /\ conn'[c].eventNet = <<"CONNECTED">>
  BY <1>1, <1>7 DEF ConnInv
<1>10. Announced' = Announced \cup {c}
  <2>1. \A d \in Conns : d # c => (d \in Announced' <=> d \in Announced)
    BY <1>1, <1>9 DEF Announced
  <2>2. c \in Announced'
    BY <1>9 DEF Announced
  <2>3. Announced \subseteq Conns /\ Announced' \subseteq Conns
    BY DEF Announced
  <2> QED BY <2>1, <2>2, <2>3
<1>11. Linked' = Linked /\ Reachable \subseteq Reachable' /\ s \in Reachable'
  BY <1>1, <1>2, <1>3, <1>10 DEF Linked, Reachable
<1>12. NewConns' = NewConns /\ NewSocks' = NewSocks
  BY <1>1, <1>4, <1>9 DEF NewConns, NewSocks
<1>13. CallsInv'
  <2>1. ASSUME NEW u \in Threads \ {"acceptor"} PROVE IsCall(todo'[u], Announced', Reachable')
    <3>1. IsCall(todo[u], Announced, Reachable) /\ todo'[u] = todo[u]
      BY <1>1, <1>8 DEF CallsInv
    <3>2. Announced \subseteq Announced'
      BY <1>10
    <3> QED BY <1>11, <3>1, <3>2, CallsGrow
  <2> QED BY <2>1 DEF CallsInv
<1>14. LinksInv'
  <2>1. Seq(Announced) \subseteq Seq(Announced')
    BY <1>10
  <2>2. eventQueue' \in Seq(Announced')
    BY <1>1, <2>1 DEF LinksInv
  <2>3. epEvent' \in [EpollThreads -> Reachable' \cup {NULL, NoThread}]
    BY <1>1, <1>11 DEF LinksInv
  <2> QED BY <1>1, <1>11, <2>2, <2>3 DEF LinksInv
<1>15. OwnInv'
  <2>1. conn'[c].poSocket \in Reachable' \cup {NULL}
    BY <1>2, <1>3, <1>9, <1>11
  <2>2. conn'[c].session \in Clients /\ sessConn'[conn'[c].session] = c
    BY <1>1, <1>4, <1>9
  <2>3. ASSUME NEW d \in Announced
        PROVE  /\ conn'[d].poSocket \in Reachable' \cup {NULL}
               /\ conn'[d].session \in Clients
               /\ sessConn'[conn'[d].session] \in {d, NULL}
    BY <1>1, <1>9, <1>11 DEF OwnInv, Announced
  <2> QED BY <1>10, <2>1, <2>2, <2>3 DEF OwnInv
<1>16. SessionsInv'
  BY <1>1, <1>9 DEF SessionsInv
<1>17. StageInv'
  <2>1. Reserve(0, NewConns, NewSocks)'
    BY <1>1, <1>2, <1>12 DEF Reserve
  <2>2. Stage(a)'
    BY <1>1, <1>2, <1>3, <1>8, <1>10, <2>1 DEF Stage
  <2> QED BY <2>2 DEF StageInv
<1>18. ConnectInv'
  <2>1. Head(conn'[c].eventNet) = "CONNECTED" /\ conn'[c].eventNet # <<>>
    BY <1>9
  <2>2. ASSUME NEW d \in Announced
        PROVE  \/ "CONNECTED" \in heard'[conn'[d].session]
               \/ conn'[d].eventNet # <<>> /\ Head(conn'[d].eventNet) = "CONNECTED"
    BY <1>1, <1>5, <1>9 DEF EventsInv, ConnectInv, Announced
  <2> QED BY <1>10, <2>1, <2>2 DEF ConnectInv
<1>19. /\ \A d \in Conns : "acceptor" \notin ClosersOf(d)'
       /\ \A d \in Conns : d # c => ~HasToken("acceptor", d)'
  <2>1. Head(todo'["acceptor"]) = EventStep("module", c, "CONNECTED")
    BY <1>3, <1>8, ShapeOps, ShapeTails DEF PushOps
  <2> QED BY <2>1 DEF ClosersOf, HasToken, PushersAt, At, Of, EventStep, Step
<1>20. \A d \in Conns : Hears(d)' = Hears(d)
  BY <1>1, <1>9 DEF Hears
<1>21. CloseInv'
  <2>1. Closings(c)' = 0
    <3>1. conn'[c].eventNet \in Seq(ENetEvtType) /\ Occurrences(<<"CONNECTED">>, "CLOSE") = 0
      <4>1. {i \in DOMAIN <<"CONNECTED">> : <<"CONNECTED">>[i] = "CLOSE"} = {}
        OBVIOUS
      <4>2. Occurrences(<<"CONNECTED">>, "CLOSE") = 0
        BY <4>1, FS_EmptySet DEF Occurrences
      <4> QED BY <1>1, <4>2 DEF ConnInv
    <3>2. ClosersOf(c)' = {}
      <4>1. ASSUME NEW u \in Threads \ {"acceptor"}, u \in ClosersOf(c) PROVE FALSE
        <5>1. todo[u] # <<>> /\ Head(todo[u]).op = "net" /\ Of(u).conn = c
          BY <4>1 DEF ClosersOf, PushersAt, At
        <5>2. Of(u) \in OpenData(Announced)
          BY <1>1, <5>1, CallAt DEF PushOps
        <5> QED BY <1>5, <5>1, <5>2 DEF OpenData
      <4>2. \A u \in Threads \ {"acceptor"} : u \in ClosersOf(c)' => u \in ClosersOf(c)
        BY <1>8 DEF ClosersOf, PushersAt, At, Of
      <4>3. ClosersOf(c)' \subseteq Threads
        BY DEF ClosersOf, PushersAt
      <4> QED BY <1>19, <4>1, <4>2, <4>3
    <3>3. Hears(c)' = {}
      BY <1>1, <1>4, <1>9 DEF Hears
    <3>4. Cardinality(Hears(c)' \cap {"CLOSE"}) = 0
      BY <3>3, EndHeard
    <3>5. Cardinality(ClosersOf(c)') = 0
      BY <3>2, FS_EmptySet
    <3>6. Occurrences(conn'[c].eventNet, "CLOSE") = 0
      BY <1>9, <3>1
    <3> QED BY <3>4, <3>5, <3>6 DEF Closings
  <2>2. ASSUME NEW d \in Announced PROVE Closings(d)' <= (IF conn'[d].bClose THEN 1 ELSE 0)
    <3>1. d \in Conns /\ d # c
      BY <1>5 DEF Announced
    <3>2. conn[d].eventNet \in Seq(ENetEvtType)
      BY <1>1, <3>1 DEF ConnInv
    <3>3. Occurrences(conn[d].eventNet, "CLOSE") \in Nat
      BY <3>2, OccurrencesType
    <3>4. Occurrences(conn'[d].eventNet, "CLOSE") <= Occurrences(conn[d].eventNet, "CLOSE") + 0
      BY <1>9, <3>1, <3>3
    <3>5. /\ Closings(d) \in Nat /\ Closings(d)' \in Nat
          /\ Closings(d)' <= Closings(d) + 0 - 0 + 0 + 0
      BY <1>1, <1>8, <1>19, <1>20, <3>1, <3>4, ClosingsChange
    <3>6. Closings(d) <= (IF conn[d].bClose THEN 1 ELSE 0) /\ conn'[d].bClose = conn[d].bClose
      BY <1>9, <3>1 DEF EventsInv, CloseInv
    <3> QED BY <3>5, <3>6
  <2>3. Closings(c)' <= (IF conn'[c].bClose THEN 1 ELSE 0)
    BY <2>1
  <2> QED BY <1>10, <2>2, <2>3 DEF CloseInv
<1>22. TokensInv'
  <2>1. SUFFICES ASSUME NEW d \in Conns PROVE Tokens(d)' <= Len(conn'[d].eventNet)
    BY DEF TokensInv
  <2>2. Occurrences(eventQueue, d) \in Nat
    BY <1>1, OccurrencesType
  <2>3. Occurrences(eventQueue', d) <= Occurrences(eventQueue, d) + 0 /\ eventQueue' \in Seq(Conns)
    BY <1>1, <2>2
  <2>4. Len(conn[d].eventNet) \in Nat /\ Tokens(d) <= Len(conn[d].eventNet)
    BY <1>1, Lengths DEF EventsInv, TokensInv
  <2>5. CASE d = c
    <3>1. Tokens(d) \in Nat /\ Tokens(d)' \in Nat /\ Tokens(d)' <= Tokens(d) + 0 - 0 + 1
      BY <1>1, <1>8, <2>3, TokensAtMost
    <3>2. Len(conn[d].eventNet) = 0 /\ Len(conn'[d].eventNet) = 1
      BY <1>4, <1>9, <2>5
    <3> QED BY <2>4, <3>1, <3>2
  <2>6. CASE d # c
    <3>1. Tokens(d) \in Nat /\ Tokens(d)' \in Nat /\ Tokens(d)' <= Tokens(d) + 0 - 0 + 0
      BY <1>1, <1>8, <1>19, <2>3, <2>6, TokensAtMost
    <3> QED BY <1>9, <2>4, <2>6, <3>1
  <2> QED BY <2>5, <2>6
<1> QED BY <1>13, <1>14, <1>15, <1>16, <1>17, <1>18, <1>21, <1>22 DEF KnownInv, EventsInv

\* Its token goes into the module's queue.
LEMMA AnnounceTokenStep ==
  ASSUME IInv, IInv', KnownInv, EventsInv, PushEventQueue("acceptor")
  PROVE  KnownInv' /\ EventsInv'
<1>1. /\ StepsInv /\ ConnInv /\ ConnInv' /\ CallsInv /\ LinksInv /\ OwnInv /\ SessionsInv /\ StageInv
      /\ At("acceptor", "module") /\ "acceptor" \in Threads
      /\ eventQueue \in Seq(Conns) /\ eventQueue' \in Seq(Conns)
      /\ UNCHANGED <<conn, sock, epEvent, sessConn, connPool, sockPool, watched, accepted, heard>>
  BY DEF IInv, DataInv, KnownInv, PushEventQueue, kernel, pools, Threads, ConnInv
<1>2. PICK a \in HeldData :
        /\ sock[a.sock].conn = a.conn /\ Reserve(0, NewConns, NewSocks)
        /\ todo["acceptor"] = Announcing("module", a) /\ a.conn \in Announced
  <2>1. StageOf("module", todo["acceptor"])
    BY <1>1, StageAt
  <2> QED BY <2>1, StageOps
<1>3. PICK c \in Announced : c = a.conn /\ c \in Conns
  BY <1>2 DEF Announced
<1>4. Tail(todo["acceptor"]) = FromAim(a) /\ Of("acceptor") = [conn |-> c, event |-> "CONNECTED"]
  BY <1>2, <1>3, ShapeOps, ShapeTails DEF PushOps, Of, EventStep, Step
<1>5. eventQueue' = Append(eventQueue, c) /\ Continue("acceptor", <<>>)
  BY <1>4 DEF PushEventQueue
<1>6. /\ todo'["acceptor"] = FromAim(a)
      /\ \A u \in Threads : u # "acceptor" => todo'[u] = todo[u]
  BY <1>1, <1>4, <1>5, AcceptorDone
<1>7. /\ Announced' = Announced /\ Reachable' = Reachable /\ SessionsInv'
      /\ NewConns' = NewConns /\ NewSocks' = NewSocks
  BY <1>1, SeenSame
<1>8. CallsInv' /\ OwnInv'
  BY <1>1, <1>6, <1>7 DEF CallsInv, OwnInv
<1>9. LinksInv'
  <2>1. eventQueue' \in Seq(Announced)
    BY <1>1, <1>5, AppendProperties DEF LinksInv
  <2> QED BY <1>1, <1>7, <2>1 DEF LinksInv
<1>10. StageInv'
  <2>1. Reserve(0, NewConns, NewSocks)'
    BY <1>1, <1>2, <1>7 DEF Reserve
  <2>2. Stage(a)'
    BY <1>1, <1>2, <1>6, <1>7, <2>1 DEF Stage
  <2> QED BY <2>2 DEF StageInv
<1>11. \A d \in Conns : ~HasToken("acceptor", d)' /\ "acceptor" \notin ClosersOf(d)'
  <2>1. Head(todo'["acceptor"]) = Step("aim", a.sock)
    BY <1>6, ShapeOps, ShapeTails
  <2> QED BY <2>1 DEF ClosersOf, HasToken, PushersAt, At, Of, Step
<1>12. ConnectInv'
  BY <1>1, <1>7 DEF EventsInv, ConnectInv
<1>13. ASSUME NEW d \in Announced PROVE Closings(d)' <= (IF conn'[d].bClose THEN 1 ELSE 0)
  <2>1. d \in Conns /\ Hears(d)' = Hears(d)
    BY <1>1 DEF Hears, Announced
  <2>2. conn[d].eventNet \in Seq(ENetEvtType)
    BY <1>1, <2>1 DEF ConnInv
  <2>3. Occurrences(conn[d].eventNet, "CLOSE") \in Nat
    BY <2>2, OccurrencesType
  <2>4. Occurrences(conn'[d].eventNet, "CLOSE") <= Occurrences(conn[d].eventNet, "CLOSE") + 0
    BY <1>1, <2>3
  <2>5. /\ Closings(d) \in Nat /\ Closings(d)' \in Nat
        /\ Closings(d)' <= Closings(d) + 0 - 0 + 0 + 0
    BY <1>1, <1>6, <1>11, <2>1, <2>4, ClosingsChange
  <2>6. Closings(d) <= (IF conn[d].bClose THEN 1 ELSE 0) /\ conn'[d].bClose = conn[d].bClose
    BY <1>1 DEF EventsInv, CloseInv
  <2> QED BY <2>5, <2>6
<1>14. ASSUME NEW d \in Conns PROVE Tokens(d)' <= Len(conn'[d].eventNet)
  <2>1. Occurrences(eventQueue', d) = Occurrences(eventQueue, d) + (IF c = d THEN 1 ELSE 0)
    BY <1>1, <1>3, <1>5, OccurrencesAppend
  <2>2. Occurrences(eventQueue, d) \in Nat
    BY <1>1, OccurrencesType
  <2>3. Len(conn[d].eventNet) \in Nat /\ Tokens(d) <= Len(conn[d].eventNet)
    BY <1>1, Lengths DEF EventsInv, TokensInv
  <2>4. CASE d = c
    <3>1. Occurrences(eventQueue', d) <= Occurrences(eventQueue, d) + 1
      BY <2>1, <2>2, <2>4
    <3>2. HasToken("acceptor", d)
      BY <1>1, <1>4, <2>4 DEF HasToken
    <3>3. Tokens(d) \in Nat /\ Tokens(d)' \in Nat /\ Tokens(d)' <= Tokens(d) + 1 - 1 + 0
      BY <1>1, <1>6, <1>11, <3>1, <3>2, TokensAtMost
    <3> QED BY <1>1, <2>3, <3>3
  <2>5. CASE d # c
    <3>1. Occurrences(eventQueue', d) <= Occurrences(eventQueue, d) + 0
      BY <2>1, <2>2, <2>5
    <3>2. Tokens(d) \in Nat /\ Tokens(d)' \in Nat /\ Tokens(d)' <= Tokens(d) + 0 - 0 + 0
      BY <1>1, <1>6, <1>11, <3>1, TokensAtMost
    <3> QED BY <1>1, <2>3, <3>2
  <2> QED BY <2>4, <2>5
<1> QED BY <1>7, <1>8, <1>9, <1>10, <1>12, <1>13, <1>14 DEF KnownInv, EventsInv, CloseInv, TokensInv

\* m_epEvent points to the socket that was tied to the announced connection.
LEMMA AimQuiet ==
  ASSUME IInv, IInv', KnownInv, EventsInv, Aim("acceptor")
  PROVE  KnownInv' /\ EventsInv'
<1>1. /\ StepsInv /\ ConnInv /\ ConnInv' /\ LinksInv /\ SessionsInv /\ StageInv /\ SockInv
      /\ At("acceptor", "aim")
      /\ UNCHANGED <<conn, eventQueue, sock, sessConn, connPool, sockPool, watched, accepted, heard>>
  BY DEF IInv, DataInv, KnownInv, Aim, kernel, pools
<1>2. PICK a \in HeldData :
        /\ sock[a.sock].conn = a.conn /\ Reserve(0, NewConns, NewSocks)
        /\ todo["acceptor"] = FromAim(a) /\ a.conn \in Announced
  <2>1. StageOf("aim", todo["acceptor"])
    BY <1>1, StageAt
  <2> QED BY <2>1, StageOps
<1>3. Of("acceptor") = a.sock /\ Tail(todo["acceptor"]) = FromRegister(a)
  BY <1>2, ShapeOps, ShapeTails DEF Of, Step
<1>12. \/ Crash("acceptor") /\ epEvent' = epEvent
       \/ Continue("acceptor", <<>>) /\ epEvent' = [epEvent EXCEPT ![sock[a.sock].mark] = a.sock]
  BY <1>3 DEF Aim
<1>13. Step("crash", "acceptor") \in Steps
  BY GoodStepsMade, GoodStepsAreSteps DEF Threads
<1>4. /\ todo'["acceptor"] = FromRegister(a) \/ At("acceptor", "crash")'
      /\ todo'["acceptor"] # <<>> /\ Head(todo'["acceptor"]).op \notin {"net", "module", "proc"}
      /\ \A u \in Threads : u # "acceptor" => todo'[u] = todo[u]
  <2>1. CASE Continue("acceptor", <<>>)
    <3>1. /\ todo'["acceptor"] = FromRegister(a)
          /\ \A u \in Threads : u # "acceptor" => todo'[u] = todo[u]
      BY <1>1, <1>3, <2>1, AcceptorDone
    <3> QED BY <3>1, ShapeOps DEF Step
  <2>2. CASE Crash("acceptor")
    <3>1. <<Step("crash", "acceptor")>> \in Seq(Steps) /\ Tail(todo["acceptor"]) \in Seq(Steps)
      BY <1>1, <1>13 DEF StepsInv, Threads, At
    <3>2. /\ todo'["acceptor"] = <<Step("crash", "acceptor")>> \o Tail(todo["acceptor"])
          /\ \A u \in Threads : u # "acceptor" => todo'[u] = todo[u]
      BY <1>1, <2>2, <3>1, AcceptorNext DEF Crash
    <3>3. todo'["acceptor"] # <<>> /\ Head(todo'["acceptor"]) = Step("crash", "acceptor")
      BY <1>13, <3>1, <3>2, ConsFacts
    <3> QED BY <3>2, <3>3 DEF At, Step
  <2> QED BY <1>12, <2>1, <2>2
<1>5. a.sock \in Reachable
  BY <1>2 DEF Reachable, Linked, HeldData
<1>6. epEvent' = epEvent \/ epEvent' = [epEvent EXCEPT ![sock[a.sock].mark] = a.sock]
  BY <1>12
<1>7. epEvent' \in [EpollThreads -> Reachable \cup {NULL, NoThread}]
  BY <1>1, <1>5, <1>6 DEF LinksInv
<1>8. /\ Announced' = Announced /\ Reachable' = Reachable /\ SessionsInv'
      /\ NewConns' = NewConns /\ NewSocks' = NewSocks
  BY <1>1, SeenSame
<1>9. StageInv'
  <2>1. Reserve(0, NewConns, NewSocks)'
    BY <1>1, <1>2, <1>8 DEF Reserve
  <2>2. todo'["acceptor"] = FromRegister(a) => Stage(a)'
    BY <1>1, <1>2, <1>8, <2>1 DEF Stage
  <2> QED BY <1>4, <2>2 DEF StageInv
<1>11. \A c \in Announced : c \in Conns
  BY DEF Announced
<1> QED BY <1>1, <1>4, <1>7, <1>8, <1>9, <1>11, AcceptorQuiet DEF LinksInv

\* What is registered is what m_epEvent points to by then.
LEMMA RegisterQuiet ==
  ASSUME IInv, IInv', KnownInv, EventsInv, Register
  PROVE  KnownInv' /\ EventsInv'
<1>1. /\ StepsInv /\ AcceptorInv /\ ConnInv /\ ConnInv' /\ LinksInv /\ SessionsInv /\ StageInv /\ SockInv
      /\ At("acceptor", "register") /\ Continue("acceptor", <<>>)
      /\ UNCHANGED <<conn, eventQueue, sock, epEvent, sessConn, connPool, sockPool, accepted, heard>>
  BY DEF IInv, DataInv, KnownInv, Register, pools
<1>2. PICK a \in HeldData :
        /\ sock[a.sock].conn = a.conn /\ Reserve(0, NewConns, NewSocks)
        /\ todo["acceptor"] = FromRegister(a) /\ a.conn \in Announced
  <2>1. StageOf("register", todo["acceptor"])
    BY <1>1, StageAt
  <2> QED BY <2>1, StageOps
<1>3. Of("acceptor") = a.sock /\ Tail(todo["acceptor"]) = AfterAccept
  BY <1>2, ShapeOps, ShapeTails DEF Of, Step
<1>4. /\ todo'["acceptor"] = AfterAccept
      /\ \A u \in Threads : u # "acceptor" => todo'[u] = todo[u]
  BY <1>1, <1>3, AcceptorDone
<1>5. PICK f \in Fds, u \in EpollThreads : f = sock[a.sock].nSocket /\ u = sock[a.sock].mark
  BY <1>1 DEF SockInv, HeldData
<1>6. epEvent[u] \in Reachable
  <2>1. PICK b \in HeldData : ServingStep(b)
    BY <1>1, AcceptorAt
  <2>2. epEvent[sock[b.sock].mark] \in Linked /\ Is(Step("register", b.sock), AfterAccept)
    BY <1>1, <2>1, ServingAt
  <2>3. b.sock = a.sock
    BY <1>3, <2>2 DEF Is, Of, Step
  <2>4. epEvent[u] \in Linked /\ NULL \notin Linked /\ NoThread \notin Linked
    BY <1>5, <2>2, <2>3, NetAssumption DEF Linked
  <2> QED BY <1>1, <2>4 DEF LinksInv
<1>7. PICK w : w = [thread |-> u, sock |-> epEvent[u]]
  OBVIOUS
<1>8. watched' = watched \/ watched' = [watched EXCEPT ![f] = w]
  BY <1>3, <1>5, <1>7 DEF Register
<1>9. w.sock \in Reachable
  BY <1>6, <1>7
<1>10. \A g \in Fds : watched'[g].thread \in EpollThreads => watched'[g].sock \in Reachable
  BY <1>1, <1>8, <1>9, WatchesKnown
<1>11. /\ Announced' = Announced /\ Reachable' = Reachable /\ SessionsInv'
       /\ NewConns' = NewConns /\ NewSocks' = NewSocks
  BY <1>1, SeenSame
<1>12. StageInv'
  <2>1. Reserve(0, NewConns, NewSocks)'
    BY <1>1, <1>2, <1>11 DEF Reserve
  <2> QED BY <1>4, <2>1 DEF StageInv
<1>13. Head(todo'["acceptor"]).op \notin {"net", "module", "proc"}
  BY <1>4 DEF AfterAccept, Step
<1>14. \A c \in Announced : c \in Conns
  BY DEF Announced
<1> QED BY <1>1, <1>4, <1>10, <1>11, <1>12, <1>13, <1>14, AcceptorQuiet DEF LinksInv

--------------------------------------------------------------------------------
(* The invariant                                                            *)

\* The list of a pool that was made has each object once.
LEMMA NewList ==
  ASSUME NEW O, IsFiniteSet(O)
  PROVE  Left(SetToSeq(O), Cardinality(O), O)
<1>1. /\ Cardinality(O) \in Nat /\ ExistsBijection(1 .. Cardinality(O), O)
  BY FS_CardinalityType
<1>2. \E g \in [1 .. Cardinality(O) -> O] : IsInjective(g)
  BY <1>1 DEF ExistsBijection, Bijection, Injection
<1>3. SetToSeq(O) \in [1 .. Cardinality(O) -> O] /\ IsInjective(SetToSeq(O))
  BY <1>2 DEF SetToSeq
<1>4. Len(SetToSeq(O)) = Cardinality(O)
  BY <1>1, <1>3
<1>5. \A i, j \in 1 .. Cardinality(O) : SetToSeq(O)[i] = SetToSeq(O)[j] => i = j
  BY <1>3 DEF IsInjective
<1> QED BY <1>1, <1>3, <1>4, <1>5 DEF Left

\* At first all is new.
LEMMA InitFirst ==
  ASSUME Init
  PROVE  FirstInv
<1>1. /\ \A c \in Conns : conn[c].eventNet = <<>> /\ conn[c].session = NULL
      /\ \A x \in Socks : sock[x].conn = NULL
  BY DEF Init
<1>2. /\ \A t \in Threads \ {"acceptor"} : todo[t] = <<>>
      /\ todo["acceptor"] = <<Step("begin", "acceptor")>>
  BY DEF Init, Threads
<1>3. Announced = {} /\ NewConns = Conns /\ NewSocks = Socks
  BY <1>1 DEF Announced, NewConns, NewSocks
<1>4. CallsInv
  BY <1>2 DEF CallsInv, IsCall
<1>5. LinksInv
  <2>1. eventQueue = <<>> /\ epEvent = [t \in EpollThreads |-> NoThread]
    BY DEF Init
  <2>2. \A f \in Fds : watched[f].thread \notin EpollThreads
    BY NetAssumption DEF Init, NoWatch
  <2> QED BY <2>1, <2>2 DEF LinksInv
<1>6. OwnInv
  BY <1>3 DEF OwnInv
<1>7. accepted = 0 /\ \A k \in Clients : heard[k] = {}
  BY DEF Init
<1>8. SessionsInv
  BY <1>1, <1>7 DEF SessionsInv, NULL
<1>9. StageInv
  <2>1. Cardinality(Conns) \in Nat /\ Cardinality(Socks) \in Nat
    BY NetAssumption, FS_CardinalityType
  <2>2. connPool.free = SetToSeq(Conns) /\ sockPool.free = SetToSeq(Socks)
    BY DEF Init
  <2>3. /\ Cardinality(Conns) - accepted + 0 = Cardinality(Conns)
        /\ Cardinality(Socks) - accepted = Cardinality(Socks)
    BY <1>7, <2>1
  <2>4. Reserve(0, NewConns, NewSocks)
    BY <1>3, <2>2, <2>3, NewList, NetAssumption DEF Reserve
  <2> QED BY <1>2, <2>4 DEF StageInv
<1>10. ConnectInv /\ CloseInv
  BY <1>3 DEF ConnectInv, CloseInv
<1>11. TokensInv
  <2>1. SUFFICES ASSUME NEW c \in Conns PROVE Tokens(c) <= Len(conn[c].eventNet)
    BY DEF TokensInv
  <2>2. Occurrences(eventQueue, c) = 0
    <3>1. eventQueue = <<>>
      BY DEF Init
    <3>2. {i \in DOMAIN eventQueue : eventQueue[i] = c} = {}
      BY <3>1
    <3> QED BY <3>2, FS_EmptySet DEF Occurrences
  <2>3. \A t \in Threads : ~At(t, "module") /\ ~At(t, "proc")
    BY <1>2 DEF At, Step
  <2>4. Cardinality(PushersAt("module", c)) = 0
    <3>1. PushersAt("module", c) = {}
      BY <2>3 DEF PushersAt
    <3> QED BY <3>1, FS_EmptySet
  <2>5. ~At("main", "proc")
    BY <2>3, OtherThreads
  <2>6. Tokens(c) = 0
    BY <2>2, <2>4, <2>5 DEF Tokens
  <2>7. Len(conn[c].eventNet) = 0
    BY <1>1
  <2> QED BY <2>6, <2>7
<1>12. ConnectIsHeardFirst
  BY <1>7 DEF ConnectIsHeardFirst
<1>13. IntactInv
  BY DEF Init, IntactInv
<1> QED BY <1>4, <1>5, <1>6, <1>8, <1>9, <1>10, <1>11, <1>12, <1>13 DEF FirstInv, KnownInv, EventsInv

\* Clients are counted by the accept loop, and sessions hear of events in the main thread.
LEMMA WhoCounts ==
  ASSUME [Next]_vars
  PROVE  /\ accepted' = accepted \/ Accept \/ AcceptFails
         /\ heard' = heard \/ \E e \in ENetEvtType : \E found : Proc(e, found)
<1>1. ASSUME NEW t, Run(t) PROVE accepted' = accepted /\ heard' = heard
  BY <1>1 DEF Run, CheckClose, PushNet, PushEventQueue, CloseConnection, CloseSocket, Uninit, CloseFd, ClearFd,
       Detach, ReleaseConnection, ReleaseSocket, Send, SendTo, IsConnected, Aim, SendEpollMess, kernel
<1>2. CASE ClientConnects
  BY <1>2 DEF ClientConnects
<1>3. CASE Acceptor
  <2>1. CASE DisposerBegin \/ EpollWait \/ FetchConnection \/ NoSession \/ Register
    BY <2>1 DEF DisposerBegin, EpollWait, FetchConnection, NoSession, Register, kernel
  <2>2. CASE InitPointers \/ InitEvents \/ InitClose \/ SetSession \/ SetConnection \/ SetSock \/ SetSocket
    BY <2>2 DEF InitPointers, InitEvents, InitClose, SetSession, SetConnection, SetSock, SetSocket,
         Assign, kernel
  <2>3. CASE Accept
    BY <2>3 DEF Accept
  <2>4. CASE AcceptFails
    BY <2>4 DEF AcceptFails
  <2> QED BY <1>1, <1>3, <2>1, <2>2, <2>3, <2>4 DEF Acceptor
<1>4. CASE Main
  <2>1. CASE PopToken \/ ProcNothing \/ ProcInvalid \/ Unlink \/ ReleaseHeard
    BY <2>1 DEF PopToken, ProcNothing, ProcInvalid, Unlink, ReleaseHeard, kernel
  <2>2. CASE ProcConnected \/ ProcError \/ ProcRecv \/ ProcClose
    <3>1. \E e \in ENetEvtType : \E found : Proc(e, found)
      BY <2>2 DEF ProcConnected, ProcError, ProcRecv, ProcClose, ENetEvtType
    <3>2. accepted' = accepted
      BY <3>1 DEF Proc
    <3> QED BY <3>1, <3>2
  <2> QED BY <1>1, <1>4, <2>1, <2>2 DEF Main
<1>5. ASSUME NEW t, Report(t) \/ ReadLoop(t) PROVE accepted' = accepted /\ heard' = heard
  <2>1. CASE Report(t) \/ GetSock(t) \/ Rearm(t)
    BY <2>1 DEF Report, GetSock, Rearm, kernel
  <2>2. CASE ReadPacket(t) \/ ReadBadPacket(t) \/ SocketError(t) \/ PeerCloses(t) \/ WriteLoop(t)
               \/ ReadNothing(t)
    BY <2>2 DEF ReadPacket, ReadBadPacket, SocketError, PeerCloses, WriteLoop, ReadNothing, Turn
  <2> QED BY <1>1, <1>5, <2>1, <2>2 DEF ReadLoop
<1>6. CASE UNCHANGED vars
  BY <1>6 DEF vars, kernel
<1> QED BY <1>2, <1>3, <1>4, <1>5, <1>6 DEF Next, PollNothing

\* A client at a time is accepted or lost.
LEMMA AcceptedGrows ==
  ASSUME [Next]_vars, accepted \in Nat
  PROVE  accepted' \in {accepted, accepted + 1}
<1>1. CASE Accept
  BY <1>1 DEF Accept
<1>2. CASE AcceptFails
  <2>1. PICK gone \in {0, 1} : accepted' = accepted + gone
    BY <1>2 DEF AcceptFails
  <2> QED BY <2>1
<1> QED BY <1>1, <1>2, WhoCounts

\* A session that was announced hears CONNECTED first.
LEMMA HeardInOrder ==
  ASSUME IInv, KnownInv, EventsInv, ConnectIsHeardFirst, [Next]_vars
  PROVE  ConnectIsHeardFirst'
<1>1. CASE heard' = heard
  BY <1>1 DEF ConnectIsHeardFirst
<1>2. ASSUME NEW e \in ENetEvtType, NEW found, Proc(e, found) PROVE ConnectIsHeardFirst'
  <2>1. /\ CallsInv /\ OwnInv /\ HistoryInv /\ todo["main"] # <<>> /\ "main" \in Threads \ {"acceptor"}
    BY <1>2, OtherThreads DEF KnownInv, IInv, DataInv, Proc, PopEvent, At
  <2>2. PICK c \in Announced : c = Of("main")
    BY <1>2, <2>1, CallAt DEF Proc, PopEvent, At, ConnOps
  <2>3. PICK k \in Clients : k = conn[c].session /\ k # NULL
    BY <2>1, NetAssumption DEF OwnInv, Clients, NULL
  <2>4. heard' = [heard EXCEPT ![k] = heard[k] \cup {e}] /\ conn[c].eventNet # <<>>
        /\ Head(conn[c].eventNet) = e
    BY <1>2, <2>2, <2>3 DEF Proc, PopEvent
  <2>5. "CONNECTED" \in heard[k] \/ e = "CONNECTED"
    BY <2>3, <2>4 DEF EventsInv, ConnectInv
  <2>6. \A j \in Clients : heard'[j] = IF j = k THEN heard[k] \cup {e} ELSE heard[j]
    BY <2>1, <2>4 DEF HistoryInv
  <2> QED BY <2>5, <2>6 DEF ConnectIsHeardFirst
<1> QED BY <1>1, <1>2, WhoCounts

\* What one thread does inside a call.
LEMMA RunFirst ==
  ASSUME IInv, IInv', KnownInv, EventsInv, IntactInv, NEW t \in Threads, Run(t)
  PROVE  KnownInv' /\ EventsInv'
<1>1. CASE t # "acceptor"
  <2>1. t \in Threads \ {"acceptor"}
    BY <1>1
  <2>2. CASE CheckClose(t)
    BY <2>1, <2>2, CheckStep
  <2>3. CASE PushNet(t)
    BY <2>1, <2>3, PushNetStep
  <2>4. CASE PushEventQueue(t)
    BY <2>1, <2>4, PushQueueStep
  <2>5. CASE \/ CloseConnection(t) \/ CloseSocket(t) \/ Uninit(t) \/ CloseFd(t) \/ ClearFd(t) \/ Detach(t)
             \/ ReleaseConnection(t) \/ ReleaseSocket(t) \/ Send(t) \/ SendTo(t) \/ IsConnected(t)
             \/ Aim(t) \/ SendEpollMess(t)
    BY <2>1, <2>5, QuietRun
  <2> QED BY <2>2, <2>3, <2>4, <2>5 DEF Run
<1>2. CASE t = "acceptor"
  <2>1. PICK op \in PushOps \cup ConnOps \cup SockOps \cup ReadOps : At("acceptor", op)
    BY <1>2 DEF Run, CheckClose, PushNet, PushEventQueue, CloseConnection, CloseSocket, Uninit, CloseFd, ClearFd,
         Detach, ReleaseConnection, ReleaseSocket, Send, SendTo, IsConnected, Aim, SendEpollMess,
         PushOps, ConnOps, SockOps, ReadOps
  <2>2. op \in PushOps \cup {"aim"}
    BY <2>1, AcceptorRuns DEF IInv
  <2>3. \/ CheckClose("acceptor") \/ PushNet("acceptor") \/ PushEventQueue("acceptor")
        \/ Aim("acceptor")
    <3>1. Head(todo["acceptor"]).op \in {"check", "net", "module", "aim"}
      BY <2>1, <2>2 DEF At, PushOps
    <3> QED BY <1>2, <3>1 DEF Run, CloseConnection, CloseSocket, Uninit, CloseFd, ClearFd, Detach,
              ReleaseConnection, ReleaseSocket, Send, SendTo, IsConnected, SendEpollMess, At
  <2> QED BY <2>3, TieQuiet, AnnounceStep, AnnounceTokenStep, AimQuiet
<1> QED BY <1>1, <1>2

\* A step of the program keeps what is known and what waits in step.
LEMMA NextKnown ==
  ASSUME IInv, IInv', FirstUse', KnownInv, EventsInv, IntactInv, [Next]_vars
  PROVE  KnownInv' /\ EventsInv'
<1>1. ASSUME NEW t \in Threads, Run(t) PROVE KnownInv' /\ EventsInv'
  BY <1>1, RunFirst
<1>2. CASE ClientConnects \/ PollNothing \/ UNCHANGED vars
  <2>1. UNCHANGED <<todo, conn, eventQueue, sock, epEvent, sessConn, connPool, sockPool, watched,
                    accepted, heard>>
    BY <1>2 DEF ClientConnects, PollNothing, vars, pools, kernel
  <2> QED BY <2>1, UnseenStep
<1>3. CASE Acceptor
  <2>1. CASE DisposerBegin \/ EpollWait
    BY <2>1, WaitingQuiet
  <2>2. CASE Accept \/ AcceptFails
    BY <2>2, AcceptQuiet
  <2>3. CASE FetchConnection
    BY <2>3, FetchQuiet
  <2>4. CASE InitPointers \/ InitEvents \/ InitClose
    BY <2>4, InitQuiet
  <2>5. CASE SetSession
    BY <2>5, SetSessionQuiet
  <2>6. CASE NoSession
    BY <2>6, NoSessionQuiet
  <2>7. CASE SetConnection
    BY <2>7, SetConnectionQuiet
  <2>8. CASE SetSock \/ SetSocket
    BY <2>8, TieQuiet
  <2>9. CASE Register
    BY <2>9, RegisterQuiet
  <2> QED
    BY <1>1, <1>3, <2>1, <2>2, <2>3, <2>4, <2>5, <2>6, <2>7, <2>8, <2>9 DEF Acceptor, Threads
<1>4. CASE Main
  <2>1. CASE PopToken
    BY <2>1, PopTokenStep
  <2>2. CASE \/ ProcNothing \/ ProcInvalid \/ ProcConnected \/ ProcError \/ ProcRecv
             \/ ProcClose
    BY <2>2, HearSteps
  <2>3. CASE Unlink \/ ReleaseHeard
    BY <2>3, CloseQuiet
  <2> QED BY <1>1, <1>4, <2>1, <2>2, <2>3 DEF Main, Threads
<1>5. ASSUME NEW t \in EpollThreads, Report(t) \/ ReadLoop(t) PROVE KnownInv' /\ EventsInv'
  <2>1. CASE Report(t) \/ GetSock(t) \/ Rearm(t)
    BY <2>1, ReportQuiet
  <2>2. CASE ReadPacket(t) \/ ReadBadPacket(t) \/ SocketError(t) \/ PeerCloses(t) \/ WriteLoop(t)
               \/ ReadNothing(t)
    BY <2>2, TurnsQuiet
  <2> QED BY <1>1, <1>5, <2>1, <2>2 DEF ReadLoop, Threads
<1> QED BY <1>2, <1>3, <1>4, <1>5 DEF Next

\* Only CConnection::Init tears the cursors of a queue.
LEMMA WhoTears ==
  ASSUME ConnInv, [Next]_vars
  PROVE  InitEvents \/ \A c \in Conns : conn'[c].torn = conn[c].torn
<1>1. ASSUME conn' = conn PROVE \A c \in Conns : conn'[c].torn = conn[c].torn
  BY <1>1
<1>2. ASSUME NEW t, Run(t) PROVE \A c \in Conns : conn'[c].torn = conn[c].torn
  <2>1. CASE CheckClose(t)
    <3>1. PICK b : conn' = [conn EXCEPT ![Of(t).conn].bClose = b]
      BY <2>1 DEF CheckClose
    <3> QED BY <3>1 DEF ConnInv
  <2>2. CASE PushNet(t)
    <3>1. PICK q : conn' = [conn EXCEPT ![Of(t).conn].eventNet = q]
      BY <2>2 DEF PushNet
    <3> QED BY <3>1 DEF ConnInv
  <2>3. CASE Detach(t)
    BY <2>3 DEF Detach, ConnInv
  <2>4. CASE \/ PushEventQueue(t) \/ CloseConnection(t) \/ CloseSocket(t) \/ Uninit(t) \/ CloseFd(t)
             \/ ClearFd(t) \/ ReleaseConnection(t) \/ ReleaseSocket(t) \/ Send(t) \/ SendTo(t)
             \/ IsConnected(t) \/ Aim(t) \/ SendEpollMess(t)
    BY <1>1, <2>4 DEF PushEventQueue, CloseConnection, CloseSocket, Uninit, CloseFd, ClearFd,
         ReleaseConnection, ReleaseSocket, Send, SendTo, IsConnected, Aim, SendEpollMess
  <2> QED BY <1>2, <2>1, <2>2, <2>3, <2>4 DEF Run
<1>3. CASE Acceptor
  <2>1. CASE \/ DisposerBegin \/ EpollWait \/ AcceptFails \/ Accept \/ FetchConnection \/ NoSession
             \/ SetConnection \/ SetSock \/ Register
    BY <1>1, <2>1 DEF DisposerBegin, EpollWait, AcceptFails, Accept, FetchConnection, NoSession,
         SetConnection, SetSock, Assign, Register
  <2>2. CASE InitPointers \/ InitClose \/ SetSession \/ SetSocket
    <3> DEFINE d == Held.conn
    <3>1. \/ conn' = [conn EXCEPT ![d].poSocket = NULL, ![d].session = NULL]
          \/ conn' = [conn EXCEPT ![d].bClose = TRUE]
          \/ \E x : conn' = [conn EXCEPT ![d].session = x] \/ conn' = [conn EXCEPT ![d].poSocket = x]
      BY <2>2 DEF InitPointers, InitClose, SetSession, SetSocket, Assign
    <3> HIDE DEF d
    <3>2. CASE conn' = [conn EXCEPT ![d].poSocket = NULL, ![d].session = NULL]
      BY <3>2 DEF ConnInv
    <3>3. CASE conn' = [conn EXCEPT ![d].bClose = TRUE]
      BY <3>3 DEF ConnInv
    <3>4. ASSUME NEW x, conn' = [conn EXCEPT ![d].session = x]
          PROVE  \A c \in Conns : conn'[c].torn = conn[c].torn
      BY <3>4 DEF ConnInv
    <3>5. ASSUME NEW x, conn' = [conn EXCEPT ![d].poSocket = x]
          PROVE  \A c \in Conns : conn'[c].torn = conn[c].torn
      BY <3>5 DEF ConnInv
    <3> QED BY <3>1, <3>2, <3>3, <3>4, <3>5
  <2> QED BY <1>2, <1>3, <2>1, <2>2 DEF Acceptor
<1>4. CASE Main
  <2>1. CASE PopToken \/ ProcNothing \/ Unlink \/ ReleaseHeard
    BY <1>1, <2>1 DEF PopToken, ProcNothing, Unlink, ReleaseHeard
  <2>2. CASE ProcInvalid \/ ProcConnected \/ ProcError \/ ProcRecv \/ ProcClose
    <3>1. \E e : PopEvent(e)
      BY <2>2 DEF ProcInvalid, ProcConnected, ProcError, ProcRecv, ProcClose, Proc
    <3>2. PICK q : conn' = [conn EXCEPT ![Of("main")].eventNet = q]
      BY <3>1 DEF PopEvent
    <3> QED BY <3>2 DEF ConnInv
  <2> QED BY <1>2, <1>4, <2>1, <2>2 DEF Main
<1>5. ASSUME NEW t, Report(t) \/ ReadLoop(t) PROVE \A c \in Conns : conn'[c].torn = conn[c].torn
  <2>1. CASE Report(t) \/ GetSock(t) \/ Rearm(t)
    BY <1>1, <2>1 DEF Report, GetSock, Rearm
  <2>2. CASE ReadPacket(t) \/ ReadBadPacket(t) \/ SocketError(t) \/ PeerCloses(t) \/ WriteLoop(t)
               \/ ReadNothing(t)
    BY <1>1, <2>2 DEF ReadPacket, ReadBadPacket, SocketError, PeerCloses, WriteLoop, ReadNothing, Turn
  <2> QED BY <1>2, <1>5, <2>1, <2>2 DEF ReadLoop
<1>6. CASE ClientConnects \/ PollNothing \/ UNCHANGED vars
  BY <1>1, <1>6 DEF ClientConnects, PollNothing, vars
<1> QED BY <1>3, <1>4, <1>5, <1>6 DEF Next

\* And it does not when the connection is new.
LEMMA StaysIntact ==
  ASSUME IInv, KnownInv, IntactInv, [Next]_vars
  PROVE  IntactInv'
<1>1. ConnInv
  BY DEF IInv, DataInv
<1>2. CASE InitEvents
  <2>1. conn' = [conn EXCEPT ![Held.conn].eventNet = <<>>, ![Held.conn].torn = FALSE]
    BY <1>2, InitIsAlone
  <2>2. \A c \in Conns : ~conn'[c].torn
    BY <1>1, <2>1 DEF IntactInv, ConnInv
  <2> QED BY <2>2 DEF IntactInv
<1>3. CASE \A c \in Conns : conn'[c].torn = conn[c].torn
  BY <1>3 DEF IntactInv
<1> QED BY <1>1, <1>2, <1>3, WhoTears

\* So all of it holds as long as nothing is used again.
LEMMA NextFirst ==
  ASSUME IInv, IInv', FirstInv, [Next]_vars
  PROVE  FirstInv'
<1>1. SUFFICES ASSUME FirstUse' PROVE KnownInv' /\ EventsInv' /\ IntactInv' /\ ConnectIsHeardFirst'
  BY DEF FirstInv
<1>2. FirstUse
  <2>1. /\ accepted \in Nat /\ Cardinality(Conns) \in Nat /\ Cardinality(Socks) \in Nat
    BY NetAssumption, FS_CardinalityType DEF IInv, DataInv, KernelInv
  <2>2. accepted' \in {accepted, accepted + 1}
    BY <2>1, AcceptedGrows
  <2> QED BY <1>1, <2>1, <2>2 DEF FirstUse
<1>3. KnownInv /\ EventsInv /\ IntactInv /\ ConnectIsHeardFirst
  BY <1>2 DEF FirstInv
<1> QED BY <1>1, <1>3, NextKnown, StaysIntact, HeardInOrder

\* What the other threads know of, and what waits for the sessions, as long as the pools have
\* objects that nobody had before.
THEOREM FirstUseInvariance == Spec => []FirstInv
<1>1. Init => IInv /\ FirstInv
  BY InitIInv, InitFirst
<1>2. IInv /\ FirstInv /\ [Next]_vars => IInv' /\ FirstInv'
  BY NextIInv, NextFirst
<1> QED BY <1>1, <1>2, PTL DEF Spec

--------------------------------------------------------------------------------
(* The properties                                                           *)

\* As long as no connection and no socket is handed out again, m_eventNet and m_eventQueue
\* stay in step (CConnection::PushEvent, FxNetModule::Run): a connection has one event for
\* every token that is queued, being pushed or taken, so ProcEvent always finds an event.
THEOREM EventsAndTokensInStep == Spec => [](FirstUse => EveryEventHasItsToken)
<1>1. ASSUME IInv, FirstInv, FirstUse PROVE EveryEventHasItsToken
  <2>1. SUFFICES ASSUME NEW c \in Conns PROVE Len(conn[c].eventNet) = Tokens(c)
    BY DEF EveryEventHasItsToken
  <2>2. ConnInv /\ eventQueue \in Seq(Conns) /\ NoEventIsStranded /\ TokensInv /\ IntactInv
    BY <1>1 DEF IInv, DataInv, ConnInv, FirstInv, EventsInv
  <2>3. /\ Occurrences(eventQueue, c) \in Nat /\ Cardinality(PushersAt("module", c)) \in Nat
    <3>1. PushersAt("module", c) \in SUBSET Threads
      BY DEF PushersAt
    <3> QED BY <2>2, <3>1, OccurrencesType, OneMore
  <2>4. Tokens(c) \in Nat
    BY <2>3 DEF Tokens
  <2>5. Len(conn[c].eventNet) \in Nat
    BY <2>2, Lengths
  <2>6. Len(conn[c].eventNet) <= Tokens(c) /\ Tokens(c) <= Len(conn[c].eventNet)
    BY <2>2 DEF NoEventIsStranded, TokensInv, IntactInv
  <2> QED BY <2>4, <2>5, <2>6
<1> QED BY <1>1, Invariance, FirstUseInvariance, PTL

\* As long as nothing is handed out again a session hears OnConnect before anything else: the
\* accept loop announces the connection before an epoll thread can watch its socket.
THEOREM ConnectComesFirst == Spec => [](FirstUse => ConnectIsHeardFirst)
<1>1. FirstInv => (FirstUse => ConnectIsHeardFirst)
  BY DEF FirstInv
<1> QED BY <1>1, FirstUseInvariance, PTL

\* As long as nothing is handed out again one CLOSE is pushed for a connection, however many
\* threads are in CLSocket::Close: m_bClose is tested and set under m_oCloseLock.
THEOREM OneCloseForAll == Spec => [](FirstUse => CloseIsPushedOnce)
<1>1. ASSUME IInv, FirstInv, FirstUse PROVE CloseIsPushedOnce
  <2>1. SUFFICES ASSUME NEW c \in Conns PROVE Closings(c) <= 1
    BY DEF CloseIsPushedOnce, Closings, ClosersOf
  <2>2. /\ StepsInv /\ AcceptorInv /\ ConnInv /\ CallsInv /\ CloseInv
    BY <1>1 DEF IInv, DataInv, FirstInv, KnownInv, EventsInv
  <2>3. CASE c \in Announced
    <3>1. Closings(c) <= (IF conn[c].bClose THEN 1 ELSE 0)
      BY <2>2, <2>3 DEF CloseInv
    <3>2. conn[c].eventNet \in Seq(ENetEvtType) /\ ClosersOf(c) \in SUBSET Threads
      BY <2>2 DEF ConnInv, ClosersOf, PushersAt
    <3>3. PICK o \in Nat, n \in Nat, h \in {0, 1} :
            /\ o = Occurrences(conn[c].eventNet, "CLOSE") /\ n = Cardinality(ClosersOf(c))
            /\ h = Cardinality(Hears(c) \cap {"CLOSE"})
      BY <3>2, OccurrencesType, OneMore, EndHeard
    <3>4. Closings(c) = o + n + h
      BY <3>3 DEF Closings
    <3> QED BY <3>1, <3>4
  <2>4. CASE c \notin Announced
    <3>1. conn[c].eventNet = <<>> /\ Hears(c) = {}
      BY <2>4 DEF Announced, Hears
    <3>2. Occurrences(conn[c].eventNet, "CLOSE") = 0
      <4>1. {i \in DOMAIN <<>> : <<>>[i] = "CLOSE"} = {}
        OBVIOUS
      <4> QED BY <3>1, <4>1, FS_EmptySet DEF Occurrences
    <3>3. ClosersOf(c) = {}
      <4>1. ASSUME NEW t \in Threads \ {"acceptor"}, t \in ClosersOf(c) PROVE FALSE
        <5>1. todo[t] # <<>> /\ Head(todo[t]).op = "net" /\ Of(t).conn = c
          BY <4>1 DEF ClosersOf, PushersAt, At
        <5>2. Of(t) \in OpenData(Announced)
          BY <2>2, <5>1, CallAt DEF PushOps
        <5> QED BY <2>4, <5>1, <5>2 DEF OpenData
      <4>2. "acceptor" \notin ClosersOf(c)
        <5>1. SUFFICES ASSUME At("acceptor", "net") PROVE Of("acceptor").event # "CLOSE"
          BY DEF ClosersOf, PushersAt
        <5>2. "net" \in PushOps \cup ConnOps \cup SockOps \cup ReadOps
          BY DEF PushOps
        <5>3. PICK a \in HeldData : \/ Is(EventStep("net", a.conn, "CONNECTED"), FromAim(a))
                                    \/ "net" = "aim"
          BY <2>2, <5>1, <5>2, AcceptorRuns
        <5> QED BY <5>3 DEF Is, Of, EventStep, Step
      <4>3. ClosersOf(c) \subseteq Threads
        BY DEF ClosersOf, PushersAt
      <4> QED BY <4>1, <4>2, <4>3
    <3>4. Cardinality(Hears(c) \cap {"CLOSE"}) = 0
      BY <3>1, EndHeard
    <3>5. Cardinality(ClosersOf(c)) = 0
      BY <3>3, FS_EmptySet
    <3> QED BY <3>2, <3>4, <3>5 DEF Closings
  <2> QED BY <2>3, <2>4
<1> QED BY <1>1, Invariance, FirstUseInvariance, PTL

--------------------------------------------------------------------------------
(* Who works for a connection                                               *)

\* The sockets whose mark chooses an epoll thread, and their connections.
Mine(t)  == {s \in Linked : sock[s].mark = t}
Owned(t) == {sock[s].conn : s \in Mine(t)}

\* A connection has one socket.  The accept loop is about to tie one to a connection that
\* has none.
TiesInv ==
  /\ \A s \in Linked : conn[sock[s].conn].session # NULL
  /\ At("acceptor", "setconn") => \A s \in Linked : sock[s].conn # Of("acceptor").conn
  /\ \A r, s \in Linked : sock[r].conn = sock[s].conn => r = s
  /\ \A c \in Conns : conn[c].poSocket # NULL => sock[conn[c].poSocket].conn = c

\* An epoll thread knows the sockets of its own only, and their connections.
PartsInv ==
  /\ \A t \in EpollThreads : IsCall(todo[t], Owned(t), Mine(t)) /\ epEvent[t] \in Mine(t) \cup {NULL, NoThread}
  /\ \A f \in Fds, t \in EpollThreads : watched[f].thread = t => watched[f].sock \in Mine(t)

\* Who changes the ties and what is watched.
LEMMA WhoTies ==
  ASSUME IInv, [Next]_vars
  PROVE  /\ \/ Accept \/ SetConnection
            \/ \A x \in Socks : sock'[x].conn = sock[x].conn /\ sock'[x].mark = sock[x].mark
         /\ \/ InitPointers \/ SetSession
            \/ \A c \in Conns : conn'[c].session = conn[c].session
         /\ \/ SetSocket
            \/ \A c \in Conns : conn'[c].poSocket \in {conn[c].poSocket, NULL}
         /\ epEvent' = epEvent \/ DisposerBegin \/ \E u \in Threads : Aim(u)
         /\ \/ watched' = watched \/ Register
            \/ \E u \in Threads : CloseFd(u) \/ SendEpollMess(u)
            \/ \E u \in EpollThreads : Rearm(u)
<1> DEFINE SocksSame == \A x \in Socks : sock'[x].conn = sock[x].conn /\ sock'[x].mark = sock[x].mark
           ConnsTied == \A c \in Conns : /\ conn'[c].session = conn[c].session
                                         /\ conn'[c].poSocket \in {conn[c].poSocket, NULL}
<1>1. /\ conn \in [Conns -> [bClose : BOOLEAN, eventNet : Seq(ENetEvtType), torn : BOOLEAN,
                             poSocket : Linked \cup {NULL}, session : Clients \cup {NULL}]]
      /\ sock \in [Socks -> [nSocket : Fds, conn : Conns \cup {NULL}, mark : EpollThreads]]
  BY DEF IInv, DataInv, ConnInv, SockInv
<1>2. ASSUME NEW x, NEW c, NEW y \in BOOLEAN, conn' = [conn EXCEPT ![c].bClose = y] PROVE ConnsTied
  BY <1>1, <1>2
<1>3. ASSUME NEW x, NEW c, conn' = [conn EXCEPT ![c].eventNet = x] PROVE ConnsTied
  BY <1>1, <1>3
<1>4. ASSUME NEW c, conn' = [conn EXCEPT ![c].poSocket = NULL] PROVE ConnsTied
  BY <1>1, <1>4
<1>5. ASSUME NEW x, NEW s, sock' = [sock EXCEPT ![s].nSocket = x] PROVE SocksSame
  BY <1>1, <1>5
<1>6. ASSUME NEW u \in Threads, Run(u)
      PROVE  /\ SocksSame /\ ConnsTied
             /\ epEvent' = epEvent \/ Aim(u)
             /\ watched' = watched \/ CloseFd(u) \/ SendEpollMess(u)
  <2>1. CASE CheckClose(u)
    BY <1>2, <2>1 DEF CheckClose, kernel, Closes
  <2>2. CASE PushNet(u)
    <3>1. \E x, c : conn' = [conn EXCEPT ![c].eventNet = x]
      BY <2>2 DEF PushNet
    <3> QED BY <1>3, <2>2, <3>1 DEF PushNet, kernel
  <2>3. CASE Detach(u)
    BY <1>4, <2>3 DEF Detach, kernel
  <2>4. CASE CloseFd(u)
    BY <2>4 DEF CloseFd
  <2>5. CASE ClearFd(u)
    BY <1>5, <2>5 DEF ClearFd, kernel
  <2>6. CASE \/ PushEventQueue(u) \/ CloseConnection(u) \/ CloseSocket(u) \/ Uninit(u)
             \/ ReleaseConnection(u) \/ ReleaseSocket(u) \/ Send(u) \/ SendTo(u) \/ IsConnected(u)
             \/ Aim(u) \/ SendEpollMess(u)
    BY <2>6 DEF PushEventQueue, CloseConnection, CloseSocket, Uninit, ReleaseConnection,
         ReleaseSocket, Send, SendTo, IsConnected, Aim, SendEpollMess, kernel
  <2> QED BY <1>6, <2>1, <2>2, <2>3, <2>4, <2>5, <2>6 DEF Run
<1>7. CASE ClientConnects \/ PollNothing \/ UNCHANGED vars
  BY <1>7 DEF ClientConnects, PollNothing, vars, kernel
<1>8. CASE Acceptor
  <2>1. CASE DisposerBegin \/ EpollWait \/ AcceptFails \/ FetchConnection \/ NoSession \/ Register
    BY <2>1 DEF DisposerBegin, EpollWait, AcceptFails, FetchConnection, NoSession, Register, kernel
  <2>2. CASE InitEvents \/ InitClose
    <3>1. ASSUME InitEvents PROVE ConnsTied
      <4>1. PICK q, b : conn' = [conn EXCEPT ![Held.conn].eventNet = q, ![Held.conn].torn = b]
        BY <3>1 DEF InitEvents, Assign
      <4> QED BY <1>1, <4>1
    <3> QED BY <1>2, <2>2, <3>1 DEF InitEvents, InitClose, Assign, kernel
  <2>3. CASE SetSock
    BY <1>5, <2>3 DEF SetSock, Assign, kernel
  <2>4. CASE InitPointers \/ SetSession
    <3>1. \A c \in Conns : conn'[c].poSocket \in {conn[c].poSocket, NULL}
      <4>1. PICK d, k : \/ conn' = [conn EXCEPT ![d].poSocket = NULL, ![d].session = NULL]
                       \/ conn' = [conn EXCEPT ![d].session = k]
        BY <2>4 DEF InitPointers, SetSession, Assign
      <4>2. CASE conn' = [conn EXCEPT ![d].poSocket = NULL, ![d].session = NULL]
        BY <1>1, <4>2
      <4>3. CASE conn' = [conn EXCEPT ![d].session = k]
        BY <1>1, <4>3
      <4> QED BY <4>1, <4>2, <4>3
    <3> QED BY <2>4, <3>1 DEF InitPointers, SetSession, Assign, kernel
  <2>5. CASE SetSocket
    <3>1. \A c \in Conns : conn'[c].session = conn[c].session
      BY <1>1, <2>5 DEF SetSocket, Assign
    <3> QED BY <2>5, <3>1 DEF SetSocket, Assign, kernel
  <2>6. CASE SetConnection \/ Accept
    BY <2>6 DEF SetConnection, Assign, Accept, kernel
  <2>7. CASE Run("acceptor")
    BY <1>6, <2>7 DEF Threads
  <2> QED BY <1>8, <2>1, <2>2, <2>3, <2>4, <2>5, <2>6, <2>7 DEF Acceptor
<1>9. CASE Main
  <2>1. CASE PopToken \/ ProcNothing \/ Unlink \/ ReleaseHeard
    BY <2>1 DEF PopToken, ProcNothing, Unlink, ReleaseHeard, kernel
  <2>2. CASE ProcInvalid \/ ProcConnected \/ ProcError \/ ProcRecv \/ ProcClose
    <3>1. ProcInvalid \/ \E e, found : Proc(e, found)
      BY <2>2 DEF ProcConnected, ProcError, ProcRecv, ProcClose
    <3>2. \E x, c : conn' = [conn EXCEPT ![c].eventNet = x]
      BY <3>1 DEF Proc, ProcInvalid, PopEvent
    <3> QED BY <1>3, <3>1, <3>2 DEF Proc, ProcInvalid, kernel
  <2>3. CASE Run("main")
    BY <1>6, <2>3 DEF Threads
  <2> QED BY <1>9, <2>1, <2>2, <2>3 DEF Main
<1>10. ASSUME NEW t \in EpollThreads, Report(t) \/ ReadLoop(t)
       PROVE  /\ SocksSame /\ ConnsTied
              /\ epEvent' = epEvent \/ Aim(t)
              /\ watched' = watched \/ CloseFd(t) \/ SendEpollMess(t) \/ Rearm(t)
  <2>1. CASE Report(t) \/ GetSock(t) \/ Rearm(t)
    BY <2>1 DEF Report, GetSock, Rearm, kernel
  <2>2. CASE ReadPacket(t) \/ ReadBadPacket(t) \/ SocketError(t) \/ PeerCloses(t) \/ WriteLoop(t)
               \/ ReadNothing(t)
    BY <2>2 DEF ReadPacket, ReadBadPacket, SocketError, PeerCloses, WriteLoop, ReadNothing, Turn
  <2>3. CASE Run(t)
    BY <1>6, <2>3 DEF Threads
  <2> QED BY <1>10, <2>1, <2>2, <2>3 DEF ReadLoop
<1> QED BY <1>7, <1>8, <1>9, <1>10, OtherThreads DEF Next

\* One thread does a step, and the others have to do what they had.
LEMMA OneThread ==
  ASSUME StepsInv, [Next]_vars
  PROVE  \/ todo' = todo
         \/ \E t \in Threads :
              /\ \A u \in Threads : u # t => todo'[u] = todo[u]
              /\ \/ t = "acceptor" /\ Acceptor
                 \/ t = "main" /\ Main
                 \/ t \in EpollThreads /\ (Report(t) \/ ReadLoop(t))
<1> DEFINE Others(t) == \A u \in Threads : u # t => todo'[u] = todo[u]
<1>1. \A t \in Threads : (\E s : Continue(t, s)) => Others(t)
  BY OthersKept
<1>2. \A t \in Threads : (\E q : todo' = [todo EXCEPT ![t] = q]) => Others(t)
  BY DEF StepsInv
<1>3. ASSUME NEW t \in Threads, Run(t) PROVE Others(t)
  <2>1. \E s : Continue(t, s)
    BY <1>3 DEF Run, CheckClose, PushNet, PushEventQueue, CloseConnection, CloseSocket, Uninit, CloseFd, ClearFd,
         Detach, ReleaseConnection, ReleaseSocket, Send, SendTo, IsConnected, Aim, SendEpollMess, Crash
  <2> QED BY <1>1, <2>1
<1>4. CASE Acceptor
  <2>1. CASE \/ DisposerBegin \/ AcceptFails \/ Accept \/ FetchConnection \/ InitPointers \/ InitEvents \/ InitClose
             \/ SetSession \/ SetConnection \/ SetSock \/ SetSocket \/ Register
    <3>1. \E s : Continue("acceptor", s)
      BY <2>1 DEF DisposerBegin, AcceptFails, Accept, FetchConnection, InitPointers, InitEvents, InitClose, SetSession,
           SetConnection, SetSock, SetSocket, Register, Assign
    <3> QED BY <1>1, <1>4, <3>1 DEF Threads
  <2>2. CASE EpollWait \/ NoSession
    BY <1>2, <1>4, <2>2 DEF EpollWait, NoSession, Threads
  <2>3. CASE Run("acceptor")
    BY <1>3, <1>4, <2>3 DEF Threads
  <2> QED BY <1>4, <2>1, <2>2, <2>3 DEF Acceptor
<1>5. CASE Main
  <2>1. CASE PopToken
    BY <1>2, <1>5, <2>1 DEF PopToken, Threads
  <2>2. CASE ProcNothing \/ ProcInvalid \/ Unlink \/ ReleaseHeard
    <3>1. \E s : Continue("main", s)
      BY <2>2 DEF ProcNothing, ProcInvalid, Unlink, ReleaseHeard, Crash
    <3> QED BY <1>1, <1>5, <3>1 DEF Threads
  <2>3. CASE ProcConnected \/ ProcError \/ ProcRecv \/ ProcClose
    <3>1. PICK e, found : Proc(e, found)
      BY <2>3 DEF ProcConnected, ProcError, ProcRecv, ProcClose
    <3>2. \E s : Continue("main", s)
      BY <3>1 DEF Proc, Crash
    <3> QED BY <1>1, <1>5, <3>2 DEF Threads
  <2>4. CASE Run("main")
    BY <1>3, <1>5, <2>4 DEF Threads
  <2> QED BY <1>5, <2>1, <2>2, <2>3, <2>4 DEF Main
<1>6. ASSUME NEW t \in EpollThreads, Report(t) \/ ReadLoop(t) PROVE Others(t)
  <2>1. t \in Threads
    BY DEF Threads
  <2>2. CASE Report(t)
    BY <1>2, <2>1, <2>2 DEF Report
  <2>3. CASE \/ GetSock(t) \/ ReadPacket(t) \/ ReadBadPacket(t) \/ SocketError(t) \/ PeerCloses(t)
             \/ WriteLoop(t) \/ Rearm(t) \/ ReadNothing(t)
    <3>1. \E s : Continue(t, s)
      BY <2>3 DEF GetSock, ReadPacket, ReadBadPacket, SocketError, PeerCloses, WriteLoop, Rearm, ReadNothing,
           Turn
    <3> QED BY <1>1, <2>1, <3>1
  <2>4. CASE Run(t)
    BY <1>3, <2>1, <2>4
  <2> QED BY <1>6, <2>2, <2>3, <2>4 DEF ReadLoop
<1>7. CASE ClientConnects \/ PollNothing \/ UNCHANGED vars
  BY <1>7 DEF ClientConnects, PollNothing, vars
<1> QED BY <1>4, <1>5, <1>6, <1>7 DEF Next, Threads

\* The accept loop comes to SetConnection from the step before.
LEMMA AcceptorReaches ==
  ASSUME IInv, [Next]_vars, At("acceptor", "setconn")'
  PROVE  todo'["acceptor"] = todo["acceptor"] \/ SetSession
<1>1. StepsInv /\ AcceptorInv /\ "acceptor" \in Threads /\ "acceptor" \notin EpollThreads
  BY NetAssumption DEF IInv, Threads
<1>2. todo'["acceptor"] # <<>> /\ Head(todo'["acceptor"]).op = "setconn"
  BY DEF At
<1>3. SUFFICES ASSUME Acceptor PROVE SetSession
  BY <1>1, OneThread DEF Threads
<1>4. ASSUME NEW op, At("acceptor", op), NEW a \in HeldData, Continue("acceptor", <<>>),
             Tail(todo["acceptor"]) \in {<<>>, AfterAccept, FromAim(a), FromRegister(a), Announcing("check", a),
                                         FromSetSocket(a), FromSetSock(a), FromSession(a),
                                         FromClose(a), FromEvents(a)}
      PROVE  FALSE
  <2>1. todo'["acceptor"] = Tail(todo["acceptor"])
    BY <1>1, <1>4, AcceptorDone
  <2>2. Head(Announcing("check", a)).op = "check"
    <3>1. Head(Announcing("check", a)) = EventStep("check", a.conn, "CONNECTED")
      BY ShapeOps DEF PushOps
    <3> QED BY <3>1 DEF Step, EventStep
  <2>3. /\ Head(AfterAccept).op = "accept" /\ Head(FromAim(a)).op = "aim" /\ Head(FromRegister(a)).op = "register"
        /\ Head(FromSetSocket(a)).op = "setsocket" /\ Head(FromSetSock(a)).op = "setsock" /\ Head(FromSession(a)).op = "session"
        /\ Head(FromClose(a)).op = "bclose" /\ Head(FromEvents(a)).op = "events"
    BY ShapeOps DEF Step
  <2> QED BY <1>2, <1>4, <2>1, <2>2, <2>3
<1>5. CASE InitPointers \/ InitEvents \/ InitClose \/ SetConnection \/ SetSock \/ SetSocket \/ Register
  <2>1. PICK op \in {"pointers", "events", "bclose", "setconn", "setsock", "setsocket", "register"} :
          At("acceptor", op) /\ Continue("acceptor", <<>>)
    BY <1>5 DEF InitPointers, InitEvents, InitClose, SetConnection, SetSock, SetSocket, Register, Assign
  <2>2. PICK a \in HeldData : ServingStep(a)
    BY <1>1, <2>1, AcceptorAt
  <2> QED BY <1>4, <2>1, <2>2, ServingAt DEF Is
<1>6. CASE Run("acceptor") /\ ~Aim("acceptor")
  <2>1. PICK op, s : /\ At("acceptor", op) /\ Continue("acceptor", s)
                     /\ op \in PushOps \cup ConnOps \cup SockOps /\ op # "aim"
                     /\ op \in PushOps => s = <<>> \/ \E x \in {"net", "module"} :
                          s = <<EventStep(x, Of("acceptor").conn, Of("acceptor").event)>>
    <3>1. CASE CheckClose("acceptor")
      BY <3>1 DEF CheckClose, PushOps, Step
    <3>2. CASE PushNet("acceptor")
      BY <3>2 DEF PushNet, Token, PushOps, Step
    <3>3. CASE PushEventQueue("acceptor")
      BY <3>3 DEF PushEventQueue, PushOps, Step
    <3>4. CASE \/ CloseConnection("acceptor") \/ CloseSocket("acceptor") \/ Send("acceptor") \/ SendTo("acceptor")
      <4>1. PICK x \in {"close", "deref", "send", "sendto"} :
              At("acceptor", x) /\ \E s : Continue("acceptor", s)
        BY <3>4 DEF CloseConnection, CloseSocket, Send, SendTo, Crash
      <4> QED BY <4>1 DEF PushOps, ConnOps
    <3>5. CASE \/ Uninit("acceptor") \/ CloseFd("acceptor") \/ ClearFd("acceptor") \/ Detach("acceptor")
               \/ ReleaseConnection("acceptor") \/ ReleaseSocket("acceptor") \/ IsConnected("acceptor")
               \/ SendEpollMess("acceptor")
      <4>1. PICK x \in {"uninit", "closefd", "clearfd", "detach", "releaseconn", "releasesock", "connected",
                        "modify"} :
              At("acceptor", x) /\ \E s : Continue("acceptor", s)
        BY <3>5 DEF Uninit, CloseFd, ClearFd, Detach, ReleaseConnection, ReleaseSocket, IsConnected, SendEpollMess
      <4> QED BY <4>1 DEF PushOps, SockOps
    <3> QED BY <1>6, <3>1, <3>2, <3>3, <3>4, <3>5 DEF Run
  <2>2. PICK a \in HeldData :
          op \in PushOps /\ Is(EventStep(op, a.conn, "CONNECTED"), FromAim(a))
    BY <1>1, <2>1, AcceptorRuns
  <2>3. CASE s = <<>>
    BY <1>4, <2>1, <2>2, <2>3 DEF Is
  <2>4. CASE s # <<>>
    <3>1. PICK x \in {"net", "module"} : s = <<EventStep(x, Of("acceptor").conn, Of("acceptor").event)>>
      BY <2>1, <2>2, <2>4
    <3>2. /\ todo'["acceptor"] = s \o FromAim(a) /\ FromAim(a) \in Seq(Steps)
      BY <1>1, <2>1, <2>2, <2>4, ContinueFacts DEF Is, At, PushOps
    <3>3. Head(todo'["acceptor"]).op = x
      BY <3>1, <3>2 DEF EventStep, Step
    <3> QED BY <1>2, <3>3
  <2> QED BY <2>3, <2>4
<1>7. CASE DisposerBegin \/ EpollWait \/ NoSession
  <2>1. CASE EpollWait \/ NoSession
    BY <1>1, <1>2, <2>1 DEF EpollWait, NoSession, StepsInv, AfterAccept, Step
  <2>2. CASE DisposerBegin
    <3>1. At("acceptor", "begin") /\ Tail(todo["acceptor"]) = <<>>
      BY <1>1, <2>2, AcceptorAt DEF DisposerBegin
    <3>2. PICK s \in {<<>>, <<Step("deaf", "acceptor")>>} : Continue("acceptor", s)
      BY <2>2 DEF DisposerBegin
    <3>3. todo'["acceptor"] = s \o <<>>
      BY <1>1, <3>1, <3>2, ContinueFacts DEF At
    <3> QED BY <1>2, <3>2, <3>3 DEF Step
  <2> QED BY <1>7, <2>1, <2>2
<1>8. CASE Accept \/ AcceptFails
  <2>1. At("acceptor", "accept") /\ Tail(todo["acceptor"]) = <<>>
    BY <1>1, <1>8, AcceptorAt DEF Accept, AcceptFails
  <2>2. PICK s : /\ Continue("acceptor", s)
                 /\ s \in {<<>>, AfterAccept} \/ \E y : s = <<Step("fetch", y)>> \o AfterAccept
    BY <1>8 DEF Accept, AcceptFails
  <2>3. todo'["acceptor"] = s \o <<>>
    BY <1>1, <2>1, <2>2, ContinueFacts DEF At
  <2>4. CASE s \in {<<>>, AfterAccept}
    BY <1>2, <2>3, <2>4 DEF Step, AfterAccept
  <2>5. ASSUME NEW y, s = <<Step("fetch", y)>> \o AfterAccept PROVE FALSE
    <3>1. Head(todo'["acceptor"]) = Step("fetch", y)
      BY <2>3, <2>5 DEF AfterAccept
    <3> QED BY <1>2, <3>1 DEF Step
  <2> QED BY <2>2, <2>4, <2>5
<1>9. CASE FetchConnection
  <2>1. At("acceptor", "fetch")
    BY <1>9 DEF FetchConnection
  <2>2. PICK a \in FetchData : Is(Step("fetch", a), AfterAccept)
    BY <1>1, <2>1, AcceptorAt
  <2>3. PICK y : Continue("acceptor", AcceptSteps(y))
    BY <1>9 DEF FetchConnection
  <2>4. todo'["acceptor"] = AcceptSteps(y) \o AfterAccept
    BY <1>1, <2>1, <2>2, <2>3, ContinueFacts DEF Is, At
  <2>5. Head(todo'["acceptor"]).op = "pointers"
    BY <2>4 DEF AcceptSteps, Step, PushEvent, AfterAccept
  <2> QED BY <1>2, <2>5
<1>10. CASE Aim("acceptor")
  <2>1. At("acceptor", "aim") /\ (Continue("acceptor", <<>>) \/ Crash("acceptor"))
    BY <1>10 DEF Aim
  <2>2. PICK a \in HeldData : ServingStep(a)
    BY <1>1, <2>1, AcceptorAt
  <2>3. Tail(todo["acceptor"]) = FromRegister(a)
    BY <2>1, <2>2, ServingAt DEF Is
  <2>4. CASE Continue("acceptor", <<>>)
    BY <1>4, <2>1, <2>3, <2>4
  <2>5. CASE Crash("acceptor")
    <3>1. todo'["acceptor"] = <<Step("crash", "acceptor")>> \o Tail(todo["acceptor"])
      BY <1>1, <2>1, <2>5, ContinueFacts DEF Crash, At
    <3>2. Head(todo'["acceptor"]).op = "crash"
      BY <2>3, <3>1 DEF FromRegister, AfterAccept, Step
    <3> QED BY <1>2, <3>2
  <2> QED BY <2>1, <2>4, <2>5
<1> QED BY <1>3, <1>5, <1>6, <1>7, <1>8, <1>9, <1>10 DEF Acceptor

\* A socket that is tied stays tied to its connection and to its thread, as long as the pools
\* have new ones, and the accept loop ties the socket it holds.
LEMMA TiesStay ==
  ASSUME IInv, FirstUse', KnownInv, [Next]_vars
  PROVE  /\ \A s \in Linked : /\ s \in Linked'
                              /\ sock'[s].conn = sock[s].conn /\ sock'[s].mark = sock[s].mark
         /\ \A s \in Linked' \ Linked :
              /\ At("acceptor", "setconn") /\ ~At("acceptor", "setconn")' /\ ~SetSession
              /\ Of("acceptor").conn = sock'[s].conn /\ conn' = conn
              /\ conn[sock'[s].conn].session # NULL /\ Linked' \ Linked = {s}
<1>1. /\ StepsInv /\ StageInv /\ PoolsInv /\ accepted \in Nat /\ NULL \notin Conns
      /\ sock \in [Socks -> [nSocket : Fds, conn : Conns \cup {NULL}, mark : EpollThreads]]
  BY NetAssumption DEF IInv, DataInv, SockInv, KernelInv, KnownInv
<1>2. CASE Accept
  <2>1. sock' = sock \/ \E t : /\ sock' = [sock EXCEPT ![Head(sockPool.free)].mark = t]
                               /\ accepted' = accepted + 1
    BY <1>2 DEF Accept
  <2>2. ASSUME NEW t, sock' = [sock EXCEPT ![Head(sockPool.free)].mark = t], accepted' = accepted + 1
        PROVE  Head(sockPool.free) \in NewSocks
    <3>1. Reserve(0, NewConns, NewSocks)
      <4>1. StageOf("accept", todo["acceptor"])
        BY <1>1, <1>2, StageAt DEF Accept
      <4> QED BY <4>1, StageOps
    <3>2. accepted + 1 <= Cardinality(Socks)
      BY <2>2 DEF FirstUse
    <3> QED BY <1>1, <3>1, <3>2, TakeSock
  <2>3. \A x \in Socks : /\ sock'[x].conn = sock[x].conn
                         /\ sock[x].conn # NULL => sock'[x].mark = sock[x].mark
    BY <1>1, <2>1, <2>2 DEF NewSocks
  <2> QED BY <1>1, <2>3 DEF Linked
<1>3. CASE SetConnection
  <2>1. At("acceptor", "setconn") /\ Continue("acceptor", <<>>) /\ conn' = conn
    BY <1>3 DEF SetConnection, Assign
  <2>2. PICK a \in HeldData : /\ todo["acceptor"] = FromSetConn(a)
                              /\ Made(a.conn) /\ a.sock \in NewSocks
    <3>1. StageOf("setconn", todo["acceptor"])
      BY <1>1, <2>1, StageAt
    <3> QED BY <3>1, StageOps
  <2>3. Tail(todo["acceptor"]) = FromSetSock(a) /\ Of("acceptor") = a
    BY <2>2, ShapeOps, ShapeTails DEF Of, Step
  <2>4. ~At("acceptor", "setconn")'
    <3>1. todo'["acceptor"] = FromSetSock(a)
      BY <1>1, <2>1, <2>3, AcceptorDone
    <3> QED BY <3>1, ShapeOps DEF At, Step
  <2>5. PICK c \in Conns, s \in Socks : c = a.conn /\ s = a.sock
    BY DEF HeldData
  <2>6. sock' = [sock EXCEPT ![s].conn = c]
    BY <1>3, <2>3, <2>5 DEF SetConnection, Assign, Held
  <2>7. /\ sock'[s].conn = c /\ sock[s].conn = NULL
        /\ \A x \in Socks : x # s => sock'[x] = sock[x]
    BY <1>1, <2>2, <2>5, <2>6 DEF NewSocks
  <2>8. Linked' \ Linked = {s} /\ \A x \in Linked : x # s /\ x \in Socks
    BY <1>1, <2>7 DEF Linked
  <2>9. conn[c].session # NULL
    BY <2>2, <2>5, NetAssumption DEF Made, Clients, NULL
  <2>10. ~SetSession
    BY <2>1 DEF SetSession, Assign, At
  <2> QED BY <2>1, <2>3, <2>4, <2>5, <2>7, <2>8, <2>9, <2>10 DEF Linked
<1>4. CASE \A x \in Socks : sock'[x].conn = sock[x].conn /\ sock'[x].mark = sock[x].mark
  BY <1>4 DEF Linked
<1> QED BY <1>2, <1>3, <1>4, WhoTies

\* The connections and sockets that are tied stay so, one to one.
LEMMA TiesNext ==
  ASSUME IInv, IInv', FirstUse', KnownInv, TiesInv, [Next]_vars
  PROVE  TiesInv'
<1>1. /\ StepsInv /\ StageInv /\ NULL \notin Conns /\ Linked \subseteq Socks
      /\ conn \in [Conns -> [bClose : BOOLEAN, eventNet : Seq(ENetEvtType), torn : BOOLEAN,
                             poSocket : Linked \cup {NULL}, session : Clients \cup {NULL}]]
      /\ conn' \in [Conns -> [bClose : BOOLEAN, eventNet : Seq(ENetEvtType), torn : BOOLEAN,
                              poSocket : Linked' \cup {NULL}, session : Clients \cup {NULL}]]
  BY NetAssumption DEF IInv, DataInv, ConnInv, KnownInv, Linked
<1>2. \A s \in Linked : /\ s \in Linked' /\ sock[s].conn \in Conns
                        /\ sock'[s].conn = sock[s].conn /\ sock'[s].mark = sock[s].mark
  BY TiesStay DEF Linked
<1>3. \A s \in Linked' \ Linked :
        /\ At("acceptor", "setconn") /\ ~At("acceptor", "setconn")' /\ ~SetSession
        /\ Of("acceptor").conn = sock'[s].conn /\ conn' = conn
        /\ conn[sock'[s].conn].session # NULL /\ Linked' \ Linked = {s}
  BY TiesStay
<1>4. ASSUME NEW op \in {"pointers", "session"}, At("acceptor", op)
      PROVE  /\ Held.conn \in Conns /\ Held.client \in Clients /\ Held.client # NULL
             /\ conn[Held.conn].session = NULL
             /\ \A s \in Linked : sock[s].conn # Held.conn
             /\ op = "session" /\ Continue("acceptor", <<>>) =>
                  todo'["acceptor"] # <<>> /\ Head(todo'["acceptor"]).of = Held
  <2>1. StageOf(op, todo["acceptor"])
    BY <1>1, <1>4, StageAt
  <2>2. PICK a \in HeldData : /\ todo["acceptor"] \in {FromPointers(a), FromSession(a)}
                              /\ op = "session" => todo["acceptor"] = FromSession(a)
                              /\ a.conn \in NewConns
    BY <2>1 DEF StageOf
  <2>3. Held = a
    BY <2>2, ShapeOps DEF Held, Of, Step
  <2>4. a.conn \in Conns /\ a.client \in Clients /\ conn[a.conn].session = NULL
    BY <2>2 DEF HeldData, NewConns
  <2>5. a.client # NULL
    BY <2>4, NetAssumption DEF Clients, NULL
  <2>6. \A s \in Linked : sock[s].conn # a.conn
    BY <2>4 DEF TiesInv
  <2>7. ASSUME op = "session", Continue("acceptor", <<>>)
        PROVE  todo'["acceptor"] # <<>> /\ Head(todo'["acceptor"]).of = a
    <3>1. todo'["acceptor"] = FromSetConn(a)
      BY <1>1, <1>4, <2>2, <2>7, AcceptorDone, ShapeTails
    <3> QED BY <3>1, ShapeOps DEF Step
  <2> QED BY <2>3, <2>4, <2>5, <2>6, <2>7
<1>5. ASSUME NEW s \in Linked' PROVE conn'[sock'[s].conn].session # NULL
  <2>1. CASE s \notin Linked
    BY <1>3, <1>5, <2>1
  <2>2. CASE s \in Linked
    <3>1. PICK c \in Conns : c = sock[s].conn /\ sock'[s].conn = c /\ conn[c].session # NULL
      BY <1>2, <2>2 DEF TiesInv
    <3>2. CASE InitPointers
      <4>1. At("acceptor", "pointers")
        BY <3>2 DEF InitPointers, Assign
      <4>2. Held.conn # c
        BY <1>4, <2>2, <3>1, <4>1
      <4>3. conn'[c].session = conn[c].session
        BY <1>1, <3>1, <3>2, <4>2 DEF InitPointers, Assign
      <4> QED BY <3>1, <4>3
    <3>3. CASE SetSession
      <4>1. At("acceptor", "session")
        BY <3>3 DEF SetSession, Assign
      <4>2. Held.conn # c
        BY <1>4, <2>2, <3>1, <4>1
      <4>3. conn'[c].session = conn[c].session
        BY <1>1, <3>1, <3>3, <4>2 DEF SetSession, Assign
      <4> QED BY <3>1, <4>3
    <3> QED BY <3>1, <3>2, <3>3, WhoTies
  <2> QED BY <2>1, <2>2
<1>6. ASSUME At("acceptor", "setconn")', NEW s \in Linked' PROVE sock'[s].conn # Of("acceptor").conn'
  <2>1. s \in Linked
    BY <1>3, <1>6
  <2>2. CASE todo'["acceptor"] = todo["acceptor"]
    <3>1. At("acceptor", "setconn") /\ Of("acceptor")' = Of("acceptor")
      BY <1>6, <2>2 DEF At, Of
    <3> QED BY <1>2, <2>1, <3>1 DEF TiesInv
  <2>3. CASE SetSession
    <3>1. At("acceptor", "session") /\ Continue("acceptor", <<>>)
      BY <2>3 DEF SetSession, Assign
    <3>2. Of("acceptor")' = Held /\ sock[s].conn # Held.conn
      BY <1>4, <2>1, <3>1 DEF Of
    <3> QED BY <1>2, <2>1, <3>2
  <2> QED BY <1>6, <2>2, <2>3, AcceptorReaches
<1>7. ASSUME NEW r \in Linked', NEW s \in Linked', sock'[r].conn = sock'[s].conn PROVE r = s
  <2>1. CASE r \in Linked /\ s \in Linked
    BY <1>2, <1>7, <2>1 DEF TiesInv
  <2>2. CASE r \notin Linked /\ s \notin Linked
    BY <1>3, <1>7, <2>2
  <2>3. ASSUME NEW p \in Linked, NEW q \in Linked' \ Linked PROVE sock'[p].conn # sock'[q].conn
    BY <1>2, <1>3, <2>3 DEF TiesInv
  <2> QED BY <1>7, <2>1, <2>2, <2>3
<1>8. ASSUME NEW c \in Conns, conn'[c].poSocket # NULL PROVE sock'[conn'[c].poSocket].conn = c
  <2>1. CASE SetSocket
    <3>1. At("acceptor", "setsocket") /\ sock' = sock /\ conn' = [conn EXCEPT ![Held.conn].poSocket = Held.sock]
      BY <2>1 DEF SetSocket, Assign
    <3>2. StageOf("setsocket", todo["acceptor"])
      BY <1>1, <3>1, StageAt
    <3>3. PICK a \in HeldData : todo["acceptor"] = FromSetSocket(a) /\ sock[a.sock].conn = a.conn
      BY <3>2 DEF StageOf
    <3>4. Held = a /\ a.conn \in Conns
      BY <3>3, ShapeOps DEF Held, Of, Step, HeldData
    <3>5. conn'[a.conn].poSocket = a.sock /\ (c # a.conn => conn'[c].poSocket = conn[c].poSocket)
      BY <1>1, <3>1, <3>4
    <3> QED BY <1>8, <3>1, <3>3, <3>5 DEF TiesInv
  <2>2. CASE conn'[c].poSocket \in {conn[c].poSocket, NULL}
    <3>1. conn'[c].poSocket = conn[c].poSocket /\ conn[c].poSocket \in Linked
      BY <1>1, <1>8, <2>2
    <3> QED BY <1>2, <1>8, <3>1 DEF TiesInv
  <2> QED BY <2>1, <2>2, WhoTies
<1> QED BY <1>5, <1>6, <1>7, <1>8 DEF TiesInv

--------------------------------------------------------------------------------
(* Calls on some of the connections and sockets                             *)

\* What a call on them is at.
LEMMA CallOn ==
  ASSUME NEW K, NEW S, NEW q, q # <<>>, IsCall(q, K, S)
  PROVE  LET op == Head(q).op
         IN  /\ op \in PushOps => Head(q).of \in OpenData(K)
             /\ op \in ConnOps => Head(q).of \in K
             /\ op \in SockOps => Head(q).of \in S
             /\ op \in ReadOps => Head(q).of \in [sock : S, fd : Fds]
             /\ Tail(q) \in Seq(PlainOn(K, S))
             /\ op \notin {"net", "module", "proc"} => Head(q) \in PlainOn(K, S)
<1>1. Head(q) \in PlainOn(K, S) \cup FirstOn(K) /\ Tail(q) \in Seq(PlainOn(K, S))
  BY DEF IsCall
<1>2. CASE Head(q) \in PlainOn(K, S)
  BY <1>1, <1>2, PlainFacts DEF PushOps
<1>3. CASE Head(q) \in FirstOn(K)
  BY <1>1, <1>3, FirstFacts DEF PushOps, ConnOps, SockOps, ReadOps
<1> QED BY <1>1, <1>2, <1>3

\* With plain steps before the others it is plain, with a push it goes on.
LEMMA CallContinues ==
  ASSUME StepsInv, NEW t \in Threads, todo[t] # <<>>, NEW K, NEW S, IsCall(todo[t], K, S), NEW s,
         Continue(t, s)
  PROVE  /\ s \in Seq(PlainOn(K, S)) => todo'[t] \in Seq(PlainOn(K, S))
         /\ \A x \in FirstOn(K) :
              s = <<x>> => IsCall(todo'[t], K, S) /\ todo'[t] # <<>> /\ Head(todo'[t]) = x
<1>1. Tail(todo[t]) \in Seq(PlainOn(K, S))
  BY CallOn
<1>2. todo'[t] = s \o Tail(todo[t])
  BY ContinueFacts
<1>3. ASSUME s \in Seq(PlainOn(K, S)) PROVE todo'[t] \in Seq(PlainOn(K, S))
  BY <1>1, <1>2, <1>3, Calls
<1>4. ASSUME NEW x \in FirstOn(K), s = <<x>>
      PROVE  IsCall(todo'[t], K, S) /\ todo'[t] # <<>> /\ Head(todo'[t]) = x
  <2>1. \A q \in Seq(PlainOn(K, S)) :
          IsCall(<<x>> \o q, K, S) /\ <<x>> \o q # <<>> /\ Head(<<x>> \o q) = x
    BY <1>4, Calls
  <2> QED BY <1>1, <1>2, <1>4, <2>1
<1> QED BY <1>3, <1>4

\* The calls that connections and sockets make stay with their own.
LEMMA CallsOn ==
  ASSUME NEW K, NEW S
  PROVE  /\ \A c \in K, e \in ENetEvtType \ {"CONNECTED"} : PushEvent(c, e) \in Seq(PlainOn(K, S))
         /\ \A c \in K : /\ ConnClose(c) \in Seq(PlainOn(K, S)) /\ ConnSend(c) \in Seq(PlainOn(K, S))
                         /\ PacketError(c) \in Seq(PlainOn(K, S))
         /\ \A s \in S : sock[s].conn \in K => SocketClose(s) \in Seq(PlainOn(K, S))
<1>1. ASSUME NEW c \in K, NEW e \in ENetEvtType \ {"CONNECTED"}
      PROVE  PushEvent(c, e) \in Seq(PlainOn(K, S))
  <2>1. [conn |-> c, event |-> e] \in OpenData(K)
    BY DEF OpenData
  <2>2. EventStep("check", c, e) \in PlainOn(K, S)
    BY <2>1, PlainMade DEF EventStep
  <2> QED BY <2>2 DEF PushEvent
<1>2. ASSUME NEW c \in K
      PROVE  /\ ConnClose(c) \in Seq(PlainOn(K, S)) /\ ConnSend(c) \in Seq(PlainOn(K, S))
             /\ PacketError(c) \in Seq(PlainOn(K, S))
  <2>1. Step("close", c) \in PlainOn(K, S) /\ Step("send", c) \in PlainOn(K, S)
    BY PlainMade DEF ConnOps
  <2>2. ConnClose(c) \in Seq(PlainOn(K, S)) /\ ConnSend(c) \in Seq(PlainOn(K, S))
    BY <2>1 DEF ConnClose, ConnSend
  <2>3. PushEvent(c, "ERROR") \in Seq(PlainOn(K, S))
    BY <1>1 DEF ENetEvtType
  <2> QED BY <2>2, <2>3, Calls DEF PacketError
<1>3. ASSUME NEW s \in S, sock[s].conn \in K PROVE SocketClose(s) \in Seq(PlainOn(K, S))
  <2>1. PushEvent(sock[s].conn, "CLOSE") \in Seq(PlainOn(K, S))
    BY <1>1, <1>3 DEF ENetEvtType
  <2>2. Step("uninit", s) \in PlainOn(K, S)
    BY PlainMade DEF SockOps
  <2>3. <<Step("uninit", s)>> \in Seq(PlainOn(K, S))
    BY <2>2
  <2> QED BY <2>1, <2>3, Calls DEF SocketClose
<1> QED BY <1>1, <1>2, <1>3

\* A thread in a call on connections and sockets that lead to each other only stays with them,
\* and it is about to push only after it looked at m_bClose.
Closed(K, S) ==
  /\ \A s \in S : sock[s].conn \in K
  /\ \A c \in K : conn[c].poSocket \in S \cup {NULL}

LEMMA RunOn ==
  ASSUME StepsInv, NEW t \in Threads, NEW K, NEW S, IsCall(todo[t], K, S), Closed(K, S), Run(t)
  PROVE  \/ todo'[t] \in Seq(PlainOn(K, S))
         \/ (CheckClose(t) \/ PushNet(t)) /\ IsCall(todo'[t], K, S)
<1> DEFINE P == PlainOn(K, S)
<1>1. todo[t] # <<>>
  BY DEF Run, CheckClose, PushNet, PushEventQueue, CloseConnection, CloseSocket, Uninit, CloseFd, ClearFd,
         Detach, ReleaseConnection, ReleaseSocket, Send, SendTo, IsConnected, Aim, SendEpollMess, At
<1>2. /\ <<>> \in Seq(P) /\ (\A x \in P : <<x>> \in Seq(P)) /\ (\A p, q \in Seq(P) : p \o q \in Seq(P))
  BY Calls
<1>3. \A s \in Seq(P) : Continue(t, s) => todo'[t] \in Seq(P)
  BY <1>1, CallContinues
<1>4. Crash(t) => todo'[t] \in Seq(P)
  <2>1. Step("crash", t) \in P
    BY PlainMade
  <2> QED BY <1>2, <1>3, <2>1 DEF Crash
<1>5. /\ Head(todo[t]).op \in PushOps => Of(t) \in OpenData(K)
      /\ Head(todo[t]).op \in ConnOps => Of(t) \in K
      /\ Head(todo[t]).op \in SockOps => Of(t) \in S
  BY <1>1, CallOn DEF Of
<1>6. ASSUME NEW op \in {"net", "module"}, NEW c, NEW e, [conn |-> c, event |-> e] = Of(t),
             Head(todo[t]).op \in PushOps, Continue(t, <<EventStep(op, c, e)>>)
      PROVE  IsCall(todo'[t], K, S)
  <2>1. EventStep(op, c, e) \in FirstOn(K)
    BY <1>5, <1>6, PlainMade DEF EventStep
  <2> QED BY <1>1, <1>6, <2>1, CallContinues
<1>7. CASE CheckClose(t) \/ PushNet(t)
  <2>1. Head(todo[t]).op \in PushOps
    BY <1>7 DEF CheckClose, PushNet, At, PushOps
  <2>2. Of(t) = [conn |-> Of(t).conn, event |-> Of(t).event]
    BY <1>5, <2>1 DEF OpenData
  <2>3. \/ Continue(t, <<>>)
        \/ \E op \in {"net", "module"} : Continue(t, <<EventStep(op, Of(t).conn, Of(t).event)>>)
    BY <1>7 DEF CheckClose, PushNet, Token
  <2> QED BY <1>2, <1>3, <1>6, <1>7, <2>1, <2>2, <2>3
<1>8. CASE CloseConnection(t)
  <2>1. Step("deref", Of(t)) \in P
    BY <1>5, <1>8, PlainMade DEF CloseConnection, At, ConnOps
  <2> QED BY <1>2, <1>3, <1>8, <2>1 DEF CloseConnection
<1>9. CASE CloseSocket(t)
  <2>1. PICK x \in S \cup {NULL} : x = conn[Of(t)].poSocket
    BY <1>5, <1>9 DEF CloseSocket, At, ConnOps, Closed
  <2>2. IF x = NULL THEN Crash(t) ELSE Continue(t, SocketClose(x))
    BY <1>9, <2>1 DEF CloseSocket
  <2>3. x # NULL => SocketClose(x) \in Seq(P)
    BY <2>1, CallsOn DEF Closed
  <2> QED BY <1>3, <1>4, <2>2, <2>3
<1>10. CASE Uninit(t)
  <2>1. PICK x \in S : x = Of(t)
    BY <1>5, <1>10 DEF Uninit, At, SockOps
  <2>2. /\ Step("closefd", x) \in P /\ Step("clearfd", x) \in P /\ Step("detach", x) \in P
        /\ Step("releaseconn", x) \in P /\ Step("releasesock", x) \in P
    BY PlainMade DEF SockOps
  <2>3. UninitSteps(x) \in Seq(P) /\ <<Step("closefd", x), Step("clearfd", x)>> \in Seq(P)
    BY <2>2 DEF UninitSteps
  <2>4. (IF sock[x].nSocket = 0 THEN <<>> ELSE <<Step("closefd", x), Step("clearfd", x)>>)
          \o UninitSteps(x) \in Seq(P)
    BY <1>2, <2>3
  <2> QED BY <1>3, <1>10, <2>1, <2>4 DEF Uninit
<1>11. CASE Send(t)
  <2>1. Step("sendto", Of(t)) \in P
    BY <1>5, <1>11, PlainMade DEF Send, At, ConnOps
  <2> QED BY <1>2, <1>3, <1>11, <2>1 DEF Send
<1>12. CASE SendTo(t)
  <2>1. PICK x \in S \cup {NULL} : x = conn[Of(t)].poSocket
    BY <1>5, <1>12 DEF SendTo, At, ConnOps, Closed
  <2>2. IF x = NULL THEN Crash(t) ELSE Continue(t, <<Step("connected", x)>>)
    BY <1>12, <2>1 DEF SendTo
  <2>3. x # NULL => Step("connected", x) \in P
    BY <2>1, PlainMade DEF SockOps
  <2> QED BY <1>2, <1>3, <1>4, <2>2, <2>3
<1>13. CASE IsConnected(t)
  <2>1. Step("aim", Of(t)) \in P /\ Step("modify", Of(t)) \in P
    BY <1>5, <1>13, PlainMade DEF IsConnected, At, SockOps
  <2>2. <<Step("aim", Of(t)), Step("modify", Of(t))>> \in Seq(P)
    BY <2>1
  <2> QED BY <1>2, <1>3, <1>13, <2>2 DEF IsConnected
<1>14. CASE \/ PushEventQueue(t) \/ CloseFd(t) \/ ClearFd(t) \/ Detach(t) \/ ReleaseConnection(t)
            \/ ReleaseSocket(t) \/ Aim(t) \/ SendEpollMess(t)
  BY <1>2, <1>3, <1>4, <1>14 DEF PushEventQueue, CloseFd, ClearFd, Detach, ReleaseConnection, ReleaseSocket, Aim,
                           SendEpollMess
<1> QED BY <1>7, <1>8, <1>9, <1>10, <1>11, <1>12, <1>13, <1>14 DEF Run

\* So it is with an epoll thread that is told of their sockets.
LEMMA LoopOn ==
  ASSUME StepsInv, SockInv, NEW t \in EpollThreads, NEW K, NEW S \in SUBSET Socks, IsCall(todo[t], K, S),
         Closed(K, S), \A f \in Fds : watched[f].thread = t => watched[f].sock \in S,
         Report(t) \/ ReadLoop(t)
  PROVE  \/ todo'[t] \in Seq(PlainOn(K, S))
         \/ (CheckClose(t) \/ PushNet(t)) /\ IsCall(todo'[t], K, S)
<1> DEFINE P == PlainOn(K, S)
<1>1. t \in Threads
  BY DEF Threads
<1>2. /\ <<>> \in Seq(P) /\ (\A x \in P : <<x>> \in Seq(P)) /\ (\A p, q \in Seq(P) : p \o q \in Seq(P))
  BY Calls
<1>3. ASSUME todo[t] # <<>>, NEW s \in Seq(P), Continue(t, s) PROVE todo'[t] \in Seq(P)
  BY <1>1, <1>3, CallContinues
<1>4. ASSUME todo[t] # <<>>
      PROVE  /\ Head(todo[t]).op \in SockOps => Of(t) \in S
             /\ Head(todo[t]).op \in ReadOps => Of(t) \in [sock : S, fd : Fds] /\ Head(todo[t]) \in P
  BY <1>4, CallOn DEF Of, ReadOps
<1>5. CASE Report(t)
  <2>1. PICK f \in Fds : /\ watched[f].thread = t
                         /\ todo' = [todo EXCEPT ![t] = <<Step("event", watched[f].sock)>>]
    BY <1>5 DEF Report
  <2>2. Step("event", watched[f].sock) \in P
    BY <2>1, PlainMade DEF SockOps
  <2>3. todo'[t] = <<Step("event", watched[f].sock)>>
    BY <1>1, <2>1 DEF StepsInv
  <2> QED BY <1>2, <2>2, <2>3
<1>6. CASE GetSock(t)
  <2>1. todo[t] # <<>> /\ Of(t) \in S /\ sock[Of(t)].nSocket \in Fds
    BY <1>4, <1>6 DEF GetSock, At, SockOps, SockInv
  <2>2. Step("read", [sock |-> Of(t), fd |-> sock[Of(t)].nSocket]) \in P
    BY <2>1, PlainMade DEF ReadOps
  <2> QED BY <1>2, <1>3, <1>6, <2>1, <2>2 DEF GetSock
<1>7. CASE Rearm(t)
  <2>1. todo[t] # <<>> /\ Continue(t, <<>>)
    BY <1>7 DEF Rearm, At
  <2> QED BY <1>2, <1>3, <2>1
<1>8. CASE \/ ReadPacket(t) \/ ReadBadPacket(t) \/ SocketError(t) \/ PeerCloses(t) \/ WriteLoop(t)
           \/ ReadNothing(t)
  <2>1. At(t, "read") /\ todo[t] # <<>>
    BY <1>8 DEF ReadPacket, ReadBadPacket, SocketError, PeerCloses, WriteLoop, ReadNothing, Turn, Fails, At
  <2>2. Of(t) \in [sock : S, fd : Fds] /\ Head(todo[t]) \in P
    BY <1>4, <2>1 DEF At, ReadOps
  <2>3. PICK x \in S, c \in K : x = Of(t).sock /\ c = Reading(t) /\ sock[x].conn = c
    BY <2>2 DEF Reading, Closed
  <2>4. /\ PushEvent(c, "RECV") \in Seq(P) /\ PushEvent(c, "ERROR") \in Seq(P)
        /\ PacketError(c) \in Seq(P) /\ SocketClose(x) \in Seq(P)
    BY <2>3, CallsOn DEF ENetEvtType
  <2>5. Step("rearm", Of(t)) \in P
    BY <2>2, PlainMade DEF ReadOps
  <2>6. <<Head(todo[t])>> \in Seq(P) /\ <<Step("rearm", Of(t))>> \in Seq(P)
    BY <1>2, <2>2, <2>5
  <2>7. /\ PushEvent(c, "RECV") \o <<Head(todo[t])>> \in Seq(P)
        /\ PacketError(c) \o <<Head(todo[t])>> \in Seq(P)
        /\ PushEvent(c, "ERROR") \o <<Step("rearm", Of(t))>> \in Seq(P)
    BY <1>2, <2>4, <2>6
  <2>8. \E s \in Seq(P) : Continue(t, s)
    BY <1>2, <1>8, <2>3, <2>4, <2>6, <2>7 DEF ReadPacket, ReadBadPacket, SocketError, PeerCloses, WriteLoop,
       ReadNothing, Turn
  <2> QED BY <1>3, <2>1, <2>8
<1>9. CASE Run(t)
  BY <1>1, <1>9, RunOn
<1> QED BY <1>5, <1>6, <1>7, <1>8, <1>9 DEF ReadLoop

\* What belongs to an epoll thread leads to what belongs to it, and more comes to belong to it.
LEMMA MineGrows ==
  ASSUME IInv, FirstUse', KnownInv, TiesInv, [Next]_vars, NEW t \in EpollThreads
  PROVE  /\ Mine(t) \subseteq Mine(t)' /\ Owned(t) \subseteq Owned(t)' /\ Mine(t) \subseteq Socks
         /\ Closed(Owned(t), Mine(t))
<1>1. \A s \in Linked : /\ s \in Linked'
                        /\ sock'[s].conn = sock[s].conn /\ sock'[s].mark = sock[s].mark
  BY TiesStay
<1>2. Mine(t) \subseteq Mine(t)' /\ Mine(t) \subseteq Linked /\ Mine(t) \subseteq Socks
  BY <1>1 DEF Mine, Linked
<1>3. Owned(t) \subseteq Owned(t)'
  BY <1>1, <1>2 DEF Owned
<1>4. ASSUME NEW c \in Owned(t) PROVE conn[c].poSocket \in Mine(t) \cup {NULL}
  <2>1. PICK r \in Mine(t) : c = sock[r].conn
    BY DEF Owned
  <2>2. c \in Conns /\ r \in Linked
    BY <2>1 DEF Mine, Linked
  <2>3. conn[c].poSocket \in Linked \cup {NULL}
    BY <2>2 DEF IInv, DataInv, ConnInv
  <2>4. ASSUME conn[c].poSocket # NULL PROVE conn[c].poSocket = r
    BY <2>1, <2>2, <2>3, <2>4 DEF TiesInv
  <2> QED BY <2>1, <2>4
<1>5. \A s \in Mine(t) : sock[s].conn \in Owned(t)
  BY DEF Owned
<1> QED BY <1>2, <1>3, <1>4, <1>5 DEF Closed

\* An epoll thread stays with what belongs to it: m_epEvent is only set to a socket of its own.
LEMMA PartsNext ==
  ASSUME IInv, IInv', FirstUse', KnownInv, TiesInv, PartsInv, [Next]_vars
  PROVE  PartsInv'
<1>1. /\ StepsInv /\ AcceptorInv /\ SockInv /\ KernelInv /\ NULL \notin Linked
      /\ sock \in [Socks -> [nSocket : Fds, conn : Conns \cup {NULL}, mark : EpollThreads]]
      /\ epEvent \in [EpollThreads -> Linked \cup {NULL, NoThread}] /\ NoThread \notin Linked
      /\ watched \in [Fds -> [thread : EpollThreads, sock : Linked] \cup {NoWatch}]
      /\ \A f \in Fds : watched[f].thread \in EpollThreads => epEvent[watched[f].thread] \in Linked
      /\ NoWatch.thread \notin EpollThreads /\ EpollThreads \subseteq Threads \ {"acceptor", "main"}
  BY NetAssumption, OtherThreads DEF IInv, DataInv, SockInv, KernelInv, Linked, NoWatch
<1>2. \A t \in EpollThreads : /\ Mine(t) \subseteq Mine(t)' /\ Owned(t) \subseteq Owned(t)'
                              /\ Mine(t) \subseteq Socks /\ Closed(Owned(t), Mine(t))
  BY MineGrows
<1>3. ASSUME NEW s \in Linked PROVE sock[s].mark \in EpollThreads /\ s \in Mine(sock[s].mark) /\ s \in Socks
  BY <1>1 DEF Mine, Linked
<1>4. ASSUME NEW t \in EpollThreads PROVE IsCall(todo'[t], Owned(t)', Mine(t)')
  <2>1. IsCall(todo[t], Owned(t), Mine(t))
    BY DEF PartsInv
  <2>2. SUFFICES IsCall(todo'[t], Owned(t), Mine(t))
    BY <1>2, <2>2, CallsGrow
  <2>3. CASE todo'[t] = todo[t]
    BY <2>1, <2>3
  <2>4. CASE Report(t) \/ ReadLoop(t)
    <3>1. \A f \in Fds : watched[f].thread = t => watched[f].sock \in Mine(t)
      BY DEF PartsInv
    <3>2. \/ todo'[t] \in Seq(PlainOn(Owned(t), Mine(t)))
          \/ IsCall(todo'[t], Owned(t), Mine(t))
      BY <1>1, <1>2, <2>1, <2>4, <3>1, LoopOn
    <3> QED BY <3>2, Calls
  <2> QED BY <1>1, <2>3, <2>4, OneThread
<1>5. ASSUME NEW t \in EpollThreads PROVE epEvent'[t] \in Mine(t)' \cup {NULL, NoThread}
  <2>1. CASE epEvent' = epEvent
    BY <1>2, <2>1 DEF PartsInv
  <2>2. ASSUME NEW u \in Threads, Aim(u) PROVE epEvent'[t] \in Mine(t)' \cup {NULL, NoThread}
    <3>1. Of(u) \in Linked
      BY <1>1, <2>2, OfFacts DEF Aim, At, SockOps
    <3>2. epEvent' = epEvent \/ epEvent' = [epEvent EXCEPT ![sock[Of(u)].mark] = Of(u)]
      BY <2>2 DEF Aim
    <3>3. CASE t = sock[Of(u)].mark
      BY <1>1, <1>2, <1>3, <2>1, <3>1, <3>2, <3>3
    <3>4. CASE t # sock[Of(u)].mark
      BY <1>1, <1>2, <2>1, <3>2, <3>4 DEF PartsInv
    <3> QED BY <3>3, <3>4
  <2>3. CASE DisposerBegin
    <3>1. epEvent' = epEvent \/ epEvent'[t] \in {NULL, NoThread}
      BY <2>3 DEF DisposerBegin
    <3> QED BY <2>1, <3>1
  <2> QED BY <2>1, <2>2, <2>3, WhoTies
<1>6. ASSUME NEW f \in Fds, NEW t \in EpollThreads, watched'[f].thread = t
      PROVE  watched'[f].sock \in Mine(t)'
  <2>1. CASE watched'[f] = watched[f]
    BY <1>2, <1>6, <2>1 DEF PartsInv
  <2>2. ASSUME NEW u \in EpollThreads, NEW x \in Mine(u), watched'[f] = [thread |-> u, sock |-> x]
        PROVE  watched'[f].sock \in Mine(t)'
    BY <1>2, <1>6, <2>2
  <2>3. ASSUME NEW u \in EpollThreads, epEvent[u] \in Linked PROVE epEvent[u] \in Mine(u)
    BY <1>1, <2>3 DEF PartsInv
  <2>4. ASSUME NEW g \in Fds, NEW w, watched' = [watched EXCEPT ![g] = w]
        PROVE  watched'[f] = IF f = g THEN w ELSE watched[f]
    BY <1>1, <2>4
  <2>5. CASE Register
    <3>1. At("acceptor", "register")
      BY <2>5 DEF Register
    <3>2. PICK a \in HeldData : ServingStep(a)
      BY <1>1, <3>1, AcceptorAt
    <3>3. /\ epEvent[sock[a.sock].mark] \in Linked /\ a.sock \in Linked
          /\ Of("acceptor") = a.sock
      <4>1. /\ epEvent[sock[a.sock].mark] \in Linked /\ a.sock \in Linked
            /\ Is(Step("register", a.sock), AfterAccept)
        BY <3>1, <3>2, ServingAt
      <4> QED BY <4>1 DEF Is, Of, Step
    <3>4. PICK u \in EpollThreads, g \in Fds : u = sock[a.sock].mark /\ g = sock[a.sock].nSocket
      BY <1>1, <1>3, <3>3
    <3>5. \/ watched' = watched
          \/ watched' = [watched EXCEPT ![g] = [thread |-> u, sock |-> epEvent[u]]]
      BY <2>5, <3>3, <3>4 DEF Register
    <3>6. epEvent[u] \in Mine(u)
      BY <2>3, <3>3, <3>4
    <3> QED BY <2>1, <2>2, <2>4, <3>5, <3>6
  <2>6. ASSUME NEW u \in Threads, CloseFd(u) PROVE watched'[f].sock \in Mine(t)'
    <3>1. Of(u) \in Linked
      BY <1>1, <2>6, OfFacts DEF CloseFd, At, SockOps
    <3>2. PICK g \in Fds : watched' = [watched EXCEPT ![g] = NoWatch]
      BY <1>1, <1>3, <2>6, <3>1 DEF CloseFd
    <3>3. watched'[f] = watched[f]
      BY <1>1, <1>6, <2>4, <3>2
    <3> QED BY <2>1, <3>3
  <2>7. ASSUME NEW u \in Threads, SendEpollMess(u) PROVE watched'[f].sock \in Mine(t)'
    <3>1. Of(u) \in Linked
      BY <1>1, <2>7, OfFacts DEF SendEpollMess, At, SockOps
    <3>2. PICK v \in EpollThreads, g \in Fds : v = sock[Of(u)].mark /\ g = sock[Of(u)].nSocket
      BY <1>1, <1>3, <3>1
    <3>3. watched' = IF watched[g].thread = v THEN [watched EXCEPT ![g].sock = epEvent[v]] ELSE watched
      BY <2>7, <3>2 DEF SendEpollMess
    <3>4. CASE watched[g].thread = v
      <4>1. watched[g] \in [thread : EpollThreads, sock : Linked] /\ epEvent[v] \in Mine(v)
        BY <1>1, <2>3, <3>4
      <4>2. PICK w : w = [watched[g] EXCEPT !.sock = epEvent[v]]
        OBVIOUS
      <4>3. w = [thread |-> v, sock |-> epEvent[v]]
        BY <3>4, <4>1, <4>2
      <4>4. watched' = [watched EXCEPT ![g] = w]
        BY <3>3, <3>4, <4>2
      <4> QED BY <2>1, <2>2, <2>4, <4>1, <4>3, <4>4
    <3>5. CASE watched[g].thread # v
      BY <2>1, <3>3, <3>5
    <3> QED BY <3>4, <3>5
  <2>8. ASSUME NEW u \in EpollThreads, Rearm(u) PROVE watched'[f].sock \in Mine(t)'
    <3>1. todo[u] # <<>> /\ Head(todo[u]).op = "rearm"
      BY <2>8 DEF Rearm, At
    <3>2. Of(u) \in [sock : Mine(u), fd : Fds]
      BY <3>1, CallOn DEF PartsInv, Of, ReadOps
    <3>3. PICK x \in Mine(u), g \in Fds : x = Of(u).sock /\ g = Of(u).fd
      BY <3>2
    <3>4. watched' = IF watched[g].thread = u THEN [watched EXCEPT ![g].sock = x] ELSE watched
      BY <2>8, <3>3 DEF Rearm
    <3>5. CASE watched[g].thread = u
      <4>1. watched[g] \in [thread : EpollThreads, sock : Linked]
        BY <1>1, <3>5
      <4>2. PICK w : w = [watched[g] EXCEPT !.sock = x]
        OBVIOUS
      <4>3. w = [thread |-> u, sock |-> x]
        BY <3>5, <4>1, <4>2
      <4>4. watched' = [watched EXCEPT ![g] = w]
        BY <3>4, <3>5, <4>2
      <4> QED BY <2>1, <2>2, <2>4, <3>3, <4>3, <4>4
    <3>6. CASE watched[g].thread # u
      BY <2>1, <3>4, <3>6
    <3> QED BY <3>5, <3>6
  <2>9. CASE watched' = watched
    BY <2>1, <2>9
  <2> QED BY <2>5, <2>6, <2>7, <2>8, <2>9, WhoTies
<1> QED BY <1>4, <1>5, <1>6 DEF PartsInv

--------------------------------------------------------------------------------
(* What comes after a CLOSE                                                 *)

HasClose(q) == \E i \in DOMAIN q : q[i] = "CLOSE"
Behind(q)   == {j \in DOMAIN q : \E i \in 1 .. j - 1 : q[i] = "CLOSE"}

\* Finitely many events are, none if there is no CLOSE.
LEMMA BehindType ==
  ASSUME NEW S, NEW q \in Seq(S)
  PROVE  /\ IsFiniteSet(Behind(q)) /\ Cardinality(Behind(q)) \in Nat
         /\ ~HasClose(q) => Cardinality(Behind(q)) = 0
         /\ ~HasClose(q) <=> Occurrences(q, "CLOSE") = 0
<1>1. DOMAIN q = 1 .. Len(q) /\ Len(q) \in Nat
  BY LenProperties
<1>2. IsFiniteSet(1 .. Len(q)) /\ Behind(q) \in SUBSET (1 .. Len(q))
  BY <1>1, FS_Interval DEF Behind
<1>3. IsFiniteSet(Behind(q))
  BY <1>2, FS_Subset
<1>4. ~HasClose(q) => Behind(q) = {}
  <2>1. \A j \in DOMAIN q : \A i \in 1 .. j - 1 : i \in DOMAIN q
    BY <1>1
  <2> QED BY <2>1 DEF HasClose, Behind
<1>5. ~HasClose(q) <=> {i \in DOMAIN q : q[i] = "CLOSE"} = {}
  BY DEF HasClose
<1>6. Occurrences(q, "CLOSE") = 0 <=> {i \in DOMAIN q : q[i] = "CLOSE"} = {}
  BY OccurrencesType, FS_EmptySet DEF Occurrences
<1> QED BY <1>3, <1>4, <1>5, <1>6, FS_CardinalityType, FS_EmptySet

\* An event that is put at the end is one more, if there is a CLOSE before it.
LEMMA BehindAppend ==
  ASSUME NEW S, NEW q \in Seq(S), NEW e \in S
  PROVE  /\ Cardinality(Behind(Append(q, e))) = Cardinality(Behind(q)) + (IF HasClose(q) THEN 1 ELSE 0)
         /\ HasClose(Append(q, e)) <=> HasClose(q) \/ e = "CLOSE"
<1>1. /\ Len(q) \in Nat /\ DOMAIN q = 1 .. Len(q) /\ DOMAIN Append(q, e) = 1 .. Len(q) + 1
      /\ \A i \in 1 .. Len(q) : Append(q, e)[i] = q[i]
      /\ Append(q, e)[Len(q) + 1] = e
  BY LenProperties, AppendProperties
<1>2. PICK n \in Nat : n = Len(q)
  BY <1>1
<1>3. \A j \in 1 .. n + 1 : \A i \in 1 .. j - 1 : i \in 1 .. n
  BY <1>2
<1>4. \A j \in 1 .. n : j \in Behind(Append(q, e)) <=> j \in Behind(q)
  BY <1>1, <1>2, <1>3 DEF Behind
<1>5. n + 1 \in Behind(Append(q, e)) <=> HasClose(q)
  <2>1. n + 1 \in 1 .. n + 1 /\ 1 .. (n + 1) - 1 = 1 .. n
    BY <1>2
  <2> QED BY <1>1, <1>2, <2>1 DEF Behind, HasClose
<1>6. /\ Behind(q) \subseteq 1 .. n /\ Behind(Append(q, e)) \subseteq 1 .. n + 1
      /\ n + 1 \notin 1 .. n /\ (\A j \in 1 .. n + 1 : j \in 1 .. n \/ j = n + 1)
  BY <1>1, <1>2 DEF Behind
<1>7. HasClose(Append(q, e)) <=> HasClose(q) \/ e = "CLOSE"
  <2>1. n + 1 \in 1 .. n + 1 /\ 1 .. n \subseteq 1 .. n + 1
    BY <1>2
  <2> QED BY <1>1, <1>2, <1>6, <2>1 DEF HasClose
<1>8. CASE HasClose(q)
  <2>1. Behind(Append(q, e)) = Behind(q) \cup {n + 1} /\ n + 1 \notin Behind(q)
    BY <1>4, <1>5, <1>6, <1>8
  <2>2. Cardinality(Behind(Append(q, e))) = Cardinality(Behind(q)) + 1
    BY <2>1, BehindType, FS_AddElement
  <2> QED BY <1>7, <1>8, <2>2
<1>9. CASE ~HasClose(q)
  <2>1. Behind(Append(q, e)) = Behind(q)
    BY <1>4, <1>5, <1>6, <1>9
  <2>2. Cardinality(Behind(q)) \in Nat
    BY BehindType
  <2> QED BY <1>7, <1>9, <2>1, <2>2
<1> QED BY <1>8, <1>9

\* When the event at the head is taken, no more are; and all the others were if it is a CLOSE.
LEMMA BehindTail ==
  ASSUME NEW S, NEW q \in Seq(S), q # <<>>
  PROVE  /\ Head(q) = "CLOSE" => Cardinality(Behind(q)) = Len(Tail(q))
         /\ Cardinality(Behind(Tail(q))) <= Cardinality(Behind(q))
         /\ HasClose(Tail(q)) => HasClose(q)
<1>1. /\ Len(q) \in Nat /\ Len(q) >= 1 /\ DOMAIN q = 1 .. Len(q) /\ Head(q) = q[1]
      /\ DOMAIN Tail(q) = 1 .. Len(q) - 1 /\ Len(Tail(q)) = Len(q) - 1
      /\ \A i \in 1 .. Len(q) - 1 : Tail(q)[i] = q[i + 1]
  BY LenProperties, HeadTailProperties, EmptySeq
<1>2. PICK n \in Nat : n = Len(q) /\ n >= 1
  BY <1>1
<1>3. ASSUME Head(q) = "CLOSE" PROVE Cardinality(Behind(q)) = Len(Tail(q))
  <2>1. \A j \in 2 .. n : 1 \in 1 .. j - 1 /\ j \in 1 .. n
    OBVIOUS
  <2>2. 2 .. n \subseteq Behind(q)
    BY <1>1, <1>2, <1>3, <2>1 DEF Behind
  <2>3. Behind(q) \subseteq 2 .. n
    <3>1. \A j \in 1 .. n : \A i \in 1 .. j - 1 : j \in 2 .. n
      BY <1>2
    <3> QED BY <1>1, <1>2, <3>1 DEF Behind
  <2>4. Cardinality(2 .. n) = n - 1
    BY <1>2, FS_Interval
  <2> QED BY <1>1, <1>2, <2>2, <2>3, <2>4
<1>4. Cardinality(Behind(Tail(q))) <= Cardinality(Behind(q))
  <2> DEFINE f == [j \in Behind(Tail(q)) |-> j + 1]
  <2>1. ASSUME NEW j \in Behind(Tail(q)) PROVE j \in 1 .. n - 1 /\ j + 1 \in Behind(q)
    <3>1. j \in 1 .. n - 1
      BY <1>1, <1>2 DEF Behind
    <3>2. PICK i \in 1 .. j - 1 : Tail(q)[i] = "CLOSE"
      BY DEF Behind
    <3>3. i \in 1 .. n - 1 /\ i + 1 \in 1 .. (j + 1) - 1 /\ j + 1 \in 1 .. n
      BY <3>1, <3>2
    <3>4. q[i + 1] = "CLOSE"
      BY <1>1, <1>2, <3>2, <3>3
    <3> QED BY <1>1, <1>2, <3>1, <3>3, <3>4 DEF Behind
  <2>2. f \in [Behind(Tail(q)) -> Behind(q)]
    BY <2>1
  <2>3. \A i, j \in Behind(Tail(q)) : f[i] = f[j] => i = j
    <3>1. \A i, j \in 1 .. n - 1 : i + 1 = j + 1 => i = j
      OBVIOUS
    <3> QED BY <2>1, <3>1
  <2>4. f \in Injection(Behind(Tail(q)), Behind(q))
    BY <2>2, <2>3, Fun_IsInj
  <2> QED BY <2>4, BehindType, FS_Injection
<1>5. ASSUME HasClose(Tail(q)) PROVE HasClose(q)
  <2>1. PICK i \in 1 .. n - 1 : Tail(q)[i] = "CLOSE"
    BY <1>1, <1>2, <1>5 DEF HasClose
  <2>2. i + 1 \in 1 .. n
    BY <1>2
  <2> QED BY <1>1, <1>2, <2>1, <2>2 DEF HasClose
<1> QED BY <1>3, <1>4, <1>5

\* A push that has taken place leaves a thread with the token to push.
LEMMA PushedNet ==
  ASSUME StepsInv, NEW t \in Threads, PushNet(t)
  PROVE  ~At(t, "net")'
<1>1. todo[t] # <<>> /\ \E c, e : Continue(t, <<EventStep("module", c, e)>>)
  BY DEF PushNet, At, Token
<1>2. PICK c, e : Continue(t, <<EventStep("module", c, e)>>)
  BY <1>1
<1>3. todo'[t] = <<EventStep("module", c, e)>> \o Tail(todo[t]) /\ Tail(todo[t]) \in Seq(Steps)
  BY <1>1, <1>2, ContinueFacts
<1>4. Head(todo'[t]).op = "module"
  BY <1>3 DEF EventStep, Step
<1> QED BY <1>4 DEF At

\* The main thread goes on with plain steps, but for the push it was let through to, the token
\* it pushes and the token it takes.
LEMMA MainOn ==
  ASSUME IInv, KnownInv, Main
  PROVE  \/ todo'["main"] \in Seq(Plain)
         \/ CheckClose("main")
         \/ todo'["main"] # <<>> /\ Head(todo'["main"]).op \in {"module", "proc"}
<1>1. /\ StepsInv /\ CallsInv /\ OwnInv /\ "main" \in Threads \ {"acceptor"} /\ "main" \in Threads
      /\ Closed(Announced, Reachable) /\ IsCall(todo["main"], Announced, Reachable)
  BY OtherThreads DEF IInv, KnownInv, CallsInv, Closed, Reachable, OwnInv
<1>2. ASSUME todo["main"] # <<>>, NEW s \in Seq(Plain), Continue("main", s)
      PROVE  todo'["main"] \in Seq(Plain)
  BY <1>1, <1>2, PlainGoesOn
<1>3. <<>> \in Seq(Plain) /\ \A p, q \in Seq(Plain) : p \o q \in Seq(Plain)
  BY Calls DEF Plain
<1>4. CASE PopToken
  <2>1. todo'["main"] = <<Step("proc", Head(eventQueue))>>
    BY <1>1, <1>4 DEF PopToken, StepsInv
  <2> QED BY <2>1 DEF Step
<1>5. ASSUME Crash("main"), todo["main"] # <<>> PROVE todo'["main"] \in Seq(Plain)
  <2>1. <<Step("crash", "main")>> \in Seq(Plain)
    <3>1. Step("crash", "main") \in Plain
      BY <1>1, PlainMade DEF Plain
    <3> QED BY <3>1
  <2> QED BY <1>2, <1>5, <2>1 DEF Crash
<1>6. CASE ProcNothing \/ ProcInvalid \/ Unlink \/ ReleaseHeard
  <2>1. todo["main"] # <<>> /\ (Continue("main", <<>>) \/ Crash("main"))
    BY <1>6 DEF ProcNothing, ProcInvalid, PopEvent, Unlink, ReleaseHeard, At
  <2> QED BY <1>2, <1>3, <1>5, <2>1
<1>7. CASE ProcConnected \/ ProcError \/ ProcRecv \/ ProcClose
  <2>1. todo["main"] # <<>> /\ At("main", "proc")
    BY <1>7 DEF ProcConnected, ProcError, ProcRecv, ProcClose, Proc, PopEvent, At
  <2>2. PICK c \in Announced : c = Of("main") /\ c \in Conns
    BY <1>1, <2>1, CallAt DEF At, ConnOps, Announced
  <2>3. /\ PushEvent(c, "RECV") \in Seq(Plain) /\ PushEvent(c, "ERROR") \in Seq(Plain)
        /\ ConnClose(c) \in Seq(Plain)
    BY PlainSequences DEF ENetEvtType
  <2>4. PacketError(c) \in Seq(Plain)
    BY <1>3, <2>3 DEF PacketError
  <2>5. <<Step("unlink", c), Step("release", c)>> \in Seq(Plain)
    <3>1. Step("unlink", c) \in Plain /\ Step("release", c) \in Plain
      BY PlainMade DEF Plain, ConnOps
    <3> QED BY <3>1
  <2>6. PICK found \in Seq(Plain) : \E e : Proc(e, found)
    BY <1>3, <1>7, <2>2, <2>3, <2>4, <2>5 DEF ProcConnected, ProcError, ProcRecv, ProcClose
  <2>7. PICK k \in Clients : k = conn[c].session /\ k # NULL
    BY <1>1, NetAssumption DEF OwnInv, Clients, NULL
  <2>8. PICK app \in AppSteps(k) : Continue("main", app \o found)
    BY <2>2, <2>6, <2>7 DEF Proc
  <2>9. app \in Seq(Plain)
    BY <1>1, <2>7, AppStepsArePlain
  <2> QED BY <1>2, <1>3, <2>1, <2>6, <2>8, <2>9
<1>8. CASE Run("main")
  <2>1. CASE PushNet("main")
    <3>1. Of("main") \in OpenData(Announced) /\ todo["main"] # <<>>
      BY <1>1, <2>1, CallAt DEF PushNet, At, PushOps
    <3>2. PICK c, e : Continue("main", <<EventStep("module", c, e)>>)
      BY <2>1 DEF PushNet, Token
    <3>3. todo'["main"] = <<EventStep("module", c, e)>> \o Tail(todo["main"]) /\ Tail(todo["main"]) \in Seq(Steps)
      BY <1>1, <3>1, <3>2, ContinueFacts
    <3>4. todo'["main"] # <<>> /\ Head(todo'["main"]).op = "module"
      BY <3>3 DEF EventStep, Step
    <3> QED BY <3>4
  <2>2. CASE ~PushNet("main")
    BY <1>1, <1>8, <2>2, RunOn DEF Plain
  <2> QED BY <2>1, <2>2
<1> QED BY <1>4, <1>6, <1>7, <1>8 DEF Main

\* A thread comes to the push of an event by PushEvent only.
LEMMA NetArrives ==
  ASSUME IInv, KnownInv, [Next]_vars, NEW t \in Threads \ {"acceptor"}, At(t, "net")'
  PROVE  todo'[t] = todo[t] \/ CheckClose(t)
<1>1. /\ StepsInv /\ SockInv /\ CallsInv /\ OwnInv /\ LinksInv /\ t \in Threads
      /\ Closed(Announced, Reachable) /\ IsCall(todo[t], Announced, Reachable)
      /\ Reachable \in SUBSET Socks /\ "acceptor" \notin EpollThreads
  BY NetAssumption DEF IInv, DataInv, KnownInv, CallsInv, Closed, Reachable, Linked, OwnInv
<1>2. todo'[t] # <<>> /\ Head(todo'[t]).op = "net"
  BY DEF At
<1>3. todo'[t] \notin Seq(Plain)
  <2>1. SUFFICES ASSUME todo'[t] \in Seq(Plain) PROVE FALSE
    OBVIOUS
  <2>2. Head(todo'[t]) \in Plain
    BY <1>2, <2>1
  <2> QED BY <1>2, <2>2, PlainFacts DEF Plain
<1>4. CASE t = "main" /\ Main
  BY <1>2, <1>3, <1>4, MainOn
<1>5. CASE t \in EpollThreads /\ (Report(t) \/ ReadLoop(t))
  <2>1. \A f \in Fds : watched[f].thread = t => watched[f].sock \in Reachable
    BY <1>1, <1>5 DEF LinksInv
  <2>2. ~PushNet(t)
    BY <1>1, PushedNet
  <2> QED BY <1>1, <1>3, <1>5, <2>1, <2>2, LoopOn DEF Plain
<1> QED BY <1>1, <1>4, <1>5, OneThread

\* The events of a connection come by PushNet and go by ProcEvent; Init empties them.
LEMMA WhoPushes ==
  ASSUME IInv, [Next]_vars
  PROVE  \/ InitEvents
         \/ \E u \in Threads : PushNet(u)
         \/ ProcInvalid \/ \E e, found : Proc(e, found)
         \/ \A c \in Conns : conn'[c].eventNet = conn[c].eventNet
<1> DEFINE Same == \A c \in Conns : conn'[c].eventNet = conn[c].eventNet
<1>1. conn \in [Conns -> [bClose : BOOLEAN, eventNet : Seq(ENetEvtType), torn : BOOLEAN,
                          poSocket : Linked \cup {NULL}, session : Clients \cup {NULL}]]
  BY DEF IInv, DataInv, ConnInv
<1>2. ASSUME NEW c, NEW y, conn' = [conn EXCEPT ![c].bClose = y] PROVE Same
  BY <1>1, <1>2
<1>3. ASSUME NEW c, NEW y, conn' = [conn EXCEPT ![c].poSocket = y] PROVE Same
  BY <1>1, <1>3
<1>4. ASSUME NEW c, NEW y, conn' = [conn EXCEPT ![c].session = y] PROVE Same
  BY <1>1, <1>4
<1>5. ASSUME NEW c, NEW y, NEW z, conn' = [conn EXCEPT ![c].poSocket = y, ![c].session = z] PROVE Same
  BY <1>1, <1>5
<1>6. ASSUME NEW u \in Threads, Run(u) PROVE PushNet(u) \/ Same
  <2>1. CASE CheckClose(u)
    <3>1. \E c, y : conn' = [conn EXCEPT ![c].bClose = y]
      BY <2>1 DEF CheckClose
    <3> QED BY <1>2, <3>1
  <2>2. CASE Detach(u)
    <3>1. \E c, y : conn' = [conn EXCEPT ![c].poSocket = y]
      BY <2>2 DEF Detach
    <3> QED BY <1>3, <3>1
  <2>3. CASE \/ PushEventQueue(u) \/ CloseConnection(u) \/ CloseSocket(u) \/ Uninit(u) \/ CloseFd(u)
             \/ ClearFd(u) \/ ReleaseConnection(u) \/ ReleaseSocket(u) \/ Send(u) \/ SendTo(u)
             \/ IsConnected(u) \/ Aim(u) \/ SendEpollMess(u)
    BY <2>3 DEF PushEventQueue, CloseConnection, CloseSocket, Uninit, CloseFd, ClearFd, ReleaseConnection,
         ReleaseSocket, Send, SendTo, IsConnected, Aim, SendEpollMess
  <2> QED BY <1>6, <2>1, <2>2, <2>3 DEF Run
<1>7. CASE ClientConnects \/ PollNothing \/ UNCHANGED vars
  BY <1>7 DEF ClientConnects, PollNothing, vars
<1>8. CASE Acceptor
  <2>1. CASE \/ DisposerBegin \/ EpollWait \/ AcceptFails \/ Accept \/ FetchConnection \/ NoSession
             \/ SetConnection \/ SetSock \/ Register
    BY <2>1 DEF DisposerBegin, EpollWait, AcceptFails, Accept, FetchConnection, NoSession, SetConnection, SetSock,
         Register, Assign
  <2>2. CASE InitClose
    BY <1>2, <2>2 DEF InitClose, Assign
  <2>3. CASE SetSocket
    BY <1>3, <2>3 DEF SetSocket, Assign
  <2>4. CASE SetSession
    BY <1>4, <2>4 DEF SetSession, Assign
  <2>5. CASE InitPointers
    BY <1>5, <2>5 DEF InitPointers, Assign
  <2>6. CASE Run("acceptor")
    BY <1>6, <2>6 DEF Threads
  <2> QED BY <1>8, <2>1, <2>2, <2>3, <2>4, <2>5, <2>6 DEF Acceptor
<1>9. CASE Main
  <2>1. CASE PopToken \/ ProcNothing \/ Unlink \/ ReleaseHeard
    BY <2>1 DEF PopToken, ProcNothing, Unlink, ReleaseHeard
  <2>2. CASE ProcConnected \/ ProcError \/ ProcRecv \/ ProcClose
    BY <2>2 DEF ProcConnected, ProcError, ProcRecv, ProcClose
  <2>3. CASE Run("main")
    BY <1>6, <2>3 DEF Threads
  <2> QED BY <1>9, <2>1, <2>2, <2>3 DEF Main
<1>10. ASSUME NEW t \in EpollThreads, Report(t) \/ ReadLoop(t) PROVE Same \/ PushNet(t)
  <2>1. CASE Report(t) \/ GetSock(t) \/ Rearm(t)
    BY <2>1 DEF Report, GetSock, Rearm
  <2>2. CASE ReadPacket(t) \/ ReadBadPacket(t) \/ SocketError(t) \/ PeerCloses(t) \/ WriteLoop(t)
               \/ ReadNothing(t)
    BY <2>2 DEF ReadPacket, ReadBadPacket, SocketError, PeerCloses, WriteLoop, ReadNothing, Turn
  <2>3. CASE Run(t)
    BY <1>6, <2>3 DEF Threads
  <2> QED BY <1>10, <2>1, <2>2, <2>3 DEF ReadLoop
<1> QED BY <1>7, <1>8, <1>9, <1>10, OtherThreads DEF Next

\* What the accept loop makes anew had no events and is not announced.
LEMMA NewAt ==
  ASSUME IInv, KnownInv, InitPointers \/ InitEvents \/ SetSession
  PROVE  /\ Held.conn \in NewConns /\ Held.conn \in Conns
         /\ heard[Held.client] = {} /\ Held.conn \notin Announced
<1>1. PICK op \in {"pointers", "events", "session"} : At("acceptor", op)
  BY DEF InitPointers, InitEvents, SetSession, Assign
<1>2. StageOf(op, todo["acceptor"])
  BY <1>1, StageAt DEF KnownInv
<1>3. PICK a \in HeldData :
        /\ todo["acceptor"] \in {FromPointers(a), FromEvents(a), FromSession(a)}
        /\ NewClient(a.client) /\ a.conn \in NewConns
  BY <1>2 DEF StageOf
<1>4. Held = a
  BY <1>3, ShapeOps DEF Held, Of, Step
<1> QED BY <1>3, <1>4 DEF NewClient, NewConns, Announced

\* So only a push makes more of what is announced, and only that or ProcEvent changes its events.
LEMMA WhoEvents ==
  ASSUME IInv, KnownInv, [Next]_vars
  PROVE  /\ \A c \in Announced : conn'[c].session = conn[c].session
         /\ \/ /\ heard' = heard /\ Announced' \subseteq Announced
               /\ \A c \in Conns : conn'[c].eventNet = conn[c].eventNet
            \/ \E u \in Threads : PushNet(u)
            \/ ProcInvalid \/ \E e, found : Proc(e, found)
<1>1. /\ heard \in [Clients -> SUBSET ENetEvtType] /\ NULL \notin Clients
      /\ conn \in [Conns -> [bClose : BOOLEAN, eventNet : Seq(ENetEvtType), torn : BOOLEAN,
                             poSocket : Linked \cup {NULL}, session : Clients \cup {NULL}]]
  BY DEF IInv, DataInv, ConnInv, HistoryInv, Clients, NULL
<1>2. heard' = heard \/ \E e, found : Proc(e, found)
  BY WhoCounts
<1>3. ASSUME InitPointers \/ SetSession
      PROVE  /\ \A c \in Announced : conn'[c].session = conn[c].session
             /\ \A c \in Conns : conn'[c].eventNet = conn[c].eventNet
             /\ \A c \in Conns : \/ conn'[c].session \in {conn[c].session, NULL}
                                 \/ heard[conn'[c].session] = {}
  <2>1. PICK d \in Conns : d = Held.conn /\ d \notin Announced /\ heard[Held.client] = {}
    BY <1>3, NewAt
  <2>2. PICK k : k = Held.client /\ heard[k] = {}
    BY <2>1
  <2>3. \/ conn' = [conn EXCEPT ![d].poSocket = NULL, ![d].session = NULL]
        \/ conn' = [conn EXCEPT ![d].session = k]
    BY <1>3, <2>1, <2>2 DEF InitPointers, SetSession, Assign
  <2>4. \A c \in Conns : /\ conn'[c].eventNet = conn[c].eventNet
                         /\ c # d => conn'[c].session = conn[c].session
                         /\ conn'[c].session \in {conn[c].session, NULL, k}
    <3>1. CASE conn' = [conn EXCEPT ![d].poSocket = NULL, ![d].session = NULL]
      BY <1>1, <3>1
    <3>2. CASE conn' = [conn EXCEPT ![d].session = k]
      BY <1>1, <3>2
    <3> QED BY <2>3, <3>1, <3>2
  <2>5. \A c \in Announced : c \in Conns /\ c # d
    BY <2>1 DEF Announced
  <2> QED BY <2>2, <2>4, <2>5
<1>4. ASSUME InitEvents PROVE \A c \in Conns : conn'[c].eventNet = conn[c].eventNet
  <2>1. PICK d \in Conns : d = Held.conn /\ conn[d].eventNet = <<>>
    BY <1>4, NewAt DEF NewConns
  <2>2. conn' = [conn EXCEPT ![d].eventNet = <<>>, ![d].torn = FALSE]
    BY <1>4, <2>1, InitIsAlone
  <2> QED BY <1>1, <2>1, <2>2
<1>5. \A c \in Announced : conn'[c].session = conn[c].session
  <2>1. Announced \subseteq Conns
    BY DEF Announced
  <2> QED BY <1>3, <2>1, WhoTies
<1>6. ASSUME heard' = heard, \A c \in Conns : conn'[c].eventNet = conn[c].eventNet
      PROVE  Announced' \subseteq Announced
  <2>1. \A c \in Conns : \/ conn'[c].session \in {conn[c].session, NULL}
                         \/ heard[conn'[c].session] = {}
    BY <1>3, WhoTies
  <2> QED BY <1>6, <2>1 DEF Announced
<1>7. \/ \A c \in Conns : conn'[c].eventNet = conn[c].eventNet
      \/ \E u \in Threads : PushNet(u)
      \/ ProcInvalid \/ \E e, found : Proc(e, found)
  BY <1>4, WhoPushes
<1> QED BY <1>2, <1>5, <1>6, <1>7

\* What a session that heard H has still to hear after OnClose, of the events q, and whether a
\* CLOSE was pushed.
Late(H, q) == IF "CLOSE" \in H THEN Len(q) ELSE Cardinality(Behind(q))
Ends(H, q) == "CLOSE" \in H \/ HasClose(q)
Ended(c)   == Ends(Hears(c), conn[c].eventNet)

\* The threads between the two tests of PushEvent.  (The accept loop pushes CONNECTED only.)
NetPushers(c) == PushersAt("net", c) \ {"acceptor"}

\* After a CLOSE there is one late event, or one thread that was let through before it.
LateInv ==
  \A c \in Announced :
    Late(Hears(c), conn[c].eventNet) + (IF Ended(c) THEN Cardinality(NetPushers(c)) ELSE 0) <= 1

\* Before a CLOSE nothing is late.
LEMMA LateType ==
  ASSUME NEW S, NEW q \in Seq(S), NEW H
  PROVE  Late(H, q) \in Nat /\ (~Ends(H, q) => Late(H, q) = 0)
<1>1. Len(q) \in Nat
  BY LenProperties
<1> QED BY <1>1, BehindType DEF Late, Ends

\* An event that is pushed is late if the CLOSE was pushed before.
LEMMA LateAppend ==
  ASSUME NEW S, NEW q \in Seq(S), NEW e \in S, NEW H
  PROVE  /\ Late(H, Append(q, e)) = Late(H, q) + (IF Ends(H, q) THEN 1 ELSE 0)
         /\ Ends(H, Append(q, e)) <=> Ends(H, q) \/ e = "CLOSE"
<1>1. Len(Append(q, e)) = Len(q) + 1
  BY AppendProperties
<1>2. /\ Cardinality(Behind(Append(q, e))) = Cardinality(Behind(q)) + (IF HasClose(q) THEN 1 ELSE 0)
      /\ HasClose(Append(q, e)) <=> HasClose(q) \/ e = "CLOSE"
  BY BehindAppend
<1>3. CASE "CLOSE" \in H
  BY <1>1, <1>3 DEF Late, Ends
<1>4. CASE "CLOSE" \notin H
  BY <1>2, <1>4 DEF Late, Ends
<1> QED BY <1>3, <1>4

\* When the session hears the oldest event no more are late, and no CLOSE is new.
LEMMA LateTail ==
  ASSUME NEW S, NEW q \in Seq(S), q # <<>>, NEW H
  PROVE  /\ Late(H \cup {Head(q)}, Tail(q)) <= Late(H, q)
         /\ Ends(H \cup {Head(q)}, Tail(q)) => Ends(H, q)
<1>1. Len(q) \in Nat /\ Len(Tail(q)) = Len(q) - 1 /\ 1 \in DOMAIN q /\ Head(q) = q[1]
  BY LenProperties, HeadTailProperties, EmptySeq
<1>2. /\ Head(q) = "CLOSE" => Cardinality(Behind(q)) = Len(Tail(q))
      /\ Cardinality(Behind(Tail(q))) <= Cardinality(Behind(q))
      /\ HasClose(Tail(q)) => HasClose(q)
  BY BehindTail
<1>3. CASE "CLOSE" \in H
  BY <1>1, <1>3 DEF Late, Ends
<1>4. CASE "CLOSE" \notin H /\ Head(q) = "CLOSE"
  <2>1. HasClose(q)
    BY <1>1, <1>4 DEF HasClose
  <2>2. "CLOSE" \in H \cup {Head(q)}
    BY <1>4
  <2>3. Late(H \cup {Head(q)}, Tail(q)) = Len(Tail(q)) /\ Late(H, q) = Len(Tail(q))
    BY <1>2, <1>4, <2>2 DEF Late
  <2>4. Ends(H, q)
    BY <2>1 DEF Ends
  <2> QED BY <1>1, <2>3, <2>4
<1>5. CASE "CLOSE" \notin H /\ Head(q) # "CLOSE"
  <2>1. "CLOSE" \notin H \cup {Head(q)}
    BY <1>5
  <2> QED BY <1>2, <1>5, <2>1 DEF Late, Ends
<1> QED BY <1>3, <1>4, <1>5

\* A connection that was not closed, or whose CLOSE is still to be pushed, has none.
LEMMA NotEnded ==
  ASSUME ConnInv, NEW c \in Conns, Closings(c) <= 0 \/ (Closings(c) <= 1 /\ ClosersOf(c) # {})
  PROVE  ~Ended(c)
<1>1. conn[c].eventNet \in Seq(ENetEvtType) /\ ClosersOf(c) \in SUBSET Threads
  BY DEF ConnInv, ClosersOf, PushersAt
<1>2. IsFiniteSet(ClosersOf(c))
  BY <1>1, ThreadsAreFinite, FS_Subset
<1>3. PICK o \in Nat, n \in Nat, h \in {0, 1} :
        /\ o = Occurrences(conn[c].eventNet, "CLOSE") /\ n = Cardinality(ClosersOf(c))
        /\ h = Cardinality(Hears(c) \cap {"CLOSE"})
  BY <1>1, <1>2, OccurrencesType, FS_CardinalityType, EndHeard
<1>4. Closings(c) = o + n + h
  BY <1>3 DEF Closings
<1>5. ClosersOf(c) # {} => n # 0
  BY <1>2, <1>3, FS_EmptySet
<1>6. o = 0 /\ h = 0
  BY <1>3, <1>4, <1>5
<1>7. ~HasClose(conn[c].eventNet)
  BY <1>1, <1>3, <1>6, BehindType
<1>8. "CLOSE" \notin Hears(c)
  <2>1. Cardinality(Hears(c) \cap {"CLOSE"}) = IF "CLOSE" \in Hears(c) THEN 1 ELSE 0
    BY EndHeard
  <2> QED BY <1>3, <1>6, <2>1
<1> QED BY <1>7, <1>8 DEF Ended, Ends

\* At most two threads push for a connection: the main thread and the epoll thread of its socket.
LEMMA TwoPushers ==
  ASSUME TiesInv, PartsInv, NEW c \in Conns, NEW t \in NetPushers(c)
  PROVE  /\ IsFiniteSet(NetPushers(c)) /\ Cardinality(NetPushers(c)) \in Nat
         /\ Cardinality(NetPushers(c) \ {t}) \in Nat /\ Cardinality(NetPushers(c) \ {t}) <= 1
         /\ Cardinality(NetPushers(c) \ {t}) = Cardinality(NetPushers(c)) - 1
<1>1. NetPushers(c) \in SUBSET Threads
  BY DEF NetPushers, PushersAt
<1>2. IsFiniteSet(NetPushers(c)) /\ IsFiniteSet(NetPushers(c) \ {t})
  BY <1>1, ThreadsAreFinite, FS_Subset
<1>3. /\ Cardinality(NetPushers(c)) \in Nat /\ Cardinality(NetPushers(c) \ {t}) \in Nat
      /\ Cardinality(NetPushers(c) \ {t}) = Cardinality(NetPushers(c)) - 1
  BY <1>2, FS_CardinalityType, FS_RemoveElement
<1>4. ASSUME NEW u \in NetPushers(c), u # "main" PROVE \E s \in Linked : sock[s].conn = c /\ sock[s].mark = u
  <2>1. /\ u \in EpollThreads /\ todo[u] # <<>> /\ Head(todo[u]).op = "net"
        /\ Head(todo[u]).of.conn = c
    BY <1>4 DEF NetPushers, PushersAt, Threads, At, Of
  <2>2. IsCall(todo[u], Owned(u), Mine(u))
    BY <2>1 DEF PartsInv
  <2>3. Head(todo[u]).of \in OpenData(Owned(u))
    BY <2>1, <2>2, CallOn DEF PushOps
  <2>4. c \in Owned(u)
    BY <2>1, <2>3 DEF OpenData
  <2> QED BY <2>4 DEF Owned, Mine
<1>5. \A u, v \in NetPushers(c) \ {"main"} : u = v
  BY <1>4 DEF TiesInv
<1>6. \A u, v \in NetPushers(c) \ {t} : u = v
  BY <1>5
<1>7. NetPushers(c) \ {t} = {} \/ \E u : NetPushers(c) \ {t} = {u}
  BY <1>6
<1>8. Cardinality(NetPushers(c) \ {t}) \in {0, 1}
  BY <1>7, FS_EmptySet, FS_Singleton
<1> QED BY <1>2, <1>3, <1>8

\* After a CLOSE no thread is let through.
LEMMA PushersStay ==
  ASSUME IInv, KnownInv, CloseInv, [Next]_vars, NEW c \in Announced, Ended(c)
  PROVE  NetPushers(c)' \subseteq NetPushers(c)
<1>1. SUFFICES ASSUME NEW t \in NetPushers(c)' PROVE t \in NetPushers(c)
  OBVIOUS
<1>2. t \in Threads \ {"acceptor"} /\ At(t, "net")' /\ Of(t)'.conn = c /\ c \in Conns
  BY DEF NetPushers, PushersAt, Announced
<1>3. CASE todo'[t] = todo[t]
  BY <1>2, <1>3 DEF NetPushers, PushersAt, At, Of
<1>4. CASE CheckClose(t)
  <2>1. /\ StepsInv /\ CallsInv /\ ConnInv /\ todo[t] # <<>>
    BY <1>4 DEF IInv, DataInv, KnownInv, CheckClose, At
  <2>2. PICK d, e : /\ d = Of(t).conn /\ e = Of(t).event /\ e # "CONNECTED"
    <3>1. Of(t) \in OpenData(Announced)
      BY <1>2, <1>4, <2>1, CallAt DEF CheckClose, At, PushOps
    <3> QED BY <3>1 DEF OpenData
  <2>3. Continue(t, IF conn[d].bClose THEN <<>> ELSE <<EventStep("net", d, e)>>)
    BY <1>4, <2>2 DEF CheckClose
  <2>4. CASE conn[d].bClose
    <3>1. todo'[t] \in Seq(Plain)
      <4>1. Continue(t, <<>>) /\ <<>> \in Seq(Plain)
        BY <2>3, <2>4
      <4> QED BY <1>2, <2>1, <4>1, PlainGoesOn
    <3>2. Head(todo'[t]) \in Plain /\ Head(todo'[t]).op = "net"
      BY <1>2, <3>1 DEF At
    <3> QED BY <3>2, PlainFacts DEF Plain
  <2>5. CASE ~conn[d].bClose
    <3>1. todo'[t] = <<EventStep("net", d, e)>> \o Tail(todo[t]) /\ Tail(todo[t]) \in Seq(Steps)
      BY <1>2, <2>1, <2>3, <2>5, ContinueFacts
    <3>2. Head(todo'[t]) = EventStep("net", d, e)
      BY <3>1
    <3>3. d = c
      BY <1>2, <3>2 DEF Of, EventStep, Step
    <3>4. Closings(c) <= 0
      BY <2>5, <3>3 DEF CloseInv
    <3> QED BY <1>2, <2>1, <3>4, NotEnded
  <2> QED BY <2>4, <2>5
<1> QED BY <1>2, <1>3, <1>4, NetArrives

\* A step of the program makes no second event late.
LEMMA LateNext ==
  ASSUME IInv, IInv', KnownInv, IntactInv, CloseInv, TiesInv, PartsInv, LateInv, [Next]_vars
  PROVE  LateInv'
<1> DEFINE Net(c)  == conn[c].eventNet
           Goal(c) == Late(Hears(c)', Net(c)') + (IF Ended(c)' THEN Cardinality(NetPushers(c)') ELSE 0) <= 1
<1>1. /\ StepsInv /\ CallsInv /\ OwnInv /\ SessionsInv /\ ConnInv /\ HistoryInv /\ Announced \subseteq Conns
      /\ conn \in [Conns -> [bClose : BOOLEAN, eventNet : Seq(ENetEvtType), torn : BOOLEAN,
                             poSocket : Linked \cup {NULL}, session : Clients \cup {NULL}]]
      /\ conn' \in [Conns -> [bClose : BOOLEAN, eventNet : Seq(ENetEvtType), torn : BOOLEAN,
                              poSocket : Linked' \cup {NULL}, session : Clients \cup {NULL}]]
  BY DEF IInv, DataInv, KnownInv, ConnInv, Announced
<1>2. ASSUME NEW c \in Conns
      PROVE  /\ Net(c) \in Seq(ENetEvtType) /\ Net(c)' \in Seq(ENetEvtType)
             /\ Late(Hears(c), Net(c)) \in Nat /\ Late(Hears(c)', Net(c)') \in Nat
             /\ IsFiniteSet(NetPushers(c)) /\ IsFiniteSet(NetPushers(c)')
             /\ Cardinality(NetPushers(c)) \in Nat /\ Cardinality(NetPushers(c)') \in Nat
             /\ ~Ended(c) => Late(Hears(c), Net(c)) = 0
             /\ ~Ended(c)' => Late(Hears(c)', Net(c)') = 0
  <2>1. Net(c) \in Seq(ENetEvtType) /\ Net(c)' \in Seq(ENetEvtType)
    BY <1>1
  <2>2. /\ Late(Hears(c), Net(c)) \in Nat
        /\ ~Ends(Hears(c), Net(c)) => Late(Hears(c), Net(c)) = 0
    BY <2>1, LateType
  <2>3. /\ Late(Hears(c)', Net(c)') \in Nat
        /\ ~Ends(Hears(c)', Net(c)') => Late(Hears(c)', Net(c)') = 0
    BY <2>1, LateType
  <2>4. NetPushers(c) \in SUBSET Threads /\ NetPushers(c)' \in SUBSET Threads
    BY DEF NetPushers, PushersAt
  <2>5. IsFiniteSet(NetPushers(c)) /\ IsFiniteSet(NetPushers(c)')
    BY <2>4, ThreadsAreFinite, FS_Subset
  <2> QED BY <2>1, <2>2, <2>3, <2>5, FS_CardinalityType DEF Ended
<1>3. ASSUME NEW c \in Announced PROVE Late(Hears(c), Net(c)) + (IF Ended(c) THEN Cardinality(NetPushers(c)) ELSE 0) <= 1
  BY DEF LateInv
<1>4. ASSUME NEW c \in Announced, Late(Hears(c)', Net(c)') <= Late(Hears(c), Net(c)), Ended(c)' => Ended(c)
      PROVE  Goal(c)
  <2>1. c \in Conns
    BY <1>1
  <2>2. CASE Ended(c)
    <3>1. NetPushers(c)' \subseteq NetPushers(c)
      BY <2>2, PushersStay
    <3>2. Cardinality(NetPushers(c)') <= Cardinality(NetPushers(c))
      BY <1>2, <2>1, <3>1, FS_Subset
    <3>3. Late(Hears(c), Net(c)) + Cardinality(NetPushers(c)) <= 1
      BY <1>3, <2>2
    <3> QED BY <1>2, <1>4, <2>1, <3>2, <3>3
  <2>3. CASE ~Ended(c)
    <3>1. ~Ended(c)'
      BY <1>4, <2>3
    <3> QED BY <1>2, <2>1, <3>1
  <2> QED BY <2>2, <2>3
<1>5. \A c \in Announced : conn'[c].session = conn[c].session
  BY WhoEvents
<1>6. ASSUME NEW c \in Announced, Net(c)' = Net(c), Hears(c)' = Hears(c) PROVE Goal(c)
  <2>1. c \in Conns
    BY <1>1
  <2>2. Ended(c)' => Ended(c)
    BY <1>6 DEF Ended
  <2>3. Late(Hears(c)', Net(c)') <= Late(Hears(c), Net(c))
    BY <1>2, <1>6, <2>1
  <2> QED BY <1>4, <2>2, <2>3
<1>7. ASSUME heard' = heard, NEW c \in Announced PROVE Hears(c)' = Hears(c)
  BY <1>5, <1>7 DEF Hears
<1>8. CASE /\ heard' = heard /\ Announced' \subseteq Announced
           /\ \A c \in Conns : conn'[c].eventNet = conn[c].eventNet
  <2>1. \A c \in Announced' : Goal(c)
    BY <1>1, <1>6, <1>7, <1>8
  <2> QED BY <2>1 DEF LateInv
<1>9. ASSUME NEW t \in Threads, PushNet(t) PROVE LateInv'
  <2>1. /\ heard' = heard /\ todo[t] # <<>> /\ At(t, "net")
        /\ \A u \in Threads : u # t => todo'[u] = todo[u]
    <3>1. todo[t] # <<>> /\ heard' = heard /\ \E s : Continue(t, s)
      BY <1>9 DEF PushNet, At
    <3> QED BY <1>1, <1>9, <3>1, OthersKept DEF PushNet
  <2>2. Of(t) \in EventData
    <3>1. Head(todo[t]).op \in PushOps
      BY <2>1 DEF At, PushOps
    <3> QED BY <1>1, <2>1, <3>1, OfFacts DEF IInv
  <2>3. PICK d \in Conns, e \in ENetEvtType : d = Of(t).conn /\ e = Of(t).event
    BY <2>2 DEF EventData
  <2>4. conn' = [conn EXCEPT ![d].eventNet = Append(conn[d].eventNet, e)]
    BY <1>9, <2>3, NetPushed
  <2>5. /\ Net(d)' = Append(Net(d), e)
        /\ \A c \in Conns : /\ conn'[c].session = conn[c].session
                            /\ c # d => Net(c)' = Net(c)
    BY <1>1, <2>3, <2>4
  <2>6. ASSUME NEW c \in Announced', c # d PROVE Goal(c)
    <3>1. c \in Conns
      BY <2>6 DEF Announced
    <3>2. Net(c)' = Net(c) /\ conn'[c].session = conn[c].session
      BY <2>5, <2>6, <3>1
    <3>3. c \in Announced
      BY <2>1, <2>6, <3>1, <3>2 DEF Announced
    <3>4. Hears(c)' = Hears(c)
      BY <1>7, <2>1, <3>3
    <3> QED BY <1>6, <3>2, <3>3, <3>4
  <2>7. Hears(d)' = Hears(d)
    <3>1. conn'[d].session = conn[d].session /\ heard' = heard
      BY <2>1, <2>3, <2>5
    <3> QED BY <3>1 DEF Hears
  <2>8. /\ Late(Hears(d)', Net(d)') = Late(Hears(d), Net(d)) + (IF Ended(d) THEN 1 ELSE 0)
        /\ Ended(d)' <=> Ended(d) \/ e = "CLOSE"
    <3>1. /\ Late(Hears(d), Append(Net(d), e)) = Late(Hears(d), Net(d)) + (IF Ends(Hears(d), Net(d)) THEN 1 ELSE 0)
          /\ Ends(Hears(d), Append(Net(d), e)) <=> Ends(Hears(d), Net(d)) \/ e = "CLOSE"
      BY <1>2, LateAppend
    <3> QED BY <2>5, <2>7, <3>1 DEF Ended
  <2>9. CASE t = "acceptor"
    <3>1. StageOf("net", todo["acceptor"])
      BY <2>1, <2>9, StageAt DEF KnownInv
    <3>2. PICK a \in HeldData : todo["acceptor"] = Announcing("net", a) /\ Made(a.conn)
      BY <3>1, StageOps
    <3>3. Of(t) = [conn |-> a.conn, event |-> "CONNECTED"]
      <4>1. Head(todo["acceptor"]) = EventStep("net", a.conn, "CONNECTED")
        BY <3>2, ShapeOps DEF PushOps
      <4> QED BY <2>9, <4>1 DEF Of, EventStep, Step
    <3>4. e = "CONNECTED" /\ Made(d)
      BY <2>3, <3>2, <3>3
    <3>5. Net(d) = <<>> /\ Hears(d) = {}
      BY <3>4 DEF Made, Hears
    <3>6. ~Ended(d)
      <4>1. ~HasClose(<<>>)
        BY DEF HasClose
      <4> QED BY <3>5, <4>1 DEF Ended, Ends
    <3>7. ~Ended(d)'
      BY <2>8, <3>4, <3>6
    <3>8. Goal(d)
      BY <1>2, <3>7
    <3>9. \A c \in Announced' : Goal(c)
      BY <2>6, <3>8
    <3> QED BY <3>9 DEF LateInv
  <2>10. CASE t # "acceptor"
    <3>1. d \in Announced
      <4>1. Of(t) \in OpenData(Announced)
        BY <1>1, <2>1, <2>10, CallAt DEF At, PushOps
      <4> QED BY <2>3, <4>1 DEF OpenData
    <3>2. t \in NetPushers(d)
      BY <2>1, <2>3, <2>10 DEF NetPushers, PushersAt
    <3>3. NetPushers(d)' \subseteq NetPushers(d) \ {t}
      <4>1. ~At(t, "net")'
        BY <1>1, <1>9, PushedNet
      <4>2. ASSUME NEW u \in NetPushers(d)' PROVE u \in NetPushers(d) \ {t}
        <5>1. u # t /\ u \in Threads
          BY <4>1, <4>2 DEF NetPushers, PushersAt
        <5> QED BY <2>1, <4>2, <5>1 DEF NetPushers, PushersAt, At, Of
      <4> QED BY <4>2
    <3>4. /\ Cardinality(NetPushers(d)) \in Nat /\ Cardinality(NetPushers(d) \ {t}) \in Nat
          /\ Cardinality(NetPushers(d) \ {t}) <= 1
          /\ Cardinality(NetPushers(d) \ {t}) = Cardinality(NetPushers(d)) - 1
      BY <3>2, TwoPushers
    <3>5. Cardinality(NetPushers(d)') <= Cardinality(NetPushers(d) \ {t})
      <4>1. IsFiniteSet(NetPushers(d) \ {t})
        BY <1>2, FS_Subset
      <4> QED BY <3>3, <4>1, FS_Subset
    <3>6. Goal(d)
      <4>1. CASE e = "CLOSE"
        <5>1. t \in ClosersOf(d)
          BY <2>1, <2>3, <4>1 DEF ClosersOf, PushersAt
        <5>2. Closings(d) <= 1
          <6>1. Closings(d) <= (IF conn[d].bClose THEN 1 ELSE 0) /\ d \in Conns
            BY <3>1 DEF CloseInv
          <6>2. conn[d].eventNet \in Seq(ENetEvtType) /\ IsFiniteSet(ClosersOf(d))
            BY <1>2, ThreadsAreFinite, FS_Subset DEF ClosersOf, PushersAt
          <6>3. PICK o \in Nat, n \in Nat, h \in {0, 1} :
                  /\ o = Occurrences(conn[d].eventNet, "CLOSE") /\ n = Cardinality(ClosersOf(d))
                  /\ h = Cardinality(Hears(d) \cap {"CLOSE"})
            BY <6>2, OccurrencesType, FS_CardinalityType, EndHeard
          <6>4. Closings(d) = o + n + h
            BY <6>3 DEF Closings
          <6> QED BY <6>1, <6>4
        <5>3. ~Ended(d)
          BY <1>1, <5>1, <5>2, NotEnded
        <5>4. Late(Hears(d)', Net(d)') = 0
          BY <1>2, <2>8, <5>3
        <5> QED BY <1>2, <3>4, <3>5, <5>4
      <4>2. CASE e # "CLOSE" /\ Ended(d)
        <5>1. Late(Hears(d), Net(d)) + Cardinality(NetPushers(d)) <= 1
          BY <1>3, <3>1, <4>2
        <5>2. Late(Hears(d)', Net(d)') = Late(Hears(d), Net(d)) + 1
          BY <2>8, <4>2
        <5> QED BY <1>2, <3>4, <3>5, <5>1, <5>2
      <4>3. CASE e # "CLOSE" /\ ~Ended(d)
        <5>1. ~Ended(d)'
          BY <2>8, <4>3
        <5> QED BY <1>2, <5>1
      <4> QED BY <4>1, <4>2, <4>3
    <3>7. \A c \in Announced' : Goal(c)
      BY <2>6, <3>6
    <3> QED BY <3>7 DEF LateInv
  <2> QED BY <2>9, <2>10
<1>10. ASSUME ProcInvalid \/ \E e, found : Proc(e, found) PROVE LateInv'
  <2>1. todo["main"] # <<>> /\ "main" \in Threads \ {"acceptor"} /\ Head(todo["main"]).op = "proc"
    BY <1>10, OtherThreads DEF Proc, ProcInvalid, PopEvent, At
  <2>2. PICK d \in Announced : d = Of("main") /\ d \in Conns
    BY <1>1, <2>1, CallAt DEF ConnOps
  <2>3. PICK k \in Clients : k = conn[d].session /\ k # NULL
    BY <1>1, NetAssumption DEF OwnInv, Clients, NULL
  <2>4. PICK e, E : /\ Net(d) # <<>> /\ Head(Net(d)) = e
                    /\ conn' = [conn EXCEPT ![d].eventNet = Tail(conn[d].eventNet)]
                    /\ heard' = [heard EXCEPT ![k] = heard[k] \cup E]
                    /\ E = {e} \/ (E = {} /\ e # "CLOSE")
    <3>1. CASE ProcInvalid
      <4>1. PopEvent("INVALID") /\ heard' = heard
        BY <3>1 DEF ProcInvalid
      <4>2. /\ Net(d) # <<>> /\ Head(Net(d)) = "INVALID"
            /\ conn' = [conn EXCEPT ![d].eventNet = Tail(conn[d].eventNet)]
        BY <2>2, <4>1, NetPopped
      <4>3. heard' = [heard EXCEPT ![k] = heard[k] \cup {}]
        BY <1>1, <4>1 DEF HistoryInv
      <4> QED BY <4>2, <4>3
    <3>2. ASSUME NEW e, NEW found, Proc(e, found) PROVE
            /\ Net(d) # <<>> /\ Head(Net(d)) = e
            /\ conn' = [conn EXCEPT ![d].eventNet = Tail(conn[d].eventNet)]
            /\ heard' = [heard EXCEPT ![k] = heard[k] \cup {e}]
      <4>1. PopEvent(e) /\ heard' = [heard EXCEPT ![k] = heard[k] \cup {e}]
        BY <2>2, <2>3, <3>2 DEF Proc
      <4> QED BY <2>2, <4>1, NetPopped
    <3> QED BY <1>10, <3>1, <3>2
  <2>5. /\ Net(d)' = Tail(Net(d))
        /\ \A c \in Conns : /\ conn'[c].session = conn[c].session
                            /\ c # d => Net(c)' = Net(c)
    BY <1>1, <2>2, <2>4
  <2>6. heard'[k] = heard[k] \cup E /\ \A j \in Clients : j # k => heard'[j] = heard[j]
    BY <1>1, <2>4 DEF HistoryInv
  <2>7. \A c \in Conns : /\ conn[c].session \in Clients \cup {NULL}
                         /\ c # d => conn[c].session # k
    BY <1>1, <2>2, <2>3 DEF SessionsInv
  <2>8. ASSUME NEW c \in Announced', c # d PROVE Goal(c)
    <3>1. c \in Conns /\ conn[c].session # k /\ conn'[c].session = conn[c].session
      BY <2>5, <2>7, <2>8 DEF Announced
    <3>2. conn[c].session # NULL => heard'[conn[c].session] = heard[conn[c].session]
      BY <2>6, <2>7, <3>1
    <3>3. Hears(c)' = Hears(c) /\ Net(c)' = Net(c)
      BY <2>5, <2>8, <3>1, <3>2 DEF Hears
    <3>4. c \in Announced
      BY <2>5, <2>8, <3>1, <3>2, <3>3 DEF Announced
    <3> QED BY <1>6, <3>3, <3>4
  <2>9. Hears(d) = heard[k] /\ Hears(d)' = heard[k] \cup E
    BY <2>2, <2>3, <2>5, <2>6 DEF Hears
  <2>10. /\ Late(heard[k] \cup E, Tail(Net(d))) <= Late(heard[k], Net(d))
         /\ Ends(heard[k] \cup E, Tail(Net(d))) => Ends(heard[k], Net(d))
    <3>1. \A H : /\ Late(H \cup {Head(Net(d))}, Tail(Net(d))) <= Late(H, Net(d))
                 /\ Ends(H \cup {Head(Net(d))}, Tail(Net(d))) => Ends(H, Net(d))
      BY <1>2, <2>2, <2>4, LateTail
    <3>2. CASE E = {e}
      BY <2>4, <3>1, <3>2
    <3>3. CASE E = {} /\ e # "CLOSE"
      <4>1. /\ Late(heard[k] \cup {e}, Tail(Net(d))) <= Late(heard[k], Net(d))
            /\ Ends(heard[k] \cup {e}, Tail(Net(d))) => Ends(heard[k], Net(d))
        BY <2>4, <3>1
      <4>2. "CLOSE" \in heard[k] \cup E <=> "CLOSE" \in heard[k] \cup {e}
        BY <3>3
      <4> QED BY <4>1, <4>2 DEF Late, Ends
    <3> QED BY <2>4, <3>2, <3>3
  <2>11. /\ Late(Hears(d)', Net(d)') <= Late(Hears(d), Net(d))
         /\ Ended(d)' => Ended(d)
    BY <2>5, <2>9, <2>10 DEF Ended
  <2>12. Goal(d)
    BY <1>4, <2>2, <2>11
  <2>13. \A c \in Announced' : Goal(c)
    BY <2>8, <2>12
  <2> QED BY <2>13 DEF LateInv
<1> QED BY <1>8, <1>9, <1>10, WhoEvents

\* Who works for a connection and what is late, as long as nothing is used again.
WorkInv == FirstUse => TiesInv /\ PartsInv /\ LateInv

\* At first no connection is tied and none is announced.
LEMMA InitWork ==
  ASSUME Init
  PROVE  WorkInv
<1>1. /\ \A c \in Conns : conn[c].poSocket = NULL /\ conn[c].eventNet = <<>> /\ conn[c].session = NULL
      /\ NULL \notin Conns
  BY NetAssumption DEF Init
<1>2. Linked = {} /\ Announced = {}
  BY <1>1 DEF Init, Linked, Announced
<1>3. At("acceptor", "setconn") = FALSE
  BY DEF Init, At, Step, Threads
<1>4. TiesInv
  BY <1>1, <1>2, <1>3 DEF TiesInv
<1>5. PartsInv
  <2>1. ASSUME NEW t \in EpollThreads PROVE todo[t] = <<>> /\ epEvent[t] = NoThread
    BY NetAssumption DEF Init, Threads
  <2>2. \A f \in Fds, t \in EpollThreads : watched[f].thread # t
    BY NetAssumption DEF Init, NoWatch
  <2> QED BY <2>1, <2>2 DEF PartsInv, IsCall
<1>6. LateInv
  BY <1>2 DEF LateInv
<1> QED BY <1>4, <1>5, <1>6 DEF WorkInv

\* A step of the program keeps it.
LEMMA NextWork ==
  ASSUME IInv, IInv', FirstInv, WorkInv, [Next]_vars
  PROVE  WorkInv'
<1>1. SUFFICES ASSUME FirstUse' PROVE TiesInv' /\ PartsInv' /\ LateInv'
  BY DEF WorkInv
<1>2. FirstUse
  <2>1. /\ accepted \in Nat /\ Cardinality(Conns) \in Nat /\ Cardinality(Socks) \in Nat
    BY NetAssumption, FS_CardinalityType DEF IInv, DataInv, KernelInv
  <2>2. accepted' \in {accepted, accepted + 1}
    BY <2>1, AcceptedGrows
  <2> QED BY <1>1, <2>1, <2>2 DEF FirstUse
<1>3. KnownInv /\ IntactInv /\ CloseInv /\ TiesInv /\ PartsInv /\ LateInv
  BY <1>2 DEF FirstInv, EventsInv, WorkInv
<1> QED BY <1>1, <1>3, TiesNext, PartsNext, LateNext

\* So one epoll thread works for a connection, and with the main thread it makes at most one
\* event late.
THEOREM WorkInvariance == Spec => []WorkInv
<1>1. Init => IInv /\ FirstInv /\ WorkInv
  BY InitIInv, InitFirst, InitWork
<1>2. IInv /\ FirstInv /\ WorkInv /\ [Next]_vars => IInv' /\ FirstInv' /\ WorkInv'
  BY NextIInv, NextFirst, NextWork
<1> QED BY <1>1, <1>2, PTL DEF Spec

\* As long as nothing is handed out again, at most one event stands behind CLOSE in m_eventNet:
\* m_bClose is tested before the event is pushed, so a thread that was let through pushes it
\* behind the CLOSE, but only the epoll thread of the socket and the main thread push.
THEOREM OneLateEvent == Spec => [](FirstUse => AtMostOneLateEvent)
<1>1. ASSUME IInv, WorkInv, FirstUse PROVE AtMostOneLateEvent
  <2>1. SUFFICES ASSUME NEW c \in Conns PROVE LateEvents(c) <= 1
    BY DEF AtMostOneLateEvent
  <2>2. conn[c].eventNet \in Seq(ENetEvtType)
    BY <1>1 DEF IInv, DataInv, ConnInv
  <2>3. LateEvents(c) = Late(Hears(c), conn[c].eventNet)
    BY DEF LateEvents, Late, Behind
  <2>4. PICK l \in Nat : /\ l = Late(Hears(c), conn[c].eventNet)
                         /\ ~Ended(c) => l = 0
    BY <2>2, LateType DEF Ended
  <2>5. CASE c \in Announced
    <3>1. IsFiniteSet(NetPushers(c)) /\ Cardinality(NetPushers(c)) \in Nat
      BY ThreadsAreFinite, FS_Subset, FS_CardinalityType DEF NetPushers, PushersAt
    <3>2. l + (IF Ended(c) THEN Cardinality(NetPushers(c)) ELSE 0) <= 1
      BY <1>1, <2>4, <2>5 DEF WorkInv, LateInv
    <3> QED BY <2>3, <2>4, <3>1, <3>2
  <2>6. CASE c \notin Announced
    <3>1. conn[c].eventNet = <<>> /\ Hears(c) = {}
      BY <2>6 DEF Announced, Hears
    <3>2. ~HasClose(<<>>)
      BY DEF HasClose
    <3>3. ~Ended(c)
      BY <3>1, <3>2 DEF Ended, Ends
    <3> QED BY <2>3, <2>4, <3>3
  <2> QED BY <2>5, <2>6
<1> QED BY <1>1, Invariance, WorkInvariance, PTL

================================================================================
