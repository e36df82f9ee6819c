------------------------------ MODULE MCNetEvents ------------------------------
(***************************************************************************)
(* NetEvents with small pools and one epoll thread.  A closed connection   *)
(* goes to the back of the pool's free list, so that a pool of one         *)
(* connection stands for one whose other connections are in use.           *)
(***************************************************************************)
EXTENDS NetEvents, TLC

CONSTANTS c1, c2, s1, s2, e1

MCOneConn == {c1}
MCTwoConns == {c1, c2}
MCOneSock == {s1}
MCTwoSocks == {s1, s2}
MCEpollThreads == {e1}
================================================================================
