------------------------------ MODULE BoundedFifo ------------------------------
(***************************************************************************)
(* What TEventQueue (common/eventqueue.h) promises to its callers: a       *)
(* first-in first-out queue of at most Capacity items, fed by any number   *)
(* of producers and emptied by one consumer.  A push either appends the    *)
(* item or is refused because the queue is full; a pop either takes the    *)
(* oldest item or finds the queue empty.  The item taken stays valid in    *)
(* the consumer's hands (PopFront returns a pointer, not a copy) until the *)
(* consumer pops again.                                                    *)
(***************************************************************************)
EXTENDS Naturals, Sequences

CONSTANTS Producers, Items, Capacity, NoItem

VARIABLES
  queue,      \* the items pushed and not yet taken, oldest first
  held,       \* the item the consumer took last and may still read
  reply,      \* what the push in progress of each producer will return
  sawEmpty    \* the pop in progress will return NULL

fifoVars == <<queue, held, reply, sawEmpty>>

Init ==
  /\ queue = <<>>
  /\ held = NoItem
  /\ reply = [p \in Producers |-> "none"]
  /\ sawEmpty = FALSE

Push(p, v) ==
  /\ reply[p] = "none"
  /\ Len(queue) < Capacity
  /\ queue' = Append(queue, v)
  /\ reply' = [reply EXCEPT ![p] = "ok"]
  /\ UNCHANGED <<held, sawEmpty>>

Refuse(p) ==
  /\ reply[p] = "none"
  /\ Len(queue) = Capacity
  /\ reply' = [reply EXCEPT ![p] = "full"]
  /\ UNCHANGED <<queue, held, sawEmpty>>

PushReturns(p) ==
  /\ reply[p] # "none"
  /\ reply' = [reply EXCEPT ![p] = "none"]
  /\ UNCHANGED <<queue, held, sawEmpty>>

\* The consumer is done with the item it held.
LetGo ==
  /\ held # NoItem
  /\ held' = NoItem
  /\ UNCHANGED <<queue, reply, sawEmpty>>

Pop ==
  /\ queue # <<>>
  /\ held = NoItem
  /\ held' = Head(queue)
  /\ queue' = Tail(queue)
  /\ UNCHANGED <<reply, sawEmpty>>

FindEmpty ==
  /\ queue = <<>>
  /\ held' = NoItem
  /\ sawEmpty' = TRUE
  /\ UNCHANGED <<queue, reply>>

PopReturnsNull ==
  /\ sawEmpty
  /\ sawEmpty' = FALSE
  /\ UNCHANGED <<queue, held, reply>>

Next ==
  \/ \E p \in Producers : \/ \E v \in Items : Push(p, v)
                          \/ Refuse(p)
                          \/ PushReturns(p)
  \/ LetGo
  \/ Pop
  \/ FindEmpty
  \/ PopReturnsNull

Spec == Init /\ [][Next]_fifoVars

================================================================================
