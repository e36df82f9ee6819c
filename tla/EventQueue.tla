------------------------------ MODULE EventQueue -------------------------------
(***************************************************************************)
(* TEventQueue<T> (common/eventqueue.h): the circular queue between the    *)
(* threads that produce network events and the one thread that runs        *)
(* FxNetModule::Run.  PushBack holds m_oLock; PopFront takes no lock, so   *)
(* the two run concurrently and each reads the other's cursor while it     *)
(* moves.  One action is one access to a variable the other side can see;  *)
(* int loads and stores are atomic on the target and stay in order.        *)
(*                                                                         *)
(* The increment and the reset of a cursor are two steps.  The Makefile's  *)
(* build (g++ -g, no optimisation) stores the cursor in both, so the other *)
(* side can see the value m_nSize; an optimised build stores it once, and  *)
(* then no PopFront reads m_nInCursor between the two: StoresTwice tells   *)
(* the builds apart.  (m_nOutCursor = m_nSize is always allowed to be seen: *)
(* PushBack computes the same room from m_nSize as from 0.)                *)
(***************************************************************************)
EXTENDS Naturals, Sequences

CONSTANTS
  Producers,    \* the threads that call PushBack
  Items,        \* the values of T
  Size,         \* m_nSize, the argument of Init
  StoresTwice,  \* ++m_nInCursor is visible before the reset to 0
  NoItem,       \* the content of a slot nothing was stored in
  NoThread      \* the value of lock when m_oLock is free

ASSUME QueueAssumption ==
  /\ Size \in Nat \ {0}
  /\ StoresTwice \in BOOLEAN
  /\ NoItem \notin Items
  /\ NoThread \notin Producers

VARIABLES
  slots,        \* m_poArrayT
  inCursor,     \* m_nInCursor
  outCursor,    \* m_nOutCursor
  lock,         \* the owner of m_oLock
  ppc,          \* where each producer is in PushBack
  item,         \* the argument ot of each producer's PushBack
  cpc,          \* where the consumer is in PopFront
  ptr           \* the slot PopFront returns a pointer to

vars == <<slots, inCursor, outCursor, lock, ppc, item, cpc, ptr>>

--------------------------------------------------------------------------------

\* nSize of PushBack and PopFront: how many items lie between the cursors.
Distance(out, in) ==
  LET n == in + Size - out
  IN  IF n >= Size THEN n - Size ELSE n

\* Mutant of Wrapped: > for >=.
WrappedLate(cursor) == IF cursor > Size THEN cursor - Size ELSE cursor

\* The reset that ends both operations: a cursor that reached m_nSize becomes 0.
Wrapped(cursor) == IF cursor >= Size THEN cursor - Size ELSE cursor

--------------------------------------------------------------------------------
(* PushBack                                                                 *)

\* The call, up to the moment m_oLock is acquired.
AcquireLock(p, v) ==
  /\ ppc[p] = "idle"
  /\ lock = NoThread
  /\ lock' = p
  /\ item' = [item EXCEPT ![p] = v]
  /\ ppc' = [ppc EXCEPT ![p] = "measure"]
  /\ UNCHANGED <<slots, inCursor, outCursor, cpc, ptr>>

\* Mutant of MeasureRoom: no slot stays free.
MeasureAllRoom(p) ==
  /\ ppc[p] = "measure"
  /\ ppc' = [ppc EXCEPT ![p] =
               IF Size <= Distance(outCursor, inCursor) THEN "full" ELSE "store"]
  /\ UNCHANGED <<slots, inCursor, outCursor, lock, item, cpc, ptr>>

\* One slot always stays free: the queue is full with Size - 1 items.
MeasureRoom(p) ==
  /\ ppc[p] = "measure"
  /\ ppc' = [ppc EXCEPT ![p] =
               IF Size - 1 <= Distance(outCursor, inCursor) THEN "full" ELSE "store"]
  /\ UNCHANGED <<slots, inCursor, outCursor, lock, item, cpc, ptr>>

StoreItem(p) ==
  /\ ppc[p] = "store"
  /\ slots' = [slots EXCEPT ![inCursor] = item[p]]
  /\ ppc' = [ppc EXCEPT ![p] = "advance"]
  /\ UNCHANGED <<inCursor, outCursor, lock, item, cpc, ptr>>

AdvanceIn(p) ==
  /\ ppc[p] = "advance"
  /\ inCursor' = inCursor + 1
  /\ ppc' = [ppc EXCEPT ![p] = "wrap"]
  /\ UNCHANGED <<slots, outCursor, lock, item, cpc, ptr>>

WrapIn(p) ==
  /\ ppc[p] = "wrap"
  /\ inCursor' = Wrapped(inCursor)
  /\ ppc' = [ppc EXCEPT ![p] = "stored"]
  /\ UNCHANGED <<slots, outCursor, lock, item, cpc, ptr>>

\* Unlock; PushBack returns true after "stored" and false after "full".
ReleaseLock(p) ==
  /\ ppc[p] \in {"stored", "full"}
  /\ lock' = NoThread
  /\ ppc' = [ppc EXCEPT ![p] = "idle"]
  /\ UNCHANGED <<slots, inCursor, outCursor, item, cpc, ptr>>

--------------------------------------------------------------------------------
(* PopFront.  From "held" the consumer reads through ptr until it calls     *)
(* PopFront again.                                                          *)

\* Mutant of MeasureItems: the last item is taken for none.
MeasureOneLess ==
  /\ cpc \in {"idle", "held"}
  /\ StoresTwice \/ \A p \in Producers : ppc[p] # "wrap"
  /\ cpc' = IF Distance(outCursor, inCursor) <= 1 THEN "empty" ELSE "take"
  /\ UNCHANGED <<slots, inCursor, outCursor, lock, ppc, item, ptr>>

MeasureItems ==
  /\ cpc \in {"idle", "held"}
  /\ StoresTwice \/ \A p \in Producers : ppc[p] # "wrap"
  /\ cpc' = IF Distance(outCursor, inCursor) = 0 THEN "empty" ELSE "take"
  /\ UNCHANGED <<slots, inCursor, outCursor, lock, ppc, item, ptr>>

ReturnNull ==
  /\ cpc = "empty"
  /\ cpc' = "idle"
  /\ UNCHANGED <<slots, inCursor, outCursor, lock, ppc, item, ptr>>

\* Mutant of TakePointer: the slot behind the cursor.
TakeNextPointer ==
  /\ cpc = "take"
  /\ ptr' = Wrapped(outCursor + 1)
  /\ cpc' = "advance"
  /\ UNCHANGED <<slots, inCursor, outCursor, lock, ppc, item>>

TakePointer ==
  /\ cpc = "take"
  /\ ptr' = outCursor
  /\ cpc' = "advance"
  /\ UNCHANGED <<slots, inCursor, outCursor, lock, ppc, item>>

AdvanceOut ==
  /\ cpc = "advance"
  /\ outCursor' = outCursor + 1
  /\ cpc' = "wrap"
  /\ UNCHANGED <<slots, inCursor, lock, ppc, item, ptr>>

WrapOut ==
  /\ cpc = "wrap"
  /\ outCursor' = Wrapped(outCursor)
  /\ cpc' = "held"
  /\ UNCHANGED <<slots, inCursor, lock, ppc, item, ptr>>

--------------------------------------------------------------------------------

\* The constructor followed by Init(Size): both cursors at 0.
Init ==
  /\ slots = [k \in 0 .. Size - 1 |-> NoItem]
  /\ inCursor = 0
  /\ outCursor = 0
  /\ lock = NoThread
  /\ ppc = [p \in Producers |-> "idle"]
  /\ item = [p \in Producers |-> NoItem]
  /\ cpc = "idle"
  /\ ptr = 0

PushBack(p) ==
  \/ \E v \in Items : AcquireLock(p, v)
  \/ MeasureRoom(p)
  \/ StoreItem(p)
  \/ AdvanceIn(p)
  \/ WrapIn(p)
  \/ ReleaseLock(p)

PopFront ==
  \/ MeasureItems
  \/ ReturnNull
  \/ TakePointer
  \/ AdvanceOut
  \/ WrapOut

Next == PopFront \/ \E p \in Producers : PushBack(p)

Spec == Init /\ [][Next]_vars

\* The thread of FxNetModule::Run polls the queue for ever (testmain.cpp:110).
\* Of the producers nothing is assumed but that the two steps of one store are
\* not kept apart: one may stop for ever while it holds m_oLock.
FairSpec ==
  /\ Spec
  /\ WF_vars(PopFront)
  /\ \A p \in Producers : WF_vars(WrapIn(p))

--------------------------------------------------------------------------------
(* Properties                                                               *)

InPush == {"measure", "store", "advance", "wrap", "stored", "full"}

\* The cursors, the slots and the program counters have their types.  A cursor
\* takes the value m_nSize between ++ and the reset, but never when it indexes
\* m_poArrayT, in whatever build.
TypeOK ==
  /\ slots \in [0 .. Size - 1 -> Items \cup {NoItem}]
  /\ inCursor \in 0 .. Size
  /\ outCursor \in 0 .. Size
  /\ lock \in Producers \cup {NoThread}
  /\ ppc \in [Producers -> InPush \cup {"idle"}]
  /\ item \in [Producers -> Items \cup {NoItem}]
  /\ cpc \in {"idle", "empty", "take", "advance", "wrap", "held"}
  /\ ptr \in 0 .. Size - 1
  /\ \A p \in Producers : ppc[p] \in {"store", "advance"} => inCursor < Size
  /\ cpc = "take" => outCursor < Size

\* The queue the cursors delimit, read off the array; a cursor about to be reset
\* counts as 0.
Count == Distance(Wrapped(outCursor), Wrapped(inCursor))
SlotOf(i) == Wrapped(Wrapped(outCursor) + i - 1)
Contents == [i \in 1 .. Count |-> slots[SlotOf(i)]]

\* PopFront has moved m_nOutCursor and its caller reads through the pointer.
Holding == cpc \in {"wrap", "held"}

Reply(p) ==
  IF ppc[p] \in {"wrap", "stored"} THEN "ok"
  ELSE IF ppc[p] = "full" THEN "full" ELSE "none"

\* The queue implements BoundedFifo with capacity m_nSize - 1, although
\* PopFront takes no lock (the claim of eventqueue.h:83-88): no item is lost,
\* duplicated or reordered, a push is refused only when the queue is full, a
\* pop returns NULL only when it is empty, and the slot PopFront returned is
\* not overwritten while its caller reads it.
Fifo ==
  INSTANCE BoundedFifo WITH
    Capacity <- Size - 1,
    queue    <- Contents,
    held     <- IF Holding THEN slots[ptr] ELSE NoItem,
    reply    <- [p \in Producers |-> Reply(p)],
    sawEmpty <- (cpc = "empty")

FifoSpec == Fifo!Spec

\* A producer about to write writes neither a slot that holds a queued item
\* nor the slot whose pointer the consumer was given.
StoreIsPrivate ==
  \A p \in Producers : ppc[p] = "store" =>
    /\ \A i \in DOMAIN Contents : SlotOf(i) # inCursor
    /\ Holding => ptr # inCursor

\* Whatever the producers do, stop for ever inside PushBack included, an item
\* that is in the queue reaches the consumer.
EveryItemIsTaken ==
  \A v \in Items :
    (\E i \in DOMAIN Contents : Contents[i] = v) ~> (Holding /\ slots[ptr] = v)

================================================================================
