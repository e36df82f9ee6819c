---------------------------- MODULE EventQueueProofs ---------------------------
(***************************************************************************)
(* Proofs about EventQueue for any number of producers, any items, any     *)
(* size and either build.                                                  *)
(*                                                                         *)
(* The cursors index the array in every behaviour (TypeCorrect).  That the *)
(* queue is a FIFO is claimed of the behaviours in which PopFront is never *)
(* Caught, which is one reading of m_nInCursor: m_nSize, before its reset, *)
(* with m_nOutCursor at 0.  A build that stores a cursor once never shows  *)
(* that value (NeverCaughtBySingleStores); in the Makefile's build it is   *)
(* the one way to go wrong, and the run event_queue_makefile goes it.      *)
(***************************************************************************)
EXTENDS EventQueue, SequenceTheorems, TLAPS

\* The cursors as the inductive invariant sees them: only the thread between an
\* increment and its reset sees the value m_nSize.
CursorsInv ==
  /\ \A p \in Producers : ppc[p] = "wrap" => inCursor > 0
  /\ inCursor = Size => \E p \in Producers : ppc[p] = "wrap"
  /\ outCursor = Size => cpc = "wrap"

\* Who is inside PushBack owns the lock.
LockInv == \A p \in Producers : ppc[p] # "idle" <=> lock = p

\* What MeasureRoom established stays true until the cursor has moved: PopFront
\* only makes room.
ProducerInv ==
  \A p \in Producers :
    /\ ppc[p] \in InPush => item[p] \in Items
    /\ ppc[p] \in {"store", "advance"} => Count <= Size - 2
    /\ ppc[p] = "advance" => slots[inCursor] = item[p]

\* What MeasureItems established stays true until the cursor has moved: PushBack
\* only adds items.  The pointer that was returned is the slot just before
\* m_nOutCursor.
ConsumerInv ==
  /\ cpc \in {"take", "advance"} => Count >= 1
  /\ cpc = "advance" => ptr = outCursor
  /\ cpc = "wrap" => outCursor = ptr + 1
  /\ cpc = "held" => outCursor = Wrapped(ptr + 1)
  /\ Holding => slots[ptr] \in Items

\* Every slot between the cursors holds an item.
ContentsInv == \A i \in 1 .. Count : slots[SlotOf(i)] \in Items

IInv == TypeOK /\ CursorsInv /\ LockInv /\ ProducerInv /\ ConsumerInv /\ ContentsInv

\* The cursors between which PopFront computes the distance m_nSize, where the
\* queue is empty: m_nInCursor has not been reset and m_nOutCursor is at 0.
Caught == inCursor = Size /\ outCursor = 0

\* PopFront does not read the cursors then.
NeverCaught == [][MeasureItems => ~Caught]_vars

--------------------------------------------------------------------------------
(* The arithmetic of the cursors                                            *)

\* The distance is how many steps lead from one cursor to the other.
LEMMA DistanceFacts ==
  ASSUME NEW o \in 0 .. Size - 1, NEW n \in 0 .. Size - 1
  PROVE  /\ Distance(o, n) \in 0 .. Size - 1
         /\ n = Wrapped(o + Distance(o, n))
BY QueueAssumption, SMT DEF Distance, Wrapped

\* A cursor and its reset.
LEMMA WrappedFacts ==
  ASSUME NEW c \in 0 .. Size
  PROVE  /\ Wrapped(c) \in 0 .. Size - 1
         /\ Wrapped(Wrapped(c)) = Wrapped(c)
         /\ c < Size => Wrapped(c) = c
BY QueueAssumption, SMT DEF Wrapped

\* PushBack adds one item at the end when two places or more are free.
LEMMA AdvanceInFacts ==
  ASSUME NEW o \in 0 .. Size - 1, NEW n \in 0 .. Size - 1,
         Distance(o, n) <= Size - 2
  PROVE  Distance(o, Wrapped(n + 1)) = Distance(o, n) + 1
BY QueueAssumption, SMT DEF Distance, Wrapped

\* PopFront takes one item from the front when there is one.
LEMMA AdvanceOutFacts ==
  ASSUME NEW o \in 0 .. Size - 1, NEW n \in 0 .. Size - 1,
         Distance(o, n) >= 1
  PROVE  /\ Distance(Wrapped(o + 1), n) = Distance(o, n) - 1
         /\ \A i \in 1 .. Size - 1 :
              Wrapped(Wrapped(o + 1) + i - 1) = Wrapped(o + (i + 1) - 1)
BY QueueAssumption, SMT DEF Distance, Wrapped

\* The slots of the queued items are not the one PushBack stores in.
LEMMA SlotFacts ==
  ASSUME NEW o \in 0 .. Size - 1, NEW n \in 0 .. Size - 1
  PROVE  \A i \in 1 .. Distance(o, n) :
           /\ Wrapped(o + i - 1) \in 0 .. Size - 1
           /\ Wrapped(o + i - 1) # n
BY QueueAssumption, SMT DEF Distance, Wrapped

\* Nor is the slot just before m_nOutCursor, when two places or more are free.
LEMMA HeldSlotFacts ==
  ASSUME NEW k \in 0 .. Size - 1, NEW n \in 0 .. Size - 1,
         Distance(Wrapped(k + 1), n) <= Size - 2
  PROVE  k # n
BY QueueAssumption, SMT DEF Distance, Wrapped

\* PushBack and PopFront compute the right count although the other side may be
\* about to reset its cursor, unless it is Caught.
LEMMA RawCount ==
  ASSUME TypeOK
  PROVE  /\ ~Caught => Distance(outCursor, inCursor) = Count
         /\ Count \in 0 .. Size - 1
BY QueueAssumption, SMT DEF TypeOK, Caught, Count, Distance, Wrapped

--------------------------------------------------------------------------------
(* The cursors, in every build                                              *)

CursorsIInv == TypeOK /\ CursorsInv /\ LockInv

\* Every step keeps the cursors in the array, whatever PopFront has read.
LEMMA NextCursors == CursorsIInv /\ Next => CursorsIInv'
<1> USE QueueAssumption DEF CursorsIInv
<1>1. ASSUME CursorsIInv, NEW p \in Producers, NEW v \in Items, AcquireLock(p, v)
      PROVE  CursorsIInv'
  BY <1>1, SMT DEF AcquireLock, TypeOK, CursorsInv, LockInv, InPush
<1>2. ASSUME CursorsIInv, NEW p \in Producers, MeasureRoom(p)
      PROVE  CursorsIInv'
  <2>1. inCursor < Size
    BY <1>2, SMT DEF MeasureRoom, TypeOK, CursorsInv, LockInv
  <2> QED
    BY <1>2, <2>1, SMT DEF MeasureRoom, TypeOK, CursorsInv, LockInv, InPush
<1>3. ASSUME CursorsIInv, NEW p \in Producers, StoreItem(p)
      PROVE  CursorsIInv'
  BY <1>3, SMT DEF StoreItem, TypeOK, CursorsInv, LockInv, InPush
<1>4. ASSUME CursorsIInv, NEW p \in Producers, AdvanceIn(p)
      PROVE  CursorsIInv'
  <2>1. \A q \in Producers : ppc'[q] \notin {"store", "advance"}
    BY <1>4, SMT DEF AdvanceIn, TypeOK, LockInv
  <2> QED
    BY <1>4, <2>1, SMT DEF AdvanceIn, TypeOK, CursorsInv, LockInv, InPush
<1>5. ASSUME CursorsIInv, NEW p \in Producers, WrapIn(p)
      PROVE  CursorsIInv'
  <2>1. Wrapped(inCursor) \in 0 .. Size - 1
    BY <1>5, WrappedFacts DEF TypeOK
  <2> QED
    BY <1>5, <2>1, SMT DEF WrapIn, TypeOK, CursorsInv, LockInv, InPush
<1>6. ASSUME CursorsIInv, NEW p \in Producers, ReleaseLock(p)
      PROVE  CursorsIInv'
  BY <1>6, SMT DEF ReleaseLock, TypeOK, CursorsInv, LockInv, InPush
<1>7. ASSUME CursorsIInv, PopFront
      PROVE  CursorsIInv'
  <2>1. CASE WrapOut
    <3>1. Wrapped(outCursor) \in 0 .. Size - 1
      BY <1>7, WrappedFacts DEF TypeOK
    <3> QED
      BY <1>7, <2>1, <3>1, SMT DEF WrapOut, TypeOK, CursorsInv, LockInv
  <2>2. CASE MeasureItems
    BY <1>7, <2>2, SMT DEF MeasureItems, TypeOK, CursorsInv, LockInv
  <2>3. CASE ReturnNull
    BY <1>7, <2>3, SMT DEF ReturnNull, TypeOK, CursorsInv, LockInv
  <2>4. CASE TakePointer
    BY <1>7, <2>4, SMT DEF TakePointer, TypeOK, CursorsInv, LockInv
  <2>5. CASE AdvanceOut
    BY <1>7, <2>5, SMT DEF AdvanceOut, TypeOK, CursorsInv, LockInv
  <2> QED
    BY <1>7, <2>1, <2>2, <2>3, <2>4, <2>5 DEF PopFront
<1> QED
  BY <1>1, <1>2, <1>3, <1>4, <1>5, <1>6, <1>7 DEF Next, PushBack

\* A step of something else moves no cursor.
LEMMA StutterCursors == CursorsIInv /\ UNCHANGED vars => CursorsIInv'
BY DEF vars, CursorsIInv, TypeOK, CursorsInv, LockInv

\* A cursor indexes the array whenever PushBack or PopFront uses it as an index
\* (m_nSize is only seen between ++ and the reset), for any number of threads in
\* PushBack while PopFront runs without the lock, in every build.
THEOREM TypeCorrect == Spec => []TypeOK
<1>1. Init => CursorsIInv
  BY QueueAssumption, SMT DEF Init, CursorsIInv, TypeOK, CursorsInv, LockInv, InPush
<1>2. CursorsIInv /\ [Next]_vars => CursorsIInv'
  BY NextCursors, StutterCursors
<1>3. CursorsIInv => TypeOK
  BY DEF CursorsIInv
<1> QED
  BY <1>1, <1>2, <1>3, PTL DEF Spec

--------------------------------------------------------------------------------
(* The invariant                                                            *)

\* The invariant holds when Init has emptied the queue.
LEMMA InitIInv == Init => IInv
BY QueueAssumption, SMT
   DEF Init, IInv, TypeOK, CursorsInv, LockInv, ProducerInv, ConsumerInv, ContentsInv,
       Count, SlotOf, Distance, Wrapped, InPush, Holding

\* Each action of PushBack preserves the invariant.
LEMMA AcquireLockIInv ==
  ASSUME IInv, NEW p \in Producers, NEW v \in Items, AcquireLock(p, v)
  PROVE  IInv'
BY QueueAssumption, SMT
   DEF AcquireLock, IInv, TypeOK, CursorsInv, LockInv, ProducerInv, ConsumerInv,
       ContentsInv, Count, SlotOf, InPush, Holding

\* A producer that found room may rely on it, since it holds the lock.
LEMMA MeasureRoomIInv ==
  ASSUME IInv, NEW p \in Producers, MeasureRoom(p)
  PROVE  IInv'
<1>1. inCursor < Size
  BY QueueAssumption, SMT DEF MeasureRoom, IInv, TypeOK, CursorsInv, LockInv
<1>2. ppc'[p] = "store" => Count <= Size - 2
  BY <1>1, RawCount, QueueAssumption, SMT DEF MeasureRoom, IInv, TypeOK, Caught
<1> QED
  BY <1>2, QueueAssumption, SMT
     DEF MeasureRoom, IInv, TypeOK, CursorsInv, LockInv, ProducerInv, ConsumerInv,
         ContentsInv, Count, SlotOf, InPush, Holding

\* Where a producer is about to write.
LEMMA StoreSlot ==
  ASSUME IInv, NEW p \in Producers, ppc[p] = "store"
  PROVE  /\ inCursor \in 0 .. Size - 1
         /\ \A i \in 1 .. Count : SlotOf(i) \in 0 .. Size - 1 /\ SlotOf(i) # inCursor
         /\ Holding => ptr # inCursor
<1>1. inCursor \in 0 .. Size - 1
  BY QueueAssumption, SMT DEF IInv, TypeOK, CursorsInv, LockInv
<1>2. Wrapped(inCursor) = inCursor
  BY <1>1, WrappedFacts, QueueAssumption, SMT
<1>3. Wrapped(outCursor) \in 0 .. Size - 1
  BY WrappedFacts DEF IInv, TypeOK
<1>4. \A i \in 1 .. Count : SlotOf(i) \in 0 .. Size - 1 /\ SlotOf(i) # inCursor
  BY <1>1, <1>2, <1>3, SlotFacts DEF Count, SlotOf
<1>5. Holding => ptr # inCursor
  <2> SUFFICES ASSUME Holding PROVE ptr # inCursor
    OBVIOUS
  <2>1. ptr \in 0 .. Size - 1
    BY DEF IInv, TypeOK
  <2>2. Wrapped(outCursor) = Wrapped(ptr + 1)
    BY <2>1, WrappedFacts, QueueAssumption, SMT DEF IInv, ConsumerInv, Holding
  <2>3. Distance(Wrapped(ptr + 1), inCursor) <= Size - 2
    BY <1>2, <2>2 DEF IInv, ProducerInv, Count
  <2> QED
    BY <1>1, <2>1, <2>3, HeldSlotFacts
<1> QED
  BY <1>1, <1>4, <1>5

\* The store of the item hits a slot outside the queue.
LEMMA StoreItemIInv ==
  ASSUME IInv, NEW p \in Producers, StoreItem(p)
  PROVE  IInv' /\ Contents' = Contents /\ (Holding => slots'[ptr] = slots[ptr])
<1>1. /\ inCursor \in 0 .. Size - 1
      /\ \A i \in 1 .. Count : SlotOf(i) \in 0 .. Size - 1 /\ SlotOf(i) # inCursor
      /\ Holding => ptr # inCursor
  BY StoreSlot DEF StoreItem
<1>6. \A k \in 0 .. Size - 1 : k # inCursor => slots'[k] = slots[k]
  BY DEF StoreItem, IInv, TypeOK
<1>7. item[p] \in Items
  BY DEF StoreItem, IInv, ProducerInv, InPush
<1>8. TypeOK'
  BY <1>1, <1>7, SMT DEF StoreItem, IInv, TypeOK, InPush
<1>9. CursorsInv' /\ LockInv'
  BY <1>1, SMT DEF StoreItem, IInv, TypeOK, CursorsInv, LockInv
<1>10. ProducerInv'
  BY <1>1, <1>7, SMT DEF StoreItem, IInv, TypeOK, LockInv, ProducerInv, InPush, Count
<1>11. Holding => slots'[ptr] = slots[ptr]
  BY <1>1, <1>6 DEF IInv, TypeOK
<1>12. ConsumerInv'
  BY <1>11, SMT DEF StoreItem, IInv, ConsumerInv, Holding, Count
<1>13. \A i \in 1 .. Count : slots'[SlotOf(i)] = slots[SlotOf(i)]
  BY <1>1, <1>6
<1>14. ContentsInv' /\ Contents' = Contents
  BY <1>13 DEF StoreItem, IInv, ContentsInv, Contents, Count, SlotOf
<1> QED
  BY <1>8, <1>9, <1>10, <1>11, <1>12, <1>14 DEF IInv

\* While a producer is at "advance" the count is the number of items before it.
LEMMA AdvanceInCount ==
  ASSUME IInv, NEW p \in Producers, AdvanceIn(p)
  PROVE  /\ inCursor \in 0 .. Size - 1
         /\ Count' = Count + 1
         /\ SlotOf(Count + 1) = inCursor
<1>1. inCursor \in 0 .. Size - 1
  BY QueueAssumption, SMT DEF AdvanceIn, IInv, TypeOK, CursorsInv, LockInv
<1>2. Wrapped(inCursor) = inCursor
  BY <1>1, WrappedFacts, QueueAssumption, SMT
<1>3. Wrapped(outCursor) \in 0 .. Size - 1
  BY WrappedFacts DEF IInv, TypeOK
<1>4. Distance(Wrapped(outCursor), inCursor) <= Size - 2
  BY <1>2 DEF AdvanceIn, IInv, ProducerInv, Count
<1>5. Count' = Count + 1
  BY <1>1, <1>2, <1>3, <1>4, AdvanceInFacts DEF AdvanceIn, Count
<1>6. inCursor = Wrapped(Wrapped(outCursor) + Count)
  BY <1>1, <1>2, <1>3, DistanceFacts DEF Count
<1>7. Wrapped(outCursor) + (Count + 1) - 1 = Wrapped(outCursor) + Count
  BY <1>3, RawCount, QueueAssumption, SMT DEF IInv
<1> QED
  BY <1>1, <1>5, <1>6, <1>7 DEF SlotOf

\* The increment of m_nInCursor adds the stored item to the queue.
LEMMA AdvanceInIInv ==
  ASSUME IInv, NEW p \in Producers, AdvanceIn(p)
  PROVE  IInv'
<1>1. /\ inCursor \in 0 .. Size - 1
      /\ Count' = Count + 1
      /\ SlotOf(Count + 1) = inCursor
  BY AdvanceInCount
<1>2. Count \in Nat
  BY RawCount, QueueAssumption, SMT DEF IInv
<1>3. TypeOK' /\ CursorsInv' /\ LockInv'
  BY NextCursors DEF Next, PushBack, IInv, CursorsIInv
<1>4. ProducerInv'
  BY SMT DEF AdvanceIn, IInv, TypeOK, LockInv, ProducerInv, InPush
<1>5. ConsumerInv'
  BY <1>1, <1>2, SMT DEF AdvanceIn, IInv, ConsumerInv, Holding
<1>6. ContentsInv'
  <2>1. \A i : SlotOf(i)' = SlotOf(i)
    BY DEF AdvanceIn, SlotOf
  <2>2. slots[inCursor] \in Items
    BY DEF AdvanceIn, IInv, ProducerInv, InPush
  <2>3. \A i \in 1 .. Count + 1 : slots[SlotOf(i)] \in Items
    BY <1>1, <1>2, <2>2, SMT DEF IInv, ContentsInv
  <2> QED
    BY <1>1, <2>1, <2>3 DEF AdvanceIn, ContentsInv
<1> QED
  BY <1>3, <1>4, <1>5, <1>6 DEF IInv

\* The reset of m_nInCursor changes no slot and no count.
LEMMA WrapInIInv ==
  ASSUME IInv, NEW p \in Producers, WrapIn(p)
  PROVE  IInv' /\ Count' = Count
<1>1. Wrapped(inCursor) \in 0 .. Size - 1 /\ Wrapped(Wrapped(inCursor)) = Wrapped(inCursor)
  BY WrappedFacts DEF IInv, TypeOK
<1>2. Count' = Count
  BY <1>1 DEF WrapIn, Count
<1>3. TypeOK' /\ CursorsInv'
  BY <1>1, QueueAssumption, SMT DEF WrapIn, IInv, TypeOK, CursorsInv, LockInv, InPush
<1>4. LockInv' /\ ProducerInv'
  BY <1>2, SMT DEF WrapIn, IInv, TypeOK, LockInv, ProducerInv, InPush
<1>5. ConsumerInv' /\ ContentsInv'
  BY <1>2, SMT DEF WrapIn, IInv, ConsumerInv, ContentsInv, SlotOf, Holding
<1> QED
  BY <1>2, <1>3, <1>4, <1>5 DEF IInv

\* Leaving PushBack gives up the lock.
LEMMA ReleaseLockIInv ==
  ASSUME IInv, NEW p \in Producers, ReleaseLock(p)
  PROVE  IInv'
BY QueueAssumption, SMT
   DEF ReleaseLock, IInv, TypeOK, CursorsInv, LockInv, ProducerInv, ConsumerInv,
       ContentsInv, Count, SlotOf, InPush, Holding

\* Each action of PopFront preserves the invariant.
LEMMA MeasureItemsIInv ==
  ASSUME IInv, MeasureItems, ~Caught
  PROVE  IInv' /\ (cpc' = "empty" <=> Count = 0)
<1>1. Distance(outCursor, inCursor) = Count /\ Count \in 0 .. Size - 1
  BY RawCount DEF IInv
<1>2. TypeOK' /\ CursorsInv' /\ LockInv'
  BY NextCursors, StutterCursors DEF Next, PopFront, IInv, CursorsIInv
<1>3. ProducerInv' /\ ContentsInv'
  BY SMT DEF MeasureItems, IInv, TypeOK, ProducerInv, ContentsInv, Count, SlotOf
<1>4. ConsumerInv' /\ (cpc' = "empty" <=> Count = 0)
  BY <1>1, SMT DEF MeasureItems, IInv, ConsumerInv, Holding, Count
<1> QED
  BY <1>2, <1>3, <1>4 DEF IInv

\* A PopFront that found nothing changes nothing shared.
LEMMA ReturnNullIInv ==
  ASSUME IInv, ReturnNull
  PROVE  IInv'
BY QueueAssumption, SMT
   DEF ReturnNull, IInv, TypeOK, CursorsInv, LockInv, ProducerInv, ConsumerInv,
       ContentsInv, Count, SlotOf, Holding

\* The consumer's pointer is the front of the queue.
LEMMA TakePointerIInv ==
  ASSUME IInv, TakePointer
  PROVE  IInv'
BY QueueAssumption, SMT
   DEF TakePointer, IInv, TypeOK, CursorsInv, LockInv, ProducerInv, ConsumerInv,
       ContentsInv, Count, SlotOf, Holding

\* AdvanceOut takes the first item off the queue, and that is the one at ptr.
LEMMA AdvanceOutCount ==
  ASSUME IInv, AdvanceOut
  PROVE  /\ outCursor \in 0 .. Size - 1
         /\ Count >= 1
         /\ Count' = Count - 1
         /\ ptr = SlotOf(1)
         /\ \A i \in 1 .. Size - 1 : SlotOf(i)' = SlotOf(i + 1)
<1>1. outCursor \in 0 .. Size - 1
  BY QueueAssumption, SMT DEF AdvanceOut, IInv, TypeOK, CursorsInv
<1>2. Wrapped(outCursor) = outCursor
  BY <1>1, WrappedFacts, QueueAssumption, SMT
<1>3. Wrapped(inCursor) \in 0 .. Size - 1
  BY WrappedFacts DEF IInv, TypeOK
<1>4. Count >= 1
  BY DEF AdvanceOut, IInv, ConsumerInv
<1>5. ptr = SlotOf(1)
  BY <1>1, <1>2, QueueAssumption, SMT DEF AdvanceOut, IInv, ConsumerInv, SlotOf
<1>6. /\ Distance(Wrapped(outCursor + 1), Wrapped(inCursor)) = Count - 1
      /\ \A i \in 1 .. Size - 1 :
           Wrapped(Wrapped(outCursor + 1) + i - 1) = Wrapped(outCursor + (i + 1) - 1)
  BY <1>1, <1>2, <1>3, <1>4, AdvanceOutFacts DEF Count
<1>7. Count' = Count - 1
  BY <1>6 DEF AdvanceOut, Count
<1>8. \A i \in 1 .. Size - 1 : SlotOf(i)' = SlotOf(i + 1)
  BY <1>2, <1>6 DEF AdvanceOut, SlotOf
<1> QED
  BY <1>1, <1>4, <1>5, <1>7, <1>8

\* The increment of m_nOutCursor takes the front item off the queue.
LEMMA AdvanceOutIInv ==
  ASSUME IInv, AdvanceOut
  PROVE  IInv'
<1>1. /\ outCursor \in 0 .. Size - 1
      /\ Count >= 1
      /\ Count' = Count - 1
      /\ ptr = SlotOf(1)
      /\ \A i \in 1 .. Size - 1 : SlotOf(i)' = SlotOf(i + 1)
  BY AdvanceOutCount
<1>2. Count \in 0 .. Size - 1
  BY RawCount DEF IInv
<1>3. TypeOK' /\ CursorsInv' /\ LockInv'
  BY <1>1, QueueAssumption, SMT DEF AdvanceOut, IInv, TypeOK, CursorsInv, LockInv
<1>4. ProducerInv'
  BY <1>1, <1>2, QueueAssumption, SMT DEF AdvanceOut, IInv, TypeOK, ProducerInv
<1>5. slots[SlotOf(1)] \in Items
  BY <1>1, <1>2, QueueAssumption, SMT DEF IInv, ContentsInv
<1>6. ConsumerInv'
  BY <1>1, <1>5, SMT DEF AdvanceOut, IInv, ConsumerInv, Holding
<1>7. ContentsInv'
  <2> SUFFICES ASSUME NEW i \in 1 .. Count' PROVE slots'[SlotOf(i)'] \in Items
    BY DEF ContentsInv
  <2>1. i \in 1 .. Size - 1 /\ i + 1 \in 1 .. Count
    BY <1>1, <1>2, QueueAssumption, SMT
  <2>2. slots[SlotOf(i + 1)] \in Items
    BY <2>1 DEF IInv, ContentsInv
  <2> QED
    BY <1>1, <2>1, <2>2 DEF AdvanceOut
<1> QED
  BY <1>3, <1>4, <1>6, <1>7 DEF IInv

\* The reset of m_nOutCursor changes no slot and no count.
LEMMA WrapOutIInv ==
  ASSUME IInv, WrapOut
  PROVE  IInv' /\ Count' = Count /\ \A i : SlotOf(i)' = SlotOf(i)
<1>1. Wrapped(outCursor) \in 0 .. Size - 1 /\ Wrapped(Wrapped(outCursor)) = Wrapped(outCursor)
  BY WrappedFacts DEF IInv, TypeOK
<1>2. Count' = Count /\ \A i : SlotOf(i)' = SlotOf(i)
  BY <1>1 DEF WrapOut, Count, SlotOf
<1>3. TypeOK' /\ CursorsInv' /\ LockInv'
  BY <1>1, QueueAssumption, SMT DEF WrapOut, IInv, TypeOK, CursorsInv, LockInv
<1>4. ProducerInv'
  BY <1>2, SMT DEF WrapOut, IInv, ProducerInv
<1>5. ConsumerInv'
  BY <1>2, SMT DEF WrapOut, IInv, ConsumerInv, Holding
<1>6. ContentsInv'
  BY <1>2 DEF WrapOut, IInv, ContentsInv
<1> QED
  BY <1>2, <1>3, <1>4, <1>5, <1>6 DEF IInv

\* A step of something else changes nothing.
LEMMA StutterIInv == IInv /\ UNCHANGED vars => IInv'
BY DEF vars, IInv, TypeOK, CursorsInv, LockInv, ProducerInv, ConsumerInv, ContentsInv,
       Count, SlotOf, Holding

\* Every step preserves the invariant.
LEMMA NextIInv == IInv /\ [Next]_vars /\ [MeasureItems => ~Caught]_vars => IInv'
<1> SUFFICES ASSUME IInv, [Next]_vars, [MeasureItems => ~Caught]_vars PROVE IInv'
  OBVIOUS
<1>1. CASE UNCHANGED vars
  BY <1>1, StutterIInv
<1>2. CASE PopFront
  BY <1>2, MeasureItemsIInv, ReturnNullIInv, TakePointerIInv, AdvanceOutIInv, WrapOutIInv,
     StutterIInv DEF PopFront
<1>3. ASSUME NEW p \in Producers, PushBack(p) PROVE IInv'
  BY <1>3, AcquireLockIInv, MeasureRoomIInv, StoreItemIInv, AdvanceInIInv, WrapInIInv,
     ReleaseLockIInv DEF PushBack
<1> QED
  BY <1>1, <1>2, <1>3 DEF Next

\* The inductive invariant holds in every state TEventQueue reaches without
\* being Caught.
THEOREM Invariance == Spec /\ NeverCaught => []IInv
<1>1. Init => IInv
  BY InitIInv
<1>2. IInv /\ [Next]_vars /\ [MeasureItems => ~Caught]_vars => IInv'
  BY NextIInv
<1> QED
  BY <1>1, <1>2, PTL DEF Spec, NeverCaught

\* A build that stores a cursor once shows PopFront no m_nInCursor = m_nSize: for
\* it the theorems about the FIFO hold of every behaviour.
THEOREM NeverCaughtBySingleStores ==
  ASSUME ~StoresTwice
  PROVE  Spec => NeverCaught
<1>1. Init => CursorsIInv
  BY InitIInv DEF IInv, CursorsIInv
<1>2. CursorsIInv /\ [Next]_vars => CursorsIInv'
  BY NextCursors, StutterCursors
<1>3. CursorsIInv => [MeasureItems => ~Caught]_vars
  BY QueueAssumption, SMT DEF CursorsIInv, CursorsInv, MeasureItems, Caught
<1> QED
  BY <1>1, <1>2, <1>3, PTL DEF Spec, NeverCaught

\* A store of PushBack touches neither a queued item nor the item the consumer
\* is reading through the pointer PopFront returned, unless PopFront was Caught.
THEOREM StorePrivacy == Spec /\ NeverCaught => []StoreIsPrivate
<1>1. IInv => StoreIsPrivate
  <2> SUFFICES ASSUME IInv, NEW p \in Producers, ppc[p] = "store"
               PROVE  /\ \A i \in DOMAIN Contents : SlotOf(i) # inCursor
                      /\ Holding => ptr # inCursor
    BY DEF StoreIsPrivate
  <2>1. DOMAIN Contents = 1 .. Count
    BY DEF Contents
  <2> QED
    BY <2>1, StoreSlot
<1> QED
  BY <1>1, Invariance, PTL

--------------------------------------------------------------------------------
(* The queue implements BoundedFifo                                         *)

\* The queue is a sequence of items of length Count.
LEMMA ContentsIsSeq ==
  ASSUME IInv
  PROVE  /\ Count \in 0 .. Size - 1
         /\ Contents \in Seq(Items)
         /\ Len(Contents) = Count
         /\ \A i \in 1 .. Count : Contents[i] = slots[SlotOf(i)]
<1>1. Count \in 0 .. Size - 1
  BY RawCount DEF IInv
<1>2. Contents \in [1 .. Count -> Items]
  BY DEF IInv, ContentsInv, Contents
<1> QED
  BY <1>1, <1>2, QueueAssumption, SMT DEF Contents

\* The empty queue is the empty FIFO.
LEMMA InitRefines == Init => Fifo!Init
<1> SUFFICES ASSUME Init PROVE Fifo!Init
  OBVIOUS
<1>1. Count = 0
  BY QueueAssumption, SMT DEF Init, Count, Distance, Wrapped
<1>2. Contents = <<>>
  BY <1>1, SMT DEF Contents
<1>3. ~Holding /\ cpc = "idle" /\ \A p \in Producers : Reply(p) = "none"
  BY DEF Init, Holding, Reply
<1> QED
  BY <1>2, <1>3 DEF Fifo!Init

\* What a step leaves alone of the mapped state.
LEMMA SameSlots ==
  ASSUME Count' = Count, \A i \in 1 .. Count : SlotOf(i)' = SlotOf(i), slots' = slots
  PROVE  Contents' = Contents
BY DEF Contents

\* Taking the lock is a stutter of the FIFO.
LEMMA AcquireLockRefines ==
  ASSUME IInv, NEW p \in Producers, NEW v \in Items, AcquireLock(p, v)
  PROVE  UNCHANGED Fifo!fifoVars
<1>1. Contents' = Contents
  BY DEF AcquireLock, Contents, Count, SlotOf
<1>2. \A q \in Producers : Reply(q)' = Reply(q)
  BY DEF AcquireLock, IInv, TypeOK, Reply
<1> QED
  BY <1>1, <1>2 DEF AcquireLock, Fifo!fifoVars, Holding

\* Finding no room is the FIFO's refusal; finding room is a stutter.
LEMMA MeasureRoomRefines ==
  ASSUME IInv, NEW p \in Producers, MeasureRoom(p)
  PROVE  Fifo!Refuse(p) \/ UNCHANGED Fifo!fifoVars
<1>1. Contents' = Contents
  BY DEF MeasureRoom, Contents, Count, SlotOf
<1>2. CASE ppc'[p] = "full"
  <2>1. inCursor < Size
    BY QueueAssumption, SMT DEF MeasureRoom, IInv, TypeOK, CursorsInv, LockInv
  <2>2. Len(Contents) = Size - 1
    BY <1>2, <2>1, RawCount, ContentsIsSeq, QueueAssumption, SMT
       DEF MeasureRoom, IInv, TypeOK, Caught
  <2>3. Reply(p) = "none"
    BY DEF MeasureRoom, Reply
  <2>4. [q \in Producers |-> Reply(q)]' = [[q \in Producers |-> Reply(q)] EXCEPT ![p] = "full"]
    BY <1>2 DEF MeasureRoom, IInv, TypeOK, Reply
  <2> QED
    BY <1>1, <2>2, <2>3, <2>4 DEF MeasureRoom, Fifo!Refuse, Holding
<1>3. CASE ppc'[p] = "store"
  <2>1. \A q \in Producers : Reply(q)' = Reply(q)
    BY <1>3 DEF MeasureRoom, IInv, TypeOK, Reply
  <2> QED
    BY <1>1, <2>1 DEF MeasureRoom, Fifo!fifoVars, Holding
<1> QED
  BY <1>2, <1>3 DEF MeasureRoom, IInv, TypeOK

\* The store is a stutter: the item is not in the queue yet.
LEMMA StoreItemRefines ==
  ASSUME IInv, NEW p \in Producers, StoreItem(p)
  PROVE  UNCHANGED Fifo!fifoVars
<1>1. Contents' = Contents /\ (Holding => slots'[ptr] = slots[ptr])
  BY StoreItemIInv
<1>2. \A q \in Producers : Reply(q)' = Reply(q)
  BY DEF StoreItem, IInv, TypeOK, Reply
<1>3. (IF Holding THEN slots[ptr] ELSE NoItem)' = IF Holding THEN slots[ptr] ELSE NoItem
  BY <1>1 DEF StoreItem, Holding
<1> QED
  BY <1>1, <1>2, <1>3 DEF StoreItem, Fifo!fifoVars

\* The increment of m_nInCursor is the FIFO's push.
LEMMA AdvanceInRefines ==
  ASSUME IInv, NEW p \in Producers, AdvanceIn(p)
  PROVE  Fifo!Push(p, item[p])
<1>1. /\ Count' = Count + 1
      /\ SlotOf(Count + 1) = inCursor
  BY AdvanceInCount
<1>2. /\ Count \in 0 .. Size - 1
      /\ Contents \in Seq(Items)
      /\ Len(Contents) = Count
      /\ \A i \in 1 .. Count : Contents[i] = slots[SlotOf(i)]
  BY ContentsIsSeq
<1>3. Count <= Size - 2 /\ item[p] \in Items /\ slots[inCursor] = item[p]
  BY DEF AdvanceIn, IInv, ProducerInv, InPush
<1>4. Contents' = Append(Contents, item[p])
  <2>1. Contents' = [i \in 1 .. Count + 1 |-> slots[SlotOf(i)]]
    BY <1>1 DEF AdvanceIn, Contents, SlotOf
  <2>2. Append(Contents, item[p]) =
          [i \in 1 .. Count + 1 |-> IF i = Count + 1 THEN item[p] ELSE Contents[i]]
    BY <1>2, <1>3, SMT
  <2>3. \A i \in 1 .. Count + 1 :
          slots[SlotOf(i)] = IF i = Count + 1 THEN item[p] ELSE Contents[i]
    BY <1>1, <1>2, <1>3, SMT
  <2> QED
    BY <2>1, <2>2, <2>3
<1>5. Reply(p) = "none"
  BY DEF AdvanceIn, Reply
<1>6. [q \in Producers |-> Reply(q)]' = [[q \in Producers |-> Reply(q)] EXCEPT ![p] = "ok"]
  BY DEF AdvanceIn, IInv, TypeOK, Reply
<1>7. Len(Contents) < Size - 1
  BY <1>2, <1>3, QueueAssumption, SMT
<1> QED
  BY <1>4, <1>5, <1>6, <1>7 DEF AdvanceIn, Fifo!Push, Holding

\* The reset of m_nInCursor is a stutter.
LEMMA WrapInRefines ==
  ASSUME IInv, NEW p \in Producers, WrapIn(p)
  PROVE  UNCHANGED Fifo!fifoVars
<1>1. Contents' = Contents
  BY WrapInIInv DEF WrapIn, Contents, SlotOf
<1>2. \A q \in Producers : Reply(q)' = Reply(q)
  BY DEF WrapIn, IInv, TypeOK, Reply
<1> QED
  BY <1>1, <1>2 DEF WrapIn, Fifo!fifoVars, Holding

\* Leaving PushBack is the return of the FIFO's push.
LEMMA ReleaseLockRefines ==
  ASSUME IInv, NEW p \in Producers, ReleaseLock(p)
  PROVE  Fifo!PushReturns(p)
<1>1. Contents' = Contents
  BY DEF ReleaseLock, Contents, Count, SlotOf
<1>2. Reply(p) # "none"
  BY DEF ReleaseLock, Reply
<1>3. [q \in Producers |-> Reply(q)]' = [[q \in Producers |-> Reply(q)] EXCEPT ![p] = "none"]
  BY DEF ReleaseLock, IInv, TypeOK, Reply
<1> QED
  BY <1>1, <1>2, <1>3 DEF ReleaseLock, Fifo!PushReturns, Holding

\* Reading m_nInCursor lets go of the item taken last, and finding nothing is the
\* FIFO's finding itself empty.
LEMMA MeasureItemsRefines ==
  ASSUME IInv, MeasureItems, ~Caught
  PROVE  Fifo!LetGo \/ Fifo!FindEmpty \/ UNCHANGED Fifo!fifoVars
<1>1. Contents' = Contents
  BY DEF MeasureItems, Contents, Count, SlotOf
<1>2. \A q \in Producers : Reply(q)' = Reply(q)
  BY DEF MeasureItems, Reply
<1>3. cpc' = "empty" <=> Count = 0
  BY MeasureItemsIInv
<1>4. cpc' \in {"empty", "take"} /\ ~Holding'
  BY DEF MeasureItems, Holding
<1>5. CASE cpc' = "empty"
  <2>1. Contents = <<>>
    BY <1>3, <1>5, SMT DEF Contents
  <2> QED
    BY <1>1, <1>2, <1>4, <1>5, <2>1 DEF Fifo!FindEmpty
<1>6. CASE cpc' = "take" /\ Holding
  <2>1. slots[ptr] # NoItem
    BY <1>6, QueueAssumption DEF IInv, ConsumerInv
  <2>2. cpc # "empty" /\ cpc' # "empty"
    BY <1>6 DEF MeasureItems
  <2> QED
    BY <1>1, <1>2, <1>4, <1>6, <2>1, <2>2 DEF Fifo!LetGo
<1>7. CASE cpc' = "take" /\ ~Holding
  <2>1. cpc # "empty" /\ cpc' # "empty"
    BY <1>7 DEF MeasureItems
  <2> QED
    BY <1>1, <1>2, <1>4, <1>7, <2>1 DEF Fifo!fifoVars
<1> QED
  BY <1>4, <1>5, <1>6, <1>7

\* PopFront returns NULL where the FIFO's empty pop returns.
LEMMA ReturnNullRefines ==
  ASSUME IInv, ReturnNull
  PROVE  Fifo!PopReturnsNull
<1>1. Contents' = Contents
  BY DEF ReturnNull, Contents, Count, SlotOf
<1>2. \A q \in Producers : Reply(q)' = Reply(q)
  BY DEF ReturnNull, Reply
<1> QED
  BY <1>1, <1>2 DEF ReturnNull, Holding, Fifo!PopReturnsNull

\* Taking the pointer is a stutter: the item is still queued.
LEMMA TakePointerRefines ==
  ASSUME IInv, TakePointer
  PROVE  UNCHANGED Fifo!fifoVars
<1>1. Contents' = Contents
  BY DEF TakePointer, Contents, Count, SlotOf
<1>2. \A q \in Producers : Reply(q)' = Reply(q)
  BY DEF TakePointer, Reply
<1> QED
  BY <1>1, <1>2 DEF TakePointer, Holding, Fifo!fifoVars

\* The increment of m_nOutCursor is the FIFO's pop.
LEMMA AdvanceOutRefines ==
  ASSUME IInv, AdvanceOut
  PROVE  Fifo!Pop
<1>1. /\ Count >= 1
      /\ Count' = Count - 1
      /\ ptr = SlotOf(1)
      /\ \A i \in 1 .. Size - 1 : SlotOf(i)' = SlotOf(i + 1)
  BY AdvanceOutCount
<1>2. /\ Count \in 0 .. Size - 1
      /\ Contents \in Seq(Items)
      /\ Len(Contents) = Count
      /\ \A i \in 1 .. Count : Contents[i] = slots[SlotOf(i)]
  BY ContentsIsSeq
<1>3. Contents # <<>> /\ Head(Contents) = slots[ptr]
  BY <1>1, <1>2, SMT
<1>4. Contents' = Tail(Contents)
  <2>1. Contents' = [i \in 1 .. Count - 1 |-> slots[SlotOf(i + 1)]]
    <3>1. \A i \in 1 .. Count - 1 : SlotOf(i)' = SlotOf(i + 1)
      BY <1>1, <1>2, QueueAssumption, SMT
    <3> QED
      BY <1>1, <3>1 DEF AdvanceOut, Contents
  <2>2. Tail(Contents) = [i \in 1 .. Count - 1 |-> Contents[i + 1]]
    <3>1. /\ Tail(Contents) \in Seq(Items)
          /\ Len(Tail(Contents)) = Count - 1
          /\ \A i \in 1 .. Count - 1 : Tail(Contents)[i] = Contents[i + 1]
      BY <1>2, <1>3, HeadTailProperties
    <3>2. Tail(Contents) = [i \in 1 .. Count - 1 |-> Tail(Contents)[i]]
      BY <3>1, LenProperties
    <3> QED
      BY <3>1, <3>2
  <2>3. \A i \in 1 .. Count - 1 : Contents[i + 1] = slots[SlotOf(i + 1)]
    BY <1>1, <1>2, SMT
  <2> QED
    BY <2>1, <2>2, <2>3
<1>5. \A q \in Producers : Reply(q)' = Reply(q)
  BY DEF AdvanceOut, Reply
<1>6. ~Holding /\ Holding' /\ slots'[ptr'] = slots[ptr] /\ cpc # "empty" /\ cpc' # "empty"
  BY DEF AdvanceOut, Holding
<1> QED
  BY <1>3, <1>4, <1>5, <1>6 DEF Fifo!Pop

\* The reset of m_nOutCursor is a stutter.
LEMMA WrapOutRefines ==
  ASSUME IInv, WrapOut
  PROVE  UNCHANGED Fifo!fifoVars
<1>1. Contents' = Contents
  BY WrapOutIInv, SameSlots DEF WrapOut
<1>2. \A q \in Producers : Reply(q)' = Reply(q)
  BY DEF WrapOut, Reply
<1> QED
  BY <1>1, <1>2 DEF WrapOut, Holding, Fifo!fifoVars

\* Every step of TEventQueue is a step of the FIFO or a stutter.
LEMMA NextRefines ==
  IInv /\ [Next]_vars /\ [MeasureItems => ~Caught]_vars => [Fifo!Next]_(Fifo!fifoVars)
<1> SUFFICES ASSUME IInv, [Next]_vars, [MeasureItems => ~Caught]_vars
             PROVE  Fifo!Next \/ UNCHANGED Fifo!fifoVars
  OBVIOUS
<1>1. CASE UNCHANGED vars
  <2>1. Contents' = Contents /\ \A q \in Producers : Reply(q)' = Reply(q)
    BY <1>1 DEF vars, Contents, Count, SlotOf, Reply
  <2> QED
    BY <1>1, <2>1 DEF vars, Holding, Fifo!fifoVars
<1>2. CASE PopFront /\ ~(UNCHANGED vars)
  BY <1>2, MeasureItemsRefines, ReturnNullRefines, TakePointerRefines, AdvanceOutRefines,
     WrapOutRefines DEF PopFront, Fifo!Next
<1>3. ASSUME NEW p \in Producers, PushBack(p)
      PROVE  Fifo!Next \/ UNCHANGED Fifo!fifoVars
  <2>1. CASE AdvanceIn(p)
    <3>1. item[p] \in Items
      BY <2>1 DEF AdvanceIn, IInv, ProducerInv, InPush
    <3> QED
      BY <2>1, <3>1, AdvanceInRefines DEF Fifo!Next
  <2>2. CASE MeasureRoom(p) \/ ReleaseLock(p)
    BY <2>2, MeasureRoomRefines, ReleaseLockRefines DEF Fifo!Next
  <2> QED
    BY <1>3, <2>1, <2>2, AcquireLockRefines, StoreItemRefines, WrapInRefines
       DEF PushBack
<1> QED
  BY <1>1, <1>2, <1>3 DEF Next

\* TEventQueue is a FIFO of m_nSize - 1 items, although PopFront takes no lock,
\* unless PopFront is Caught: the claim of the comment in PopFront, for any
\* number of pushing threads, with the one reading it overlooks.
THEOREM Refinement == Spec /\ NeverCaught => FifoSpec
<1>1. Init => Fifo!Init
  BY InitRefines
<1>2. IInv /\ [Next]_vars /\ [MeasureItems => ~Caught]_vars
        => [Fifo!Next]_(Fifo!fifoVars)
  BY NextRefines
<1> QED
  BY <1>1, <1>2, Invariance, PTL DEF Spec, NeverCaught, FifoSpec, Fifo!Spec
================================================================================
