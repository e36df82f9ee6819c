------------------------------ MODULE DynamicPool ------------------------------
(***************************************************************************)
(* TDynamicPoolEx (common/dynamicpoolex.h) as CConnectionMgr               *)
(* (connection.cpp) and CLSocketMgr (lsokcetmgr.cpp) use it.  Objects are  *)
(* numbered in the order they are allocated; object o exists when          *)
(* o <= Len(byRef).  Every critical section under m_pFreeLock or           *)
(* m_pAllocLock is one action.  FetchObj gives up the lock between finding *)
(* the list empty, growing it, and taking its front.                       *)
(*                                                                         *)
(* The users: an accept loop fetches an object; when the client cannot be  *)
(* served (no session, or for a socket no connection) it releases the      *)
(* object again, otherwise closing makes Releases calls of ReleaseObj from *)
(* whichever threads do it (for a connection two, CConnection::Uninit and  *)
(* _ProcClose), at any later time, even when the object serves another     *)
(* client already.                                                         *)
(***************************************************************************)
EXTENDS Integers, Sequences

CONSTANTS
  Fetchers,      \* threads that call FetchObj: the accept loops
  InitCount,     \* m_dwInitCount
  GrowCount,     \* m_dwGrowCount
  Releases,      \* calls of ReleaseObj that follow one fetch
  MaxFetches     \* bound of the model: how many calls of FetchObj are made

ASSUME PoolAssumption ==
  /\ InitCount \in Nat \ {0}
  /\ {GrowCount, MaxFetches} \subseteq Nat
  /\ Releases \in Nat \ {0}

VARIABLES
  free,       \* m_ListFree
  byRef,      \* m_byRef of every object
  fpc,        \* where each fetcher is in FetchObj
  due,        \* for each object, the calls of ReleaseObj still to come
  fetches     \* how many calls of FetchObj were made

vars == <<free, byRef, fpc, due, fetches>>

Objects == 1 .. Len(byRef)

\* A chunk of n new objects: its part of the free list, and a value for each of its objects.
Chunk(n) == [i \in 1 .. n |-> Len(byRef) + i]
Zeros(n) == [i \in 1 .. n |-> 0]

\* Mutant: the connection for which no session could be made is not given back.
ReleasesOfForgetful == {0, Releases}

\* The releases a fetched connection will get: one at once when the client cannot be
\* served (CreateSession made no session).
ReleasesOf == {1, Releases}

\* The end of FetchObj, with the lock held.
TakeFront(f) ==
  LET front == Head(free)
  IN  /\ IF byRef[front] # 0
         THEN UNCHANGED <<free, byRef, due>>
         ELSE /\ byRef' = [byRef EXCEPT ![front] = @ + 1]
              /\ free' = Tail(free)
              /\ \E n \in ReleasesOf : due' = [due EXCEPT ![front] = @ + n]
      /\ fpc' = [fpc EXCEPT ![f] = "idle"]

CallFetch(f) ==
  /\ fpc[f] = "idle"
  /\ fetches < MaxFetches
  /\ fetches' = fetches + 1

Fetch(f) ==
  /\ CallFetch(f)
  /\ free # <<>>
  /\ TakeFront(f)

FindEmpty(f) ==
  /\ CallFetch(f)
  /\ free = <<>>
  /\ fpc' = [fpc EXCEPT ![f] = "alloc"]
  /\ UNCHANGED <<free, byRef, due>>

\* The chunk that _AllocT adds under m_pFreeLock.
AddChunk(n) ==
  /\ free' = free \o Chunk(n)
  /\ byRef' = byRef \o Zeros(n)
  /\ due' = due \o Zeros(n)

\* Mutants of AllocT: it does not look again whether the list is still empty;
\* the last object of the chunk is left out.
AllocAnyway(f) ==
  /\ fpc[f] = "alloc"
  /\ AddChunk(GrowCount)
  /\ fpc' = [fpc EXCEPT ![f] = "record"]
  /\ UNCHANGED fetches

AllocOneLess(f) ==
  /\ fpc[f] = "alloc"
  /\ IF free # <<>>
     THEN /\ fpc' = [fpc EXCEPT ![f] = "again"]
          /\ UNCHANGED <<free, byRef, due>>
     ELSE /\ AddChunk(GrowCount - 1)
          /\ fpc' = [fpc EXCEPT ![f] = "record"]
  /\ UNCHANGED fetches

\* _AllocT, its critical section under m_pFreeLock.
AllocT(f) ==
  /\ fpc[f] = "alloc"
  /\ IF GrowCount = 0
     THEN /\ fpc' = [fpc EXCEPT ![f] = "idle"]
          /\ UNCHANGED <<free, byRef, due>>
     ELSE IF free # <<>>
     THEN /\ fpc' = [fpc EXCEPT ![f] = "again"]
          /\ UNCHANGED <<free, byRef, due>>
     ELSE /\ AddChunk(GrowCount)
          /\ fpc' = [fpc EXCEPT ![f] = "record"]
  /\ UNCHANGED fetches

\* _AllocT, its critical section under m_pAllocLock: m_ListAll, which only the
\* destructor reads, is left out, but the step gives releases time.
Record(f) ==
  /\ fpc[f] = "record"
  /\ fpc' = [fpc EXCEPT ![f] = "again"]
  /\ UNCHANGED <<free, byRef, due, fetches>>

\* The second critical section of FetchObj.  front() of an empty list is
\* undefined; the fetcher's course ends there.
FetchAgain(f) ==
  /\ fpc[f] = "again"
  /\ IF free # <<>>
     THEN TakeFront(f)
     ELSE /\ fpc' = [fpc EXCEPT ![f] = "undefined"]
          /\ UNCHANGED <<free, byRef, due>>
  /\ UNCHANGED fetches

CallRelease(o) ==
  /\ due[o] > 0
  /\ due' = [due EXCEPT ![o] = @ - 1]
  /\ UNCHANGED <<fpc, fetches>>

\* Mutant of ReleaseObj: the reference count is not looked at.
ReleaseUnasked(o) ==
  /\ CallRelease(o)
  /\ byRef' = [byRef EXCEPT ![o] = @ - 1]
  /\ free' = Append(free, o)

ReleaseObj(o) ==
  /\ CallRelease(o)
  /\ IF byRef[o] - 1 # 0
     THEN UNCHANGED <<free, byRef>>
     ELSE /\ byRef' = [byRef EXCEPT ![o] = @ - 1]
          /\ free' = Append(free, o)

\* Init(dwInitCount, dwGrowCount).
Init ==
  /\ free = [i \in 1 .. InitCount |-> i]
  /\ byRef = [i \in 1 .. InitCount |-> 0]
  /\ fpc = [f \in Fetchers |-> "idle"]
  /\ due = [i \in 1 .. InitCount |-> 0]
  /\ fetches = 0

FetchObj(f) ==
  \/ Fetch(f)
  \/ FindEmpty(f)
  \/ AllocT(f)
  \/ Record(f)
  \/ FetchAgain(f)

Next ==
  \/ \E f \in Fetchers : FetchObj(f)
  \/ \E o \in Objects : ReleaseObj(o)

Spec == Init /\ [][Next]_vars

--------------------------------------------------------------------------------
\* The types of the variables: reference counts never leave 0 .. 1, and only
\* allocated objects are in the lists.
TypeOK ==
  /\ free \in Seq(Objects)
  /\ byRef \in Seq({0, 1})
  /\ fpc \in [Fetchers -> {"idle", "alloc", "record", "again", "undefined"}]
  /\ due \in Seq(Nat)
  /\ Len(due) = Len(byRef)
  /\ fetches \in 0 .. MaxFetches

\* However often and from whichever threads an object is released, and whenever
\* the list grows in between, m_ListFree holds an object exactly when its
\* m_byRef is 0, and holds it once.  FetchObj therefore never meets the
\* reference count of dynamicpoolex.h:159, and gives no object to two callers
\* without a release in between.
NoTwice(s) == \A i, j \in 1 .. Len(s) : s[i] = s[j] => i = j
ListsWhatIsUnused ==
  /\ \A i \in 1 .. Len(free) : byRef[free[i]] = 0
  /\ \A o \in Objects : byRef[o] = 0 => \E i \in 1 .. Len(free) : free[i] = o
PoolIsSound == NoTwice(free) /\ ListsWhatIsUnused

\* FetchObj takes front() of a list that has one, although it let go of the
\* lock after _AllocT filled the list: with one fetcher nobody else can have
\* emptied it (dynamicpoolex.h:142-150).
FrontIsAnObject == \A f \in Fetchers : fpc[f] # "undefined"

\* The pool grows on demand: _AllocT looks again, so that new objects are made
\* only while every existing one is in use, although FetchObj let go of the lock
\* after it found the list empty, and others were released since.
GrowsOnDemand ==
  [][Len(byRef') > Len(byRef) => \A o \in Objects : byRef[o] # 0]_vars

\* An object that nobody will release any more is back in the list, also when
\* its releases came late and met it in the hands of a later client.
NoObjectIsLost == \A o \in Objects : due[o] = 0 => byRef[o] = 0
================================================================================
