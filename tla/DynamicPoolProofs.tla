--------------------------- MODULE DynamicPoolProofs ---------------------------
(***************************************************************************)
(* TDynamicPoolEx keeps its free list and its reference counts in step for *)
(* any number of fetching threads, any number of releases of one object,   *)
(* and any sizes; with a single fetcher FetchObj never takes the front of  *)
(* an empty list.                                                          *)
(***************************************************************************)
EXTENDS DynamicPool, TLAPS

\* The inductive invariant: the list and the counts are in step, and an object
\* in use has a release to come.
IInv == TypeOK /\ PoolIsSound /\ NoObjectIsLost

\* The front of a sound list is an object whose count is 0, and the rest is a
\* list of other objects.
LEMMA FrontOfSound ==
  ASSUME TypeOK, PoolIsSound, free # <<>>
  PROVE  /\ Head(free) \in Objects
         /\ byRef[Head(free)] = 0
         /\ Tail(free) \in Seq(Objects)
         /\ Len(Tail(free)) = Len(free) - 1
         /\ Head(free) = free[1]
         /\ \A i \in 1 .. Len(Tail(free)) : Tail(free)[i] = free[i + 1]
  <1>1. free \in Seq(Objects) /\ Len(free) \in Nat /\ Len(free) > 0
    BY DEF TypeOK
  <1>2. Head(free) = free[1] /\ free[1] \in Objects
    BY <1>1
  <1>3. byRef[free[1]] = 0
    BY <1>1 DEF PoolIsSound, ListsWhatIsUnused
  <1> QED
    BY <1>1, <1>2, <1>3

\* What a list joined to another holds.
LEMMA Joined ==
  ASSUME NEW S, NEW s \in Seq(S), NEW t \in Seq(S)
  PROVE  /\ s \o t \in Seq(S)
         /\ Len(s \o t) = Len(s) + Len(t)
         /\ \A i \in 1 .. Len(s) : (s \o t)[i] = s[i]
         /\ \A i \in (Len(s) + 1) .. (Len(s) + Len(t)) : (s \o t)[i] = t[i - Len(s)]
  OBVIOUS

\* A new chunk numbers its objects behind the existing ones.
LEMMA ChunkOf ==
  ASSUME NEW n \in Nat, Len(byRef) \in Nat
  PROVE  /\ Chunk(n) \in Seq(1 .. (Len(byRef) + n))
         /\ Len(Chunk(n)) = n
         /\ \A i \in 1 .. n : Chunk(n)[i] = Len(byRef) + i
  BY DEF Chunk

\* The pool is sound when Init has filled it.
LEMMA InitIInv == Init => IInv
  <1> SUFFICES ASSUME Init PROVE IInv
    OBVIOUS
  <1> USE PoolAssumption
  <1>1. /\ free \in Seq(1 .. InitCount) /\ Len(free) = InitCount
        /\ byRef \in Seq({0, 1}) /\ Len(byRef) = InitCount
        /\ due \in Seq(Nat) /\ Len(due) = InitCount
    BY DEF Init
  <1>2. TypeOK
    BY <1>1 DEF Init, TypeOK, Objects
  <1>3. PoolIsSound
    BY <1>1 DEF Init, PoolIsSound, NoTwice, ListsWhatIsUnused, Objects
  <1>4. NoObjectIsLost
    BY <1>1 DEF Init, NoObjectIsLost, Objects
  <1> QED
    BY <1>2, <1>3, <1>4 DEF IInv

\* The end of FetchObj, in either critical section, keeps the pool sound: it
\* takes the front, whose count is 0 and becomes 1, and a release is due.
LEMMA TakeFrontIInv ==
  ASSUME IInv, NEW f \in Fetchers, free # <<>>, TakeFront(f),
         fetches' \in 0 .. MaxFetches
  PROVE  IInv'
  <1> USE PoolAssumption
  <1> DEFINE front == Head(free)
  <1>1. TypeOK /\ PoolIsSound /\ NoObjectIsLost
    BY DEF IInv
  <1>2. /\ front \in Objects /\ byRef[front] = 0
        /\ Tail(free) \in Seq(Objects) /\ Len(Tail(free)) = Len(free) - 1
        /\ front = free[1]
        /\ \A i \in 1 .. Len(Tail(free)) : Tail(free)[i] = free[i + 1]
    BY <1>1, FrontOfSound
  <1>3. /\ byRef' = [byRef EXCEPT ![front] = 1]
        /\ free' = Tail(free)
        /\ fpc' = [fpc EXCEPT ![f] = "idle"]
    <2>1. /\ byRef' = [byRef EXCEPT ![front] = byRef[front] + 1]
          /\ free' = Tail(free)
          /\ fpc' = [fpc EXCEPT ![f] = "idle"]
      BY <1>2, Zenon DEF TakeFront
    <2> QED
      BY <2>1, <1>2
  <1>4. PICK n \in ReleasesOf : due' = [due EXCEPT ![front] = @ + n]
    BY <1>2 DEF TakeFront
  <1>5. n \in Nat /\ n > 0
    BY <1>4 DEF ReleasesOf
  <1>6. /\ byRef' \in Seq({0, 1}) /\ Len(byRef') = Len(byRef)
        /\ Len(byRef) \in Nat /\ DOMAIN byRef' = Objects
    BY <1>1, <1>2, <1>3 DEF TypeOK, Objects
  <1>7. due' \in Seq(Nat) /\ Len(due') = Len(due)
    BY <1>1, <1>2, <1>4, <1>5 DEF TypeOK, Objects
  <1>9. TypeOK'
    BY <1>1, <1>2, <1>3, <1>6, <1>7 DEF TypeOK, Objects
  <1>10. NoTwice(free)'
    BY <1>1, <1>2, <1>3 DEF TypeOK, PoolIsSound, NoTwice
  <1>11. ListsWhatIsUnused'
    <2>1. ASSUME NEW i \in 1 .. Len(free') PROVE byRef'[free'[i]] = 0
      <3>1. /\ Len(free) \in Nat /\ i \in 1 .. Len(Tail(free))
            /\ i + 1 \in 1 .. Len(free) /\ free'[i] = free[i + 1]
        BY <1>1, <1>2, <1>3 DEF TypeOK
      <3>2. free[i + 1] \in Objects /\ byRef[free[i + 1]] = 0
        BY <1>1, <3>1 DEF TypeOK, PoolIsSound, ListsWhatIsUnused
      <3>3. free[i + 1] # front
        BY <1>1, <1>2, <3>1 DEF PoolIsSound, NoTwice
      <3> QED
        BY <1>1, <1>3, <3>1, <3>2, <3>3 DEF TypeOK, Objects
    <2>2. ASSUME NEW o \in Objects, byRef'[o] = 0
          PROVE  \E i \in 1 .. Len(free') : free'[i] = o
      <3>1. o # front /\ byRef[o] = 0
        BY <2>2, <1>2, <1>3, <1>1 DEF TypeOK, Objects
      <3>2. PICK i \in 1 .. Len(free) : free[i] = o
        BY <3>1, <1>1 DEF PoolIsSound, ListsWhatIsUnused
      <3>3. i - 1 \in 1 .. Len(free') /\ free'[i - 1] = o
        BY <3>1, <3>2, <1>1, <1>2, <1>3 DEF TypeOK
      <3> QED
        BY <3>3
    <2> QED
      BY <2>1, <2>2, <1>6 DEF ListsWhatIsUnused, Objects
  <1>12. NoObjectIsLost'
    <2> SUFFICES ASSUME NEW o \in Objects, due'[o] = 0 PROVE byRef'[o] = 0
      BY <1>6 DEF NoObjectIsLost, Objects
    <2>1. o # front /\ due[o] = 0
      BY SMTT(30), <1>1, <1>2, <1>4, <1>5 DEF TypeOK, Objects
    <2> QED
      BY SMTT(30), <2>1, <1>1, <1>3 DEF NoObjectIsLost, TypeOK, Objects
  <1> QED
    BY <1>9, <1>10, <1>11, <1>12 DEF IInv, PoolIsSound

\* A step of one fetcher that moves nothing but its own program counter.
LEMMA OnlyPcIInv ==
  ASSUME IInv, NEW f \in Fetchers, UNCHANGED <<free, byRef, due>>,
         fetches' \in 0 .. MaxFetches,
         NEW l \in {"idle", "alloc", "record", "again", "undefined"},
         fpc' = [fpc EXCEPT ![f] = l]
  PROVE  IInv'
  BY DEF IInv, TypeOK, PoolIsSound, NoTwice, ListsWhatIsUnused, NoObjectIsLost, Objects

\* _AllocT adds its chunk to an empty list, while every object is in use.
LEMMA AllocTIInv ==
  ASSUME IInv, NEW f \in Fetchers, AllocT(f)
  PROVE  IInv'
  <1> USE PoolAssumption
  <1>1. TypeOK /\ PoolIsSound /\ NoObjectIsLost
    BY DEF IInv
  <1>2. CASE ~(GrowCount # 0 /\ free = <<>>)
    <2>1. fetches' \in 0 .. MaxFetches /\ UNCHANGED <<free, byRef, due>>
      BY <1>1, <1>2 DEF AllocT, TypeOK
    <2>2. \E l \in {"idle", "alloc", "record", "again", "undefined"} :
            fpc' = [fpc EXCEPT ![f] = l]
      BY <1>2 DEF AllocT
    <2> QED
      BY <2>1, <2>2, OnlyPcIInv
  <1>3. CASE GrowCount # 0 /\ free = <<>>
    <2> DEFINE n == Len(byRef)
    <2>1. /\ fpc' = [fpc EXCEPT ![f] = "record"]
          /\ free' = <<>> \o Chunk(GrowCount)
          /\ byRef' = byRef \o Zeros(GrowCount)
          /\ due' = due \o Zeros(GrowCount)
          /\ UNCHANGED fetches
      BY <1>3 DEF AllocT, AddChunk
    <2>2. /\ n \in Nat
          /\ Zeros(GrowCount) \in Seq({0, 1}) /\ Zeros(GrowCount) \in Seq(Nat)
          /\ Len(Zeros(GrowCount)) = GrowCount
          /\ \A i \in 1 .. GrowCount : Zeros(GrowCount)[i] = 0
      BY <1>1 DEF Zeros, TypeOK
    <2>3. /\ Chunk(GrowCount) \in Seq(1 .. (n + GrowCount))
          /\ Len(Chunk(GrowCount)) = GrowCount
          /\ \A i \in 1 .. GrowCount : Chunk(GrowCount)[i] = n + i
      BY <2>2, ChunkOf
    <2>4. free' = Chunk(GrowCount)
      BY <2>1, <2>3
    <2>5. /\ byRef' \in Seq({0, 1}) /\ Len(byRef') = n + GrowCount
          /\ \A o \in 1 .. n : byRef'[o] = byRef[o]
          /\ \A o \in (n + 1) .. (n + GrowCount) : byRef'[o] = 0
      <3> DEFINE zeros == Zeros(GrowCount)
      <3>1. byRef \in Seq({0, 1})
        BY <1>1 DEF TypeOK
      <3> HIDE DEF zeros
      <3>2. /\ byRef \o zeros \in Seq({0, 1})
            /\ Len(byRef \o zeros) = n + Len(zeros)
            /\ \A i \in 1 .. n : (byRef \o zeros)[i] = byRef[i]
            /\ \A i \in (n + 1) .. (n + Len(zeros)) :
                 (byRef \o zeros)[i] = zeros[i - n]
        BY <3>1, <2>2, Joined DEF zeros
      <3> QED
        BY <3>2, <2>1, <2>2 DEF zeros
    <2>6. /\ due' \in Seq(Nat) /\ Len(due') = n + GrowCount
          /\ \A o \in 1 .. n : due'[o] = due[o]
      <3>1. due \in Seq(Nat) /\ Len(due) = n
        BY <1>1 DEF TypeOK
      <3> DEFINE zeros == Zeros(GrowCount)
      <3> HIDE DEF zeros
      <3>2. zeros \in Seq(Nat) /\ Len(zeros) = GrowCount /\ due' = due \o zeros
        BY <2>1, <2>2 DEF zeros
      <3>3. /\ due \o zeros \in Seq(Nat)
            /\ Len(due \o zeros) = Len(due) + Len(zeros)
            /\ \A i \in 1 .. Len(due) : (due \o zeros)[i] = due[i]
        BY <3>1, <3>2, Joined
      <3> QED
        BY <3>1, <3>2, <3>3
    <2>7. \A o \in 1 .. n : byRef[o] # 0
      BY <1>1, <1>3 DEF PoolIsSound, ListsWhatIsUnused, Objects
    <2>8. TypeOK'
      BY <1>1, <2>1, <2>3, <2>4, <2>5, <2>6 DEF TypeOK, Objects
    <2>9. PoolIsSound'
      <3>1. NoTwice(free)'
        BY <2>2, <2>3, <2>4 DEF NoTwice
      <3>2. \A i \in 1 .. Len(free') : byRef'[free'[i]] = 0
        BY SMTT(30), <2>2, <2>3, <2>4, <2>5
      <3>3. ASSUME NEW o \in 1 .. Len(byRef'), byRef'[o] = 0
            PROVE  \E i \in 1 .. Len(free') : free'[i] = o
        <4>1. o \in (n + 1) .. (n + GrowCount)
          BY SMTT(30), <3>3, <2>2, <2>5, <2>7
        <4>2. o - n \in 1 .. Len(free') /\ free'[o - n] = o
          BY <4>1, <2>2, <2>3, <2>4
        <4> QED
          BY <4>2
      <3> QED
        BY <3>1, <3>2, <3>3 DEF PoolIsSound, ListsWhatIsUnused, Objects
    <2>10. NoObjectIsLost'
      <3> SUFFICES ASSUME NEW o \in 1 .. (n + GrowCount), due'[o] = 0 PROVE byRef'[o] = 0
        BY <2>5 DEF NoObjectIsLost, Objects
      <3>1. CASE o \in 1 .. n
        BY <1>1, <2>5, <2>6, <3>1 DEF NoObjectIsLost, Objects
      <3>2. CASE o \in (n + 1) .. (n + GrowCount)
        BY <2>5, <3>2
      <3> QED
        BY <2>2, <3>1, <3>2
    <2> QED
      BY <2>8, <2>9, <2>10 DEF IInv
  <1> QED
    BY <1>2, <1>3

\* ReleaseObj puts back an object whose count is 1 and leaves any other alone,
\* so that a second release of the same object changes nothing.
LEMMA ReleaseObjIInv ==
  ASSUME IInv, NEW o \in Objects, ReleaseObj(o)
  PROVE  IInv'
  <1>1. TypeOK /\ PoolIsSound /\ NoObjectIsLost
    BY DEF IInv
  <1>2. /\ due' \in Seq(Nat) /\ Len(due') = Len(due)
        /\ due' = [due EXCEPT ![o] = @ - 1]
        /\ UNCHANGED <<fpc, fetches>>
    BY <1>1 DEF ReleaseObj, CallRelease, TypeOK, Objects
  <1>3. byRef[o] \in {0, 1}
    BY <1>1 DEF TypeOK, Objects
  <1>4. CASE byRef[o] = 0
    <2>1. UNCHANGED <<free, byRef>>
      BY <1>4 DEF ReleaseObj
    <2>2. NoObjectIsLost'
      BY <1>1, <1>2, <1>4, <2>1 DEF NoObjectIsLost, TypeOK, Objects
    <2>3. TypeOK' /\ PoolIsSound'
      BY <1>1, <1>2, <2>1 DEF TypeOK, PoolIsSound, NoTwice, ListsWhatIsUnused, Objects
    <2> QED
      BY <2>2, <2>3 DEF IInv
  <1>5. CASE byRef[o] = 1
    <2>1. byRef' = [byRef EXCEPT ![o] = 0] /\ free' = Append(free, o)
      BY <1>1, <1>5 DEF ReleaseObj, TypeOK, Objects
    <2>2. /\ byRef' \in Seq({0, 1}) /\ Len(byRef') = Len(byRef)
          /\ Len(byRef) \in Nat
      BY <1>1, <2>1 DEF TypeOK, Objects
    <2>3. /\ free' \in Seq(Objects) /\ Len(free') = Len(free) + 1
          /\ Len(free) \in Nat
          /\ \A i \in 1 .. Len(free) : free'[i] = free[i]
          /\ free'[Len(free) + 1] = o
      BY <1>1, <2>1 DEF TypeOK
    <2>4. \A i \in 1 .. Len(free) : free[i] # o /\ free[i] \in Objects
      BY <1>1, <1>5 DEF PoolIsSound, ListsWhatIsUnused, TypeOK
    <2>5. TypeOK'
      BY <1>1, <1>2, <2>2, <2>3 DEF TypeOK, Objects
    <2>6. NoTwice(free)'
      BY <1>1, <2>3, <2>4 DEF PoolIsSound, NoTwice
    <2>7. \A i \in 1 .. Len(free') : byRef'[free'[i]] = 0
      BY <1>1, <2>1, <2>3, <2>4 DEF PoolIsSound, ListsWhatIsUnused, TypeOK, Objects
    <2>8. ASSUME NEW q \in Objects, byRef'[q] = 0
          PROVE  \E i \in 1 .. Len(free') : free'[i] = q
      <3>1. CASE q = o
        BY <3>1, <2>3
      <3>2. CASE q # o
        <4>1. byRef[q] = 0
          BY <3>2, <2>1, <2>8, <1>1 DEF TypeOK, Objects
        <4>2. PICK i \in 1 .. Len(free) : free[i] = q
          BY <4>1, <1>1 DEF PoolIsSound, ListsWhatIsUnused
        <4> QED
          BY <4>2, <2>3
      <3> QED
        BY <3>1, <3>2
    <2>9. NoObjectIsLost'
      BY <1>1, <1>2, <2>1, <2>2 DEF NoObjectIsLost, TypeOK, Objects
    <2> QED
      BY <2>2, <2>5, <2>6, <2>7, <2>8, <2>9 DEF IInv, PoolIsSound, ListsWhatIsUnused, Objects
  <1> QED
    BY <1>3, <1>4, <1>5

\* Every step of the pool, or of none of its users, keeps it sound.
LEMMA NextIInv == IInv /\ [Next]_vars => IInv'
  <1> SUFFICES ASSUME IInv, [Next]_vars PROVE IInv'
    OBVIOUS
  <1> USE PoolAssumption
  <1>1. ASSUME NEW f \in Fetchers, Fetch(f) PROVE IInv'
    <2>1. free # <<>> /\ TakeFront(f) /\ fetches' \in 0 .. MaxFetches
      BY <1>1 DEF Fetch, CallFetch, IInv, TypeOK
    <2> QED
      BY <2>1, TakeFrontIInv
  <1>2. ASSUME NEW f \in Fetchers, FindEmpty(f) PROVE IInv'
    <2>1. fetches' \in 0 .. MaxFetches
      BY <1>2 DEF FindEmpty, CallFetch, IInv, TypeOK
    <2> QED
      BY <1>2, <2>1, OnlyPcIInv DEF FindEmpty
  <1>3. ASSUME NEW f \in Fetchers, AllocT(f) PROVE IInv'
    BY <1>3, AllocTIInv
  <1>4. ASSUME NEW f \in Fetchers, Record(f) PROVE IInv'
    <2>1. fetches' \in 0 .. MaxFetches
      BY <1>4 DEF Record, IInv, TypeOK
    <2> QED
      BY <1>4, <2>1, OnlyPcIInv DEF Record
  <1>5. ASSUME NEW f \in Fetchers, FetchAgain(f) PROVE IInv'
    <2>1. fetches' \in 0 .. MaxFetches
      BY <1>5 DEF FetchAgain, IInv, TypeOK
    <2>2. CASE free # <<>>
      BY <1>5, <2>1, <2>2, TakeFrontIInv DEF FetchAgain
    <2>3. CASE free = <<>>
      BY <1>5, <2>1, <2>3, OnlyPcIInv DEF FetchAgain
    <2> QED
      BY <2>2, <2>3
  <1>6. ASSUME NEW o \in Objects, ReleaseObj(o) PROVE IInv'
    BY <1>6, ReleaseObjIInv
  <1>7. CASE UNCHANGED vars
    BY <1>7 DEF vars, IInv, TypeOK, PoolIsSound, NoTwice, ListsWhatIsUnused,
                NoObjectIsLost, Objects
  <1> QED
    BY <1>1, <1>2, <1>3, <1>4, <1>5, <1>6, <1>7 DEF Next, FetchObj

\* The inductive invariant holds in every state of the pool.
THEOREM PoolInvariance == Spec => []IInv
  BY InitIInv, NextIInv, PTL DEF Spec

\* The lists hold allocated objects and every count is 0 or 1.
THEOREM PoolTypeCorrect == Spec => []TypeOK
  BY PoolInvariance, PTL DEF IInv

\* For any number of fetchers and of releases, m_ListFree holds every object
\* with count 0, once, and no other.
THEOREM PoolSoundness == Spec => []PoolIsSound
  BY PoolInvariance, PTL DEF IInv

\* An object that no release is due for is in the list.
THEOREM NothingIsLost == Spec => []NoObjectIsLost
  BY PoolInvariance, PTL DEF IInv

\* New objects are made only while every existing one is in use.
THEOREM Growth == Spec => GrowsOnDemand
  <1> DEFINE A == Len(byRef') > Len(byRef) => \A o \in Objects : byRef[o] # 0
  <1>1. IInv /\ [Next]_vars => A
    <2> SUFFICES ASSUME IInv, [Next]_vars, ~A PROVE FALSE
      OBVIOUS
    <2>1. TypeOK /\ PoolIsSound
      BY DEF IInv
    <2>2. Len(byRef') # Len(byRef)
      BY <2>1 DEF TypeOK
    <2>3. ASSUME NEW f \in Fetchers, TakeFront(f) PROVE FALSE
      <3>1. byRef' = byRef \/ byRef' = [byRef EXCEPT ![Head(free)] = @ + 1]
        BY <2>3, Zenon DEF TakeFront
      <3>2. Len(byRef') = Len(byRef)
        BY <3>1, <2>1 DEF TypeOK
      <3> QED
        BY <3>2, <2>2
    <2>4. ASSUME NEW o \in Objects, ReleaseObj(o) PROVE FALSE
      BY <2>4, <2>1, <2>2 DEF ReleaseObj, TypeOK
    <2>5. ASSUME NEW f \in Fetchers, AllocT(f) PROVE FALSE
      <3>1. free = <<>>
        BY <2>5, <2>2 DEF AllocT
      <3>2. \A o \in Objects : byRef[o] # 0
        BY <3>1, <2>1 DEF PoolIsSound, ListsWhatIsUnused
      <3> QED
        BY <3>2
    <2> QED
      BY <2>2, <2>3, <2>4, <2>5
         DEF Next, FetchObj, Fetch, FindEmpty, Record, FetchAgain, vars
  <1> QED
    BY <1>1, PoolInvariance, PTL DEF Spec, GrowsOnDemand

--------------------------------------------------------------------------------
\* There is one accept loop.
OneFetcher == \A f, g \in Fetchers : f = g

\* Between _AllocT and the second look at the list only releases happen.
ListStaysFilled ==
  /\ TypeOK
  /\ \A f \in Fetchers :
       /\ fpc[f] # "undefined"
       /\ fpc[f] \in {"record", "again"} => free # <<>>

\* With one fetcher, what _AllocT put into the list, or found there, is still
\* there when FetchObj takes the front.
LEMMA NextListStaysFilled ==
  ASSUME OneFetcher, ListStaysFilled, TypeOK', [Next]_vars
  PROVE  ListStaysFilled'
  <1> USE PoolAssumption
  <1>1. ASSUME NEW f \in Fetchers, fpc'[f] = "idle" \/ fpc'[f] = "alloc" PROVE ListStaysFilled'
    BY <1>1 DEF OneFetcher, ListStaysFilled
  <1>2. ASSUME NEW f \in Fetchers, Fetch(f) PROVE ListStaysFilled'
    <2>1. fpc'[f] = "idle"
      BY <1>2 DEF Fetch, TakeFront, TypeOK, ListStaysFilled
    <2> QED
      BY <2>1, <1>1
  <1>3. ASSUME NEW f \in Fetchers, FindEmpty(f) PROVE ListStaysFilled'
    <2>1. fpc'[f] = "alloc"
      BY <1>3 DEF FindEmpty, TypeOK, ListStaysFilled
    <2> QED
      BY <2>1, <1>1
  <1>4. ASSUME NEW f \in Fetchers, AllocT(f) PROVE ListStaysFilled'
    <2>1. CASE GrowCount = 0
      <3>1. fpc'[f] = "idle"
        BY <1>4, <2>1 DEF AllocT, TypeOK, ListStaysFilled
      <3> QED
        BY <3>1, <1>1
    <2>2. CASE GrowCount # 0
      <3>1. CASE free # <<>>
        BY <1>4, <2>2, <3>1 DEF AllocT, OneFetcher, ListStaysFilled, TypeOK
      <3>2. CASE free = <<>>
        <4>1. /\ Chunk(GrowCount) \in Seq(1 .. (Len(byRef) + GrowCount))
              /\ Len(Chunk(GrowCount)) = GrowCount
          <5>1. Len(byRef) \in Nat /\ GrowCount \in Nat
            BY DEF ListStaysFilled, TypeOK
          <5> QED
            BY <5>1, ChunkOf
        <4>2. free' = <<>> \o Chunk(GrowCount) /\ fpc' = [fpc EXCEPT ![f] = "record"]
          BY <1>4, <2>2, <3>2 DEF AllocT, AddChunk
        <4>3. Len(free') = GrowCount
          BY <4>1, <4>2
        <4>4. free' # <<>>
          BY <4>3, <2>2
        <4> QED
          BY <4>2, <4>4 DEF OneFetcher, ListStaysFilled, TypeOK
      <3> QED
        BY <3>1, <3>2
    <2> QED
      BY <2>1, <2>2
  <1>5. ASSUME NEW f \in Fetchers, Record(f) PROVE ListStaysFilled'
    BY <1>5 DEF Record, OneFetcher, ListStaysFilled, TypeOK
  <1>6. ASSUME NEW f \in Fetchers, FetchAgain(f) PROVE ListStaysFilled'
    <2>1. free # <<>>
      BY <1>6 DEF FetchAgain, ListStaysFilled
    <2>2. fpc'[f] = "idle"
      BY <1>6, <2>1 DEF FetchAgain, TakeFront, TypeOK, ListStaysFilled
    <2> QED
      BY <2>2, <1>1
  <1>7. ASSUME NEW o \in Objects, ReleaseObj(o) PROVE ListStaysFilled'
    <2>1. UNCHANGED fpc
      BY <1>7 DEF ReleaseObj, CallRelease
    <2>2. free # <<>> => free' # <<>>
      BY <1>7 DEF ReleaseObj, ListStaysFilled, TypeOK
    <2> QED
      BY <2>1, <2>2 DEF ListStaysFilled
  <1>8. CASE UNCHANGED vars
    BY <1>8 DEF vars, ListStaysFilled
  <1> QED
    BY <1>2, <1>3, <1>4, <1>5, <1>6, <1>7, <1>8 DEF Next, FetchObj

\* A program with one accept loop never takes the front of an empty list.
THEOREM FrontSafety == ASSUME OneFetcher PROVE Spec => []FrontIsAnObject
  <1>1. Init => ListStaysFilled
    BY InitIInv DEF IInv, Init, ListStaysFilled
  <1>2. ListStaysFilled /\ TypeOK' /\ [Next]_vars => ListStaysFilled'
    BY NextListStaysFilled
  <1>3. ListStaysFilled => FrontIsAnObject
    BY DEF ListStaysFilled, FrontIsAnObject
  <1> QED
    BY <1>1, <1>2, <1>3, PoolTypeCorrect, PTL DEF Spec
================================================================================
