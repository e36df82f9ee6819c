------------------------------- MODULE TimerProofs ------------------------------
(***************************************************************************)
(* Proofs about Timer for any intervals, events and number of requests:    *)
(* m_nEffectCount and the two lists of requests do what a lock around the  *)
(* whole table would do, as long as no reference into the table dangles.   *)
(***************************************************************************)
EXTENDS Timer, SequenceTheorems, FunctionTheorems, FiniteSetTheorems, TLAPS

TimerRecords ==
  [nInterval : Intervals, nEffectCount : 0 .. Cardinality(Events),
   elapsed : BOOLEAN, arEvents : SUBSET Events, arOnEvents : Seq(Events),
   arAddEvents : Seq(Events), arDelEvents : Seq(Events), owed : SUBSET Events]

LogRecords == [last : {"none", "add", "del"}, mixed : BOOLEAN, late : 0 .. 3, heard : BOOLEAN]

TypeInv ==
  /\ timers \in Seq(TimerRecords)
  /\ stopped \in BOOLEAN /\ undefined \in BOOLEAN
  /\ requests \in 0 .. MaxRequests
  /\ log \in [Asks -> LogRecords]

\* Both threads are at a timer of the table while they go through it.
ThreadsInv ==
  /\ refresh \in [at : {"wait", "look", "copy", "publish", "requests", "add", "del", "ended"},
                  i : Nat, count : Nat]
  /\ run \in [at : {"idle", "test", "loop", "callback", "clear", "released"},
              i : Nat, count : Nat, j : Nat, nEventCount : Nat]
  /\ ~undefined /\ refresh.at \notin {"wait", "ended"} =>
       refresh.i \in 1 .. refresh.count /\ refresh.count <= Len(timers)
  /\ ~undefined /\ run.at \notin {"idle", "released"} =>
       run.i \in 1 .. run.count /\ run.count <= Len(timers)
  /\ run.at = "released" => timers = <<>>

\* The calls of OnTimer that a timer still owes: none while the count is 0, all that
\* were copied until Run comes to the timer, and then those it has not come to.
OwedBy(i) ==
  LET t == timers[i]
  IN  IF t.nEffectCount = 0 THEN {}
      ELSE IF InTimer(i) THEN {t.arOnEvents[k] : k \in run.j + 1 .. Len(t.arOnEvents)}
      ELSE ToSet(t.arOnEvents)

\* While the count of a timer is not 0, arOnEvents is Run's, and as long as its tick is.
TickInv(i) ==
  LET t == timers[i]
  IN  /\ t.nEffectCount > 0 => Len(t.arOnEvents) = t.nEffectCount /\ IsInjective(t.arOnEvents)
      /\ InTimer(i) => /\ t.nEffectCount > 0
                       /\ run.nEventCount = Len(t.arOnEvents)
                       /\ run.j <= run.nEventCount
                       /\ run.at = "clear" => run.j = run.nEventCount
      /\ t.owed = OwedBy(i)

\* While the timer thread is copying it is 0.
CopyInv(i) ==
  LET t == timers[i]
  IN  refresh.at \in {"copy", "publish"} /\ refresh.i = i =>
        /\ t.nEffectCount = 0
        /\ refresh.at = "publish" => IsInjective(t.arOnEvents)

TurnInv == ~undefined => \A i \in DOMAIN timers : TickInv(i) /\ CopyInv(i)

\* There is one timer for an interval, and one for every interval that was asked for.
TableInv ==
  /\ \A i, k \in DOMAIN timers : timers[i].nInterval = timers[k].nInterval => i = k
  /\ run.at # "released" =>
       \A p \in Asks : log[p].last # "none" => \E i \in DOMAIN timers : timers[i].nInterval = p[1]

\* The last request for an event is in its list or has had its effect, unless it met
\* one in the other list.
RequestInv(p, t) ==
  LET inAdds == Contains(t.arAddEvents, p[2])
      inDels == Contains(t.arDelEvents, p[2])
      ticks  == p[2] \in t.arEvents
  IN  /\ log[p].last = "none" => ~inAdds /\ ~inDels /\ ~ticks
      /\ log[p].last = "add" => ~inDels /\ (ticks \/ inAdds)
      /\ log[p].last = "del" => ~inAdds /\ (ticks => inDels)

ListsInv ==
  \A p \in Asks : \A i \in DOMAIN timers :
    timers[i].nInterval = p[1] /\ ~log[p].mixed => RequestInv(p, timers[i])

\* The timer thread will copy event e for timer i, or has copied it, before it comes
\* to the list of deletes.
MayTick(e, i) ==
  IF refresh.i = i /\ refresh.at = "publish" THEN e \in ToSet(timers[i].arOnEvents)
  ELSE e \in timers[i].arEvents /\ ~(refresh.i = i /\ refresh.at \in {"requests", "add", "del"})

ToCome(e, i) ==
  (IF e \in timers[i].owed THEN 1 ELSE 0) + (IF MayTick(e, i) THEN 1 ELSE 0)

\* A deleted event ticked, is owed and may tick at most twice in all.
LateInv ==
  \A p \in Asks : log[p].last = "del" /\ ~log[p].mixed =>
    /\ log[p].late <= 2
    /\ ~undefined => \A i \in DOMAIN timers :
         timers[i].nInterval = p[1] => log[p].late + ToCome(p[2], i) <= 2

IInv == TypeInv /\ ThreadsInv /\ TurnInv /\ TableInv /\ ListsInv /\ LateInv

--------------------------------------------------------------------------------
(* Sequences                                                                *)

\* Replacing one element of a sequence leaves the others alone.
LEMMA UpdateFacts ==
  ASSUME NEW T, NEW s \in Seq(T), NEW i \in DOMAIN s, NEW r \in T
  PROVE  LET u == [s EXCEPT ![i] = r]
         IN  /\ u \in Seq(T)
             /\ DOMAIN u = DOMAIN s
             /\ Len(u) = Len(s)
             /\ u[i] = r
             /\ \A k \in DOMAIN s : k # i => u[k] = s[k]
<1>1. DOMAIN s = 1 .. Len(s)
  BY LenProperties
<1> QED BY <1>1, ExceptSeq

\* Looking for an element in a list that a request was appended to.
LEMMA ContainsAppend ==
  ASSUME NEW T, NEW s \in Seq(T), NEW e \in T, NEW x
  PROVE  Contains(Append(s, e), x) <=> Contains(s, x) \/ x = e
<1>1. /\ Append(s, e) \in Seq(T) /\ Len(Append(s, e)) = Len(s) + 1 /\ Len(s) \in Nat
      /\ \A k \in 1 .. Len(s) : Append(s, e)[k] = s[k]
      /\ Append(s, e)[Len(s) + 1] = e
  BY AppendProperties, LenProperties
<1>2. /\ 1 .. Len(s) + 1 = (1 .. Len(s)) \cup {Len(s) + 1}
  BY <1>1, SMT
<1> QED BY <1>1, <1>2 DEF Contains

\* Looking for an element in a list without its head.
LEMMA ContainsTail ==
  ASSUME NEW T, NEW s \in Seq(T), s # << >>, NEW x
  PROVE  Contains(s, x) <=> Head(s) = x \/ Contains(Tail(s), x)
<1>1. /\ Len(s) \in Nat \ {0} /\ Head(s) = s[1]
      /\ Len(Tail(s)) = Len(s) - 1 /\ \A k \in 1 .. Len(Tail(s)) : Tail(s)[k] = s[k + 1]
  BY EmptySeq, HeadTailProperties
<1>2. ASSUME Contains(s, x) PROVE Head(s) = x \/ Contains(Tail(s), x)
  <2>1. PICK k \in 1 .. Len(s) : s[k] = x
    BY <1>2 DEF Contains
  <2>2. CASE k = 1
    BY <1>1, <2>1, <2>2
  <2>3. CASE k # 1
    <3>1. k - 1 \in 1 .. Len(Tail(s)) /\ k - 1 + 1 = k
      BY <1>1, <2>3, SMT
    <3>2. Tail(s)[k - 1] = x
      BY <1>1, <2>1, <3>1
    <3> QED BY <3>1, <3>2 DEF Contains
  <2> QED BY <2>2, <2>3
<1>3. ASSUME Head(s) = x PROVE Contains(s, x)
  <2>1. 1 \in 1 .. Len(s)
    BY <1>1, SMT
  <2> QED BY <1>1, <1>3, <2>1 DEF Contains
<1>4. ASSUME Contains(Tail(s), x) PROVE Contains(s, x)
  <2>1. PICK k \in 1 .. Len(Tail(s)) : Tail(s)[k] = x
    BY <1>4 DEF Contains
  <2>2. k + 1 \in 1 .. Len(s)
    BY <1>1, SMT
  <2> QED BY <1>1, <2>1, <2>2 DEF Contains
<1> QED BY <1>2, <1>3, <1>4

\* An empty list contains nothing.
LEMMA ContainsNothing == \A x : ~Contains(<< >>, x)
<1>1. Len(<< >>) = 0
  BY EmptySeq
<1> QED BY <1>1, SMT DEF Contains

\* Looking for an element in a list of one.
LEMMA ContainsOne ==
  ASSUME NEW T, NEW e \in T
  PROVE  <<e>> \in Seq(T) /\ \A x : Contains(<<e>>, x) <=> x = e
<1>1. <<e>> \in Seq(T) /\ Len(<<e>>) = 1 /\ <<e>>[1] = e /\ 1 .. 1 = {1}
  BY SMT
<1> QED BY <1>1 DEF Contains

\* Looking for an element in two lists.
LEMMA ContainsConcat ==
  ASSUME NEW T, NEW s \in Seq(T), NEW t \in Seq(T), NEW x
  PROVE  Contains(s \o t, x) <=> Contains(s, x) \/ Contains(t, x)
<1>1. /\ Len(s) \in Nat /\ Len(t) \in Nat /\ Len(s \o t) = Len(s) + Len(t)
      /\ \A i \in 1 .. Len(s) + Len(t) :
           (s \o t)[i] = IF i <= Len(s) THEN s[i] ELSE t[i - Len(s)]
  BY ConcatProperties, LenProperties
<1>2. ASSUME Contains(s \o t, x) PROVE Contains(s, x) \/ Contains(t, x)
  <2>1. PICK k \in 1 .. Len(s \o t) : (s \o t)[k] = x
    BY <1>2 DEF Contains
  <2>2. CASE k <= Len(s)
    <3>1. k \in 1 .. Len(s) /\ s[k] = x
      BY <1>1, <2>1, <2>2, SMT
    <3> QED BY <3>1 DEF Contains
  <2>3. CASE ~(k <= Len(s))
    <3>1. k - Len(s) \in 1 .. Len(t) /\ t[k - Len(s)] = x
      BY <1>1, <2>1, <2>3, SMT
    <3> QED BY <3>1 DEF Contains
  <2> QED BY <2>2, <2>3
<1>3. ASSUME Contains(s, x) PROVE Contains(s \o t, x)
  <2>1. PICK k \in 1 .. Len(s) : s[k] = x
    BY <1>3 DEF Contains
  <2>2. k \in 1 .. Len(s \o t) /\ (s \o t)[k] = x
    BY <1>1, <2>1, SMT
  <2> QED BY <2>2 DEF Contains
<1>4. ASSUME Contains(t, x) PROVE Contains(s \o t, x)
  <2>1. PICK k \in 1 .. Len(t) : t[k] = x
    BY <1>4 DEF Contains
  <2> DEFINE m == Len(s) + k
  <2>2. m \in 1 .. Len(s) + Len(t) /\ ~(m <= Len(s)) /\ m - Len(s) = k
    BY <1>1, <2>1, SMT
  <2> HIDE DEF m
  <2>3. m \in 1 .. Len(s \o t) /\ (s \o t)[m] = x
    BY <1>1, <2>1, <2>2
  <2> QED BY <2>3 DEF Contains
<1> QED BY <1>2, <1>3, <1>4

\* What __Refresh copies is the set of events, each once.
LEMMA CopyFacts ==
  ASSUME NEW S \in SUBSET Events
  PROVE  /\ SetToSeq(S) \in Seq(Events)
         /\ IsInjective(SetToSeq(S))
         /\ ToSet(SetToSeq(S)) = S
<1> DEFINE n == Cardinality(S)
           f == SetToSeq(S)
<1>1. IsFiniteSet(S) /\ n \in Nat /\ ExistsBijection(1 .. n, S)
  BY FS_Subset, FS_CardinalityType, TimerAssumption
<1>2. \E g \in [1 .. n -> S] : IsInjective(g)
  BY <1>1 DEF ExistsBijection, Bijection, Injection
<1>3. f \in [1 .. n -> S] /\ IsInjective(f)
  BY <1>2 DEF SetToSeq
<1>4. f \in Surjection(1 .. n, S)
  <2>1. Cardinality(1 .. n) = n
    BY <1>1, FS_CountingElements, Fun_ExistsBijReflexive
  <2>2. f \in Injection(1 .. n, S)
    BY <1>3 DEF Injection
  <2> HIDE DEF f, n
  <2>3. Cardinality(1 .. n) = Cardinality(S) <=> f \in Surjection(1 .. n, S)
    BY <1>1, <2>2, FS_Injection
  <2> QED BY <2>1, <2>3 DEF n
<1>5. ToSet(f) = S
  <2> HIDE DEF f, n
  <2> QED BY <1>3, <1>4 DEF ToSet, Surjection
<1>6. f \in Seq(Events)
  <2> HIDE DEF f, n
  <2>1. f \in Seq(S)
    BY <1>1, <1>3, SeqDef, Zenon
  <2> QED BY <2>1, SeqMonotonic
<1> QED BY <1>3, <1>5, <1>6

\* So there are no more than there are event ids.
LEMMA InjectiveLength ==
  ASSUME NEW s \in Seq(Events), IsInjective(s)
  PROVE  Len(s) \in 0 .. Cardinality(Events)
<1>1. Len(s) \in Nat /\ s \in [1 .. Len(s) -> Events]
  BY LenProperties
<1>2. s \in Injection(1 .. Len(s), Events)
  BY <1>1 DEF Injection
<1>3. Cardinality(1 .. Len(s)) <= Cardinality(Events)
  BY <1>2, FS_Injection, TimerAssumption
<1>4. Cardinality(1 .. Len(s)) = Len(s)
  BY <1>1, FS_CountingElements, Fun_ExistsBijReflexive
<1>5. Cardinality(Events) \in Nat
  BY FS_CardinalityType, TimerAssumption
<1> QED BY <1>1, <1>3, <1>4, <1>5, SMT

--------------------------------------------------------------------------------
(* The invariant                                                            *)

\* The table is a sequence of timers, numbered from 1.
LEMMA TableFacts ==
  ASSUME TypeInv
  PROVE  /\ timers \in Seq(TimerRecords)
         /\ Len(timers) \in Nat
         /\ DOMAIN timers = 1 .. Len(timers)
         /\ \A i \in DOMAIN timers : timers[i] \in TimerRecords
<1>1. timers \in Seq(TimerRecords)
  BY DEF TypeInv
<1> QED BY <1>1, LenProperties, ElementOfSeq

\* The log has a record for every pair the program asks for.
LEMMA LogFacts ==
  ASSUME TypeInv, NEW p \in Asks
  PROVE  /\ log[p] \in LogRecords
         /\ log[p].late \in 0 .. 3
         /\ log[p].late \in Nat
<1>1. log[p] \in LogRecords
  BY DEF TypeInv
<1>2. log[p].late \in 0 .. 3
  BY <1>1 DEF LogRecords
<1> QED BY <1>1, <1>2, SMT

\* Release leaves no table.
LEMMA TableNotReleased ==
  ASSUME TypeInv, ThreadsInv, NEW i \in DOMAIN timers
  PROVE  run.at # "released"
<1>1. timers # << >>
  <2>1. 1 .. Len(timers) # {} /\ Len(timers) \in Nat
    BY TableFacts
  <2> QED BY <2>1, EmptySeq, SMT
<1> QED BY <1>1 DEF ThreadsInv

\* Where the threads are in the table.
LEMMA PlaceFacts ==
  ASSUME TypeInv, ThreadsInv, ~undefined
  PROVE  /\ refresh.at \notin {"wait", "ended"} => refresh.i \in DOMAIN timers
         /\ run.at \notin {"idle", "released"} => run.i \in DOMAIN timers
<1>1. /\ Len(timers) \in Nat /\ DOMAIN timers = 1 .. Len(timers)
      /\ refresh.i \in Nat /\ refresh.count \in Nat /\ run.i \in Nat /\ run.count \in Nat
  BY TableFacts DEF ThreadsInv
<1>2. refresh.at \notin {"wait", "ended"} =>
        refresh.i \in 1 .. refresh.count /\ refresh.count <= Len(timers)
  BY DEF ThreadsInv
<1>3. run.at \notin {"idle", "released"} =>
        run.i \in 1 .. run.count /\ run.count <= Len(timers)
  BY DEF ThreadsInv
<1> QED BY <1>1, <1>2, <1>3, SMT

\* The table starts out empty.
LEMMA InitIInv == Init => IInv
<1> SUFFICES ASSUME Init PROVE IInv
  OBVIOUS
<1>1. timers = << >> /\ DOMAIN timers = {} /\ timers \in Seq(TimerRecords)
  <2>1. << >> \in Seq(TimerRecords) /\ Len(<< >>) = 0
    BY EmptySeq
  <2>2. DOMAIN << >> = 1 .. 0
    BY <2>1, LenProperties
  <2> QED BY <2>1, <2>2, SMT DEF Init
<1>2. TypeInv
  <2>1. 0 \in 0 .. MaxRequests /\ 0 \in 0 .. 3
    BY TimerAssumption, SMT
  <2> QED BY <1>1, <2>1 DEF Init, TypeInv, LogRecords, Asked
<1>3. ThreadsInv
  BY DEF Init, ThreadsInv
<1>4. TurnInv
  BY <1>1 DEF TurnInv
<1>5. TableInv /\ ListsInv /\ LateInv
  BY <1>1 DEF Init, TableInv, ListsInv, LateInv, Asked
<1> QED BY <1>2, <1>3, <1>4, <1>5 DEF IInv

\* The timer thread goes to its next timer, or waits again.
LEMMA NextTimerFacts ==
  ASSUME ThreadsInv, refresh.i \in 1 .. refresh.count, NextTimer
  PROVE  /\ refresh' \in [at : {"look", "wait"}, i : Nat, count : Nat]
         /\ refresh'.at = "look" => refresh'.i \in 1 .. refresh'.count
         /\ refresh'.count = refresh.count
<1>1. CASE refresh.i < refresh.count
  <2>1. refresh' = [refresh EXCEPT !.at = "look", !.i = refresh.i + 1]
    BY <1>1 DEF NextTimer, Following
  <2>2. /\ refresh.i \in Nat /\ refresh.count \in Nat
        /\ refresh.i + 1 \in Nat /\ refresh.i + 1 \in 1 .. refresh.count
    BY <1>1, SMT DEF ThreadsInv
  <2> QED BY <2>1, <2>2 DEF ThreadsInv
<1>2. CASE ~(refresh.i < refresh.count)
  <2>1. refresh' = [refresh EXCEPT !.at = "wait"]
    BY <1>2 DEF NextTimer, Following
  <2> QED BY <2>1, SMT DEF ThreadsInv
<1> QED BY <1>1, <1>2

\* Run goes to its next timer, or returns.
LEMMA NextOfRunFacts ==
  ASSUME ThreadsInv, run.i \in 1 .. run.count, NextOfRun
  PROVE  /\ run' \in [at : {"test", "idle"}, i : Nat, count : Nat, j : Nat, nEventCount : Nat]
         /\ run'.at = "test" => run'.i \in 1 .. run'.count
         /\ run'.count = run.count
<1>1. CASE run.i < run.count
  <2>1. run' = [run EXCEPT !.at = "test", !.i = run.i + 1]
    BY <1>1 DEF NextOfRun, Following
  <2>2. /\ run.i \in Nat /\ run.count \in Nat
        /\ run.i + 1 \in Nat /\ run.i + 1 \in 1 .. run.count
    BY <1>1, SMT DEF ThreadsInv
  <2> QED BY <2>1, <2>2 DEF ThreadsInv
<1>2. CASE ~(run.i < run.count)
  <2>1. run' = [run EXCEPT !.at = "idle"]
    BY <1>2 DEF NextOfRun, Following
  <2> QED BY <2>1, SMT DEF ThreadsInv
<1> QED BY <1>1, <1>2

\* A tick is left alone by a step that changes neither its count, its copy and what it
\* owes nor where Run is in it.
LEMMA TickKept ==
  ASSUME NEW i, TickInv(i),
         timers'[i].nEffectCount = timers[i].nEffectCount,
         timers'[i].arOnEvents = timers[i].arOnEvents,
         timers'[i].owed = timers[i].owed,
         InTimer(i)' <=> InTimer(i),
         InTimer(i) => /\ run'.j = run.j /\ run'.nEventCount = run.nEventCount
                       /\ run'.at = "clear" => run.at = "clear"
  PROVE  TickInv(i)'
<1>1. OwedBy(i)' = OwedBy(i)
  <2> DEFINE on == timers[i].arOnEvents
  <2>1. OwedBy(i) = IF timers[i].nEffectCount = 0 THEN {}
                    ELSE IF InTimer(i) THEN {on[k] : k \in run.j + 1 .. Len(on)} ELSE ToSet(on)
    BY DEF OwedBy
  <2>2. OwedBy(i)' = IF timers[i].nEffectCount = 0 THEN {}
                     ELSE IF InTimer(i) THEN {on[k] : k \in run'.j + 1 .. Len(on)} ELSE ToSet(on)
    BY Zenon DEF OwedBy
  <2> QED BY <2>1, <2>2
<1> QED BY <1>1 DEF TickInv

\* A step of the timer thread that only moves it keeps the invariant if it stays at a
\* timer of the table, if it starts to copy only when the count is 0, and if it does
\* not pass by a request to delete.
LEMMA RefreshMovesIInv ==
  ASSUME IInv, ~undefined,
         UNCHANGED <<timers, log, run, stopped, undefined, requests>>,
         refresh' \in [at : {"wait", "look", "copy", "publish", "requests", "add", "del", "ended"},
                       i : Nat, count : Nat],
         refresh'.at \notin {"wait", "ended"} =>
           refresh'.i \in 1 .. refresh'.count /\ refresh'.count <= Len(timers),
         \A i \in DOMAIN timers : CopyInv(i)',
         \A p \in Asks : \A i \in DOMAIN timers :
           /\ log[p].last = "del" /\ ~log[p].mixed
           /\ timers[i].nInterval = p[1]
           /\ MayTick(p[2], i)'
           => MayTick(p[2], i)
  PROVE  IInv'
<1>1. TypeInv'
  BY DEF IInv, TypeInv
<1>2. ThreadsInv'
  BY DEF IInv, ThreadsInv
<1>3. TurnInv'
  <2>1. \A i \in DOMAIN timers : TickInv(i)'
    BY TickKept DEF IInv, TurnInv, InTimer
  <2> QED BY <2>1 DEF TurnInv
<1>4. TableInv'
  BY DEF IInv, TableInv
<1>5. ListsInv'
  BY DEF IInv, ListsInv, RequestInv
<1>6. LateInv'
  <2> SUFFICES ASSUME NEW p \in Asks, log[p].last = "del", ~log[p].mixed
               PROVE  /\ log[p].late <= 2
                      /\ \A i \in DOMAIN timers : timers[i].nInterval = p[1] =>
                           log[p].late + ToCome(p[2], i)' <= 2
    BY DEF LateInv
  <2> log[p].late \in Nat
    BY LogFacts DEF IInv
  <2>1. /\ log[p].late <= 2
        /\ \A i \in DOMAIN timers : timers[i].nInterval = p[1] =>
             log[p].late + ToCome(p[2], i) <= 2
    BY DEF IInv, LateInv
  <2>2. ASSUME NEW i \in DOMAIN timers, timers[i].nInterval = p[1]
        PROVE  log[p].late + ToCome(p[2], i)' <= 2
    <3>1. MayTick(p[2], i)' => MayTick(p[2], i)
      BY <2>2
    <3>2. p[2] \in timers'[i].owed <=> p[2] \in timers[i].owed
      OBVIOUS
    <3>3. ToCome(p[2], i) \in Nat /\ ToCome(p[2], i)' \in Nat /\ ToCome(p[2], i)' <= ToCome(p[2], i)
      BY <3>1, <3>2, SMT DEF ToCome
    <3> QED BY <2>1, <2>2, <3>3, SMT
  <2> QED BY <2>1, <2>2
<1> QED BY <1>1, <1>2, <1>3, <1>4, <1>5, <1>6 DEF IInv

\* The timer thread starts on the table.
LEMMA RefreshBeginsIInv ==
  ASSUME IInv, RefreshBegins
  PROVE  IInv'
<1>1. /\ Len(timers) \in Nat \ {0}
  BY EmptySeq DEF IInv, TypeInv, RefreshBegins
<1>2. refresh' = [at |-> "look", i |-> 1, count |-> Len(timers)]
  BY DEF RefreshBegins, Refreshing, Begin, IInv, ThreadsInv
<1>3. 1 \in 1 .. Len(timers) /\ Len(timers) <= Len(timers)
  BY <1>1, SMT
<1>4. \A i \in DOMAIN timers : CopyInv(i)'
  BY <1>2 DEF CopyInv
<1>5. \A e, i : MayTick(e, i)' => MayTick(e, i)
  BY <1>2 DEF MayTick, RefreshBegins, Refreshing
<1> QED BY <1>1, <1>2, <1>3, <1>4, <1>5, RefreshMovesIInv DEF RefreshBegins, Refreshing

\* It ends when it is not in the table.
LEMMA ThreadEndsIInv ==
  ASSUME IInv, ThreadEnds
  PROVE  IInv'
<1>1. /\ refresh' \in [at : {"ended"}, i : Nat, count : Nat]
      /\ refresh.at = "wait"
  BY DEF ThreadEnds, Refreshing, IInv, ThreadsInv
<1>2. \A i \in DOMAIN timers : CopyInv(i)'
  BY <1>1 DEF CopyInv
<1>3. \A e, i : MayTick(e, i)' => MayTick(e, i)
  BY <1>1 DEF MayTick, ThreadEnds, Refreshing
<1> QED BY <1>1, <1>2, <1>3, RefreshMovesIInv DEF ThreadEnds, Refreshing

\* It turns to copy only a timer whose count is 0.
LEMMA LookIInv ==
  ASSUME IInv, Look
  PROVE  IInv'
<1>1. /\ refresh' \in [at : {"copy", "requests"}, i : Nat, count : Nat]
      /\ refresh'.i = refresh.i /\ refresh'.count = refresh.count
      /\ refresh'.at = "copy" => timers[refresh.i].nEffectCount = 0
  BY DEF Look, Refreshing, Mine, IInv, ThreadsInv
<1>2. /\ refresh.at = "look" /\ ~undefined
      /\ UNCHANGED <<timers, log, run, stopped, undefined, requests>>
  BY DEF Look, Refreshing
<1>3. refresh.i \in 1 .. refresh.count /\ refresh.count <= Len(timers)
  BY <1>2 DEF IInv, ThreadsInv
<1>4. \A i \in DOMAIN timers : CopyInv(i)'
  BY <1>1, <1>2 DEF CopyInv
<1>5. \A e, i : MayTick(e, i)' => MayTick(e, i)
  BY <1>1, <1>2 DEF MayTick
<1> QED BY <1>1, <1>2, <1>3, <1>4, <1>5, RefreshMovesIInv

\* It passes by both lists only when they are empty.
LEMMA LookForRequestsIInv ==
  ASSUME IInv, LookForRequests
  PROVE  IInv'
<1>1. /\ refresh.at = "requests" /\ ~undefined
      /\ UNCHANGED <<timers, log, run, stopped, undefined, requests>>
  BY DEF LookForRequests, Refreshing
<1>2. refresh.i \in 1 .. refresh.count /\ refresh.count <= Len(timers)
  BY <1>1 DEF IInv, ThreadsInv
<1>3. CASE /\ timers[refresh.i].arAddEvents = << >> /\ timers[refresh.i].arDelEvents = << >>
           /\ NextTimer
  <2>1. /\ refresh' \in [at : {"look", "wait"}, i : Nat, count : Nat]
        /\ refresh'.at = "look" => refresh'.i \in 1 .. refresh'.count
        /\ refresh'.count = refresh.count
    BY <1>2, <1>3, NextTimerFacts DEF IInv
  <2>2. \A i \in DOMAIN timers : CopyInv(i)'
    BY <2>1 DEF CopyInv
  <2>3. ASSUME NEW p \in Asks, NEW i \in DOMAIN timers,
               log[p].last = "del", ~log[p].mixed, timers[i].nInterval = p[1], MayTick(p[2], i)'
        PROVE  MayTick(p[2], i)
    <3>1. p[2] \in timers[i].arEvents
      BY <1>1, <2>1, <2>3 DEF MayTick
    <3>2. Contains(timers[i].arDelEvents, p[2])
      BY <2>3, <3>1 DEF IInv, ListsInv, RequestInv
    <3>3. i # refresh.i
      BY <1>3, <3>2, ContainsNothing
    <3> QED BY <3>1, <3>3 DEF MayTick
  <2> QED BY <1>1, <1>2, <2>1, <2>2, <2>3, RefreshMovesIInv
<1>4. CASE refresh' = [refresh EXCEPT !.at = "add"]
  <2>1. /\ refresh' \in [at : {"add"}, i : Nat, count : Nat]
        /\ refresh'.i = refresh.i /\ refresh'.count = refresh.count
    BY <1>4 DEF IInv, ThreadsInv
  <2>2. \A i \in DOMAIN timers : CopyInv(i)'
    BY <2>1 DEF CopyInv
  <2>3. \A e, i : MayTick(e, i)' => MayTick(e, i)
    BY <1>1, <2>1 DEF MayTick
  <2> QED BY <1>1, <1>2, <2>1, <2>2, <2>3, RefreshMovesIInv
<1> QED BY <1>3, <1>4 DEF LookForRequests, Mine

\* The deletes come after the adds.
LEMMA NoMoreAddsIInv ==
  ASSUME IInv, NoMoreAdds
  PROVE  IInv'
<1>1. /\ refresh.at = "add" /\ ~undefined
      /\ UNCHANGED <<timers, log, run, stopped, undefined, requests>>
  BY DEF NoMoreAdds, Refreshing
<1>2. refresh.i \in 1 .. refresh.count /\ refresh.count <= Len(timers)
  BY <1>1 DEF IInv, ThreadsInv
<1>3. /\ refresh' \in [at : {"del"}, i : Nat, count : Nat]
      /\ refresh'.i = refresh.i /\ refresh'.count = refresh.count
  BY DEF NoMoreAdds, IInv, ThreadsInv
<1>4. \A i \in DOMAIN timers : CopyInv(i)'
  BY <1>3 DEF CopyInv
<1>5. \A e, i : MayTick(e, i)' => MayTick(e, i)
  BY <1>1, <1>3 DEF MayTick
<1> QED BY <1>1, <1>2, <1>3, <1>4, <1>5, RefreshMovesIInv

\* It leaves a timer when all its deletes had their effect.
LEMMA NoMoreDelsIInv ==
  ASSUME IInv, NoMoreDels
  PROVE  IInv'
<1>1. /\ refresh.at = "del" /\ ~undefined
      /\ UNCHANGED <<timers, log, run, stopped, undefined, requests>>
      /\ timers[refresh.i].arDelEvents = << >>
  BY DEF NoMoreDels, Refreshing, Mine
<1>2. refresh.i \in 1 .. refresh.count /\ refresh.count <= Len(timers)
  BY <1>1 DEF IInv, ThreadsInv
<1>3. /\ refresh' \in [at : {"look", "wait"}, i : Nat, count : Nat]
      /\ refresh'.at = "look" => refresh'.i \in 1 .. refresh'.count
      /\ refresh'.count = refresh.count
  BY <1>2, NextTimerFacts DEF IInv, NoMoreDels
<1>4. \A i \in DOMAIN timers : CopyInv(i)'
  BY <1>3 DEF CopyInv
<1>5. ASSUME NEW p \in Asks, NEW i \in DOMAIN timers,
             log[p].last = "del", ~log[p].mixed, timers[i].nInterval = p[1], MayTick(p[2], i)'
      PROVE  MayTick(p[2], i)
  <2>1. p[2] \in timers[i].arEvents
    BY <1>1, <1>3, <1>5 DEF MayTick
  <2>2. Contains(timers[i].arDelEvents, p[2])
    BY <1>5, <2>1 DEF IInv, ListsInv, RequestInv
  <2>3. i # refresh.i
    BY <1>1, <2>2, ContainsNothing
  <2> QED BY <2>1, <2>3 DEF MayTick
<1> QED BY <1>1, <1>2, <1>3, <1>4, <1>5, RefreshMovesIInv

\* A step of Run that only moves it keeps the invariant if it stays at a timer of the
\* table and every tick fits its new place.
LEMMA RunMovesIInv ==
  ASSUME IInv, ~undefined, run.at # "released",
         UNCHANGED <<timers, log, refresh, stopped, undefined, requests>>,
         run' \in [at : {"idle", "test", "loop", "callback", "clear"},
                   i : Nat, count : Nat, j : Nat, nEventCount : Nat],
         run'.at # "idle" => run'.i \in 1 .. run'.count /\ run'.count <= Len(timers),
         \A i \in DOMAIN timers : TickInv(i)'
  PROVE  IInv'
<1>1. TypeInv'
  BY DEF IInv, TypeInv
<1>2. ThreadsInv'
  BY DEF IInv, ThreadsInv
<1>3. TurnInv'
  BY DEF IInv, TurnInv, CopyInv
<1>4. TableInv'
  BY DEF IInv, TableInv
<1>5. ListsInv'
  BY DEF IInv, ListsInv, RequestInv
<1>6. LateInv'
  BY DEF IInv, LateInv, ToCome, MayTick
<1> QED BY <1>1, <1>2, <1>3, <1>4, <1>5, <1>6 DEF IInv

\* Run starts on the table.
LEMMA RunBeginsIInv ==
  ASSUME IInv, RunBegins
  PROVE  IInv'
<1>1. /\ run.at = "idle" /\ ~undefined
      /\ UNCHANGED <<timers, log, refresh, stopped, undefined, requests>>
  BY DEF RunBegins, Running
<1>2. /\ Len(timers) \in Nat \ {0}
  BY EmptySeq DEF IInv, TypeInv, RunBegins
<1>3. /\ run' \in [at : {"test"}, i : {1}, count : {Len(timers)}, j : Nat, nEventCount : Nat]
  BY DEF RunBegins, Begin, IInv, ThreadsInv
<1>4. 1 \in 1 .. Len(timers) /\ Len(timers) <= Len(timers)
  BY <1>2, SMT
<1>5. \A i \in DOMAIN timers : TickInv(i)'
  BY <1>1, <1>3, TickKept DEF IInv, TurnInv, InTimer
<1> QED BY <1>1, <1>2, <1>3, <1>4, <1>5, RunMovesIInv

\* It enters a timer when its count is not 0.
LEMMA TestIInv ==
  ASSUME IInv, Test
  PROVE  IInv'
<1>1. /\ run.at = "test" /\ ~undefined
      /\ UNCHANGED <<timers, log, refresh, stopped, undefined, requests>>
  BY DEF Test, Running
<1>2. run.i \in 1 .. run.count /\ run.count <= Len(timers) /\ run.i \in DOMAIN timers
  BY <1>1, PlaceFacts DEF IInv, ThreadsInv
<1>3. CASE NextOfRun
  <2>1. /\ run' \in [at : {"test", "idle"}, i : Nat, count : Nat, j : Nat, nEventCount : Nat]
        /\ run'.at = "test" => run'.i \in 1 .. run'.count
        /\ run'.count = run.count
    BY <1>2, <1>3, NextOfRunFacts DEF IInv
  <2>2. \A i \in DOMAIN timers : TickInv(i)'
    BY <1>1, <2>1, TickKept DEF IInv, TurnInv, InTimer
  <2> QED BY <1>1, <1>2, <2>1, <2>2, RunMovesIInv
<1>4. CASE /\ timers[run.i].nEffectCount # 0
           /\ run' = [run EXCEPT !.at = "loop", !.j = 0,
                                 !.nEventCount = Len(timers[run.i].arOnEvents)]
  <2> DEFINE on == timers[run.i].arOnEvents
  <2>1. /\ timers[run.i].nEffectCount > 0
        /\ Len(on) \in Nat /\ DOMAIN on = 1 .. Len(on)
    <3>1. timers[run.i] \in TimerRecords
      BY <1>2, TableFacts DEF IInv
    <3>2. Cardinality(Events) \in Nat /\ timers[run.i].nEffectCount \in 0 .. Cardinality(Events)
      BY <3>1, FS_CardinalityType, TimerAssumption DEF TimerRecords
    <3>3. on \in Seq(Events)
      BY <3>1 DEF TimerRecords
    <3>4. timers[run.i].nEffectCount > 0
      BY <1>4, <3>2, SMT
    <3> QED BY <3>3, <3>4, LenProperties
  <2>2. /\ run' \in [at : {"loop"}, i : {run.i}, count : {run.count}, j : {0}, nEventCount : {Len(on)}]
        /\ run.i \in Nat /\ run.count \in Nat
    BY <1>4 DEF IInv, ThreadsInv
  <2>3. TickInv(run.i)'
    <3>1. TickInv(run.i)
      BY <1>1, <1>2 DEF IInv, TurnInv
    <3>2. timers[run.i].owed = ToSet(on)
      BY <1>1, <2>1, <3>1 DEF TickInv, OwedBy, InTimer
    <3>3. ToSet(on) = {on[k] : k \in 0 + 1 .. Len(on)}
      BY <2>1 DEF ToSet
    <3>4. /\ timers' = timers /\ run'.at = "loop" /\ run'.i = run.i /\ run'.j = 0
          /\ run'.nEventCount = Len(on)
      BY <1>1, <2>2
    <3>5. ASSUME NEW k, k = run.i PROVE TickInv(k)'
      <4>1. OwedBy(k)' = {on[n] : n \in 0 + 1 .. Len(on)}
        BY <2>1, <3>4, <3>5 DEF OwedBy, InTimer
      <4>2. 0 <= Len(on)
        BY <2>1, SMT
      <4> QED BY <2>1, <3>1, <3>2, <3>3, <3>4, <3>5, <4>1, <4>2 DEF TickInv
    <3> QED BY <3>4, <3>5
  <2>4. ASSUME NEW i \in DOMAIN timers, i # run.i PROVE TickInv(i)'
    <3>1. ~InTimer(i) /\ ~InTimer(i)'
      BY <1>1, <2>2, <2>4 DEF InTimer
    <3> QED BY <1>1, <3>1, TickKept DEF IInv, TurnInv
  <2>5. \A i \in DOMAIN timers : TickInv(i)'
    BY <2>2, <2>3, <2>4
  <2> QED BY <1>1, <1>2, <2>1, <2>2, <2>5, RunMovesIInv
<1> QED BY <1>3, <1>4 DEF Test, Theirs

\* The callback returns into the loop.
LEMMA OnTimerReturnsIInv ==
  ASSUME IInv, OnTimerReturns
  PROVE  IInv'
<1>1. /\ run.at = "callback" /\ ~undefined
      /\ UNCHANGED <<timers, log, refresh, stopped, undefined, requests>>
  BY DEF OnTimerReturns, Running
<1>2. run.i \in 1 .. run.count /\ run.count <= Len(timers)
  BY <1>1 DEF IInv, ThreadsInv
<1>3. /\ run' \in [at : {"loop"}, i : Nat, count : Nat, j : Nat, nEventCount : Nat]
      /\ run'.i = run.i /\ run'.count = run.count
      /\ run'.j = run.j /\ run'.nEventCount = run.nEventCount
  BY DEF OnTimerReturns, IInv, ThreadsInv
<1>4. \A i \in DOMAIN timers : TickInv(i)'
  BY <1>1, <1>3, TickKept DEF IInv, TurnInv, InTimer
<1> QED BY <1>1, <1>2, <1>3, <1>4, RunMovesIInv

\* Steps that leave the intervals alone keep the table.
LEMMA TableKept ==
  ASSUME TableInv, DOMAIN timers' = DOMAIN timers,
         \A k \in DOMAIN timers : timers'[k].nInterval = timers[k].nInterval,
         run.at # "released",
         \A p \in Asks : log'[p].last # "none" =>
           log[p].last # "none" \/ \E i \in DOMAIN timers : timers[i].nInterval = p[1]
  PROVE  TableInv'
BY DEF TableInv

\* Steps that leave the requests and arEvents alone keep what is said of them.
LEMMA ListsKept ==
  ASSUME ListsInv, DOMAIN timers' = DOMAIN timers,
         \A p \in Asks : log'[p].last = log[p].last /\ log'[p].mixed = log[p].mixed,
         \A k \in DOMAIN timers : /\ timers'[k].nInterval = timers[k].nInterval
                                  /\ timers'[k].arEvents = timers[k].arEvents
                                  /\ timers'[k].arAddEvents = timers[k].arAddEvents
                                  /\ timers'[k].arDelEvents = timers[k].arDelEvents
  PROVE  ListsInv'
BY DEF ListsInv, RequestInv

\* How often a deleted event may still tick is a number.
LEMMA ToComeFacts ==
  \A e, i : /\ ToCome(e, i) \in 0 .. 2
            /\ ToCome(e, i)' \in 0 .. 2
BY SMT DEF ToCome

\* Steps that log nothing and give no deleted event another tick keep the bound.
LEMMA LateKept ==
  ASSUME TypeInv, LateInv, DOMAIN timers' = DOMAIN timers, log' = log, ~undefined,
         \A k \in DOMAIN timers : timers'[k].nInterval = timers[k].nInterval,
         \A p \in Asks : \A i \in DOMAIN timers :
           log[p].last = "del" /\ ~log[p].mixed /\ timers[i].nInterval = p[1]
             => ToCome(p[2], i)' <= ToCome(p[2], i)
  PROVE  LateInv'
<1> SUFFICES ASSUME NEW p \in Asks, log[p].last = "del", ~log[p].mixed
             PROVE  /\ log[p].late <= 2
                    /\ \A i \in DOMAIN timers : timers[i].nInterval = p[1] =>
                         log[p].late + ToCome(p[2], i)' <= 2
  BY DEF LateInv
<1>1. /\ log[p].late <= 2
      /\ \A i \in DOMAIN timers : timers[i].nInterval = p[1] =>
           log[p].late + ToCome(p[2], i) <= 2
  BY DEF LateInv
<1>2. ASSUME NEW i \in DOMAIN timers, timers[i].nInterval = p[1]
      PROVE  log[p].late + ToCome(p[2], i)' <= 2
  <2>1. ToCome(p[2], i)' <= ToCome(p[2], i) /\ log[p].late + ToCome(p[2], i) <= 2
    BY <1>1, <1>2
  <2>2. ToCome(p[2], i)' \in Nat /\ ToCome(p[2], i) \in Nat /\ log[p].late \in Nat
    BY ToComeFacts, LogFacts, SMT
  <2> QED BY <2>1, <2>2, SMT
<1> QED BY <1>1, <1>2

\* Copying the events of a timer that owes nothing.
LEMMA CopyEventsIInv ==
  ASSUME IInv, CopyEvents
  PROVE  IInv'
<1>1. /\ refresh.at = "copy" /\ ~undefined
      /\ UNCHANGED <<log, run, stopped, undefined, requests>>
  BY DEF CopyEvents, Refreshing
<1>2. PICK i \in DOMAIN timers : i = refresh.i
  BY <1>1, PlaceFacts DEF IInv
<1> DEFINE t == timers[i]
           r == [t EXCEPT !.arOnEvents = SetToSeq(t.arEvents)]
<1>3. /\ i \in 1 .. refresh.count /\ refresh.count <= Len(timers)
      /\ timers \in Seq(TimerRecords) /\ t \in TimerRecords
      /\ timers' = [timers EXCEPT ![i] = r]
  BY <1>1, <1>2, TableFacts DEF IInv, ThreadsInv, CopyEvents, Mine
<1>4. /\ refresh' \in [at : {"publish"}, i : Nat, count : Nat]
      /\ refresh'.i = i /\ refresh'.count = refresh.count
  BY <1>2 DEF CopyEvents, IInv, ThreadsInv
<1>5. /\ SetToSeq(t.arEvents) \in Seq(Events) /\ IsInjective(SetToSeq(t.arEvents))
      /\ ToSet(SetToSeq(t.arEvents)) = t.arEvents
  BY <1>3, CopyFacts DEF TimerRecords
<1>6. /\ r \in TimerRecords
      /\ r.nInterval = t.nInterval /\ r.nEffectCount = t.nEffectCount /\ r.owed = t.owed
      /\ r.arOnEvents = SetToSeq(t.arEvents)
      /\ r.arEvents = t.arEvents /\ r.arAddEvents = t.arAddEvents /\ r.arDelEvents = t.arDelEvents
  BY <1>3, <1>5 DEF TimerRecords
<1> HIDE DEF r
<1>7. /\ timers' \in Seq(TimerRecords) /\ DOMAIN timers' = DOMAIN timers
      /\ Len(timers') = Len(timers) /\ timers'[i] = r
      /\ \A k \in DOMAIN timers : k # i => timers'[k] = timers[k]
  BY <1>2, <1>3, <1>6, UpdateFacts
<1>8. run.at # "released"
  BY <1>2, TableNotReleased DEF IInv
<1>9. TypeInv'
  BY <1>1, <1>7 DEF IInv, TypeInv
<1>10. ThreadsInv'
  BY <1>1, <1>2, <1>3, <1>4, <1>7, <1>8 DEF IInv, ThreadsInv
<1>11. TurnInv'
  <2>1. ASSUME NEW k \in DOMAIN timers, k # i PROVE TickInv(k)' /\ CopyInv(k)'
    <3>1. TickInv(k)'
      BY <1>1, <1>7, <2>1, TickKept DEF IInv, TurnInv, InTimer
    <3> QED BY <1>4, <2>1, <3>1 DEF CopyInv
  <2>2. t.nEffectCount = 0 /\ TickInv(i)
    BY <1>1, <1>2 DEF IInv, TurnInv, CopyInv
  <2>3. ~InTimer(i) /\ t.owed = {}
    BY <2>2, SMT DEF TickInv, OwedBy
  <2>4. TickInv(i)'
    BY <1>1, <1>6, <1>7, <2>2, <2>3, SMT DEF TickInv, OwedBy, InTimer
  <2>5. CopyInv(i)'
    BY <1>5, <1>6, <1>7, <2>2 DEF CopyInv
  <2> QED BY <1>7, <2>1, <2>4, <2>5 DEF TurnInv
<1>12. TableInv'
  BY <1>1, <1>6, <1>7, <1>8, TableKept DEF IInv
<1>13. ListsInv'
  BY <1>1, <1>6, <1>7, ListsKept DEF IInv
<1>14. LateInv'
  <2>1. ASSUME NEW k \in DOMAIN timers, NEW e PROVE ToCome(e, k)' = ToCome(e, k)
    <3>1. timers'[k].owed = timers[k].owed
      BY <1>6, <1>7
    <3>2. MayTick(e, k)' <=> MayTick(e, k)
      <4>1. CASE k = i
        BY <1>1, <1>2, <1>4, <1>5, <1>6, <1>7, <4>1 DEF MayTick
      <4>2. CASE k # i
        BY <1>1, <1>2, <1>4, <1>7, <4>2 DEF MayTick
      <4> QED BY <4>1, <4>2
    <3> QED BY <3>1, <3>2 DEF ToCome
  <2>2. \A k \in DOMAIN timers : \A e : ToCome(e, k)' <= ToCome(e, k)
    BY <2>1, ToComeFacts, SMT
  <2>3. \A k \in DOMAIN timers : timers'[k].nInterval = timers[k].nInterval
    BY <1>6, <1>7
  <2> QED BY <1>1, <1>7, <2>2, <2>3, LateKept DEF IInv
<1> QED BY <1>9, <1>10, <1>11, <1>12, <1>13, <1>14 DEF IInv

\* Setting the count to the number of events that were copied.
LEMMA PublishIInv ==
  ASSUME IInv, Publish
  PROVE  IInv'
<1>1. /\ refresh.at = "publish" /\ ~undefined
      /\ UNCHANGED <<log, run, stopped, undefined, requests>>
  BY DEF Publish, Refreshing
<1>2. PICK i \in DOMAIN timers : i = refresh.i
  BY <1>1, PlaceFacts DEF IInv
<1> DEFINE t == timers[i]
           on == t.arOnEvents
           r == [t EXCEPT !.nEffectCount = Len(on), !.elapsed = t.elapsed /\ Len(on) # 0,
                          !.owed = ToSet(on)]
<1>3. /\ i \in 1 .. refresh.count /\ refresh.count <= Len(timers)
      /\ timers \in Seq(TimerRecords) /\ t \in TimerRecords
  BY <1>1, <1>2, TableFacts DEF IInv, ThreadsInv
<1>4. timers' = [timers EXCEPT ![i] = r]
  BY <1>2, <1>3 DEF Publish, Mine
<1>5. /\ refresh' \in [at : {"requests"}, i : Nat, count : Nat]
      /\ refresh'.i = i /\ refresh'.count = refresh.count
  BY <1>2 DEF Publish, IInv, ThreadsInv
<1>6. t.nEffectCount = 0 /\ IsInjective(on) /\ TickInv(i)
  BY <1>1, <1>2 DEF IInv, TurnInv, CopyInv
<1>7. /\ on \in Seq(Events) /\ ToSet(on) \in SUBSET Events
      /\ Len(on) \in 0 .. Cardinality(Events) /\ Len(on) \in Nat /\ DOMAIN on = 1 .. Len(on)
  <2>1. on \in Seq(Events)
    BY <1>3 DEF TimerRecords
  <2> QED BY <1>6, <2>1, InjectiveLength, LenProperties, ElementOfSeq DEF ToSet
<1>8. /\ r \in TimerRecords
      /\ r.nInterval = t.nInterval /\ r.nEffectCount = Len(on) /\ r.owed = ToSet(on)
      /\ r.arOnEvents = on
      /\ r.arEvents = t.arEvents /\ r.arAddEvents = t.arAddEvents /\ r.arDelEvents = t.arDelEvents
  <2> HIDE DEF on
  <2> QED BY <1>3, <1>7 DEF TimerRecords, on
<1> HIDE DEF r
<1>9. /\ timers' \in Seq(TimerRecords) /\ DOMAIN timers' = DOMAIN timers
      /\ Len(timers') = Len(timers) /\ timers'[i] = r
      /\ \A k \in DOMAIN timers : k # i => timers'[k] = timers[k]
  BY <1>2, <1>3, <1>4, <1>8, UpdateFacts
<1>10. run.at # "released"
  BY <1>2, TableNotReleased DEF IInv
<1>11. TypeInv'
  BY <1>1, <1>9 DEF IInv, TypeInv
<1>12. ThreadsInv'
  BY <1>1, <1>2, <1>3, <1>5, <1>9, <1>10 DEF IInv, ThreadsInv
<1>13. ~InTimer(i) /\ t.owed = {}
  BY <1>6, SMT DEF TickInv, OwedBy
<1>14. TurnInv'
  <2>1. ASSUME NEW k \in DOMAIN timers PROVE CopyInv(k)'
    BY <1>5 DEF CopyInv
  <2>2. ASSUME NEW k \in DOMAIN timers, k # i PROVE TickInv(k)'
    BY <1>1, <1>9, <2>2, TickKept DEF IInv, TurnInv, InTimer
  <2>3. TickInv(i)'
    <3>1. ~InTimer(i)'
      BY <1>1, <1>13 DEF InTimer
    <3>2. Len(on) = 0 => ToSet(on) = {}
      BY <1>7, SMT DEF ToSet
    <3>3. OwedBy(i)' = ToSet(on)
      BY <1>8, <1>9, <3>1, <3>2 DEF OwedBy
    <3> QED BY <1>6, <1>8, <1>9, <3>1, <3>3 DEF TickInv
  <2> QED BY <1>9, <2>1, <2>2, <2>3 DEF TurnInv
<1>15. TableInv'
  BY <1>1, <1>8, <1>9, <1>10, TableKept DEF IInv
<1>16. ListsInv'
  BY <1>1, <1>8, <1>9, ListsKept DEF IInv
<1>17. LateInv'
  <2>1. ASSUME NEW k \in DOMAIN timers, NEW e PROVE ToCome(e, k)' = ToCome(e, k)
    <3>1. CASE k = i
      <4>1. MayTick(e, i) <=> e \in ToSet(on)
        BY <1>1, <1>2 DEF MayTick
      <4>2. ~MayTick(e, i)'
        BY <1>5, <1>9 DEF MayTick
      <4>3. e \notin timers[i].owed /\ (e \in timers'[i].owed <=> e \in ToSet(on))
        BY <1>8, <1>9, <1>13
      <4> HIDE DEF on
      <4> QED BY <3>1, <4>1, <4>2, <4>3, SMT DEF ToCome
    <3>2. CASE k # i
      <4>1. MayTick(e, k)' <=> MayTick(e, k)
        BY <1>1, <1>2, <1>5, <1>9, <3>2 DEF MayTick
      <4> QED BY <1>9, <3>2, <4>1 DEF ToCome
    <3> QED BY <3>1, <3>2
  <2>2. \A k \in DOMAIN timers : \A e : ToCome(e, k)' <= ToCome(e, k)
    BY <2>1, ToComeFacts, SMT
  <2>3. \A k \in DOMAIN timers : timers'[k].nInterval = timers[k].nInterval
    BY <1>8, <1>9
  <2> QED BY <1>1, <1>9, <2>2, <2>3, LateKept DEF IInv
<1> QED BY <1>11, <1>12, <1>14, <1>15, <1>16, <1>17 DEF IInv

\* What the timer thread does with a request: it takes the head of one list and
\* changes arEvents, and nothing else.
LEMMA TakenIInv ==
  ASSUME IInv, ~undefined, refresh.at \in {"add", "del"},
         UNCHANGED <<log, refresh, run, stopped, undefined, requests>>,
         NEW i \in DOMAIN timers, i = refresh.i,
         NEW r \in TimerRecords,
         timers' = [timers EXCEPT ![i] = r],
         r.nInterval = timers[i].nInterval, r.nEffectCount = timers[i].nEffectCount,
         r.owed = timers[i].owed, r.arOnEvents = timers[i].arOnEvents,
         \A p \in Asks : timers[i].nInterval = p[1] /\ ~log[p].mixed /\ RequestInv(p, timers[i])
                           => RequestInv(p, r)
  PROVE  IInv'
<1>1. /\ timers' \in Seq(TimerRecords) /\ DOMAIN timers' = DOMAIN timers
      /\ Len(timers') = Len(timers) /\ timers'[i] = r
      /\ \A k \in DOMAIN timers : k # i => timers'[k] = timers[k]
  BY TableFacts, UpdateFacts DEF IInv
<1>2. run.at # "released"
  BY TableNotReleased DEF IInv
<1>3. TypeInv'
  BY <1>1 DEF IInv, TypeInv
<1>4. ThreadsInv'
  BY <1>1, <1>2 DEF IInv, ThreadsInv
<1>5. TurnInv'
  <2>1. \A k \in DOMAIN timers : TickInv(k)'
    BY <1>1, TickKept DEF IInv, TurnInv, InTimer
  <2>2. \A k \in DOMAIN timers : CopyInv(k)'
    BY DEF CopyInv
  <2> QED BY <1>1, <2>1, <2>2 DEF TurnInv
<1>6. TableInv'
  BY <1>1, <1>2, TableKept DEF IInv
<1>7. ListsInv'
  <2> SUFFICES ASSUME NEW p \in Asks, NEW k \in DOMAIN timers,
                      timers'[k].nInterval = p[1], ~log[p].mixed
               PROVE  RequestInv(p, timers'[k])
    BY <1>1 DEF ListsInv, RequestInv
  <2>1. timers[k].nInterval = p[1]
    BY <1>1
  <2>2. RequestInv(p, timers[k])
    BY <2>1 DEF IInv, ListsInv
  <2> QED BY <1>1, <2>1, <2>2
<1>8. LateInv'
  <2>1. ASSUME NEW k \in DOMAIN timers, NEW e PROVE ToCome(e, k)' = ToCome(e, k)
    <3>1. MayTick(e, k)' <=> MayTick(e, k)
      BY <1>1 DEF MayTick
    <3> QED BY <1>1, <3>1 DEF ToCome
  <2>2. \A k \in DOMAIN timers : \A e : ToCome(e, k)' <= ToCome(e, k)
    BY <2>1, ToComeFacts, SMT
  <2>3. \A k \in DOMAIN timers : timers'[k].nInterval = timers[k].nInterval
    BY <1>1
  <2> QED BY <1>1, <2>2, <2>3, LateKept DEF IInv
<1> QED BY <1>3, <1>4, <1>5, <1>6, <1>7, <1>8 DEF IInv

\* Taking a request to add.
LEMMA TakeAddIInv ==
  ASSUME IInv, TakeAdd
  PROVE  IInv'
<1>1. /\ refresh.at = "add" /\ ~undefined
      /\ UNCHANGED <<log, refresh, run, stopped, undefined, requests>>
  BY DEF TakeAdd, Refreshing
<1>2. PICK i \in DOMAIN timers : i = refresh.i
  BY <1>1, PlaceFacts DEF IInv
<1> DEFINE t == timers[i]
           e == Head(t.arAddEvents)
           r == [t EXCEPT !.arAddEvents = Tail(t.arAddEvents), !.arEvents = t.arEvents \cup {e}]
<1>3. /\ t \in TimerRecords /\ t.arAddEvents \in Seq(Events) /\ t.arAddEvents # << >>
      /\ e \in Events /\ Tail(t.arAddEvents) \in Seq(Events)
  BY <1>1, <1>2, TableFacts, HeadTailProperties DEF IInv, TakeAdd, Mine, TimerRecords
<1>4. timers' = [timers EXCEPT ![i] = r]
  BY <1>2, <1>3 DEF TakeAdd, Mine
<1> HIDE DEF e
<1>5. /\ r \in TimerRecords
      /\ r.nInterval = t.nInterval /\ r.nEffectCount = t.nEffectCount
      /\ r.owed = t.owed /\ r.arOnEvents = t.arOnEvents
      /\ r.arAddEvents = Tail(t.arAddEvents) /\ r.arDelEvents = t.arDelEvents
      /\ r.arEvents = t.arEvents \cup {e}
  BY <1>3 DEF TimerRecords
<1> HIDE DEF r
<1>6. \A p \in Asks : RequestInv(p, t) => RequestInv(p, r)
  <2> TAKE p \in Asks
  <2>1. Contains(t.arAddEvents, p[2]) <=> e = p[2] \/ Contains(r.arAddEvents, p[2])
    BY <1>3, <1>5, ContainsTail DEF e
  <2> HIDE DEF t
  <2> QED BY <1>5, <2>1 DEF RequestInv
<1> QED BY <1>1, <1>2, <1>4, <1>5, <1>6, TakenIInv

\* Taking a request to delete.
LEMMA TakeDelIInv ==
  ASSUME IInv, TakeDel
  PROVE  IInv'
<1>1. /\ refresh.at = "del" /\ ~undefined
      /\ UNCHANGED <<log, refresh, run, stopped, undefined, requests>>
  BY DEF TakeDel, Refreshing
<1>2. PICK i \in DOMAIN timers : i = refresh.i
  BY <1>1, PlaceFacts DEF IInv
<1> DEFINE t == timers[i]
           e == Head(t.arDelEvents)
           r == [t EXCEPT !.arDelEvents = Tail(t.arDelEvents), !.arEvents = t.arEvents \ {e}]
<1>3. /\ t \in TimerRecords /\ t.arDelEvents \in Seq(Events) /\ t.arDelEvents # << >>
      /\ Tail(t.arDelEvents) \in Seq(Events)
  BY <1>1, <1>2, TableFacts, HeadTailProperties DEF IInv, TakeDel, Mine, TimerRecords
<1>4. timers' = [timers EXCEPT ![i] = r]
  BY <1>2, <1>3 DEF TakeDel, Mine
<1> HIDE DEF e
<1>5. /\ r \in TimerRecords
      /\ r.nInterval = t.nInterval /\ r.nEffectCount = t.nEffectCount
      /\ r.owed = t.owed /\ r.arOnEvents = t.arOnEvents
      /\ r.arAddEvents = t.arAddEvents /\ r.arDelEvents = Tail(t.arDelEvents)
      /\ r.arEvents = t.arEvents \ {e}
  BY <1>3 DEF TimerRecords
<1> HIDE DEF r
<1>6. \A p \in Asks : RequestInv(p, t) => RequestInv(p, r)
  <2> TAKE p \in Asks
  <2>1. Contains(t.arDelEvents, p[2]) <=> e = p[2] \/ Contains(r.arDelEvents, p[2])
    BY <1>3, <1>5, ContainsTail DEF e
  <2> HIDE DEF t
  <2> QED BY <1>5, <2>1 DEF RequestInv
<1> QED BY <1>1, <1>2, <1>4, <1>5, <1>6, TakenIInv

\* OnTimer takes the next event of the tick, which is still owed.
LEMMA OnTimerIInv ==
  ASSUME IInv, OnTimer
  PROVE  IInv'
<1>1. /\ run.at = "loop" /\ run.j < run.nEventCount /\ ~undefined
      /\ UNCHANGED <<refresh, stopped, undefined, requests>>
  BY DEF OnTimer, Running
<1>2. PICK i \in DOMAIN timers : i = run.i
  BY <1>1, PlaceFacts DEF IInv
<1> DEFINE t == timers[i]
           on == t.arOnEvents
           n == Len(on)
           j == run.j
           e == on[j + 1]
           p == <<t.nInterval, e>>
           r == [t EXCEPT !.owed = t.owed \ {e}]
<1>3. /\ i \in 1 .. run.count /\ run.count <= Len(timers)
      /\ timers \in Seq(TimerRecords) /\ t \in TimerRecords /\ on \in Seq(Events)
      /\ n \in Nat /\ DOMAIN on = 1 .. n /\ j \in Nat
  BY <1>1, <1>2, TableFacts, LenProperties DEF IInv, ThreadsInv, TimerRecords
<1>4. /\ timers' = [timers EXCEPT ![i] = r]
      /\ log' = [log EXCEPT ![p].heard = TRUE,
                            ![p].late = IF log[p].last = "del" /\ @ < 3 THEN @ + 1 ELSE @]
  BY <1>2, <1>3 DEF OnTimer, Theirs
<1>5. /\ run' \in [at : {"callback"}, i : Nat, count : Nat, j : Nat, nEventCount : Nat]
      /\ run'.i = i /\ run'.count = run.count /\ run'.j = j + 1
      /\ run'.nEventCount = run.nEventCount
  <2>1. j + 1 \in Nat
    BY <1>3, SMT
  <2> QED BY <1>2, <2>1 DEF OnTimer, IInv, ThreadsInv
<1>6. TickInv(i) /\ InTimer(i)
  BY <1>1, <1>2 DEF IInv, TurnInv, InTimer
<1>7. /\ t.nEffectCount > 0 /\ run.nEventCount = n /\ t.nEffectCount = n /\ t.nEffectCount # 0
      /\ IsInjective(on) /\ t.owed = {on[k] : k \in j + 1 .. n}
  <2>1. /\ t.nEffectCount > 0 /\ run.nEventCount = n /\ n = t.nEffectCount /\ IsInjective(on)
        /\ t.owed = OwedBy(i)
    BY <1>6 DEF TickInv
  <2>2. t.nEffectCount # 0
    BY <1>3, <2>1, SMT
  <2> QED BY <1>6, <2>1, <2>2 DEF OwedBy
<1>8. j + 1 \in j + 1 .. n /\ j + 1 \in 1 .. n /\ j + 1 <= n
  BY <1>1, <1>3, <1>7, SMT
<1>9. e \in Events /\ e \in t.owed
  BY <1>3, <1>7, <1>8, ElementOfSeq
<1>10. {on[k] : k \in j + 1 + 1 .. n} = t.owed \ {e}
  <2>1. \A k : k \in j + 1 + 1 .. n <=> k \in j + 1 .. n /\ k # j + 1
    BY <1>3, SMT
  <2>2. \A k \in j + 1 .. n : on[k] = e => k = j + 1
    <3>1. \A k \in j + 1 .. n : k \in 1 .. n
      BY <1>3, SMT
    <3> HIDE DEF on, n
    <3> QED BY <1>3, <1>7, <1>8, <3>1 DEF IsInjective
  <2> QED BY <1>7, <2>1, <2>2
<1>11. /\ r \in TimerRecords
       /\ r.nInterval = t.nInterval /\ r.nEffectCount = t.nEffectCount /\ r.owed = t.owed \ {e}
       /\ r.arOnEvents = on
       /\ r.arEvents = t.arEvents /\ r.arAddEvents = t.arAddEvents /\ r.arDelEvents = t.arDelEvents
  <2> HIDE DEF e
  <2> QED BY <1>3 DEF TimerRecords
<1> HIDE DEF r, e
<1>12. /\ timers' \in Seq(TimerRecords) /\ DOMAIN timers' = DOMAIN timers
       /\ Len(timers') = Len(timers) /\ timers'[i] = r
       /\ \A k \in DOMAIN timers : k # i => timers'[k] = timers[k]
  BY <1>2, <1>3, <1>4, <1>11, UpdateFacts
<1>13. /\ log' \in [Asks -> LogRecords]
       /\ \A q \in Asks : /\ log'[q].last = log[q].last /\ log'[q].mixed = log[q].mixed
                          /\ q # p => log'[q] = log[q]
                          /\ log'[q].late \in {log[q].late, log[q].late + 1}
  <2> HIDE DEF p
  <2>1. log \in [Asks -> LogRecords]
    BY DEF IInv, TypeInv
  <2>2. \A q \in Asks : log[q].late \in 0 .. 3 /\ (log[q].late < 3 => log[q].late + 1 \in 0 .. 3)
    <3> TAKE q \in Asks
    <3>1. log[q].late \in 0 .. 3
      BY LogFacts DEF IInv
    <3> QED BY <3>1, SMT
  <2>3. DOMAIN log' = Asks /\ \A q \in Asks : q # p => log'[q] = log[q]
    BY <1>4, <2>1
  <2>4. ASSUME p \in Asks
        PROVE  log'[p] = [log[p] EXCEPT !.heard = TRUE,
                            !.late = IF log[p].last = "del" /\ log[p].late < 3
                                     THEN log[p].late + 1 ELSE log[p].late]
    BY <1>4, <2>1, <2>4 DEF LogRecords
  <2>5. ASSUME p \in Asks
        PROVE  /\ log'[p] \in LogRecords
               /\ log'[p].last = log[p].last /\ log'[p].mixed = log[p].mixed
               /\ log'[p].late = IF log[p].last = "del" /\ log[p].late < 3
                                 THEN log[p].late + 1 ELSE log[p].late
    BY <2>1, <2>2, <2>4, <2>5 DEF LogRecords
  <2>6. \A q \in Asks : log'[q] \in LogRecords
    BY <2>1, <2>3, <2>5
  <2>7. log' \in [Asks -> LogRecords]
    <3>1. log' = [q \in Asks |-> log'[q]]
      BY <1>4, <2>1
    <3> QED BY <2>6, <3>1
  <2> QED BY <2>3, <2>5, <2>7
<1>14. run.at # "released" /\ \A k \in DOMAIN timers : timers'[k].nInterval = timers[k].nInterval
  BY <1>1, <1>11, <1>12
<1>15. TypeInv'
  BY <1>1, <1>12, <1>13 DEF IInv, TypeInv
<1>16. ThreadsInv'
  BY <1>1, <1>3, <1>5, <1>12 DEF IInv, ThreadsInv
<1>17. TurnInv'
  <2>1. ASSUME NEW k \in DOMAIN timers PROVE CopyInv(k)'
    <3>1. timers'[k].nEffectCount = timers[k].nEffectCount /\ timers'[k].arOnEvents = timers[k].arOnEvents
      BY <1>11, <1>12
    <3> QED BY <1>1, <3>1 DEF IInv, TurnInv, CopyInv
  <2>2. ASSUME NEW k \in DOMAIN timers, k # i PROVE TickInv(k)'
    <3>1. ~InTimer(k) /\ ~InTimer(k)'
      BY <1>2, <1>5, <2>2 DEF InTimer
    <3> QED BY <1>1, <1>12, <2>2, <3>1, TickKept DEF IInv, TurnInv
  <2>3. TickInv(i)'
    <3>1. InTimer(i)'
      BY <1>5 DEF InTimer
    <3>2. OwedBy(i)' = {on[k] : k \in j + 1 + 1 .. n}
      BY <1>5, <1>7, <1>11, <1>12, <3>1 DEF OwedBy
    <3> QED BY <1>5, <1>7, <1>8, <1>10, <1>11, <1>12, <3>1, <3>2 DEF TickInv
  <2> QED BY <1>12, <2>1, <2>2, <2>3 DEF TurnInv
<1>18. TableInv'
  BY <1>12, <1>13, <1>14, TableKept DEF IInv
<1>19. ListsInv'
  BY <1>11, <1>12, <1>13, ListsKept DEF IInv
<1>20. LateInv'
  <2> SUFFICES ASSUME NEW q \in Asks, log[q].last = "del", ~log[q].mixed
               PROVE  /\ log'[q].late <= 2
                      /\ \A k \in DOMAIN timers : timers[k].nInterval = q[1] =>
                           log'[q].late + ToCome(q[2], k)' <= 2
    BY <1>12, <1>13, <1>14 DEF LateInv
  <2>1. /\ log[q].late <= 2 /\ log[q].late \in Nat /\ log'[q].late \in Nat
        /\ log'[q].late <= log[q].late + 1
        /\ \A k \in DOMAIN timers : timers[k].nInterval = q[1] =>
             log[q].late + ToCome(q[2], k) <= 2
    <3>1. log[q].late \in Nat
      BY LogFacts DEF IInv
    <3>2. log'[q].late \in {log[q].late, log[q].late + 1}
      BY <1>13
    <3>3. log'[q].late \in Nat /\ log'[q].late <= log[q].late + 1
      BY <3>1, <3>2, SMT
    <3> QED BY <1>1, <3>1, <3>3 DEF IInv, LateInv
  <2>2. \A k \in DOMAIN timers : MayTick(q[2], k)' <=> MayTick(q[2], k)
    <3> TAKE k \in DOMAIN timers
    <3>1. timers'[k].arOnEvents = timers[k].arOnEvents /\ timers'[k].arEvents = timers[k].arEvents
      BY <1>11, <1>12
    <3> QED BY <1>1, <3>1 DEF MayTick
  <2>3. CASE q = p
    <3>1. q[1] = t.nInterval /\ q[2] = e
      BY <2>3
    <3>2. ToCome(q[2], i)' + 1 = ToCome(q[2], i)
      <4>1. q[2] \in timers[i].owed /\ q[2] \notin timers'[i].owed
        BY <1>9, <1>11, <1>12, <3>1
      <4>2. MayTick(q[2], i)' <=> MayTick(q[2], i)
        BY <2>2
      <4> QED BY <4>1, <4>2, SMT DEF ToCome
    <3>3. log[q].late + ToCome(q[2], i) <= 2 /\ ToCome(q[2], i)' \in Nat /\ ToCome(q[2], i) \in Nat
      BY <2>1, <3>1, ToComeFacts, SMT
    <3>4. log'[q].late + ToCome(q[2], i)' <= 2 /\ log'[q].late <= 2
      BY <2>1, <3>2, <3>3, SMT
    <3>5. \A k \in DOMAIN timers : timers[k].nInterval = q[1] => k = i
      BY <3>1 DEF IInv, TableInv
    <3> QED BY <3>1, <3>4, <3>5
  <2>4. CASE q # p
    <3>1. log'[q] = log[q]
      BY <1>13, <2>4
    <3>2. q = <<q[1], q[2]>>
      BY TimerAssumption
    <3>3. ASSUME NEW k \in DOMAIN timers, timers[k].nInterval = q[1]
          PROVE  ToCome(q[2], k)' = ToCome(q[2], k)
      <4>1. k = i => q[2] # e
        BY <2>4, <3>2, <3>3
      <4>2. q[2] \in timers'[k].owed <=> q[2] \in timers[k].owed
        BY <1>11, <1>12, <4>1
      <4> QED BY <2>2, <4>2 DEF ToCome
    <3> QED BY <2>1, <3>1, <3>3
  <2> QED BY <2>3, <2>4
<1> QED BY <1>15, <1>16, <1>17, <1>18, <1>19, <1>20 DEF IInv

\* A step that touches only whether the interval of a timer has passed, or its count.
LEMMA TimerTouched ==
  ASSUME IInv, ~undefined,
         UNCHANGED <<log, refresh, stopped, undefined, requests>>,
         NEW i \in DOMAIN timers, NEW passed \in BOOLEAN, NEW count \in 0 .. Cardinality(Events),
         timers' = [timers EXCEPT ![i] =
                      [timers[i] EXCEPT !.elapsed = passed, !.nEffectCount = count]]
  PROVE  /\ TypeInv' /\ TableInv' /\ ListsInv' /\ LateInv'
         /\ run.at # "released" /\ Len(timers') = Len(timers) /\ DOMAIN timers' = DOMAIN timers
         /\ timers'[i].nEffectCount = count
         /\ \A k \in DOMAIN timers :
              /\ timers'[k].arOnEvents = timers[k].arOnEvents
              /\ timers'[k].owed = timers[k].owed
              /\ k # i => timers'[k].nEffectCount = timers[k].nEffectCount
<1> DEFINE t == timers[i]
           r == [t EXCEPT !.elapsed = passed, !.nEffectCount = count]
<1>1. timers \in Seq(TimerRecords) /\ t \in TimerRecords
  BY TableFacts DEF IInv
<1>2. /\ r \in TimerRecords
      /\ r.nInterval = t.nInterval /\ r.nEffectCount = count /\ r.owed = t.owed
      /\ r.arOnEvents = t.arOnEvents
      /\ r.arEvents = t.arEvents /\ r.arAddEvents = t.arAddEvents /\ r.arDelEvents = t.arDelEvents
  BY <1>1 DEF TimerRecords
<1>3. timers' = [timers EXCEPT ![i] = r]
  OBVIOUS
<1> HIDE DEF r
<1>4. /\ timers' \in Seq(TimerRecords) /\ DOMAIN timers' = DOMAIN timers
      /\ Len(timers') = Len(timers) /\ timers'[i] = r
      /\ \A k \in DOMAIN timers : k # i => timers'[k] = timers[k]
  BY <1>1, <1>2, <1>3, UpdateFacts
<1>5. \A k \in DOMAIN timers :
        /\ timers'[k].nInterval = timers[k].nInterval
        /\ timers'[k].arOnEvents = timers[k].arOnEvents
        /\ timers'[k].owed = timers[k].owed
        /\ timers'[k].arEvents = timers[k].arEvents
        /\ timers'[k].arAddEvents = timers[k].arAddEvents
        /\ timers'[k].arDelEvents = timers[k].arDelEvents
  BY <1>2, <1>4
<1>6. run.at # "released"
  BY TableNotReleased DEF IInv
<1>7. TypeInv'
  BY <1>4 DEF IInv, TypeInv
<1>8. TableInv'
  BY <1>4, <1>5, <1>6, TableKept DEF IInv
<1>9. ListsInv'
  BY <1>4, <1>5, ListsKept DEF IInv
<1>10. LateInv'
  <2>1. \A k \in DOMAIN timers : \A e : ToCome(e, k)' = ToCome(e, k)
    BY <1>5 DEF ToCome, MayTick
  <2>2. \A k \in DOMAIN timers : \A e : ToCome(e, k)' <= ToCome(e, k)
    BY <2>1, ToComeFacts, SMT
  <2> QED BY <1>4, <1>5, <2>2, LateKept DEF IInv
<1> QED BY <1>2, <1>4, <1>5, <1>6, <1>7, <1>8, <1>9, <1>10

\* The count of a timer is at most the number of event ids.
LEMMA CountFacts ==
  ASSUME TypeInv, NEW i \in DOMAIN timers
  PROVE  /\ timers[i] \in TimerRecords
         /\ timers[i].nEffectCount \in 0 .. Cardinality(Events)
         /\ 0 \in 0 .. Cardinality(Events)
         /\ timers[i].elapsed \in BOOLEAN
         /\ Len(timers[i].arOnEvents) \in Nat
<1>1. timers[i] \in TimerRecords
  BY TableFacts
<1>2. Cardinality(Events) \in Nat
  BY FS_CardinalityType, TimerAssumption
<1>3. 0 \in 0 .. Cardinality(Events)
  BY <1>2, SMT
<1>4. timers[i].arOnEvents \in Seq(Events)
  BY <1>1 DEF TimerRecords
<1>5. Len(timers[i].arOnEvents) \in Nat
  BY <1>4, LenProperties
<1> QED BY <1>1, <1>3, <1>5 DEF TimerRecords

\* When the last OnTimer of a tick has returned, nothing is owed.
LEMMA SetLastTimeIInv ==
  ASSUME IInv, SetLastTime
  PROVE  IInv'
<1>1. /\ run.at = "loop" /\ run.j = run.nEventCount /\ ~undefined
      /\ UNCHANGED <<log, refresh, stopped, undefined, requests>>
  BY DEF SetLastTime, Running
<1>2. PICK i \in DOMAIN timers : i = run.i
  BY <1>1, PlaceFacts DEF IInv
<1>3. PICK passed \in BOOLEAN : timers' = [timers EXCEPT ![i].elapsed = passed]
  BY <1>2 DEF SetLastTime
<1> DEFINE count == timers[i].nEffectCount
<1>4. /\ count \in 0 .. Cardinality(Events)
      /\ timers' = [timers EXCEPT ![i] =
                      [timers[i] EXCEPT !.elapsed = passed, !.nEffectCount = count]]
  <2>1. count \in 0 .. Cardinality(Events) /\ timers[i] \in TimerRecords
    BY CountFacts DEF IInv
  <2>2. [timers[i] EXCEPT !.elapsed = passed, !.nEffectCount = count] =
        [timers[i] EXCEPT !.elapsed = passed]
    BY <2>1 DEF TimerRecords
  <2> QED BY <1>3, <2>1, <2>2
<1> HIDE DEF count
<1>5. /\ TypeInv' /\ TableInv' /\ ListsInv' /\ LateInv'
      /\ run.at # "released" /\ Len(timers') = Len(timers) /\ DOMAIN timers' = DOMAIN timers
      /\ \A k \in DOMAIN timers :
           /\ timers'[k].arOnEvents = timers[k].arOnEvents
           /\ timers'[k].owed = timers[k].owed
           /\ timers'[k].nEffectCount = timers[k].nEffectCount
  BY <1>1, <1>4, TimerTouched DEF count
<1>6. /\ run' \in [at : {"clear"}, i : Nat, count : Nat, j : Nat, nEventCount : Nat]
      /\ run'.i = i /\ run'.count = run.count
      /\ run'.j = run.j /\ run'.nEventCount = run.nEventCount
  BY <1>2 DEF SetLastTime, IInv, ThreadsInv
<1>7. ThreadsInv'
  BY <1>1, <1>2, <1>5, <1>6 DEF IInv, ThreadsInv
<1>8. TurnInv'
  <2>1. ASSUME NEW k \in DOMAIN timers PROVE CopyInv(k)'
    BY <1>1, <1>5 DEF IInv, TurnInv, CopyInv
  <2>2. ASSUME NEW k \in DOMAIN timers, k # i PROVE TickInv(k)'
    <3>1. ~InTimer(k) /\ ~InTimer(k)'
      BY <1>2, <1>6, <2>2 DEF InTimer
    <3> QED BY <1>1, <1>5, <3>1, TickKept DEF IInv, TurnInv
  <2>3. TickInv(i)'
    <3>1. InTimer(i) /\ InTimer(i)' /\ TickInv(i)
      BY <1>1, <1>2, <1>6 DEF InTimer, IInv, TurnInv
    <3>2. OwedBy(i)' = OwedBy(i)
      <4> DEFINE on == timers[i].arOnEvents
                 owing(j) == {on[k] : k \in j + 1 .. Len(on)}
      <4>1. OwedBy(i) = IF timers[i].nEffectCount = 0 THEN {} ELSE owing(run.j)
        BY <3>1 DEF OwedBy
      <4>2. OwedBy(i)' = IF timers[i].nEffectCount = 0 THEN {} ELSE owing(run'.j)
        BY <1>5, <3>1, Zenon DEF OwedBy
      <4> HIDE DEF owing
      <4> QED BY <1>6, <4>1, <4>2
    <3> QED BY <1>1, <1>5, <1>6, <3>1, <3>2 DEF TickInv
  <2> QED BY <1>5, <2>1, <2>2, <2>3 DEF TurnInv
<1> QED BY <1>5, <1>7, <1>8 DEF IInv

\* Giving the count back leaves a timer that owes nothing.
LEMMA ClearEffectIInv ==
  ASSUME IInv, ClearEffect
  PROVE  IInv'
<1>1. /\ run.at = "clear" /\ ~undefined
      /\ UNCHANGED <<log, refresh, stopped, undefined, requests>>
  BY DEF ClearEffect, Running
<1>2. PICK i \in DOMAIN timers : i = run.i
  BY <1>1, PlaceFacts DEF IInv
<1>3. timers' = [timers EXCEPT ![i].nEffectCount = 0]
  BY <1>2 DEF ClearEffect
<1> DEFINE passed == timers[i].elapsed
<1>4. /\ passed \in BOOLEAN /\ 0 \in 0 .. Cardinality(Events)
      /\ timers' = [timers EXCEPT ![i] =
                      [timers[i] EXCEPT !.elapsed = passed, !.nEffectCount = 0]]
  <2>1. passed \in BOOLEAN /\ timers[i] \in TimerRecords /\ 0 \in 0 .. Cardinality(Events)
    BY CountFacts DEF IInv
  <2>2. [timers[i] EXCEPT !.elapsed = passed, !.nEffectCount = 0] =
        [timers[i] EXCEPT !.nEffectCount = 0]
    BY <2>1 DEF TimerRecords
  <2> QED BY <1>3, <2>1, <2>2
<1> HIDE DEF passed
<1>5. /\ TypeInv' /\ TableInv' /\ ListsInv' /\ LateInv'
      /\ run.at # "released" /\ Len(timers') = Len(timers) /\ DOMAIN timers' = DOMAIN timers
      /\ timers'[i].nEffectCount = 0
      /\ \A k \in DOMAIN timers :
           /\ timers'[k].arOnEvents = timers[k].arOnEvents
           /\ timers'[k].owed = timers[k].owed
           /\ k # i => timers'[k].nEffectCount = timers[k].nEffectCount
  BY <1>1, <1>4, TimerTouched
<1>6. /\ run.i \in 1 .. run.count /\ run.count <= Len(timers)
  BY <1>1 DEF IInv, ThreadsInv
<1>7. /\ run' \in [at : {"test", "idle"}, i : Nat, count : Nat, j : Nat, nEventCount : Nat]
      /\ run'.at = "test" => run'.i \in 1 .. run'.count
      /\ run'.count = run.count
  BY <1>6, NextOfRunFacts DEF IInv, ClearEffect
<1>8. ThreadsInv'
  BY <1>1, <1>5, <1>6, <1>7 DEF IInv, ThreadsInv
<1>9. TurnInv'
  <2>1. \A k : ~InTimer(k)'
    BY <1>7 DEF InTimer
  <2>2. ASSUME NEW k \in DOMAIN timers PROVE CopyInv(k)'
    BY <1>1, <1>5 DEF IInv, TurnInv, CopyInv
  <2>3. ASSUME NEW k \in DOMAIN timers, k # i PROVE TickInv(k)'
    <3>1. ~InTimer(k)
      BY <1>2, <2>3 DEF InTimer
    <3> QED BY <1>1, <1>5, <2>1, <2>3, <3>1, TickKept DEF IInv, TurnInv
  <2>4. TickInv(i)'
    <3> DEFINE on == timers[i].arOnEvents
    <3>1. TickInv(i) /\ InTimer(i)
      BY <1>1, <1>2 DEF IInv, TurnInv, InTimer
    <3>2. run.j = Len(on) /\ timers[i].nEffectCount # 0 /\ timers[i].owed = OwedBy(i)
      <4>1. timers[i].nEffectCount > 0 /\ timers[i].nEffectCount \in 0 .. Cardinality(Events)
        BY <3>1, CountFacts DEF IInv, TickInv
      <4>2. timers[i].nEffectCount # 0
        BY <4>1, SMT
      <4> QED BY <1>1, <3>1, <4>2 DEF TickInv
    <3>3. timers[i].owed = {on[k] : k \in Len(on) + 1 .. Len(on)}
      BY <3>1, <3>2 DEF OwedBy
    <3>4. Len(on) + 1 .. Len(on) = {}
      <4>1. Len(on) \in Nat
        BY CountFacts DEF IInv
      <4> QED BY <4>1, SMT
    <3>5. timers[i].owed = {}
      BY <3>3, <3>4
    <3>6. OwedBy(i)' = {}
      BY <1>5 DEF OwedBy
    <3>7. ~(0 > 0)
      BY SMT
    <3> QED BY <1>5, <2>1, <3>5, <3>6, <3>7 DEF TickInv
  <2> QED BY <1>5, <2>2, <2>3, <2>4 DEF TurnInv
<1> QED BY <1>5, <1>8, <1>9 DEF IInv

\* Time passes.
LEMMA ElapseIInv ==
  ASSUME IInv, NEW i \in DOMAIN timers, Elapse(i)
  PROVE  IInv'
<1>1. /\ ~undefined
      /\ UNCHANGED <<log, refresh, stopped, undefined, requests>> /\ UNCHANGED run
  BY DEF Elapse
<1>2. PICK passed \in BOOLEAN : timers' = [timers EXCEPT ![i].elapsed = passed]
  BY DEF Elapse
<1> DEFINE count == timers[i].nEffectCount
<1>3. /\ count \in 0 .. Cardinality(Events)
      /\ timers' = [timers EXCEPT ![i] =
                      [timers[i] EXCEPT !.elapsed = passed, !.nEffectCount = count]]
  <2>1. count \in 0 .. Cardinality(Events) /\ timers[i] \in TimerRecords
    BY CountFacts DEF IInv
  <2>2. [timers[i] EXCEPT !.elapsed = passed, !.nEffectCount = count] =
        [timers[i] EXCEPT !.elapsed = passed]
    BY <2>1 DEF TimerRecords
  <2> QED BY <1>2, <2>1, <2>2
<1> HIDE DEF count
<1>4. /\ TypeInv' /\ TableInv' /\ ListsInv' /\ LateInv'
      /\ run.at # "released" /\ Len(timers') = Len(timers) /\ DOMAIN timers' = DOMAIN timers
      /\ \A k \in DOMAIN timers :
           /\ timers'[k].arOnEvents = timers[k].arOnEvents
           /\ timers'[k].owed = timers[k].owed
           /\ timers'[k].nEffectCount = timers[k].nEffectCount
  BY <1>1, <1>3, TimerTouched DEF count
<1>5. ThreadsInv'
  BY <1>1, <1>4 DEF IInv, ThreadsInv
<1>6. TurnInv'
  <2>1. ASSUME NEW k \in DOMAIN timers PROVE CopyInv(k)'
    BY <1>1, <1>4 DEF IInv, TurnInv, CopyInv
  <2>2. ASSUME NEW k \in DOMAIN timers PROVE TickInv(k)'
    BY <1>1, <1>4, TickKept DEF IInv, TurnInv, InTimer
  <2> QED BY <1>4, <2>1, <2>2 DEF TurnInv
<1> QED BY <1>4, <1>5, <1>6 DEF IInv

\* A request counts, and the program may make it between two calls of Run or in OnTimer.
LEMMA RequestFacts ==
  ASSUME TypeInv, Request
  PROVE  /\ ~undefined /\ run.at \in {"idle", "callback"}
         /\ requests' \in 0 .. MaxRequests
         /\ UNCHANGED <<refresh, run, stopped>>
<1>1. /\ ~undefined /\ run.at \in {"idle", "callback"} /\ UNCHANGED <<refresh, run, stopped>>
      /\ requests < MaxRequests /\ requests' = requests + 1
  BY DEF Request
<1>2. requests' \in 0 .. MaxRequests
  BY <1>1, TimerAssumption, SMT DEF TypeInv
<1> QED BY <1>1, <1>2

\* The log after a request for one event.
LEMMA AskedFacts ==
  ASSUME TypeInv, NEW p \in Asks, NEW what \in {"add", "del"}, NEW mixed \in BOOLEAN,
         log' = [log EXCEPT ![p] = Asked(what, mixed)]
  PROVE  /\ log' \in [Asks -> LogRecords]
         /\ log'[p].last = what /\ log'[p].mixed = mixed /\ log'[p].late = 0
         /\ \A q \in Asks : q # p => log'[q] = log[q]
<1>1. log \in [Asks -> LogRecords] /\ 0 \in 0 .. 3
  BY SMT DEF TypeInv
<1>2. Asked(what, mixed) \in LogRecords
  BY <1>1 DEF Asked, LogRecords
<1> QED BY <1>1, <1>2 DEF Asked

\* push_back of a timer for an interval that had none: nobody asked for its events before.
LEMMA PushBackIInv ==
  ASSUME IInv, ~undefined, run.at \in {"idle", "callback"}, requests' \in 0 .. MaxRequests,
         UNCHANGED <<refresh, run, stopped>>,
         NEW ms \in Intervals, NEW adds \in Seq(Events),
         TimersOf(ms) = {}, PushBack(NewTimer(ms, adds)),
         log' \in [Asks -> LogRecords],
         \A p \in Asks :
           IF p[1] = ms
           THEN log'[p].last = (IF Contains(adds, p[2]) THEN "add" ELSE "none")
           ELSE log'[p] = log[p]
  PROVE  IInv'
<1> DEFINE t == NewTimer(ms, adds)
<1>1. /\ t \in TimerRecords /\ t.nInterval = ms /\ t.nEffectCount = 0
      /\ t.arEvents = {} /\ t.owed = {} /\ t.arAddEvents = adds /\ t.arDelEvents = << >>
  <2>1. Cardinality(Events) \in Nat
    BY FS_CardinalityType, TimerAssumption
  <2>2. << >> \in Seq(Events) /\ 0 \in 0 .. Cardinality(Events)
    BY <2>1, EmptySeq, SMT
  <2> QED BY <2>2 DEF NewTimer, TimerRecords
<1>2. timers' = Append(timers, t) /\ undefined' \in BOOLEAN
  BY Zenon DEF PushBack
<1> HIDE DEF t
<1>3. /\ timers \in Seq(TimerRecords) /\ Len(timers) \in Nat /\ DOMAIN timers = 1 .. Len(timers)
  BY TableFacts DEF IInv
<1>4. /\ timers' \in Seq(TimerRecords) /\ Len(timers') = Len(timers) + 1
      /\ \A k \in 1 .. Len(timers) : timers'[k] = timers[k]
      /\ timers'[Len(timers) + 1] = t
  BY <1>1, <1>2, <1>3, AppendProperties
<1> PICK n : n = Len(timers) + 1
  OBVIOUS
<1>5. /\ DOMAIN timers' = (DOMAIN timers) \cup {n} /\ n \notin DOMAIN timers
      /\ Len(timers') = n /\ timers'[n] = t
      /\ \A k \in DOMAIN timers : timers'[k] = timers[k]
  <2>1. DOMAIN timers' = 1 .. Len(timers')
    BY <1>4, LenProperties
  <2>2. 1 .. Len(timers) + 1 = (1 .. Len(timers)) \cup {Len(timers) + 1}
        /\ Len(timers) + 1 \notin 1 .. Len(timers)
    BY <1>3, SMT
  <2> QED BY <1>3, <1>4, <2>1, <2>2
<1>6. \A k \in Nat : k <= Len(timers) => k <= Len(timers')
  BY <1>3, <1>4, SMT
<1>7. /\ refresh.at \notin {"wait", "ended"} => refresh.i \in DOMAIN timers
      /\ run.at \notin {"idle", "released"} => run.i \in DOMAIN timers
  BY PlaceFacts DEF IInv
<1>8. TypeInv'
  BY <1>2, <1>4 DEF IInv, TypeInv
<1>9. ThreadsInv'
  BY <1>6 DEF IInv, ThreadsInv
<1>10. TurnInv'
  <2>1. ASSUME NEW k \in DOMAIN timers PROVE TickInv(k)' /\ CopyInv(k)'
    <3>1. timers'[k] = timers[k] /\ TickInv(k) /\ CopyInv(k)
      BY <1>5 DEF IInv, TurnInv
    <3>2. TickInv(k)'
      BY <3>1, TickKept DEF InTimer
    <3> QED BY <3>1, <3>2 DEF CopyInv
  <2>2. ~InTimer(n)'
    BY <1>5, <1>7 DEF InTimer
  <2>3. TickInv(n)'
    <3>1. OwedBy(n)' = {} /\ ~(0 > 0)
      BY <1>1, <1>5, SMT DEF OwedBy
    <3> QED BY <1>1, <1>5, <2>2, <3>1 DEF TickInv
  <2>4. CopyInv(n)'
    BY <1>5, <1>7 DEF CopyInv
  <2> QED BY <1>5, <2>1, <2>3, <2>4 DEF TurnInv
<1>11. \A k \in DOMAIN timers : timers[k].nInterval # ms
  BY DEF TimersOf
<1>12. TableInv'
  <2>1. \A i, k \in DOMAIN timers' : timers'[i].nInterval = timers'[k].nInterval => i = k
    BY <1>1, <1>5, <1>11 DEF IInv, TableInv
  <2>2. ASSUME NEW p \in Asks, log'[p].last # "none"
        PROVE  \E i \in DOMAIN timers' : timers'[i].nInterval = p[1]
    <3>1. CASE p[1] = ms
      BY <1>1, <1>5, <3>1
    <3>2. CASE p[1] # ms
      BY <1>5, <2>2, <3>2 DEF IInv, TableInv
    <3> QED BY <3>1, <3>2
  <2> QED BY <2>1, <2>2 DEF TableInv
<1>13. ListsInv'
  <2> SUFFICES ASSUME NEW p \in Asks, NEW k \in DOMAIN timers',
                      timers'[k].nInterval = p[1], ~log'[p].mixed
               PROVE  RequestInv(p, timers[k])'
    BY DEF ListsInv
  <2>1. CASE k = n
    <3>1. p[1] = ms /\ timers'[k] = t /\ ~Contains(<< >>, p[2])
      BY <1>1, <1>5, <2>1, ContainsNothing
    <3> QED BY <1>1, <3>1 DEF RequestInv
  <2>2. CASE k \in DOMAIN timers
    <3>1. timers'[k] = timers[k] /\ timers[k].nInterval = p[1] /\ p[1] # ms /\ log'[p] = log[p]
      BY <1>5, <1>11, <2>2
    <3>2. RequestInv(p, timers[k])
      BY <2>2, <3>1 DEF IInv, ListsInv
    <3> QED BY <3>1, <3>2 DEF RequestInv
  <2> QED BY <1>5, <2>1, <2>2
<1>14. LateInv'
  <2> SUFFICES ASSUME NEW p \in Asks, log'[p].last = "del", ~log'[p].mixed
               PROVE  /\ log'[p].late <= 2
                      /\ \A k \in DOMAIN timers' : timers'[k].nInterval = p[1] =>
                           log'[p].late + ToCome(p[2], k)' <= 2
    BY DEF LateInv
  <2>1. p[1] # ms /\ log'[p] = log[p]
    OBVIOUS
  <2>2. ASSUME NEW k \in DOMAIN timers', timers'[k].nInterval = p[1]
        PROVE  log'[p].late + ToCome(p[2], k)' <= 2
    <3>1. k \in DOMAIN timers /\ timers'[k] = timers[k]
      BY <1>1, <1>5, <2>1, <2>2
    <3>2. ToCome(p[2], k)' = ToCome(p[2], k)
      BY <3>1 DEF ToCome, MayTick
    <3> QED BY <2>1, <2>2, <3>1, <3>2 DEF IInv, LateInv
  <2> QED BY <2>1, <2>2 DEF IInv, LateInv
<1> QED BY <1>8, <1>9, <1>10, <1>12, <1>13, <1>14 DEF IInv

\* A request for an event of a timer there is: it goes to the end of one of its lists,
\* and what was said of the other events of the timer still holds.
LEMMA ListedIInv ==
  ASSUME IInv, ~undefined, run.at \in {"idle", "callback"}, requests' \in 0 .. MaxRequests,
         UNCHANGED <<refresh, run, stopped, undefined>>,
         NEW i \in DOMAIN timers, NEW r \in TimerRecords,
         timers' = [timers EXCEPT ![i] = r],
         r.nInterval = timers[i].nInterval, r.nEffectCount = timers[i].nEffectCount,
         r.owed = timers[i].owed, r.arOnEvents = timers[i].arOnEvents,
         r.arEvents = timers[i].arEvents,
         NEW p \in Asks, p[1] = timers[i].nInterval,
         NEW what \in {"add", "del"}, NEW mixed \in BOOLEAN,
         log' = [log EXCEPT ![p] = Asked(what, mixed)],
         ~mixed => IF what = "add"
                   THEN ~Contains(r.arDelEvents, p[2]) /\ Contains(r.arAddEvents, p[2])
                   ELSE ~Contains(r.arAddEvents, p[2]) /\ Contains(r.arDelEvents, p[2]),
         \A e : e # p[2] =>
           /\ Contains(r.arAddEvents, e) <=> Contains(timers[i].arAddEvents, e)
           /\ Contains(r.arDelEvents, e) <=> Contains(timers[i].arDelEvents, e)
  PROVE  IInv'
<1>1. /\ timers' \in Seq(TimerRecords) /\ DOMAIN timers' = DOMAIN timers
      /\ Len(timers') = Len(timers) /\ timers'[i] = r
      /\ \A k \in DOMAIN timers : k # i => timers'[k] = timers[k]
  BY TableFacts, UpdateFacts DEF IInv
<1>2. /\ log' \in [Asks -> LogRecords]
      /\ log'[p].last = what /\ log'[p].mixed = mixed /\ log'[p].late = 0
      /\ \A q \in Asks : q # p => log'[q] = log[q]
  BY AskedFacts DEF IInv
<1>3. \A k \in DOMAIN timers :
        /\ timers'[k].nInterval = timers[k].nInterval
        /\ timers'[k].nEffectCount = timers[k].nEffectCount
        /\ timers'[k].owed = timers[k].owed
        /\ timers'[k].arOnEvents = timers[k].arOnEvents
        /\ timers'[k].arEvents = timers[k].arEvents
  BY <1>1
<1>4. TypeInv'
  BY <1>1, <1>2 DEF IInv, TypeInv
<1>5. ThreadsInv'
  BY <1>1 DEF IInv, ThreadsInv
<1>6. TurnInv'
  <2>1. \A k \in DOMAIN timers : TickInv(k)'
    BY <1>3, TickKept DEF IInv, TurnInv, InTimer
  <2>2. \A k \in DOMAIN timers : CopyInv(k)'
    BY <1>3 DEF IInv, TurnInv, CopyInv
  <2> QED BY <1>1, <2>1, <2>2 DEF TurnInv
<1>7. TableInv'
  <2>1. \A q \in Asks : log'[q].last # "none" =>
          log[q].last # "none" \/ \E k \in DOMAIN timers : timers[k].nInterval = q[1]
    BY <1>2
  <2> QED BY <1>1, <1>3, <2>1, TableKept DEF IInv
<1>8. \A k \in DOMAIN timers : timers[k].nInterval = p[1] => k = i
  BY DEF IInv, TableInv
<1>9. \A q \in Asks : q[1] = p[1] /\ q[2] = p[2] => q = p
  <2>1. \A q \in Asks : q = <<q[1], q[2]>>
    BY TimerAssumption
  <2> QED BY <2>1
<1>10. ListsInv'
  <2> SUFFICES ASSUME NEW q \in Asks, NEW k \in DOMAIN timers,
                      timers[k].nInterval = q[1], ~log'[q].mixed
               PROVE  RequestInv(q, timers[k])'
    BY <1>1, <1>3 DEF ListsInv
  <2>1. CASE q = p
    <3>1. k = i /\ timers'[k] = r /\ ~mixed
      BY <1>1, <1>2, <1>8, <2>1
    <3> QED BY <1>2, <2>1, <3>1 DEF RequestInv
  <2>2. CASE q # p
    <3>1. log'[q] = log[q] /\ RequestInv(q, timers[k])
      BY <1>2, <2>2 DEF IInv, ListsInv
    <3>2. CASE k = i
      <4>1. q[2] # p[2] /\ timers'[k] = r
        BY <1>1, <1>9, <2>2, <3>2
      <4>2. /\ Contains(r.arAddEvents, q[2]) <=> Contains(timers[i].arAddEvents, q[2])
            /\ Contains(r.arDelEvents, q[2]) <=> Contains(timers[i].arDelEvents, q[2])
        BY <4>1
      <4> QED BY <3>1, <3>2, <4>1, <4>2 DEF RequestInv
    <3>3. CASE k # i
      BY <1>1, <3>1, <3>3 DEF RequestInv
    <3> QED BY <3>2, <3>3
  <2> QED BY <2>1, <2>2
<1>11. LateInv'
  <2> SUFFICES ASSUME NEW q \in Asks, log'[q].last = "del", ~log'[q].mixed
               PROVE  /\ log'[q].late <= 2
                      /\ \A k \in DOMAIN timers : timers[k].nInterval = q[1] =>
                           log'[q].late + ToCome(q[2], k)' <= 2
    BY <1>1, <1>3 DEF LateInv
  <2>1. \A k \in DOMAIN timers : ToCome(q[2], k)' = ToCome(q[2], k)
    BY <1>3 DEF ToCome, MayTick
  <2>2. CASE q = p
    <3>1. log'[q].late = 0
      BY <1>2, <2>2
    <3>2. ASSUME NEW k \in DOMAIN timers PROVE 0 + ToCome(q[2], k)' <= 2
      BY ToComeFacts, SMT
    <3>3. 0 <= 2
      BY SMT
    <3> QED BY <3>1, <3>2, <3>3
  <2>3. CASE q # p
    <3>1. log'[q] = log[q]
      BY <1>2, <2>3
    <3> QED BY <2>1, <3>1 DEF IInv, LateInv
  <2> QED BY <2>2, <2>3
<1> QED BY <1>4, <1>5, <1>6, <1>7, <1>10, <1>11 DEF IInv

\* A new interval.
LEMMA AddIntervalIInv ==
  ASSUME IInv, NEW ms \in Intervals, AddInterval(ms)
  PROVE  IInv'
<1>1. /\ ~undefined /\ run.at \in {"idle", "callback"} /\ requests' \in 0 .. MaxRequests
      /\ UNCHANGED <<refresh, run, stopped>>
  BY RequestFacts DEF IInv, AddInterval
<1>2. TimersOf(ms) = {} /\ PushBack(NewTimer(ms, << >>)) /\ log' = log
  BY DEF AddInterval
<1>3. /\ << >> \in Seq(Events) /\ log' \in [Asks -> LogRecords]
  BY <1>2, EmptySeq DEF IInv, TypeInv
<1>4. \A p \in Asks : p[1] = ms => log[p].last = "none"
  <2>1. run.at # "released" /\ \A k \in DOMAIN timers : timers[k].nInterval # ms
    BY <1>1, <1>2 DEF TimersOf
  <2> QED BY <2>1 DEF IInv, TableInv
<1>5. \A p \in Asks :
        IF p[1] = ms THEN log'[p].last = (IF Contains(<< >>, p[2]) THEN "add" ELSE "none")
        ELSE log'[p] = log[p]
  BY <1>2, <1>4, ContainsNothing
<1> QED BY <1>1, <1>2, <1>3, <1>5, PushBackIInv

\* A new event, for a new interval or for a timer there is.
LEMMA AddTimerIInv ==
  ASSUME IInv, NEW p \in Asks, AddTimer(p[1], p[2])
  PROVE  IInv'
<1>1. /\ ~undefined /\ run.at \in {"idle", "callback"} /\ requests' \in 0 .. MaxRequests
      /\ UNCHANGED <<refresh, run, stopped>>
  BY RequestFacts DEF IInv, AddTimer
<1>2. p[1] \in Intervals /\ p[2] \in Events /\ p = <<p[1], p[2]>>
  BY TimerAssumption
<1>3. CASE /\ TimersOf(p[1]) = {}
           /\ PushBack(NewTimer(p[1], <<p[2]>>))
           /\ log' = [log EXCEPT ![<<p[1], p[2]>>] = Asked("add", FALSE)]
  <2>1. /\ log' \in [Asks -> LogRecords] /\ log'[p].last = "add"
        /\ \A q \in Asks : q # p => log'[q] = log[q]
    BY <1>2, <1>3, AskedFacts DEF IInv
  <2>2. <<p[2]>> \in Seq(Events) /\ \A x : Contains(<<p[2]>>, x) <=> x = p[2]
    BY <1>2, ContainsOne
  <2>3. \A q \in Asks : q[1] = p[1] => log[q].last = "none"
    <3>1. run.at # "released" /\ \A k \in DOMAIN timers : timers[k].nInterval # p[1]
      BY <1>1, <1>3 DEF TimersOf
    <3> QED BY <3>1 DEF IInv, TableInv
  <2>4. \A q \in Asks : q = <<q[1], q[2]>>
    BY TimerAssumption
  <2>5. \A q \in Asks :
          IF q[1] = p[1] THEN log'[q].last = (IF Contains(<<p[2]>>, q[2]) THEN "add" ELSE "none")
          ELSE log'[q] = log[q]
    BY <2>1, <2>2, <2>3, <2>4
  <2> QED BY <1>1, <1>2, <1>3, <2>1, <2>2, <2>5, PushBackIInv
<1>4. CASE /\ \E i \in TimersOf(p[1]) :
                /\ timers' = [timers EXCEPT ![i].arAddEvents = Append(@, p[2])]
                /\ log' = [log EXCEPT ![<<p[1], p[2]>>] =
                             Asked("add", Contains(timers[i].arDelEvents, p[2]))]
           /\ UNCHANGED undefined
  <2>1. PICK i \in DOMAIN timers :
          /\ timers[i].nInterval = p[1]
          /\ timers' = [timers EXCEPT ![i].arAddEvents = Append(@, p[2])]
          /\ log' = [log EXCEPT ![p] = Asked("add", Contains(timers[i].arDelEvents, p[2]))]
    BY <1>2, <1>4 DEF TimersOf
  <2> DEFINE t == timers[i]
             adds == Append(t.arAddEvents, p[2])
             mixed == Contains(t.arDelEvents, p[2])
             r == [t EXCEPT !.arAddEvents = adds]
  <2>2. t \in TimerRecords /\ t.arAddEvents \in Seq(Events)
    BY TableFacts DEF IInv, TimerRecords
  <2>3. adds \in Seq(Events) /\ \A x : Contains(adds, x) <=> Contains(t.arAddEvents, x) \/ x = p[2]
    BY <1>2, <2>2, AppendProperties, ContainsAppend
  <2>4. timers' = [timers EXCEPT ![i] = r]
    BY <2>1
  <2>5. mixed \in BOOLEAN
    BY DEF Contains
  <2> HIDE DEF adds
  <2>6. /\ r \in TimerRecords
        /\ r.nInterval = t.nInterval /\ r.nEffectCount = t.nEffectCount /\ r.owed = t.owed
        /\ r.arOnEvents = t.arOnEvents /\ r.arEvents = t.arEvents
        /\ r.arAddEvents = adds /\ r.arDelEvents = t.arDelEvents
    BY <2>2, <2>3 DEF TimerRecords
  <2> HIDE DEF r
  <2>7. ~mixed => ~Contains(r.arDelEvents, p[2]) /\ Contains(r.arAddEvents, p[2])
    BY <2>3, <2>6
  <2>8. \A e : e # p[2] =>
          /\ Contains(r.arAddEvents, e) <=> Contains(t.arAddEvents, e)
          /\ Contains(r.arDelEvents, e) <=> Contains(t.arDelEvents, e)
    BY <2>3, <2>6
  <2>9. p[1] = timers[i].nInterval /\ log' = [log EXCEPT ![p] = Asked("add", mixed)]
        /\ UNCHANGED undefined
    BY <1>4, <2>1
  <2> HIDE DEF mixed
  <2> QED BY <1>1, <2>4, <2>5, <2>6, <2>7, <2>8, <2>9, ListedIInv
<1> QED BY <1>3, <1>4 DEF AddTimer

\* A request to delete, for a timer there is.
LEMMA DelTimerIInv ==
  ASSUME IInv, NEW p \in Asks, DelTimer(p[1], p[2])
  PROVE  IInv'
<1>1. /\ ~undefined /\ run.at \in {"idle", "callback"} /\ requests' \in 0 .. MaxRequests
      /\ UNCHANGED <<refresh, run, stopped, undefined>>
  BY RequestFacts DEF IInv, DelTimer
<1>2. p[2] \in Events /\ p = <<p[1], p[2]>>
  BY TimerAssumption
<1>3. PICK i \in DOMAIN timers :
        /\ timers[i].nInterval = p[1]
        /\ timers' = [timers EXCEPT ![i].arDelEvents = Append(@, p[2])]
        /\ log' = [log EXCEPT ![p] = Asked("del", Contains(timers[i].arAddEvents, p[2]))]
  BY <1>2 DEF DelTimer, TimersOf
<1> DEFINE t == timers[i]
           dels == Append(t.arDelEvents, p[2])
           mixed == Contains(t.arAddEvents, p[2])
           r == [t EXCEPT !.arDelEvents = dels]
<1>4. t \in TimerRecords /\ t.arDelEvents \in Seq(Events)
  BY TableFacts DEF IInv, TimerRecords
<1>5. dels \in Seq(Events) /\ \A x : Contains(dels, x) <=> Contains(t.arDelEvents, x) \/ x = p[2]
  BY <1>2, <1>4, AppendProperties, ContainsAppend
<1>6. timers' = [timers EXCEPT ![i] = r]
  BY <1>3
<1>7. mixed \in BOOLEAN
  BY DEF Contains
<1> HIDE DEF dels
<1>8. /\ r \in TimerRecords
      /\ r.nInterval = t.nInterval /\ r.nEffectCount = t.nEffectCount /\ r.owed = t.owed
      /\ r.arOnEvents = t.arOnEvents /\ r.arEvents = t.arEvents
      /\ r.arAddEvents = t.arAddEvents /\ r.arDelEvents = dels
  BY <1>4, <1>5 DEF TimerRecords
<1> HIDE DEF r
<1>9. ~mixed => ~Contains(r.arAddEvents, p[2]) /\ Contains(r.arDelEvents, p[2])
  BY <1>5, <1>8
<1>10. \A e : e # p[2] =>
         /\ Contains(r.arAddEvents, e) <=> Contains(t.arAddEvents, e)
         /\ Contains(r.arDelEvents, e) <=> Contains(t.arDelEvents, e)
  BY <1>5, <1>8
<1>11. p[1] = timers[i].nInterval /\ log' = [log EXCEPT ![p] = Asked("del", mixed)]
  BY <1>3
<1> HIDE DEF mixed
<1> QED BY <1>1, <1>6, <1>7, <1>8, <1>9, <1>10, <1>11, ListedIInv

\* Stop only says so to the timer thread.
LEMMA StopIInv ==
  ASSUME IInv, Stop
  PROVE  IInv'
<1>1. stopped' = TRUE /\ UNCHANGED <<timers, refresh, run, undefined, requests, log>>
  BY DEF Stop
<1>2. TypeInv'
  BY <1>1 DEF IInv, TypeInv
<1>3. ThreadsInv'
  BY <1>1 DEF IInv, ThreadsInv
<1>4. TurnInv'
  <2>1. \A i : TickInv(i) => TickInv(i)'
    BY <1>1, TickKept DEF InTimer
  <2>2. \A i : CopyInv(i) => CopyInv(i)'
    BY <1>1 DEF CopyInv
  <2> QED BY <1>1, <2>1, <2>2 DEF IInv, TurnInv
<1>5. TableInv' /\ ListsInv'
  BY <1>1 DEF IInv, TableInv, ListsInv, RequestInv
<1>6. LateInv'
  <2>1. \A e, i : ToCome(e, i)' = ToCome(e, i)
    BY <1>1 DEF ToCome, MayTick
  <2> QED BY <1>1, <2>1 DEF IInv, LateInv
<1> QED BY <1>2, <1>3, <1>4, <1>5, <1>6 DEF IInv

\* Release leaves an empty table; if the timer thread was in it, anything may follow.
LEMMA ReleaseIInv ==
  ASSUME IInv, Release
  PROVE  IInv'
<1>1. /\ timers' = << >> /\ ~undefined /\ run.at = "idle"
      /\ undefined' = (refresh.at \notin {"wait", "ended"})
      /\ run' = [run EXCEPT !.at = "released"]
      /\ UNCHANGED <<refresh, stopped, requests, log>>
  BY DEF Release
<1>2. timers' \in Seq(TimerRecords) /\ DOMAIN timers' = {}
  <2>1. << >> \in Seq(TimerRecords) /\ Len(<< >>) = 0
    BY EmptySeq
  <2>2. DOMAIN << >> = 1 .. 0
    BY <2>1, LenProperties
  <2> QED BY <1>1, <2>1, <2>2, SMT
<1>3. run' \in [at : {"released"}, i : Nat, count : Nat, j : Nat, nEventCount : Nat]
  BY <1>1 DEF IInv, ThreadsInv
<1>4. TypeInv'
  BY <1>1, <1>2 DEF IInv, TypeInv
<1>5. ThreadsInv'
  BY <1>1, <1>3 DEF IInv, ThreadsInv
<1>6. TurnInv' /\ TableInv' /\ ListsInv'
  BY <1>2, <1>3 DEF TurnInv, TableInv, ListsInv
<1>7. LateInv'
  BY <1>1, <1>2 DEF IInv, LateInv
<1> QED BY <1>4, <1>5, <1>6, <1>7 DEF IInv

\* A step that changes nothing.
LEMMA StutterIInv ==
  ASSUME IInv, UNCHANGED vars
  PROVE  IInv'
<1>1. UNCHANGED <<timers, refresh, run, stopped, undefined, requests, log>>
  BY DEF vars
<1>2. TypeInv' /\ ThreadsInv'
  BY <1>1 DEF IInv, TypeInv, ThreadsInv
<1>3. TurnInv'
  <2>1. \A i : TickInv(i) => TickInv(i)'
    BY <1>1, TickKept DEF InTimer
  <2>2. \A i : CopyInv(i) => CopyInv(i)'
    BY <1>1 DEF CopyInv
  <2> QED BY <1>1, <2>1, <2>2 DEF IInv, TurnInv
<1>4. TableInv' /\ ListsInv'
  BY <1>1 DEF IInv, TableInv, ListsInv, RequestInv
<1>5. LateInv'
  <2>1. \A e, i : ToCome(e, i)' = ToCome(e, i)
    BY <1>1 DEF ToCome, MayTick
  <2> QED BY <1>1, <2>1 DEF IInv, LateInv
<1> QED BY <1>2, <1>3, <1>4, <1>5 DEF IInv

\* Every step of the two threads, of the program and of the clock keeps the invariant.
LEMMA NextIInv == IInv /\ [Next]_vars => IInv'
<1> SUFFICES ASSUME IInv, [Next]_vars PROVE IInv'
  OBVIOUS
<1>1. CASE Refresh
  BY <1>1, RefreshBeginsIInv, ThreadEndsIInv, LookIInv, CopyEventsIInv, PublishIInv,
     LookForRequestsIInv, TakeAddIInv, NoMoreAddsIInv, TakeDelIInv, NoMoreDelsIInv DEF Refresh
<1>2. CASE Run
  BY <1>2, RunBeginsIInv, TestIInv, OnTimerIInv, OnTimerReturnsIInv, SetLastTimeIInv,
     ClearEffectIInv DEF Run
<1>3. ASSUME NEW ms \in Intervals, AddInterval(ms) PROVE IInv'
  BY <1>3, AddIntervalIInv
<1>4. ASSUME NEW p \in Asks, AddTimer(p[1], p[2]) \/ DelTimer(p[1], p[2]) PROVE IInv'
  BY <1>4, AddTimerIInv, DelTimerIInv
<1>5. CASE Stop
  BY <1>5, StopIInv
<1>6. CASE Release
  BY <1>6, ReleaseIInv
<1>7. ASSUME NEW i \in DOMAIN timers, Elapse(i) PROVE IInv'
  BY <1>7, ElapseIInv
<1>8. CASE UNCHANGED vars
  BY <1>8, StutterIInv
<1> QED BY <1>1, <1>2, <1>3, <1>4, <1>5, <1>6, <1>7, <1>8 DEF Next

--------------------------------------------------------------------------------
(* What the timer promises                                                  *)

\* The inductive invariant holds in every reachable state.
THEOREM Invariance == Spec => []IInv
BY InitIInv, NextIInv, PTL DEF Spec

\* The table, the two threads and the log keep their types, for any events and requests.
THEOREM TypeCorrect == Spec => []TypeOK
<1>1. IInv => TypeOK
  BY DEF IInv, TypeInv, ThreadsInv, TypeOK, TimerRecords, LogRecords
<1> QED BY <1>1, Invariance, PTL

\* m_nEffectCount does what a lock would do: while the timer thread rewrites arOnEvents
\* of a timer, no call of its last tick is owed and Run is not in that timer.
THEOREM TurnsAreTaken == Spec => []TicksDoNotOverlap
<1>1. IInv => TicksDoNotOverlap
  <2> SUFFICES ASSUME IInv, ~undefined, refresh.at \in {"copy", "publish"}
               PROVE  Mine.owed = {} /\ ~InTimer(refresh.i)
    BY DEF TicksDoNotOverlap
  <2>1. PICK i \in DOMAIN timers : i = refresh.i
    BY PlaceFacts DEF IInv
  <2>2. TickInv(i) /\ timers[i].nEffectCount = 0
    BY <2>1 DEF IInv, TurnInv, CopyInv
  <2>3. ~(0 > 0)
    BY SMT
  <2>4. ~InTimer(i) /\ timers[i].owed = {}
    BY <2>2, <2>3 DEF TickInv, OwedBy
  <2> QED BY <2>1, <2>4 DEF Mine
<1> QED BY <1>1, Invariance, PTL

\* What is left of a sequence without repetitions has none, and is what comes after.
LEMMA AheadFacts ==
  ASSUME NEW s \in Seq(Events), IsInjective(s), NEW j \in 0 .. Len(s)
  PROVE  LET ahead == SubSeq(s, j + 1, Len(s))
         IN  /\ ToSet(ahead) = {s[k] : k \in j + 1 .. Len(s)}
             /\ IsInjective(ahead)
<1> DEFINE n == Len(s)
           ahead == SubSeq(s, j + 1, n)
           left == n - j
<1>1. n \in Nat /\ DOMAIN s = 1 .. n /\ j \in Nat /\ j <= n /\ left \in Nat /\ j + 1 \in Int
  BY LenProperties, SMT
<1>2. \A k \in j + 1 .. n : k \in 1 .. n /\ s[k] \in Events
  <2>1. \A k \in Int : k \in j + 1 .. n => k \in 1 .. n
    BY <1>1, SMT
  <2> QED BY <1>1, <2>1, ElementOfSeq
<1>3. /\ ahead \in Seq(Events) /\ Len(ahead) = left
      /\ \A k \in 1 .. left : ahead[k] = s[j + k]
  <2>1. /\ ahead \in Seq(Events)
        /\ Len(ahead) = IF j + 1 <= n THEN n - (j + 1) + 1 ELSE 0
        /\ \A k \in 1 .. n - (j + 1) + 1 : ahead[k] = s[(j + 1) + k - 1]
    BY <1>1, <1>2, SubSeqProperties
  <2>2. (IF j + 1 <= n THEN n - (j + 1) + 1 ELSE 0) = left /\ n - (j + 1) + 1 = left
    <3> HIDE DEF n
    <3>1. n \in Nat /\ j \in Nat /\ j <= n
      BY <1>1
    <3>2. j + 1 <= n \/ j = n
      BY <3>1, SMT
    <3> QED BY <3>1, <3>2, SMT
  <2>3. \A k \in 1 .. left : (j + 1) + k - 1 = j + k
    BY <1>1, SMT
  <2> HIDE DEF left, ahead, n
  <2> QED BY <2>1, <2>2, <2>3
<1>4. DOMAIN ahead = 1 .. left
  BY <1>3, LenProperties
<1>5. /\ \A k \in 1 .. left : j + k \in j + 1 .. n
      /\ \A k \in j + 1 .. n : k - j \in 1 .. left /\ j + (k - j) = k
      /\ \A a, b \in 1 .. left : j + a = j + b => a = b
  BY <1>1, SMT
<1> HIDE DEF ahead, n, left
<1>6. ToSet(ahead) = {s[k] : k \in j + 1 .. n}
  <2>1. ASSUME NEW x \in ToSet(ahead) PROVE x \in {s[k] : k \in j + 1 .. n}
    BY <1>3, <1>4, <1>5 DEF ToSet
  <2>2. ASSUME NEW k \in j + 1 .. n PROVE s[k] \in ToSet(ahead)
    <3>1. ahead[k - j] = s[k] /\ k - j \in DOMAIN ahead
      BY <1>3, <1>4, <1>5
    <3> QED BY <3>1 DEF ToSet
  <2> QED BY <2>1, <2>2
<1>7. IsInjective(ahead)
  <2> SUFFICES ASSUME NEW a \in 1 .. left, NEW b \in 1 .. left, ahead[a] = ahead[b]
               PROVE  a = b
    BY <1>4 DEF IsInjective
  <2>1. s[j + a] = s[j + b] /\ j + a \in DOMAIN s /\ j + b \in DOMAIN s
    BY <1>1, <1>2, <1>3, <1>5
  <2>2. j + a = j + b
    BY <2>1 DEF IsInjective
  <2> QED BY <1>5, <2>2
<1> QED BY <1>6, <1>7 DEF ahead, n

\* Run calls OnTimer for each event of a tick once, whatever is added and deleted
\* meanwhile: what is ahead of it is what the tick asked for and was not called.
THEOREM TicksOnce == Spec => []EachTickOnce
<1>1. IInv => EachTickOnce
  <2> SUFFICES ASSUME IInv, ~undefined, run.at \in {"loop", "callback", "clear"}
               PROVE  LET ahead == SubSeq(Theirs.arOnEvents, run.j + 1, run.nEventCount)
                      IN  /\ run.nEventCount = Len(Theirs.arOnEvents)
                          /\ ToSet(ahead) = Theirs.owed
                          /\ IsInjective(ahead)
    BY Zenon DEF EachTickOnce
  <2>1. PICK i \in DOMAIN timers : i = run.i
    BY PlaceFacts DEF IInv
  <2> DEFINE on == timers[i].arOnEvents
  <2>2. TickInv(i) /\ InTimer(i)
    BY <2>1 DEF IInv, TurnInv, InTimer
  <2>3. on \in Seq(Events) /\ Len(on) \in Nat /\ timers[i].nEffectCount \in 0 .. Cardinality(Events)
    BY CountFacts DEF IInv, TimerRecords
  <2>4. /\ timers[i].nEffectCount > 0 /\ IsInjective(on)
        /\ run.nEventCount = Len(on) /\ run.j <= Len(on) /\ run.j \in Nat
        /\ timers[i].owed = OwedBy(i)
    BY <2>2 DEF TickInv, IInv, ThreadsInv
  <2>5. timers[i].nEffectCount # 0 /\ run.j \in 0 .. Len(on)
    BY <2>3, <2>4, SMT
  <2>6. timers[i].owed = {on[k] : k \in run.j + 1 .. Len(on)}
    BY <2>2, <2>4, <2>5 DEF OwedBy
  <2>7. /\ ToSet(SubSeq(on, run.j + 1, Len(on))) = {on[k] : k \in run.j + 1 .. Len(on)}
        /\ IsInjective(SubSeq(on, run.j + 1, Len(on)))
    BY <2>3, <2>4, <2>5, AheadFacts
  <2> QED BY <2>1, <2>4, <2>6, <2>7 DEF Theirs
<1> QED BY <1>1, Invariance, PTL

\* When no request for an event is pending, and none met another, the event is in
\* arEvents exactly when it was added last.
THEOREM AddsBeforeDeletes == Spec => []RequestsTakeEffect
<1>1. IInv => RequestsTakeEffect
  <2> SUFFICES ASSUME IInv, NEW p \in Asks, NEW i \in TimersOf(p[1]), ~log[p].mixed,
                      ~Contains(timers[i].arAddEvents \o timers[i].arDelEvents, p[2])
               PROVE  p[2] \in timers[i].arEvents <=> log[p].last = "add"
    BY DEF RequestsTakeEffect
  <2>1. i \in DOMAIN timers /\ timers[i].nInterval = p[1]
    BY DEF TimersOf
  <2>2. timers[i].arAddEvents \in Seq(Events) /\ timers[i].arDelEvents \in Seq(Events)
    BY <2>1, TableFacts DEF IInv, TimerRecords
  <2>3. ~Contains(timers[i].arAddEvents, p[2]) /\ ~Contains(timers[i].arDelEvents, p[2])
    BY <2>2, ContainsConcat
  <2>4. RequestInv(p, timers[i])
    BY <2>1 DEF IInv, ListsInv
  <2>5. log[p].last \in {"none", "add", "del"}
    BY LogFacts DEF IInv, LogRecords
  <2> QED BY <2>3, <2>4, <2>5 DEF RequestInv
<1> QED BY <1>1, Invariance, PTL

\* A deleted event ticks at most twice more, however many requests and ticks there are.
THEOREM DeletesTakeEffect == Spec => []DeletedEventsStop
<1>1. IInv => DeletedEventsStop
  BY DEF IInv, LateInv, DeletedEventsStop
<1> QED BY <1>1, Invariance, PTL

================================================================================
