--------------------------------- MODULE Timer ---------------------------------
(***************************************************************************)
(* FxTimerHandler (common/fxmeta.cpp).  A timer is an interval and the set *)
(* of events that tick with it.  Two threads share the table of timers:    *)
(* the timer thread (__Refresh) copies the events of a timer whose         *)
(* interval has passed into arOnEvents and sets m_nEffectCount; Run, on    *)
(* the caller's thread, calls OnTimer for what was copied and sets         *)
(* m_nEffectCount back to 0.  No lock guards that: the count says whose    *)
(* turn it is.  Requests to add or delete an event go through two lists    *)
(* under m_poLock, which the timer thread empties one after the other.     *)
(*                                                                         *)
(* Time is left out but for one bit per timer: whether its interval has    *)
(* passed since qwLastTime.                                                *)
(***************************************************************************)
EXTENDS Integers, SequencesExt

CONSTANTS
  Intervals,    \* the intervals timers are made for
  Events,       \* event ids
  Asks,         \* the pairs of an interval and an event that the program asks for
  MaxRequests   \* bound of the model: how many requests the program makes

\* An event id is a DWORD.
ASSUME TimerAssumption ==
  /\ IsFiniteSet(Events)
  /\ Asks \subseteq Intervals \X Events
  /\ MaxRequests \in Nat

VARIABLES
  timers,      \* m_arTimers
  refresh,     \* the timer thread: its step, the index of its timer, nCount
  run,         \* the caller's thread: its step, timer, nCount, and j and nEventCount
  stopped,     \* m_bStop
  undefined,   \* a reference into m_arTimers was left dangling: anything may follow
  requests,    \* how many requests were made
  log          \* history: what became of the requests for each event

vars == <<timers, refresh, run, stopped, undefined, requests, log>>

Steps(at) == [at : at, i : Nat, count : Nat]

\* A new STimerInfo; "owed" is history: the calls of OnTimer the last tick still asks for.
NewTimer(ms, adds) ==
  [nInterval |-> ms, nEffectCount |-> 0, elapsed |-> FALSE, arEvents |-> {},
   arOnEvents |-> <<>>, arAddEvents |-> adds, arDelEvents |-> <<>>, owed |-> {}]

\* Both threads go through the table up to the size they read at the start.
Begin(state, at) == [state EXCEPT !.at = at, !.i = 1, !.count = Len(timers)]
Following(state, at, end) ==
  IF state.i < state.count THEN [state EXCEPT !.at = at, !.i = @ + 1]
  ELSE [state EXCEPT !.at = end]

--------------------------------------------------------------------------------
\* The timer thread.
Refreshing(at) == ~undefined /\ refresh.at = at /\ UNCHANGED <<run, stopped, undefined, requests>>
Mine == timers[refresh.i]
NextTimer == refresh' = Following(refresh, "look", "wait")

RefreshBegins ==
  /\ Refreshing("wait")
  /\ ~stopped
  /\ timers # <<>>
  /\ refresh' = Begin(refresh, "look")
  /\ UNCHANGED <<timers, log>>

ThreadEnds ==
  /\ Refreshing("wait")
  /\ stopped
  /\ refresh' = [refresh EXCEPT !.at = "ended"]
  /\ UNCHANGED <<timers, log>>

\* Is it this thread's turn, and has the interval passed?
Look ==
  /\ Refreshing("look")
  /\ refresh' = [refresh EXCEPT !.at =
                   IF Mine.nEffectCount = 0 /\ Mine.elapsed THEN "copy" ELSE "requests"]
  /\ UNCHANGED <<timers, log>>

\* Mutant of CopyEvents: m_nEffectCount is set as soon as the size is known.
CopyEarly ==
  /\ Refreshing("copy")
  /\ timers' = [timers EXCEPT ![refresh.i].arOnEvents = SetToSeq(Mine.arEvents),
                              ![refresh.i].nEffectCount = Cardinality(Mine.arEvents)]
  /\ refresh' = [refresh EXCEPT !.at = "publish"]
  /\ UNCHANGED log

CopyEvents ==
  /\ Refreshing("copy")
  /\ timers' = [timers EXCEPT ![refresh.i].arOnEvents = SetToSeq(Mine.arEvents)]
  /\ refresh' = [refresh EXCEPT !.at = "publish"]
  /\ UNCHANGED log

\* Mutant of Publish: the count is one more than the events that were copied.
PublishOneMore ==
  /\ Refreshing("publish")
  /\ LET index == Len(Mine.arOnEvents)
     IN  timers' = [timers EXCEPT ![refresh.i].nEffectCount = index + 1,
                                  ![refresh.i].elapsed = @ /\ index # 0,
                                  ![refresh.i].owed = ToSet(Mine.arOnEvents)]
  /\ refresh' = [refresh EXCEPT !.at = "requests"]
  /\ UNCHANGED log

\* m_nEffectCount = index; a timer without events only starts its interval anew.
Publish ==
  /\ Refreshing("publish")
  /\ LET index == Len(Mine.arOnEvents)
     IN  timers' = [timers EXCEPT ![refresh.i].nEffectCount = index,
                                  ![refresh.i].elapsed = @ /\ index # 0,
                                  ![refresh.i].owed = ToSet(Mine.arOnEvents)]
  /\ refresh' = [refresh EXCEPT !.at = "requests"]
  /\ UNCHANGED log

\* Mutants of LookForRequests: one of the two lists is not looked at.
LookForAdds ==
  /\ Refreshing("requests")
  /\ IF Mine.arAddEvents = <<>> THEN NextTimer
     ELSE refresh' = [refresh EXCEPT !.at = "add"]
  /\ UNCHANGED <<timers, log>>

LookForDels ==
  /\ Refreshing("requests")
  /\ IF Mine.arDelEvents = <<>> THEN NextTimer
     ELSE refresh' = [refresh EXCEPT !.at = "add"]
  /\ UNCHANGED <<timers, log>>

\* The lists are looked at without the lock.
LookForRequests ==
  /\ Refreshing("requests")
  /\ IF Mine.arAddEvents = <<>> /\ Mine.arDelEvents = <<>> THEN NextTimer
     ELSE refresh' = [refresh EXCEPT !.at = "add"]
  /\ UNCHANGED <<timers, log>>

\* Mutant of TakeAdd: the list is cleared after its first event was taken.
TakeAllAdds ==
  /\ Refreshing("add")
  /\ Mine.arAddEvents # <<>>
  /\ timers' = [timers EXCEPT ![refresh.i].arAddEvents = <<>>,
                              ![refresh.i].arEvents = @ \cup {Head(Mine.arAddEvents)}]
  /\ UNCHANGED <<refresh, log>>

\* An event is taken from the list under the lock; arEvents is this thread's own.
TakeAdd ==
  /\ Refreshing("add")
  /\ Mine.arAddEvents # <<>>
  /\ timers' = [timers EXCEPT ![refresh.i].arAddEvents = Tail(@),
                              ![refresh.i].arEvents = @ \cup {Head(Mine.arAddEvents)}]
  /\ UNCHANGED <<refresh, log>>

NoMoreAdds ==
  /\ Refreshing("add")
  /\ Mine.arAddEvents = <<>>
  /\ refresh' = [refresh EXCEPT !.at = "del"]
  /\ UNCHANGED <<timers, log>>

TakeDel ==
  /\ Refreshing("del")
  /\ Mine.arDelEvents # <<>>
  /\ timers' = [timers EXCEPT ![refresh.i].arDelEvents = Tail(@),
                              ![refresh.i].arEvents = @ \ {Head(Mine.arDelEvents)}]
  /\ UNCHANGED <<refresh, log>>

NoMoreDels ==
  /\ Refreshing("del")
  /\ Mine.arDelEvents = <<>>
  /\ NextTimer
  /\ UNCHANGED <<timers, log>>

Refresh ==
  \/ RefreshBegins \/ ThreadEnds
  \/ Look \/ CopyEvents \/ Publish
  \/ LookForRequests \/ TakeAdd \/ NoMoreAdds \/ TakeDel \/ NoMoreDels

--------------------------------------------------------------------------------
\* Run, on the caller's thread.
Running(at) == ~undefined /\ run.at = at /\ UNCHANGED <<refresh, stopped, undefined, requests>>
Theirs == timers[run.i]
NextOfRun == run' = Following(run, "test", "idle")

RunBegins ==
  /\ Running("idle")
  /\ timers # <<>>
  /\ run' = Begin(run, "test")
  /\ UNCHANGED <<timers, log>>

\* Mutant of Test: the count is given back before the events were called.
TestAndClear ==
  /\ Running("test")
  /\ IF Theirs.nEffectCount = 0 THEN NextOfRun
     ELSE run' = [run EXCEPT !.at = "loop", !.j = 0, !.nEventCount = Len(Theirs.arOnEvents)]
  /\ timers' = [timers EXCEPT ![run.i].nEffectCount = 0]
  /\ UNCHANGED log

Test ==
  /\ Running("test")
  /\ IF Theirs.nEffectCount = 0 THEN NextOfRun
     ELSE run' = [run EXCEPT !.at = "loop", !.j = 0, !.nEventCount = Len(Theirs.arOnEvents)]
  /\ UNCHANGED <<timers, log>>

OnTimer ==
  /\ Running("loop")
  /\ run.j < run.nEventCount
  /\ LET e == Theirs.arOnEvents[run.j + 1]
         p == <<Theirs.nInterval, e>>
     IN  /\ timers' = [timers EXCEPT ![run.i].owed = @ \ {e}]
         /\ log' = [log EXCEPT ![p].heard = TRUE,
                               ![p].late = IF log[p].last = "del" /\ @ < 3 THEN @ + 1 ELSE @]
  /\ run' = [run EXCEPT !.at = "callback", !.j = @ + 1]

OnTimerReturns ==
  /\ Running("callback")
  /\ run' = [run EXCEPT !.at = "loop"]
  /\ UNCHANGED <<timers, log>>

\* qwLastTime is set to the time Run began; the next interval may have passed already.
SetLastTime ==
  /\ Running("loop")
  /\ run.j = run.nEventCount
  /\ \E passed \in BOOLEAN : timers' = [timers EXCEPT ![run.i].elapsed = passed]
  /\ run' = [run EXCEPT !.at = "clear"]
  /\ UNCHANGED log

ClearEffect ==
  /\ Running("clear")
  /\ timers' = [timers EXCEPT ![run.i].nEffectCount = 0]
  /\ NextOfRun
  /\ UNCHANGED log

Run ==
  \/ RunBegins \/ Test \/ OnTimer \/ OnTimerReturns \/ SetLastTime \/ ClearEffect

--------------------------------------------------------------------------------
\* What the program asks for, between two calls of Run or inside OnTimer.
Request ==
  /\ ~undefined
  /\ run.at \in {"idle", "callback"}
  /\ requests < MaxRequests
  /\ requests' = requests + 1
  /\ UNCHANGED <<refresh, run, stopped>>

TimersOf(ms) == {i \in DOMAIN timers : timers[i].nInterval = ms}

\* push_back into a full vector moves its elements (its capacity is a power of
\* two): a reference that __Refresh or Run holds then dangles.
PushBack(timer) ==
  /\ timers' = Append(timers, timer)
  /\ undefined' = /\ \E k \in 0 .. Len(timers) : Len(timers) = 2 ^ k
                  /\ refresh.at \notin {"wait", "ended"} \/ run.at = "callback"

\* AddTimer(nMicroSecond), which fails when there is such a timer.
AddInterval(ms) ==
  /\ Request
  /\ TimersOf(ms) = {}
  /\ PushBack(NewTimer(ms, <<>>))
  /\ UNCHANGED log

\* Whether the request in hand meets one for the same event in the other list.
Asked(what, mixed) == [last |-> what, mixed |-> mixed, late |-> 0, heard |-> FALSE]

\* AddTimer(nMicroSecond, dwEventId).
AddTimer(ms, e) ==
  /\ Request
  /\ \/ /\ TimersOf(ms) = {}
        /\ PushBack(NewTimer(ms, <<e>>))
        /\ log' = [log EXCEPT ![<<ms, e>>] = Asked("add", FALSE)]
     \/ /\ \E i \in TimersOf(ms) :
             /\ timers' = [timers EXCEPT ![i].arAddEvents = Append(@, e)]
             /\ log' = [log EXCEPT ![<<ms, e>>] =
                          Asked("add", Contains(timers[i].arDelEvents, e))]
        /\ UNCHANGED undefined

\* DelTimer(nMicroSecond, dwEventId), which does nothing when there is no such timer.
DelTimer(ms, e) ==
  /\ Request
  /\ \E i \in TimersOf(ms) :
       /\ timers' = [timers EXCEPT ![i].arDelEvents = Append(@, e)]
       /\ log' = [log EXCEPT ![<<ms, e>>] =
                    Asked("del", Contains(timers[i].arAddEvents, e))]
  /\ UNCHANGED undefined

\* Stop: the timer thread detached itself, so that joining it does not wait for its end.
Stop ==
  /\ ~undefined
  /\ run.at = "idle"
  /\ ~stopped
  /\ stopped' = TRUE
  /\ UNCHANGED <<timers, refresh, run, undefined, requests, log>>

\* Release destroys m_poLock and the table.
Release ==
  /\ ~undefined
  /\ run.at = "idle"
  /\ stopped
  /\ timers' = <<>>
  /\ undefined' = (refresh.at \notin {"wait", "ended"})
  /\ run' = [run EXCEPT !.at = "released"]
  /\ UNCHANGED <<refresh, stopped, requests, log>>

\* The clock.
Elapse(i) ==
  /\ ~undefined
  /\ ~timers[i].elapsed
  /\ timers' = [timers EXCEPT ![i].elapsed = TRUE]
  /\ UNCHANGED <<refresh, run, stopped, undefined, requests, log>>

Init ==
  /\ timers = <<>>
  /\ refresh = [at |-> "wait", i |-> 0, count |-> 0]
  /\ run = [at |-> "idle", i |-> 0, count |-> 0, j |-> 0, nEventCount |-> 0]
  /\ stopped = FALSE
  /\ undefined = FALSE
  /\ requests = 0
  /\ log = [p \in Asks |-> Asked("none", FALSE)]

Next ==
  \/ Refresh
  \/ Run
  \/ \E ms \in Intervals : AddInterval(ms)
  \/ \E p \in Asks : AddTimer(p[1], p[2]) \/ DelTimer(p[1], p[2])
  \/ Stop
  \/ Release
  \/ \E i \in DOMAIN timers : Elapse(i)

Spec == Init /\ [][Next]_vars

\* The timer thread runs, the program calls Run again and again and its
\* callbacks return, and time passes.
FairSpec ==
  /\ Spec
  /\ WF_vars(Refresh)
  /\ WF_vars(Run)
  /\ \A k \in 1 .. Cardinality(Intervals) :
       WF_vars(k \in DOMAIN timers /\ Elapse(k))

--------------------------------------------------------------------------------
\* The types of the variables.
TypeOK ==
  /\ timers \in Seq([nInterval : Intervals, nEffectCount : 0 .. Cardinality(Events),
                     elapsed : BOOLEAN, arEvents : SUBSET Events, arOnEvents : Seq(Events),
                     arAddEvents : Seq(Events), arDelEvents : Seq(Events),
                     owed : SUBSET Events])
  /\ refresh.at \in {"wait", "look", "copy", "publish", "requests", "add", "del", "ended"}
  /\ run.at \in {"idle", "test", "loop", "callback", "clear", "released"}
  /\ stopped \in BOOLEAN /\ undefined \in BOOLEAN
  /\ requests \in 0 .. MaxRequests
  /\ log \in [Asks ->
                [last : {"none", "add", "del"}, mixed : BOOLEAN, late : 0 .. 3, heard : BOOLEAN]]

InTimer(i) == run.at \in {"loop", "callback", "clear"} /\ run.i = i

\* m_nEffectCount keeps the threads apart without a lock: the timer thread
\* rewrites arOnEvents of a timer only when every OnTimer of its last tick was
\* called and Run has left the timer (fxmeta.cpp:325-338, 470-489).
TicksDoNotOverlap ==
  ~undefined /\ refresh.at \in {"copy", "publish"} =>
    Mine.owed = {} /\ ~InTimer(refresh.i)

\* While Run goes through arOnEvents, and callbacks and the timer thread add and
\* delete events of that very timer, what it has still to call is exactly what the
\* tick asked for and was not called: each event of a tick once.
EachTickOnce ==
  ~undefined /\ run.at \in {"loop", "callback", "clear"} =>
    LET ahead == SubSeq(Theirs.arOnEvents, run.j + 1, run.nEventCount)
    IN  /\ run.nEventCount = Len(Theirs.arOnEvents)
        /\ ToSet(ahead) = Theirs.owed
        /\ IsInjective(ahead)

\* "Adds before deletes" (fxmeta.cpp:499) is right for every event that was never
\* in both lists at once: when no request for it is pending, it is in arEvents
\* exactly when it was added last.
RequestsTakeEffect ==
  \A p \in Asks : \A i \in TimersOf(p[1]) :
    ~log[p].mixed /\ ~Contains(timers[i].arAddEvents \o timers[i].arDelEvents, p[2])
      => (p[2] \in timers[i].arEvents <=> log[p].last = "add")

\* After DelTimer an event ticks at most twice more: the tick that is on its way,
\* and one the timer thread starts before it comes to the list of deletes.
DeletedEventsStop ==
  \A p \in Asks :
    log[p].last = "del" /\ ~log[p].mixed => log[p].late <= 2

\* An event that was added, and not deleted since, is called by OnTimer, whatever
\* else is added and deleted meanwhile.
AddedEventTicks ==
  \A p \in Asks :
    log[p].last = "add" /\ ~log[p].mixed /\ ~log[p].heard
      ~> log[p].heard \/ log[p].last = "del" \/ stopped \/ undefined
================================================================================
