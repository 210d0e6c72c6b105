------------------------------- MODULE Reactor -------------------------------
(***************************************************************************)
(* The reactor of klippy/reactor.py: timers, the greenlet that dispatches  *)
(* them, greenlets that pause inside a callback, the pool they return to,  *)
(* and completions.                                                        *)
(*                                                                         *)
(* A greenlet is at "top" (the head of _dispatch_loop), "scan" (the loop   *)
(* of _check_timers), "poll", "run" (inside a callback), "switched" (it    *)
(* called a paused greenlet and waits for it), "paused", or "idle" (in the *)
(* pool, inside _end_greenlet).                                            *)
(***************************************************************************)
EXTENDS Naturals, Sequences, SequencesExt, FiniteSets, FiniteSetsExt

CONSTANTS User,      \* timers of the program
          NG,        \* bound: greenlets
          MaxTime,   \* bound: the clock
          MaxCalls   \* bound: what callbacks do beside pausing and returning

ReactorAssumption ==
  /\ NG \in Nat \ {0} /\ MaxTime \in Nat /\ MaxCalls \in Nat
  /\ User \cap Nat = {} /\ IsFiniteSet(User)

G == 1..NG
Timer == User \cup G          \* the wake timer of greenlet g is g
Never == MaxTime + 1
Fd == 0                      \* a file descriptor's callback

VARIABLES
  now,
  timers, wake,    \* _timers, and the waketime of each timer
  nextTimer,       \* _next_timer
  cur, dispatch,   \* the greenlet that runs; _g_dispatch
  pc, call,        \* where each greenlet is, and whose callback it is in
  ev, scan, until, \* its eventtime, timers left to check, end of its poll
  pool,            \* _greenlets
  done, waiting,   \* one completion
  calls

gVars == <<pc, call, ev, scan, until>>
cVars == <<done, waiting, calls>>
vars  == <<now, timers, wake, nextTimer, cur, dispatch, gVars, pool, cVars>>

Min2(a, b) == IF a < b THEN a ELSE b

Init ==
  /\ now = 0 /\ wake \in [Timer -> {0, Never}]
  /\ \E registered \in SUBSET User :
       timers = SetToSeq(registered) /\ \A t \in Timer \ registered : wake[t] = Never
  /\ nextTimer = Min(Range(wake))
  /\ cur = 1 /\ dispatch = 1
  /\ pc = [g \in G |-> IF g = 1 THEN "top" ELSE "unused"]
  /\ call = [g \in G |-> Fd] /\ ev = [g \in G |-> 0]
  /\ scan = [g \in G |-> <<>>] /\ until = [g \in G |-> 0]
  /\ pool = <<>> /\ done = FALSE /\ waiting = {} /\ calls = 0

-----------------------------------------------------------------------------
(* The dispatch loop.                                                        *)

\* _next_timer while a scan goes on: it is collected again from all timers
ScanStarts == Never

CheckTimers ==
  /\ pc[cur] = "top"
  /\ IF ev[cur] < nextTimer
     THEN /\ pc' = [pc EXCEPT ![cur] = "poll"] /\ until' = [until EXCEPT ![cur] = nextTimer]
          /\ UNCHANGED <<nextTimer, scan>>
     ELSE /\ nextTimer' = ScanStarts /\ scan' = [scan EXCEPT ![cur] = timers]
          /\ pc' = [pc EXCEPT ![cur] = "scan"] /\ UNCHANGED until
  /\ UNCHANGED <<now, timers, wake, cur, dispatch, call, ev, pool, cVars>>

ScanEnds ==
  /\ pc[cur] = "scan" /\ scan[cur] = <<>>
  /\ pc' = [pc EXCEPT ![cur] = "poll"] /\ until' = [until EXCEPT ![cur] = now]
  /\ UNCHANGED <<now, timers, wake, nextTimer, cur, dispatch, call, ev, scan, pool, cVars>>

\* A timer that is not due is only noted; one that is due is called, and the
\* call of a wake timer continues its greenlet.
ScanTimer ==
  /\ pc[cur] = "scan" /\ scan[cur] # <<>>
  /\ LET t == Head(scan[cur]) IN
     IF ev[cur] < wake[t]
     THEN /\ nextTimer' = Min2(nextTimer, wake[t])
          /\ scan' = [scan EXCEPT ![cur] = Tail(@)]
          /\ UNCHANGED <<wake, cur, pc, call, waiting>>
     ELSE /\ wake' = [wake EXCEPT ![t] = Never]
          /\ IF t \in User
             THEN /\ call' = [call EXCEPT ![cur] = t] /\ pc' = [pc EXCEPT ![cur] = "run"]
                  /\ UNCHANGED <<cur, waiting>>
             ELSE /\ pc' = [pc EXCEPT ![cur] = "switched", ![t] = "run"] /\ cur' = t
                  /\ waiting' = waiting \ {t} /\ UNCHANGED call
          /\ UNCHANGED <<nextTimer, scan>>
  /\ UNCHANGED <<now, timers, dispatch, ev, until, pool, done, calls>>

\* The poll ends in time, or for a file descriptor, whose callback runs.
Poll ==
  /\ pc[cur] = "poll"
  /\ ev' = [ev EXCEPT ![cur] = now] /\ until' = [until EXCEPT ![cur] = 0]
  /\ \/ now >= until[cur] /\ pc' = [pc EXCEPT ![cur] = "top"] /\ UNCHANGED <<call, calls>>
     \/ /\ calls < MaxCalls /\ calls' = calls + 1
        /\ pc' = [pc EXCEPT ![cur] = "run"] /\ call' = [call EXCEPT ![cur] = Fd]
  /\ UNCHANGED <<now, timers, wake, nextTimer, cur, dispatch, scan, pool, done, waiting>>

-----------------------------------------------------------------------------
(* What a callback may do.                                                   *)

\* Mutant: the time of the next check is left as it is.
NextAfterStale(w) == nextTimer

NextAfter(w) == Min2(nextTimer, w)

update_timer(u, w) ==
  /\ pc[cur] = "run" /\ calls < MaxCalls /\ calls' = calls + 1
  /\ Contains(timers, u) /\ wake' = [wake EXCEPT ![u] = w] /\ nextTimer' = NextAfter(w)
  /\ UNCHANGED <<now, timers, cur, dispatch, gVars, pool, done, waiting>>

register_timer(u, w) ==
  /\ pc[cur] = "run" /\ calls < MaxCalls /\ calls' = calls + 1
  /\ ~Contains(timers, u) /\ \A g \in G : call[g] # u \/ pc[g] \notin {"run", "paused", "switched"}
  /\ timers' = Append(timers, u) /\ wake' = [wake EXCEPT ![u] = w] /\ nextTimer' = NextAfter(w)
  /\ UNCHANGED <<now, cur, dispatch, gVars, pool, done, waiting>>

unregister_timer(u) ==
  /\ pc[cur] = "run" /\ calls < MaxCalls /\ calls' = calls + 1
  /\ Contains(timers, u)
  /\ timers' = RemoveFirst(timers, u) /\ wake' = [wake EXCEPT ![u] = Never]
  /\ UNCHANGED <<now, nextTimer, cur, dispatch, gVars, pool, done, waiting>>

\* Mutant: the waiting greenlets are not waked.
WokenNone == {}

Woken == waiting

complete ==
  /\ pc[cur] = "run" /\ ~done /\ done' = TRUE
  /\ wake' = [t \in Timer |-> IF t \in Woken THEN 0 ELSE wake[t]]
  /\ nextTimer' = IF waiting = {} THEN nextTimer ELSE NextAfter(0)
  /\ UNCHANGED <<now, timers, cur, dispatch, gVars, pool, waiting, calls>>

Fresh == {g \in G : pc[g] = "unused"}

\* Mutant: the new greenlet waits for the timer that was next.
NextAfterSwitchLate == nextTimer

\* the greenlet that takes over looks at every timer at once
NextAfterSwitch == 0

\* Mutant: a new greenlet runs the loop, but is not known for it.
DispatcherStays(h) == dispatch

Dispatcher(h) == h

\* The greenlet that dispatches pauses: another one takes over.
PauseDispatch(w) ==
  /\ cur = dispatch /\ (pool # <<>> \/ Fresh # {})
  /\ timers' = Append(timers, cur) /\ wake' = [wake EXCEPT ![cur] = w]
  /\ nextTimer' = NextAfterSwitch
  /\ LET h == IF pool # <<>> THEN Last(pool) ELSE CHOOSE g \in Fresh : TRUE IN
       /\ cur' = h /\ dispatch' = Dispatcher(h)
       /\ pool' = IF pool # <<>> THEN Front(pool) ELSE pool
       /\ pc' = [pc EXCEPT ![cur] = "paused",
                           ![h] = IF pc[h] = "unused" \/ call[h] = Fd THEN "top" ELSE "poll"]
       /\ ev' = [ev EXCEPT ![h] = now, ![cur] = 0] /\ until' = [until EXCEPT ![h] = now]
       /\ call' = [call EXCEPT ![h] = Fd]
  /\ scan' = [scan EXCEPT ![cur] = <<>>]

\* A callback of timer t returned w to greenlet g, which is in its scan.
Called(g, t, w) ==
  /\ wake' = [wake EXCEPT ![t] = w]
  /\ nextTimer' = Min2(nextTimer, w)
  /\ scan' = [scan EXCEPT ![g] = Tail(@)]

\* A greenlet that was continued pauses again: back to the one that called.
PauseAgain(w) ==
  /\ cur # dispatch /\ Called(dispatch, cur, w)
  /\ pc' = [pc EXCEPT ![cur] = "paused", ![dispatch] = "scan"] /\ cur' = dispatch
  /\ UNCHANGED <<timers, dispatch, call, ev, until, pool>>

pause(w) ==
  /\ pc[cur] = "run" /\ (PauseDispatch(w) \/ PauseAgain(w))
  /\ UNCHANGED <<now, cVars>>

wait(w) ==
  /\ pc[cur] = "run" /\ ~done /\ (PauseDispatch(w) \/ PauseAgain(w))
  /\ waiting' = waiting \cup {cur} /\ UNCHANGED <<now, done, calls>>

\* Mutant: the greenlet keeps its wake timer in the pool.
WithoutWakerOff(g) == timers

WithoutWaker(g) == RemoveFirst(timers, g)

\* A callback ends in the greenlet that dispatches, or in one that has been
\* continued: that one goes to the pool, and its caller goes on.
Return(w) ==
  /\ pc[cur] = "run" /\ (call[cur] = Fd => w = Never)
  /\ IF cur = dispatch
     THEN /\ IF call[cur] = Fd
             THEN pc' = [pc EXCEPT ![cur] = "top"] /\ UNCHANGED <<wake, nextTimer, scan>>
             ELSE pc' = [pc EXCEPT ![cur] = "scan"] /\ Called(cur, call[cur], w)
          /\ call' = [call EXCEPT ![cur] = Fd] /\ UNCHANGED <<timers, cur, pool>>
     ELSE /\ timers' = WithoutWaker(cur) /\ pool' = Append(pool, cur)
          /\ wake' = [t \in Timer |-> IF t = cur THEN Never ELSE IF t = call[cur] THEN w ELSE wake[t]]
          /\ nextTimer' = Min2(nextTimer, w)
          /\ scan' = [scan EXCEPT ![dispatch] = Tail(@)]
          /\ pc' = [pc EXCEPT ![cur] = "idle", ![dispatch] = "scan"] /\ cur' = dispatch
          /\ UNCHANGED call
  /\ UNCHANGED <<now, dispatch, ev, until, cVars>>

Tick ==
  /\ now < MaxTime /\ now' = now + 1
  /\ pc[cur] = "run" \/ (pc[cur] = "poll" /\ now < until[cur])
  /\ UNCHANGED <<timers, wake, nextTimer, cur, dispatch, gVars, pool, cVars>>

Loop == CheckTimers \/ ScanEnds \/ ScanTimer \/ Poll
Wakes == {w \in 0..Never : w = 0 \/ w > now}
Leave == \E w \in Wakes : pause(w) \/ wait(w) \/ Return(w)

Next ==
  \/ Loop \/ Leave \/ complete \/ Tick
  \/ \E u \in User : unregister_timer(u) \/ \E w \in Wakes : update_timer(u, w) \/ register_timer(u, w)

Spec == Init /\ [][Next]_vars

\* The thread runs, callbacks do not run for ever, time passes, and a file
\* descriptor becomes readable only now and then.
LiveSpec == Spec /\ WF_vars(Loop) /\ WF_vars(Leave) /\ WF_vars(Tick)

-----------------------------------------------------------------------------
TimersTypeOK ==
  /\ now \in 0..MaxTime /\ timers \in Seq(Timer) /\ IsInjective(timers)
  /\ wake \in [Timer -> 0..Never] /\ nextTimer \in 0..Never

GreenletsTypeOK ==
  /\ cur \in G /\ dispatch \in G /\ call \in [G -> User \cup {Fd}]
  /\ pc \in [G -> {"top", "scan", "poll", "run", "switched", "paused", "idle", "unused"}]
  /\ ev \in [G -> 0..Never] /\ until \in [G -> 0..Never] /\ scan \in [G -> Seq(Timer)]

RestTypeOK ==
  /\ pool \in Seq(G) /\ IsInjective(pool) /\ done \in BOOLEAN /\ waiting \subseteq G /\ calls \in 0..MaxCalls

TypeOK == TimersTypeOK /\ GreenletsTypeOK /\ RestTypeOK

\* The reactor never sleeps past a timer: whatever scans were cut off by
\* pauses and whatever callbacks changed, a poll that waits ends before the
\* first timer is due.
NoOversleep ==
  pc[cur] = "poll" => \A t \in Range(timers) : until[cur] <= now \/ until[cur] <= wake[t]

\* A greenlet has a wake timer exactly while it is in a pause or has been
\* continued from one, and is in the pool exactly once while it is idle.
WakersMatch ==
  \A g \in G : /\ Contains(timers, g) <=> (pc[g] = "paused" \/ (pc[g] = "run" /\ g # dispatch))
               /\ pc[g] = "idle" <=> Contains(pool, g)

\* One greenlet dispatches: all others are paused or put away, but the one it
\* has just continued.
OneDispatches ==
  \A g \in G : (pc[g] \in {"top", "scan", "poll", "switched"} => g = dispatch)
               /\ (pc[g] = "run" => g = cur)

\* A timer that is due is called, unregistered or put off.
Due(u) == Contains(timers, u) /\ wake[u] <= now
TimersFire == \A u \in User : Due(u) ~> ~Due(u)

\* A greenlet that waits for the completion goes on when it is complete.
Awaits(g) == done /\ g \in waiting
CompletionWakes == \A g \in G : Awaits(g) ~> ~Awaits(g)

-----------------------------------------------------------------------------
\* The greenlet that runs is the one that dispatches or one that it has continued.
CurIsRight ==
  IF cur = dispatch THEN pc[cur] \in {"top", "scan", "poll", "run"}
  ELSE pc[dispatch] = "switched" /\ pc[cur] = "run"

\* Only the greenlet that dispatches has timers left to check, and the first is the one whose callback runs.
ScanIsRight ==
  /\ \A g \in G \ {dispatch} : scan[g] = <<>>
  /\ pc[dispatch] \in {"top", "poll"} => scan[dispatch] = <<>>
  /\ pc[dispatch] = "run" => IF call[dispatch] = Fd THEN scan[dispatch] = <<>>
                             ELSE scan[dispatch] # <<>> /\ Head(scan[dispatch]) = call[dispatch]
  /\ pc[dispatch] = "switched" => scan[dispatch] # <<>> /\ Head(scan[dispatch]) = cur

\* The next check comes before any timer is due that this scan does not look at any more.
NextIsSoon == \A t \in Range(timers) : nextTimer <= wake[t] \/ t \in Range(scan[dispatch])

\* A wake timer that is not registered is not due, times of events have come, and those who wait are paused.
RestIsQuiet ==
  /\ \A g \in G : ~Contains(timers, g) => wake[g] = Never
  /\ \A g \in G : ev[g] <= now
  /\ \A g \in waiting : pc[g] = "paused"

IInv == /\ TypeOK /\ OneDispatches /\ CurIsRight /\ WakersMatch /\ ScanIsRight /\ NextIsSoon /\ RestIsQuiet
        /\ NoOversleep
=============================================================================
