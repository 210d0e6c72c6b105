------------------------------- MODULE Toolhead -------------------------------
(***************************************************************************)
(* The print time of klippy/toolhead.py: moves wait in the lookahead queue,*)
(* are appended to the motion queue at print_time, their steps are made    *)
(* and sent ahead of the micro-controller's clock, in the foreground while *)
(* moves come, and by the flush timer when they do not.  Homing drips its  *)
(* move, so that it can be cut short.                                      *)
(*                                                                         *)
(* A move is its duration; how many moves a lazy flush releases is open.   *)
(* The host is timely: the clock waits for timers that are due.            *)
(***************************************************************************)
EXTENDS Integers, Sequences, SequencesExt, FiniteSetsExt

CONSTANTS Low, High, StartTime, MinKin,      \* BUFFER_TIME_*, MIN_KIN_TIME
          KinDelay, StepFlush,           \* kin_flush_delay, STEPCOMPRESS_FLUSH_TIME
          BgLow, BgBatch, BgExtra,       \* BGFLUSH_*
          LookFlush, DripTime, DripSeg,  \* LOOKAHEAD_FLUSH_TIME, DRIP_*
          Durations, MaxTime, MaxMoves,  \* bounds: moves, the clock, commands
          LastCommand                    \* and the time of the last one

ASSUME ToolheadAssumption ==
  /\ {Low, High, StartTime, MinKin, KinDelay, StepFlush, BgLow, BgBatch, BgExtra, LookFlush,
      DripTime, DripSeg} \subseteq Nat \ {0}
  /\ Low < High /\ StartTime < Low /\ Durations \subseteq Nat \ {0} /\ {MaxTime, MaxMoves, LastCommand} \subseteq Nat

VARIABLES
  now,        \* the estimated print time of the micro-controller
  th,         \* the tool head, see Init
  pc, wakeAt, \* where the command is, and the end of its pause
  dripEnd,    \* print time at the end of the dripped move
  done,       \* drip_completion
  canPause,   \* can_pause
  moves       \* commands so far

vars == <<now, th, pc, wakeAt, dripEnd, done, canPause, moves>>

Never == 1000
Max2(a, b) == IF a > b THEN a ELSE b
Min2(a, b) == IF a < b THEN a ELSE b

Init ==
  /\ now = 0 /\ pc = "idle" /\ wakeAt = 0 /\ dripEnd = 0
  /\ done = FALSE /\ canPause = TRUE /\ moves = 0
  /\ th = [pt |-> 0,                \* print_time
           q |-> <<>>,              \* lookahead.queue
           junction |-> LookFlush,  \* lookahead.junction_flush
           special |-> "NeedPrime", \* special_queuing_state
           check |-> -1,            \* need_check_pause
           priming |-> Never, flush |-> Never, kick |-> TRUE,  \* timers, do_kick_flush_timer
           lastFlush |-> 0, restart |-> 0, need |-> 0, stepGen |-> 0,
           gen |-> 0,               \* steps are made up to here
           late |-> FALSE,          \* has a move begun in the past?
           behind |-> FALSE]        \* has one begun before steps already made?

Total(ds) == FoldSeq(LAMBDA d, sum : d + sum, 0, ds)

-----------------------------------------------------------------------------
\* _advance_flush_time
AdvanceFlush(t, to) ==
  LET ft == Max2(to, t.lastFlush)
      sg == Max2(Min2(ft + StepFlush, t.pt - KinDelay), ft)
  IN [t EXCEPT !.lastFlush = ft, !.gen = Max2(@, sg), !.restart = Max2(@, sg)]

\* _advance_move_time; its batches add up
AdvanceMove(t, next) ==
  LET delay == KinDelay + StepFlush
      t1 == [t EXCEPT !.pt = Max2(@, next)]
  IN AdvanceFlush(t1, Max2(t.pt - delay, t1.pt - delay))

\* Mutant: only the steps made already count, not the clock.
PrintTimeFloorSteps(t) == t.restart + KinDelay

\* Mutant: the steps that are made already are not looked at.
PrintTimeFloorNow(t) == Max2(now + StartTime, now + MinKin + KinDelay)

PrintTimeFloor(t) == Max2(now + StartTime, Max2(now + MinKin, t.restart) + KinDelay)

CalcPrintTime(t) == [t EXCEPT !.pt = Max2(@, PrintTimeFloor(t))]

\* Mutant: the flush timer is kicked only by the first activity.
KickLost(t) == [t EXCEPT !.kick = FALSE, !.flush = IF t.kick /\ t.need = 0 THEN now ELSE @]

Kick(t) == IF t.kick THEN [t EXCEPT !.kick = FALSE, !.flush = now] ELSE t

NoteActivity(t, mq) == Kick([t EXCEPT !.need = Max2(@, mq), !.stepGen = Max2(@, mq)])

\* _process_moves, up to the drip
Resync(t) ==
  IF t.special = "" THEN t
  ELSE CalcPrintTime([t EXCEPT !.special = IF @ = "Drip" THEN @ ELSE "",
                               !.check = IF t.special = "Drip" THEN @ ELSE -1])

Begins(t) == [t EXCEPT !.late = @ \/ t.pt < now, !.behind = @ \/ t.pt - KinDelay < t.gen]

Process(t, n) ==
  LET t1  == Begins(Resync(t))
      end == t1.pt + Total(SubSeq(t.q, 1, n))
  IN [AdvanceMove(NoteActivity(t1, end + KinDelay), end) EXCEPT !.q = SubSeq(t.q, n + 1, Len(t.q))]

Flush(t) == [(IF t.q = <<>> THEN t ELSE Process(t, Len(t.q))) EXCEPT !.junction = LookFlush]

\* Mutant: the state of the queue stays as it was.
FlushLookaheadKeeps(t) == [Flush(t) EXCEPT !.check = -1]

FlushLookahead(t) == [Flush(t) EXCEPT !.special = "NeedPrime", !.check = -1]

FlushStepGeneration(t) ==
  LET t1 == FlushLookahead(t)
      t2 == AdvanceFlush(t1, t1.stepGen)
  IN [t2 EXCEPT !.restart = Max2(@, t2.pt)]

GetLastMoveTime(t) == IF t.special = "" THEN Flush(t) ELSE CalcPrintTime(FlushLookahead(t))

-----------------------------------------------------------------------------
(* _check_pause: first what it does to the tool head, then its loop, which   *)
(* goes on to "after" when the buffer is not too full.                       *)

\* Mutant: no timer is set, more moves will come.
StartPrimingNot(t) == t

StartPriming(t) ==
  IF t.special = "" THEN t
  ELSE [t EXCEPT !.special = "Priming", !.check = -1,
                 !.priming = now + Max2(1, t.pt - now - Low)]

\* Mutant: the buffer may grow as it likes.
TooFullNot(t) == FALSE

TooFull(t) == t.pt - now > High

CheckLoop(t, paused, after) ==
  IF TooFull(t) /\ canPause
  THEN th' = t /\ pc' = paused /\ wakeAt' = now + Min2(2, t.pt - now - High)
  ELSE /\ th' = IF TooFull(t) THEN [t EXCEPT !.check = Never]
                ELSE IF t.special = "" THEN [t EXCEPT !.check = now + High + 1] ELSE t
       /\ pc' = after /\ wakeAt' = 0

Counts == moves < MaxMoves /\ now <= LastCommand /\ moves' = moves + 1

Command == pc = "idle" /\ Counts

\* _do_actual_move and add_move
Move(d) ==
  /\ Command
  /\ LET t1 == [th EXCEPT !.q = Append(@, d), !.junction = IF th.q = <<>> THEN @ ELSE @ - d] IN
     \E n \in IF t1.junction > 0 THEN {0} ELSE 0..Max2(0, Len(t1.q) - 2) :
        LET t2 == IF t1.junction > 0 THEN t1
                  ELSE [(IF n = 0 THEN t1 ELSE Process(t1, n)) EXCEPT !.junction = LookFlush]
        IN IF t2.pt > t2.check THEN CheckLoop(StartPriming(t2), "checking", "idle")
           ELSE th' = t2 /\ UNCHANGED <<pc, wakeAt>>
  /\ UNCHANGED <<now, dripEnd, done, canPause>>

Dwelled(d) == LET t == GetLastMoveTime(th) IN StartPriming(AdvanceMove(t, t.pt + d))

Dwell(d) ==
  /\ Command /\ CheckLoop(Dwelled(d), "checking", "idle")
  /\ UNCHANGED <<now, dripEnd, done, canPause>>

CheckAgain ==
  /\ \/ pc = "checking" /\ wakeAt <= now /\ CheckLoop(th, "checking", "idle")
     \/ pc = "dwelling" /\ wakeAt <= now /\ CheckLoop(th, "dwelling", "dripping")
  /\ UNCHANGED <<now, dripEnd, done, canPause, moves>>

WaitMoves ==
  /\ Command /\ th' = FlushLookahead(th) /\ pc' = "waiting" /\ wakeAt' = now
  /\ UNCHANGED <<now, dripEnd, done, canPause>>

WaitAgain ==
  /\ pc = "waiting" /\ wakeAt <= now
  /\ IF (th.special = "" \/ th.pt >= now) /\ canPause
     THEN wakeAt' = now + 1 /\ UNCHANGED pc
     ELSE wakeAt' = 0 /\ pc' = "idle"
  /\ UNCHANGED <<now, th, dripEnd, done, canPause, moves>>

\* something else asks for the time, a timer of a fan or a pin
OtherGetsLastMoveTime ==
  /\ pc \in {"checking", "waiting"} /\ Counts
  /\ th' = GetLastMoveTime(th)
  /\ UNCHANGED <<now, pc, wakeAt, dripEnd, done, canPause>>

-----------------------------------------------------------------------------
(* drip_move                                                                 *)

DripMove ==
  /\ Command /\ CheckLoop(Dwelled(KinDelay), "dwelling", "dripping")
  /\ UNCHANGED <<now, dripEnd, done, canPause>>

DripBegins(d) ==
  /\ pc = "dripping" /\ done' = FALSE
  /\ LET t1 == [Flush(th) EXCEPT !.special = "Drip", !.check = Never, !.flush = Never, !.kick = FALSE]
         t2 == Begins(Resync(t1))
     IN th' = [t2 EXCEPT !.q = <<d>>] /\ dripEnd' = t2.pt + d
  /\ pc' = "drip" /\ wakeAt' = now /\ UNCHANGED <<now, canPause, moves>>

DripDelay == DripTime + StepFlush + KinDelay

\* Mutant: all of the move is sent at once.
WaitTimeNone == 0

WaitTime == th.pt - now - DripDelay

DripStep ==
  /\ pc = "drip" /\ th.pt < dripEnd /\ ~done /\ wakeAt <= now
  /\ IF WaitTime > 0 /\ canPause THEN wakeAt' = now + WaitTime /\ UNCHANGED th
     ELSE LET next == Min2(th.pt + DripSeg, dripEnd) IN
          th' = AdvanceMove(NoteActivity(th, next + KinDelay), next) /\ UNCHANGED wakeAt
  /\ UNCHANGED <<now, pc, dripEnd, done, canPause, moves>>

\* Mutant: the flush timer is not started again.
FlushTimerOff(t) == t

FlushTimerOn(t) == [t EXCEPT !.flush = now]

DripEnds ==
  /\ pc = "drip" /\ (th.pt >= dripEnd \/ done)
  /\ LET t1 == IF done THEN th ELSE AdvanceMove(NoteActivity(th, dripEnd + KinDelay), dripEnd)
     IN th' = FlushStepGeneration(FlushTimerOn([t1 EXCEPT !.q = <<>>]))
  /\ pc' = "idle" /\ wakeAt' = 0 /\ dripEnd' = 0 /\ done' = FALSE
  /\ UNCHANGED <<now, canPause, moves>>

Trigger == pc = "drip" /\ ~done /\ done' = TRUE
           /\ UNCHANGED <<now, th, pc, wakeAt, dripEnd, canPause, moves>>

-----------------------------------------------------------------------------
(* The timers.                                                               *)

PrimingHandler ==
  /\ th.priming <= now
  /\ th' = LET t == [th EXCEPT !.priming = Never]
           IN IF t.special = "Priming" THEN FlushLookahead(t) ELSE t
  /\ UNCHANGED <<now, pc, wakeAt, dripEnd, done, canPause, moves>>

\* The background flush: at most one advance, then the time of the next.
BgFlush(t) ==
  LET end == t.need + BgExtra
      t1  == IF t.lastFlush >= end \/ t.lastFlush - now > BgLow THEN t
             ELSE AdvanceFlush(t, Min2(end, now + BgLow + BgBatch))
  IN IF t1.lastFlush >= end THEN [t1 EXCEPT !.kick = TRUE, !.flush = Never]
     ELSE [t1 EXCEPT !.flush = t1.lastFlush - BgLow]

RunsLow(t) == t.pt - now <= Low

FlushHandler ==
  /\ th.flush <= now
  /\ th' = IF th.special = "" /\ ~RunsLow(th) THEN [th EXCEPT !.flush = th.pt - Low]
           ELSE BgFlush(IF th.special = "" THEN FlushLookahead(th) ELSE th)
  /\ UNCHANGED <<now, pc, wakeAt, dripEnd, done, canPause, moves>>

HandleShutdown ==
  /\ canPause /\ canPause' = FALSE /\ th' = [th EXCEPT !.q = <<>>, !.junction = LookFlush]
  /\ UNCHANGED <<now, pc, wakeAt, dripEnd, done, moves>>

Timely ==
  /\ th.flush > now /\ th.priming > now /\ pc # "dripping"
  /\ pc \in {"checking", "dwelling", "waiting"} => wakeAt > now
  /\ pc = "drip" => (~done /\ wakeAt > now /\ th.pt < dripEnd)

Tick == now < MaxTime /\ Timely /\ now' = now + 1
        /\ UNCHANGED <<th, pc, wakeAt, dripEnd, done, canPause, moves>>

Timers == PrimingHandler \/ FlushHandler
Paused == CheckAgain \/ WaitAgain \/ DripStep \/ DripEnds \/ \E d \in Durations : DripBegins(d)

Next ==
  \/ Tick \/ Timers \/ Paused \/ WaitMoves \/ OtherGetsLastMoveTime \/ DripMove \/ Trigger
  \/ HandleShutdown \/ \E d \in Durations : Move(d) \/ Dwell(d)

Spec == Init /\ [][Next]_vars

\* The host does not stop: time goes on, timers are called and greenlets continue.
LiveSpec == Spec /\ WF_vars(Tick) /\ WF_vars(Timers \/ Paused)

-----------------------------------------------------------------------------
TypeOK ==
  /\ now \in 0..MaxTime /\ th.special \in {"", "NeedPrime", "Priming", "Drip"}
  /\ th.q \in Seq(Durations) /\ th.kick \in BOOLEAN
  /\ {th.pt, th.lastFlush, th.restart, th.need, th.stepGen, th.gen, dripEnd} \subseteq Nat
  /\ pc \in {"idle", "checking", "dwelling", "dripping", "drip", "waiting"}
  /\ {done, canPause} \subseteq BOOLEAN /\ moves \in 0..MaxMoves
  /\ th.special = "Drip" <=> pc = "drip"

\* A move begins in the future of the micro-controller: while moves come the
\* print time is kept ahead of the clock, else it is set anew.
MovesInFuture == ~th.late

\* A move begins after the steps that were made already, in the background
\* or by a flush: else the step compression fails.
MovesAfterSteps == ~th.behind

\* Steps are sent before they are due: a clock that goes on has not passed
\* the time up to which everything was flushed, while there is something.
FlushedInTime == Timely => th.lastFlush >= Min2(now, th.need)

\* While moves are streamed the host runs ahead of the printer by a bounded
\* time only, although most moves are not checked.
BufferIsBounded == (pc = "idle" /\ canPause /\ th.special = "") => th.pt - now <= High + 1

\* While a move drips, only a short piece of it is with the micro-controller:
\* what a trigger cannot stop any more.
DripIsShort == (pc = "drip" /\ canPause) => th.gen - now <= StartTime + DripDelay + DripSeg

\* The queue of moves: moves begin after now and after the steps already made,
\* steps are sent in time, and neither the buffer nor a dripped move runs too
\* far ahead.
MovesAreTimely ==
  TypeOK /\ MovesInFuture /\ MovesAfterSteps /\ FlushedInTime /\ BufferIsBounded /\ DripIsShort

\* The moves of the lookahead queue run, even if no other move follows (the
\* clock goes on long enough after the last command).
MovesQueued == th.q # <<>>
QueuedMovesRun == MovesQueued ~> ~MovesQueued

\* M400 comes to its end.
Waiting == pc = "waiting"
WaitsEnd == Waiting ~> ~Waiting

MotionEnds == QueuedMovesRun /\ WaitsEnd
=============================================================================
