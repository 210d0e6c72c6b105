------------------------------ MODULE TrapQueue ------------------------------
(***************************************************************************)
(* The queue of moves and the generation of a stepper's steps from it      *)
(* (chelper/trapq.c, chelper/itersolve.c), with kinematics that look at    *)
(* the path before and after the time of a step (chelper/kin_shaper.c,     *)
(* chelper/kin_extruder.c), the positions of the stepper (stepper.py,      *)
(* extruder.py) and what is reported of the path (motion_report.py).       *)
(*                                                                         *)
(* The path is kept in whole units of time and of constant speed; a        *)
(* stepper with a window stands at half of the path's position a window    *)
(* before plus half of that a window later.  Positions are doubled, so     *)
(* that halves are whole.  SDS_CHECK_TIME is less than a unit of time.     *)
(***************************************************************************)
EXTENDS Integers, Sequences, SequencesExt

CONSTANTS Speeds, Durations, Windows, StepDists, Advances,
          MaxNullMove, HistoryExpire, MaxTime, MaxGap, MaxChanges

TrapQueueAssumption ==
  /\ Speeds \subseteq Int /\ Durations \subseteq Nat \ {0} /\ Windows \subseteq Nat /\ 0 \in Windows
  /\ StepDists \subseteq Nat \ {0} /\ 1 \in StepDists /\ 0 \in Advances
  /\ MaxNullMove >= CHOOSE w \in Windows : \A v \in Windows : v <= w

VARIABLES
  moves,   \* the moves between the sentinels
  tail,    \* the last sentinel; its time is 0 while it is out of date
  history, \* moves that are over, the latest first
  sk,      \* the stepper's kinematics: [pos, dir, flush, active, window, attached]
  stepper, \* [dist, offset]: MCU_stepper
  pa_list, \* pressure advance and the time from which it holds
  mcu,     \* the steps the micro-controller has made
  end,     \* the tool head's print time
  path,    \* the position that was asked for at every time
  jumped,  \* did a step have to be made later than the path asked for
  changes

vars == <<moves, tail, history, sk, stepper, pa_list, mcu, end, path, jumped, changes>>

NEVER == 1000
Most(a, b) == IF a > b THEN a ELSE b
Least(a, b) == IF a < b THEN a ELSE b
Abs(a) == IF a < 0 THEN -a ELSE a

\* x: does it move the stepper's axis; run: is it a movement at all;
\* adv: the pressure advance in force when it was queued.
Move(t, d, p, v, x, run, adv) == [t |-> t, d |-> d, p |-> p, v |-> v, x |-> x, run |-> run, adv |-> adv]
NullMove(t, d, p) == Move(t, d, p, 0, FALSE, FALSE, 0)
End(m) == m.t + m.d
move_get_coord(m, t) == m.p + m.v * t

HeadSentinel == NullMove(0, 0, 0)

Init ==
  /\ moves = <<>> /\ tail = NullMove(NEVER, NEVER, 0) /\ history = <<>>
  /\ sk = [pos |-> 0, dir |-> FALSE, flush |-> 0, active |-> 0, window |-> 0, attached |-> TRUE]
  /\ stepper = [dist |-> 1, offset |-> 0] /\ pa_list = << <<0, 0>> >> /\ mcu = 0
  /\ end = 1 /\ path = [t \in 0..MaxTime |-> 0] /\ jumped = FALSE /\ changes = 0

-----------------------------------------------------------------------------
(* The queue.                                                              *)
trapq_add_move(q, m) ==
  LET prev == IF q = <<>> THEN HeadSentinel ELSE Last(q)
      from == IF prev.t = 0 /\ m.t > MaxNullMove THEN m.t - MaxNullMove ELSE End(prev)
  IN  IF End(prev) < m.t THEN q \o <<NullMove(from, m.t - from, m.p), m>> ELSE Append(q, m)

trapq_check_sentinels(q, s) ==
  CASE s.t # 0 -> s
    [] s.t = 0 /\ q = <<>> -> [s EXCEPT !.t = NEVER]
    [] OTHER -> [s EXCEPT !.t = End(Last(q)), !.p = move_get_coord(Last(q), Last(q).d)]

\* The moves that are over are a prefix.
Over(q, time) == Len(SelectSeq(q, LAMBDA m : End(m) <= time))

RECURSIVE Pruned(_, _)
Pruned(h, clear) ==
  IF Len(h) <= 1 \/ End(Last(h)) > clear THEN h ELSE Pruned(Front(h), clear)

Expired(q, h, time, clear) ==
  LET n == Over(q, time)
      ran == SelectSeq(SubSeq(q, 1, n), LAMBDA m : m.run)
  IN  [moves |-> SubSeq(q, n + 1, Len(q)), history |-> Pruned(Reverse(ran) \o h, clear)]

trapq_finalize_moves(time, clear, s) ==
  LET e == Expired(moves, history, time, clear)
  IN  /\ moves' = e.moves /\ history' = e.history
      /\ tail' = IF e.moves = <<>> THEN [s EXCEPT !.t = NEVER] ELSE s

\* What was not reached by the time of the new position is forgotten.
RECURSIVE Interrupted(_, _)
Interrupted(h, time) ==
  CASE h = <<>> -> h
    [] h # <<>> /\ h[1].t < time -> [h EXCEPT ![1].d = Least(@, time - h[1].t)]
    [] OTHER -> Interrupted(Tail(h), time)

trapq_set_position(time, p) ==
  LET e == Expired(moves, history, NEVER, 0)
  IN  /\ moves' = <<>> /\ tail' = [tail EXCEPT !.t = NEVER]
      /\ history' = <<NullMove(time, 0, p)>> \o Interrupted(e.history, time)

\* The first move of the history that starts before a time (trapq_extract_old
\* with room for one), and the position it gives.
get_trapq_position(time) ==
  LET m == SelectSeq(history, LAMBDA h : h.t < time)[1]
  IN  move_get_coord(m, Most(0, Least(m.d, time - m.t)))
Reports(time) == \E i \in DOMAIN history : history[i].t < time

-----------------------------------------------------------------------------
(* The steps.                                                              *)
List(s) == <<HeadSentinel>> \o moves \o <<s>>

\* get_axis_position_across_moves: from a move of the list to the one that
\* holds the time.  A time no move holds is a walk past the sentinels.
RECURSIVE Across(_, _, _)
Across(l, i, time) ==
  CASE i \notin DOMAIN l -> NEVER
    [] i \in DOMAIN l /\ time < 0 -> Across(l, i - 1, time + IF i = 1 THEN 0 ELSE l[i - 1].d)
    [] i \in DOMAIN l /\ time > l[i].d -> Across(l, i + 1, time - l[i].d)
    [] OTHER -> move_get_coord(l[i], time)

calc_position(l, i, time, window) == Across(l, i, time - window) + Across(l, i, time + window)

\* Whole steps towards a position; half a step has to be exceeded to turn.
StepsTo(k, p, dist) ==
  LET far == Abs(p - k.pos)
      n == (far * 2 + dist - (IF (p > k.pos) = k.dir THEN 0 ELSE 1)) \div (2 * dist)
  IN  IF p > k.pos THEN n ELSE -n

\* y = [k, mcu, jumped]: from where the stepper stands at the start of a range
\* to where the path is at the end of it.
itersolve_gen_steps_range(y, l, i, abs_start, abs_end) ==
  LET start == Most(0, abs_start - l[i].t)
      stop == Least(l[i].d, abs_end - l[i].t)
      from == calc_position(l, i, start, y.k.window)
      n == StepsTo(y.k, calc_position(l, i, stop, y.k.window), stepper.dist)
  IN  IF start >= stop THEN y
      ELSE [k |-> [y.k EXCEPT !.pos = @ + n * stepper.dist, !.dir = IF n = 0 THEN @ ELSE n > 0],
            mcu |-> y.mcu + n, jumped |-> y.jumped \/ 2 * Abs(from - y.k.pos) > stepper.dist]

\* Mutant: the stretch before a move that activates the stepper starts no
\* earlier than the move.
PreActiveNone(k, move, last, force) == Most(Most(move.t, last), force)

PreActive(k, move, last, force) == Most(Most(move.t - k.window, last), force)

\* The moves before i that were skipped, from the one that holds the time on.
RECURSIVE BackTo(_, _, _, _)
BackTo(l, i, skip, time) == IF skip > 1 /\ l[i].t > time THEN BackTo(l, i - 1, skip - 1, time) ELSE i

RECURSIVE Walk(_, _, _, _, _)
Walk(y, l, i, skip, f) ==
  LET last == sk.flush
      force == y.k.active + y.k.window
      abs_start == PreActive(y.k, l[i], last, force)
      from == IF skip > 0 /\ y.k.window > 0 THEN BackTo(l, i - 1, skip, abs_start) ELSE i
      led == FoldLeft(LAMBDA z, j : itersolve_gen_steps_range(z, l, j, abs_start, f), y, [j \in 1..i - from |-> from + j - 1])
      here == itersolve_gen_steps_range(led, l, i, last, f)
      past == itersolve_gen_steps_range(y, l, i, last, Least(force, f))
  IN  CASE l[i].x /\ End(l[i]) >= f -> [here EXCEPT !.k.active = f]
        [] l[i].x /\ End(l[i]) < f  -> Walk([here EXCEPT !.k.active = End(l[i])], l, i + 1, 0, f)
        [] ~l[i].x /\ l[i].t < force ->
             IF f + y.k.window <= End(l[i]) THEN past ELSE Walk(past, l, i + 1, 1, f)
        [] OTHER ->
             IF f + y.k.window <= End(l[i]) THEN y ELSE Walk(y, l, i + 1, skip + 1, f)

itersolve_generate_steps(f, s) ==
  LET l == List(s)
      first == CHOOSE i \in DOMAIN l : End(l[i]) > sk.flush /\ \A j \in 1..i - 1 : End(l[j]) <= sk.flush
      y == [k |-> sk, mcu |-> mcu, jumped |-> jumped]
      z == IF sk.attached THEN Walk(y, l, first, 0, f) ELSE y
  IN  [z EXCEPT !.k.flush = f]

\* The tool head flushes up to a time: the steps, then the moves that no step
\* needs any more.
Flush(f, s) ==
  \E z \in {itersolve_generate_steps(f, s)} :
    /\ sk' = z.k /\ mcu' = z.mcu /\ jumped' = z.jumped
    /\ trapq_finalize_moves(f - sk.window, f - HistoryExpire, s)

flush(f) ==
  /\ f \in sk.flush + 1 .. Least(end + sk.window, MaxTime)
  /\ Flush(f, trapq_check_sentinels(moves, tail))
  /\ UNCHANGED <<stepper, pa_list, end, path, changes>>

-----------------------------------------------------------------------------
(* The tool head.                                                          *)
Changes == changes < MaxChanges /\ changes' = changes + 1

\* Moves start when the last one ends, or later, and never in a stretch for
\* which steps were generated.
append(t, d, v, x) ==
  /\ t \in Most(end, sk.flush + sk.window) .. Least(end + MaxGap, MaxTime) /\ t + d < MaxTime
  /\ Changes
  /\ moves' = trapq_add_move(moves, Move(t, d, path[end], IF x THEN v ELSE 0, x, TRUE, Last(pa_list)[1]))
  /\ tail' = [tail EXCEPT !.t = 0] /\ end' = t + d
  /\ path' = [u \in DOMAIN path |-> IF u <= t THEN path[u] ELSE path[end] + (IF x THEN v ELSE 0) * (Least(u, t + d) - t)]
  /\ UNCHANGED <<history, sk, stepper, pa_list, mcu, jumped>>

\* flush_step_generation: what it leaves is a queue with nothing to step.
Flushed == sk.flush = end + sk.window

get_mcu_position(k, st) ==
  LET far == k.pos + st.offset
  IN  IF far >= 0 THEN (2 * far + st.dist) \div (2 * st.dist) ELSE -((st.dist - 2 * far) \div (2 * st.dist))
_set_mcu_position(k, st, at) == [st EXCEPT !.offset = at * st.dist - k.pos]

\* MCU_stepper.set_position
stepper_set_position(p) ==
  /\ sk' = [sk EXCEPT !.pos = 2 * p, !.flush = end + sk.window]
  /\ stepper' = _set_mcu_position(sk', stepper, get_mcu_position(sk, stepper))

set_position(p) ==
  /\ Flushed /\ Changes /\ stepper_set_position(p) /\ trapq_set_position(end, p)
  /\ path' = [u \in DOMAIN path |-> IF u <= end THEN path[u] ELSE p]
  /\ end + 1 < MaxTime /\ end' = end + 1 /\ path[end] # p
  /\ UNCHANGED <<pa_list, mcu, jumped>>

\* A homing move ends early: the rest of it is dropped, and the position is
\* set to where the steppers stopped.
interrupt(time, p) ==
  /\ moves # <<>> /\ time \in sk.flush + sk.window .. end - 1 /\ Changes
  /\ sk' = [sk EXCEPT !.pos = 2 * p, !.flush = time + sk.window]
  /\ stepper' = _set_mcu_position(sk', stepper, get_mcu_position(sk, stepper))
  /\ trapq_set_position(time, p) /\ end' = time + 1
  /\ path' = [u \in DOMAIN path |-> IF u <= time THEN path[u] ELSE p]
  /\ UNCHANGED <<pa_list, mcu, jumped>>

\* set_rotation_distance
set_rotation_distance(dist) ==
  /\ Flushed /\ Changes /\ dist # stepper.dist
  /\ stepper' = _set_mcu_position(sk, [stepper EXCEPT !.dist = dist], get_mcu_position(sk, stepper))
  /\ UNCHANGED <<moves, tail, history, sk, pa_list, mcu, end, path, jumped>>

\* note_step_generation_scan_time, then the new window.
set_window(w) ==
  /\ Flushed /\ Changes /\ w # sk.window
  /\ sk' = [sk EXCEPT !.window = w]
  /\ UNCHANGED <<moves, tail, history, stepper, pa_list, mcu, end, path, jumped>>

\* sync_to_extruder: off the queue, and back on it where the queue stands.
sync_to_extruder(on) ==
  /\ Flushed /\ Changes /\ on # sk.attached
  /\ sk' = [sk EXCEPT !.attached = on, !.pos = IF on THEN 2 * path[end] ELSE @]
  /\ stepper' = _set_mcu_position(sk', stepper, get_mcu_position(sk, stepper))
  /\ UNCHANGED <<moves, tail, history, pa_list, mcu, end, path, jumped>>

\* extruder_set_pressure_advance, called for the next move's time.
RECURSIVE Cleaned(_, _)
Cleaned(list, time) == IF Len(list) <= 1 \/ list[2][2] >= time THEN list ELSE Cleaned(Tail(list), time)

extruder_set_pressure_advance(adv) ==
  /\ sk.window > 0 /\ Changes /\ adv # Last(pa_list)[1]
  /\ pa_list' = Append(Cleaned(pa_list, sk.flush - sk.window), <<adv, end>>)
  /\ UNCHANGED <<moves, tail, history, sk, stepper, mcu, end, path, jumped>>

\* pa_move_integrate
PressureAdvanceOf(m) ==
  LET i == CHOOSE i \in DOMAIN pa_list : /\ pa_list[i][2] <= m.t \/ i = 1
                                         /\ \A j \in i + 1..Len(pa_list) : pa_list[j][2] > m.t
  IN  pa_list[i][1]

Next ==
  \/ \E f \in 1..MaxTime : flush(f)
  \/ \E t \in 1..MaxTime, d \in Durations, v \in Speeds, x \in BOOLEAN : append(t, d, v, x)
  \/ \E p \in {-1, 0, 1} : set_position(p)
  \/ \E t \in 1..MaxTime, p \in {0, 1} : interrupt(t, p)
  \/ \E d \in StepDists : set_rotation_distance(d)
  \/ \E w \in Windows : set_window(w)
  \/ \E on \in BOOLEAN : sync_to_extruder(on)
  \/ \E adv \in Advances : extruder_set_pressure_advance(adv)

Spec == Init /\ [][Next]_vars

-----------------------------------------------------------------------------
(* Properties                                                              *)
TypeOK ==
  /\ \A i \in DOMAIN moves : moves[i].d \in Nat /\ (i > 1 => moves[i].t = End(moves[i - 1]))
  /\ sk.window \in Windows /\ stepper.dist \in StepDists /\ end \in 0..MaxTime /\ jumped \in BOOLEAN

\* No stretch of the path is left out: where steps are generated the stepper
\* stands within half a step of where the path, averaged over the window, is.
NoJump == ~jumped

\* What the host takes for the micro-controller's position is the number of
\* steps it has made, whatever was set in between.
McuPositionIsKnown == get_mcu_position(sk, stepper) = mcu

\* The position that is reported for a time up to which all moves are over is
\* the one that was asked for at that time.
ReportedIsTrue ==
  \A t \in 1..Least(sk.flush - sk.window, MaxTime) :
    t <= end /\ (moves # <<>> => t <= moves[1].t) /\ Reports(t) /\ (\A i \in DOMAIN history : history[i].t # t) => get_trapq_position(t) = path[t]

\* A move that can still be stepped finds the pressure advance that was in
\* force when it was queued.
AdvanceIsThatOfTheMove ==
  sk.window > 0 => \A i \in DOMAIN moves : moves[i].run => PressureAdvanceOf(moves[i]) = moves[i].adv
=============================================================================
