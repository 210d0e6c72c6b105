---------------------------- MODULE StepCompress ----------------------------
(***************************************************************************)
(* Step compression (chelper/stepcompress.c): the step times of a stepper  *)
(* become queue_step commands "interval, count, add"; steppersync sends    *)
(* the commands of all steppers in the order the micro-controller needs    *)
(* them and never more than its move queue has room for.                   *)
(*                                                                         *)
(* Clocks are small numbers: FarClocks is CLOCK_DIFF_MAX, FilterClocks is  *)
(* SDS_FILTER_TIME, MaxCount stands for 65535 steps in a move.             *)
(***************************************************************************)
EXTENDS Integers, Sequences, SequencesExt, FiniteSets, TLC

CONSTANTS Steppers,
          Pins,                \* the step queues of pins (pwm_tool), which have no steps
          MaxError, FarClocks, FilterClocks, MaxCount,
          MoveNum,             \* room in the move queue
          MaxClock, MaxSteps, MaxHomings \* bounds

StepCompressAssumption ==
  /\ {MaxError, FarClocks, FilterClocks, MaxCount, MoveNum, MaxClock, MaxSteps} \subseteq Nat \ {0} /\ Pins \subseteq Steppers /\ MaxHomings \in Nat

VARIABLES
  sc,      \* [Steppers -> struct stepcompress]
  clocks,  \* the heap move_clocks
  flushed, \* move_clock of the last flush
  expired, \* clear_history_clock of the last flush
  asked,   \* [Steppers -> the steps that were appended and not filtered]
  sent,    \* [Steppers -> commands sent since the step clock was reset]
  used,    \* <<min_clock, transmit clock>> of the commands of the move queue that were sent
  homings

vars == <<sc, clocks, flushed, expired, asked, sent, used, homings>>

None == -1
Never == 1000000 \* UINT64_MAX

NewStepper ==
  [queue |-> <<>>, last |-> 0, sdir |-> None, next |-> 0, ndir |-> 0, pos |-> 0,
   msgs |-> <<>>, history |-> <<>>, failed |-> FALSE]

Init ==
  /\ sc = [s \in Steppers |-> NewStepper] /\ clocks = [i \in 1..MoveNum |-> 0]
  /\ flushed = 0 /\ expired = 0 /\ homings = 0
  /\ asked = [s \in Steppers |-> <<>>] /\ sent = [s \in Steppers |-> <<>>] /\ used = <<>>

-----------------------------------------------------------------------------
(* The compression of a queue of step times q, relative to the last step.  *)
With(value, Op(_)) == CHOOSE y \in {Op(x) : x \in {value}} : TRUE
Least(a, b) == IF a < b THEN a ELSE b
Most(a, b) == IF a > b THEN a ELSE b
idiv_up(n, d) == -((-n) \div d)
idiv_down(n, d) == n \div d

minmax_point(q, i) ==
  LET before == IF i > 1 THEN q[i - 1] ELSE 0
  IN  [minp |-> q[i] - Least((q[i] - before) \div 2, MaxError), maxp |-> q[i]]

\* Steps the move's first n steps take.
Ticks(m, n) == m.add * ((n * (n - 1)) \div 2) + m.interval * n

\* The longest sequence with this add: the bounds of its interval are narrowed
\* point by point; b is [lo, hi, interval, n, end].
RECURSIVE Extend(_, _, _)
Extend(q, add, b) ==
  LET n == b.n + 1
      p == minmax_point(q, n)
      c == add * ((n * (n - 1)) \div 2)
      lo == IF b.lo * n < p.minp - c THEN idiv_up(p.minp - c, n) ELSE b.lo
      hi == IF b.hi * n > p.maxp - c THEN idiv_down(p.maxp - c, n) ELSE b.hi
  IN  IF n > Least(Len(q), MaxCount) THEN [b EXCEPT !.end = TRUE]
      ELSE IF lo > hi THEN [b EXCEPT !.lo = lo, !.hi = hi, !.next = p]
      ELSE Extend(q, add, [b EXCEPT !.lo = lo, !.hi = hi, !.interval = hi, !.n = n])

Better(m, best) ==
  \/ Ticks(m, m.count) > best.reach
  \/ Ticks(m, m.count) = best.reach /\ m.interval > best.interval

\* The bounds of add after the sequence e of this add ended at its next point.
AddBounds(e, t) ==
  LET n == e.n + 1
      f == (n * (n - 1)) \div 2
      short == t.add * f + e.interval * n < e.next.minp
      lo1 == IF short THEN t.add + 1 ELSE t.minadd
      hi1 == IF short THEN t.maxadd ELSE t.add - 1
      olo == IF short THEN t.lo ELSE e.lo
      ohi == IF short THEN e.hi ELSE t.hi
      dev == (MaxError * 11) \div (e.n * e.n)
      lo2 == IF e.n > 1 THEN Most(lo1, t.add - dev) ELSE lo1
      hi2 == IF e.n > 1 THEN Least(hi1, t.add + dev) ELSE hi1
  IN  [lo |-> olo, hi |-> ohi,
       minadd |-> IF lo2 * f < e.next.minp - ohi * n THEN idiv_up(e.next.minp - ohi * n, f) ELSE lo2,
       maxadd |-> IF hi2 * f > e.next.maxp - olo * n THEN idiv_down(e.next.maxp - olo * n, f) ELSE hi2]

\* t is [add, minadd, maxadd, lo, hi, best, zero]: the outer loop.
RECURSIVE Bisect(_, _)
Bisect(q, t) ==
  With(Extend(q, t.add, [lo |-> t.lo, hi |-> t.hi, interval |-> t.hi, n |-> 1, end |-> FALSE, next |-> <<>>]), LAMBDA e :
    LET m == [interval |-> e.interval, count |-> e.n, add |-> t.add]
        best == IF Better(m, t.best) THEN m @@ [reach |-> Ticks(m, m.count)] ELSE t.best
        zero == IF Better(m, t.best) /\ t.add = 0 THEN m ELSE t.zero
    IN  IF e.end THEN m
        ELSE With(AddBounds(e, t), LAMBDA a :
          IF a.minadd <= a.maxadd
          THEN Bisect(q, a @@ [add |-> a.maxadd - (a.maxadd - a.minadd) \div 4, best |-> best, zero |-> zero])
          ELSE IF zero.count + zero.count \div 16 >= best.count THEN zero
          ELSE [interval |-> best.interval, count |-> best.count, add |-> best.add]))

compress_bisect_add(q) ==
  LET p == minmax_point(q, 1)
  IN  Bisect(q, [add |-> 0, minadd |-> -8, maxadd |-> 7, lo |-> p.minp, hi |-> p.maxp,
                 best |-> [interval |-> 0, count |-> 1, add |-> 1, reach |-> -Never],
                 zero |-> [interval |-> 0, count |-> 0, add |-> 0]])

\* check_line: the move keeps every step within its bounds.
check_line(q, m) ==
  /\ m.count > 0 /\ m.interval >= 0 /\ ~(m.interval = 0 /\ m.add = 0 /\ m.count > 1)
  /\ \A i \in 1..m.count :
       LET p == minmax_point(q, i)
       IN  Ticks(m, i) \in p.minp..p.maxp /\ m.interval + m.add * (i - 1) >= 0

\* Of these step times the compressor finds a move that passes the check, and
\* with equal intervals it needs one move for all of them.
CompressionIsRight(Q) ==
  \A q \in Q :
    LET m == compress_bisect_add(q)
    IN  /\ check_line(q, m) /\ m.count \in 1..Least(Len(q), MaxCount)
        /\ (\A i \in DOMAIN q : q[i] = i * q[1]) => m.count = Least(Len(q), MaxCount)

-----------------------------------------------------------------------------
(* Commands and history.                                                   *)
Dirs(r) == IF r.sdir # 0 THEN 1 ELSE -1

\* add_move: the command and its entry in the history.
add_move(r, first, m) ==
  LET end == first + Ticks(m, m.count) - m.interval
      req == IF m.count = 1 /\ first >= r.last + FarClocks THEN first ELSE r.last
      steps == Dirs(r) * m.count
  IN  [r EXCEPT !.msgs = Append(@, [kind |-> "step", min |-> r.last, req |-> req, move |-> m]),
                !.last = end, !.pos = @ + steps,
                !.history = <<[first |-> first, last |-> end, start |-> r.pos, steps |-> steps, move |-> m]>> \o @]

Command(r, kind, dir) == [kind |-> kind, min |-> 0, req |-> r.last, move |-> dir]

RECURSIVE queue_flush(_, _)
queue_flush(r, move_clock) ==
  IF r.failed \/ r.queue = <<>> \/ r.last >= move_clock THEN r
  ELSE LET q == [i \in DOMAIN r.queue |-> r.queue[i] - r.last]
       IN  With(compress_bisect_add(q), LAMBDA m :
             IF ~check_line(q, m) THEN [r EXCEPT !.failed = TRUE]
             ELSE queue_flush([add_move(r, r.last + m.interval, m) EXCEPT !.queue = SubSeq(@, m.count + 1, Len(@))], move_clock))

set_next_step_dir(r, dir) ==
  IF r.sdir = dir THEN r
  ELSE With(queue_flush(r, Never), LAMBDA f : [f EXCEPT !.sdir = dir, !.msgs = Append(@, Command(f, "dir", dir))])

queue_append_far(r) ==
  With(queue_flush([r EXCEPT !.next = 0], r.next - FarClocks + 1), LAMBDA f :
    IF r.next >= f.last + FarClocks
    THEN add_move(f, r.next, [interval |-> r.next - f.last, count |-> 1, add |-> 0])
    ELSE [f EXCEPT !.queue = Append(@, r.next)])

queue_append(r) ==
  With(set_next_step_dir(r, r.ndir), LAMBDA d :
    IF d.next >= d.last + FarClocks THEN queue_append_far(d)
    ELSE [d EXCEPT !.queue = Append(@, d.next), !.next = 0])

Filtered(r, dir, clock) == r.next # 0 /\ dir # r.ndir /\ clock - r.next < FilterClocks

stepcompress_append(r, dir, clock) ==
  IF Filtered(r, dir, clock) THEN [r EXCEPT !.next = 0, !.ndir = dir]
  ELSE [(IF r.next # 0 THEN queue_append(r) ELSE r) EXCEPT !.next = clock, !.ndir = dir]

stepcompress_commit(r) == IF r.next # 0 THEN queue_append(r) ELSE r

\* Mutant: the pending step waits for a later clock.
stepcompress_flush_later(r, move_clock) ==
  queue_flush(IF r.next # 0 /\ move_clock > r.next THEN queue_append(r) ELSE r, move_clock)

stepcompress_flush(r, move_clock) ==
  queue_flush(IF r.next # 0 /\ move_clock >= r.next THEN queue_append(r) ELSE r, move_clock)

stepcompress_reset(r) == [stepcompress_flush(r, Never) EXCEPT !.last = 0, !.sdir = None]

stepcompress_queue_msg(r, kind) ==
  With(stepcompress_flush(r, Never), LAMBDA f : [f EXCEPT !.msgs = Append(@, Command(f, kind, 0))])

stepcompress_queue_mq_msg(r, clock) ==
  [stepcompress_flush(r, Never) EXCEPT !.msgs = Append(@, [kind |-> "pwm", min |-> clock, req |-> clock, move |-> 0])]

stepcompress_set_last_position(r, clock, pos) ==
  [stepcompress_flush(r, Never) EXCEPT
     !.pos = pos,
     !.history = <<[first |-> clock, last |-> clock, start |-> pos, steps |-> 0, move |-> 0]>> \o @]

\* free_history: from the oldest entry on.
RECURSIVE free_history(_, _)
free_history(h, clock) ==
  IF h = <<>> \/ Last(h).last > clock THEN h ELSE free_history(Front(h), clock)

\* The count the quadratic formula finds: the steps of the move up to clock.
Done(m, since) == LET N == {n \in 1..m.count : Ticks(m, n) <= since + m.interval}
                  IN  CHOOSE n \in N : \A k \in N : k <= n

stepcompress_find_past_position(r, clock) ==
  LET at == {i \in DOMAIN r.history : clock >= r.history[i].first}
      i == CHOOSE i \in at : \A k \in at : i <= k
      h == r.history[i]
  IN  IF at = {} THEN IF r.history = <<>> THEN r.pos ELSE Last(r.history).start
      ELSE IF clock >= h.last THEN h.start + h.steps
      ELSE h.start + (IF h.steps < 0 THEN -1 ELSE 1) * Done(h.move, clock - h.first)

-----------------------------------------------------------------------------
(* steppersync                                                             *)
HeapClock(mc, i) == IF i <= MoveNum THEN mc[i] ELSE Never

RECURSIVE HeapDown(_, _, _)
HeapDown(mc, i, clock) ==
  LET l == HeapClock(mc, 2 * i)
      r == HeapClock(mc, 2 * i + 1)
      child == IF l < r THEN 2 * i ELSE 2 * i + 1
  IN  IF clock <= l /\ clock <= r THEN [mc EXCEPT ![i] = clock]
      ELSE HeapDown([mc EXCEPT ![i] = mc[child]], child, clock)

heap_replace(mc, clock) == HeapDown(mc, 1, clock)

\* The stepper whose first command has the lowest req_clock.
Lowest(S) ==
  LET W == {s \in Steppers : S[s].msgs # <<>>}
  IN  {s \in W : \A k \in W : \/ Head(S[s].msgs).req < Head(S[k].msgs).req
                              \/ (Head(S[s].msgs).req = Head(S[k].msgs).req /\ s <= k)}

\* y is [sc, clocks, sent, used]: the commands before move_clock are taken.
RECURSIVE Ordered(_, _)
Ordered(y, move_clock) ==
  IF \A s \in Lowest(y.sc) : Head(y.sc[s].msgs).min # 0 /\ Head(y.sc[s].msgs).req > move_clock THEN y
  ELSE LET s == CHOOSE s \in Lowest(y.sc) : TRUE
           m == Head(y.sc[s].msgs)
       IN  Ordered([sc |-> [y.sc EXCEPT ![s].msgs = Tail(@)],
                    clocks |-> IF m.min # 0 THEN heap_replace(y.clocks, m.min) ELSE y.clocks,
                    sent |-> [y.sent EXCEPT ![s] = Append(@, m)],
                    used |-> IF m.min # 0 THEN Append(y.used, <<m.min, y.clocks[1]>>) ELSE y.used], move_clock)

steppersync_flush(move_clock, clear) ==
  \E y \in {Ordered([sc |-> [s \in Steppers |-> stepcompress_flush(sc[s], move_clock)],
                     clocks |-> clocks, sent |-> sent, used |-> used], move_clock)} :
    /\ sc' = [s \in Steppers |-> [y.sc[s] EXCEPT !.history = free_history(@, clear)]]
    /\ clocks' = y.clocks /\ sent' = y.sent /\ used' = y.used

-----------------------------------------------------------------------------
(* What the kinematics and the stepper do.                                 *)
LastAsked(s) == IF asked[s] = <<>> THEN 0 ELSE Last(asked[s]).clock
Steps == LET Count[S \in SUBSET Steppers] ==
               IF S = {} THEN 0 ELSE LET s == CHOOSE s \in S : TRUE IN Len(asked[s]) + Count[S \ {s}]
         IN  Count[Steppers]

append(s, dir) ==
  \E clock \in (Most(LastAsked(s), flushed) + 1)..MaxClock :
    /\ Steps < MaxSteps
    /\ sc' = [sc EXCEPT ![s] = stepcompress_append(@, dir, clock)]
    /\ asked' = [asked EXCEPT ![s] = IF Filtered(sc[s], dir, clock) THEN Front(@)
                                     ELSE Append(@, [clock |-> clock, dir |-> dir])]
    /\ UNCHANGED <<clocks, flushed, expired, sent, used, homings>>

commit(s) ==
  /\ sc[s].next # 0
  /\ sc' = [sc EXCEPT ![s] = stepcompress_commit(@)]
  /\ UNCHANGED <<clocks, flushed, expired, asked, sent, used, homings>>

\* A pin of the stepper's queue is set at a clock (pwm_tool).
queue_mq_msg(s, clock) ==
  /\ clock > flushed /\ \A i \in DOMAIN sc[s].msgs : sc[s].msgs[i].req < clock
  /\ Len(SelectSeq(sent[s] \o sc[s].msgs, LAMBDA m : m.kind = "pwm")) < MaxSteps
  /\ sc' = [sc EXCEPT ![s] = stepcompress_queue_mq_msg(@, clock)]
  /\ UNCHANGED <<clocks, flushed, expired, asked, sent, used, homings>>

flush(clock, clear) ==
  /\ steppersync_flush(clock, clear) /\ flushed' = clock /\ expired' = clear
  /\ UNCHANGED <<asked, homings>>

\* The steps the micro-controller does for these commands.
RECURSIVE Played(_, _, _, _)
Played(msgs, last, dir, pos) ==
  IF msgs = <<>> THEN pos
  ELSE LET m == Head(msgs)
       IN  IF m.kind = "dir" THEN Played(Tail(msgs), last, m.move, pos)
           ELSE IF m.kind # "step" THEN Played(Tail(msgs), last, dir, pos)
           ELSE Played(Tail(msgs), last + Ticks(m.move, m.move.count), dir,
                       pos \o [i \in 1..m.move.count |-> [clock |-> last + Ticks(m.move, i), dir |-> dir]])

\* note_homing_end at now: the endstop stopped the stepper at a clock before,
\* the steps that were sent after it are lost.
RECURSIVE Net(_)
Net(P) == IF P = <<>> THEN 0 ELSE (IF Head(P).dir # 0 THEN 1 ELSE -1) + Net(Tail(P))
StartPosition(s) == sc[s].pos - Net(Played(sent[s] \o sc[s].msgs, 0, None, <<>>))

note_homing_end(s, stop, now) ==
  /\ homings < MaxHomings /\ now > 0 /\ sc[s].next = 0 /\ sc[s].queue = <<>> /\ sc[s].msgs = <<>>
  /\ LET pos == StartPosition(s) + Net(SelectSeq(Played(sent[s], 0, None, <<>>), LAMBDA p : p.clock <= stop))
         reset == stepcompress_queue_msg(stepcompress_reset(sc[s]), "reset")
     IN  sc' = [sc EXCEPT ![s] = [stepcompress_set_last_position(reset, now, pos) EXCEPT !.msgs = <<>>]]
  /\ asked' = [asked EXCEPT ![s] = <<>>] /\ sent' = [sent EXCEPT ![s] = <<>>]
  /\ homings' = homings + 1
  /\ UNCHANGED <<clocks, flushed, expired, used>>

Next ==
  \/ \E s \in Steppers \ Pins : commit(s) \/ \E dir \in 0..1 : append(s, dir)
  \/ \E s \in Pins, c \in 1..MaxClock : queue_mq_msg(s, c)
  \/ \E clock \in (flushed + 1)..MaxClock, clear \in {expired, flushed} : flush(clock, clear)
  \/ \E s \in Steppers \ Pins, stop \in 0..flushed : note_homing_end(s, stop, flushed)

Spec == Init /\ [][Next]_vars

-----------------------------------------------------------------------------
(* Properties                                                              *)
\* The compressor never fails its own check, and the queue holds step times
\* in their order behind the last step that was sent.
TypeOK ==
  \A s \in Steppers :
    /\ ~sc[s].failed /\ sc[s].sdir \in {None, 0, 1} /\ sc[s].next \in Nat
    /\ \A i \in DOMAIN sc[s].queue : sc[s].queue[i] > IF i = 1 THEN sc[s].last ELSE sc[s].queue[i - 1]

\* What the micro-controller will play is what the kinematics asked: every
\* step with its direction, in order, none lost or repeated, at most
\* MaxError early and never late.
StepsAreAsked ==
  \A s \in Steppers :
    LET r == sc[s]
        played == Played(sent[s] \o r.msgs, 0, None, <<>>)
        waiting == [i \in DOMAIN r.queue |-> [clock |-> r.queue[i], dir |-> r.sdir]]
                   \o (IF r.next # 0 THEN <<[clock |-> r.next, dir |-> r.ndir]>> ELSE <<>>)
        all == played \o waiting
    IN  /\ Len(all) = Len(asked[s])
        /\ \A i \in DOMAIN all : all[i].dir = asked[s][i].dir /\ asked[s][i].clock - all[i].clock \in 0..MaxError

\* After a flush every step up to its clock has been sent.
FlushIsComplete ==
  \A s \in Steppers : \A i \in DOMAIN asked[s] :
    asked[s][i].clock <= flushed => i <= Len(Played(sent[s], 0, None, <<>>))

\* When a command is sent the move queue has room: of those sent before, fewer
\* than MoveNum are still in it at its transmit clock (a command is not sent
\* before those ahead of it).
NoOverflow ==
  \A i \in DOMAIN used :
    Cardinality({j \in 1..(i - 1) : \A k \in 1..i : used[j][1] > used[k][2]}) < MoveNum

\* The history answers where the stepper was at a past clock, as counted from
\* the commands, for every clock that has not been cleared.
PastIsKnown ==
  \A s \in Steppers :
    LET played == Played(sent[s] \o sc[s].msgs, 0, None, <<>>)
        reset == {i \in DOMAIN sc[s].history : sc[s].history[i].steps = 0}
        from == IF reset = {} THEN expired ELSE Most(expired, sc[s].history[CHOOSE i \in reset : \A k \in reset : i <= k].first)
    IN  \A c \in from..MaxClock :
          stepcompress_find_past_position(sc[s], c)
            = StartPosition(s) + Net(SelectSeq(played, LAMBDA p : p.clock <= c))
=============================================================================
