----------------------------- MODULE IdleTimeout -----------------------------
(***************************************************************************)
(* The idle timeout (extras/idle_timeout.py) tells the rest of the printer *)
(* whether it prints, is ready or idle: the tool head's event "print time  *)
(* synchronised" makes it Printing, and one timer makes it Ready when the  *)
(* tool head has run dry and Idle, after a script that turns the heaters   *)
(* off, when it stays so.  The script, a delayed_gcode with a timer of its *)
(* own, clients and a print from the SD card take turns at the G-code      *)
(* mutex.  Time is in half seconds; the print time of a move is rounded up *)
(* to it, so that time passes between two synchronisations.                *)
(***************************************************************************)
EXTENDS Integers

CONSTANTS
  Timeouts,   \* the timeouts that are set, in half seconds
  Moving,     \* does the idle script move the head?
  MaxTime, MaxMoves

IdleTimeoutAssumption ==
  Timeouts \subseteq Nat /\ Moving \in BOOLEAN /\ MaxTime \in Nat /\ MaxMoves \in Nat

VARIABLES
  state, timer, timeout,   \* of the idle timeout
  holder,                  \* who holds the G-code mutex
  pt, queued,              \* the print time, and moves in the look-ahead queue
  delayed,                 \* the delayed_gcode: its timer, and where its script is
  now, moves

vars == <<state, timer, timeout, holder, pt, queued, delayed, now, moves>>

Never == -1
Most(a, b) == IF a > b THEN a ELSE b
Free == holder = "none"
IsDue(at) == at # Never /\ at <= now

\* Mutant: a printer that is ready stays so when the head moves again.
handle_sync_print_time_ready(print_time) ==
  IF state # "Idle" THEN UNCHANGED <<state, timer>>
  ELSE state' = "Printing" /\ timer' = now + 1 + print_time - now
handle_sync_print_time(print_time) ==
  IF state = "Printing" THEN UNCHANGED <<state, timer>>
  ELSE state' = "Printing" /\ timer' = now + 1 + print_time - now

\* The queue is flushed: a head that has run dry starts at the present, and says so.
_process_moves ==
  /\ queued > 0
  /\ queued' = 0
  /\ IF pt <= now THEN handle_sync_print_time(now) ELSE UNCHANGED <<state, timer>>
  /\ pt' = Most(pt, now) + queued
  /\ UNCHANGED <<timeout, holder, delayed, now, moves>>

TakeMutex(who) == Free /\ holder' = who
ClientStarts ==
  /\ moves < MaxMoves
  /\ \E who \in {"client", "sd"} : TakeMutex(who)
  /\ UNCHANGED <<state, timer, timeout, pt, queued, delayed, now, moves>>

HolderMoves ==
  /\ holder \notin {"none", "idle"} \/ (Moving /\ holder = "idle")
  /\ moves < MaxMoves
  /\ moves' = moves + 1
  /\ queued' = queued + 1
  /\ UNCHANGED <<state, timer, timeout, holder, pt, delayed, now>>

cmd_SET_IDLE_TIMEOUT ==
  /\ ~Free
  /\ \E x \in Timeouts \ {timeout} :
       /\ timeout' = x
       /\ timer' = IF state = "Ready" THEN now + x ELSE timer
  /\ UNCHANGED <<state, holder, pt, queued, delayed, now, moves>>

HolderEnds ==
  /\ holder \in {"client", "sd"}
  /\ holder' = "none"
  /\ UNCHANGED <<state, timer, timeout, pt, queued, delayed, now, moves>>

\* What the timer finds: the next time it looks again.
check_idle_timeout ==
  LET idle == now - pt IN
  IF queued > 0 \/ idle < 2 THEN now + timeout
  ELSE IF idle < timeout THEN now + timeout - idle
  ELSE now + 2
IsIdle == queued = 0 /\ now - pt >= 2 /\ now - pt >= timeout /\ Free

BufferTime == IF pt - now > 4 THEN 4 ELSE pt - now
IsReady == queued = 0 /\ BufferTime <= -1 /\ Free
\* Mutant: the timer is not set again while a command runs.
LooksAgain_not ==
  IF queued > 0 THEN now + 1 + Most(0, BufferTime) ELSE IF BufferTime > -1 THEN now + 1 + BufferTime ELSE Never
LooksAgain ==
  IF queued > 0 THEN now + 1 + Most(0, BufferTime) ELSE IF BufferTime > -1 THEN now + 1 + BufferTime ELSE now + 1

timeout_handler ==
  /\ IsDue(timer)
  /\ \/ /\ state = "Ready"
        /\ ~IsIdle
        /\ timer' = check_idle_timeout
        /\ UNCHANGED <<state, holder>>
     \/ /\ state = "Ready"
        /\ IsIdle
        /\ state' = "Printing"
        /\ timer' = Never
        /\ TakeMutex("idle")
     \/ /\ state # "Ready"
        /\ ~IsReady
        /\ timer' = LooksAgain
        /\ UNCHANGED <<state, holder>>
     \/ /\ state # "Ready"
        /\ IsReady
        /\ state' = "Ready"
        /\ timer' = now + timeout
        /\ UNCHANGED holder
  /\ UNCHANGED <<timeout, pt, queued, delayed, now, moves>>

\* The idle script ends: moves of it are flushed, with an event that a printing state ignores.
transition_idle_state ==
  /\ holder = "idle"
  /\ holder' = "none"
  /\ \/ /\ state' = "Idle"
        /\ timer' = Never
        /\ queued' = 0
        /\ pt' = Most(pt, now) + queued
     \/ /\ state' = "Ready"
        /\ timer' = now + 2
        /\ UNCHANGED <<queued, pt>>
  /\ UNCHANGED <<timeout, delayed, now, moves>>

\* A delayed_gcode: its timer fires and the script waits for the mutex; it, or a client, sets the timer anew.
_gcode_timer_event ==
  /\ IsDue(delayed.at)
  /\ ~delayed.inside
  /\ delayed' = [delayed EXCEPT !.at = Never, !.inside = TRUE, !.since = now]
  /\ UNCHANGED <<state, timer, timeout, holder, pt, queued, now, moves>>
DelayedRuns ==
  /\ delayed.inside
  /\ TakeMutex("delayed")
  /\ UNCHANGED <<state, timer, timeout, pt, queued, delayed, now, moves>>
DelayedEnds ==
  /\ holder = "delayed"
  /\ holder' = "none"
  /\ delayed' = [delayed EXCEPT !.inside = FALSE, !.repeat = FALSE, !.since = 0,
                                !.at = IF delayed.repeat THEN delayed.since + delayed.duration ELSE Never]
  /\ UNCHANGED <<state, timer, timeout, pt, queued, now, moves>>

\* Mutant: the timer is set although its own callback runs, whose return value will replace it.
cmd_UPDATE_DELAYED_GCODE_at_once(duration) ==
  delayed' = [delayed EXCEPT !.duration = duration,
                             !.at = IF duration = 0 THEN Never ELSE now + duration]
cmd_UPDATE_DELAYED_GCODE(duration) ==
  IF delayed.inside
  THEN delayed' = [delayed EXCEPT !.duration = duration, !.repeat = duration # 0]
  ELSE delayed' = [delayed EXCEPT !.duration = duration,
                                  !.at = IF duration = 0 THEN Never ELSE now + duration]
Update ==
  /\ ~Free
  /\ \E duration \in {0, 2} : duration # delayed.duration /\ cmd_UPDATE_DELAYED_GCODE(duration)
  /\ UNCHANGED <<state, timer, timeout, holder, pt, queued, now, moves>>

\* A timer that is due runs before time goes on.
Tick ==
  /\ now < MaxTime
  /\ ~IsDue(timer)
  /\ ~IsDue(delayed.at) \/ delayed.inside
  /\ now' = now + 1
  /\ UNCHANGED <<state, timer, timeout, holder, pt, queued, delayed, moves>>

Init ==
  /\ state = "Idle"
  /\ timer = Never
  /\ timeout \in Timeouts
  /\ holder = "none"
  /\ pt = 0
  /\ queued = 0
  /\ delayed = [at |-> Never, inside |-> FALSE, repeat |-> FALSE, duration |-> 0, since |-> 0]
  /\ now = 1
  /\ moves = 0

Next ==
  \/ _process_moves \/ ClientStarts \/ HolderMoves \/ cmd_SET_IDLE_TIMEOUT \/ HolderEnds
  \/ timeout_handler \/ transition_idle_state
  \/ _gcode_timer_event \/ DelayedRuns \/ DelayedEnds \/ Update \/ Tick

Spec == Init /\ [][Next]_vars

(***************************************************************************)
(* Properties                                                              *)
(***************************************************************************)

\* A printer that is not idle will be looked at again, so that its heaters go off in the end
\* (timeout_handler, transition_idle_state).
NotForgotten == state # "Idle" /\ holder # "idle" => timer # Never

\* A head that moves is reported as printing (handle_sync_print_time, toolhead._calc_print_time).
MovingIsPrinting == pt > now => state = "Printing"

\* A delayed script is armed by an update or by the return of its own callback, never by both
\* (cmd_UPDATE_DELAYED_GCODE, _gcode_timer_event).
DelayedIsArmed == delayed.inside => delayed.at = Never

Delays == [at : Int, inside : BOOLEAN, repeat : BOOLEAN, duration : Nat, since : Nat]
TypeOK ==
  /\ state \in {"Idle", "Ready", "Printing"} /\ timer \in Int /\ timeout \in Timeouts
  /\ holder \in {"none", "client", "sd", "delayed", "idle"}
  /\ {pt, queued, now, moves} \subseteq Nat
  /\ delayed \in Delays

\* The idle script finds a head that stands, and a script that does not move it leaves it so.
IdleStands == holder = "idle" /\ ~Moving => queued = 0 /\ pt <= now

IInv == TypeOK /\ IdleStands /\ NotForgotten /\ (~Moving => MovingIsPrinting) /\ DelayedIsArmed
=============================================================================
