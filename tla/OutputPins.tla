------------------------------- MODULE OutputPins -------------------------------
(* The pins a user sets: extras/output_pin.py, pwm_tool.py, pwm_cycle_time.py,    *)
(* servo.py and the LEDs of led.py, over MCU_digital_out and MCU_pwm (mcu.py).    *)
(* Commands carry the clock at which they take effect; a pin with a maximum       *)
(* duration must be set again in time or its micro-controller shuts down. Times   *)
(* are in units of PIN_MIN_TIME (0.1 s).                                          *)
EXTENDS Integers, Sequences

CONSTANTS Kinds,        \* of "digital", "pwm", "queued", "cycle", "servo", "led"
          Full,         \* values are 0..Full
          Duration,     \* maximum_mcu_duration
          ResendHost,   \* RESEND_HOST_TIME
          Lag,          \* how late a timer runs at most
          Moves,        \* durations of the moves before a command,
          MovesInUse,   \*   the same for a pin with a maximum duration
          Start,        \* BUFFER_TIME_START: how far ahead an idle machine's commands are
          ServoStarts,  \* initial_angle, initial_pulse_width
          MaxTime, MaxSets

VARIABLES kind, invert,
          pin,     \* the host's object: what it asked last, and its resend timer
          wire,    \* commands on their way
          mcu,     \* the firmware's pin
          time     \* now, the end of the moves, the time flushed to

vars == <<kind, invert, pin, wire, mcu, time>>

Most(a, b) == IF a < b THEN b ELSE a
Least(a, b) == IF a < b THEN a ELSE b
NoTimer == MaxTime + 100
OutputPinsAssumption == {Full, Duration, ResendHost, Lag, Start, MaxTime, MaxSets} \union Moves \union MovesInUse \subseteq Nat

Values(k) == IF k = "digital" THEN {0, Full} ELSE 0..Full
Level(v) == IF invert THEN Full - v ELSE v
DurationOf(k) == IF k \in {"digital", "pwm", "queued"} THEN Duration ELSE 0
\* A pin with a maximum duration must start at its shutdown value.
Accepted(k, start, shutdown) == DurationOf(k) > 0 => start = shutdown

\* A servo does not record the width it starts with.
LastAtStart(k, start) == IF k = "servo" THEN 0 ELSE start
CycleAtStart == 1
PinAtStart(start, shutdown) ==
  [value |-> LastAtStart(kind, start), asked |-> start, shutdown |-> shutdown,
   at |-> 0, clock |-> 2, cycle |-> CycleAtStart, timer |-> NoTimer, sets |-> 0]
\* What the configuration sends to the micro-controller.
McuAtStart(start, shutdown) ==
  [value |-> Level(start), pending |-> <<>>, ends |-> NoTimer, cycle |-> CycleAtStart,
   default |-> Level(shutdown), error |-> ""]
Init ==
  /\ kind \in Kinds /\ invert \in BOOLEAN
  /\ \E start \in (IF kind = "servo" THEN ServoStarts ELSE Values(kind)),
        shutdown \in (IF kind = "servo" THEN {0} ELSE {0, Full}) :
       /\ Accepted(kind, start, shutdown)
       /\ pin = PinAtStart(start, shutdown) /\ mcu = McuAtStart(start, shutdown)
  /\ wire = <<>>
  /\ time = [now |-> 2, head |-> 0, flushed |-> 4, need |-> 0]

(* ---- the objects of mcu.py ---- *)
Command(t, v, least) == [op |-> "set", clock |-> t, value |-> v, least |-> least]
set_digital(p, t, v) == <<Command(t, Level(v), p.clock)>>
set_pwm(p, t, v) == <<Command(t, Level(v), p.clock)>>
\* Mutant: the cycle time is sent while the value before it is still pending.
set_pwm_cycle_now(p, t, v, c) ==
  (IF c = p.cycle THEN <<>> ELSE <<[op |-> "cycle", clock |-> t, value |-> c, least |-> 0]>>)
    \o set_pwm(p, t, v)
set_pwm_cycle(p, t, v, c) ==
  (IF c = p.cycle THEN <<>> ELSE <<[op |-> "cycle", clock |-> t, value |-> c, least |-> p.clock]>>)
    \o set_pwm(p, t, v)

(* ---- a set: what the pin's object becomes, and the commands it sends ---- *)
Set(p, cmds, t, v, c) ==
  [pin |-> [p EXCEPT !.value = v, !.at = t, !.clock = t, !.cycle = c], cmds |-> cmds]
Nothing(p) == [pin |-> p, cmds |-> <<>>]
\* output_pin: with a maximum duration the resend timer is started.
output_set_pin(p, pt, v, resend) ==
  LET t == Most(pt, p.at + 1)
      s == Set(p, IF kind = "pwm" THEN set_pwm(p, t, v) ELSE set_digital(p, t, v), t, v, p.cycle)
  IN IF v = p.value /\ ~resend THEN Nothing(p)
     ELSE [s EXCEPT !.pin.timer = IF Duration > 0 /\ p.timer = NoTimer THEN time.now ELSE @]
_send_update(p, clock, v) ==
  LET t == Most(p.clock, clock) IN [pin |-> [p EXCEPT !.clock = t], cmds |-> <<Command(t, Level(v), 0)>>]
tool_set_pin(p, pt, v) ==
  LET t == Most(pt, p.at)   s == _send_update(p, t, v)
  IN IF v = p.value THEN Nothing(p) ELSE [s EXCEPT !.pin.value = v, !.pin.at = t]
cycle_set_pin(p, pt, v, c) ==
  LET t == Most(pt, p.at + 1)
  IN IF v = p.value /\ c = p.cycle THEN Nothing(p) ELSE Set(p, set_pwm_cycle(p, t, v, c), t, v, c)
servo_set_pwm(p, pt, v) ==
  LET t == Most(pt, p.at + 1)
  IN IF v = p.value THEN Nothing(p) ELSE Set(p, set_pwm(p, t, v), t, v, p.cycle)
led_update(p, pt, v) ==
  LET t == Most(pt, p.at + 1)
  IN IF v = p.value THEN Nothing(p) ELSE Set(p, set_pwm(p, t, v), t, v, p.cycle)
SetOf(p, pt, v, c) == CASE kind \in {"digital", "pwm"} -> output_set_pin(p, pt, v, FALSE)
                        [] kind = "queued" -> tool_set_pin(p, pt, v)
                        [] kind = "cycle" -> cycle_set_pin(p, pt, v, c)
                        [] kind = "servo" -> servo_set_pwm(p, pt, v)
                        [] kind = "led" -> led_update(p, pt, v)

\* The tool head flushes until the next resend of a queued pin that is on.
note_mcu_movequeue_activity(p) ==
  IF kind # "queued" THEN 0 ELSE p.clock + IF p.value # p.shutdown THEN Duration ELSE 0
Sent(s) == pin' = s.pin /\ wire' = wire \o s.cmds

Up == mcu.error = ""
\* SET_PIN, SET_SERVO, SET_LED: the command takes effect at the end of the moves.
cmd_SET_PIN(v, c, d) ==
  /\ Up /\ pin.sets < MaxSets /\ v \in Values(kind) /\ (kind # "cycle" => c = 1)
  /\ d \in IF DurationOf(kind) > 0 THEN MovesInUse ELSE Moves
  /\ LET pt == Most(time.head, time.now + Start) + d
         s == SetOf(pin, pt, v, c)
     IN /\ Sent([s EXCEPT !.pin.sets = @ + 1, !.pin.asked = v])
        /\ time' = [time EXCEPT !.head = pt, !.need = Most(@, note_mcu_movequeue_activity(s.pin))]
  /\ UNCHANGED <<kind, invert, mcu>>
\* SET_LED SYNC=0 and the templates do not wait for the moves.
update_leds(v) ==
  /\ Up /\ kind = "led" /\ pin.sets < MaxSets
  /\ LET s == led_update(pin, time.now + 1, v)
     IN Sent([s EXCEPT !.pin.sets = @ + 1, !.pin.asked = v])
  /\ UNCHANGED <<kind, invert, mcu, time>>
\* Mutant: the time a resend needs is not taken off.
ResendInterval_full == Duration
ResendInterval == Duration - ResendHost
_resend_current_val ==
  /\ Up /\ pin.timer <= time.now
  /\ LET due == pin.at + ResendInterval
         s == output_set_pin(pin, time.now + 1, pin.value, TRUE)
     IN CASE pin.value = pin.shutdown -> pin' = [pin EXCEPT !.timer = NoTimer] /\ UNCHANGED wire
          [] pin.value # pin.shutdown /\ due > time.now ->
               pin' = [pin EXCEPT !.timer = due] /\ UNCHANGED wire
          [] OTHER -> Sent([s EXCEPT !.pin.timer = time.now + ResendInterval])
  /\ UNCHANGED <<kind, invert, mcu, time>>
\* The tool head flushes up to t; a queued pin that is on repeats its value.
Repeats(p, t) ==
  LET after[k \in 0 .. t \div Duration] ==
        IF k = 0 THEN Nothing(p)
        ELSE LET s == after[k - 1]
                 r == _send_update(s.pin, s.pin.clock + Duration, s.pin.value)
             IN IF s.pin.value # s.pin.shutdown /\ t >= s.pin.clock + Duration
                  THEN [r EXCEPT !.cmds = s.cmds \o @] ELSE s
  IN after[t \div Duration]
\* Mutant: the repeat is sent when its time has passed.
_flush_notification_late(p, t) == Repeats(p, Most(0, t - 3))
_flush_notification(p, t) == Repeats(p, t)
Flush(t) ==
  /\ Up /\ kind = "queued" /\ time.flushed < time.need + 3 /\ t > time.flushed
  /\ LET s == _flush_notification(pin, t)
     IN /\ Sent(s)
        /\ time' = [time EXCEPT !.flushed = t, !.need = Most(@, note_mcu_movequeue_activity(s.pin))]
  /\ UNCHANGED <<kind, invert, mcu>>

(* ---- the firmware ---- *)
Deliver ==
  /\ Up /\ wire # <<>> /\ wire' = Tail(wire)
  /\ LET c == Head(wire)   idle == mcu.pending = <<>> IN
     /\ c.least <= time.now
     /\ mcu' = CASE c.op = "cycle" /\ ~idle -> [mcu EXCEPT !.error = "cycle while pending"]
                 [] c.op = "cycle" /\ idle -> [mcu EXCEPT !.cycle = c.value]
                 [] c.op = "set" /\ c.clock <= time.now -> [mcu EXCEPT !.error = "too late"]
                 [] c.op = "set" /\ c.clock > time.now /\ idle /\ c.clock > mcu.ends ->
                      [mcu EXCEPT !.error = "exceeds max duration"]
                 [] OTHER -> [mcu EXCEPT !.pending = Append(@, <<c.clock, c.value>>)]
  /\ UNCHANGED <<kind, invert, pin, time>>
Played(m, t) ==
  IF m.pending # <<>> /\ Head(m.pending)[1] <= t
  THEN LET v == Head(m.pending)[2]   rest == Tail(m.pending)
           ends == IF DurationOf(kind) > 0 /\ v # m.default THEN t + Duration ELSE NoTimer
       IN [m EXCEPT !.value = v, !.pending = rest, !.ends = ends,
                    !.error = IF rest # <<>> /\ Head(rest)[1] > ends THEN "exceeds max duration" ELSE @]
  ELSE IF t >= m.ends THEN [m EXCEPT !.error = "missed"] ELSE m
\* What the host does in time: its timers, the flushes and the sending of commands.
InTime == /\ pin.timer + Lag > time.now
          /\ kind = "queued" => time.flushed >= Least(time.need + 3, time.now + 2)
          /\ wire # <<>> => Head(wire).least > time.now
Tick == /\ Up /\ time.now < MaxTime /\ InTime
        /\ time' = [time EXCEPT !.now = @ + 1]
        /\ mcu' = Played(mcu, time.now + 1)
        /\ UNCHANGED <<kind, invert, pin, wire>>

Next == \/ \E v \in 0..Full, c \in {1, 2}, d \in Moves \union MovesInUse : cmd_SET_PIN(v, c, d)
        \/ \E v \in 0..Full : update_leds(v)
        \/ _resend_current_val
        \/ \E t \in {time.now + 2, time.now + 4} : Flush(t)
        \/ Deliver \/ Tick
Spec == Init /\ [][Next]_vars

\* A pin in use never shuts the micro-controller down: a value with a maximum
\* duration is repeated in time, no command comes late, and no cycle time is changed
\* under a pending value (_resend_current_val, _flush_notification, set_pwm_cycle).
NoShutdown == mcu.error = ""

\* When all is done the pin has the value asked for last (_set_pin, _set_pwm).
ShowsLast == wire = <<>> /\ mcu.pending = <<>> => mcu.value = Level(pin.asked)

\* The commands of a pin are played in the order of their clocks.
PlayedInOrder == \A i, j \in DOMAIN mcu.pending : i < j => mcu.pending[i][1] <= mcu.pending[j][1]
================================================================================
