-------------------------------- MODULE Fans --------------------------------
(***************************************************************************)
(* One fan: Fan.set_speed and the check of its tachometer (extras/fan.py), *)
(* and what drives it: M106 and SET_FAN_SPEED, or the timers of            *)
(* heater_fan, controller_fan, chamber_fan and box_heater_fan, or the      *)
(* readings of temperature_fan.                                            *)
(*                                                                         *)
(* Times are relative to now, in units of FAN_MIN_TIME.                    *)
(***************************************************************************)
EXTENDS Integers, Sequences, FiniteSets

CONSTANTS Kinds, Speeds,           \* of fans, see AllKinds; speeds asked for
          Full, Half,              \* max_power, the jump that needs a kick start
          OffBelow, Kick, Period,  \* off_below, kick_start_time, one second
          Idle, Timeout,           \* idle_timeout, rpm_timeout, in seconds
          Ahead, MaxInputs         \* bounds: print times ahead of now, inputs

AllKinds == {"part", "heater", "controller", "chamber", "box", "temperature"}

FansAssumption ==
  /\ Kinds \subseteq AllKinds /\ Speeds \subseteq 0..Full /\ {0, Full} \subseteq Speeds
  /\ {Half, OffBelow, Kick, Idle, Ahead, MaxInputs} \subseteq Nat /\ Period > 0 /\ Timeout > 0

VARIABLES
  kind,
  value, time, queue,  \* last_fan_value, last_fan_time, commands on their way to the pin
  pin, enable,         \* what the pin has now, the enable pin after the last command
  watch, count, error, \* rpm_watchdog_timer, last_rpm_time, rpm_error
  timer, speed, on,    \* of the driver: next call, last_speed, last_on
  target, hot,         \* the heater has a target, is hotter than heater_temp
  off,                 \* TOGGLE_CHAMBER_FAN has switched the fan off
  limits,              \* min_speed and max_speed of temperature_fan, heating; options
  stuck, spins,        \* does the rotor stand, has it turned in the last unit
  still, need,         \* how long: told to turn but still, its heater needs it
  down, n

fan  == <<value, time, queue, enable>>
rpm  == <<watch, count, error>>
env  == <<target, hot, off, stuck>>
meas == <<pin, spins, still, need>>
vars == <<kind, fan, rpm, timer, speed, on, env, limits, meas, down, n>>

NEVER == -1
MinTime == 1
Max2(a, b) == IF a > b THEN a ELSE b
Min2(a, b) == IF a < b THEN a ELSE b
Timers == {"heater", "controller", "chamber", "box"}

\* Has the (last) heater the name that the driver looks for?  Is the control that of a PID?
Named(k) == IF k \in {"heater", "controller"} THEN BOOLEAN ELSE {TRUE}
Options(k) ==
  [min : {1}, max : {Full}, heating : {FALSE}, pid : IF k = "temperature" THEN BOOLEAN ELSE {FALSE}, named : Named(k)]

\* The driver's first call; its fan has stood for long.
DriverStarts == timer = MinTime /\ speed = 0 /\ on = Idle

Init ==
  /\ kind \in Kinds /\ value = 0 /\ time = -MinTime /\ queue = <<>> /\ pin = 0 /\ enable = FALSE
  /\ watch = NEVER /\ count = 0 /\ error = 0 /\ DriverStarts
  /\ target = FALSE /\ hot = 0 /\ off = FALSE /\ limits \in Options(kind)
  /\ stuck = FALSE /\ spins = FALSE /\ still = 0 /\ need = 0 /\ down = FALSE /\ n = 0

-----------------------------------------------------------------------------
\* last_fan_time after a command at t.
\* Mutant: the time of the kick start is not counted.
LastTimeOfKick(t, kick) == t
LastTime(t, kick) == IF kick THEN t + Kick ELSE t

\* Fan.set_speed; "heater" looks at the target of the extruder.
set_speed(print_time, asked) ==
  LET v == IF asked < OffBelow THEN 0 ELSE asked
      t == Max2(time + MinTime, print_time)
      en == IF value = 0 THEN TRUE ELSE IF v = 0 THEN FALSE ELSE enable
      kick == v > 0 /\ v < Full /\ Kick > 0 /\ (value = 0 \/ v - value > Half)
  IN  IF v = value THEN UNCHANGED <<fan, watch>>
      ELSE /\ value' = v /\ enable' = en /\ time' = LastTime(t, kick)
           /\ queue' = queue \o (IF kick THEN <<[t |-> t, v |-> Full, en |-> en], [t |-> t + Kick, v |-> v, en |-> en]>>
                                 ELSE <<[t |-> t, v |-> v, en |-> en]>>)
           /\ watch' = IF v = 0 THEN NEVER
                       ELSE IF value # 0 THEN watch
                       ELSE IF kind = "heater" /\ ~target THEN NEVER ELSE Max2(0, time')

-----------------------------------------------------------------------------
\* Once a second; the counter passes rpm_timeout so that the fault is found once.
Counted == IF spins THEN 0 ELSE Min2(count + 1, Timeout + 2)

rpm_watchdog_callback ==
  /\ watch = 0
  /\ IF value > 0 /\ kind = "heater" /\ ~target THEN watch' = NEVER /\ UNCHANGED <<count, error>>
     ELSE IF value = 0 THEN watch' = NEVER /\ count' = 0 /\ error' = 0
     ELSE /\ watch' = Period
          /\ count' = IF Counted = Timeout THEN Timeout + 1 ELSE Counted
          /\ error' = IF Counted = Timeout THEN 1 ELSE IF spins THEN 0 ELSE error
  /\ UNCHANGED <<kind, fan, timer, speed, on, env, limits, meas, down, n>>

\* Does the driver find its heater active?
\* Mutant: the heat that is left does not count.
HeaterFanByTarget == target
HeaterFan == target \/ hot > 0
BoxHeaterFan == target \/ hot > 0
Active == CASE kind = "heater" -> HeaterFan [] kind = "box" -> BoxHeaterFan [] OTHER -> target

\* The speed the driver asks for.
ChamberFan == IF off THEN 0 ELSE IF target THEN Full ELSE IF on < Idle THEN 1 ELSE 0
Wanted == CASE kind = "chamber" -> ChamberFan
            [] Active -> Full
            [] OTHER -> IF kind # "heater" /\ on < Idle THEN 1 ELSE 0

\* The timer of the driver; a fault that has been found stops the printer
\* (heater_fan of the extruder) or the heater (controller_fan of the chamber).
callback ==
  /\ kind \in Timers /\ timer = 0 /\ timer' = Period /\ speed' = Wanted
  /\ on' = IF Active THEN 0 ELSE Min2(on + 1, Idle)
  /\ IF Wanted # speed THEN set_speed(MinTime, Wanted) ELSE UNCHANGED <<fan, watch>>
  /\ IF error = 1 /\ kind \in {"heater", "controller"}
     THEN error' = 2 /\ target' = (target /\ ~limits.named) /\ down' = (kind = "heater" /\ limits.named)
     ELSE UNCHANGED <<error, target, down>>
  /\ UNCHANGED <<kind, count, hot, off, stuck, limits, meas, n>>

\* The two controls of temperature_fan, TemperatureFan.set_speed.
Watermark == IF hot = 2 THEN FALSE ELSE IF hot = 0 THEN TRUE ELSE limits.heating
PidSpeeds == limits.min..limits.max
Clamped(v) == IF ~target \/ v = 0 THEN 0 ELSE Max2(v, limits.min)

temperature_callback ==
  /\ kind = "temperature" /\ timer = 0 /\ timer' = Period
  /\ limits' = [limits EXCEPT !.heating = Watermark]
  /\ \E v \in IF limits.pid THEN PidSpeeds ELSE {IF Watermark THEN 0 ELSE limits.max} :
       /\ speed' = Clamped(v)
       /\ IF Clamped(v) = speed THEN UNCHANGED <<fan, watch>> ELSE set_speed(MinTime, Clamped(v))
  /\ UNCHANGED <<kind, count, error, on, env, meas, down, n>>

-----------------------------------------------------------------------------
Input == n < MaxInputs /\ n' = n + 1 /\ need' = 0 /\ UNCHANGED <<kind, timer, speed, on, pin, spins, still, count, error>>

\* M106, M107 and SET_FAN_SPEED, at the time of the moves before them; the
\* request to restart.
M106 ==
  /\ kind = "part" /\ Input /\ \E t \in 0..Ahead, v \in Speeds : set_speed(t, v)
  /\ UNCHANGED <<env, limits, down>>

request_restart == /\ \E t \in 0..Ahead : set_speed(t, 0)
                   /\ down' = TRUE /\ UNCHANGED <<kind, timer, speed, on, meas, count, error, env, limits, n>>

TOGGLE_CHAMBER_FAN ==
  /\ kind = "chamber" /\ Input /\ off' = ~off /\ UNCHANGED <<fan, watch, target, hot, stuck, limits, down>>

\* The target is set although the limits are refused.
SET_TEMPERATURE_FAN_TARGET ==
  /\ kind = "temperature" /\ Input /\ target' \in BOOLEAN
  /\ \E a, b \in 1..Full : limits' = IF a > b THEN limits ELSE [limits EXCEPT !.min = a, !.max = b]
  /\ UNCHANGED <<fan, watch, hot, off, stuck, down>>

\* The heater gets a target or loses it; it gets hot or cool; the rotor stops.
Heats ==
  /\ kind # "part" /\ kind # "temperature" /\ Input /\ target' = ~target
  /\ UNCHANGED <<fan, watch, hot, off, stuck, limits, down>>
Warms ==
  /\ kind # "part" /\ Input /\ hot' \in 0..2 \ {hot} /\ UNCHANGED <<fan, watch, target, off, stuck, limits, down>>
Jams == Input /\ ~stuck /\ stuck' = TRUE /\ UNCHANGED <<fan, watch, target, hot, off, limits, down>>

Needs == ~off /\ ((target /\ kind \in Timers) \/ (hot > 0 /\ kind \in {"heater", "box"}))

\* Time passes when no timer is due, and the pin takes its commands.
Tick ==
  LET due == SelectSeq(queue, LAMBDA c : c.t <= 1)
      out == IF due = <<>> THEN pin ELSE due[Len(due)].v
      late == SelectSeq(queue, LAMBDA c : c.t > 1)
  IN  /\ (kind \in Timers \/ kind = "temperature" => timer > 0) /\ watch # 0
      /\ timer' = IF kind = "part" THEN timer ELSE timer - 1
      /\ watch' = IF watch = NEVER THEN NEVER ELSE watch - 1
      /\ queue' = [i \in DOMAIN late |-> [late[i] EXCEPT !.t = @ - 1]]
      /\ pin' = out /\ time' = Max2(-MinTime, time - 1) /\ spins' = (out > 0 /\ ~stuck)
      /\ still' = IF pin > 0 /\ stuck /\ (kind \in {"heater", "controller"} => target)
                  THEN Min2(still + 1, Period * (Timeout + 4)) ELSE 0
      /\ need' = IF Needs THEN Min2(need + 1, 2 * Period) ELSE 0
      /\ UNCHANGED <<kind, value, enable, count, error, speed, on, env, limits, down, n>>

Next ==
  /\ ~down
  /\ \/ rpm_watchdog_callback \/ callback \/ temperature_callback \/ M106 \/ request_restart \/ TOGGLE_CHAMBER_FAN
     \/ SET_TEMPERATURE_FAN_TARGET \/ Heats \/ Warms \/ Jams \/ Tick

Spec == Init /\ [][Next]_vars

-----------------------------------------------------------------------------
TypeOK ==
  /\ kind \in Kinds /\ value \in 0..Full /\ pin \in 0..Full /\ watch \in {NEVER} \cup Nat /\ count \in 0..(Timeout + 2)
  /\ error \in 0..2 /\ timer \in 0..Period /\ speed \in 0..Full /\ on \in 0..Idle /\ hot \in 0..2
  /\ {target, off, stuck, spins, down, enable} \subseteq BOOLEAN /\ n \in 0..MaxInputs

\* The pin gets its commands in the order of their times, apart by at least
\* FAN_MIN_TIME but for the end of a kick start, and the enable pin is on with them.
CommandsInOrder ==
  \A i \in DOMAIN queue : /\ queue[i].en = (queue[i].v > 0)
                          /\ i > 1 => queue[i].t >= queue[i - 1].t + Min2(Kick, MinTime)

\* A heater that is on or hot is cooled before two seconds have passed.
HeaterIsCooled == need >= 2 * Period => pin > 0

\* A fan that has been told to turn and stands still has been found, unless its
\* watch has been stopped for want of a target.
StillIsFound == kind # "heater" /\ still >= Period * (Timeout + 2) => error # 0

\* A fan that is watched and stands still does not leave its heater on: the printer
\* or the heater has been stopped, unless the heater has another name, or the fan has
\* not turned since it was found the last time.
StillFanStops ==
  kind \in {"heater", "controller"} /\ limits.named /\ watch # NEVER /\ error # 2 => still < Period * (Timeout + 3)
=============================================================================
