------------------------------- MODULE Heaters -------------------------------
(***************************************************************************)
(* One heater: its control loop and the cache in front of its PWM pin      *)
(* (extras/heaters.py, MCU_pwm of mcu.py), the check that it heats         *)
(* (extras/verify_heater.py), PID_CALIBRATE (extras/pid_calibrate.py) and  *)
(* the commands that wait for it.                                          *)
(*                                                                         *)
(* In a unit of time the sensor reports once, unless it has fallen silent, *)
(* and the check runs once.  A reading is a small integer, any at all, and *)
(* is not smoothed; so is what the terms of the PID ask for: 0, a power up *)
(* to the limit for a cold chamber (1), or more (Full).                    *)
(***************************************************************************)
EXTENDS Integers

CONSTANTS Kinds,                 \* of heaters, see AllKinds
          Targets, Hot,          \* temperatures asked for, the highest one
          MaxHeat, Delay,        \* MAX_HEAT_TIME, pwm_delay
          StaleTime, StartTime,  \* age of a reading that get_temp refuses, of a chamber's gentle start
          MaxDelta,              \* of ControlBangBang
          Hysteresis, MaxError, Gain, GainTime, \* of verify_heater
          TuneDelta, Peaks,      \* TUNE_PID_DELTA, peaks to record
          MaxInputs              \* bound: commands, faults, draughts

\* heater_generic chamber, is_box_heater, control: watermark; the PID else.
AllKinds == SUBSET {"chamber", "box", "watermark"}

HeatersAssumption ==
  /\ Kinds \subseteq AllKinds /\ Targets \subseteq 0..Hot /\ Delay <= MaxHeat \div 4
  /\ {Hot, Delay, MaxDelta, Hysteresis, MaxError, TuneDelta, Peaks, MaxInputs} \subseteq Nat
  /\ {MaxHeat, StaleTime, StartTime, Gain, GainTime} \subseteq Nat \ {0}

VARIABLES
  kind, withBed,       \* the heater, heat_with_heater_bed
  silent,              \* its sensor reports no more
  temp, heard,         \* last_temp, time since it was reported
  target, pwm, age,    \* target_temp, last_pwm_value, time since it was written
  tune,                \* the ControlAutoTune in place of the heater's control, or None
  start, heating,      \* ControlPID: time since start_time; ControlBangBang: heating
  chk,                 \* HeaterCheck; gone: its timer is off; alarm: it has found a fault
  bed,                 \* heater_bed_state of the heated bed
  cmd, aborted,        \* the command that waits; has abort_epoch changed
  reported, checked,   \* in this unit of time
  down,                \* is_shutdown
  cut,                 \* switched off by a callback, and no command since
  cold,                \* how long its reading has been below the target without a rise
  n

env     == <<kind, withBed, silent, bed, n>>
sensor  == <<temp, heard>>
control == <<target, pwm, age, tune, start, heating, cut>>
wait    == <<cmd, aborted>>
turn    == <<reported, checked>>
vars    == <<env, sensor, control, chk, wait, turn, down, cold>>

Max2(a, b) == IF a > b THEN a ELSE b
Min2(a, b) == IF a < b THEN a ELSE b
IsChamber == "chamber" \in kind
Full == 2
Never == -1   \* start_time is None
None == [on |-> FALSE, heating |-> FALSE, peaks |-> 0, base |-> 0]

Init ==
  /\ kind \in Kinds /\ withBed \in {b \in BOOLEAN : b => IsChamber} /\ bed = 0 /\ silent = FALSE /\ n = 0
  /\ temp = 0 /\ heard = StaleTime + 1
  /\ target = 0 /\ pwm = 0 /\ age = 0 /\ tune = None /\ start = Never /\ heating = FALSE /\ cut = FALSE
  /\ chk = [approach |-> FALSE, starting |-> FALSE, last |-> 0, goal |-> 0, left |-> 0, err |-> 0,
            gone |-> FALSE, alarm |-> FALSE]
  /\ cmd = "none" /\ aborted = FALSE /\ reported = FALSE /\ checked = FALSE /\ down = FALSE /\ cold = 0

-----------------------------------------------------------------------------
\* A value is not written again while the pin has it and was written lately.
\* Mutant: nor later.
SuppressedAlways(value) == value = pwm
Suppressed(value) == value = pwm /\ (pwm = 0 \/ age < Delay + (3 * MaxHeat) \div 4)

SetPwm(power, t) ==
  LET value == IF t <= 0 \/ down THEN 0 ELSE power
  IN  IF Suppressed(value) THEN UNCHANGED <<pwm, age>> ELSE pwm' = value /\ age' = 0

\* A chamber starts with little power, and not before the bed is hot if it
\* heats with it: but its time starts then too.
PidUpdate ==
  /\ \E p \in 0..Full :
       /\ start' = IF ~IsChamber THEN start ELSE IF p = 0 THEN Never ELSE Max2(start, 0)
       /\ SetPwm(IF IsChamber /\ withBed /\ bed # 2 THEN 0
                 ELSE IF IsChamber /\ start' < StartTime THEN Min2(p, 1) ELSE p, target)
  /\ UNCHANGED <<tune, heating>>

BangBangUpdate(t) ==
  /\ heating' = IF heating THEN t < target + MaxDelta ELSE t <= target - MaxDelta
  /\ SetPwm(IF heating' THEN Full ELSE 0, target) /\ UNCHANGED <<tune, start>>

\* On up to the target, then off until TuneDelta below it.
TuneHeats(t) == IF tune.heating THEN t < target ELSE t <= target

AlteredTarget(t) ==
  IF ~tune.on \/ TuneHeats(t) = tune.heating THEN target
  ELSE IF TuneHeats(t) THEN tune.base ELSE Max2(0, tune.base - TuneDelta)

AutoTuneUpdate(t) ==
  /\ tune' = [tune EXCEPT !.heating = TuneHeats(t),
                          !.peaks = IF TuneHeats(t) = tune.heating THEN @ ELSE Min2(@ + 1, Peaks)]
  /\ SetPwm(IF TuneHeats(t) THEN Full ELSE 0, AlteredTarget(t)) /\ UNCHANGED <<start, heating>>

\* Switched off; not by a command.
Off == target' = 0 /\ cut' = TRUE /\ UNCHANGED <<pwm, age, tune, start, heating>>

\* get_temp: 0 for a reading that is too old.
Reading == IF heard > StaleTime THEN 0 ELSE temp

\* The sensor reports t; high: the tool head is above z_max_limit, where the
\* chamber is let off.
temperature_callback(t, high) ==
  /\ ~reported /\ ~silent /\ reported' = TRUE /\ temp' = t /\ heard' = 0
  /\ IF tune.on THEN AutoTuneUpdate(t)
     ELSE IF "watermark" \in kind THEN BangBangUpdate(t) ELSE PidUpdate
  /\ IF high /\ IsChamber /\ AlteredTarget(t) > 0 THEN target' = 0 /\ cut' = TRUE
     ELSE target' = AlteredTarget(t) /\ UNCHANGED cut
  /\ cold' = IF t > Reading THEN 0 ELSE cold
  /\ UNCHANGED <<env, chk, wait, checked, down>>

-----------------------------------------------------------------------------
Near == Reading >= target - Hysteresis \/ target <= 0

Error == Min2(chk.err + (target - Hysteresis) - Reading, MaxError)

NearTarget ==
  [chk EXCEPT !.approach = FALSE, !.starting = FALSE, !.last = target,
              !.err = IF Reading <= target + Hysteresis THEN 0 ELSE @]

NewTarget == [chk EXCEPT !.err = Error, !.approach = TRUE, !.starting = TRUE, !.goal = Reading + Gain,
                         !.left = GainTime, !.last = target]

\* Towards the target: each Gain gives GainTime for the next one.  A chamber
\* that waits for the bed is no exception: heater_name is one word, which is
\* compared with two.
\* Mutant: an approach that is late goes on.
ApproachForEver ==
  IF Reading >= chk.goal
  THEN [chk EXCEPT !.err = 0, !.starting = FALSE, !.goal = Reading + Gain, !.left = GainTime, !.last = target]
  ELSE [chk EXCEPT !.err = Error, !.last = target]
Approach ==
  IF Reading >= chk.goal
  THEN [chk EXCEPT !.err = 0, !.starting = FALSE, !.goal = Reading + Gain, !.left = GainTime, !.last = target]
  ELSE IF chk.left = 0 THEN [chk EXCEPT !.err = Error, !.approach = FALSE, !.last = target]
  ELSE [chk EXCEPT !.err = Error, !.last = target,
                   !.goal = IF chk.starting THEN Min2(@, Reading + Gain) ELSE @]

\* A fault of the box heater switches it off, any other shuts the printer down.
Fault ==
  IF "box" \in kind THEN chk' = [chk EXCEPT !.err = MaxError, !.last = 0, !.alarm = TRUE] /\ Off /\ UNCHANGED down
  ELSE chk' = [chk EXCEPT !.gone = TRUE, !.alarm = TRUE] /\ down' = TRUE /\ UNCHANGED control

\* high: the tool head is above position_z, where the heater is let off.
check_event(high) ==
  /\ ~checked /\ ~chk.gone /\ checked' = TRUE
  /\ IF ~Near /\ ~chk.approach /\ target = chk.last /\ Error = MaxError /\ ~high THEN Fault
     ELSE /\ chk' = IF Near THEN NearTarget
                    ELSE IF chk.approach THEN Approach
                    ELSE IF target # chk.last THEN NewTarget
                    ELSE [chk EXCEPT !.err = IF Error = MaxError THEN 0 ELSE Error]
          /\ UNCHANGED <<control, down>>
  /\ cold' = IF high \/ target # chk.last THEN 0 ELSE cold
  /\ UNCHANGED <<env, sensor, wait, reported>>

-----------------------------------------------------------------------------
\* Commands, one at a time under the G-code mutex: M104, M140, M141,
\* SET_HEATER_TEMPERATURE, TURN_OFF_HEATERS; M109 and M190 wait.
Input == n < MaxInputs /\ n' = n + 1 /\ UNCHANGED <<kind, sensor, turn, cold>>

set_temperature(t, waits) ==
  /\ Input /\ cmd = "none" /\ (waits => ~IsChamber) /\ target' = t /\ cut' = FALSE
  /\ cmd' = IF waits /\ t > 0 THEN "wait" ELSE "none"
  /\ UNCHANGED <<withBed, silent, bed, pwm, age, tune, start, heating, chk, aborted, down>>

PID_CALIBRATE(t) ==
  /\ Input /\ cmd = "none" /\ t > 0 /\ target' = t /\ cut' = FALSE /\ cmd' = "tune"
  /\ tune' = [on |-> TRUE, heating |-> FALSE, peaks |-> 0, base |-> t]
  /\ UNCHANGED <<withBed, silent, bed, pwm, age, start, heating, chk, aborted, down>>

\* It may also be the slope of the PID that has not settled: the wait goes on.
Busy == IF tune.on THEN tune.heating \/ tune.peaks < Peaks
        ELSE IF "watermark" \in kind THEN temp < target - MaxDelta
        ELSE Max2(target - temp, temp - target) > 1

\* set_control puts the control back and switches the heater off, also after
\* an abort or an error.
\* Mutant: only a calibration that came to its end puts it back.
RestoredIfDone == IF Busy THEN UNCHANGED <<tune, target>> ELSE tune' = None /\ target' = 0
Restored == tune' = None /\ target' = 0

WaitEnds ==
  /\ cmd # "none" /\ (down \/ aborted \/ ~Busy)
  /\ cmd' = "none" /\ aborted' = FALSE
  /\ IF cmd = "tune" THEN Restored ELSE UNCHANGED <<tune, target>>
  /\ UNCHANGED <<env, sensor, pwm, age, start, heating, cut, chk, turn, down, cold>>

abort_waits ==
  /\ cmd # "none" /\ ~aborted /\ aborted' = TRUE
  /\ UNCHANGED <<env, sensor, control, chk, cmd, turn, down, cold>>

\* Another heater's reading finds the tool head above that heater's
\* z_max_limit, or the fan of the controllers stands still.
ChamberOff ==
  /\ Input /\ IsChamber /\ target > 0 /\ Off
  /\ UNCHANGED <<withBed, silent, bed, chk, wait, down>>

CLOSE_CHAMBER_DEBUG ==
  /\ Input /\ cmd = "none" /\ IsChamber /\ withBed' = ~withBed
  /\ UNCHANGED <<silent, bed, control, chk, wait, down>>

handle_shutdown ==
  /\ Input /\ ~down /\ down' = TRUE /\ chk' = [chk EXCEPT !.gone = TRUE]
  /\ UNCHANGED <<withBed, silent, bed, control, wait>>

\* The sensor's reports cease or come again; the bed is heated, is hot, is off.
SensorChanges == Input /\ silent' = ~silent /\ UNCHANGED <<withBed, bed, control, chk, wait, down>>

BedChanges == /\ Input /\ IsChamber /\ bed' \in 0..2 \ {bed}
              /\ UNCHANGED <<withBed, silent, control, chk, wait, down>>

\* The micro-controller shuts down when a pin that is on is not written for MaxHeat.
GivesUp == pwm > 0 /\ age >= MaxHeat

Tick ==
  /\ (reported \/ silent) /\ (checked \/ chk.gone) /\ reported' = FALSE /\ checked' = FALSE
  /\ heard' = Min2(heard + 1, StaleTime + 1) /\ age' = IF pwm = 0 THEN 0 ELSE Min2(age + 1, MaxHeat + 1)
  /\ start' = IF start = Never THEN Never ELSE Min2(start + 1, StartTime)
  /\ down' = (down \/ GivesUp) /\ chk' = [chk EXCEPT !.left = Max2(0, @ - 1), !.gone = @ \/ GivesUp]
  /\ cold' = IF Near \/ target # chk.last \/ chk.gone THEN 0 ELSE Min2(cold + 1, 2 * (GainTime + MaxError))
  /\ UNCHANGED <<env, temp, target, pwm, tune, heating, cut, wait>>

Next ==
  \/ Tick \/ WaitEnds \/ abort_waits \/ ChamberOff \/ CLOSE_CHAMBER_DEBUG \/ handle_shutdown \/ SensorChanges \/ BedChanges
  \/ \E t \in 0..Hot, b \in BOOLEAN : temperature_callback(t, b)
  \/ \E b \in BOOLEAN : check_event(b) \/ \E t \in Targets : PID_CALIBRATE(t) \/ set_temperature(t, b)

Spec == Init /\ [][Next]_vars

-----------------------------------------------------------------------------
TypeOK ==
  /\ kind \in Kinds /\ {temp, target} \subseteq 0..Hot /\ heard \in 0..StaleTime + 1 /\ pwm \in 0..Full /\ age \in Nat
  /\ bed \in 0..2 /\ cmd \in {"none", "wait", "tune"} /\ (tune.on <=> cmd = "tune") /\ start \in Never..StartTime
  /\ chk.left \in 0..GainTime /\ chk.err \in 0..MaxError
  /\ {withBed, silent, heating, cut, aborted, reported, checked, down} \subseteq BOOLEAN /\ n \in 0..MaxInputs

\* A heater that is on is written again before the micro-controller's limit of
\* MAX_HEAT_TIME ends, so that the limit stops a heater whose sensor or host
\* has fallen silent and nothing else.
RefreshedInTime == pwm > 0 /\ heard <= 1 => age <= MaxHeat

\* A heater whose reading stays below its target without a rise is found, also
\* when it reads 0 because its sensor is silent or when a chamber waits for the
\* bed, while target and height are left as they are.
FaultIsFound == cold <= Max2(GainTime + 2, MaxError + 1)

\* A heater that a callback has switched off stays off without a command, but a
\* calibration that runs sets its own target again (alter_target).
StaysOff == cut => target = 0 \/ tune.on

-----------------------------------------------------------------------------
(* What each state keeps of the heater's and the check's past.             *)
TunesAre  == [on : BOOLEAN, heating : BOOLEAN, peaks : Nat, base : 0..Hot]
ChecksAre == [approach : BOOLEAN, starting : BOOLEAN, last : 0..Hot, goal : Int, left : 0..GainTime,
              err : 0..MaxError, gone : BOOLEAN, alarm : BOOLEAN]

\* A value that is not written again is younger than this.
Limit == Delay + (3 * MaxHeat) \div 4
AgeIsBounded == pwm > 0 => /\ heard = 0 => age = 0 \/ age < Limit
                           /\ heard <= 1 => age <= Max2(1, Limit)

\* How long it was cold when the check ran last.
ColdThen == IF checked THEN cold ELSE cold - 1

\* In a cold time the error has grown at each check but the first two, an
\* approach uses up its time, and its end is the last stay of a fault.
ColdIsCounted ==
  cold > 0 /\ ~chk.gone /\ chk.last > 0 =>
    /\ Reading < chk.last - Hysteresis
    /\ chk.err >= Min2(ColdThen - 1, MaxError)
    /\ chk.approach => /\ ColdThen <= GainTime /\ (ColdThen > 0 => chk.goal > Reading)
                       /\ chk.left <= Max2(0, GainTime + 1 - cold)
    /\ ~chk.approach => ColdThen <= Max2(GainTime + 1, MaxError)

IInv == TypeOK /\ tune \in TunesAre /\ chk \in ChecksAre /\ cold \in Nat /\ AgeIsBounded /\ ColdIsCounted /\ FaultIsFound
=============================================================================
