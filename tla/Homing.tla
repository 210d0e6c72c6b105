-------------------------------- MODULE Homing --------------------------------
(***************************************************************************)
(* Homing and probing as one command sees them: G28 and home_rails with    *)
(* the double homing of this printer (homing.py, kinematics/corexy.py),    *)
(* HomingMove and the listeners of its events (homing_heaters, the probe), *)
(* and the probe session with its sample retries (probe.py).               *)
(*                                                                         *)
(* Positions are left out: a comparison of positions is a choice, a move   *)
(* ends with a hit, without a trigger, or in an error.                     *)
(***************************************************************************)
EXTENDS Naturals, Sequences, FiniteSets

CONSTANTS Stow,            \* stow_on_each_sample
          HomingRetries,   \* hi.retries, of X and Y
          TriggerRetries,  \* max_retries, of Z
          SampleCount, SamplesToleranceRetries,
          MaxCommands      \* bound: commands run

HomingAssumption ==
  /\ Stow \in BOOLEAN /\ SampleCount \in Nat \ {0}
  /\ {HomingRetries, TriggerRetries, SamplesToleranceRetries, MaxCommands} \subseteq Nat

VARIABLES
  at,        \* where the command is
  axes,      \* the axes of the G28 that runs
  asked,     \* the axes of the last G28, if it did not fail and M18 did not follow
  move,      \* "off", "on", or how the last homing move ended
  tries,     \* retry_count of xy_home_second_genera
  zTries,    \* retry_count of CoreXYKinematics.home
  homed,     \* the axes whose limits are set
  located,   \* the axes whose last homing came to its end
  drive,     \* X and Y: the mode of the closed-loop driver
  heater,    \* its target
  saved,     \* target_save
  probe,     \* the pin, `multi', and the two multi_probe_pending
  samples,   \* positions of run_probe
  retries,   \* of run_probe
  rejected,  \* sets of samples thrown away in this run_probe
  failed,    \* what has failed so far: "begin", "stow"
  commands

vars == <<at, axes, asked, move, tries, zTries, homed, located, drive, heater, saved, probe,
          samples, retries, rejected, failed, commands>>

probing == <<samples, retries, rejected>>

Init ==
  /\ at = "idle" /\ axes = <<>> /\ asked = {} /\ move = "off" /\ tries = 0 /\ zTries = 0
  /\ homed = {} /\ located = {} /\ drive = [a \in {"x", "y"} |-> "work"]
  /\ heater = "on" /\ saved = "on"
  /\ probe = [pin |-> "up", multi |-> "OFF", via |-> FALSE, session |-> FALSE]
  /\ samples = 0 /\ retries = 0 /\ rejected = 0
  /\ failed = {} /\ commands = 0

(***************************************************************************)
(* The probe: multi_probe_begin and multi_probe_end.                       *)
(***************************************************************************)
MultiBegin(p) == IF Stow THEN p ELSE [p EXCEPT !.multi = "FIRST"]

\* Mutant: `multi' is not reset.
MultiEndStaysOn(p, ok) == IF Stow THEN p ELSE [p EXCEPT !.pin = "up"]

\* When the pin does not come up, `multi' keeps its value.
MultiEnd(p, ok) ==
  IF Stow THEN p
  ELSE IF ok THEN [p EXCEPT !.pin = "up", !.multi = "OFF"] ELSE [p EXCEPT !.pin = "up"]

Stowing(ok) == failed' = IF ok \/ Stow THEN failed ELSE failed \cup {"stow"}

(***************************************************************************)
(* HomingMove.homing_move, called from each of these places.               *)
(***************************************************************************)
Callers == {"xy first", "xy second", "z first", "z a", "z b", "z last", "sample", "pei"}
WithProbe == at \in Callers \ {"xy first", "xy second"}

\* homing:homing_move_begin: the heaters go off, then the probe is lowered,
\* which may fail; then the end of the move is never announced.
MoveBegins(ok) ==
  /\ at \in Callers /\ move = "off"
  /\ saved' = heater /\ heater' = "off"
  /\ IF WithProbe /\ probe.multi # "ON"
     THEN /\ probe' = IF ok THEN [probe EXCEPT !.pin = "down",
                                    !.multi = IF @ = "FIRST" THEN "ON" ELSE @]
                            ELSE probe
          /\ move' = IF ok THEN "on" ELSE "error"
          /\ failed' = IF ok THEN failed ELSE failed \cup {"begin"}
     ELSE ok /\ move' = "on" /\ UNCHANGED <<probe, failed>>
  /\ UNCHANGED <<at, axes, asked, tries, zTries, homed, located, drive, probing, commands>>

\* Mutant: only a move that hits gives the heaters back.
HeaterAfterHit(outcome) == IF outcome = "hit" THEN saved ELSE heater

\* homing_move_end is announced however the move ended.
HeaterAfter(outcome) == saved

\* drip_move, home_wait and homing:homing_move_end; the first error counts.
MoveEnds(outcome, ok) ==
  /\ move = "on"
  /\ heater' = HeaterAfter(outcome)
  /\ IF WithProbe /\ probe.multi = "OFF"
     THEN probe' = [probe EXCEPT !.pin = "up"]
     ELSE ok /\ UNCHANGED probe
  /\ move' = IF outcome = "hit" /\ ~ ok THEN "error" ELSE outcome
  /\ UNCHANGED <<at, axes, asked, tries, zTries, homed, located, drive, saved, probing, failed, commands>>

(***************************************************************************)
(* Homing.home_rails.                                                      *)
(***************************************************************************)
\* CoreXYKinematics.home prepares the axes one by one in its loop, but homes
\* after the loop: the last axis only.
Axis == axes[Len(axes)]

\* homing:home_rails_begin; set_position marks the axis as homed at once.
RailsBegin ==
  /\ at = "rails"
  /\ probe' = IF Axis = "z" THEN [MultiBegin(probe) EXCEPT !.via = TRUE] ELSE probe
  /\ homed' = homed \cup {Axis} /\ located' = located \ {Axis}
  /\ tries' = 0
  /\ at' = IF Axis = "z" THEN "z first" ELSE "xy try"
  /\ UNCHANGED <<axes, asked, move, zTries, drive, heater, saved, probing, failed, commands>>

\* SET_HOMING_STATE and SET_HOMING_MODE before a move of X or Y.
EnterHomingMode == drive' = [drive EXCEPT ![Axis] = "homing"]

\* Mutant: the recover script forgets one of the drives.
WorkingModeOfX == [drive EXCEPT !["x"] = "work"]

\* The recover scripts, which set both drives.
WorkingMode == [a \in {"x", "y"} |-> "work"]

\* Mutant: the attempts are not counted.
CountTryNot(n) == n

CountTry(n) == n + 1

XYTry ==
  /\ at = "xy try"
  /\ tries' = CountTry(tries) /\ EnterHomingMode /\ at' = "xy first"
  /\ UNCHANGED <<axes, asked, move, zTries, homed, located, heater, saved, probe, probing, failed, commands>>

\* The recover script, the lift, and homing mode again.
XYFirstDone ==
  /\ at = "xy first" /\ move = "hit"
  /\ move' = "off" /\ drive' = [WorkingMode EXCEPT ![Axis] = "homing"] /\ at' = "xy second"
  /\ UNCHANGED <<axes, asked, tries, zTries, homed, located, heater, saved, probe, probing, failed, commands>>

XYSecondDone(close) ==
  /\ at = "xy second" /\ move = "hit"
  /\ drive' = WorkingMode
  /\ move' = IF ~ close /\ tries >= HomingRetries THEN "error" ELSE "off"
  /\ at' = IF close THEN "rails end" ELSE IF tries >= HomingRetries THEN at ELSE "xy try"
  /\ UNCHANGED <<axes, asked, tries, zTries, homed, located, heater, saved, probe, probing, failed, commands>>

\* The first homing of Z, then pairs of moves until two agree, then the last.
ZNext(close) ==
  CASE at = "z first" -> "z a"
    [] at = "z a" -> "z b"
    [] at = "z b" -> IF close THEN "z last" ELSE "z a"
    [] at = "z last" -> "rails end"

ZDone(close) ==
  /\ at \in {"z first", "z a", "z b", "z last"} /\ move = "hit"
  /\ close \/ at = "z b"
  /\ move' = "off" /\ at' = ZNext(close)
  /\ UNCHANGED <<axes, asked, tries, zTries, homed, located, drive, heater, saved, probe, probing, failed, commands>>

\* homing:home_rails_end, and the end of G28.
RailsEnd(ok) ==
  /\ at = "rails end" /\ move = "off"
  /\ IF Axis = "z" /\ probe.via
     THEN /\ probe' = [MultiEnd(probe, ok) EXCEPT !.via = FALSE] /\ Stowing(ok)
     ELSE ok /\ UNCHANGED <<probe, failed>>
  /\ IF ok THEN /\ located' = located \cup {Axis} /\ axes' = <<>> /\ at' = "idle"
                /\ UNCHANGED <<move, zTries>>
           ELSE move' = "error" /\ UNCHANGED <<located, axes, zTries, at>>
  /\ UNCHANGED <<asked, tries, homed, drive, heater, saved, probing, commands>>

\* CoreXYKinematics.home begins Z again when the move found no trigger.
ZMayRetry == axes # <<>> /\ Axis = "z" /\ move = "none" /\ zTries < TriggerRetries

ZRetries ==
  /\ ZMayRetry
  /\ zTries' = zTries + 1 /\ move' = "off" /\ at' = "rails"
  /\ UNCHANGED <<axes, asked, tries, homed, located, drive, heater, saved, probe, probing, failed, commands>>

(***************************************************************************)
(* Commands.                                                               *)
(***************************************************************************)
CommandStarts == at = "idle" /\ commands < MaxCommands /\ commands' = commands + 1

G28(order) ==
  /\ CommandStarts
  /\ axes' = order /\ asked' = {order[i] : i \in DOMAIN order} /\ zTries' = 0 /\ at' = "rails"
  /\ UNCHANGED <<move, tries, homed, located, drive, heater, saved, probe, probing, failed>>

M18 ==
  /\ CommandStarts
  /\ homed' = {} /\ located' = {} /\ asked' = {}
  /\ UNCHANGED <<at, axes, move, tries, zTries, drive, heater, saved, probe, probing, failed>>

\* run_single_probe: start_probe_session, and run_probe from its beginning.
PROBE ==
  /\ CommandStarts
  /\ probe' = IF probe.session THEN probe ELSE [MultiBegin(probe) EXCEPT !.session = TRUE]
  /\ samples' = 0 /\ retries' = 0 /\ rejected' = 0
  /\ move' = IF "z" \in homed /\ ~ probe.session THEN "off" ELSE "error"
  /\ at' = "sample"
  /\ UNCHANGED <<axes, asked, tries, zTries, homed, located, drive, heater, saved, failed>>

\* TESTING_PEI probes without a session.
TESTING_PEI ==
  /\ CommandStarts /\ at' = "pei"
  /\ UNCHANGED <<axes, asked, move, tries, zTries, homed, located, drive, heater, saved, probe, probing, failed>>

PeiDone ==
  /\ at = "pei" /\ move = "hit"
  /\ at' = "idle" /\ move' = "off"
  /\ UNCHANGED <<axes, asked, tries, zTries, homed, located, drive, heater, saved, probe, probing, failed, commands>>

\* run_probe sets the probe to zero after the first retry, and its counter too.
AfterRejected(n) == IF n + 1 = 1 THEN 0 ELSE n + 1

\* Mutant: one sample too many.
MoreSamplesOff(n) == n <= SampleCount

MoreSamples(n) == n < SampleCount

\* A sample of run_probe is in, or out of tolerance with the others.
SampleDone(within) ==
  /\ at = "sample" /\ move = "hit" /\ (within \/ samples > 0)
  /\ IF within
     THEN /\ samples' = samples + 1 /\ move' = "off"
          /\ at' = IF MoreSamples(samples') THEN "sample" ELSE "session end"
          /\ UNCHANGED <<retries, rejected>>
     ELSE /\ samples' = 0 /\ rejected' = IF rejected > SamplesToleranceRetries + 1
                                         THEN rejected ELSE rejected + 1
          /\ move' = IF retries >= SamplesToleranceRetries THEN "error" ELSE "off"
          /\ retries' = IF retries >= SamplesToleranceRetries THEN retries ELSE AfterRejected(retries)
          /\ UNCHANGED at
  /\ UNCHANGED <<axes, asked, tries, zTries, homed, located, drive, heater, saved, probe, failed, commands>>

SessionEnds(ok) ==
  /\ at = "session end"
  /\ probe' = [MultiEnd(probe, ok) EXCEPT !.session = FALSE] /\ Stowing(ok)
  /\ at' = "idle"
  /\ UNCHANGED <<axes, asked, move, tries, zTries, homed, located, drive, heater, saved, probing, commands>>

\* Mutant: the motors stay on.
AfterFailureKeeps(set) == set

\* cmd_G28 turns the motors off, other commands do not.
AfterFailure(set) == IF axes # <<>> THEN {} ELSE set

\* Mutant: only the session listens to gcode:command_error.
BegunSession == probe.session

Begun == probe.via \/ probe.session

\* The error reaches cmd_G28, which turns the motors off, and then the
\* gcode:command_error handlers of the probe, which end what they have begun.
CommandFails(ok) ==
  /\ move \in {"none", "error"} /\ ~ ZMayRetry
  /\ homed' = AfterFailure(homed) /\ located' = IF axes # <<>> THEN {} ELSE located
  /\ IF Begun
     THEN /\ probe' = [MultiEnd(probe, ok) EXCEPT !.via = FALSE, !.session = FALSE] /\ Stowing(ok)
     ELSE ok /\ UNCHANGED <<probe, failed>>
  /\ move' = "off" /\ axes' = <<>> /\ at' = "idle" /\ asked' = IF axes # <<>> THEN {} ELSE asked
  /\ UNCHANGED <<tries, zTries, drive, heater, saved, probing, commands>>

Orders == {<<"x", "y", "z">>, <<"x">>, <<"y">>, <<"z">>}

Next ==
  \/ RailsBegin \/ XYTry \/ XYFirstDone \/ ZRetries \/ M18 \/ PROBE \/ TESTING_PEI \/ PeiDone
  \/ \E b \in BOOLEAN : \/ MoveBegins(b) \/ XYSecondDone(b) \/ ZDone(b) \/ RailsEnd(b)
                        \/ SampleDone(b) \/ SessionEnds(b) \/ CommandFails(b)
                        \/ \E o \in {"hit", "none", "error"} : MoveEnds(o, b)
  \/ \E o \in Orders : G28(o)

Spec == Init /\ [][Next]_vars

\* Every step of a command is taken.  Comparisons that can be repeated without
\* limit (two homings of Z, samples within tolerance) do succeed in the end:
\* the code itself never gives up on them.
MovesEnd == \E b \in BOOLEAN : \/ MoveBegins(b) \/ XYSecondDone(b) \/ ZDone(b)
                               \/ RailsEnd(b) \/ SampleDone(b) \/ SessionEnds(b)
                               \/ CommandFails(b) \/ \E o \in {"hit", "none", "error"} : MoveEnds(o, b)
HostGoesOn == RailsBegin \/ XYTry \/ XYFirstDone \/ ZRetries \/ PeiDone
ZAgrees      == at = "z b" /\ ZDone(TRUE)
SamplesAgree == samples > 0 /\ SampleDone(TRUE)
Fairness == WF_vars(MovesEnd) /\ WF_vars(HostGoesOn) /\ SF_vars(ZAgrees) /\ SF_vars(SamplesAgree)

LiveSpec == Spec /\ Fairness

(***************************************************************************)
(* Properties.                                                             *)
(***************************************************************************)
\* The shape of the state.
PlaceTypeOK ==
  /\ at \in Callers \cup {"idle", "rails", "xy try", "rails end", "session end", "pei"}
  /\ move \in {"off", "on", "hit", "none", "error"}
  /\ axes \in Orders \cup {<<>>} /\ asked \subseteq {"x", "y", "z"}
  /\ homed \subseteq {"x", "y", "z"} /\ located \subseteq homed

CountTypeOK ==
  /\ tries \in 0 .. HomingRetries + 1 /\ zTries \in 0 .. TriggerRetries
  /\ samples \in 0 .. SampleCount /\ retries \in Nat /\ rejected \in Nat /\ commands \in 0 .. MaxCommands

DeviceTypeOK ==
  /\ drive \in [{"x", "y"} -> {"work", "homing"}] /\ {heater, saved} \subseteq {"on", "off"}
  /\ probe \in [pin : {"up", "down"}, multi : {"OFF", "FIRST", "ON"}, via : BOOLEAN, session : BOOLEAN]
  /\ failed \subseteq {"begin", "stow"}

TypeOK == PlaceTypeOK /\ CountTypeOK /\ DeviceTypeOK

\* A move that looks for the probe has the probe lowered, also when earlier
\* commands ended in errors, unless raising it has failed before (then `multi'
\* stays ON and TESTING_PEI does not lower it).
LoweredForEveryProbe ==
  (move = "on" /\ WithProbe /\ "stow" \notin failed) => probe.pin = "down"

\* When a command has ended, even in an error, no probe session is open, and the
\* probe is up unless raising it failed.
NothingLeftBegun ==
  at = "idle" => /\ ~ probe.via /\ ~ probe.session
                 /\ "stow" \notin failed => probe.pin = "up" /\ probe.multi = "OFF"

\* When a command has ended the heaters have their targets again, unless a
\* listener of homing_move_begin raised an error after they were switched off.
HeatersRestored == (at = "idle" /\ "begin" \notin failed) => heater = "on"

\* Between commands an axis is taken for homed only if its homing came to an end
\* and the motors were on ever since, although homing marks it at its start.
HomedIsLocated == at = "idle" => homed = located

\* As long as X or Y counts as homed, no drive is left in homing mode.
DrivesWork ==
  (at = "idle" /\ homed \cap {"x", "y"} # {}) => drive = [a \in {"x", "y"} |-> "work"]

\* "Each axis is homed independently and in order" (corexy.py:54): a G28 that did
\* not fail has homed the axes it was asked for.
AskedIsHomed == at = "idle" => asked \subseteq located

\* A probe gives up after samples_tolerance_retries retries (printer.cfg has 10).
RetriesAreLimited == rejected <= SamplesToleranceRetries + 1

\* Every command ends: the retries of X, Y and of a missing trigger are limited.
NoCommand == at = "idle"
CommandsEnd == []<>NoCommand

(***************************************************************************)
(* The inductive invariant.                                                *)
(***************************************************************************)
\* Where homing is; G28 homes the last of its axes.
HomingXY == {"xy try", "xy first", "xy second"}
HomingZ  == {"z first", "z a", "z b", "z last"}

\* Which axes are homed in each place, and when a move may be under way.
PlaceIsRight ==
  /\ axes \in Orders \cup {<<>>}
  /\ axes = <<>> <=> at \in {"idle", "sample", "session end", "pei"}
  /\ at \in HomingXY => Axis \in {"x", "y"}
  /\ at \in HomingZ => Axis = "z"
  /\ at \in {"idle", "rails", "xy try", "session end"} => move = "off"
  /\ at = "rails end" => move \in {"off", "error"}

\* What the loops have counted.
CountIsRight ==
  /\ at = "xy try" => tries <= HomingRetries
  /\ at = "sample" => samples < SampleCount

\* The probe is in a session while it takes samples, and under way while Z is homed.
BegunIsRight ==
  /\ probe.session <=> at \in {"sample", "session end"}
  /\ at \in HomingZ => probe.via
  /\ probe.via => axes # <<>> /\ Axis = "z"

\* What the pin and `multi' can be, unless raising the probe has failed.
PinIsRight ==
  "stow" \notin failed =>
    /\ Stow \/ ~ Begun => /\ probe.multi = "OFF"
                          /\ probe.pin = "down" <=> move = "on" /\ WithProbe
    /\ ~ Stow /\ Begun => /\ probe.multi # "OFF"
                          /\ probe.multi = "ON" => probe.pin = "down"
                          /\ move = "on" => probe.multi = "ON"

\* During a move the target is in target_save.
TargetIsKept == "begin" \notin failed => IF move = "on" THEN saved = "on" ELSE heater = "on"

\* Homing marks one axis before it is located.
OneIsMarked ==
  IF axes = <<>> THEN homed = located
  ELSE /\ homed \subseteq located \cup {Axis}
       /\ at # "rails" => Axis \in homed

\* Drives are in homing mode only in the place where it is set.
ModeIsRight ==
  at \notin HomingXY /\ homed \cap {"x", "y"} # {} => drive = [a \in {"x", "y"} |-> "work"]

IInv ==
  /\ TypeOK /\ PlaceIsRight /\ CountIsRight /\ BegunIsRight /\ PinIsRight /\ TargetIsKept /\ OneIsMarked /\ ModeIsRight
==============================================================================
