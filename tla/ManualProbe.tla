----------------------------- MODULE ManualProbe -----------------------------
(***************************************************************************)
(* The calibration tools that wait for a person between two commands: the  *)
(* manual Z probe of extras/manual_probe.py and those who start it (endstop*)
(* and probe offsets, probe points with the retries of z_tilt, axis twist, *)
(* eddy current and its temperature drift), and bed_screws.  They share one*)
(* table of G-code commands and register ACCEPT, ABORT, ... for a while.   *)
(* The G-code mutex makes every command one step.  A command is a function *)
(* of the record s; s.exc is the exception on its way: "error" answers the *)
(* command, "crash" (any other one) shuts the printer down.                *)
(***************************************************************************)
EXTENDS Integers, FiniteSets, FiniteSetsExt, Sequences

CONSTANTS
  Points, Screws,       \* number of probe points and of bed screws
  Top, Bob, Bisect,     \* highest Z; Z_BOB_MINIMUM, BISECT_MAX
  Errors, Tolerance,    \* ranges that z_tilt may measure, retry_tolerance
  MaxRetries,           \* RETRIES
  Hot, Step,            \* target and step of the drift calibration
  ScrewsBeside,         \* whether bed_screws is started while another tool waits
  MaxMoves,             \* bound: groups of moves of one command
  MaxCommands           \* bound: commands

ManualProbeAssumption ==
  /\ {Points, Screws, Top, Bob, Bisect, MaxRetries, Hot, Step, MaxMoves, MaxCommands} \subseteq Nat /\ Points >= 1
  /\ Errors \subseteq Nat /\ Tolerance \in Nat /\ ScrewsBeside \in BOOLEAN

VARIABLES s, n
vars == <<s, n>>

None == "none"
Never == 99                    \* 99999999.
Idle == [client |-> None, start |-> 0, past |-> {}]
Hidden == [active |-> FALSE, z |-> 0, lower |-> -1, upper |-> Never]
Temporary == {"ACCEPT", "ABORT", "TESTZ", "ADJUSTED", "TEMPERATURE_PROBE_NEXT", "TEMPERATURE_PROBE_COMPLETE"}
ColdTp == [active |-> FALSE, count |-> 0, next |-> Never, heat |-> FALSE]
Fresh == [current |-> 0, previous |-> 0, increasing |-> 0]

Init ==
  /\ s = [cmds |-> [c \in Temporary |-> None], helper |-> Idle, status |-> Hidden,
          z |-> Top, moved |-> FALSE, homed |-> TRUE, exc |-> None, moves |-> 0,
          points |-> [tool |-> None, auto |-> FALSE, count |-> 0],
          retry |-> Fresh, applied |-> FALSE, twist |-> [index |-> 0, kept |-> TRUE],
          screws |-> [state |-> None, current |-> 0, accepted |-> 0],
          tp |-> ColdTp, temp |-> 0, map |-> "old", mapTemp |-> "old",
          clients |-> 0, saved |-> {}]
  /\ n = 0

(***************************************************************************)
(* What every command is made of.                                          *)
(***************************************************************************)
Ok(a) == a.exc = None
Raise(a, e) == IF Ok(a) THEN [a EXCEPT !.exc = e] ELSE a

\* GCodeDispatch.register_command: a command that exists is a config_error.
Register(a, c, owner) ==
  IF Ok(a) /\ a.cmds[c] # None THEN Raise(a, "crash")
  ELSE IF Ok(a) THEN [a EXCEPT !.cmds[c] = owner] ELSE a

Unregister(a, cs) == [a EXCEPT !.cmds = [c \in Temporary |-> IF c \in cs THEN None ELSE @[c]]]

\* Moves up to Z = to; s.moves tells how many of them still go well.
Move(a, to) ==
  IF ~ Ok(a) THEN a
  ELSE IF a.homed /\ a.moves > 0 /\ to \in 0 .. Top THEN [a EXCEPT !.z = to, !.moves = @ - 1]
  ELSE Raise(a, "error")

verify_no_manual_probe(a) == IF a.cmds["ACCEPT"] # None THEN Raise(a, "error") ELSE a

(***************************************************************************)
(* ManualProbeHelper.                                                      *)
(***************************************************************************)
report_z_status(a) ==
  LET below == {p \in a.helper.past : p < a.z}
      above == {p \in a.helper.past : p > a.z}
  IN  [a EXCEPT !.status = [active |-> TRUE, z |-> a.z,
         lower |-> IF below = {} THEN -1 ELSE Max(below), upper |-> IF above = {} THEN Never ELSE Min(above)]]

ManualProbeHelper(a, client) ==
  LET b == Register(Register(Register(verify_no_manual_probe(a), "ACCEPT", "manual"),
                             "ABORT", "manual"), "TESTZ", "manual")
  IN  IF ~ Ok(b) THEN b
      ELSE report_z_status([b EXCEPT !.moved = FALSE, !.helper = [client |-> client, start |-> b.z, past |-> {}]])

(***************************************************************************)
(* Those who wait for the manual probe.  pos = -1: it was aborted.         *)
(***************************************************************************)
z_endstop_finalize(a, pos) == [a EXCEPT !.saved = @ \cup {"stepper_z"}]
probe_calibrate_finalize(a, pos) == [a EXCEPT !.saved = @ \cup {"probe"}]

\* RetryHelper.check_increase and check_retry; e is the measured range.
check_increase(a, e) ==
  LET r == a.retry
  IN  [r EXCEPT !.previous = e,
         !.increasing = IF r.previous # 0 /\ e > r.previous THEN @ + 1 ELSE IF @ > 0 THEN @ - 1 ELSE @]

\* ZAdjustStatus.check_retry_result
check_retry_result(a, res) == [a EXCEPT !.applied = @ \/ res = "done"]

\* Every Z motor is moved alone; a move that fails attaches all of them again.
adjust_steppers(a) == Move(a, a.z)

ZTiltFinalize(a, e) ==
  LET b == adjust_steppers(a)
      c == [b EXCEPT !.retry = check_increase(b, e)]
  IN  IF ~ Ok(b) \/ MaxRetries = 0 THEN [s |-> b, res |-> None]
      ELSE IF c.retry.increasing > 1 THEN [s |-> Raise(c, "error"), res |-> None]
      ELSE IF e <= Tolerance THEN [s |-> check_retry_result(c, "done"), res |-> "done"]
      ELSE IF c.retry.current + 1 > MaxRetries
           THEN [s |-> Raise([c EXCEPT !.retry.current = @ + 1], "error"), res |-> None]
      ELSE [s |-> check_retry_result([c EXCEPT !.retry.current = @ + 1], "retry"), res |-> "retry"]

\* screws_tilt_adjust: with MAX_DEVIATION the result may be refused.
ScrewsTiltFinalize(a, e) == [s |-> IF e > Tolerance THEN Raise(a, "error") ELSE a, res |-> None]
DeltaFinalize(a, e) == [s |-> [a EXCEPT !.saved = @ \cup {"delta_calibrate"}], res |-> None]

_invoke_callback(a, e) ==
  CASE a.points.tool = "z_tilt" -> ZTiltFinalize(a, e)
    [] a.points.tool = "screws_tilt" -> ScrewsTiltFinalize(a, e)
    [] a.points.tool = "delta" -> DeltaFinalize(a, e)

_manual_probe_start(a, e) ==
  LET b == Move(a, Top)
      full == b.points.count >= Points
      r == _invoke_callback(b, e)
      c == IF full THEN [r.s EXCEPT !.points.count = 0] ELSE b
  IN  IF ~ Ok(b) THEN b
      ELSE IF full /\ (~ Ok(r.s) \/ r.res # "retry") THEN [r.s EXCEPT !.points.tool = None]
      ELSE ManualProbeHelper(Move(c, Top), "points")

PointsFinalize(a, pos, e) == _manual_probe_start([a EXCEPT !.points.count = @ + 1], e)

\* Calibrater._calibration: probe the point, then ask for the nozzle.
_calibration(a) == ManualProbeHelper(Move(Move(a, Top), Top), "twist")

TwistFinalize(a, pos) ==
  IF a.twist.index = Points - 1 THEN [a EXCEPT !.twist.kept = TRUE, !.saved = @ \cup {"twist"}]
  ELSE _calibration([a EXCEPT !.twist.index = @ + 1])

\* EddyCalibration.do_calibration_moves and post_manual_probe; good: the sensor
\* gave data for every height.
do_calibration_moves(a) ==
  LET b == Move([a EXCEPT !.clients = @ + 1], a.z)
  IN  IF Ok(b) THEN [b EXCEPT !.clients = @ - 1, !.mapTemp = "new", !.saved = @ \cup {"calibration_temp"}]
      ELSE b

post_manual_probe(a, pos, good) ==
  LET b == Move(a, a.z)
      c == do_calibration_moves(b)
  IN  IF ~ Ok(b) \/ ~ Ok(c) THEN IF Ok(b) THEN c ELSE b
      ELSE IF good THEN [c EXCEPT !.map = "new", !.saved = @ \cup {"calibrate"}] ELSE Raise(c, "error")

\* EddyDriftCompensation.finish_calibration: fewer than three samples cannot be fitted.
finish_calibration(a, success, count) ==
  IF ~ success THEN a ELSE IF count < 3 THEN Raise(a, "crash")
  ELSE [a EXCEPT !.saved = @ \cup {"drift_calibration"}]

\* Mutant: the heaters are left to finish_calibration's caller.
_finalize_drift_cal_hot(a, success) ==
  finish_calibration([Unregister(a, {"ABORT", "TEMPERATURE_PROBE_NEXT", "TEMPERATURE_PROBE_COMPLETE"})
                        EXCEPT !.tp = [ColdTp EXCEPT !.heat = a.tp.heat /\ ~ success]], success, a.tp.count)

_finalize_drift_cal(a, success) ==
  finish_calibration([Unregister(a, {"ABORT", "TEMPERATURE_PROBE_NEXT", "TEMPERATURE_PROBE_COMPLETE"})
                        EXCEPT !.tp = ColdTp], success, a.tp.count)

\* ... and the exception that is being handled goes on.
AndRaise(a, e) == [a EXCEPT !.exc = IF @ = "crash" THEN @ ELSE e]
Caught(a) == [a EXCEPT !.exc = None]

\* EddyDriftCompensation.collect_sample: its client of the sensor never says that it is done.
collect_sample(a) == Move([a EXCEPT !.clients = @ + 1], a.z)

_prepare_next_sample(a) ==
  [Move(Register(a, "ABORT", "temp"), a.z) EXCEPT !.tp.next = a.temp + Step, !.tp.heat = TRUE]

TempFinalize(a, pos) ==
  LET b == collect_sample(Move(a, a.z))
      c == [b EXCEPT !.tp.count = @ + 1]
      d == _prepare_next_sample(c)
  IN  IF ~ Ok(b) THEN AndRaise(_finalize_drift_cal(Caught(b), FALSE), b.exc)
      ELSE IF a.temp >= Hot THEN _finalize_drift_cal(c, TRUE)
      ELSE IF Ok(d) THEN d ELSE AndRaise(_finalize_drift_cal(Caught(d), FALSE), d.exc)

Callback(a, client, pos, in) ==
  IF client = "temp" THEN IF pos = -1 THEN _finalize_drift_cal(a, FALSE) ELSE TempFinalize(a, pos)
  ELSE IF pos = -1 \/ client = "manual" THEN a
  ELSE CASE client = "endstop" -> z_endstop_finalize(a, pos)
         [] client = "probe" -> probe_calibrate_finalize(a, pos)
         [] client = "points" -> PointsFinalize(a, pos, in.error)
         [] client = "twist" -> TwistFinalize(a, pos)
         [] client = "eddy" -> post_manual_probe(a, pos, in.error <= Tolerance)

\* ManualProbeHelper.finalize
finalize(a, success, in) ==
  Callback([Unregister(a, {"ACCEPT", "ABORT", "TESTZ"}) EXCEPT !.helper = Idle, !.status = Hidden],
           a.helper.client, IF success THEN a.z ELSE -1, in)

(***************************************************************************)
(* The commands of a manual probe.                                         *)
(***************************************************************************)
move_z(a, to, in) ==
  LET b == Move(IF a.z < to + Bob THEN Move(a, to + Bob) ELSE a, to)
  IN  IF Ok(b) THEN b ELSE AndRaise(finalize(Caught(b), FALSE, in), b.exc)

\* The next height for '-' and '+', half way to the nearest tested one.
Bisected(past, z, dir) ==
  LET below == {p \in past : p < z}
      above == {p \in past : p > z}
  IN  IF dir = "-" THEN Max({((IF below = {} THEN -Never ELSE Max(below)) + z) \div 2, z - Bisect})
      ELSE Min({((IF above = {} THEN Never ELSE Min(above)) + z) \div 2, z + Bisect})

cmd_TESTZ(a, dir, in) ==
  LET b == [a EXCEPT !.helper.past = @ \cup {a.z}]
      to == IF dir \in {"-", "+"} THEN Bisected(b.helper.past, a.z, dir) ELSE a.z - 2
      c == move_z(b, to, in)
  IN  IF Ok(c) THEN report_z_status(c) ELSE c

cmd_ACCEPT(a, in) ==
  IF a.moved \/ a.z >= a.helper.start THEN finalize(a, FALSE, in) ELSE finalize(a, TRUE, in)

cmd_ABORT(a, in) == finalize(a, FALSE, in)

(***************************************************************************)
(* bed_screws.                                                             *)
(***************************************************************************)
\* Mutant: the helper stays busy after a move that fails.
ScrewsMoveBusy(a, to) ==
  LET b == Move(a, to)
  IN  IF Ok(b) \/ ~ Ok(a) THEN b ELSE Unregister(b, {"ACCEPT", "ADJUSTED", "ABORT"})

ScrewsMove(a, to) ==
  LET b == Move(a, to)
  IN  IF Ok(b) \/ ~ Ok(a) THEN b
      ELSE [Unregister(b, {"ACCEPT", "ADJUSTED", "ABORT"}) EXCEPT !.screws = [state |-> None, current |-> 0, accepted |-> 0]]

move_to_screw(a, screw) ==
  LET b == ScrewsMove(ScrewsMove(a, Top), 0)
      c == [b EXCEPT !.screws.state = "adjust", !.screws.current = screw]
  IN  IF Ok(b) THEN Register(Register(Register(c, "ACCEPT", "screws"), "ADJUSTED", "screws"), "ABORT", "screws")
      ELSE b

cmd_BED_SCREWS_ADJUST(a) ==
  IF a.screws.state # None THEN Raise(a, "error")
  ELSE move_to_screw(ScrewsMove([a EXCEPT !.screws.accepted = 0], Top), 0)

ScrewsReset(a) == [a EXCEPT !.screws = [state |-> None, current |-> 0, accepted |-> 0]]
unregister_commands(a) == Unregister(a, {"ACCEPT", "ADJUSTED", "ABORT"})

ScrewsACCEPT(a) ==
  LET b == [unregister_commands(a) EXCEPT !.screws.accepted = @ + 1]
  IN  IF b.screws.current + 1 < Screws /\ b.screws.accepted < Screws THEN move_to_screw(b, b.screws.current + 1)
      ELSE IF b.screws.accepted < Screws THEN move_to_screw(b, 0)
      ELSE ScrewsMove(ScrewsReset(b), Top)

ScrewsADJUSTED(a) == ScrewsACCEPT([unregister_commands(a) EXCEPT !.screws.accepted = -1])
ScrewsABORT(a) == ScrewsReset(unregister_commands(a))

(***************************************************************************)
(* The commands that start a tool.                                         *)
(***************************************************************************)
cmd_PROBE_CALIBRATE(a) == ManualProbeHelper(Move(Move(verify_no_manual_probe(a), Top), Top), "probe")

cmd_AXIS_TWIST(a) ==
  LET b == verify_no_manual_probe([a EXCEPT !.twist.kept = FALSE])
  IN  IF Ok(b) THEN _calibration([b EXCEPT !.twist.index = 0]) ELSE b

\* Mutant: a new run keeps the result of the last one.
cmd_Z_TILT_ADJUST_keeps(a) == [a EXCEPT !.retry = Fresh]

\* ProbePointsHelper.start_probe; z_tilt and quad_gantry_level reset first.
cmd_Z_TILT_ADJUST(a) == [a EXCEPT !.applied = FALSE, !.retry = Fresh]

start_probe(a, tool, auto) ==
  LET b == verify_no_manual_probe(IF tool = "z_tilt" THEN cmd_Z_TILT_ADJUST(a) ELSE a)
      c == [b EXCEPT !.points = [tool |-> tool, auto |-> auto, count |-> 0]]
  IN  IF ~ Ok(b) THEN b ELSE IF auto THEN c ELSE _manual_probe_start(c, 0)

cmd_TEMPERATURE_PROBE_CALIBRATE(a) ==
  LET b == verify_no_manual_probe(a)
      c == Register(Register(b, "TEMPERATURE_PROBE_NEXT", "temp"), "TEMPERATURE_PROBE_COMPLETE", "temp")
      d == Move([c EXCEPT !.tp = [ColdTp EXCEPT !.active = TRUE, !.heat = TRUE]], c.z)
  IN  IF ~ Ok(b) \/ a.tp.active \/ ~ a.homed \/ a.temp >= Hot THEN Raise(b, "error")
      ELSE IF ~ Ok(c) THEN Raise(b, "error")
      ELSE IF ~ Ok(d) THEN AndRaise(_finalize_drift_cal(Caught(d), FALSE), d.exc)
      ELSE ManualProbeHelper(d, "temp")

cmd_TEMPERATURE_PROBE_NEXT(a) ==
  LET b == verify_no_manual_probe(a)
      c == Move([b EXCEPT !.tp.next = Never], b.z)
  IN  IF ~ Ok(b) THEN b ELSE IF ~ Ok(c) THEN c ELSE ManualProbeHelper(Unregister(c, {"ABORT"}), "temp")

cmd_TEMPERATURE_PROBE_COMPLETE(a) ==
  LET b == verify_no_manual_probe(a) IN IF Ok(b) THEN _finalize_drift_cal(b, a.tp.count >= 3) ELSE b

cmd_TEMPERATURE_PROBE_ABORT(a) == _finalize_drift_cal(a, FALSE)

Starts(a) ==
  {ManualProbeHelper(a, "manual"), ManualProbeHelper(a, "endstop"), ManualProbeHelper(a, "eddy"),
   cmd_PROBE_CALIBRATE(a), cmd_AXIS_TWIST(a), cmd_TEMPERATURE_PROBE_CALIBRATE(a)}
  \cup {cmd_BED_SCREWS_ADJUST(a) : x \in {c \in {"ABORT"} : ScrewsBeside \/ a.cmds[c] \in {None, "screws"}}}
  \cup {start_probe(a, tool, auto) : tool \in {"z_tilt", "screws_tilt", "delta"}, auto \in BOOLEAN}

(***************************************************************************)
(* Steps.  An error ends the command; a crash ends the printer.            *)
(***************************************************************************)
Inputs == [moves : 0 .. MaxMoves, error : Errors]
With(in) == [s EXCEPT !.moves = IF s.homed THEN in.moves ELSE 0]
Ended(a) == [a EXCEPT !.moves = 0, !.exc = IF @ = "error" THEN None ELSE @]
Runs == s.exc = None /\ ~ s.points.auto
Command == Runs /\ n < MaxCommands /\ n' = n + 1

Start == Command /\ \E in \in Inputs : \E a \in Starts(With([in EXCEPT !.error = 0])) : s' = Ended(a)

Owned(c, owner) == s.cmds[c] = owner

TESTZ == Command /\ Owned("TESTZ", "manual")
         /\ \E in \in Inputs, dir \in {"-", "+", "Z"} : s' = Ended(cmd_TESTZ(With(in), dir, in))
ACCEPT == /\ Command
          /\ \E in \in Inputs : \/ Owned("ACCEPT", "manual") /\ s' = Ended(cmd_ACCEPT(With(in), in))
                                \/ Owned("ACCEPT", "screws") /\ s' = Ended(ScrewsACCEPT(With(in)))
ADJUSTED == Command /\ Owned("ADJUSTED", "screws") /\ \E in \in Inputs : s' = Ended(ScrewsADJUSTED(With(in)))
ABORT == /\ Command
         /\ \E in \in Inputs :
              \/ Owned("ABORT", "manual") /\ s' = Ended(cmd_ABORT(With(in), in))
              \/ Owned("ABORT", "screws") /\ s' = Ended(ScrewsABORT(With(in)))
              \/ Owned("ABORT", "temp") /\ s' = Ended(cmd_TEMPERATURE_PROBE_ABORT(With(in)))
TempNext == Command /\ Owned("TEMPERATURE_PROBE_NEXT", "temp")
            /\ \E in \in Inputs : s' = Ended(cmd_TEMPERATURE_PROBE_NEXT(With(in)))
TempComplete == Command /\ Owned("TEMPERATURE_PROBE_COMPLETE", "temp")
                /\ s' = Ended(cmd_TEMPERATURE_PROBE_COMPLETE(s))

\* A round of automatic probing, with the samples of every point.
AutoRound ==
  /\ s.exc = None /\ s.points.auto /\ n < MaxCommands /\ n' = n + 1
  /\ \E in \in Inputs :
       LET b == Move(With(in), Top)
           r == _invoke_callback(b, in.error)
           over == [s |-> Ended(IF Ok(b) THEN r.s ELSE b)]
       IN  s' = IF Ok(b) /\ Ok(r.s) /\ r.res = "retry" THEN Ended(r.s)
                ELSE [over.s EXCEPT !.points = [tool |-> None, auto |-> FALSE, count |-> 0]]

\* TemperatureProbe._temp_callback and _check_kick_next: an error of the script
\* is raised in the reactor's callback.
Warm == s.exc = None /\ s.temp < Hot /\ s' = [s EXCEPT !.temp = @ + 1] /\ UNCHANGED n
KickNext ==
  /\ Runs /\ s.tp.active /\ s.temp >= s.tp.next
  /\ \E in \in Inputs :
       LET a == cmd_TEMPERATURE_PROBE_NEXT([With(in) EXCEPT !.tp.next = Never])
       IN  s' = [a EXCEPT !.moves = 0, !.exc = IF Ok(a) THEN None ELSE "crash"]
  /\ UNCHANGED n

\* Other commands move the tool, turn the motors off, home.
G1 == Command /\ s.homed /\ \E z \in {0, Top} : s' = [s EXCEPT !.z = z, !.moved = TRUE]
M84 == Command /\ s' = [s EXCEPT !.homed = FALSE, !.applied = FALSE]
G28 == Command /\ s' = [s EXCEPT !.homed = TRUE, !.z = Top, !.moved = TRUE]

Next ==
  \/ Start \/ TESTZ \/ ACCEPT \/ ADJUSTED \/ ABORT \/ TempNext \/ TempComplete \/ AutoRound
  \/ Warm \/ KickNext \/ G1 \/ M84 \/ G28

Spec == Init /\ [][Next]_vars
(***************************************************************************)
(* Properties.                                                             *)
(***************************************************************************)
Clients == {None, "manual", "endstop", "probe", "points", "twist", "eddy", "temp"}

\* The shape of the state.
TypeOK ==
  /\ s.cmds \in [Temporary -> {None, "manual", "screws", "temp"}]
  /\ s.helper.client \in Clients /\ s.helper.start \in 0 .. Top /\ s.helper.past \subseteq 0 .. Top
  /\ s.z \in 0 .. Top /\ s.exc \in {None, "crash"} /\ s.moves = 0
  /\ s.points.tool \in {None, "z_tilt", "screws_tilt", "delta"} /\ s.points.count \in 0 .. Points
  /\ s.screws.state \in {None, "adjust"} /\ s.screws.current \in 0 .. Screws
  /\ s.tp.active \in BOOLEAN /\ s.temp \in 0 .. Hot /\ n \in 0 .. MaxCommands

\* As long as the printer runs, whoever waits for a person has the commands that
\* answer it, nobody else has them, and a calibration can always be aborted.
CommandsHaveOwners ==
  s.exc = None =>
    /\ (s.cmds["ACCEPT"] = "manual") = (s.helper # Idle) /\ s.status.active = (s.helper # Idle)
    /\ (s.cmds["ADJUSTED"] = "screws") = (s.screws.state # None)
    /\ (s.cmds["TEMPERATURE_PROBE_NEXT"] = "temp") = s.tp.active
    /\ s.cmds["ACCEPT"] # None => s.cmds["ABORT"] = s.cmds["ACCEPT"]
    /\ s.tp.active /\ s.helper = Idle => s.cmds["ABORT"] = "temp"
    /\ s.helper.client = "temp" => s.tp.active

\* '-' and '+' never pass a tested height, so the bracket closes in on the bed.
StaysInBracket ==
  [][ (s.helper # Idle /\ ~ s'.moved /\ s'.helper = [s.helper EXCEPT !.past = @ \cup {s.z}] /\ s'.z # s.z - 2)
      => s'.z >= s.status.lower /\ s'.z <= s.status.upper ]_vars

\* A tilt that counts as applied was measured to be within the tolerance.
AppliedIsLevel == s.applied => s.retry.previous <= Tolerance /\ s.retry.current <= MaxRetries

\* The heaters of the drift calibration are off again whenever it is over.
HeatersGoOff == s.exc = None => (s.tp.heat => s.tp.active)

\* No calibration command that comes at a bad time stops the printer.
NeverCrashes == s.exc # "crash"

\* Nobody listens to the sensor when no command runs.
NoStrayClient == s.exc = None => s.clients = 0

\* The temperature that is saved for the eddy current map is that of the map.
TemperatureIsOfMap == s.mapTemp = s.map

\* A refused command leaves the axis twist compensation as it was.
RefusedKeepsTwist == [][ s.helper # Idle /\ s.twist.kept /\ s.helper = s'.helper => s'.twist.kept ]_vars

(***************************************************************************)
(* What a step keeps, of the state a that a command has come to.           *)
(***************************************************************************)
Tools == {"z_tilt", "screws_tilt", "delta"}
Fields == {"cmds", "helper", "status", "z", "moved", "homed", "exc", "moves", "points", "retry", "applied", "twist",
           "screws", "tp", "temp", "map", "mapTemp", "clients", "saved"}

Shape(a) ==
  /\ a = [f \in Fields |-> a[f]]
  /\ a.cmds \in [Temporary -> {None, "manual", "screws", "temp"}]
  /\ a.helper \in [client : Clients, start : 0 .. Top, past : SUBSET (0 .. Top)]
  /\ a.helper.client = None => a.helper = Idle
  /\ a.z \in 0 .. Top /\ a.moves \in Nat /\ a.temp \in 0 .. Hot /\ a.exc \in {None, "error", "crash"}
  /\ a.points \in [tool : Tools \cup {None}, auto : BOOLEAN, count : 0 .. Points]
  /\ a.screws \in [state : {None, "adjust"}, current : 0 .. Screws, accepted : Int]
  /\ a.tp \in [active : BOOLEAN, count : Nat, next : Nat, heat : BOOLEAN]
  /\ a.retry \in [current : Nat, previous : Nat, increasing : Int] /\ a.applied \in BOOLEAN

\* Rounds of a tilt that is under way count as not applied, and there are not too many of them.
RoundsAreCounted(a) == a.points.tool = "z_tilt" => ~ a.applied /\ a.retry.current <= MaxRetries
TiltIsLevel(a) == a.applied => a.retry.previous <= Tolerance /\ a.retry.current <= MaxRetries

\* Who waits for the probe of a point has one to go; automatic rounds wait for nobody.
PointIsDue(a) ==
  /\ a.helper.client = "points" => a.points.tool # None /\ ~ a.points.auto /\ a.points.count < Points
  /\ a.points.auto => a.points.tool # None

\* Each command is that of the tool that is active, ABORT that of the one which waits for a person.
ManualHasCommands(a) ==
  /\ a.status.active = (a.helper # Idle)
  /\ a.cmds["ACCEPT"] = "manual" <=> a.helper # Idle
  /\ a.cmds["TESTZ"] = IF a.helper # Idle THEN "manual" ELSE None
ScrewsHaveCommands(a) ==
  /\ a.cmds["ADJUSTED"] = IF a.screws.state # None THEN "screws" ELSE None
  /\ a.cmds["ACCEPT"] = "screws" <=> a.screws.state # None
DriftHasCommands(a) ==
  /\ a.cmds["TEMPERATURE_PROBE_NEXT"] = IF a.tp.active THEN "temp" ELSE None
  /\ a.cmds["TEMPERATURE_PROBE_COMPLETE"] = a.cmds["TEMPERATURE_PROBE_NEXT"]
  /\ a.tp.heat => a.tp.active
AbortIsOfOne(a) ==
  /\ a.cmds["ACCEPT"] # "temp"
  /\ a.cmds["ABORT"] = IF a.cmds["ACCEPT"] # None THEN a.cmds["ACCEPT"] ELSE IF a.tp.active THEN "temp" ELSE None
  /\ a.tp.active => a.screws.state = None /\ a.helper.client \in {None, "temp"}
  /\ a.helper.client = "temp" => a.tp.active

Owners(a) == ManualHasCommands(a) /\ ScrewsHaveCommands(a) /\ DriftHasCommands(a) /\ AbortIsOfOne(a)

Sound(a) == Shape(a) /\ TiltIsLevel(a) /\ (a.exc # "crash" => RoundsAreCounted(a) /\ PointIsDue(a) /\ Owners(a))

IInv == Sound(s) /\ s.exc # "error" /\ s.moves = 0 /\ n \in 0 .. MaxCommands

=============================================================================
