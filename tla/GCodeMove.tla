------------------------------ MODULE GCodeMove ------------------------------
(***************************************************************************)
(* The coordinates of extras/gcode_move.py over the commanded position of  *)
(* the tool head, with the checks and the change of the extruder and the   *)
(* accumulator of small extrusions that QIDI put into toolhead.move.       *)
(* One axis, X, stands for X, Y and Z; factors and positions are integers. *)
(***************************************************************************)
EXTENDS Integers

CONSTANTS Extruders,
          Values, Factors, Speeds,    \* the parameters of the commands
          MaxX, MaxE, SmallE, BigE,   \* limits of the axis, of an extrusion, e_d, 1 mm
          MaxCommands                 \* bound: commands

GCodeMoveAssumption ==
  /\ Values \subseteq Int /\ Factors \cup Speeds \subseteq Nat \ {0} /\ 1 \in Factors
  /\ {MaxX, MaxE, SmallE, BigE, MaxCommands} \subseteq Nat

VARIABLES
  last, base, homing,     \* *_position
  mode,                   \* absolute_coord, absolute_extrude
  factor, speed, speedFactor,
  saved,                  \* the saved state, after SAVE_GCODE_STATE
  cmd,                    \* the tool head's commanded_pos
  ext, extPos, hot,       \* extruder, its last_position, can_extrude
  acc, accOn,             \* e_accumulator; e_enable, "never" as long as it was not set
  ready,
  g, savedG,              \* the position and speed the file's author counts on
  n                       \* commands so far

coords == <<last, base, homing, mode, factor, speed, speedFactor>>
head   == <<cmd, ext, extPos, acc>>
vars   == <<coords, saved, head, hot, accOn, ready, g, savedG, n>>

Axes == {"X", "E"}
None == [none |-> TRUE]
Abs(v) == IF v < 0 THEN -v ELSE v
At(x, e) == [X |-> x, E |-> e]

Init ==
  /\ last = At(0, 0) /\ base = At(0, 0) /\ homing = At(0, 0) /\ cmd = At(0, 0)
  /\ mode = [coord |-> TRUE, extrude |-> TRUE]
  /\ factor = 1 /\ speed \in Speeds /\ speedFactor = 1
  /\ saved = None /\ savedG = None /\ g = [X |-> 0, E |-> 0, F |-> speed]
  /\ ext \in Extruders /\ extPos = [x \in Extruders |-> 0]
  /\ hot = FALSE /\ acc = 0 /\ accOn = "never" /\ ready = TRUE /\ n = 0

-----------------------------------------------------------------------------
(* Tool head and extruder                                                    *)

\* Move.__init__, kin.check_move and the extruder's check_move: an error?
Refused(from, to) ==
  \/ to.X # from.X /\ Abs(to.X) > MaxX
  \/ /\ to.E # from.E
     /\ ~hot \/ ((to.X = from.X \/ to.E < from.E) /\ Abs(to.E - from.E) > MaxE)

Actual(to, left) == [refused |-> Refused(cmd, to), pos |-> IF Refused(cmd, to) THEN cmd ELSE to,
                     acc |-> left]

\* Mutant: what is below e_d adds up and is not looked at.
HeadMoveKeeps(to) ==
  LET de == to.E - cmd.E IN
  IF Abs(de) < SmallE THEN [refused |-> FALSE, pos |-> cmd, acc |-> acc + de] ELSE Actual(to, acc)

\* toolhead.move
HeadMove(to) ==
  LET de == to.E - cmd.E
      sum == IF Abs(de) < SmallE THEN acc + de ELSE acc
  IN IF accOn # "on" THEN Actual(to, IF Refused(cmd, to) THEN acc ELSE 0)
     ELSE IF de = 0 \/ Abs(de) >= BigE THEN Actual(to, 0)
     ELSE IF Abs(de) < SmallE /\ Abs(sum) < SmallE THEN [refused |-> FALSE, pos |-> cmd, acc |-> sum]
     ELSE Actual([to EXCEPT !.E = @ + sum], 0)

Command == ready /\ n < MaxCommands /\ n' = n + 1

\* Mutant: an error leaves the position that the command asked for.
LastAfterNoReset(m, asked) == asked

\* reset_last_position by gcode:command_error, else the position asked for
LastAfter(m, asked) == IF m.refused THEN m.pos ELSE asked

-----------------------------------------------------------------------------
\* cmd_G1: positions asked for by the parameters that are there
Asked(p) ==
  At(IF "X" \in DOMAIN p THEN IF mode.coord THEN p.X + base.X ELSE last.X + p.X ELSE last.X,
     IF "E" \in DOMAIN p
     THEN IF mode.coord /\ mode.extrude THEN p.E * factor + base.E ELSE last.E + p.E * factor
     ELSE last.E)

Believed(p, axis, absolute) ==
  IF axis \in DOMAIN p THEN IF absolute THEN p[axis] ELSE g[axis] + p[axis] ELSE g[axis]

G1(p) ==
  LET m == HeadMove(Asked(p)) IN
  /\ Command
  /\ last' = LastAfter(m, Asked(p)) /\ cmd' = m.pos /\ acc' = m.acc
  /\ speed' = IF "F" \in DOMAIN p THEN p.F * speedFactor ELSE speed
  /\ g' = [X |-> IF m.refused THEN g.X ELSE Believed(p, "X", mode.coord),
           E |-> IF m.refused THEN g.E ELSE Believed(p, "E", mode.coord /\ mode.extrude),
           F |-> IF "F" \in DOMAIN p THEN p.F ELSE g.F]
  /\ UNCHANGED <<base, homing, mode, factor, speedFactor, saved, ext, extPos, hot, accOn, ready, savedG>>

\* a G1 whose F is not above zero: the position was changed before the error
G1BadSpeed(p) ==
  /\ Command /\ last' = LastAfter([refused |-> TRUE, pos |-> cmd], Asked(p))
  /\ UNCHANGED <<base, homing, mode, factor, speed, speedFactor, saved, head, hot, accOn, ready, g, savedG>>

\* M82, M83, G90, G91
SetMode(m) ==
  /\ Command /\ mode' = m
  /\ UNCHANGED <<last, base, homing, factor, speed, speedFactor, saved, head, hot, accOn, ready, g, savedG>>

G92(p) ==
  /\ Command
  /\ base' = IF DOMAIN p = {} THEN last
             ELSE At(IF "X" \in DOMAIN p THEN last.X - p.X ELSE base.X,
                     IF "E" \in DOMAIN p THEN last.E - p.E * factor ELSE base.E)
  /\ g' = [X |-> IF DOMAIN p = {} THEN 0 ELSE Believed(p, "X", TRUE),
           E |-> IF DOMAIN p = {} THEN 0 ELSE Believed(p, "E", TRUE), F |-> g.F]
  /\ UNCHANGED <<last, homing, mode, factor, speed, speedFactor, saved, head, hot, accOn, ready, savedG>>

\* Mutant: the speed of the moves is left as it was.
FactoredSpeedNot(old, f) == speed

FactoredSpeed(old, f) == (speed \div old) * f

M220(f) ==
  /\ Command /\ speed' = FactoredSpeed(speedFactor, f) /\ speedFactor' = f
  /\ UNCHANGED <<last, base, homing, mode, factor, saved, head, hot, accOn, ready, g, savedG>>

BaseForFactor(f) == last.E - ((last.E - base.E) \div factor) * f

M221(f) ==
  /\ Command /\ factor' = f /\ base' = [base EXCEPT !.E = BaseForFactor(f)]
  /\ UNCHANGED <<last, homing, mode, speed, speedFactor, saved, head, hot, accOn, ready, g, savedG>>

\* SET_GCODE_OFFSET, absolute or _ADJUST, of X or E
SetOffset(axis, v, adjust, move) ==
  LET offset == IF adjust THEN homing[axis] + v ELSE v
      delta  == offset - homing[axis]
      to == [last EXCEPT ![axis] = @ + delta]
      m  == HeadMove(to)
  IN /\ Command /\ (axis = "X" \/ delta % factor = 0)
     /\ base' = [base EXCEPT ![axis] = @ + delta] /\ homing' = [homing EXCEPT ![axis] = offset]
     /\ last' = IF move THEN LastAfter(m, to) ELSE last
     /\ cmd' = IF move THEN m.pos ELSE cmd
     /\ acc' = IF move THEN m.acc ELSE acc
     /\ g' = IF move /\ ~m.refused THEN g
             ELSE [g EXCEPT ![axis] = @ - IF axis = "X" THEN delta ELSE delta \div factor]
     /\ UNCHANGED <<mode, factor, speed, speedFactor, saved, ext, extPos, hot, accOn, ready, savedG>>

SaveState ==
  /\ Command /\ savedG' = g
  /\ saved' = [base |-> base, last |-> last, homing |-> homing, mode |-> mode, factor |-> factor,
               speed |-> speed, speedFactor |-> speedFactor]
  /\ UNCHANGED <<coords, head, hot, accOn, ready, g>>

\* Mutant: the E axis goes back to where it was as well.
RestoredEBack == saved.base.E

RestoredE == saved.base.E + (last.E - saved.last.E)

RestoreState(move) ==
  LET to == At(saved.last.X, last.E)
      m  == HeadMove(to)
  IN /\ Command /\ saved # None
     /\ mode' = saved.mode /\ homing' = saved.homing /\ factor' = saved.factor
     /\ speed' = saved.speed /\ speedFactor' = saved.speedFactor
     /\ base' = At(saved.base.X, RestoredE)
     /\ last' = IF move THEN LastAfter(m, to) ELSE last
     /\ cmd' = IF move THEN m.pos ELSE cmd
     /\ acc' = IF move THEN m.acc ELSE acc
     /\ g' = [savedG EXCEPT !.X = IF move /\ ~m.refused THEN @ ELSE last.X - saved.base.X]
     /\ UNCHANGED <<saved, ext, extPos, hot, accOn, ready, savedG>>

\* _handle_home_rails_end
HomeRailsEnd(x) ==
  /\ Command /\ cmd' = [cmd EXCEPT !.X = x] /\ last' = [cmd EXCEPT !.X = x]
  /\ base' = [base EXCEPT !.X = homing.X] /\ g' = [g EXCEPT !.X = x - homing.X]
  /\ UNCHANGED <<homing, mode, factor, speed, speedFactor, saved, ext, extPos, hot, acc, accOn, ready, savedG>>

AfterManual(m) == m.pos

\* manual_move and set_position beside the G-code: the events
ManualMove(x) ==
  LET m == HeadMove([cmd EXCEPT !.X = x]) IN
  /\ Command /\ ~m.refused /\ cmd' = m.pos /\ acc' = m.acc /\ last' = AfterManual(m)
  /\ g' = [g EXCEPT !.X = m.pos.X - base.X]
  /\ UNCHANGED <<base, homing, mode, factor, speed, speedFactor, saved, ext, extPos, hot, accOn, ready, savedG>>

ActivateExtruder(x) ==
  /\ Command /\ x # ext /\ ext' = x /\ extPos' = [extPos EXCEPT ![ext] = cmd.E]
  /\ cmd' = [cmd EXCEPT !.E = extPos[x]] /\ last' = cmd' /\ factor' = 1
  /\ base' = [base EXCEPT !.E = last'.E] /\ g' = [g EXCEPT !.E = 0]
  /\ UNCHANGED <<homing, mode, speed, speedFactor, saved, acc, hot, accOn, ready, savedG>>

\* SET_EXTRUDER_ENABLE
SetAccumulator ==
  /\ Command /\ accOn' = IF accOn = "on" THEN "off" ELSE "on"
  /\ UNCHANGED <<coords, saved, head, hot, ready, g, savedG>>

Heat == Command /\ hot' = ~hot /\ UNCHANGED <<coords, saved, head, accOn, ready, g, savedG>>

HandleShutdown ==
  /\ ready /\ ready' = FALSE /\ UNCHANGED <<coords, saved, head, hot, accOn, g, savedG, n>>

-----------------------------------------------------------------------------
Params == UNION {[s -> Values] : s \in SUBSET Axes}

WithSpeed(p, f) == [a \in DOMAIN p \cup {"F"} |-> IF a = "F" THEN f ELSE p[a]]

Next ==
  \/ \E p \in Params : G1(p) \/ G1BadSpeed(p) \/ G92(p) \/ \E f \in Speeds : G1(WithSpeed(p, f))
  \/ \E a, b \in BOOLEAN : SetMode([coord |-> a, extrude |-> b])
  \/ \E f \in Factors : M220(f) \/ M221(f)
  \/ \E a \in Axes, v \in Values, adjust, move \in BOOLEAN : SetOffset(a, v, adjust, move)
  \/ SaveState \/ (\E move \in BOOLEAN : RestoreState(move))
  \/ \E x \in Values : HomeRailsEnd(x) \/ ManualMove(x)
  \/ (\E x \in Extruders : ActivateExtruder(x)) \/ SetAccumulator \/ Heat \/ HandleShutdown

Spec == Init /\ [][Next]_vars

-----------------------------------------------------------------------------
Points == [Axes -> Int]
Modes  == [coord : BOOLEAN, extrude : BOOLEAN]
Beliefs == [X : Int, E : Int, F : Nat \ {0}]
SavedStates == [base : Points, last : Points, homing : Points, mode : Modes, factor : Factors, speed : Nat \ {0},
                speedFactor : Factors]

TypeOK ==
  /\ {last, base, homing, cmd} \subseteq Points /\ mode \in Modes
  /\ {factor, speedFactor} \subseteq Factors /\ speed \in Nat \ {0} /\ acc \in Int
  /\ ext \in Extruders /\ extPos \in [Extruders -> Int] /\ {hot, ready} \subseteq BOOLEAN
  /\ accOn \in {"never", "on", "off"} /\ (saved = None <=> savedG = None)

\* Between commands the G-code counts from where the tool head was sent: after errors, moves beside the G-code,
\* homing and changes of the extruder. The accumulator keeps small moves back.
InSync == ready /\ accOn = "never" => last = cmd

\* A file's absolute positions mean what its author counts on, E also across M221, SAVE and RESTORE, offsets, failed
\* moves and moves beside the G-code.
PositionIsBelieved == accOn = "never" => last.X - base.X = g.X /\ last.E - base.E = g.E * factor

\* The speed of moves is the last F with the speed factor of now.
SpeedIsBelieved == speed = g.F * speedFactor

-----------------------------------------------------------------------------
\* A saved state is one that held.
SavedIsBelieved ==
  saved # None =>
    /\ saved \in SavedStates /\ savedG \in Beliefs
    /\ saved.speed = savedG.F * saved.speedFactor
    /\ accOn = "never" => saved.last.X - saved.base.X = savedG.X /\ saved.last.E - saved.base.E = savedG.E * saved.factor

IInv == TypeOK /\ g \in Beliefs /\ (accOn = "never" => last = cmd) /\ PositionIsBelieved /\ SpeedIsBelieved /\ SavedIsBelieved
=============================================================================
