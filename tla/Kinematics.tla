----------------------------- MODULE Kinematics -----------------------------
(***************************************************************************)
(* The kinematics (kinematics/*.py, chelper/kin_*.c): which axes are       *)
(* homed, which moves check_move accepts, and where the steppers stand.    *)
(*                                                                         *)
(* A printer has one kind of kinematics.  Square roots are left out: what  *)
(* a delta reaches at a height is AllowedXY2, a square of a radius, and    *)
(* PillarsZMax, how high a deltesian gets, falls to both sides.            *)
(***************************************************************************)
EXTENDS Integers, Sequences, FiniteSets

CONSTANTS Kinds, Coord,
          XYRange,              \* position_min and position_max of every rail
          MinZ, MaxZ, LimitZ,   \* of a delta: what it reaches gets narrower above LimitZ
          HomeZ,                \* where a delta or deltesian homes
          MaxXY2, SlowXY2       \* squares of its radius, of the one where moves slow down

Cartesians == {"cartesian", "corexy", "corexz", "hybrid_corexy", "hybrid_corexz"}
Deltas == {"delta", "rotary_delta"}

KinematicsAssumption ==
  /\ Kinds \subseteq Cartesians \cup Deltas \cup {"polar", "deltesian"}
  /\ XYRange[1] < XYRange[2] /\ MinZ <= LimitZ /\ LimitZ < MaxZ /\ MaxZ <= HomeZ
  /\ SlowXY2 <= MaxXY2 /\ Coord \subseteq Int

VARIABLES
  kind, pos,
  limits, \* of the axes; UnHomed before they are homed
  xy2,    \* limit_xy2: a delta's cached limit, the limit of a polar printer
  moved   \* the axes of the move that was accepted last

vars == <<kind, pos, limits, xy2, moved>>

Axes == 1..3
UnHomed == <<1, -1>>
Homed(i) == limits[i][1] <= limits[i][2]

Init ==
  /\ kind \in Kinds /\ pos = <<0, 0, 0>> /\ limits = [i \in Axes |-> UnHomed] /\ xy2 = -1 /\ moved = {}

-----------------------------------------------------------------------------
(* Where the steppers stand for a coordinate, and back.                    *)
cartesian_steppers(c) == c
corexy_steppers(c) == <<c[1] + c[2], c[1] - c[2], c[3]>>
corexz_steppers(c) == <<c[1] + c[3], c[2], c[1] - c[3]>>

StepperPositions(c) ==
  CASE kind \in {"cartesian"}      -> cartesian_steppers(c)
    [] kind = "corexy"             -> corexy_steppers(c)
    [] kind = "corexz"             -> corexz_steppers(c)
    [] kind = "hybrid_corexy"      -> <<corexy_steppers(c)[2], c[2], c[3]>>
    [] kind = "hybrid_corexz"      -> <<corexz_steppers(c)[3], c[2], c[3]>>

corexy_calc_position(p) == <<(p[1] + p[2]) \div 2, (p[1] - p[2]) \div 2, p[3]>>
corexz_calc_position(p) == <<(p[1] + p[3]) \div 2, p[2], (p[1] - p[3]) \div 2>>
hybrid_corexy_calc_position(p) == <<p[1] + p[2], p[2], p[3]>>
hybrid_corexz_calc_position(p) == <<p[1] + p[3], p[2], p[3]>>

CalcPosition(p) ==
  CASE kind = "cartesian"     -> p
    [] kind = "corexy"        -> corexy_calc_position(p)
    [] kind = "corexz"        -> corexz_calc_position(p)
    [] kind = "hybrid_corexy" -> hybrid_corexy_calc_position(p)
    [] kind = "hybrid_corexz" -> hybrid_corexz_calc_position(p)

-----------------------------------------------------------------------------
(* set_position: the homed axes get their range.                           *)
SetLimits(A) == [i \in Axes |-> IF i \in A THEN XYRange ELSE limits[i]]

cartesian_set_position(A) == limits' = SetLimits(A) /\ UNCHANGED xy2
delta_set_position(A) ==
  xy2' = -1 /\ limits' = IF A = Axes THEN SetLimits(A) ELSE limits
polar_set_position(A) ==
  /\ limits' = SetLimits(A \cap {3})
  /\ xy2' = IF {1, 2} \subseteq A THEN XYRange[2] * XYRange[2] ELSE xy2
deltesian_set_position(A) == limits' = SetLimits(A) /\ UNCHANGED xy2

set_position(A, c) ==
  /\ pos' = c
  /\ \/ kind \in Cartesians /\ cartesian_set_position(A)
     \/ kind \in Deltas /\ delta_set_position(A)
     \/ kind = "polar" /\ polar_set_position(A)
     \/ kind = "deltesian" /\ deltesian_set_position(A)
  /\ moved' = {} /\ UNCHANGED kind

\* The axes that a G28 of these axes (in their order) homes.
corexy_home(seq) == {seq[Len(seq)]}
delta_home(seq) == Axes
polar_home(seq) ==
  LET A == {seq[i] : i \in DOMAIN seq} IN (IF A \cap {1, 2} # {} THEN {1, 2} ELSE {}) \cup (A \cap {3})
deltesian_home(seq) ==
  LET A == {seq[i] : i \in DOMAIN seq} IN (IF A \cap {1, 3} # {} THEN {1, 3} ELSE {}) \cup (A \cap {2})

HomePosition == <<0, 0, HomeZ>>

home(seq) ==
  LET A == CASE kind = "corexy" -> corexy_home(seq)
             [] kind \in Deltas -> delta_home(seq)
             [] kind = "polar" -> polar_home(seq)
             [] kind = "deltesian" -> deltesian_home(seq)
             [] OTHER -> {seq[i] : i \in DOMAIN seq}
      at == CASE kind \in Deltas -> HomePosition
              [] kind = "deltesian" -> [i \in Axes |-> IF i \in A THEN (IF i = 2 THEN XYRange[1] ELSE HomePosition[i]) ELSE pos[i]]
              [] kind = "polar" -> [i \in Axes |-> IF i \in A THEN (IF i = 2 THEN 0 ELSE XYRange[2]) ELSE pos[i]]
              [] OTHER -> [i \in Axes |-> IF i \in A THEN XYRange[1] ELSE pos[i]]
  IN  set_position(A, at)

note_z_not_homed ==
  /\ kind \in Cartesians \cup {"polar"}
  /\ limits' = [limits EXCEPT ![3] = UnHomed] /\ moved' = {} /\ UNCHANGED <<kind, pos, xy2>>

_motor_off ==
  /\ limits' = [i \in Axes |-> UnHomed] /\ xy2' = IF kind \in Deltas \cup {"polar"} THEN -1 ELSE xy2
  /\ moved' = {} /\ UNCHANGED <<kind, pos>>

-----------------------------------------------------------------------------
(* check_move: its result, and the new limit_xy2 of a delta.               *)
Inside(i, v) == limits[i][1] <= v /\ v <= limits[i][2]
Sqr(c) == c[1] * c[1] + c[2] * c[2]

_check_endstops(c, M) == \A i \in M : Inside(i, c[i])

cartesian_check_move(c, M) ==
  /\ (Inside(1, c[1]) /\ Inside(2, c[2])) \/ _check_endstops(c, M)
  /\ 3 \in M => _check_endstops(c, M)
  /\ xy2' = xy2

AtHome(c) == c[1] = 0 /\ c[2] = 0 /\ c[3] \in MinZ..HomeZ
Least(a, b) == IF a < b THEN a ELSE b

delta_limit(limit, c, M) == IF 3 \in M \/ Sqr(c) > SlowXY2 \/ Sqr(pos) > SlowXY2 THEN -1 ELSE Least(limit, SlowXY2)
rotary_delta_limit(limit, c, M) == IF 3 \in M THEN -1 ELSE limit

AllowedXY2(z) == Least(MaxXY2, IF z > LimitZ THEN (MaxZ - z) * (MaxZ - z) ELSE MaxXY2)
Reached(c) == Sqr(c) <= AllowedXY2(c[3]) /\ c[3] \in MinZ..MaxZ

\* Mutant: it is used for moves with Z too.
CachedForAll(c, M) == Sqr(c) <= xy2

\* The cached limit stands for a move that stays at its height.
Cached(c, M) == Sqr(c) <= xy2 /\ 3 \notin M

delta_check_move(c, M) ==
  \/ Cached(c, M) /\ xy2' = xy2
  \/ /\ ~Cached(c, M) /\ Homed(1) /\ (Reached(c) \/ AtHome(c))
     /\ LET limit == IF Reached(c) THEN AllowedXY2(c[3]) ELSE -1
        IN  xy2' = IF kind = "delta" THEN delta_limit(limit, c, M) ELSE rotary_delta_limit(limit, c, M)

polar_check_move(c, M) ==
  Sqr(c) <= xy2 /\ (3 \in M => Inside(3, c[3])) /\ xy2' = xy2

\* At its top the range of Z depends on X: the pillars.
PillarsZMax(x) == HomeZ - (IF x < 0 THEN -x ELSE x)
TopZ == Least(PillarsZMax(XYRange[1]), PillarsZMax(XYRange[2]))

deltesian_check_move(c, M) ==
  LET homing == c[1] = 0 /\ c[3] = HomeZ /\ 2 \notin M
      top == IF ~homing /\ c[3] > TopZ THEN PillarsZMax(c[1]) ELSE TopZ
      Allows(i) == IF i = 3 THEN c[3] \in MinZ..top ELSE c[i] \in XYRange[1]..XYRange[2]
  IN  /\ \A i \in M : Homed(i) /\ (homing \/ Allows(i))
      /\ xy2' = xy2

Move(c) ==
  LET M == {i \in Axes : c[i] # pos[i]}
  IN  /\ M # {}
      /\ \/ kind \in Cartesians /\ cartesian_check_move(c, M)
         \/ kind \in Deltas /\ delta_check_move(c, M)
         \/ kind = "polar" /\ polar_check_move(c, M)
         \/ kind = "deltesian" /\ deltesian_check_move(c, M)
      /\ pos' = c /\ moved' = M /\ UNCHANGED <<kind, limits>>

Next ==
  \/ \E seq \in {<<1>>, <<2>>, <<3>>, <<1, 2>>, <<1, 2, 3>>} : home(seq)
  \/ \E c \in [Axes -> Coord] : set_position(Axes, c) \/ set_position({}, c) \/ Move(c)
  \/ note_z_not_homed \/ _motor_off

Spec == Init /\ [][Next]_vars

-----------------------------------------------------------------------------
(* Properties                                                              *)
TypeOK ==
  kind \in Kinds /\ limits \in [Axes -> {UnHomed, XYRange}] /\ xy2 \in Int /\ moved \subseteq Axes /\ DOMAIN pos = Axes

InRange(i) == pos[i] \in XYRange[1]..XYRange[2]
IsBelowPillars == pos[3] \in MinZ..PillarsZMax(pos[1])

\* Whatever was cached, homed, switched off or set before: an accepted move ends
\* inside what the printer reaches, on axes that are homed.  A deltesian gets the
\* height right only when Z moves, and X is within its range: a move of X at the
\* top is not compared with it.
MovesStayInside ==
  moved # {} =>
    CASE kind \in Cartesians -> \A i \in moved : Homed(i) /\ InRange(i)
      [] kind \in Deltas     -> Homed(1) /\ (Reached(pos) \/ AtHome(pos))
      [] kind = "polar"      -> Sqr(pos) <= XYRange[2] * XYRange[2] /\ (3 \in moved => Homed(3) /\ InRange(3))
      [] OTHER -> \A i \in moved : Homed(i) /\ (i # 3 => InRange(i)) /\ (i = 3 /\ InRange(1) => IsBelowPillars)

\* The position read back from the steppers is the one that was set.
PositionIsReadBack ==
  kind \in Cartesians => CalcPosition(StepperPositions(pos)) = pos
=============================================================================
