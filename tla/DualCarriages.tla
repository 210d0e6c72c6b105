---------------------------- MODULE DualCarriages ----------------------------
(***************************************************************************)
(* Two carriages on one axis (kinematics/idex_modes.py, chelper/kin_idex.c)*)
(* one of them leads, the other rests or copies or mirrors its moves.  A   *)
(* carriage stands at scale * position + offset of the tool head's axis;   *)
(* scale and offset are fractions over `den'.                              *)
(*                                                                         *)
(* Positions are even numbers, so that the half of a sum is a number, and  *)
(* the tool head goes to multiples of Grid.                                *)
(***************************************************************************)
EXTENDS Integers, Sequences, SequencesExt, FiniteSets

CONSTANTS Ranges,   \* <<rail 0, rail 1>>, each <<position_min, position_max, position_endstop>>
          Positive, \* <<homing_positive_dir of rail 0, of rail 1>>
          SafeDist, Grid, MaxSteps

DualCarriagesAssumption ==
  /\ {SafeDist, Grid} \subseteq Nat /\ Grid > 0 /\ MaxSteps \in Nat /\ Positive \in [1..2 -> BOOLEAN]
  /\ \A r \in {Ranges[1], Ranges[2]} : r[1] < r[2] /\ r[3] \in {r[1], r[2]}

VARIABLES
  dc,     \* <<carriage 0, carriage 1>>: [mode, scale, den, offset]
  pos,    \* the tool head's position on the axis
  limits, \* of the axis; <<1, -1>> before it is homed
  saved,  \* saved state: [modes, positions], or <<>>
  asked,  \* were modes selected after homing, with the carriages apart
  at,     \* where the carriages physically are
  steps

vars == <<dc, pos, limits, saved, asked, at, steps>>

Homed == limits[1] <= limits[2]
Most(a, b) == IF a > b THEN a ELSE b
Least(a, b) == IF a < b THEN a ELSE b
Dist(a, b) == IF a > b THEN a - b ELSE b - a

Transform(mode, scale, offset) == [mode |-> mode, scale |-> scale, den |-> 1, offset |-> offset]

\* get_axis_position
AxisPosition(c, p) == (p * c.scale + c.offset) \div c.den

Init ==
  /\ dc = <<Transform("PRIMARY", 1, 0), Transform("INACTIVE", 0, 0)>>
  /\ pos = 0 /\ limits = <<1, -1>> /\ saved = <<>> /\ asked = FALSE /\ at = <<0, 0>> /\ steps = 0

-----------------------------------------------------------------------------
(* A state of the carriages is y = [dc, pos, limits].                      *)
Y == [dc |-> dc, pos |-> pos, limits |-> limits]

\* activate: the carriage stays where it is.
activate(c, mode, p, old) ==
  LET scale == IF mode = "MIRROR" THEN -1 ELSE 1
  IN  Transform(mode, scale, AxisPosition(c, old) - p * scale)

\* Mutant: the offset is left as it was.
inactivate_there(c, p) == Transform("INACTIVE", 0, c.offset)

inactivate(c, p) == Transform("INACTIVE", 0, AxisPosition(c, p))

\* override_axis_scaling, to the ratio of two ways: the sign stays.
override_axis_scaling(c, way, of, p) ==
  LET scale == c.scale * Dist(way, 0)
  IN  [c EXCEPT !.scale = scale, !.den = Dist(of, 0), !.offset = AxisPosition(c, p) * Dist(of, 0) - p * scale]

\* update_limits does nothing before the axis is homed.
update_limits(y, range) == [y EXCEPT !.limits = IF @[1] <= @[2] THEN range ELSE @]

RailRange(i) == <<Ranges[i][1], Ranges[i][2]>>
Other(i) == 3 - i

toggle_active_dc_rail(y, i) ==
  LET o == Other(i)
      d == [y.dc EXCEPT ![o] = IF @.mode # "INACTIVE" THEN inactivate(@, y.pos) ELSE @]
      newpos == AxisPosition(d[i], y.pos)
      z == IF d[i].mode = "PRIMARY" THEN [y EXCEPT !.dc = d]
           ELSE [y EXCEPT !.dc = [d EXCEPT ![i] = activate(@, "PRIMARY", newpos, y.pos)], !.pos = newpos]
  IN  update_limits(z, RailRange(i))

\* 1 if the first carriage is always above the second.
get_dc_order(first, second) ==
  IF first = second THEN 0
  ELSE IF Positive[first] # Positive[second] THEN IF Positive[first] THEN 1 ELSE -1
  ELSE IF Ranges[first][3] > Ranges[second][3] THEN 1 ELSE -1

Narrowed(low, high) == IF low > high THEN <<low, low>> ELSE <<low, high>>

get_kin_range(y, mode) ==
  LET a == [i \in 1..2 |-> AxisPosition(y.dc[i], y.pos)]
      r == RailRange(IF mode # "PRIMARY" \/ y.dc[1].mode # "INACTIVE" THEN 1 ELSE 2)
      active == IF y.dc[2].mode # "INACTIVE" THEN 2 ELSE 1
  IN  CASE SafeDist = 0 -> r
        [] SafeDist # 0 /\ mode = "COPY" ->
             Narrowed(Most(r[1], a[1] - a[2] + Ranges[2][1]), Least(r[2], a[1] - a[2] + Ranges[2][2]))
        [] SafeDist # 0 /\ mode = "MIRROR" ->
             IF get_dc_order(1, 2) > 0
             THEN Narrowed(Most(r[1], (a[1] + a[2] + SafeDist) \div 2), Least(r[2], a[1] + a[2] - Ranges[2][1]))
             ELSE Narrowed(Most(r[1], a[1] + a[2] - Ranges[2][2]), Least(r[2], (a[1] + a[2] - SafeDist) \div 2))
        [] OTHER ->
             IF get_dc_order(active, Other(active)) > 0
             THEN Narrowed(Most(r[1], a[Other(active)] + SafeDist), r[2])
             ELSE Narrowed(r[1], Least(r[2], a[Other(active)] - SafeDist))

activate_dc_mode(y, i, mode) ==
  LET z == CASE mode = "INACTIVE" -> [y EXCEPT !.dc[i] = inactivate(@, y.pos)]
             [] mode = "PRIMARY"  -> toggle_active_dc_rail(y, i)
             [] OTHER -> LET t == toggle_active_dc_rail(y, 1)
                         IN  [t EXCEPT !.dc[i] = activate(@, mode, t.pos, t.pos)]
  IN  update_limits(z, get_kin_range(z, mode))

-----------------------------------------------------------------------------
(* Commands.                                                               *)
\* The distance of the carriages in the order in which they home.
Apart == IF get_dc_order(1, 2) > 0 THEN at[1] - at[2] ELSE at[2] - at[1]

Becomes(y) == dc' = y.dc /\ pos' = y.pos /\ limits' = y.limits
Selected == asked' = (Homed /\ Apart' >= SafeDist)
Counted == steps < MaxSteps /\ steps' = steps + 1

cmd_SET_DUAL_CARRIAGE(i, mode) ==
  /\ mode \in {"COPY", "MIRROR"} => i = 2 /\ Homed
  /\ Becomes(activate_dc_mode(Y, i, mode)) /\ at' = at /\ Selected
  /\ Counted /\ UNCHANGED saved

\* home: one after the other, the one that has to make room first.
Ordered == IF (get_dc_order(1, 2) > 0) # Positive[1] THEN <<2, 1>> ELSE <<1, 2>>
HomeOne(y, i) == LET t == toggle_active_dc_rail(y, i)
                 IN  [t EXCEPT !.pos = Ranges[i][3], !.limits = RailRange(i)]
home ==
  /\ Becomes(toggle_active_dc_rail(FoldLeft(HomeOne, Y, Ordered), 1))
  /\ at' = [i \in 1..2 |-> Ranges[i][3]] /\ asked' = FALSE /\ Counted /\ UNCHANGED saved

motor_off == Homed /\ limits' = <<1, -1>> /\ asked' = FALSE /\ Counted /\ UNCHANGED <<dc, pos, saved, at>>

\* A move that check_move accepts; the steppers follow their transforms.
Moves(d, from, to) == [i \in 1..2 |-> at[i] + (d[i].scale * (to - from)) \div d[i].den]
LandsEven(p) == p % Grid = 0 /\ \A i \in 1..2 : (p * dc[i].scale + dc[i].offset) % (2 * dc[i].den) = 0
move(p) ==
  /\ Homed /\ p # pos /\ p \in limits[1]..limits[2] /\ LandsEven(p) /\ Counted
  /\ at' = Moves(dc, pos, p) /\ pos' = p /\ UNCHANGED <<dc, limits, saved, asked>>

cmd_SAVE_DUAL_CARRIAGE_STATE ==
  /\ saved' = [modes |-> [i \in 1..2 |-> dc[i].mode], positions |-> [i \in 1..2 |-> AxisPosition(dc[i], pos)]]
  /\ saved # saved' /\ Counted /\ UNCHANGED <<dc, pos, limits, asked, at>>

\* With MOVE=0 only the modes, in the order of the carriages.
RestoreModes(y) == activate_dc_mode(activate_dc_mode(y, 1, saved.modes[1]), 2, saved.modes[2])

\* The move: the carriage with the longer way leads, the other one follows it
\* with a scale of its own.  When the move is refused the command ends there, and
\* the carriages stay linked, with the whole range of the rail that leads.
Linked(y, dl, lead) ==
  LET o == Other(lead)
      mode == IF dl[1] * dl[2] > 0 THEN "COPY" ELSE "MIRROR"
  IN  IF dl[1] = 0 \/ dl[2] = 0 THEN y
      ELSE [y EXCEPT !.dc[o] = override_axis_scaling(activate(@, mode, y.pos, y.pos), dl[o], dl[lead], y.pos)]

RestoreMove ==
  LET y1 == toggle_active_dc_rail(Y, 1)
      y2 == toggle_active_dc_rail(y1, 2)
      dl == <<saved.positions[1] - y1.pos, saved.positions[2] - y2.pos>>
      lead == IF Dist(dl[1], 0) >= Dist(dl[2], 0) THEN 1 ELSE 2
      to == saved.positions[lead]
      t == Linked(toggle_active_dc_rail(y2, lead), dl, lead)
  IN  IF to = t.pos \/ to \in t.limits[1]..t.limits[2]   \* manual_move
      THEN /\ at' = Moves(t.dc, t.pos, to)
           /\ Becomes(RestoreModes([t EXCEPT !.pos = to, !.dc = [i \in 1..2 |-> inactivate(t.dc[i], to)]]))
           /\ Selected
      ELSE Becomes(t) /\ at' = at /\ asked' = FALSE

cmd_RESTORE_DUAL_CARRIAGE_STATE(moves) ==
  /\ saved # <<>>
  /\ IF moves THEN RestoreMove ELSE Becomes(RestoreModes(Y)) /\ at' = at /\ Selected
  /\ Counted /\ UNCHANGED saved

Next ==
  \/ home \/ motor_off \/ cmd_SAVE_DUAL_CARRIAGE_STATE
  \/ \E i \in 1..2, mode \in {"PRIMARY", "COPY", "MIRROR"} : cmd_SET_DUAL_CARRIAGE(i, mode)
  \/ \E p \in limits[1]..limits[2] : move(p)
  \/ \E moves \in BOOLEAN : cmd_RESTORE_DUAL_CARRIAGE_STATE(moves)

Spec == Init /\ [][Next]_vars

-----------------------------------------------------------------------------
(* Properties                                                              *)
TypeOK ==
  /\ \A i \in 1..2 : dc[i].mode \in {"PRIMARY", "COPY", "MIRROR", "INACTIVE"} /\ dc[i].den > 0 /\ Dist(dc[i].scale, 0) <= dc[i].den
  /\ Cardinality({i \in 1..2 : dc[i].mode = "PRIMARY"}) <= 1

\* No change of mode loses a carriage: where the transforms say it stands is
\* where it is.
CarriagesAreKnown == Homed => \A i \in 1..2 : AxisPosition(dc[i], pos) = at[i]

\* Once modes were selected or restored with the carriages apart, no move and no
\* change of mode brings them closer than the safe distance.  A restore whose move
\* is refused loses this until modes are selected again.
CarriagesStayApart == Homed /\ asked => Apart >= SafeDist

\* A carriage that moves stays on its rail.
StaysOnRail == Homed => \A i \in 1..2 : at[i] \in Ranges[i][1]..Ranges[i][2]
=============================================================================
