-------------------------- MODULE MeshInterpolation --------------------------
(***************************************************************************)
(* ZMesh of extras/bed_mesh.py: how the matrix of the mesh is made from    *)
(* the probed one, by Lagrange or by cardinal splines, first along X in    *)
(* the rows that were probed, then along Y in every column.  The probed    *)
(* heights are a polynomial of the place; spline heights are counted in    *)
(* parts of 2 * mult^3 for each direction, the tension is Tension / 2.     *)
(***************************************************************************)
EXTENDS Integers, Sequences, SequencesExt

CONSTANTS Counts, Mults,   \* probe counts, and pps + 1
          Coefs, Tension

MeshInterpolationAssumption ==
  Counts \subseteq Nat \ (0..2) /\ Mults \subseteq Nat \ {0} /\ Coefs \subseteq Int /\ Tension \in Nat

VARIABLES algo, xc, yc, xm, ym,   \* algorithm, counts, multipliers
          bed,                    \* coefficients of the bed's shape
          grid, phase             \* mesh_matrix, how far it is

vars == <<algo, xc, yc, xm, ym, bed, grid, phase>>

Height(x, y) == bed[1] + bed[2] * x + bed[3] * y + bed[4] * x * y + bed[5] * x * x

\* Mutant: the last place is left out.
NodesShort(cnt, mult) == 0..((cnt - 1) * mult - 1)

Nodes(cnt, mult) == 0..((cnt - 1) * mult)

\* Heights of splines are fractions: Scale is their denominator.
ScaleOf(mult) == IF algo = "bicubic" THEN 2 * mult * mult * mult ELSE 1

-----------------------------------------------------------------------------
\* Mutant: a straight line between the two neighbours.
LagrangeOnce(z, cnt, mult, c) == z[c \div mult] + ((c % mult) * (z[(c \div mult) + 1] - z[c \div mult])) \div mult

\* _calc_lagrange: z[i] at place i * mult, over one denominator
Lagrange(z, cnt, mult, c) ==
  LET idx == [i \in 1..cnt |-> i - 1]
      others(i) == SelectSeq(idx, LAMBDA j : j # i)
      num(i) == FoldLeft(LAMBDA acc, j : acc * (c - j * mult), 1, others(i))
      den(i) == FoldLeft(LAMBDA acc, j : acc * (i - j) * mult, 1, others(i))
      all == FoldLeft(LAMBDA acc, i : acc * i * mult, 1, Tail(idx))   \* each den divides it
      sum == FoldLeft(LAMBDA acc, i : acc + z[i] * num(i) * (all \div den(i)), 0, idx)
  IN sum \div all

\* Mutant: the last segment has the control points of the one before.
CtlPtsLate(z, cnt, mult, c) ==
  LET k == c \div mult IN
  IF c < mult THEN <<z[0], z[0], z[1], z[2], c>>
  ELSE <<z[k - 1], z[k], z[k + 1], z[IF k + 2 < cnt THEN k + 2 ELSE k], c - k * mult>>

\* Mutant: inner segments begin like the first one.
CtlPtsFirst(z, cnt, mult, c) ==
  LET k == c \div mult  end == IF k + 2 < cnt THEN k + 2 ELSE k + 1
  IN <<z[k], z[k], z[k + 1], z[end], c - k * mult>>

\* _get_x_ctl_pts, _get_y_ctl_pts: z[k] is the height at k * mult
CtlPts(z, cnt, mult, c) ==
  LET last == cnt - 2 IN
  IF c < mult THEN <<z[0], z[0], z[1], z[2], c>>
  ELSE IF c > last * mult THEN <<z[last - 1], z[last], z[last + 1], z[last + 1], c - last * mult>>
  ELSE LET i == CHOOSE k \in 1..(last - 1) : k * mult < c /\ c < (k + 1) * mult
       IN <<z[i - 1], z[i], z[i + 1], z[i + 2], c - i * mult>>

\* _cardinal_spline, times 2 * mult^3
Spline(p, m) ==
  LET t == p[5]  t2 == t * t * m  t3 == t * t * t  one == m * m * m IN
  2 * p[2] * (2 * t3 - 3 * t2 + one) + 2 * p[3] * (3 * t2 - 2 * t3)
  + Tension * (p[3] - p[1]) * (t3 - 2 * t2 + t * m * m) + Tension * (p[4] - p[2]) * (t3 - t2)

IsProbed(c, mult) == c % mult = 0

\* Mutant: places that were probed stay at zero.
ProbedZero(z, c, mult) == 0

Probed(z, c, mult) == z[c \div mult] * ScaleOf(mult)

\* a line of the mesh from the heights of its probed places
Line(z, cnt, mult) ==
  [c \in Nodes(cnt, mult) |->
     IF IsProbed(c, mult) THEN Probed(z, c, mult)
     ELSE IF algo = "lagrange" THEN Lagrange(z, cnt, mult, c)
     ELSE Spline(CtlPts(z, cnt, mult, c), mult)]

-----------------------------------------------------------------------------
Init ==
  /\ algo \in {"lagrange", "bicubic"} /\ xc \in Counts /\ yc \in Counts /\ xm \in Mults /\ ym \in Mults
  /\ algo = "bicubic" => xc >= 4 /\ yc >= 4   \* _verify_algorithm
  /\ bed \in [1..5 -> Coefs] /\ grid = <<>> /\ phase = "probed"

\* the probed rows, keyed by their place along Y
SampleX ==
  /\ phase = "probed" /\ phase' = "rows"
  /\ grid' = [y \in 0..(yc - 1) |-> Line([k \in 0..(xc - 1) |-> Height(k * xm, y * ym)], xc, xm)]
  /\ UNCHANGED <<algo, xc, yc, xm, ym, bed>>

\* every column
SampleY ==
  /\ phase = "rows" /\ phase' = "mesh"
  /\ grid' = [x \in Nodes(xc, xm) |-> Line([k \in 0..(yc - 1) |-> grid[k][x]], yc, ym)]
  /\ UNCHANGED <<algo, xc, yc, xm, ym, bed>>

Next == SampleX \/ SampleY

Spec == Init /\ [][Next]_vars

-----------------------------------------------------------------------------
At(x, y) == grid[x][y]
Scale == ScaleOf(xm) * ScaleOf(ym)

TypeOK ==
  /\ phase \in {"probed", "rows", "mesh"}
  /\ phase = "mesh" => DOMAIN grid = 0..((xc - 1) * xm)
                      /\ \A x \in DOMAIN grid : grid[x] \in [0..((yc - 1) * ym) -> Int]

\* The mesh goes through the probed points.
ProbedPointsKept ==
  phase = "mesh" => \A i \in 0..(xc - 1), j \in 0..(yc - 1) :
     At(i * xm, j * ym) = Scale * Height(i * xm, j * ym)

\* Lagrange is exact for a bed whose shape is a polynomial of fewer terms
\* than points, in both directions.
LagrangeIsExact ==
  (phase = "mesh" /\ algo = "lagrange") =>
     \A x \in Nodes(xc, xm), y \in Nodes(yc, ym) : At(x, y) = Height(x, y)

\* Between inner points splines are exact for a plane.
SplinesKeepPlanes ==
  (phase = "mesh" /\ algo = "bicubic" /\ bed[5] = 0 /\ Tension = 1) =>
     \A x \in xm..((xc - 2) * xm), y \in ym..((yc - 2) * ym) : At(x, y) = Scale * Height(x, y)

\* Lines have no direction: the line of mirrored heights is the mirrored line.
LinesAreSymmetric ==
  phase = "rows" => \A y \in DOMAIN grid, c \in Nodes(xc, xm) :
     grid[y][c] = Line([k \in 0..(xc - 1) |-> Height((xc - 1 - k) * xm, y * ym)], xc, xm)[(xc - 1) * xm - c]
=============================================================================
