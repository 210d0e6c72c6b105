---------------------------- MODULE BedMeshPoints ----------------------------
(***************************************************************************)
(* BED_MESH_CALIBRATE of extras/bed_mesh.py: from the configuration and the*)
(* parameters to the points to probe, around faulty regions, in the order  *)
(* of the standard or of the rapid path, and from the results to the       *)
(* matrix.  A result is the point it was taken at: an entry of the matrix  *)
(* is the sequence of the points it is the average of.  Lengths are        *)
(* integers, MinDist is 1 mm.                                              *)
(***************************************************************************)
EXTENDS Integers, Sequences, SequencesExt, FiniteSets, FiniteSetsExt

CONSTANTS Configs,   \* [bed_mesh] sections, see Configured
          Requests,  \* parameters of the command, a subset of a configuration's fields
          MinDist,
          MaxRuns    \* bound: commands

BedMeshPointsAssumption == MinDist \in Nat \ {0} /\ MaxRuns \in Nat

VARIABLES
  orig,     \* orig_config, and what commands cannot change
  mesh,     \* mesh_config, mesh_min, mesh_max, radius, origin
  base, subs, zref,   \* ProbeManager's base_points, substitutes, zref_mode
  scan,     \* points that this run samples, in order
  results,  \* points sampled
  stage,    \* "idle", "probing", "failed", "built"
  matrix,   \* probed_matrix
  runs

vars == <<orig, mesh, base, subs, zref, scan, results, stage, matrix, runs>>

None == "none"
Nowhere == <<>>
Within(p, r) == r[1][1] <= p[1] /\ p[1] <= r[2][1] /\ r[1][2] <= p[2] /\ p[2] <= r[2][2]
Norm2(p) == p[1] * p[1] + p[2] * p[2]
Least(a, b) == IF a < b THEN a ELSE b
Greatest(a, b) == IF a > b THEN a ELSE b
CeilDiv(a, b) == (a + b - 1) \div b
IsRound == orig.radius # 0

-----------------------------------------------------------------------------
\* _verify_algorithm: the algorithm that is used, or None for an error
Verified(m) ==
  LET most == Greatest(m.xc, m.yc)  least == Least(m.xc, m.yc) IN
  IF m.pps = 0 THEN "direct"
  ELSE IF m.algo = "lagrange" /\ most > 6 THEN None
  ELSE IF m.algo = "bicubic" /\ least < 4 THEN IF most > 6 THEN None ELSE "lagrange"
  ELSE m.algo

\* _init_faulty_regions: no corner of one within another
Corners(r) == {<<x, y>> : x \in {r[1][1], r[2][1]}, y \in {r[1][2], r[2][2]}}
RegionsAccepted(rs) ==
  \A i, j \in DOMAIN rs : i # j => \A c \in Corners(rs[i]) : ~Within(c, rs[j])

-----------------------------------------------------------------------------
(* generate_points                                                           *)

Grid(m) ==
  LET xd == (m.hi[1] - m.lo[1]) \div (m.xc - 1)
      yd == (m.hi[2] - m.lo[2]) \div (m.yc - 1)
      r  == (m.xc \div 2) * xd
  IN IF m.radius # 0 THEN [dx |-> xd, dy |-> xd, lo |-> <<-r, -r>>, hi |-> <<r, r>>, close |-> yd]
     ELSE [dx |-> xd, dy |-> yd, lo |-> m.lo, hi |-> <<m.lo[1] + xd * (m.xc - 1), m.hi[2]>>, close |-> yd]

TooClose(m) == Grid(m).dx < MinDist \/ Grid(m).close < MinDist

RowX(m, i, j) == IF i % 2 = 0 THEN Grid(m).lo[1] + j * Grid(m).dx ELSE Grid(m).hi[1] - j * Grid(m).dx

Row(m, i) ==
  LET pts == [j \in 1..m.xc |-> <<RowX(m, i, j - 1), Grid(m).lo[2] + i * Grid(m).dy>>]
  IN IF m.radius = 0 THEN pts
     ELSE LET kept == SelectSeq(pts, LAMBDA p : Norm2(p) <= m.radius * m.radius)
          IN [k \in DOMAIN kept |-> <<m.origin[1] + kept[k][1], m.origin[2] + kept[k][2]>>]

BasePoints(m) == FlattenSeq([i \in 1..m.yc |-> Row(m, i - 1)])

ZrefMode(m, method) ==
  IF orig.zref = Nowhere \/ method = "manual" THEN "disabled"
  ELSE IF Within(orig.zref, <<m.lo, m.hi>>) THEN "in_mesh" ELSE "probe"

\* _process_faulty_regions: the points to probe instead of the point
Reversed(pts, i) == Cardinality({k \in 2..i : pts[k][2] # pts[k - 1][2]}) % 2 = 1

InMesh(m, p) ==
  IF m.radius = 0 THEN Within(p, <<Grid(m).lo, Grid(m).hi>>) ELSE Norm2(p) <= m.radius * m.radius

Around(m, pts, i) ==
  LET p   == pts[i]
      hit == {k \in DOMAIN orig.faulty : Within(p, orig.faulty[k])}
      r   == orig.faulty[Min(hit)]
      w   == <<r[1][1], p[2]>>  e == <<r[2][1], p[2]>>
      n   == <<<<p[1], r[1][2]>>, <<p[1], r[2][2]>>>>
      adj == IF Reversed(pts, i) THEN <<e>> \o n \o <<w>> ELSE <<w>> \o n \o <<e>>
  IN IF hit = {} THEN <<>> ELSE SelectSeq(adj, LAMBDA q : InMesh(m, q))

\* Mutant: only the first region is looked at.
FaultyFirst(pts) == {i \in DOMAIN pts : orig.faulty # <<>> /\ Within(pts[i], orig.faulty[1])}

Faulty(pts) == {i \in DOMAIN pts : \E k \in DOMAIN orig.faulty : Within(pts[i], orig.faulty[k])}

Unprobed(m, pts) == {i \in Faulty(pts) : Around(m, pts, i) = <<>>}

RefIsFaulty(z) == z = "probe" /\ \E k \in DOMAIN orig.faulty : Within(orig.zref, orig.faulty[k])

\* up to the first one that cannot be replaced
Substitutes(m, pts, z) ==
  [i \in {k \in Faulty(pts) : ~RefIsFaulty(z) /\ \A u \in Unprobed(m, pts) : k < u} |-> Around(m, pts, i)]

GenerateFails(m, method) ==
  \/ TooClose(m) \/ RefIsFaulty(ZrefMode(m, method)) \/ Unprobed(m, BasePoints(m)) # {}

\* Mutant: the reference point is not added.
StdPathAlone(pts, sub, z) ==
  FlattenSeq([i \in DOMAIN pts |-> IF i \in DOMAIN sub THEN sub[i] ELSE <<pts[i]>>])

\* get_std_path
StdPath(pts, sub, z) ==
  FlattenSeq([i \in DOMAIN pts |-> IF i \in DOMAIN sub THEN sub[i] ELSE <<pts[i]>>])
  \o (IF z = "probe" THEN <<orig.zref>> ELSE <<>>)

\* iter_rapid_path and _gen_faulty_path: what is sampled.  Between a turn and
\* four substitutes only three of them are.
Sampled(pts, sub, i) ==
  LET turn == i > 1 /\ pts[i][2] # pts[i - 1][2] IN
  IF i \notin DOMAIN sub THEN <<pts[i]>>
  ELSE IF ~IsRound /\ turn /\ Len(sub[i]) = 4 THEN SubSeq(sub[i], 1, 3)
  ELSE sub[i]

RapidSamples(pts, sub, z) ==
  FlattenSeq([i \in DOMAIN pts |-> Sampled(pts, sub, i)])
  \o (IF z = "probe" THEN <<orig.zref>> ELSE <<>>)

-----------------------------------------------------------------------------
(* update_config and set_adaptive_mesh                                       *)

Fields == {"xc", "yc", "pps", "algo", "lo", "hi", "radius", "origin"}

Restored == [f \in Fields |-> orig[f]]

\* Mutant: the margin is not held within the configured mesh.
ClampedNot(lo, hi) == <<lo, hi>>

Clamped(lo, hi) ==
  <<<<Greatest(lo[1], orig.lo[1]), Greatest(lo[2], orig.lo[2])>>,
    <<Least(hi[1], orig.hi[1]), Least(hi[2], orig.hi[2])>>>>

\* an adaptive mesh of a rectangular bed around the points of the objects
Adaptive(m, objects, margin) ==
  LET xs == {p[1] : p \in objects}  ys == {p[2] : p \in objects}
      box == Clamped(<<Min(xs) - margin, Min(ys) - margin>>, <<Max(xs) + margin, Max(ys) + margin>>)
      count(cnt, k) == CeilDiv(cnt * (box[2][k] - box[1][k]), orig.hi[k] - orig.lo[k])
      x == count(m.xc, 1)  y == count(m.yc, 2)
      least == IF Greatest(x, y) > 6 /\ Least(x, y) < 4 THEN 4 ELSE 3
  IN [m EXCEPT !.lo = box[1], !.hi = box[2], !.xc = Greatest(least, x), !.yc = Greatest(least, y)]

\* a round bed's count is one parameter; its adaptive mesh is left out
Accepted(r) ==
  IF IsRound THEN /\ DOMAIN r \cap {"lo", "hi", "objects"} = {}
                  /\ "xc" \in DOMAIN r => r.xc = r.yc
  ELSE DOMAIN r \cap {"radius", "origin"} = {}

Given(r) == DOMAIN r \ {"method", "objects", "margin"}

Updated(r) ==
  LET m == [f \in Fields |-> IF f \in Given(r) THEN r[f] ELSE Restored[f]]
      a == IF "objects" \in DOMAIN r THEN Adaptive(m, r.objects, r.margin) ELSE m
  IN IF Given(r) = {} /\ "objects" \notin DOMAIN r THEN [mesh |-> a, error |-> FALSE]
     ELSE [mesh |-> [a EXCEPT !.algo = IF Verified(a) = None THEN @ ELSE Verified(a)],
           error |-> Verified(a) = None]

-----------------------------------------------------------------------------
Init ==
  /\ orig \in {c \in Configs : RegionsAccepted(c.faulty)}
  /\ Verified(Restored) # None /\ mesh = [Restored EXCEPT !.algo = Verified(Restored)]
  /\ ~GenerateFails(mesh, "automatic")
  /\ base = BasePoints(mesh) /\ zref = ZrefMode(mesh, "automatic")
  /\ subs = Substitutes(mesh, base, zref)
  /\ scan = <<>> /\ results = <<>> /\ stage = "idle" /\ matrix = <<>> /\ runs = 0

\* Mutant: the mesh of before stays in place while the bed is probed.
ClearedNot == matrix

\* set_mesh(None)
Cleared == <<>>

\* cmd_BED_MESH_CALIBRATE, up to the first move
Calibrate(r) ==
  /\ stage # "probing" /\ Accepted(r) /\ runs < MaxRuns /\ runs' = runs + 1
  /\ matrix' = Cleared /\ results' = <<>> /\ mesh' = Updated(r).mesh
  /\ IF Updated(r).error \/ TooClose(mesh') THEN UNCHANGED <<base, subs, zref>>
     ELSE /\ base' = BasePoints(mesh') /\ zref' = ZrefMode(mesh', r.method)
          /\ subs' = Substitutes(mesh', base', zref')
  /\ IF Updated(r).error \/ GenerateFails(mesh', r.method) THEN stage' = "idle" /\ scan' = <<>>
     ELSE /\ stage' = "probing"
          /\ scan' = IF r.method = "rapid_scan" THEN RapidSamples(base', subs', zref')
                     ELSE StdPath(base', subs', zref')
  /\ UNCHANGED orig

\* run_probe at the next point; it may fail
ProbePoint ==
  /\ stage = "probing" /\ Len(results) < Len(scan)
  /\ \/ results' = Append(results, scan[Len(results) + 1]) /\ UNCHANGED stage
     \/ results' = <<>> /\ stage' = "idle"
  /\ UNCHANGED <<orig, mesh, base, subs, zref, scan, matrix, runs>>

-----------------------------------------------------------------------------
(* probe_finalize                                                            *)

\* Mutant: substituted points do not move the ones that follow.
ShiftNone(i) == 0

\* idx_offset
Shift(i) == FoldSet(LAMBDA k, sum : sum + Len(subs[k]) - 1, 0, {k \in DOMAIN subs : k < i})

Corrected(ps) ==
  [i \in 1..(Len(ps) - Shift(Len(base) + 1)) |->
     IF i \in DOMAIN subs THEN SubSeq(ps, i + Shift(i), i + Shift(i) + Len(subs[i]) - 1)
     ELSE <<ps[i + Shift(i)]>>]

\* rows by the order of the points
Placed(cs) ==
  LET put(rows, i) ==
        LET prev == base[Greatest(1, i - 1)]
            all  == IF base[i][2] # prev[2] THEN Append(rows, <<>>) ELSE rows
            row  == all[Len(all)]
        IN [all EXCEPT ![Len(all)] = IF base[i][1] > prev[1] THEN Append(row, cs[i]) ELSE <<cs[i]>> \o row]
  IN FoldLeft(put, <<<<>>>>, [i \in 1..Len(base) |-> i])

\* Mutant: both ends of a row get the same value.
FilledLeft(row) ==
  LET buf == (mesh.xc - Len(row)) \div 2 IN
  IF mesh.radius = 0 \/ buf <= 0 THEN row
  ELSE [k \in 1..buf |-> row[1]] \o row \o [k \in 1..buf |-> row[1]]

\* a round bed's rows are filled up to a square
Filled(row) ==
  LET buf == (mesh.xc - Len(row)) \div 2 IN
  IF mesh.radius = 0 \/ buf <= 0 THEN row
  ELSE [k \in 1..buf |-> row[1]] \o row \o [k \in 1..buf |-> row[Len(row)]]

Table(rows) == [k \in DOMAIN rows |-> Filled(rows[k])]

TableError(rows) ==
  \/ Len(rows) # mesh.yc
  \/ mesh.radius # 0 /\ \E k \in DOMAIN rows : Len(rows[k]) % 2 = 0
  \/ \E k \in DOMAIN rows : Len(Filled(rows[k])) # mesh.xc

Finalize ==
  LET ps == IF zref = "probe" THEN Front(results) ELSE results
      wrong == Len(ps) # Len(StdPath(base, subs, "disabled"))
      rows == Placed(Corrected(ps))
  IN /\ stage = "probing" /\ Len(results) = Len(scan)
     /\ IF wrong \/ TableError(rows) THEN stage' = "failed" /\ UNCHANGED matrix
        ELSE stage' = "built" /\ matrix' = Table(rows)
     /\ scan' = <<>> /\ results' = <<>>
     /\ UNCHANGED <<orig, mesh, base, subs, zref, runs>>

Next == (\E r \in Requests : Calibrate(r)) \/ ProbePoint \/ Finalize

Spec == Init /\ [][Next]_vars

-----------------------------------------------------------------------------
TypeOK ==
  /\ stage \in {"idle", "probing", "failed", "built"} /\ runs \in 0..MaxRuns
  /\ zref \in {"disabled", "in_mesh", "probe"} /\ DOMAIN subs \subseteq DOMAIN base
  /\ mesh.algo \in {"direct", "lagrange", "bicubic"}
  /\ \A i \in DOMAIN base : base[i][1] \in Int /\ base[i][2] \in Int
  /\ Len(results) <= Len(scan) /\ (stage = "built" <=> matrix # <<>>)

\* The height of each place of the mesh is the one probed there or, in a
\* faulty region, the average of the ones probed around it.
MatrixIsInPlace ==
  \A j \in DOMAIN matrix : \A i \in DOMAIN matrix[j] :
     LET at == <<Grid(mesh).lo[1] + (i - 1) * Grid(mesh).dx, Grid(mesh).lo[2] + (j - 1) * Grid(mesh).dy>>
     IN mesh.radius = 0 => \E k \in DOMAIN base :
          base[k] = at /\ matrix[j][i] = IF k \in DOMAIN subs THEN subs[k] ELSE <<at>>

\* On a round bed it is the nearest one of the row, for the corners.
RoundIsNearest ==
  \A j \in DOMAIN matrix : \A i \in DOMAIN matrix[j] :
     LET x == Grid(mesh).lo[1] + (i - 1) * Grid(mesh).dx
         y == Grid(mesh).lo[2] + (j - 1) * Grid(mesh).dy
         far(k) == (base[k][1] - mesh.origin[1] - x) * (base[k][1] - mesh.origin[1] - x)
         row == {k \in DOMAIN base : base[k][2] = mesh.origin[2] + y}
     IN mesh.radius # 0 => \E k \in row :
          /\ \A l \in row : far(k) <= far(l)
          /\ matrix[j][i] = IF k \in DOMAIN subs THEN subs[k] ELSE <<base[k]>>

\* Nothing is probed outside of the configured mesh, but the reference point.
StaysInMesh ==
  \A k \in DOMAIN scan : (mesh.radius = 0 /\ scan[k] # orig.zref) => Within(scan[k], <<orig.lo, orig.hi>>)

\* Nothing is probed inside of a faulty region.
AvoidsFaulty ==
  \A k \in DOMAIN scan, r \in DOMAIN orig.faulty :
     LET f == orig.faulty[r] IN
     ~(f[1][1] < scan[k][1] /\ scan[k][1] < f[2][1] /\ f[1][2] < scan[k][2] /\ scan[k][2] < f[2][2])

\* Probing every point gives a mesh.
ProbedBedHasMesh == stage # "failed"

\* The algorithm fits the number of points.
AlgorithmFits ==
  (stage = "probing" /\ mesh.pps > 0) =>
                       /\ mesh.algo = "bicubic" => Least(mesh.xc, mesh.yc) >= 4
                       /\ mesh.algo = "lagrange" => Greatest(mesh.xc, mesh.yc) <= 6
=============================================================================
