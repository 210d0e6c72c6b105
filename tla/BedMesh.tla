------------------------------- MODULE BedMesh -------------------------------
(***************************************************************************)
(* The transform of extras/bed_mesh.py between the G-code and the tool     *)
(* head: fade, offsets, the split of long moves, and the profiles that     *)
(* load, save and remove meshes.  The bed is a line along X; a mesh is the *)
(* heights of its nodes.  Heights and positions are integers; the tool     *)
(* head's Z is counted in parts of 1/Fade of a unit.                       *)
(***************************************************************************)
EXTENDS Integers, Sequences, SequencesExt, FiniteSets, FiniteSetsExt

CONSTANTS Names, Meshes,         \* profiles, and what probing may give
          FadeStart, Fade,       \* fade_start, fade_dist
          FadeTargets,           \* base_fade_target: a number, or Average
          NodeDist,              \* mesh_x_dist; heights are multiples of it
          CheckDist, Delta,      \* move_check_distance, split_delta_z * Fade
          Xs, Zs, Offsets,       \* positions and offsets of commands
          MaxCommands            \* bound: commands

Average == 99           \* no fade_target given
Flat == <<>>            \* no heights: no profile
NoMesh == [heights |-> Flat, name |-> "none"]

BedMeshAssumption ==
  /\ {Fade, NodeDist, CheckDist, Delta} \subseteq Nat \ {0} /\ FadeStart \in Int
  /\ \A m \in Meshes : Len(m) >= 2 /\ \A i \in DOMAIN m : m[i] % NodeDist = 0
  /\ Xs \cup Zs \cup Offsets \subseteq Int /\ MaxCommands \in Nat

VARIABLES
  base,       \* base_fade_target
  mesh,       \* z_mesh: its heights and name, or none
  shift,      \* mesh_offsets
  target,     \* fade_target
  tool,       \* tool_offset
  last,       \* last_position
  head,       \* the tool head's position: x and z * Fade
  path,       \* what the last move sent: places and heights of the offset
  profiles,   \* profiles of this session
  pending,    \* sections changed for SAVE_CONFIG
  status,     \* profile_name of the status
  n

vars == <<base, mesh, shift, target, tool, last, head, path, profiles, pending, status, n>>

Max2(a, b) == IF a > b THEN a ELSE b
Min2(a, b) == IF a < b THEN a ELSE b
Constrain(v, lo, hi) == Min2(hi, Max2(lo, v))
Abs(v) == Max2(v, -v)
FadeEnd == FadeStart + Fade
Heights(m) == {m[i] : i \in DOMAIN m}

\* ZMesh.calc_z: the segment, and the height on it
Index(m, x) == Constrain((x \div NodeDist) + 1, 1, Len(m) - 1)

CalcZ(m, x) ==
  LET i == Index(m, x)
      t == Constrain(x - (i - 1) * NodeDist, 0, NodeDist)
  IN m[i] + (t * (m[i + 1] - m[i])) \div NodeDist

\* a fraction, so that equal ones are equal
Frac(a, b) ==
  LET g == Max({k \in 1..Abs(b) : a % k = 0 /\ b % k = 0})  s == IF b < 0 THEN -1 ELSE 1
  IN <<(s * a) \div g, (s * b) \div g>>

-----------------------------------------------------------------------------
(* Tool head to G-code: get_position                                         *)

\* Mutant: the factor is the one of the tool head's height.
FadeFactorAtHead(z, adj, t) == <<Constrain(Fade * FadeEnd - z, 0, Fade * Fade), Fade * Fade>>

\* the factor by algebra, a fraction
FadeFactor(z, adj, t) ==
  LET a == Fade * (FadeEnd + t) - z  b == Fade * (Fade - adj) IN
  IF b > 0 THEN <<Constrain(a, 0, b), b>> ELSE <<Constrain(-a, 0, -b), -b>>

Position(h, m, t, ofs, tl) ==
  IF m = NoMesh THEN [x |-> h.x, z |-> Frac(h.z - Fade * t, Fade)]
  ELSE LET high == CalcZ(m.heights, h.x + ofs)
           adj == high - t
           fz  == h.z + Fade * tl
           f   == IF Min2(fz, fz - Fade * high) >= Fade * FadeEnd THEN <<0, 1>>
                  ELSE IF Max2(fz, fz - Fade * high) >= Fade * FadeStart THEN FadeFactor(fz, adj, t)
                  ELSE <<1, 1>>
       IN [x |-> h.x, z |-> Frac((h.z - Fade * t) * f[2] - Fade * f[1] * adj, Fade * f[2])]

\* reset_last_position, and what it makes of last_position
Now(m, t, ofs, tl) == Position(head, m, t, ofs, tl)

-----------------------------------------------------------------------------
(* G-code to tool head: move                                                 *)

\* get_z_factor * Fade
ZFactor(z) == Constrain(FadeEnd - (z + tool), 0, Fade)

\* _calc_z_offset * Fade
ZOffset(x, f) == f * (CalcZ(mesh.heights, x + shift) - target) + Fade * target

\* Mutant: heights are compared with the place before.
LastHeightBefore(cuts, before) == before

\* self.z_offset: the height at the last cut
LastHeight(cuts, before) == cuts[Len(cuts)][2]

\* split(): the places where a move is cut
Cuts(x0, x1, f) ==
  LET dir   == IF x1 < x0 THEN -1 ELSE 1
      count == IF x1 = x0 THEN 0 ELSE (Abs(x1 - x0) - 1) \div CheckDist
      visit(cuts, k) ==
        LET x == x0 + dir * k * CheckDist
            z == LastHeight(cuts, ZOffset(x - dir * CheckDist, f))
        IN IF Abs(ZOffset(x, f) - z) >= Delta THEN Append(cuts, <<x, ZOffset(x, f)>>) ELSE cuts
  IN Append(FoldLeft(visit, <<<<x0, ZOffset(x0, f)>>>>, [k \in 1..count |-> k]), <<x1, ZOffset(x1, f)>>)

Command == n < MaxCommands /\ n' = n + 1

Move(x, z) ==
  /\ Command
  /\ LET f == ZFactor(z) IN
     IF mesh = NoMesh \/ f = 0 THEN head' = [x |-> x, z |-> Fade * (z + target)] /\ path' = <<>>
     ELSE LET cuts == Cuts(last.x, x, f)
          IN head' = [x |-> x, z |-> Fade * z + cuts[Len(cuts)][2]] /\ path' = cuts
  /\ last' = [x |-> x, z |-> Frac(z, 1)]
  /\ UNCHANGED <<base, mesh, shift, target, tool, profiles, pending, status>>

-----------------------------------------------------------------------------
(* set_mesh                                                                  *)

Mean(m) == FoldSeq(LAMBDA h, sum : h + sum, 0, m) \div Len(m)

Target(m) == IF base = Average THEN Mean(m) ELSE base

OutOfFade(m) == Fade <= Max2(Abs(Min(Heights(m))), Abs(Max(Heights(m))))

Refused(m) ==
  \/ base # Average /\ Target(m) # 0 /\ Target(m) \notin Min(Heights(m))..Max(Heights(m))
  \/ OutOfFade(m)

\* Mutant: without a mesh the target stays.
TargetOfKept(m) == IF m = NoMesh THEN target ELSE Target(m.heights)

TargetOf(m) == IF m = NoMesh THEN 0 ELSE Target(m.heights)

\* after an error gcode_move resets its position: by gcode:command_error
SetMesh(m) ==
  /\ shift' = 0
  /\ IF m # NoMesh /\ Refused(m.heights)
     THEN mesh' = NoMesh /\ target' = 0 /\ UNCHANGED <<tool, status>>
     ELSE /\ mesh' = m /\ target' = TargetOf(m) /\ tool' = 0
          /\ status' = m.name
  /\ last' = Now(mesh', target', shift', tool') /\ path' = <<>> /\ UNCHANGED <<base, head>>

Clear == Command /\ SetMesh(NoMesh) /\ UNCHANGED <<profiles, pending>>

\* BED_MESH_CALIBRATE's probe_finalize, which saves to the profile named
Probed(h, name) ==
  /\ Command /\ SetMesh([heights |-> h, name |-> name])
  /\ IF mesh' = NoMesh THEN UNCHANGED <<profiles, pending>>
     ELSE profiles' = [profiles EXCEPT ![name] = h] /\ pending' = [pending EXCEPT ![name] = h]

LoadProfile(name) ==
  /\ Command /\ profiles[name] # Flat
  /\ SetMesh([heights |-> profiles[name], name |-> name]) /\ UNCHANGED <<profiles, pending>>

SaveProfile(name) ==
  /\ Command /\ mesh # NoMesh
  /\ profiles' = [profiles EXCEPT ![name] = mesh.heights]
  /\ pending' = [pending EXCEPT ![name] = mesh.heights]
  /\ UNCHANGED <<base, mesh, shift, target, tool, last, head, path, status>>

\* Mutant: a profile is removed from this session only.
RemovedOnly(name) == pending

Removed(name) == [pending EXCEPT ![name] = Flat]

RemoveProfile(name) ==
  /\ Command /\ profiles[name] # Flat
  /\ profiles' = [profiles EXCEPT ![name] = Flat] /\ pending' = Removed(name)
  /\ UNCHANGED <<base, mesh, shift, target, tool, last, head, path, status>>

\* Mutant: the position of the G-code is not set anew.
OffsetLastKept(ofs, tl) == last

OffsetLast(ofs, tl) == Now(mesh, target, ofs, tl)

\* BED_MESH_OFFSET
SetOffset(ofs, tl) ==
  /\ Command /\ mesh # NoMesh /\ shift' = ofs /\ tool' = tl /\ last' = OffsetLast(ofs, tl) /\ path' = <<>>
  /\ UNCHANGED <<base, mesh, target, head, profiles, pending, status>>

Init ==
  /\ base \in FadeTargets /\ mesh = NoMesh /\ shift = 0 /\ target = 0 /\ tool = 0
  /\ head \in {[x |-> x, z |-> Fade * z] : x \in Xs, z \in Zs} /\ last = Now(NoMesh, 0, 0, 0)
  /\ path = <<>> /\ profiles \in [Names -> {Flat} \cup Meshes] /\ pending = profiles
  /\ status = NoMesh.name /\ n = 0

Next ==
  \/ (\E x \in Xs, z \in Zs : Move(x, z)) \/ Clear \/ (\E o, t \in Offsets : SetOffset(o, t))
  \/ \E name \in Names : LoadProfile(name) \/ SaveProfile(name) \/ RemoveProfile(name) \/ \E h \in Meshes : Probed(h, name)

Spec == Init /\ [][Next]_vars

-----------------------------------------------------------------------------
TypeOK ==
  /\ n \in 0..MaxCommands /\ base \in FadeTargets /\ target \in Int /\ {shift, tool} \subseteq Offsets
  /\ mesh = NoMesh \/ (mesh.name \in Names /\ ~Refused(mesh.heights))
  /\ mesh = NoMesh => target = 0
  /\ DOMAIN profiles = Names /\ status \in Names \cup {NoMesh.name}

\* get_position gives back the position of the last move, whatever the fade,
\* the mesh and its offsets did to it.
PositionIsLast == Position(head, mesh, target, shift, tool) = last

\* A split move follows the bed: at the places that were checked, the line
\* between two cuts is no farther from the bed than two steps of the split
\* and the slope of the bed.
Steepest == IF mesh = NoMesh THEN 0
            ELSE Max({Abs(mesh.heights[i + 1] - mesh.heights[i]) : i \in 1..(Len(mesh.heights) - 1)})

FollowsBed ==
  \A c \in 1..(Len(path) - 1) :
     LET a == path[c]  b == path[c + 1]
         dir == IF b[1] < a[1] THEN -1 ELSE 1
         len == Abs(b[1] - a[1])
     IN \A k \in 1..(len \div CheckDist) :
          LET x == a[1] + dir * k * CheckDist
              bed == ZOffset(x, ZFactor(last.z[1]))
          IN Abs(len * (bed - a[2]) - k * CheckDist * (b[2] - a[2]))
               <= len * (Delta + (Fade * Steepest * CheckDist) \div NodeDist)

\* What SAVE_CONFIG will keep is what the profiles of the session are.
PendingMatches == pending = profiles
=============================================================================
