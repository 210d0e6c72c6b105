---------------------------- MODULE ExcludeObject ----------------------------
(***************************************************************************)
(* Skipping objects of a print (extras/exclude_object.py).  Once an object *)
(* is excluded a transform sits between the G-code and the machine: moves  *)
(* in an excluded object are swallowed while per axis offsets and the      *)
(* extrusion they would have made are kept; the first moves after it take  *)
(* the offsets back, and even out a filament that is retracted on one side *)
(* and not on the other.  A position has x (for X and Y), z and e; the     *)
(* G-code is that of a slicer: travel, hop, retract, unretract, extrude.   *)
(* One extruder; the tuning tower, which may keep the transform out, is    *)
(* not active.                                                             *)
(***************************************************************************)
EXTENDS Integers

CONSTANTS
  Objects,
  Initial,   \* extrusion moves that the transform lets pass at first (5)
  MaxMoves, MaxCommands

ExcludeObjectAssumption ==
  /\ Initial \in Nat /\ Initial >= 2 /\ {MaxMoves, MaxCommands} \subseteq Nat /\ "none" \notin Objects

VARIABLES
  g, retracted,  \* the G-code's position, and is its filament retracted?
  machine, top,  \* the machine's position, and the most filament it has pushed
  pushed, thin,  \* does this stretch, inside or outside of excluded objects, extrude, and did one not?
  current, excluded, t, count

vars == <<g, retracted, machine, top, pushed, thin, current, excluded, t, count>>

None == "none"
Most(a, b) == IF a > b THEN a ELSE b
At(x, z, e) == [x |-> x, z |-> z, e |-> e]
Zero == At(0, 0, 0)
Off == [on |-> FALSE, off |-> Zero, last |-> Zero, lastExtruded |-> Zero, lastExcluded |-> Zero,
        maxExtruded |-> 0, maxExcluded |-> 0, adj |-> 0, initial |-> Initial, inside |-> FALSE]

_register_transform ==
  IF t.on THEN t
  ELSE [on |-> TRUE, off |-> Zero, last |-> machine, lastExtruded |-> machine, lastExcluded |-> machine,
        maxExtruded |-> 0, maxExcluded |-> 0, adj |-> 0, initial |-> Initial, inside |-> t.inside]

_test_in_excluded_region == current \in excluded /\ t.initial = 0

\* The offsets end with the first move along their axis, the correction of the filament with the first that needs it.
LeavesX(off, new) == off.x # 0 /\ new.x # t.lastExcluded.x
LeavesZ(off, new) == off.z # 0 /\ new.z # t.lastExcluded.z

Corrects(off, new) == LeavesX(off, new) \/ new.e # t.lastExcluded.e

\* Mutant: the correction is forgotten when the move brings the head to another place.
Corrected_unevenly(off, adj, new) == IF Corrects(off, new) /\ ~LeavesX(off, new) THEN off.e + adj ELSE off.e
Corrected(off, adj, new) == IF Corrects(off, new) THEN off.e + adj ELSE off.e

Settled(off, adj, new) ==
  [off |-> At(IF LeavesX(off, new) THEN 0 ELSE off.x,
              IF LeavesX(off, new) \/ LeavesZ(off, new) THEN 0 ELSE off.z, Corrected(off, adj, new)),
   adj |-> IF Corrects(off, new) THEN 0 ELSE adj]

_normal_move(adj, new) ==
  LET s == Settled(t.off, adj, new) IN
  /\ t' = [on |-> TRUE, off |-> s.off, last |-> new, lastExtruded |-> new, lastExcluded |-> t.lastExcluded,
           maxExtruded |-> Most(t.maxExtruded, new.e), maxExcluded |-> t.maxExcluded, adj |-> s.adj,
           initial |-> IF t.initial > 0 /\ t.last.e # new.e THEN t.initial - 1 ELSE t.initial, inside |-> FALSE]
  /\ machine' = At(new.x - s.off.x, new.z - s.off.z, new.e - s.off.e)

\* Mutant: the extrusion that is skipped is not kept.
Skipped_flat(new) == new.e - t.lastExtruded.e
Skipped(new) == t.off.e + new.e - t.last.e

_ignore_move(new) ==
  /\ t' = [on |-> TRUE, off |-> At(new.x - t.lastExtruded.x, new.z - t.lastExtruded.z, Skipped(new)), last |-> new,
           lastExtruded |-> t.lastExtruded, lastExcluded |-> new, maxExtruded |-> t.maxExtruded,
           maxExcluded |-> Most(t.maxExcluded, new.e), adj |-> t.adj, initial |-> t.initial, inside |-> TRUE]
  /\ UNCHANGED machine

\* What the filament is retracted in the excluded objects beyond what it was before.
_move_from_excluded_region(new) ==
  _normal_move(t.maxExcluded - t.lastExcluded.e - (t.maxExtruded - t.lastExtruded.e), new)

move(new) ==
  IF ~t.on THEN machine' = new /\ UNCHANGED t
  ELSE IF _test_in_excluded_region THEN _ignore_move(new)
  ELSE IF t.inside THEN _move_from_excluded_region(new) ELSE _normal_move(t.adj, new)

Move ==
  /\ count.moves < MaxMoves
  /\ \E new \in {At(1 - g.x, g.z, g.e), At(g.x, 1 - g.z, g.e), At(1 - g.x, g.z, g.e + 1),
                 At(g.x, g.z, g.e - 1), At(g.x, g.z, g.e + 1)} :
       /\ new.e < g.e => ~retracted
       /\ new.e > g.e => (retracted <=> new.x = g.x)
       /\ move(new)
       /\ g' = new
       /\ retracted' = IF new.e = g.e \/ new.x # g.x THEN retracted ELSE new.e < g.e
  /\ top' = Most(top, machine'.e)
  /\ thin' = (thin \/ (t.inside # t'.inside /\ ~pushed))
  /\ pushed' = ((g'.e > g.e /\ g'.x # g.x) \/ (pushed /\ t.inside = t'.inside))
  /\ count' = [count EXCEPT !.moves = @ + 1]
  /\ UNCHANGED <<current, excluded>>

cmd_EXCLUDE_OBJECT_START ==
  \E o \in Objects \ {current} : current' = o /\ UNCHANGED <<g, retracted, machine, top, pushed, thin, excluded, t, count>>
cmd_EXCLUDE_OBJECT_END ==
  /\ current # None
  /\ current' = None
  /\ UNCHANGED <<g, retracted, machine, top, pushed, thin, excluded, t, count>>

_exclude_object(o) == t' = _register_transform /\ excluded' = excluded \cup {o}
_unexclude_object(o) == excluded' = excluded \ {o} /\ UNCHANGED t
cmd_EXCLUDE_OBJECT ==
  /\ count.commands < MaxCommands
  /\ \E o \in Objects : IF o \in excluded THEN _unexclude_object(o) ELSE _exclude_object(o)
  /\ count' = [count EXCEPT !.commands = @ + 1]
  /\ UNCHANGED <<g, retracted, machine, top, pushed, thin, current>>

\* The file is reset: the transform goes, the G-code's position is read back from the machine, and the next file
\* takes the filament as it finds it.
_reset_file ==
  /\ count.commands < MaxCommands
  /\ t.on
  /\ t' = Off
  /\ g' = machine
  /\ excluded' = {}
  /\ current' = None
  /\ retracted' = (top # machine.e)
  /\ count' = [count EXCEPT !.commands = @ + 1]
  /\ UNCHANGED <<machine, top, pushed, thin>>

Init ==
  /\ g = Zero
  /\ retracted = FALSE
  /\ machine = Zero
  /\ top = 0
  /\ pushed = TRUE
  /\ thin = FALSE
  /\ current = None
  /\ excluded = {}
  /\ t = Off
  /\ count = [moves |-> 0, commands |-> 0]

Next == Move \/ cmd_EXCLUDE_OBJECT_START \/ cmd_EXCLUDE_OBJECT_END \/ cmd_EXCLUDE_OBJECT \/ _reset_file

Spec == Init /\ [][Next]_vars

(***************************************************************************)
(* Properties                                                              *)
(***************************************************************************)

\* Outside of excluded objects, with no offset left, the head is where the G-code says, and while one is left the
\* G-code has not moved along that axis since (_normal_move, _ignore_move).
HeadIsWhereAsked ==
  ~t.inside => /\ machine.x = g.x \/ g.x = t.lastExcluded.x
               /\ machine.z = g.z \/ g.z = t.lastExcluded.z

\* With no correction pending, the filament is as far retracted as the G-code believes, as long as it extrudes in
\* every excluded object and between any two (_move_from_excluded_region, Settled).
FilamentIsPrimed == ~thin /\ ~t.inside /\ t.adj = 0 => top - machine.e = IF retracted THEN 1 ELSE 0

(***************************************************************************)
(* What a step keeps. The peak is the most filament that the G-code has    *)
(* asked for.                                                              *)
(***************************************************************************)

Positions == [x : Int, z : Int, e : Int]
Transforms == [on : BOOLEAN, off : Positions, last : Positions, lastExtruded : Positions, lastExcluded : Positions,
               maxExtruded : Int, maxExcluded : Int, adj : Int, initial : 0..Initial, inside : BOOLEAN]

TypeOK ==
  /\ g \in Positions /\ machine \in Positions /\ top \in Nat /\ t \in Transforms
  /\ {retracted, pushed, thin} \subseteq BOOLEAN

Missing == IF retracted THEN 1 ELSE 0
Peak == g.e + Missing

\* Without the transform the machine is where the G-code says; with it, outside, the offsets are what is between them,
\* and those of an axis end when it moves.
OffsetsAreTrue ==
  /\ ~t.on => ~t.inside /\ t.off = Zero /\ t.adj = 0
  /\ t.on => t.last = g
  /\ machine.e = g.e - t.off.e
  /\ ~t.inside => /\ machine.x = g.x - t.off.x /\ machine.z = g.z - t.off.z
                  /\ t.off.x # 0 => g.x = t.lastExcluded.x
                  /\ t.off.z # 0 => g.z = t.lastExcluded.z

\* The stretches know the peak once they have extruded, the first one after two moves of the filament.
PeaksAreKnown ==
  t.on => /\ t.maxExtruded <= Peak /\ t.maxExcluded <= Peak
          /\ t.inside => /\ t.lastExcluded = g /\ t.initial = 0 /\ t.maxExtruded - t.lastExtruded.e \in {0, 1}
                         /\ pushed => t.maxExcluded = Peak
          /\ ~t.inside => /\ t.lastExtruded = g
                          /\ t.initial = Initial - 1 => t.maxExtruded = Peak \/ retracted
                          /\ t.initial < Initial - 1 /\ pushed => t.maxExtruded = Peak

\* What the machine misses of the filament is what the G-code believes, but for a correction that is due.
FilamentIsCounted ==
  /\ Peak >= 0 /\ top >= machine.e
  /\ t.inside => t.adj = 0 /\ top = machine.e + t.maxExtruded - t.lastExtruded.e
  /\ ~t.inside => /\ top = machine.e + Missing - t.adj /\ Missing - t.adj \in {0, 1}
                  /\ t.adj # 0 => g.e = t.lastExcluded.e /\ ~pushed

IInv == TypeOK /\ OffsetsAreTrue /\ (~thin => PeaksAreKnown /\ FilamentIsCounted)
=============================================================================
