------------------------------- MODULE MCPrinter ----------------------------
(***************************************************************************)
(* The parts of the printer whose properties are proved, for every value   *)
(* of their constants: heaters, G-code positions, excluded objects, saved  *)
(* files, clients of the API, the idle timeout and the calibration tools.  *)
(* The heaters keep the names of their module; the others take the slots,  *)
(* and leave the heaters as they start.  The lemmas come first, part by    *)
(* part, then the run, its properties and the theorems.                    *)
(***************************************************************************)
EXTENDS Heaters, Parts, Sequences, SequenceTheorems, TLAPS

CONSTANTS
  ApiClients, Plain, Deep, Keys, Items, NoObjects, MaxBlocked, MaxChanges, MaxRequests, \* of the API server
  IdleTimeouts, IdleTime, IdleMoves,                                                    \* of the idle timeout
  OptionSections, VariableNames, ConfigSets, ConfigSaves, ConfigEdits, DiskFaults,      \* of the files
  Extruders, CoordValues, FlowFactors, FeedRates, AxisLimit, PullLimit, SmallPull, BigPull, MoveCommands, \* of positions
  PrintObjects, FirstPulls, ObjectMoves, ObjectCommands,                                \* of excluded objects
  ProbePoints, BedScrews, ProbeTop, ZBob, BisectMax, TiltErrors, TiltTolerance, TiltRetries, DriftEnd, DriftStep,
  GoodMoves, ProbeCommands                                                              \* of the calibration tools

all == <<vars, part, slots>>

-----------------------------------------------------------------------------
(* The calibration tools, whatever the points, screws, heights, retries and *)
(* temperatures: a lemma for each function of the state that a command      *)
(* consists of, then the commands.                                          *)

MP == INSTANCE ManualProbe WITH
  Points <- ProbePoints, Screws <- BedScrews, Top <- ProbeTop, Bob <- ZBob, Bisect <- BisectMax, Errors <- TiltErrors,
  Tolerance <- TiltTolerance, MaxRetries <- TiltRetries, Hot <- DriftEnd, Step <- DriftStep, ScrewsBeside <- FALSE,
  MaxMoves <- GoodMoves, MaxCommands <- ProbeCommands, s <- s1, n <- s2

\* What the invariant looks at is as it was, but for the height and the exception.
ProbeKept(a, b) ==
  /\ b = [f \in MP!Fields |-> b[f]] /\ b.z \in 0 .. ProbeTop /\ b.moves \in Nat /\ b.exc \in {MP!None, "error", "crash"}
  /\ b.cmds = a.cmds /\ b.helper = a.helper /\ b.status = a.status /\ b.points = a.points /\ b.retry = a.retry
  /\ b.applied = a.applied /\ b.screws = a.screws /\ b.tp = a.tp /\ b.temp = a.temp

\* Command c is that of o, and nothing else has changed.
ProbeRegistered(a, b, c, o) ==
  /\ MP!Shape(b) /\ b.exc = MP!None /\ \A d \in MP!Temporary : b.cmds[d] = IF d = c THEN o ELSE a.cmds[d]
  /\ b.helper = a.helper /\ b.status = a.status /\ b.points = a.points /\ b.retry = a.retry /\ b.z = a.z
  /\ b.applied = a.applied /\ b.screws = a.screws /\ b.tp = a.tp /\ b.temp = a.temp

LEMMA ProbeConstants ==
  ASSUME MP!ManualProbeAssumption
  PROVE  /\ ProbePoints \in Nat /\ ProbePoints >= 1 /\ BedScrews \in Nat /\ ProbeTop \in Nat /\ ZBob \in Nat /\ TiltRetries \in Nat /\ DriftEnd \in Nat
         /\ DriftStep \in Nat /\ GoodMoves \in Nat /\ ProbeCommands \in Nat /\ TiltTolerance \in Nat /\ TiltErrors \subseteq Nat
BY DEF MP!ManualProbeAssumption

LEMMA ProbeKeptIsSound ==
  ASSUME NEW a, NEW b, MP!Sound(a), ProbeKept(a, b), a.exc = "crash" => b.exc = "crash"
  PROVE  MP!Sound(b)
<1>1. MP!Shape(b) BY DEF MP!Sound, MP!Shape, ProbeKept
<1>2. MP!TiltIsLevel(b) BY DEF MP!Sound, MP!TiltIsLevel, ProbeKept
<1>3. a.exc # "crash" => MP!RoundsAreCounted(b) /\ MP!PointIsDue(b)
  BY DEF MP!Sound, MP!RoundsAreCounted, MP!PointIsDue, ProbeKept
<1>4. a.exc # "crash" => MP!Owners(b)
  BY DEF MP!Sound, MP!Owners, MP!ManualHasCommands, MP!ScrewsHaveCommands, MP!DriftHasCommands, MP!AbortIsOfOne, ProbeKept
<1> QED BY <1>1, <1>2, <1>3, <1>4 DEF MP!Sound

LEMMA ProbeKeptOfKept ==
  ASSUME NEW a, NEW b, NEW c, ProbeKept(a, b), ProbeKept(b, c)
  PROVE  ProbeKept(a, c)
BY DEF ProbeKept

LEMMA ProbeKeptOfItself ==
  ASSUME NEW a, MP!Shape(a)
  PROVE  ProbeKept(a, a)
BY DEF MP!Shape, ProbeKept

\* Whether all goes well, an error or a crash.
LEMMA ProbeRaises ==
  ASSUME NEW a, MP!Shape(a), NEW e \in {"error", "crash"}, NEW b, b = MP!Raise(a, e)
  PROVE  ProbeKept(a, b) /\ b.exc = (IF a.exc = MP!None THEN e ELSE a.exc)
BY DEF MP!Shape, ProbeKept, MP!Raise, MP!Ok, MP!Fields, MP!None

LEMMA ProbeMoves ==
  ASSUME NEW a, MP!Shape(a), NEW to, NEW b, b = MP!Move(a, to)
  PROVE  /\ ProbeKept(a, b) /\ b.clients = a.clients
         /\ a.exc # MP!None => b = a
         /\ b.exc = a.exc \/ (a.exc = MP!None /\ b.exc = "error")
<1>1. CASE a.exc # MP!None
  <2>1. b = a BY <1>1 DEF MP!Move, MP!Ok
  <2> QED BY <1>1, <2>1, ProbeKeptOfItself
<1>2. CASE a.exc = MP!None /\ a.homed /\ a.moves > 0 /\ to \in 0 .. ProbeTop
  <2>1. b = [a EXCEPT !.z = to, !.moves = @ - 1] BY <1>2 DEF MP!Move, MP!Ok
  <2>2. b = [f \in MP!Fields |-> b[f]] /\ b.z = to BY <2>1 DEF MP!Shape, MP!Fields
  <2>3. b.moves \in Nat
    <3>1. b.moves = a.moves - 1 BY <2>1 DEF MP!Shape, MP!Fields
    <3> QED BY <3>1, <1>2 DEF MP!Shape
  <2>4. /\ b.exc = a.exc /\ b.cmds = a.cmds /\ b.helper = a.helper /\ b.status = a.status /\ b.points = a.points
        /\ b.retry = a.retry /\ b.applied = a.applied /\ b.screws = a.screws /\ b.tp = a.tp /\ b.temp = a.temp
        /\ b.clients = a.clients
    BY <2>1 DEF MP!Shape, MP!Fields
  <2> QED BY <1>2, <2>2, <2>3, <2>4 DEF ProbeKept
<1>3. CASE a.exc = MP!None /\ ~ (a.homed /\ a.moves > 0 /\ to \in 0 .. ProbeTop)
  <2>1. b = [a EXCEPT !.exc = "error"] BY <1>3 DEF MP!Move, MP!Ok, MP!Raise
  <2> QED BY <1>3, <2>1 DEF MP!Shape, ProbeKept, MP!Fields, MP!None
<1> QED BY <1>1, <1>2, <1>3

LEMMA ProbeIsShaped ==
  ASSUME NEW a, NEW b, MP!Shape(a), ProbeKept(a, b)
  PROVE  MP!Shape(b)
BY DEF MP!Shape, ProbeKept

LEMMA ProbeVerifies ==
  ASSUME NEW a, MP!Shape(a), NEW b, b = MP!verify_no_manual_probe(a)
  PROVE  /\ ProbeKept(a, b)
         /\ b.exc = MP!None => a.exc = MP!None /\ a.cmds["ACCEPT"] = MP!None /\ b = a
         /\ b.exc = a.exc \/ (a.exc = MP!None /\ b.exc = "error")
BY DEF MP!Shape, ProbeKept, MP!verify_no_manual_probe, MP!Raise, MP!Ok, MP!Fields, MP!None

LEMMA ProbeRegisters ==
  ASSUME NEW a, MP!Shape(a), NEW c \in MP!Temporary, NEW o \in {"manual", "screws", "temp"}, a.exc = MP!None, a.cmds[c] = MP!None,
         NEW b, b = MP!Register(a, c, o)
  PROVE  ProbeRegistered(a, b, c, o)
<1>1. b = [a EXCEPT !.cmds[c] = o] BY DEF MP!Register, MP!Ok
<1>2. b.exc = MP!None BY <1>1 DEF MP!Shape, MP!Fields
<1>3. b.cmds = [a.cmds EXCEPT ![c] = o] BY <1>1 DEF MP!Shape, MP!Fields
<1>4. /\ b.helper = a.helper /\ b.status = a.status /\ b.points = a.points /\ b.retry = a.retry /\ b.z = a.z
      /\ b.applied = a.applied /\ b.screws = a.screws /\ b.tp = a.tp /\ b.temp = a.temp /\ b.moves = a.moves
  BY <1>1 DEF MP!Shape, MP!Fields
<1>5. b = [f \in MP!Fields |-> b[f]] BY <1>1 DEF MP!Shape, MP!Fields
<1>6. b.cmds \in [MP!Temporary -> {MP!None, "manual", "screws", "temp"}] BY <1>3 DEF MP!Shape
<1>7. MP!Shape(b) BY <1>2, <1>4, <1>5, <1>6 DEF MP!Shape
<1>8. \A d \in MP!Temporary : b.cmds[d] = IF d = c THEN o ELSE a.cmds[d] BY <1>3 DEF MP!Shape
<1> QED BY <1>2, <1>4, <1>7, <1>8 DEF ProbeRegistered

\* A command that is there, or an exception on its way.
LEMMA ProbeRegistersNot ==
  ASSUME NEW a, MP!Shape(a), NEW c \in MP!Temporary, NEW o, a.exc # MP!None \/ a.cmds[c] # MP!None, NEW b, b = MP!Register(a, c, o)
  PROVE  ProbeKept(a, b) /\ b.exc = IF a.exc = MP!None THEN "crash" ELSE a.exc
<1>1. CASE a.exc # MP!None
  <2>1. b = a BY <1>1 DEF MP!Register, MP!Ok
  <2> QED BY <1>1, <2>1, ProbeKeptOfItself
<1>2. CASE a.exc = MP!None /\ a.cmds[c] # MP!None
  <2>1. b = MP!Raise(a, "crash") BY <1>2 DEF MP!Register, MP!Ok
  <2> QED BY <2>1, <1>2, ProbeRaises
<1> QED BY <1>1, <1>2

LEMMA ProbeReports ==
  ASSUME NEW a, MP!Shape(a), NEW b, b = MP!report_z_status(a)
  PROVE  /\ MP!Shape(b) /\ b.status.active = TRUE
         /\ b.cmds = a.cmds /\ b.helper = a.helper /\ b.points = a.points /\ b.retry = a.retry /\ b.z = a.z
         /\ b.applied = a.applied /\ b.screws = a.screws /\ b.tp = a.tp /\ b.temp = a.temp /\ b.exc = a.exc
<1>1. PICK lo, up : b = [a EXCEPT !.status = [active |-> TRUE, z |-> a.z, lower |-> lo, upper |-> up]]
  BY Zenon DEF MP!report_z_status
<1> QED BY <1>1 DEF MP!Shape, MP!Fields

\* Nobody waits for a person: the manual probe is there for who starts it.
LEMMA ProbeIsTaken ==
  ASSUME NEW a, MP!Shape(a), MP!TiltIsLevel(a), MP!RoundsAreCounted(a), MP!DriftHasCommands(a), a.exc = MP!None, a.screws.state = MP!None,
         \A c \in {"ACCEPT", "ABORT", "TESTZ", "ADJUSTED"} : a.cmds[c] = MP!None,
         NEW client \in MP!Clients \ {MP!None}, a.tp.active <=> client = "temp",
         client = "points" => a.points.tool # MP!None /\ ~ a.points.auto /\ a.points.count < ProbePoints,
         a.points.auto => a.points.tool # MP!None,
         NEW b, b = MP!ManualProbeHelper(a, client)
  PROVE  MP!Sound(b) /\ b.exc = MP!None
<1>0. "ACCEPT" \in MP!Temporary /\ "ABORT" \in MP!Temporary /\ "TESTZ" \in MP!Temporary BY DEF MP!Temporary
<1>1. PICK r1 : r1 = MP!Register(MP!verify_no_manual_probe(a), "ACCEPT", "manual") OBVIOUS
<1>2. PICK r2 : r2 = MP!Register(r1, "ABORT", "manual") OBVIOUS
<1>3. PICK r3 : r3 = MP!Register(r2, "TESTZ", "manual") OBVIOUS
<1>4. PICK h : h = [client |-> client, start |-> r3.z, past |-> {}] OBVIOUS
<1>5. PICK w : w = [r3 EXCEPT !.moved = FALSE, !.helper = h] OBVIOUS
<1>6. MP!verify_no_manual_probe(a) = a BY DEF MP!verify_no_manual_probe
<1>7. ProbeRegistered(a, r1, "ACCEPT", "manual")
  <2>1. r1 = MP!Register(a, "ACCEPT", "manual") BY <1>1, <1>6
  <2> QED BY <1>0, <2>1, ProbeRegisters
<1>8. r1.cmds["ACCEPT"] = "manual" /\ \A c \in MP!Temporary \ {"ACCEPT"} : r1.cmds[c] = a.cmds[c]
  BY <1>0, <1>7 DEF ProbeRegistered
<1>9. ProbeRegistered(r1, r2, "ABORT", "manual")
  <2>1. MP!Shape(r1) /\ r1.exc = MP!None /\ r1.cmds["ABORT"] = MP!None BY <1>0, <1>7, <1>8 DEF ProbeRegistered
  <2> QED BY <1>0, <1>2, <2>1, ProbeRegisters
<1>10. r2.cmds["ABORT"] = "manual" /\ \A c \in MP!Temporary \ {"ABORT"} : r2.cmds[c] = r1.cmds[c]
  BY <1>0, <1>9 DEF ProbeRegistered
<1>11. ProbeRegistered(r2, r3, "TESTZ", "manual")
  <2>1. MP!Shape(r2) /\ r2.exc = MP!None /\ r2.cmds["TESTZ"] = MP!None BY <1>0, <1>8, <1>9, <1>10 DEF ProbeRegistered
  <2> QED BY <1>0, <1>3, <2>1, ProbeRegisters
<1>12. r3.cmds["TESTZ"] = "manual" /\ \A c \in MP!Temporary \ {"TESTZ"} : r3.cmds[c] = r2.cmds[c]
  BY <1>0, <1>11 DEF ProbeRegistered
<1>13. /\ r3.cmds["ACCEPT"] = "manual" /\ r3.cmds["ABORT"] = "manual" /\ r3.cmds["TESTZ"] = "manual"
       /\ \A c \in MP!Temporary \ {"ACCEPT", "ABORT", "TESTZ"} : r3.cmds[c] = a.cmds[c]
  BY <1>0, <1>8, <1>10, <1>12
<1>23. /\ MP!Shape(r3) /\ r3.exc = MP!None /\ r3.points = a.points /\ r3.retry = a.retry /\ r3.applied = a.applied
       /\ r3.screws = a.screws /\ r3.tp = a.tp
  BY <1>7, <1>9, <1>11 DEF ProbeRegistered
<1>14. b = MP!report_z_status(w)
  <2>1. MP!Ok(r3) BY <1>23 DEF MP!Ok
  <2> QED BY <2>1, <1>1, <1>2, <1>3, <1>4, <1>5, Zenon DEF MP!ManualProbeHelper
<1>15. h \in [client : MP!Clients, start : 0 .. ProbeTop, past : SUBSET (0 .. ProbeTop)] /\ h.client = client /\ h # MP!Idle
  BY <1>4, <1>23 DEF MP!Shape, MP!Idle
<1>16. /\ MP!Shape(w) /\ w.helper = h /\ w.cmds = r3.cmds /\ w.points = a.points /\ w.retry = a.retry /\ w.exc = MP!None
       /\ w.applied = a.applied /\ w.screws = a.screws /\ w.tp = a.tp
  <2>1. w = [f \in MP!Fields |-> w[f]] BY <1>5, <1>23 DEF MP!Shape, MP!Fields
  <2>2. w.helper = h BY <1>5, <1>23 DEF MP!Shape, MP!Fields
  <2>3. /\ w.cmds = r3.cmds /\ w.points = r3.points /\ w.retry = r3.retry /\ w.exc = r3.exc /\ w.applied = r3.applied
        /\ w.screws = r3.screws /\ w.tp = r3.tp /\ w.z = r3.z /\ w.moves = r3.moves /\ w.temp = r3.temp
    BY <1>5, <1>23 DEF MP!Shape, MP!Fields
  <2>4. MP!Shape(w) BY <1>23, <1>15, <2>1, <2>2, <2>3 DEF MP!Shape
  <2> QED BY <1>23, <2>2, <2>3, <2>4
<1>17. /\ MP!Shape(b) /\ b.status.active = TRUE /\ b.helper = h /\ b.cmds = r3.cmds /\ b.points = a.points
       /\ b.retry = a.retry /\ b.exc = MP!None /\ b.applied = a.applied /\ b.screws = a.screws /\ b.tp = a.tp
  <2>1. ASSUME NEW c, c = MP!report_z_status(w) PROVE MP!Shape(c) /\ c.status.active = TRUE /\ c.helper = h /\ c.cmds = r3.cmds
           /\ c.points = a.points /\ c.retry = a.retry /\ c.exc = MP!None /\ c.applied = a.applied /\ c.screws = a.screws
           /\ c.tp = a.tp
    BY <2>1, <1>16, ProbeReports
  <2> QED BY <2>1, <1>14
<1>18. MP!TiltIsLevel(b) /\ MP!RoundsAreCounted(b) BY <1>17 DEF MP!TiltIsLevel, MP!RoundsAreCounted
<1>19. MP!PointIsDue(b) BY <1>17, <1>15 DEF MP!PointIsDue
<1>20. MP!ManualHasCommands(b) BY <1>17, <1>15, <1>13 DEF MP!ManualHasCommands
<1>21. MP!ScrewsHaveCommands(b) /\ MP!DriftHasCommands(b)
  BY <1>17, <1>13 DEF MP!ScrewsHaveCommands, MP!DriftHasCommands, MP!Temporary, MP!None
<1>22. MP!AbortIsOfOne(b) BY <1>17, <1>15, <1>13 DEF MP!AbortIsOfOne, MP!None
<1> QED BY <1>17, <1>18, <1>19, <1>20, <1>21, <1>22 DEF MP!Sound, MP!Owners

\* Of who starts it, but the calibration of the drift, which has commands already.
LEMMA ProbeIsStarted ==
  ASSUME NEW a, MP!Sound(a), NEW client \in MP!Clients \ {MP!None, "temp"},
         client = "points" => a.points.tool # MP!None /\ ~ a.points.auto /\ a.points.count < ProbePoints,
         NEW b, b = MP!ManualProbeHelper(a, client)
  PROVE  MP!Sound(b)
<1>0. "ACCEPT" \in MP!Temporary /\ "ABORT" \in MP!Temporary /\ "TESTZ" \in MP!Temporary /\ MP!Shape(a) BY DEF MP!Temporary, MP!Sound
<1>1. PICK v : v = MP!verify_no_manual_probe(a) OBVIOUS
<1>2. PICK r1 : r1 = MP!Register(v, "ACCEPT", "manual") OBVIOUS
<1>3. PICK r2 : r2 = MP!Register(r1, "ABORT", "manual") OBVIOUS
<1>4. PICK r3 : r3 = MP!Register(r2, "TESTZ", "manual") OBVIOUS
<1>5. ~ MP!Ok(r3) => b = r3 BY <1>1, <1>2, <1>3, <1>4, Zenon DEF MP!ManualProbeHelper
<1>6. /\ ProbeKept(a, v) /\ (v.exc = a.exc \/ (a.exc = MP!None /\ v.exc = "error"))
      /\ v.exc = MP!None => v = a /\ a.exc = MP!None /\ a.cmds["ACCEPT"] = MP!None
  BY <1>0, <1>1, ProbeVerifies
<1>7. MP!Sound(v) BY <1>6, ProbeKeptIsSound DEF MP!None
<1>8. CASE v.exc # MP!None
  <2>1. r1 = v /\ r2 = v /\ r3 = v BY <1>8, <1>2, <1>3, <1>4 DEF MP!Register, MP!Ok
  <2> QED BY <1>5, <1>7, <1>8, <2>1 DEF MP!Ok
<1>9. CASE v.exc = MP!None /\ ~ a.tp.active
  <2>1. a.exc = MP!None /\ a.cmds["ACCEPT"] = MP!None BY <1>6, <1>9
  <2>2. MP!Shape(a) /\ MP!ManualHasCommands(a) /\ MP!ScrewsHaveCommands(a) /\ MP!AbortIsOfOne(a) BY <2>1 DEF MP!Sound, MP!Owners, MP!None
  <2>3. a.screws.state = MP!None BY <2>1, <2>2 DEF MP!ScrewsHaveCommands, MP!None
  <2>4. a.cmds["TESTZ"] = MP!None /\ a.cmds["ADJUSTED"] = MP!None
    BY <2>1, <2>2, <2>3 DEF MP!ManualHasCommands, MP!ScrewsHaveCommands, MP!None
  <2>5. a.cmds["ABORT"] = MP!None BY <1>9, <2>1, <2>2 DEF MP!AbortIsOfOne
  <2>6. MP!TiltIsLevel(a) /\ MP!RoundsAreCounted(a) /\ MP!DriftHasCommands(a) /\ (a.points.auto => a.points.tool # MP!None)
    BY <2>1 DEF MP!Sound, MP!Owners, MP!PointIsDue, MP!None
  <2> QED BY <1>0, <1>9, <2>1, <2>3, <2>4, <2>5, <2>6, ProbeIsTaken
<1>10. CASE v.exc = MP!None /\ a.tp.active
  <2>1. a.exc = MP!None /\ a.cmds["ACCEPT"] = MP!None /\ v = a BY <1>6, <1>10
  <2>2. a.cmds["ABORT"] = "temp" BY <2>1, <1>10 DEF MP!Sound, MP!Owners, MP!AbortIsOfOne, MP!None
  <2>3. ProbeRegistered(a, r1, "ACCEPT", "manual") BY <1>0, <1>2, <2>1, ProbeRegisters
  <2>4. MP!Shape(r1) /\ r1.cmds["ABORT"] # MP!None BY <1>0, <2>2, <2>3 DEF MP!None, ProbeRegistered
  <2>5. r2.exc = "crash" /\ ProbeKept(r1, r2)
    <3>1. ProbeKept(r1, r2) /\ r2.exc = IF r1.exc = MP!None THEN "crash" ELSE r1.exc
      BY <1>0, <1>3, <2>4, ProbeRegistersNot
    <3> QED BY <2>3, <3>1 DEF ProbeRegistered
  <2>6. r3 = r2 BY <1>4, <2>5 DEF MP!Register, MP!Ok, MP!None
  <2>7. b = r2 /\ MP!Shape(r2) BY <1>5, <2>4, <2>5, <2>6, ProbeIsShaped DEF MP!Ok, MP!None
  <2>8. MP!TiltIsLevel(b) BY <2>3, <2>5, <2>7 DEF ProbeKept, MP!TiltIsLevel, MP!Sound, ProbeRegistered
  <2> QED BY <2>5, <2>7, <2>8 DEF MP!Sound
<1> QED BY <1>8, <1>9, <1>10

\* Nobody waits for a person with the manual probe, and no command to answer is there.
ProbeQuiet(a) ==
  /\ MP!Shape(a) /\ MP!TiltIsLevel(a) /\ MP!RoundsAreCounted(a) /\ MP!PointIsDue(a) /\ a.helper = MP!Idle /\ a.status.active = FALSE
  /\ a.cmds["ACCEPT"] = MP!None /\ a.cmds["TESTZ"] = MP!None /\ a.cmds["ADJUSTED"] = MP!None

LEMMA ProbeQuietIsSound ==
  ASSUME NEW a, ProbeQuiet(a), a.screws.state = MP!None, MP!DriftHasCommands(a),
         a.cmds["ABORT"] = IF a.tp.active THEN "temp" ELSE MP!None
  PROVE  MP!Sound(a)
<1>1. MP!Shape(a) /\ MP!TiltIsLevel(a) /\ MP!RoundsAreCounted(a) /\ MP!PointIsDue(a) BY DEF ProbeQuiet
<1>2. MP!ManualHasCommands(a) BY DEF ProbeQuiet, MP!ManualHasCommands, MP!None
<1>3. MP!ScrewsHaveCommands(a) BY DEF ProbeQuiet, MP!ScrewsHaveCommands, MP!None
<1>4. MP!AbortIsOfOne(a) BY DEF ProbeQuiet, MP!AbortIsOfOne, MP!None, MP!Idle
<1> QED BY <1>1, <1>2, <1>3, <1>4 DEF MP!Sound, MP!Owners

LEMMA ProbeIsQuiet ==
  ASSUME NEW a, MP!Sound(a), a.exc = MP!None, a.cmds["ACCEPT"] = MP!None
  PROVE  /\ ProbeQuiet(a) /\ a.screws.state = MP!None /\ MP!DriftHasCommands(a)
         /\ a.cmds["ABORT"] = IF a.tp.active THEN "temp" ELSE MP!None
<1>1. /\ MP!Shape(a) /\ MP!TiltIsLevel(a) /\ MP!RoundsAreCounted(a) /\ MP!PointIsDue(a) /\ MP!ManualHasCommands(a) /\ MP!ScrewsHaveCommands(a)
      /\ MP!DriftHasCommands(a) /\ MP!AbortIsOfOne(a)
  BY DEF MP!Sound, MP!Owners, MP!None
<1>2. a.helper = MP!Idle /\ a.status.active = FALSE /\ a.cmds["TESTZ"] = MP!None BY <1>1 DEF MP!ManualHasCommands, MP!None
<1>3. a.screws.state = MP!None /\ a.cmds["ADJUSTED"] = MP!None BY <1>1 DEF MP!ScrewsHaveCommands, MP!None
<1>4. a.cmds["ABORT"] = IF a.tp.active THEN "temp" ELSE MP!None BY <1>1 DEF MP!AbortIsOfOne, MP!None
<1> QED BY <1>1, <1>2, <1>3, <1>4 DEF ProbeQuiet

LEMMA ProbeQuietKept ==
  ASSUME NEW a, NEW b, ProbeQuiet(a), ProbeKept(a, b)
  PROVE  ProbeQuiet(b)
<1>1. MP!Shape(b) BY ProbeIsShaped DEF ProbeQuiet
<1>2. MP!TiltIsLevel(b) /\ MP!RoundsAreCounted(b) /\ MP!PointIsDue(b)
  BY DEF ProbeQuiet, ProbeKept, MP!TiltIsLevel, MP!RoundsAreCounted, MP!PointIsDue
<1> QED BY <1>1, <1>2 DEF ProbeQuiet, ProbeKept

LEMMA ProbeUnregisters ==
  ASSUME NEW a, MP!Shape(a), NEW cs, NEW b, b = MP!Unregister(a, cs)
  PROVE  /\ MP!Shape(b) /\ b.exc = a.exc /\ \A d \in MP!Temporary : b.cmds[d] = IF d \in cs THEN MP!None ELSE a.cmds[d]
         /\ b.helper = a.helper /\ b.status = a.status /\ b.points = a.points /\ b.retry = a.retry /\ b.z = a.z
         /\ b.applied = a.applied /\ b.screws = a.screws /\ b.tp = a.tp /\ b.temp = a.temp /\ b.moves = a.moves
<1>1. b = [a EXCEPT !.cmds = [c \in MP!Temporary |-> IF c \in cs THEN MP!None ELSE @[c]]] BY Zenon DEF MP!Unregister
<1>2. PICK f : f = [c \in MP!Temporary |-> IF c \in cs THEN MP!None ELSE a.cmds[c]] OBVIOUS
<1>3. b = [a EXCEPT !.cmds = f] BY <1>1, <1>2
<1>4. b.cmds = f /\ b = [x \in MP!Fields |-> b[x]] BY <1>3 DEF MP!Shape, MP!Fields
<1>5. /\ b.helper = a.helper /\ b.status = a.status /\ b.points = a.points /\ b.retry = a.retry /\ b.z = a.z
      /\ b.applied = a.applied /\ b.screws = a.screws /\ b.tp = a.tp /\ b.temp = a.temp /\ b.moves = a.moves
      /\ b.exc = a.exc
  BY <1>3 DEF MP!Shape, MP!Fields
<1>6. f \in [MP!Temporary -> {MP!None, "manual", "screws", "temp"}] BY <1>2 DEF MP!Shape
<1>7. \A d \in MP!Temporary : b.cmds[d] = IF d \in cs THEN MP!None ELSE a.cmds[d] BY <1>2, <1>4
<1> QED BY <1>4, <1>5, <1>6, <1>7 DEF MP!Shape

\* The tilt may have been applied, and nothing else has changed.
ProbeChecked(a, b, res) ==
  /\ MP!Shape(b) /\ (b.applied => a.applied \/ res = "done") /\ b.exc = a.exc /\ b.cmds = a.cmds /\ b.helper = a.helper
  /\ b.status = a.status /\ b.points = a.points /\ b.retry = a.retry /\ b.screws = a.screws /\ b.tp = a.tp /\ b.temp = a.temp

LEMMA ProbeChecks ==
  ASSUME NEW a, MP!Shape(a), NEW res, NEW b, b = MP!check_retry_result(a, res)
  PROVE  ProbeChecked(a, b, res)
<1>1. PICK v \in BOOLEAN : v <=> (a.applied \/ res = "done") OBVIOUS
<1>2. b = [a EXCEPT !.applied = v]
  <2>1. a.applied \in BOOLEAN BY DEF MP!Shape
  <2>2. v = (a.applied \/ res = "done") BY <1>1, <2>1, Zenon
  <2> QED BY <2>2, Zenon DEF MP!check_retry_result
<1>3. b = [f \in MP!Fields |-> b[f]] /\ b.applied = v BY <1>2 DEF MP!Shape, MP!Fields
<1>4. /\ b.exc = a.exc /\ b.cmds = a.cmds /\ b.helper = a.helper /\ b.status = a.status /\ b.points = a.points
      /\ b.retry = a.retry /\ b.screws = a.screws /\ b.tp = a.tp /\ b.temp = a.temp /\ b.z = a.z /\ b.moves = a.moves
  BY <1>2 DEF MP!Shape, MP!Fields
<1>5. MP!Shape(b) BY <1>3, <1>4 DEF MP!Shape
<1> QED BY <1>1, <1>3, <1>4, <1>5 DEF ProbeChecked

\* A round that was probed: what the tool makes of it.
LEMMA ProbeInvokes ==
  ASSUME MP!ManualProbeAssumption, NEW a, MP!Shape(a), MP!TiltIsLevel(a), MP!RoundsAreCounted(a), a.exc = MP!None,
         a.points.tool \in MP!Tools, NEW e \in Nat, NEW r, r = MP!_invoke_callback(a, e)
  PROVE  /\ MP!Shape(r.s) /\ MP!TiltIsLevel(r.s) /\ r.s.exc \in {MP!None, "error"} /\ r.s.points = a.points
         /\ r.s.cmds = a.cmds /\ r.s.helper = a.helper /\ r.s.status = a.status /\ r.s.screws = a.screws /\ r.s.tp = a.tp
         /\ r.s.exc = MP!None /\ r.res = "retry" => MP!RoundsAreCounted(r.s)
<1>1. CASE a.points.tool = "z_tilt"
  <2>1. r = MP!ZTiltFinalize(a, e) BY <1>1 DEF MP!_invoke_callback
  <2>2. PICK b : b = MP!adjust_steppers(a) OBVIOUS
  <2>3. ProbeKept(a, b) /\ (b.exc = MP!None \/ b.exc = "error") BY <2>2, ProbeMoves DEF MP!adjust_steppers
  <2>4. MP!Shape(b) /\ ~ b.applied BY <1>1, <2>3, ProbeIsShaped DEF MP!RoundsAreCounted, ProbeKept
  <2>5. PICK q : q = MP!check_increase(b, e) OBVIOUS
  <2>6. q \in [current : Nat, previous : Nat, increasing : Int] /\ q.current = b.retry.current /\ q.previous = e
    <3>1. PICK i : i = IF b.retry.previous # 0 /\ e > b.retry.previous THEN b.retry.increasing + 1
                       ELSE IF b.retry.increasing > 0 THEN b.retry.increasing - 1 ELSE b.retry.increasing
      OBVIOUS
    <3>2. q = [b.retry EXCEPT !.previous = e, !.increasing = i] BY <2>5, <3>1, Zenon DEF MP!check_increase
    <3>3. b.retry \in [current : Nat, previous : Nat, increasing : Int] BY <2>4 DEF MP!Shape
    <3>4. b.retry.increasing \in Int BY <3>3
    <3>5. i \in Int BY <3>1, <3>4
    <3> QED BY <3>2, <3>3, <3>5
  <2>7. PICK c : c = [b EXCEPT !.retry = q] OBVIOUS
  <2>8. /\ MP!Shape(c) /\ c.retry = q /\ c.applied = FALSE /\ c.exc = b.exc /\ c.points = a.points
        /\ c.cmds = a.cmds /\ c.helper = a.helper /\ c.status = a.status /\ c.screws = a.screws /\ c.tp = a.tp
    BY <2>3, <2>4, <2>6, <2>7 DEF MP!Shape, MP!Fields, ProbeKept
  <2>9. PICK d : d = [c EXCEPT !.retry.current = @ + 1] OBVIOUS
  <2>10. /\ MP!Shape(d) /\ d.retry.current = a.retry.current + 1 /\ d.applied = FALSE /\ d.exc = b.exc /\ d.points = a.points
         /\ d.cmds = a.cmds /\ d.helper = a.helper /\ d.status = a.status /\ d.screws = a.screws /\ d.tp = a.tp
    <3>1. PICK m : m = [c.retry EXCEPT !.current = @ + 1] OBVIOUS
    <3>2. d = [c EXCEPT !.retry = m] BY <2>9, <3>1
    <3>3. m \in [current : Nat, previous : Nat, increasing : Int] /\ m.current = a.retry.current + 1
      BY <3>1, <2>8, <2>6, <2>3 DEF ProbeKept
    <3> QED BY <3>2, <3>3, <2>8 DEF MP!Shape, MP!Fields
  <2>11. TiltRetries \in Nat /\ TiltTolerance \in Nat /\ a.retry.current \in Nat /\ a.retry.current <= TiltRetries
    BY <1>1, ProbeConstants DEF MP!Shape, MP!RoundsAreCounted
  <2>12. ~ a.applied /\ b.exc \in {MP!None, "error"} /\ c.applied = FALSE /\ d.applied = FALSE
    BY <1>1, <2>3, <2>8, <2>10 DEF MP!RoundsAreCounted
  <2>13. CASE ~ MP!Ok(b) \/ TiltRetries = 0
    <3>1. r = [s |-> b, res |-> MP!None] BY <2>1, <2>2, <2>13, Zenon DEF MP!ZTiltFinalize
    <3>2. r.s = b /\ r.res = MP!None BY <3>1
    <3> QED BY <3>2, <2>3, <2>4, <2>12 DEF ProbeKept, MP!TiltIsLevel, MP!None
  <2>14. CASE MP!Ok(b) /\ TiltRetries # 0 /\ c.retry.increasing > 1
    <3>1. r = [s |-> MP!Raise(c, "error"), res |-> MP!None] BY <2>1, <2>2, <2>5, <2>7, <2>14, Zenon DEF MP!ZTiltFinalize
    <3>2. r.s = MP!Raise(c, "error") /\ r.res = MP!None BY <3>1
    <3>3. ProbeKept(c, r.s) /\ r.s.exc = "error" BY <3>2, <2>8, <2>14, ProbeRaises DEF MP!Ok
    <3>4. MP!Shape(r.s) BY <3>3, <2>8, ProbeIsShaped
    <3> QED BY <3>2, <3>3, <3>4, <2>8 DEF ProbeKept, MP!TiltIsLevel, MP!None
  <2>15. CASE MP!Ok(b) /\ TiltRetries # 0 /\ ~ (c.retry.increasing > 1) /\ e <= TiltTolerance
    <3>1. r = [s |-> MP!check_retry_result(c, "done"), res |-> "done"]
      BY <2>1, <2>2, <2>5, <2>7, <2>15, Zenon DEF MP!ZTiltFinalize
    <3>2. r.s = MP!check_retry_result(c, "done") /\ r.res = "done" BY <3>1
    <3>3. /\ MP!Shape(r.s) /\ r.s.retry = q /\ r.s.exc = b.exc /\ r.s.points = a.points
          /\ r.s.cmds = a.cmds /\ r.s.helper = a.helper /\ r.s.status = a.status /\ r.s.screws = a.screws /\ r.s.tp = a.tp
      BY <3>2, <2>8, ProbeChecks DEF ProbeChecked
    <3>4. MP!TiltIsLevel(r.s) BY <3>3, <2>6, <2>11, <2>15, <2>3 DEF MP!TiltIsLevel, ProbeKept
    <3> QED BY <3>2, <3>3, <3>4, <2>12
  <2>16. CASE /\ MP!Ok(b) /\ TiltRetries # 0 /\ ~ (c.retry.increasing > 1) /\ ~ (e <= TiltTolerance)
              /\ c.retry.current + 1 > TiltRetries
    <3>1. r = [s |-> MP!Raise(d, "error"), res |-> MP!None] BY <2>1, <2>2, <2>5, <2>7, <2>9, <2>16, Zenon DEF MP!ZTiltFinalize
    <3>2. r.s = MP!Raise(d, "error") /\ r.res = MP!None BY <3>1
    <3>3. ProbeKept(d, r.s) /\ r.s.exc = "error" BY <3>2, <2>10, <2>16, ProbeRaises DEF MP!Ok
    <3>4. MP!Shape(r.s) BY <3>3, <2>10, ProbeIsShaped
    <3> QED BY <3>2, <3>3, <3>4, <2>10 DEF ProbeKept, MP!TiltIsLevel, MP!None
  <2>17. CASE /\ MP!Ok(b) /\ TiltRetries # 0 /\ ~ (c.retry.increasing > 1) /\ ~ (e <= TiltTolerance)
              /\ ~ (c.retry.current + 1 > TiltRetries)
    <3>1. r = [s |-> MP!check_retry_result(d, "retry"), res |-> "retry"]
      BY <2>1, <2>2, <2>5, <2>7, <2>9, <2>17, Zenon DEF MP!ZTiltFinalize
    <3>2. r.s = MP!check_retry_result(d, "retry") /\ r.res = "retry" BY <3>1
    <3>3. /\ MP!Shape(r.s) /\ r.s.retry = d.retry /\ ~ r.s.applied /\ r.s.exc = b.exc /\ r.s.points = a.points
          /\ r.s.cmds = a.cmds /\ r.s.helper = a.helper /\ r.s.status = a.status /\ r.s.screws = a.screws /\ r.s.tp = a.tp
      BY <3>2, <2>10, ProbeChecks DEF ProbeChecked
    <3>4. r.s.retry.current = a.retry.current + 1 /\ c.retry.current = a.retry.current
      BY <3>3, <2>10, <2>8, <2>6, <2>3 DEF ProbeKept
    <3>5. MP!TiltIsLevel(r.s) /\ MP!RoundsAreCounted(r.s) BY <3>3, <3>4, <2>11, <2>17 DEF MP!TiltIsLevel, MP!RoundsAreCounted
    <3> QED BY <3>3, <3>5, <2>12
  <2> QED BY <2>13, <2>14, <2>15, <2>16, <2>17
<1>2. CASE a.points.tool = "screws_tilt"
  <2>1. r = MP!ScrewsTiltFinalize(a, e) BY <1>2 DEF MP!_invoke_callback
  <2>2. r.s = (IF e > TiltTolerance THEN MP!Raise(a, "error") ELSE a) /\ r.res = MP!None BY <2>1 DEF MP!ScrewsTiltFinalize
  <2>3. ProbeKept(a, r.s) /\ r.s.exc \in {MP!None, "error"} BY <2>2, ProbeRaises, ProbeKeptOfItself
  <2>4. MP!Shape(r.s) BY <2>3, ProbeIsShaped
  <2>5. MP!TiltIsLevel(r.s) BY <2>3 DEF MP!TiltIsLevel, ProbeKept
  <2> QED BY <2>2, <2>3, <2>4, <2>5 DEF ProbeKept, MP!None
<1>3. CASE a.points.tool = "delta"
  <2>1. r = MP!DeltaFinalize(a, e) BY <1>3 DEF MP!_invoke_callback
  <2>2. r.s = [a EXCEPT !.saved = @ \cup {"delta_calibrate"}] /\ r.res = MP!None BY <2>1 DEF MP!DeltaFinalize
  <2>3. ProbeKept(a, r.s) /\ r.s.exc = MP!None
    <3>1. PICK v : r.s = [a EXCEPT !.saved = v] BY <2>2
    <3> QED BY <3>1 DEF MP!Shape, MP!Fields, ProbeKept
  <2>4. MP!Shape(r.s) BY <2>3, ProbeIsShaped
  <2>5. MP!TiltIsLevel(r.s) BY <2>3 DEF MP!TiltIsLevel, ProbeKept
  <2> QED BY <2>2, <2>3, <2>4, <2>5 DEF ProbeKept, MP!None
<1> QED BY <1>1, <1>2, <1>3 DEF MP!Tools

LEMMA ProbeOwnersKept ==
  ASSUME NEW a, NEW b, MP!Owners(a), b.cmds = a.cmds, b.helper = a.helper, b.status = a.status, b.screws = a.screws, b.tp = a.tp
  PROVE  MP!Owners(b)
BY DEF MP!Owners, MP!ManualHasCommands, MP!ScrewsHaveCommands, MP!DriftHasCommands, MP!AbortIsOfOne

\* ProbePointsHelper goes on to the next point, begins another round or ends.
LEMMA ProbePointStarts ==
  ASSUME MP!ManualProbeAssumption, NEW a, MP!Sound(a), a.exc = MP!None, a.helper = MP!Idle, a.points.tool \in MP!Tools, ~ a.points.auto,
         NEW e \in Nat, NEW b, b = MP!_manual_probe_start(a, e)
  PROVE  MP!Sound(b)
<1>1. PICK m : m = MP!Move(a, ProbeTop) OBVIOUS
<1>2. MP!Shape(a) BY DEF MP!Sound
<1>3. ProbeKept(a, m) /\ (m.exc = MP!None \/ m.exc = "error") BY <1>1, <1>2, ProbeMoves
<1>4. MP!Sound(m) /\ m.helper = MP!Idle /\ m.points = a.points BY <1>3, ProbeKeptIsSound DEF ProbeKept, MP!None
<1>5. ProbePoints \in Nat /\ ProbePoints >= 1 /\ a.points \in [tool : MP!Tools \cup {MP!None}, auto : BOOLEAN, count : 0 .. ProbePoints]
  BY <1>2, ProbeConstants DEF MP!Shape
<1>6. CASE m.exc # MP!None
  <2>1. b = m BY <1>1, <1>6, Zenon DEF MP!_manual_probe_start, MP!Ok
  <2> QED BY <2>1, <1>4
<1>7. PICK r : r = MP!_invoke_callback(m, e) OBVIOUS
<1>8. ASSUME NEW c, MP!Sound(c), c.helper = MP!Idle, c.points.tool \in MP!Tools, ~ c.points.auto, c.points.count < ProbePoints,
             b = MP!ManualProbeHelper(MP!Move(c, ProbeTop), "points")
      PROVE  MP!Sound(b)
  <2>1. PICK d : d = MP!Move(c, ProbeTop) OBVIOUS
  <2>2. MP!Shape(c) BY <1>8 DEF MP!Sound
  <2>3. ProbeKept(c, d) /\ (d.exc = c.exc \/ (c.exc = MP!None /\ d.exc = "error")) BY <2>1, <2>2, ProbeMoves
  <2>4. MP!Sound(d) BY <1>8, <2>3, ProbeKeptIsSound DEF MP!None
  <2>5. d.points.tool # MP!None /\ ~ d.points.auto /\ d.points.count < ProbePoints BY <1>8, <2>3 DEF ProbeKept, MP!Tools, MP!None
  <2>6. b = MP!ManualProbeHelper(d, "points") /\ "points" \in MP!Clients \ {MP!None, "temp"} BY <1>8, <2>1 DEF MP!Clients, MP!None
  <2> QED BY <2>4, <2>5, <2>6, ProbeIsStarted
<1>9. CASE m.exc = MP!None /\ ~ (m.points.count >= ProbePoints)
  <2>1. b = MP!ManualProbeHelper(MP!Move(m, ProbeTop), "points") BY <1>1, <1>9, Zenon DEF MP!_manual_probe_start, MP!Ok
  <2>2. m.points.tool \in MP!Tools /\ ~ m.points.auto /\ m.points.count < ProbePoints BY <1>4, <1>5, <1>9
  <2> QED BY <2>1, <2>2, <1>4, <1>8
<1>10. m.exc = MP!None =>
         /\ MP!Shape(r.s) /\ MP!TiltIsLevel(r.s) /\ r.s.exc \in {MP!None, "error"} /\ r.s.points = a.points
         /\ MP!Owners(r.s) /\ r.s.helper = MP!Idle
         /\ r.s.exc = MP!None /\ r.res = "retry" => MP!RoundsAreCounted(r.s)
  <2> HAVE m.exc = MP!None
  <2>1. MP!Shape(m) /\ MP!TiltIsLevel(m) /\ MP!RoundsAreCounted(m) /\ m.points.tool \in MP!Tools /\ MP!Owners(m) BY <1>4 DEF MP!Sound, MP!None
  <2>2. /\ MP!Shape(r.s) /\ MP!TiltIsLevel(r.s) /\ r.s.exc \in {MP!None, "error"} /\ r.s.points = m.points
        /\ r.s.cmds = m.cmds /\ r.s.helper = m.helper /\ r.s.status = m.status /\ r.s.screws = m.screws /\ r.s.tp = m.tp
        /\ r.s.exc = MP!None /\ r.res = "retry" => MP!RoundsAreCounted(r.s)
    BY <2>1, <1>7, ProbeInvokes
  <2>3. MP!Owners(r.s) BY <2>1, <2>2, ProbeOwnersKept
  <2> QED BY <2>2, <2>3, <1>4
<1>11. CASE m.exc = MP!None /\ m.points.count >= ProbePoints /\ (r.s.exc # MP!None \/ r.res # "retry")
  <2>1. b = [r.s EXCEPT !.points.tool = MP!None] BY <1>1, <1>7, <1>11, Zenon DEF MP!_manual_probe_start, MP!Ok
  <2>2. PICK p : p = [r.s.points EXCEPT !.tool = MP!None] OBVIOUS
  <2>3. p \in [tool : MP!Tools \cup {MP!None}, auto : BOOLEAN, count : 0 .. ProbePoints] /\ p.tool = MP!None /\ ~ p.auto
    BY <2>2, <1>5, <1>10, <1>11
  <2>4. b = [r.s EXCEPT !.points = p] BY <2>1, <2>2
  <2>5. /\ MP!Shape(b) /\ b.points = p /\ b.exc = r.s.exc /\ b.retry = r.s.retry /\ b.applied = r.s.applied
        /\ b.cmds = r.s.cmds /\ b.helper = r.s.helper /\ b.status = r.s.status /\ b.screws = r.s.screws /\ b.tp = r.s.tp
    BY <2>3, <2>4, <1>10, <1>11 DEF MP!Shape, MP!Fields
  <2>6. MP!Owners(b) BY <2>5, <1>10, <1>11, ProbeOwnersKept
  <2>7. MP!TiltIsLevel(b) BY <2>5, <1>10, <1>11 DEF MP!TiltIsLevel
  <2>8. MP!RoundsAreCounted(b) /\ MP!PointIsDue(b) BY <2>3, <2>5, <1>10, <1>11 DEF MP!RoundsAreCounted, MP!PointIsDue, MP!Idle, MP!None
  <2> QED BY <2>5, <2>6, <2>7, <2>8 DEF MP!Sound
<1>12. CASE m.exc = MP!None /\ m.points.count >= ProbePoints /\ r.s.exc = MP!None /\ r.res = "retry"
  <2>1. b = MP!ManualProbeHelper(MP!Move([r.s EXCEPT !.points.count = 0], ProbeTop), "points")
    BY <1>1, <1>7, <1>12, Zenon DEF MP!_manual_probe_start, MP!Ok
  <2>2. PICK c : c = [r.s EXCEPT !.points.count = 0] OBVIOUS
  <2>3. PICK p : p = [r.s.points EXCEPT !.count = 0] OBVIOUS
  <2>4. p \in [tool : MP!Tools \cup {MP!None}, auto : BOOLEAN, count : 0 .. ProbePoints] /\ p.tool \in MP!Tools /\ ~ p.auto /\ p.count < ProbePoints
    BY <2>3, <1>5, <1>10, <1>12
  <2>5. c = [r.s EXCEPT !.points = p] BY <2>2, <2>3
  <2>6. /\ MP!Shape(c) /\ c.points = p /\ c.exc = r.s.exc /\ c.retry = r.s.retry /\ c.applied = r.s.applied
        /\ c.cmds = r.s.cmds /\ c.helper = r.s.helper /\ c.status = r.s.status /\ c.screws = r.s.screws /\ c.tp = r.s.tp
    BY <2>4, <2>5, <1>10, <1>12 DEF MP!Shape, MP!Fields
  <2>7. MP!Owners(c) BY <2>6, <1>10, <1>12, ProbeOwnersKept
  <2>8. MP!TiltIsLevel(c) /\ MP!RoundsAreCounted(c)
    <3>1. p.tool = r.s.points.tool BY <2>3, <2>4, <1>5, <1>10, <1>12
    <3> QED BY <3>1, <2>6, <1>10, <1>12 DEF MP!TiltIsLevel, MP!RoundsAreCounted
  <2>9. MP!PointIsDue(c) BY <2>4, <2>6, <1>10, <1>12 DEF MP!PointIsDue, MP!Idle, MP!None
  <2>10. MP!Sound(c) BY <2>6, <2>7, <2>8, <2>9 DEF MP!Sound
  <2>11. c.helper = MP!Idle /\ c.points.tool \in MP!Tools /\ ~ c.points.auto /\ c.points.count < ProbePoints BY <2>4, <2>6, <1>10, <1>12
  <2> QED BY <2>1, <2>2, <2>10, <2>11, <1>8
<1> QED BY <1>3, <1>6, <1>9, <1>11, <1>12

\* The calibration of the drift is over, with the heaters off and its commands gone.
LEMMA ProbeDriftEnds ==
  ASSUME NEW a, ProbeQuiet(a), a.exc = MP!None, a.screws.state = MP!None, NEW success \in BOOLEAN,
         NEW b, b = MP!_finalize_drift_cal(a, success)
  PROVE  MP!Sound(b)
<1>1. PICK u : u = MP!Unregister(a, {"ABORT", "TEMPERATURE_PROBE_NEXT", "TEMPERATURE_PROBE_COMPLETE"}) OBVIOUS
<1>2. PICK c : c = [u EXCEPT !.tp = MP!ColdTp] OBVIOUS
<1>3. b = MP!finish_calibration(c, success, a.tp.count) BY <1>1, <1>2, Zenon DEF MP!_finalize_drift_cal
<1>4. /\ MP!Shape(u) /\ u.exc = MP!None /\ u.cmds["ABORT"] = MP!None /\ u.cmds["TEMPERATURE_PROBE_NEXT"] = MP!None
      /\ u.cmds["TEMPERATURE_PROBE_COMPLETE"] = MP!None /\ u.cmds["ACCEPT"] = MP!None /\ u.cmds["TESTZ"] = MP!None
      /\ u.cmds["ADJUSTED"] = MP!None
      /\ u.helper = a.helper /\ u.status = a.status /\ u.points = a.points /\ u.retry = a.retry /\ u.applied = a.applied
      /\ u.screws = a.screws
  BY <1>1, ProbeUnregisters DEF ProbeQuiet, MP!Temporary
<1>5. MP!ColdTp \in [active : BOOLEAN, count : Nat, next : Nat, heat : BOOLEAN] /\ ~ MP!ColdTp.active /\ ~ MP!ColdTp.heat
  BY DEF MP!ColdTp, MP!Never
<1>6. /\ MP!Shape(c) /\ c.exc = MP!None /\ c.cmds = u.cmds /\ c.tp = MP!ColdTp /\ c.helper = a.helper /\ c.status = a.status
      /\ c.points = a.points /\ c.retry = a.retry /\ c.applied = a.applied /\ c.screws = a.screws
  BY <1>2, <1>4, <1>5 DEF MP!Shape, MP!Fields
<1>7. ProbeQuiet(c)
  <2>1. MP!TiltIsLevel(c) /\ MP!RoundsAreCounted(c) /\ MP!PointIsDue(c)
    BY <1>6 DEF ProbeQuiet, MP!TiltIsLevel, MP!RoundsAreCounted, MP!PointIsDue
  <2> QED BY <2>1, <1>4, <1>6 DEF ProbeQuiet
<1>8. MP!Sound(c)
  <2>1. MP!DriftHasCommands(c) BY <1>4, <1>5, <1>6 DEF MP!DriftHasCommands
  <2>2. c.screws.state = MP!None /\ c.cmds["ABORT"] = IF c.tp.active THEN "temp" ELSE MP!None BY <1>4, <1>5, <1>6
  <2> QED BY <2>1, <2>2, <1>7, ProbeQuietIsSound
<1>9. ProbeKept(c, b)
  <2>1. CASE ~ success
    <3>1. b = c BY <2>1, <1>3 DEF MP!finish_calibration
    <3> QED BY <3>1, <1>6, ProbeKeptOfItself
  <2>2. CASE success /\ a.tp.count < 3
    <3>1. b = MP!Raise(c, "crash") BY <2>2, <1>3 DEF MP!finish_calibration
    <3> QED BY <3>1, <1>6, ProbeRaises
  <2>3. CASE success /\ ~ (a.tp.count < 3)
    <3>1. PICK v : b = [c EXCEPT !.saved = v] BY <2>3, <1>3 DEF MP!finish_calibration
    <3> QED BY <3>1, <1>6 DEF MP!Shape, MP!Fields, ProbeKept
  <2> QED BY <2>1, <2>2, <2>3
<1> QED BY <1>6, <1>8, <1>9, ProbeKeptIsSound DEF MP!None

LEMMA ProbeCaught ==
  ASSUME NEW a, MP!Shape(a), NEW b, b = MP!Caught(a)
  PROVE  ProbeKept(a, b) /\ b.exc = MP!None
BY DEF MP!Caught, MP!Shape, MP!Fields, ProbeKept

LEMMA ProbeGoesOnRaising ==
  ASSUME NEW a, MP!Sound(a), NEW e \in {"error", "crash"}, NEW b, b = MP!AndRaise(a, e)
  PROVE  MP!Sound(b) /\ b.exc # MP!None
<1>1. MP!Shape(a) BY DEF MP!Sound
<1>2. b = [a EXCEPT !.exc = IF a.exc = "crash" THEN a.exc ELSE e] BY DEF MP!AndRaise
<1>3. PICK v \in {"error", "crash"} : v = IF a.exc = "crash" THEN a.exc ELSE e OBVIOUS
<1>4. ProbeKept(a, b) /\ b.exc = v
  <2>1. b = [a EXCEPT !.exc = v] BY <1>2, <1>3
  <2> QED BY <1>1, <1>3, <2>1 DEF MP!Shape, MP!Fields, ProbeKept
<1>5. a.exc = "crash" => b.exc = "crash" BY <1>3, <1>4
<1> QED BY <1>3, <1>4, <1>5, ProbeKeptIsSound DEF MP!None

\* The person has put the nozzle on the bed for a sample of the drift.
LEMMA ProbeDriftGoesOn ==
  ASSUME MP!ManualProbeAssumption, NEW a, ProbeQuiet(a), a.exc = MP!None, a.screws.state = MP!None, a.tp.active, MP!DriftHasCommands(a),
         a.cmds["ABORT"] = MP!None, NEW pos, NEW b, b = MP!TempFinalize(a, pos)
  PROVE  MP!Sound(b)
<1>1. PICK m : m = MP!Move(a, a.z) OBVIOUS
<1>2. PICK k : k = [m EXCEPT !.clients = @ + 1] OBVIOUS
<1>3. PICK w : w = MP!Move(k, m.z) OBVIOUS
<1>4. w = MP!collect_sample(MP!Move(a, a.z)) BY <1>1, <1>2, <1>3, Zenon DEF MP!collect_sample
<1>5. MP!Shape(a) BY DEF ProbeQuiet
<1>6. ProbeKept(a, m) /\ (m.exc = MP!None \/ m.exc = "error") BY <1>1, <1>5, ProbeMoves
<1>7. MP!Shape(m) BY <1>5, <1>6, ProbeIsShaped
<1>8. ProbeKept(m, k) /\ k.exc = m.exc
  <2>1. PICK v : k = [m EXCEPT !.clients = v] BY <1>2
  <2> QED BY <1>7, <2>1 DEF MP!Shape, MP!Fields, ProbeKept
<1>9. MP!Shape(k) BY <1>7, <1>8, ProbeIsShaped
<1>10. ProbeKept(k, w) /\ (w.exc = k.exc \/ w.exc = "error") BY <1>3, <1>9, ProbeMoves
<1>11. ProbeKept(a, w) /\ (w.exc = MP!None \/ w.exc = "error") BY <1>6, <1>8, <1>10, ProbeKeptOfKept
<1>12. ProbeQuiet(w) /\ w.tp = a.tp /\ w.cmds = a.cmds /\ w.screws = a.screws
  BY <1>11, ProbeQuietKept DEF ProbeKept
<1>13. ASSUME NEW x, ProbeQuiet(x), x.screws.state = MP!None, x.exc = "error",
              b = MP!AndRaise(MP!_finalize_drift_cal(MP!Caught(x), FALSE), x.exc)
       PROVE  MP!Sound(b)
  <2>1. PICK y : y = MP!Caught(x) OBVIOUS
  <2>2. PICK z : z = MP!_finalize_drift_cal(y, FALSE) OBVIOUS
  <2>3. ProbeKept(x, y) /\ y.exc = MP!None BY <1>13, <2>1, ProbeCaught DEF ProbeQuiet
  <2>4. ProbeQuiet(y) /\ y.screws.state = MP!None BY <1>13, <2>3, ProbeQuietKept DEF ProbeKept
  <2>5. MP!Sound(z) BY <2>2, <2>3, <2>4, ProbeDriftEnds
  <2>6. b = MP!AndRaise(z, "error") BY <1>13, <2>1, <2>2
  <2> QED BY <2>5, <2>6, ProbeGoesOnRaising
<1>14. CASE w.exc # MP!None
  <2>1. b = MP!AndRaise(MP!_finalize_drift_cal(MP!Caught(w), FALSE), w.exc) BY <1>4, <1>14, Zenon DEF MP!TempFinalize, MP!Ok
  <2> QED BY <2>1, <1>11, <1>12, <1>13, <1>14
<1>15. PICK c : c = [w EXCEPT !.tp.count = @ + 1] OBVIOUS
<1>16. /\ MP!Shape(c) /\ c.exc = w.exc /\ c.tp.active /\ c.cmds = a.cmds /\ c.screws = a.screws /\ c.helper = w.helper
       /\ c.status = w.status /\ c.points = w.points /\ c.retry = w.retry /\ c.applied = w.applied
  <2>1. PICK p : p = [w.tp EXCEPT !.count = @ + 1] OBVIOUS
  <2>2. c = [w EXCEPT !.tp = p] BY <1>15, <2>1
  <2>3. p \in [active : BOOLEAN, count : Nat, next : Nat, heat : BOOLEAN] /\ p.active
    BY <2>1, <1>12, <1>5 DEF MP!Shape
  <2> QED BY <2>2, <2>3, <1>12 DEF MP!Shape, MP!Fields, ProbeQuiet
<1>17. ProbeQuiet(c)
  <2>1. MP!TiltIsLevel(c) /\ MP!RoundsAreCounted(c) /\ MP!PointIsDue(c)
    BY <1>12, <1>16 DEF ProbeQuiet, MP!TiltIsLevel, MP!RoundsAreCounted, MP!PointIsDue
  <2> QED BY <2>1, <1>12, <1>16 DEF ProbeQuiet
<1>18. CASE w.exc = MP!None /\ a.temp >= DriftEnd
  <2>1. b = MP!_finalize_drift_cal(c, TRUE) BY <1>4, <1>15, <1>18, Zenon DEF MP!TempFinalize, MP!Ok
  <2> QED BY <2>1, <1>16, <1>17, <1>18, ProbeDriftEnds
<1>19. PICK d : d = MP!_prepare_next_sample(c) OBVIOUS
<1>20. w.exc = MP!None =>
         /\ ProbeQuiet(d) /\ d.screws.state = MP!None /\ MP!DriftHasCommands(d) /\ d.tp.active /\ d.cmds["ABORT"] = "temp"
         /\ (d.exc = MP!None \/ d.exc = "error")
  <2> HAVE w.exc = MP!None
  <2>1. PICK r : r = MP!Register(c, "ABORT", "temp") OBVIOUS
  <2>2. PICK t : t = MP!Move(r, c.z) OBVIOUS
  <2>3. PICK p : p = [t.tp EXCEPT !.next = c.temp + DriftStep, !.heat = TRUE] OBVIOUS
  <2>4. d = [t EXCEPT !.tp = p]
    <3>1. d = [t EXCEPT !.tp.next = c.temp + DriftStep, !.tp.heat = TRUE] BY <1>19, <2>1, <2>2, Zenon DEF MP!_prepare_next_sample
    <3>2. MP!Shape(c) BY <1>16
    <3>3. ProbeRegistered(c, r, "ABORT", "temp") BY <3>2, <1>16, <2>1, ProbeRegisters DEF MP!Temporary
    <3>4. ProbeKept(r, t) BY <3>3, <2>2, ProbeMoves DEF ProbeRegistered
    <3> QED BY <3>1, <3>4, <2>3 DEF ProbeKept, MP!Fields
  <2>5. "ABORT" \in MP!Temporary /\ c.exc = MP!None /\ c.cmds["ABORT"] = MP!None /\ MP!Shape(c) BY <1>16 DEF MP!Temporary
  <2>6. ProbeRegistered(c, r, "ABORT", "temp") BY <2>5, <2>1, ProbeRegisters
  <2>7. ProbeKept(r, t) /\ (t.exc = MP!None \/ t.exc = "error") BY <2>6, <2>2, ProbeMoves DEF ProbeRegistered
  <2>8. MP!Shape(t) BY <2>6, <2>7, ProbeIsShaped DEF ProbeRegistered
  <2>9. t.tp = c.tp BY <2>6, <2>7 DEF ProbeKept, ProbeRegistered
  <2>10. p \in [active : BOOLEAN, count : Nat, next : Nat, heat : BOOLEAN] /\ p.active
    <3>1. c.temp + DriftStep \in Nat BY <2>5, ProbeConstants DEF MP!Shape
    <3>2. t.tp \in [active : BOOLEAN, count : Nat, next : Nat, heat : BOOLEAN] /\ t.tp.active BY <2>8, <2>9, <1>16 DEF MP!Shape
    <3> QED BY <3>1, <3>2, <2>3
  <2>11. /\ MP!Shape(d) /\ d.exc = t.exc /\ d.tp = p /\ d.cmds = t.cmds /\ d.screws = t.screws /\ d.helper = t.helper
         /\ d.status = t.status /\ d.points = t.points /\ d.retry = t.retry /\ d.applied = t.applied
    BY <2>4, <2>8, <2>10 DEF MP!Shape, MP!Fields
  <2>12. /\ d.cmds["ACCEPT"] = MP!None /\ d.cmds["TESTZ"] = MP!None /\ d.cmds["ADJUSTED"] = MP!None /\ d.cmds["ABORT"] = "temp"
         /\ d.cmds["TEMPERATURE_PROBE_NEXT"] = a.cmds["TEMPERATURE_PROBE_NEXT"]
         /\ d.cmds["TEMPERATURE_PROBE_COMPLETE"] = a.cmds["TEMPERATURE_PROBE_COMPLETE"]
    BY <2>11, <2>7, <2>6, <1>16 DEF ProbeQuiet, ProbeKept, ProbeRegistered, MP!Temporary
  <2>13. d.screws.state = MP!None /\ d.helper = c.helper /\ d.status = c.status /\ d.points = c.points /\ d.retry = c.retry
         /\ d.applied = c.applied
    BY <2>11, <2>7, <2>6, <1>16 DEF ProbeKept, ProbeRegistered
  <2>14. MP!TiltIsLevel(d) /\ MP!RoundsAreCounted(d) /\ MP!PointIsDue(d)
    BY <2>13, <1>17 DEF ProbeQuiet, MP!TiltIsLevel, MP!RoundsAreCounted, MP!PointIsDue
  <2>15. MP!DriftHasCommands(d) BY <2>10, <2>11, <2>12 DEF MP!DriftHasCommands
  <2> QED BY <2>7, <2>10, <2>11, <2>12, <2>13, <2>14, <2>15, <1>17 DEF ProbeQuiet
<1>21. CASE w.exc = MP!None /\ ~ (a.temp >= DriftEnd) /\ d.exc = MP!None
  <2>1. b = d BY <1>4, <1>15, <1>19, <1>21, Zenon DEF MP!TempFinalize, MP!Ok
  <2> QED BY <2>1, <1>20, <1>21, ProbeQuietIsSound
<1>22. CASE w.exc = MP!None /\ ~ (a.temp >= DriftEnd) /\ d.exc # MP!None
  <2>1. b = MP!AndRaise(MP!_finalize_drift_cal(MP!Caught(d), FALSE), d.exc)
    BY <1>4, <1>15, <1>19, <1>22, Zenon DEF MP!TempFinalize, MP!Ok
  <2> QED BY <2>1, <1>13, <1>20, <1>22
<1> QED BY <1>14, <1>18, <1>21, <1>22

\* The head goes up and over the point, and the manual probe is asked for.
LEMMA ProbeComesToPoint ==
  ASSUME NEW a, MP!Sound(a), NEW client \in {"twist", "probe"}, NEW b, b = MP!ManualProbeHelper(MP!Move(MP!Move(a, ProbeTop), ProbeTop), client)
  PROVE  MP!Sound(b)
<1>1. PICK c : c = MP!Move(a, ProbeTop) OBVIOUS
<1>2. PICK d : d = MP!Move(c, ProbeTop) OBVIOUS
<1>3. MP!Shape(a) BY DEF MP!Sound
<1>4. ProbeKept(a, c) /\ (c.exc = a.exc \/ (a.exc = MP!None /\ c.exc = "error")) BY <1>1, <1>3, ProbeMoves
<1>5. MP!Sound(c) BY <1>4, ProbeKeptIsSound DEF MP!None
<1>6. MP!Shape(c) BY <1>5 DEF MP!Sound
<1>7. ProbeKept(c, d) /\ (d.exc = c.exc \/ (c.exc = MP!None /\ d.exc = "error")) BY <1>2, <1>6, ProbeMoves
<1>8. MP!Sound(d) BY <1>5, <1>7, ProbeKeptIsSound DEF MP!None
<1>9. b = MP!ManualProbeHelper(d, client) /\ client \in MP!Clients \ {MP!None, "temp"} /\ client # "points"
  BY <1>1, <1>2 DEF MP!Clients, MP!None
<1> QED BY <1>8, <1>9, ProbeIsStarted

LEMMA ProbePointIsDone ==
  ASSUME MP!ManualProbeAssumption, NEW a, MP!Sound(a), a.exc = MP!None, a.helper = MP!Idle, a.points.tool \in MP!Tools, ~ a.points.auto,
         a.points.count < ProbePoints, NEW pos, NEW e \in Nat, NEW b, b = MP!PointsFinalize(a, pos, e)
  PROVE  MP!Sound(b)
<1>1. PICK c : c = [a EXCEPT !.points.count = @ + 1] OBVIOUS
<1>2. PICK p : p = [a.points EXCEPT !.count = @ + 1] OBVIOUS
<1>3. c = [a EXCEPT !.points = p] BY <1>1, <1>2
<1>4. MP!Shape(a) /\ a.points \in [tool : MP!Tools \cup {MP!None}, auto : BOOLEAN, count : 0 .. ProbePoints] BY DEF MP!Sound, MP!Shape
<1>5. /\ p \in [tool : MP!Tools \cup {MP!None}, auto : BOOLEAN, count : 0 .. ProbePoints] /\ p.tool = a.points.tool
      /\ p.auto = a.points.auto
  BY <1>2, <1>4, ProbeConstants
<1>6. /\ MP!Shape(c) /\ c.points = p /\ c.exc = a.exc /\ c.retry = a.retry /\ c.applied = a.applied
      /\ c.cmds = a.cmds /\ c.helper = a.helper /\ c.status = a.status /\ c.screws = a.screws /\ c.tp = a.tp
  BY <1>3, <1>4, <1>5 DEF MP!Shape, MP!Fields
<1>7. MP!Owners(c) BY <1>6, ProbeOwnersKept DEF MP!Sound, MP!None
<1>8. MP!TiltIsLevel(c) /\ MP!RoundsAreCounted(c) BY <1>5, <1>6 DEF MP!Sound, MP!TiltIsLevel, MP!RoundsAreCounted, MP!None
<1>9. MP!PointIsDue(c) BY <1>5, <1>6 DEF MP!PointIsDue, MP!Idle, MP!None
<1>10. MP!Sound(c) BY <1>6, <1>7, <1>8, <1>9 DEF MP!Sound
<1>11. b = MP!_manual_probe_start(c, e) BY <1>1, Zenon DEF MP!PointsFinalize
<1> QED BY <1>5, <1>6, <1>10, <1>11, ProbePointStarts

LEMMA ProbeTwistGoesOn ==
  ASSUME NEW a, MP!Sound(a), a.exc = MP!None, NEW pos, NEW b, b = MP!TwistFinalize(a, pos)
  PROVE  MP!Sound(b)
<1>0. MP!Shape(a) BY DEF MP!Sound
<1>1. CASE a.twist.index = ProbePoints - 1
  <2>1. b = [a EXCEPT !.twist.kept = TRUE, !.saved = @ \cup {"twist"}] BY <1>1 DEF MP!TwistFinalize
  <2>2. PICK t : t = [a.twist EXCEPT !.kept = TRUE] OBVIOUS
  <2>3. PICK v : v = a.saved \cup {"twist"} OBVIOUS
  <2>4. b = [a EXCEPT !.twist = t, !.saved = v] BY <2>1, <2>2, <2>3, <1>0 DEF MP!Shape, MP!Fields
  <2>5. ProbeKept(a, b) BY <1>0, <2>4 DEF MP!Shape, MP!Fields, ProbeKept
  <2> QED BY <2>5, ProbeKeptIsSound DEF MP!None
<1>2. CASE a.twist.index # ProbePoints - 1
  <2>1. PICK c : c = [a EXCEPT !.twist.index = @ + 1] OBVIOUS
  <2>2. PICK t : c = [a EXCEPT !.twist = t] BY <2>1
  <2>3. ProbeKept(a, c) BY <1>0, <2>2 DEF MP!Shape, MP!Fields, ProbeKept
  <2>4. MP!Sound(c) BY <2>3, ProbeKeptIsSound DEF MP!None
  <2>5. b = MP!ManualProbeHelper(MP!Move(MP!Move(c, ProbeTop), ProbeTop), "twist") BY <1>2, <2>1, Zenon DEF MP!TwistFinalize, MP!_calibration
  <2> QED BY <2>4, <2>5, ProbeComesToPoint
<1> QED BY <1>1, <1>2

LEMMA ProbeEddyIsMapped ==
  ASSUME NEW a, MP!Sound(a), a.exc = MP!None, NEW pos, NEW good \in BOOLEAN, NEW b, b = MP!post_manual_probe(a, pos, good)
  PROVE  MP!Sound(b)
<1>1. PICK m : m = MP!Move(a, a.z) OBVIOUS
<1>2. PICK k : k = [m EXCEPT !.clients = @ + 1] OBVIOUS
<1>3. PICK w : w = MP!Move(k, m.z) OBVIOUS
<1>4. PICK x : x = MP!do_calibration_moves(m) OBVIOUS
<1>5. MP!Shape(a) BY DEF MP!Sound
<1>6. ProbeKept(a, m) /\ (m.exc = MP!None \/ m.exc = "error") BY <1>1, <1>5, ProbeMoves
<1>7. MP!Shape(m) BY <1>5, <1>6, ProbeIsShaped
<1>8. ProbeKept(m, k) /\ k.exc = m.exc
  <2>1. PICK v : k = [m EXCEPT !.clients = v] BY <1>2
  <2> QED BY <1>7, <2>1 DEF MP!Shape, MP!Fields, ProbeKept
<1>9. MP!Shape(k) BY <1>7, <1>8, ProbeIsShaped
<1>10. ProbeKept(k, w) /\ (w.exc = k.exc \/ w.exc = "error") BY <1>3, <1>9, ProbeMoves
<1>11. MP!Shape(w) BY <1>9, <1>10, ProbeIsShaped
<1>12. ProbeKept(w, x) /\ x.exc = w.exc
  <2>1. CASE MP!Ok(w)
    <3>1. x = [w EXCEPT !.clients = @ - 1, !.mapTemp = "new", !.saved = @ \cup {"calibration_temp"}]
      BY <2>1, <1>2, <1>3, <1>4, Zenon DEF MP!do_calibration_moves
    <3>2. PICK u, v : x = [w EXCEPT !.clients = u, !.mapTemp = "new", !.saved = v] BY <3>1, <1>11 DEF MP!Shape, MP!Fields
    <3> QED BY <3>2, <1>11 DEF MP!Shape, MP!Fields, ProbeKept
  <2>2. CASE ~ MP!Ok(w)
    <3>1. x = w BY <2>2, <1>2, <1>3, <1>4, Zenon DEF MP!do_calibration_moves
    <3> QED BY <3>1, <1>11, ProbeKeptOfItself
  <2> QED BY <2>1, <2>2
<1>13. ProbeKept(a, x) BY <1>6, <1>8, <1>10, <1>12, ProbeKeptOfKept
<1>14. MP!Sound(m) /\ MP!Sound(x) BY <1>6, <1>13, ProbeKeptIsSound DEF MP!None
<1>15. CASE ~ MP!Ok(m) \/ ~ MP!Ok(x)
  <2>1. b = m \/ b = x BY <1>1, <1>4, <1>15, Zenon DEF MP!post_manual_probe
  <2> QED BY <2>1, <1>14
<1>16. CASE MP!Ok(m) /\ MP!Ok(x)
  <2>1. MP!Shape(x) /\ x.exc = MP!None BY <1>14, <1>16 DEF MP!Sound, MP!Ok
  <2>2. CASE good
    <3>1. b = [x EXCEPT !.map = "new", !.saved = @ \cup {"calibrate"}]
      BY <1>1, <1>4, <1>16, <2>2, Zenon DEF MP!post_manual_probe
    <3>2. PICK v : b = [x EXCEPT !.map = "new", !.saved = v] BY <3>1, <2>1 DEF MP!Shape, MP!Fields
    <3>3. ProbeKept(x, b) BY <3>2, <2>1 DEF MP!Shape, MP!Fields, ProbeKept
    <3> QED BY <3>3, <2>1, <1>14, ProbeKeptIsSound DEF MP!None
  <2>3. CASE ~ good
    <3>1. b = MP!Raise(x, "error") BY <1>1, <1>4, <1>16, <2>3, Zenon DEF MP!post_manual_probe
    <3>2. ProbeKept(x, b) BY <3>1, <2>1, ProbeRaises
    <3> QED BY <3>2, <2>1, <1>14, ProbeKeptIsSound DEF MP!None
  <2> QED BY <2>2, <2>3
<1> QED BY <1>15, <1>16

LEMMA ProbeSaves ==
  ASSUME NEW a, MP!Sound(a), a.exc = MP!None, NEW v, NEW b, b = [a EXCEPT !.saved = v]
  PROVE  MP!Sound(b)
<1>1. MP!Shape(a) BY DEF MP!Sound
<1>2. ProbeKept(a, b) BY <1>1 DEF MP!Shape, MP!Fields, ProbeKept
<1> QED BY <1>2, ProbeKeptIsSound DEF MP!None

\* The manual probe ends, and who has waited for it goes on.
LEMMA ProbeFinalizes ==
  ASSUME MP!ManualProbeAssumption, NEW a, MP!Sound(a), a.exc = MP!None, a.helper # MP!Idle, NEW success \in BOOLEAN,
         NEW in, in.error \in Nat, NEW b, b = MP!finalize(a, success, in)
  PROVE  MP!Sound(b)
<1>1. PICK u : u = MP!Unregister(a, {"ACCEPT", "ABORT", "TESTZ"}) OBVIOUS
<1>2. PICK f : f = [u EXCEPT !.helper = MP!Idle, !.status = MP!Hidden] OBVIOUS
<1>3. PICK client : client = a.helper.client OBVIOUS
<1>4. PICK pos : pos = IF success THEN a.z ELSE -1 OBVIOUS
<1>5. b = MP!Callback(f, client, pos, in) BY <1>1, <1>2, <1>3, <1>4, Zenon DEF MP!finalize
<1>6. /\ MP!Shape(a) /\ MP!TiltIsLevel(a) /\ MP!RoundsAreCounted(a) /\ MP!PointIsDue(a) /\ MP!ManualHasCommands(a) /\ MP!ScrewsHaveCommands(a)
      /\ MP!DriftHasCommands(a) /\ MP!AbortIsOfOne(a)
  BY DEF MP!Sound, MP!Owners, MP!None
<1>7. a.cmds["ACCEPT"] = "manual" BY <1>6 DEF MP!ManualHasCommands
<1>8. a.screws.state = MP!None /\ a.cmds["ADJUSTED"] = MP!None BY <1>6, <1>7 DEF MP!ScrewsHaveCommands
<1>9. client \in MP!Clients \ {MP!None} /\ (a.tp.active <=> client = "temp")
  <2>1. client \in MP!Clients /\ client # MP!None BY <1>3, <1>6 DEF MP!Shape
  <2> QED BY <2>1, <1>3, <1>6, Zenon DEF MP!AbortIsOfOne, MP!Shape
<1>10. /\ MP!Shape(u) /\ u.exc = MP!None /\ u.cmds["ACCEPT"] = MP!None /\ u.cmds["ABORT"] = MP!None /\ u.cmds["TESTZ"] = MP!None
       /\ u.cmds["ADJUSTED"] = MP!None /\ u.cmds["TEMPERATURE_PROBE_NEXT"] = a.cmds["TEMPERATURE_PROBE_NEXT"]
       /\ u.cmds["TEMPERATURE_PROBE_COMPLETE"] = a.cmds["TEMPERATURE_PROBE_COMPLETE"]
       /\ u.points = a.points /\ u.retry = a.retry /\ u.applied = a.applied /\ u.screws = a.screws /\ u.tp = a.tp
  BY <1>1, <1>6, <1>8, ProbeUnregisters DEF MP!Temporary
<1>11. MP!Idle \in [client : MP!Clients, start : 0 .. ProbeTop, past : SUBSET (0 .. ProbeTop)] BY ProbeConstants DEF MP!Idle, MP!Clients
<1>12. /\ MP!Shape(f) /\ f.exc = MP!None /\ f.helper = MP!Idle /\ f.status = MP!Hidden /\ f.cmds = u.cmds /\ f.points = a.points
       /\ f.retry = a.retry /\ f.applied = a.applied /\ f.screws = a.screws /\ f.tp = a.tp
  BY <1>2, <1>10, <1>11 DEF MP!Shape, MP!Fields
<1>13. ProbeQuiet(f)
  <2>1. MP!TiltIsLevel(f) /\ MP!RoundsAreCounted(f) BY <1>6, <1>12 DEF MP!TiltIsLevel, MP!RoundsAreCounted
  <2>2. MP!PointIsDue(f) BY <1>6, <1>12 DEF MP!PointIsDue, MP!Idle, MP!None
  <2>3. f.status.active = FALSE BY <1>12 DEF MP!Hidden
  <2> QED BY <2>1, <2>2, <2>3, <1>10, <1>12 DEF ProbeQuiet
<1>14. MP!DriftHasCommands(f) /\ f.cmds["ABORT"] = MP!None /\ f.screws.state = MP!None
  BY <1>6, <1>8, <1>10, <1>12 DEF MP!DriftHasCommands
<1>15. CASE client = "temp" /\ pos = -1
  <2>1. b = MP!_finalize_drift_cal(f, FALSE) BY <1>5, <1>15, Zenon DEF MP!Callback
  <2> QED BY <2>1, <1>12, <1>13, <1>14, ProbeDriftEnds
<1>16. CASE client = "temp" /\ pos # -1
  <2>1. b = MP!TempFinalize(f, pos) BY <1>5, <1>16, Zenon DEF MP!Callback
  <2>2. f.tp.active BY <1>9, <1>12, <1>16
  <2> QED BY <2>1, <2>2, <1>12, <1>13, <1>14, ProbeDriftGoesOn
<1>17. client # "temp" => MP!Sound(f)
  BY <1>9, <1>12, <1>13, <1>14, ProbeQuietIsSound
<1>18. CASE client # "temp" /\ (pos = -1 \/ client = "manual")
  <2>1. b = f BY <1>5, <1>18, Zenon DEF MP!Callback
  <2> QED BY <2>1, <1>17, <1>18
<1>19. CASE client = "endstop" /\ pos # -1
  <2>1. b = MP!z_endstop_finalize(f, pos) BY <1>5, <1>19 DEF MP!Callback
  <2>2. PICK v : b = [f EXCEPT !.saved = v] BY <2>1 DEF MP!z_endstop_finalize
  <2> QED BY <2>2, <1>12, <1>17, <1>19, ProbeSaves
<1>20. CASE client = "probe" /\ pos # -1
  <2>1. b = MP!probe_calibrate_finalize(f, pos) BY <1>5, <1>20 DEF MP!Callback
  <2>2. PICK v : b = [f EXCEPT !.saved = v] BY <2>1 DEF MP!probe_calibrate_finalize
  <2> QED BY <2>2, <1>12, <1>17, <1>20, ProbeSaves
<1>21. CASE client = "points" /\ pos # -1
  <2>1. b = MP!PointsFinalize(f, pos, in.error) BY <1>5, <1>21 DEF MP!Callback
  <2>2. f.points.tool \in MP!Tools /\ ~ f.points.auto /\ f.points.count < ProbePoints
    BY <1>3, <1>6, <1>12, <1>21 DEF MP!PointIsDue, MP!Shape
  <2> QED BY <2>1, <2>2, <1>12, <1>17, <1>21, ProbePointIsDone
<1>22. CASE client = "twist" /\ pos # -1
  <2>1. b = MP!TwistFinalize(f, pos) BY <1>5, <1>22 DEF MP!Callback
  <2> QED BY <2>1, <1>12, <1>17, <1>22, ProbeTwistGoesOn
<1>23. CASE client = "eddy" /\ pos # -1
  <2>1. b = MP!post_manual_probe(f, pos, in.error <= TiltTolerance) BY <1>5, <1>23 DEF MP!Callback
  <2>2. (in.error <= TiltTolerance) \in BOOLEAN BY ProbeConstants
  <2> QED BY <2>1, <2>2, <1>12, <1>17, <1>23, ProbeEddyIsMapped
<1> QED BY <1>9, <1>15, <1>16, <1>18, <1>19, <1>20, <1>21, <1>22, <1>23 DEF MP!Clients

\* The head is moved, or the manual probe ends with an error.
LEMMA ProbeMovesHead ==
  ASSUME MP!ManualProbeAssumption, NEW a, MP!Sound(a), a.exc = MP!None, a.helper # MP!Idle, NEW to, NEW in, in.error \in Nat,
         NEW b, b = MP!move_z(a, to, in)
  PROVE  MP!Sound(b) /\ (b.exc = MP!None => b.helper # MP!Idle)
<1>1. PICK c : c = IF a.z < to + ZBob THEN MP!Move(a, to + ZBob) ELSE a OBVIOUS
<1>2. PICK d : d = MP!Move(c, to) OBVIOUS
<1>3. MP!Shape(a) BY DEF MP!Sound
<1>4. ProbeKept(a, c) /\ (c.exc = MP!None \/ c.exc = "error")
  <2>1. CASE a.z < to + ZBob
    <3>1. c = MP!Move(a, to + ZBob) BY <2>1, <1>1
    <3> QED BY <3>1, <1>3, ProbeMoves
  <2>2. CASE ~ (a.z < to + ZBob)
    <3>1. c = a BY <2>2, <1>1
    <3> QED BY <3>1, <1>3, ProbeKeptOfItself
  <2> QED BY <2>1, <2>2
<1>5. MP!Shape(c) BY <1>3, <1>4, ProbeIsShaped
<1>6. ProbeKept(c, d) /\ (d.exc = c.exc \/ d.exc = "error") BY <1>2, <1>5, ProbeMoves
<1>7. ProbeKept(a, d) BY <1>4, <1>6, ProbeKeptOfKept
<1>8. MP!Sound(d) /\ d.helper # MP!Idle BY <1>7, ProbeKeptIsSound DEF ProbeKept, MP!None
<1>9. CASE d.exc = MP!None
  <2>1. b = d BY <1>1, <1>2, <1>9, Zenon DEF MP!move_z, MP!Ok
  <2> QED BY <2>1, <1>8
<1>10. CASE d.exc = "error"
  <2>1. PICK e : e = MP!Caught(d) OBVIOUS
  <2>2. PICK f : f = MP!finalize(e, FALSE, in) OBVIOUS
  <2>3. d.exc # MP!None BY <1>10 DEF MP!None
  <2>4. b = MP!AndRaise(f, d.exc) BY <1>1, <1>2, <2>1, <2>2, <2>3, Zenon DEF MP!move_z, MP!Ok
  <2>5. ProbeKept(d, e) /\ e.exc = MP!None BY <1>8, <2>1, ProbeCaught DEF MP!Sound
  <2>6. MP!Sound(e) /\ e.helper # MP!Idle
    <3>1. ProbeKept(a, e) BY <1>7, <2>5, ProbeKeptOfKept
    <3> QED BY <3>1, ProbeKeptIsSound DEF ProbeKept, MP!None
  <2>7. MP!Sound(f) BY <2>2, <2>5, <2>6, ProbeFinalizes
  <2>8. b = MP!AndRaise(f, "error") BY <2>4, <1>10
  <2> QED BY <2>7, <2>8, ProbeGoesOnRaising
<1> QED BY <1>4, <1>6, <1>9, <1>10

LEMMA ProbeTests ==
  ASSUME MP!ManualProbeAssumption, NEW a, MP!Sound(a), a.exc = MP!None, a.helper # MP!Idle, NEW dir, NEW in, in.error \in Nat,
         NEW b, b = MP!cmd_TESTZ(a, dir, in)
  PROVE  MP!Sound(b)
<1>1. PICK c : c = [a EXCEPT !.helper.past = @ \cup {a.z}] OBVIOUS
<1>2. PICK to : to = IF dir \in {"-", "+"} THEN MP!Bisected(c.helper.past, a.z, dir) ELSE a.z - 2 OBVIOUS
<1>3. PICK d : d = MP!move_z(c, to, in) OBVIOUS
<1>4. MP!Shape(a) BY DEF MP!Sound
<1>5. PICK h : h = [a.helper EXCEPT !.past = @ \cup {a.z}] OBVIOUS
<1>6. c = [a EXCEPT !.helper = h] BY <1>1, <1>5
<1>7. /\ h \in [client : MP!Clients, start : 0 .. ProbeTop, past : SUBSET (0 .. ProbeTop)] /\ h.client = a.helper.client
      /\ h.client # MP!None
  BY <1>4, <1>5 DEF MP!Shape
<1>8. h # MP!Idle BY <1>7 DEF MP!Idle
<1>9. /\ MP!Shape(c) /\ c.helper = h /\ c.exc = a.exc /\ c.points = a.points /\ c.retry = a.retry /\ c.applied = a.applied
      /\ c.cmds = a.cmds /\ c.status = a.status /\ c.screws = a.screws /\ c.tp = a.tp
  BY <1>4, <1>6, <1>7 DEF MP!Shape, MP!Fields
<1>10. MP!TiltIsLevel(c) /\ MP!RoundsAreCounted(c) /\ MP!PointIsDue(c)
  BY <1>7, <1>9 DEF MP!Sound, MP!TiltIsLevel, MP!RoundsAreCounted, MP!PointIsDue, MP!None
<1>11. MP!Owners(c)
  <2>1. MP!Owners(a) BY DEF MP!Sound, MP!None
  <2>2. MP!ManualHasCommands(c) BY <2>1, <1>8, <1>9 DEF MP!Owners, MP!ManualHasCommands
  <2>3. MP!ScrewsHaveCommands(c) /\ MP!DriftHasCommands(c) BY <2>1, <1>9 DEF MP!Owners, MP!ScrewsHaveCommands, MP!DriftHasCommands
  <2>4. MP!AbortIsOfOne(c) BY <2>1, <1>7, <1>9 DEF MP!Owners, MP!AbortIsOfOne
  <2> QED BY <2>2, <2>3, <2>4 DEF MP!Owners
<1>12. MP!Sound(c) BY <1>9, <1>10, <1>11 DEF MP!Sound
<1>13. MP!Sound(d) /\ (d.exc = MP!None => d.helper # MP!Idle) BY <1>3, <1>8, <1>9, <1>12, ProbeMovesHead
<1>14. b = IF MP!Ok(d) THEN MP!report_z_status(d) ELSE d BY <1>1, <1>2, <1>3, SMT DEF MP!cmd_TESTZ
<1>15. CASE d.exc # MP!None
  <2>1. b = d BY <1>14, <1>15 DEF MP!Ok
  <2> QED BY <2>1, <1>13
<1>16. CASE d.exc = MP!None
  <2>1. b = MP!report_z_status(d) BY <1>14, <1>16 DEF MP!Ok
  <2>2. MP!Shape(d) /\ MP!TiltIsLevel(d) /\ MP!RoundsAreCounted(d) /\ MP!PointIsDue(d) /\ MP!Owners(d) /\ d.helper # MP!Idle
    BY <1>13, <1>16 DEF MP!Sound, MP!None
  <2>3. /\ MP!Shape(b) /\ b.status.active = TRUE
        /\ b.cmds = d.cmds /\ b.helper = d.helper /\ b.points = d.points /\ b.retry = d.retry /\ b.z = d.z
        /\ b.applied = d.applied /\ b.screws = d.screws /\ b.tp = d.tp /\ b.temp = d.temp /\ b.exc = d.exc
    BY <2>1, <2>2, ProbeReports
  <2>4. MP!TiltIsLevel(b) /\ MP!RoundsAreCounted(b) /\ MP!PointIsDue(b) BY <2>2, <2>3 DEF MP!TiltIsLevel, MP!RoundsAreCounted, MP!PointIsDue
  <2>5. MP!ManualHasCommands(b) BY <2>2, <2>3 DEF MP!Owners, MP!ManualHasCommands
  <2>6. MP!ScrewsHaveCommands(b) /\ MP!DriftHasCommands(b) /\ MP!AbortIsOfOne(b)
    BY <2>2, <2>3 DEF MP!Owners, MP!ScrewsHaveCommands, MP!DriftHasCommands, MP!AbortIsOfOne
  <2> QED BY <2>3, <2>4, <2>5, <2>6 DEF MP!Sound, MP!Owners
<1> QED BY <1>15, <1>16

\* The screws have given their commands back, and nobody else has taken them.
ProbeScrewsOff(a) ==
  ProbeQuiet(a) /\ a.exc = MP!None /\ a.cmds["ABORT"] = MP!None /\ ~ a.tp.active /\ MP!DriftHasCommands(a)

\* What leaves everything but the screws alone.
LEMMA ProbeScrewsStayOff ==
  ASSUME NEW a, ProbeScrewsOff(a), NEW w \in [state : {MP!None, "adjust"}, current : 0 .. BedScrews, accepted : Int],
         NEW b, b = [a EXCEPT !.screws = w]
  PROVE  ProbeScrewsOff(b) /\ b.screws = w
<1>1. MP!Shape(a) BY DEF ProbeScrewsOff, ProbeQuiet
<1>2. /\ MP!Shape(b) /\ b.screws = w /\ b.helper = a.helper /\ b.exc = a.exc /\ b.points = a.points /\ b.retry = a.retry
      /\ b.applied = a.applied /\ b.cmds = a.cmds /\ b.status = a.status /\ b.tp = a.tp
  BY <1>1 DEF MP!Shape, MP!Fields
<1>3. MP!TiltIsLevel(b) /\ MP!RoundsAreCounted(b) /\ MP!PointIsDue(b)
  BY <1>2 DEF ProbeScrewsOff, ProbeQuiet, MP!TiltIsLevel, MP!RoundsAreCounted, MP!PointIsDue
<1> QED BY <1>2, <1>3 DEF ProbeScrewsOff, ProbeQuiet, MP!DriftHasCommands

\* ... or takes the commands away once more.
LEMMA ProbeUnregistersOff ==
  ASSUME NEW a, ProbeQuiet(a), a.cmds["ABORT"] = MP!None, ~ a.tp.active, MP!DriftHasCommands(a), NEW b, b = MP!unregister_commands(a)
  PROVE  /\ ProbeQuiet(b) /\ b.cmds["ABORT"] = MP!None /\ ~ b.tp.active /\ MP!DriftHasCommands(b) /\ b.exc = a.exc
         /\ b.screws = a.screws
<1>1. /\ MP!Shape(b) /\ b.exc = a.exc
      /\ \A d \in MP!Temporary : b.cmds[d] = IF d \in {"ACCEPT", "ADJUSTED", "ABORT"} THEN MP!None ELSE a.cmds[d]
      /\ b.helper = a.helper /\ b.status = a.status /\ b.points = a.points /\ b.retry = a.retry /\ b.z = a.z
      /\ b.applied = a.applied /\ b.screws = a.screws /\ b.tp = a.tp /\ b.temp = a.temp /\ b.moves = a.moves
  BY ProbeUnregisters DEF MP!unregister_commands, ProbeQuiet
<1>2. /\ b.cmds["ACCEPT"] = MP!None /\ b.cmds["ADJUSTED"] = MP!None /\ b.cmds["ABORT"] = MP!None /\ b.cmds["TESTZ"] = MP!None
      /\ b.cmds["TEMPERATURE_PROBE_NEXT"] = a.cmds["TEMPERATURE_PROBE_NEXT"]
      /\ b.cmds["TEMPERATURE_PROBE_COMPLETE"] = a.cmds["TEMPERATURE_PROBE_COMPLETE"]
  BY <1>1 DEF ProbeQuiet, MP!Temporary
<1>3. MP!TiltIsLevel(b) /\ MP!RoundsAreCounted(b) /\ MP!PointIsDue(b)
  BY <1>1 DEF ProbeQuiet, MP!TiltIsLevel, MP!RoundsAreCounted, MP!PointIsDue
<1> QED BY <1>1, <1>2, <1>3 DEF ProbeQuiet, MP!DriftHasCommands

LEMMA ProbeScrewsMoves ==
  ASSUME MP!ManualProbeAssumption, NEW a, ProbeScrewsOff(a), NEW to, NEW b, b = MP!ScrewsMove(a, to)
  PROVE  \/ ProbeScrewsOff(b) /\ b.screws = a.screws
         \/ MP!Sound(b) /\ b.exc # MP!None
<1>1. PICK m : m = MP!Move(a, to) OBVIOUS
<1>2. MP!Shape(a) /\ a.exc = MP!None BY DEF ProbeScrewsOff, ProbeQuiet
<1>3. ProbeKept(a, m) /\ (m.exc = MP!None \/ m.exc = "error") BY <1>1, <1>2, ProbeMoves
<1>4. ProbeQuiet(m) /\ m.cmds["ABORT"] = MP!None /\ ~ m.tp.active /\ MP!DriftHasCommands(m) /\ m.screws = a.screws
  BY <1>3, ProbeQuietKept DEF ProbeKept, ProbeScrewsOff, MP!DriftHasCommands
<1>5. CASE m.exc = MP!None
  <2>1. b = m BY <1>1, <1>5, Zenon DEF MP!ScrewsMove, MP!Ok
  <2> QED BY <2>1, <1>4, <1>5 DEF ProbeScrewsOff
<1>6. CASE m.exc # MP!None
  <2>1. PICK u : u = MP!unregister_commands(m) OBVIOUS
  <2>2. PICK w : w = [state |-> MP!None, current |-> 0, accepted |-> 0] OBVIOUS
  <2>3. b = [u EXCEPT !.screws = w]
    BY <1>1, <1>2, <1>6, <2>1, <2>2, Zenon DEF MP!ScrewsMove, MP!Ok, MP!unregister_commands
  <2>4. ProbeQuiet(u) /\ u.cmds["ABORT"] = MP!None /\ ~ u.tp.active /\ MP!DriftHasCommands(u) /\ u.exc = m.exc
    BY <2>1, <1>4, ProbeUnregistersOff
  <2>5. w \in [state : {MP!None, "adjust"}, current : 0 .. BedScrews, accepted : Int] /\ w.state = MP!None
    BY <2>2, ProbeConstants
  <2>6. /\ MP!Shape(b) /\ b.screws = w /\ b.helper = u.helper /\ b.exc = u.exc /\ b.points = u.points /\ b.retry = u.retry
        /\ b.applied = u.applied /\ b.cmds = u.cmds /\ b.status = u.status /\ b.tp = u.tp
    BY <2>3, <2>4, <2>5 DEF ProbeQuiet, MP!Shape, MP!Fields
  <2>7. MP!TiltIsLevel(b) /\ MP!RoundsAreCounted(b) /\ MP!PointIsDue(b) /\ MP!DriftHasCommands(b)
    BY <2>4, <2>6 DEF ProbeQuiet, MP!TiltIsLevel, MP!RoundsAreCounted, MP!PointIsDue, MP!DriftHasCommands
  <2>8. ProbeQuiet(b) BY <2>4, <2>6, <2>7 DEF ProbeQuiet
  <2>9. MP!Sound(b) BY <2>4, <2>5, <2>6, <2>7, <2>8, ProbeQuietIsSound
  <2> QED BY <2>4, <2>6, <2>9, <1>6
<1> QED BY <1>5, <1>6

\* A move after one that failed does nothing.
LEMMA ProbeScrewsMovesNot ==
  ASSUME NEW a, MP!Shape(a), a.exc # MP!None, NEW to, NEW b, b = MP!ScrewsMove(a, to)
  PROVE  b = a
<1>1. MP!Move(a, to) = a BY ProbeMoves
<1> QED BY <1>1 DEF MP!ScrewsMove, MP!Ok

\* The head goes to a screw, and waits there with the commands of the screws.
LEMMA ProbeComesToScrew ==
  ASSUME MP!ManualProbeAssumption, NEW a, ProbeScrewsOff(a) \/ (MP!Sound(a) /\ a.exc # MP!None), NEW screw \in 0 .. BedScrews,
         NEW b, b = MP!move_to_screw(a, screw)
  PROVE  MP!Sound(b)
<1>0. "ACCEPT" \in MP!Temporary /\ "ADJUSTED" \in MP!Temporary /\ "ABORT" \in MP!Temporary BY DEF MP!Temporary
<1>1. PICK m1 : m1 = MP!ScrewsMove(a, ProbeTop) OBVIOUS
<1>2. PICK m2 : m2 = MP!ScrewsMove(m1, 0) OBVIOUS
<1>3. ProbeScrewsOff(m1) \/ (MP!Sound(m1) /\ m1.exc # MP!None)
  <2>1. CASE ProbeScrewsOff(a) BY <2>1, <1>1, ProbeScrewsMoves
  <2>2. CASE MP!Sound(a) /\ a.exc # MP!None
    <3>1. m1 = a BY <2>2, <1>1, ProbeScrewsMovesNot DEF MP!Sound
    <3> QED BY <3>1, <2>2
  <2> QED BY <2>1, <2>2
<1>4. ProbeScrewsOff(m2) \/ (MP!Sound(m2) /\ m2.exc # MP!None)
  <2>1. CASE ProbeScrewsOff(m1) BY <2>1, <1>2, ProbeScrewsMoves
  <2>2. CASE MP!Sound(m1) /\ m1.exc # MP!None
    <3>1. m2 = m1 BY <2>2, <1>2, ProbeScrewsMovesNot DEF MP!Sound
    <3> QED BY <3>1, <2>2
  <2> QED BY <1>3, <2>1, <2>2
<1>5. CASE m2.exc # MP!None
  <2>1. b = m2 BY <1>1, <1>2, <1>5, Zenon DEF MP!move_to_screw, MP!Ok
  <2> QED BY <2>1, <1>4, <1>5 DEF ProbeScrewsOff
<1>6. CASE m2.exc = MP!None
  <2>1. ProbeScrewsOff(m2) BY <1>4, <1>6
  <2>2. PICK w : w = [m2.screws EXCEPT !.state = "adjust", !.current = screw] OBVIOUS
  <2>3. PICK c : c = [m2 EXCEPT !.screws.state = "adjust", !.screws.current = screw] OBVIOUS
  <2>4. PICK r1 : r1 = MP!Register(c, "ACCEPT", "screws") OBVIOUS
  <2>5. PICK r2 : r2 = MP!Register(r1, "ADJUSTED", "screws") OBVIOUS
  <2>6. b = MP!Register(r2, "ABORT", "screws") BY <1>1, <1>2, <1>6, <2>3, <2>4, <2>5, Zenon DEF MP!move_to_screw, MP!Ok
  <2>7. MP!Shape(m2) /\ m2.screws \in [state : {MP!None, "adjust"}, current : 0 .. BedScrews, accepted : Int]
    BY <2>1 DEF ProbeScrewsOff, ProbeQuiet, MP!Shape
  <2>8. w \in [state : {MP!None, "adjust"}, current : 0 .. BedScrews, accepted : Int] /\ w.state = "adjust" BY <2>2, <2>7
  <2>9. c = [m2 EXCEPT !.screws = w] BY <2>2, <2>3, <2>7 DEF MP!Shape, MP!Fields
  <2>10. ProbeScrewsOff(c) /\ c.screws.state = "adjust" BY <2>1, <2>8, <2>9, ProbeScrewsStayOff
  <2>11. ProbeQuiet(c) /\ MP!Shape(c) /\ c.exc = MP!None /\ c.cmds["ACCEPT"] = MP!None /\ c.cmds["ADJUSTED"] = MP!None
         /\ c.cmds["ABORT"] = MP!None /\ c.cmds["TESTZ"] = MP!None
    BY <2>10 DEF ProbeScrewsOff, ProbeQuiet
  <2>12. ProbeRegistered(c, r1, "ACCEPT", "screws") BY <1>0, <2>4, <2>11, ProbeRegisters
  <2>13. MP!Shape(r1) /\ r1.exc = MP!None /\ r1.cmds["ADJUSTED"] = MP!None BY <1>0, <2>11, <2>12 DEF ProbeRegistered
  <2>14. ProbeRegistered(r1, r2, "ADJUSTED", "screws") BY <1>0, <2>5, <2>13, ProbeRegisters
  <2>15. MP!Shape(r2) /\ r2.exc = MP!None /\ r2.cmds["ABORT"] = MP!None BY <1>0, <2>11, <2>12, <2>14 DEF ProbeRegistered
  <2>16. ProbeRegistered(r2, b, "ABORT", "screws") BY <1>0, <2>6, <2>15, ProbeRegisters
  <2>17. /\ b.cmds["ACCEPT"] = "screws" /\ b.cmds["ADJUSTED"] = "screws" /\ b.cmds["ABORT"] = "screws"
         /\ b.cmds["TESTZ"] = MP!None
         /\ b.cmds["TEMPERATURE_PROBE_NEXT"] = c.cmds["TEMPERATURE_PROBE_NEXT"]
         /\ b.cmds["TEMPERATURE_PROBE_COMPLETE"] = c.cmds["TEMPERATURE_PROBE_COMPLETE"]
    BY <2>11, <2>12, <2>14, <2>16 DEF ProbeRegistered, MP!Temporary
  <2>18. /\ MP!Shape(b) /\ b.helper = c.helper /\ b.status = c.status /\ b.points = c.points /\ b.retry = c.retry
         /\ b.applied = c.applied /\ b.screws = c.screws /\ b.tp = c.tp
    BY <2>12, <2>14, <2>16 DEF ProbeRegistered
  <2>19. MP!TiltIsLevel(b) /\ MP!RoundsAreCounted(b) /\ MP!PointIsDue(b)
    BY <2>11, <2>18 DEF ProbeQuiet, MP!TiltIsLevel, MP!RoundsAreCounted, MP!PointIsDue
  <2>20. MP!ManualHasCommands(b) BY <2>11, <2>17, <2>18 DEF ProbeQuiet, MP!ManualHasCommands, MP!None
  <2>21. MP!ScrewsHaveCommands(b) BY <2>10, <2>17, <2>18 DEF MP!ScrewsHaveCommands, MP!None
  <2>22. MP!DriftHasCommands(b) BY <2>10, <2>17, <2>18 DEF ProbeScrewsOff, MP!DriftHasCommands
  <2>23. MP!AbortIsOfOne(b) BY <2>10, <2>11, <2>17, <2>18 DEF ProbeScrewsOff, ProbeQuiet, MP!AbortIsOfOne, MP!Idle, MP!None
  <2> QED BY <2>18, <2>19, <2>20, <2>21, <2>22, <2>23 DEF MP!Sound, MP!Owners
<1> QED BY <1>5, <1>6

\* A screw is good, or was adjusted: the next one, or the end.
LEMMA ProbeScrewsGoOn ==
  ASSUME MP!ManualProbeAssumption, NEW a, NEW u, u = MP!unregister_commands(a), ProbeScrewsOff(u), NEW b, b = MP!ScrewsACCEPT(a)
  PROVE  MP!Sound(b)
<1>1. PICK c : c = [u EXCEPT !.screws.accepted = @ + 1] OBVIOUS
<1>2. PICK w : w = [u.screws EXCEPT !.accepted = @ + 1] OBVIOUS
<1>3. c = [u EXCEPT !.screws = w] BY <1>1, <1>2
<1>4. u.screws \in [state : {MP!None, "adjust"}, current : 0 .. BedScrews, accepted : Int] /\ BedScrews \in Nat
  BY ProbeConstants DEF ProbeScrewsOff, ProbeQuiet, MP!Shape
<1>5. w \in [state : {MP!None, "adjust"}, current : 0 .. BedScrews, accepted : Int] BY <1>2, <1>4
<1>6. ProbeScrewsOff(c) /\ c.screws = w BY <1>3, <1>5, ProbeScrewsStayOff
<1>7. CASE c.screws.current + 1 < BedScrews /\ c.screws.accepted < BedScrews
  <2>1. b = MP!move_to_screw(c, c.screws.current + 1) BY <1>1, <1>7, Zenon DEF MP!ScrewsACCEPT
  <2>2. c.screws.current + 1 \in 0 .. BedScrews BY <1>4, <1>5, <1>6, <1>7
  <2> QED BY <2>1, <2>2, <1>6, ProbeComesToScrew
<1>8. CASE ~ (c.screws.current + 1 < BedScrews /\ c.screws.accepted < BedScrews) /\ c.screws.accepted < BedScrews
  <2>1. b = MP!move_to_screw(c, 0) BY <1>1, <1>8, Zenon DEF MP!ScrewsACCEPT
  <2>2. 0 \in 0 .. BedScrews BY <1>4
  <2> QED BY <2>1, <2>2, <1>6, ProbeComesToScrew
<1>9. CASE ~ (c.screws.accepted < BedScrews)
  <2>1. PICK r : r = MP!ScrewsReset(c) OBVIOUS
  <2>2. b = MP!ScrewsMove(r, ProbeTop) BY <1>1, <1>9, <2>1, Zenon DEF MP!ScrewsACCEPT
  <2>3. PICK x : x = [state |-> MP!None, current |-> 0, accepted |-> 0] OBVIOUS
  <2>4. x \in [state : {MP!None, "adjust"}, current : 0 .. BedScrews, accepted : Int] /\ x.state = MP!None BY <2>3, <1>4
  <2>5. ProbeScrewsOff(r) /\ r.screws = x
    <3>1. r = [c EXCEPT !.screws = x] BY <2>1, <2>3 DEF MP!ScrewsReset
    <3> QED BY <3>1, <2>4, <1>6, ProbeScrewsStayOff
  <2>6. (ProbeScrewsOff(b) /\ b.screws = r.screws) \/ (MP!Sound(b) /\ b.exc # MP!None)
    BY <2>2, <2>5, ProbeScrewsMoves
  <2>7. ASSUME ProbeScrewsOff(b), b.screws = r.screws PROVE MP!Sound(b)
    BY <2>7, <2>4, <2>5, ProbeQuietIsSound DEF ProbeScrewsOff
  <2> QED BY <2>6, <2>7
<1> QED BY <1>7, <1>8, <1>9

\* The screws have all the commands or none of them.
LEMMA ProbeScrewsGoOff ==
  ASSUME NEW a, MP!Sound(a), a.exc = MP!None, a.cmds["ACCEPT"] = "screws", NEW u, u = MP!unregister_commands(a)
  PROVE  ProbeScrewsOff(u)
<1>1. /\ MP!Shape(a) /\ MP!TiltIsLevel(a) /\ MP!RoundsAreCounted(a) /\ MP!PointIsDue(a) /\ MP!ManualHasCommands(a) /\ MP!ScrewsHaveCommands(a)
      /\ MP!DriftHasCommands(a) /\ MP!AbortIsOfOne(a)
  BY DEF MP!Sound, MP!Owners, MP!None
<1>2. a.helper = MP!Idle /\ a.status.active = FALSE /\ a.cmds["TESTZ"] = MP!None BY <1>1 DEF MP!ManualHasCommands
<1>3. ~ a.tp.active BY <1>1 DEF MP!ScrewsHaveCommands, MP!AbortIsOfOne
<1>4. /\ MP!Shape(u) /\ u.exc = a.exc
      /\ \A d \in MP!Temporary : u.cmds[d] = IF d \in {"ACCEPT", "ADJUSTED", "ABORT"} THEN MP!None ELSE a.cmds[d]
      /\ u.helper = a.helper /\ u.status = a.status /\ u.points = a.points /\ u.retry = a.retry /\ u.z = a.z
      /\ u.applied = a.applied /\ u.screws = a.screws /\ u.tp = a.tp /\ u.temp = a.temp /\ u.moves = a.moves
  BY <1>1, ProbeUnregisters DEF MP!unregister_commands
<1>5. /\ u.cmds["ACCEPT"] = MP!None /\ u.cmds["ADJUSTED"] = MP!None /\ u.cmds["ABORT"] = MP!None /\ u.cmds["TESTZ"] = MP!None
      /\ u.cmds["TEMPERATURE_PROBE_NEXT"] = a.cmds["TEMPERATURE_PROBE_NEXT"]
      /\ u.cmds["TEMPERATURE_PROBE_COMPLETE"] = a.cmds["TEMPERATURE_PROBE_COMPLETE"]
  BY <1>2, <1>4 DEF MP!Temporary
<1>6. MP!TiltIsLevel(u) /\ MP!RoundsAreCounted(u) /\ MP!PointIsDue(u) /\ MP!DriftHasCommands(u)
  BY <1>1, <1>4, <1>5 DEF MP!TiltIsLevel, MP!RoundsAreCounted, MP!PointIsDue, MP!DriftHasCommands
<1> QED BY <1>2, <1>3, <1>4, <1>5, <1>6 DEF ProbeScrewsOff, ProbeQuiet

LEMMA ProbeScrewsAdjusted ==
  ASSUME MP!ManualProbeAssumption, NEW a, MP!Sound(a), a.exc = MP!None, a.cmds["ADJUSTED"] = "screws", NEW b, b = MP!ScrewsADJUSTED(a)
  PROVE  MP!Sound(b)
<1>1. PICK u : u = MP!unregister_commands(a) OBVIOUS
<1>2. PICK c : c = [u EXCEPT !.screws.accepted = -1] OBVIOUS
<1>3. b = MP!ScrewsACCEPT(c) BY <1>1, <1>2, Zenon DEF MP!ScrewsADJUSTED
<1>4. a.cmds["ACCEPT"] = "screws" BY DEF MP!Sound, MP!Owners, MP!ScrewsHaveCommands, MP!None
<1>5. ProbeScrewsOff(u) BY <1>1, <1>4, ProbeScrewsGoOff
<1>6. PICK w : w = [u.screws EXCEPT !.accepted = -1] OBVIOUS
<1>7. c = [u EXCEPT !.screws = w] BY <1>2, <1>6
<1>8. w \in [state : {MP!None, "adjust"}, current : 0 .. BedScrews, accepted : Int]
  BY <1>5, <1>6 DEF ProbeScrewsOff, ProbeQuiet, MP!Shape
<1>9. ProbeScrewsOff(c) BY <1>5, <1>7, <1>8, ProbeScrewsStayOff
<1>10. PICK v : v = MP!unregister_commands(c) OBVIOUS
<1>11. ProbeScrewsOff(v) BY <1>9, <1>10, ProbeUnregistersOff DEF ProbeScrewsOff
<1> QED BY <1>3, <1>10, <1>11, ProbeScrewsGoOn

LEMMA ProbeScrewsAbort ==
  ASSUME MP!ManualProbeAssumption, NEW a, MP!Sound(a), a.exc = MP!None, a.cmds["ABORT"] = "screws", NEW b, b = MP!ScrewsABORT(a)
  PROVE  MP!Sound(b)
<1>1. PICK u : u = MP!unregister_commands(a) OBVIOUS
<1>2. PICK x : x = [state |-> MP!None, current |-> 0, accepted |-> 0] OBVIOUS
<1>3. b = [u EXCEPT !.screws = x] BY <1>1, <1>2, Zenon DEF MP!ScrewsABORT, MP!ScrewsReset
<1>4. a.cmds["ACCEPT"] = "screws" BY DEF MP!Sound, MP!Owners, MP!AbortIsOfOne, MP!None
<1>5. ProbeScrewsOff(u) BY <1>1, <1>4, ProbeScrewsGoOff
<1>6. x \in [state : {MP!None, "adjust"}, current : 0 .. BedScrews, accepted : Int] /\ x.state = MP!None BY <1>2, ProbeConstants
<1>7. ProbeScrewsOff(b) /\ b.screws = x BY <1>3, <1>5, <1>6, ProbeScrewsStayOff
<1> QED BY <1>6, <1>7, ProbeQuietIsSound DEF ProbeScrewsOff

\* BED_SCREWS_ADJUST while no other tool has ABORT.
LEMMA ProbeScrewsStart ==
  ASSUME MP!ManualProbeAssumption, NEW a, MP!Sound(a), a.exc = MP!None, a.cmds["ABORT"] \in {MP!None, "screws"},
         NEW b, b = MP!cmd_BED_SCREWS_ADJUST(a)
  PROVE  MP!Sound(b)
<1>1. MP!Shape(a) /\ MP!Owners(a) BY DEF MP!Sound, MP!None
<1>2. CASE a.screws.state # MP!None
  <2>1. b = MP!Raise(a, "error") BY <1>2 DEF MP!cmd_BED_SCREWS_ADJUST
  <2>2. ProbeKept(a, b) BY <2>1, <1>1, ProbeRaises
  <2> QED BY <2>2, ProbeKeptIsSound DEF MP!None
<1>3. CASE a.screws.state = MP!None
  <2>1. PICK c : c = [a EXCEPT !.screws.accepted = 0] OBVIOUS
  <2>2. PICK m : m = MP!ScrewsMove(c, ProbeTop) OBVIOUS
  <2>3. b = MP!move_to_screw(m, 0) BY <1>3, <2>1, <2>2, Zenon DEF MP!cmd_BED_SCREWS_ADJUST
  <2>4. a.cmds["ACCEPT"] # "screws" BY <1>1, <1>3 DEF MP!Owners, MP!ScrewsHaveCommands
  <2>5. a.cmds["ACCEPT"] = MP!None /\ a.cmds["ABORT"] = MP!None /\ ~ a.tp.active
    BY <1>1, <2>4 DEF MP!Owners, MP!AbortIsOfOne, MP!None
  <2>6. ProbeScrewsOff(a) BY <2>5, ProbeIsQuiet DEF ProbeScrewsOff
  <2>7. PICK w : w = [a.screws EXCEPT !.accepted = 0] OBVIOUS
  <2>8. c = [a EXCEPT !.screws = w] BY <2>1, <2>7
  <2>9. w \in [state : {MP!None, "adjust"}, current : 0 .. BedScrews, accepted : Int] BY <1>1, <2>7 DEF MP!Shape
  <2>10. ProbeScrewsOff(c) BY <2>6, <2>8, <2>9, ProbeScrewsStayOff
  <2>11. ProbeScrewsOff(m) \/ (MP!Sound(m) /\ m.exc # MP!None) BY <2>2, <2>10, ProbeScrewsMoves
  <2>12. 0 \in 0 .. BedScrews BY ProbeConstants
  <2> QED BY <2>3, <2>11, <2>12, ProbeComesToScrew
<1> QED BY <1>2, <1>3

LEMMA ProbeVerifiesSound ==
  ASSUME NEW a, MP!Sound(a), NEW b, b = MP!verify_no_manual_probe(a)
  PROVE  /\ ProbeKept(a, b) /\ MP!Sound(b)
         /\ b.exc = MP!None => a.exc = MP!None /\ a.cmds["ACCEPT"] = MP!None /\ b = a
<1>1. MP!Shape(a) BY DEF MP!Sound
<1>2. /\ ProbeKept(a, b)
      /\ b.exc = MP!None => a.exc = MP!None /\ a.cmds["ACCEPT"] = MP!None /\ b = a
      /\ b.exc = a.exc \/ (a.exc = MP!None /\ b.exc = "error")
  BY <1>1, ProbeVerifies
<1> QED BY <1>2, ProbeKeptIsSound DEF MP!None

LEMMA ProbeCalibrateStarts ==
  ASSUME NEW a, MP!Sound(a), NEW b, b = MP!cmd_PROBE_CALIBRATE(a)
  PROVE  MP!Sound(b)
<1>1. PICK v : v = MP!verify_no_manual_probe(a) OBVIOUS
<1>2. MP!Sound(v) BY <1>1, ProbeVerifiesSound
<1>3. b = MP!ManualProbeHelper(MP!Move(MP!Move(v, ProbeTop), ProbeTop), "probe") BY <1>1, Zenon DEF MP!cmd_PROBE_CALIBRATE
<1> QED BY <1>2, <1>3, ProbeComesToPoint

LEMMA ProbeTwistStarts ==
  ASSUME NEW a, MP!Sound(a), a.exc = MP!None, NEW b, b = MP!cmd_AXIS_TWIST(a)
  PROVE  MP!Sound(b)
<1>1. PICK c : c = [a EXCEPT !.twist.kept = FALSE] OBVIOUS
<1>2. PICK v : v = MP!verify_no_manual_probe(c) OBVIOUS
<1>3. MP!Shape(a) BY DEF MP!Sound
<1>4. PICK t : c = [a EXCEPT !.twist = t] BY <1>1
<1>5. ProbeKept(a, c) BY <1>3, <1>4 DEF MP!Shape, MP!Fields, ProbeKept
<1>6. MP!Sound(c) BY <1>5, ProbeKeptIsSound DEF MP!None
<1>7. MP!Sound(v) BY <1>2, <1>6, ProbeVerifiesSound
<1>8. CASE ~ MP!Ok(v)
  <2>1. b = v BY <1>1, <1>2, <1>8, Zenon DEF MP!cmd_AXIS_TWIST
  <2> QED BY <2>1, <1>7
<1>9. CASE MP!Ok(v)
  <2>1. PICK d : d = [v EXCEPT !.twist.index = 0] OBVIOUS
  <2>2. PICK u : d = [v EXCEPT !.twist = u] BY <2>1
  <2>3. ProbeKept(v, d) BY <1>7, <2>2 DEF MP!Sound, MP!Shape, MP!Fields, ProbeKept
  <2>4. MP!Sound(d) BY <1>7, <1>9, <2>3, ProbeKeptIsSound DEF MP!None, MP!Ok
  <2>5. b = MP!ManualProbeHelper(MP!Move(MP!Move(d, ProbeTop), ProbeTop), "twist")
    BY <1>1, <1>2, <1>9, <2>1, Zenon DEF MP!cmd_AXIS_TWIST, MP!_calibration
  <2> QED BY <2>4, <2>5, ProbeComesToPoint
<1> QED BY <1>8, <1>9

\* A tool that probes points starts, by itself or with a person.
LEMMA ProbeToolStarts ==
  ASSUME MP!ManualProbeAssumption, NEW a, MP!Sound(a), a.exc = MP!None, NEW tool \in MP!Tools, NEW auto \in BOOLEAN,
         NEW b, b = MP!start_probe(a, tool, auto)
  PROVE  MP!Sound(b)
<1>1. PICK x : x = IF tool = "z_tilt" THEN MP!cmd_Z_TILT_ADJUST(a) ELSE a OBVIOUS
<1>2. PICK v : v = MP!verify_no_manual_probe(x) OBVIOUS
<1>3. PICK c : c = [v EXCEPT !.points = [tool |-> tool, auto |-> auto, count |-> 0]] OBVIOUS
<1>4. MP!Sound(x) /\ x.exc = MP!None /\ (tool = "z_tilt" => ~ x.applied /\ x.retry.current = 0)
  <2>1. CASE tool = "z_tilt"
    <3>1. x = [a EXCEPT !.applied = FALSE, !.retry = MP!Fresh] BY <2>1, <1>1 DEF MP!cmd_Z_TILT_ADJUST
    <3>2. MP!Fresh \in [current : Nat, previous : Nat, increasing : Int] /\ MP!Fresh.current = 0 BY DEF MP!Fresh
    <3>3. /\ MP!Shape(x) /\ x.applied = FALSE /\ x.retry = MP!Fresh /\ x.helper = a.helper /\ x.exc = a.exc /\ x.points = a.points
          /\ x.cmds = a.cmds /\ x.status = a.status /\ x.screws = a.screws /\ x.tp = a.tp
      BY <3>1, <3>2 DEF MP!Sound, MP!Shape, MP!Fields
    <3>4. MP!TiltIsLevel(x) /\ MP!RoundsAreCounted(x) BY <3>2, <3>3, ProbeConstants DEF MP!TiltIsLevel, MP!RoundsAreCounted
    <3>5. MP!PointIsDue(x) BY <3>3 DEF MP!Sound, MP!PointIsDue, MP!None
    <3>6. MP!Owners(x) BY <3>3, ProbeOwnersKept DEF MP!Sound, MP!None
    <3> QED BY <3>2, <3>3, <3>4, <3>5, <3>6 DEF MP!Sound
  <2>2. CASE tool # "z_tilt"
    <3>1. x = a BY <2>2, <1>1
    <3> QED BY <3>1, <2>2
  <2> QED BY <2>1, <2>2
<1>5. MP!Sound(v) /\ (v.exc = MP!None => v = x /\ x.cmds["ACCEPT"] = MP!None) BY <1>2, <1>4, ProbeVerifiesSound
<1>6. CASE v.exc # MP!None
  <2>1. b = v BY <1>1, <1>2, <1>6, Zenon DEF MP!start_probe, MP!Ok
  <2> QED BY <2>1, <1>5
<1>7. CASE v.exc = MP!None
  <2>1. /\ ProbeQuiet(x) /\ x.screws.state = MP!None /\ MP!DriftHasCommands(x)
        /\ x.cmds["ABORT"] = IF x.tp.active THEN "temp" ELSE MP!None
    BY <1>4, <1>5, <1>7, ProbeIsQuiet
  <2>2. PICK p : p = [tool |-> tool, auto |-> auto, count |-> 0] OBVIOUS
  <2>3. p \in [tool : MP!Tools \cup {MP!None}, auto : BOOLEAN, count : 0 .. ProbePoints] /\ p.tool = tool /\ p.auto = auto
    BY <2>2, ProbeConstants
  <2>4. c = [x EXCEPT !.points = p] BY <1>3, <1>5, <1>7, <2>2
  <2>5. /\ MP!Shape(c) /\ c.points = p /\ c.applied = x.applied /\ c.retry = x.retry /\ c.helper = x.helper /\ c.exc = x.exc
        /\ c.cmds = x.cmds /\ c.status = x.status /\ c.screws = x.screws /\ c.tp = x.tp
    BY <2>1, <2>3, <2>4 DEF ProbeQuiet, MP!Shape, MP!Fields
  <2>6. MP!TiltIsLevel(c) /\ MP!RoundsAreCounted(c)
    BY <2>1, <2>3, <2>5, <1>4, ProbeConstants DEF ProbeQuiet, MP!TiltIsLevel, MP!RoundsAreCounted
  <2>7. c.helper = MP!Idle BY <2>1, <2>5 DEF ProbeQuiet
  <2>8. MP!PointIsDue(c) BY <2>3, <2>5, <2>7 DEF MP!PointIsDue, MP!Idle, MP!None, MP!Tools
  <2>9. MP!Owners(c) BY <2>5, <1>4, ProbeOwnersKept DEF MP!Sound, MP!None
  <2>10. MP!Sound(c) BY <2>5, <2>6, <2>8, <2>9 DEF MP!Sound
  <2>11. CASE auto
    <3>1. b = c BY <1>1, <1>2, <1>3, <1>7, <2>11, Zenon DEF MP!start_probe, MP!Ok
    <3> QED BY <3>1, <2>10
  <2>12. CASE ~ auto
    <3>1. b = MP!_manual_probe_start(c, 0) BY <1>1, <1>2, <1>3, <1>7, <2>12, Zenon DEF MP!start_probe, MP!Ok
    <3> QED BY <3>1, <1>4, <2>3, <2>5, <2>7, <2>10, <2>12, ProbePointStarts
  <2> QED BY <2>11, <2>12
<1> QED BY <1>6, <1>7

LEMMA ProbeDriftEndsRaising ==
  ASSUME NEW a, ProbeQuiet(a), a.screws.state = MP!None, NEW e \in {"error", "crash"},
         NEW b, b = MP!AndRaise(MP!_finalize_drift_cal(MP!Caught(a), FALSE), e)
  PROVE  MP!Sound(b)
<1>1. PICK y : y = MP!Caught(a) OBVIOUS
<1>2. PICK z : z = MP!_finalize_drift_cal(y, FALSE) OBVIOUS
<1>3. ProbeKept(a, y) /\ y.exc = MP!None BY <1>1, ProbeCaught DEF ProbeQuiet
<1>4. ProbeQuiet(y) /\ y.screws.state = MP!None BY <1>3, ProbeQuietKept DEF ProbeKept
<1>5. MP!Sound(z) BY <1>2, <1>3, <1>4, ProbeDriftEnds
<1>6. b = MP!AndRaise(z, e) BY <1>1, <1>2
<1> QED BY <1>5, <1>6, ProbeGoesOnRaising

LEMMA ProbeDriftStarts ==
  ASSUME MP!ManualProbeAssumption, NEW a, MP!Sound(a), a.exc = MP!None, NEW b, b = MP!cmd_TEMPERATURE_PROBE_CALIBRATE(a)
  PROVE  MP!Sound(b)
<1>0. "TEMPERATURE_PROBE_NEXT" \in MP!Temporary /\ "TEMPERATURE_PROBE_COMPLETE" \in MP!Temporary BY DEF MP!Temporary
<1>1. PICK v : v = MP!verify_no_manual_probe(a) OBVIOUS
<1>2. PICK r : r = MP!Register(v, "TEMPERATURE_PROBE_NEXT", "temp") OBVIOUS
<1>3. PICK c : c = MP!Register(r, "TEMPERATURE_PROBE_COMPLETE", "temp") OBVIOUS
<1>4. PICK e : e = [c EXCEPT !.tp = [MP!ColdTp EXCEPT !.active = TRUE, !.heat = TRUE]] OBVIOUS
<1>5. PICK d : d = MP!Move(e, c.z) OBVIOUS
<1>6. MP!Sound(v) /\ (v.exc = MP!None => a.cmds["ACCEPT"] = MP!None /\ v = a) BY <1>1, ProbeVerifiesSound
<1>7. ASSUME b = MP!Raise(v, "error") PROVE MP!Sound(b)
  <2>1. ProbeKept(v, b) /\ b.exc = (IF v.exc = MP!None THEN "error" ELSE v.exc) BY <1>6, <1>7, ProbeRaises DEF MP!Sound
  <2> QED BY <2>1, <1>6, ProbeKeptIsSound DEF MP!None
<1>8. CASE ~ MP!Ok(v) \/ a.tp.active \/ ~ a.homed \/ a.temp >= DriftEnd
  <2>1. b = MP!Raise(v, "error") BY <1>1, <1>8, Zenon DEF MP!cmd_TEMPERATURE_PROBE_CALIBRATE
  <2> QED BY <2>1, <1>7
<1>9. CASE ~ (~ MP!Ok(v) \/ a.tp.active \/ ~ a.homed \/ a.temp >= DriftEnd)
  <2>1. v = a /\ ~ a.tp.active /\ a.cmds["ACCEPT"] = MP!None BY <1>6, <1>9 DEF MP!Ok
  <2>2. /\ ProbeQuiet(a) /\ a.screws.state = MP!None /\ MP!DriftHasCommands(a) /\ a.cmds["ABORT"] = MP!None
    BY <2>1, ProbeIsQuiet
  <2>3. a.cmds["TEMPERATURE_PROBE_NEXT"] = MP!None /\ a.cmds["TEMPERATURE_PROBE_COMPLETE"] = MP!None /\ MP!Shape(a)
    BY <2>1, <2>2 DEF MP!DriftHasCommands, ProbeQuiet
  <2>4. ProbeRegistered(a, r, "TEMPERATURE_PROBE_NEXT", "temp") BY <1>0, <1>2, <2>1, <2>3, ProbeRegisters
  <2>5. MP!Shape(r) /\ r.exc = MP!None /\ r.cmds["TEMPERATURE_PROBE_COMPLETE"] = MP!None BY <1>0, <2>3, <2>4 DEF ProbeRegistered
  <2>6. ProbeRegistered(r, c, "TEMPERATURE_PROBE_COMPLETE", "temp") BY <1>0, <1>3, <2>5, ProbeRegisters
  <2>7. /\ c.cmds["TEMPERATURE_PROBE_NEXT"] = "temp" /\ c.cmds["TEMPERATURE_PROBE_COMPLETE"] = "temp"
        /\ c.cmds["ACCEPT"] = MP!None /\ c.cmds["TESTZ"] = MP!None /\ c.cmds["ADJUSTED"] = MP!None /\ c.cmds["ABORT"] = MP!None
    BY <2>2, <2>4, <2>6 DEF ProbeRegistered, ProbeQuiet, MP!Temporary
  <2>8. PICK t : t = [MP!ColdTp EXCEPT !.active = TRUE, !.heat = TRUE] OBVIOUS
  <2>9. t \in [active : BOOLEAN, count : Nat, next : Nat, heat : BOOLEAN] /\ t.active BY <2>8 DEF MP!ColdTp, MP!Never
  <2>10. e = [c EXCEPT !.tp = t] BY <1>4, <2>8
  <2>11. /\ MP!Shape(e) /\ e.tp = t /\ e.exc = MP!None /\ e.cmds = c.cmds /\ e.helper = a.helper /\ e.status = a.status
         /\ e.points = a.points /\ e.retry = a.retry /\ e.applied = a.applied /\ e.screws = a.screws
    BY <2>4, <2>6, <2>9, <2>10 DEF ProbeRegistered, MP!Shape, MP!Fields
  <2>12. MP!TiltIsLevel(e) /\ MP!RoundsAreCounted(e) /\ MP!PointIsDue(e)
    BY <2>2, <2>11 DEF ProbeQuiet, MP!TiltIsLevel, MP!RoundsAreCounted, MP!PointIsDue
  <2>13. ProbeQuiet(e) BY <2>2, <2>7, <2>11, <2>12 DEF ProbeQuiet
  <2>14. ProbeKept(e, d) /\ (d.exc = MP!None \/ d.exc = "error") BY <1>5, <2>11, ProbeMoves
  <2>15. ProbeQuiet(d) /\ d.tp = t /\ d.cmds = c.cmds /\ d.screws.state = MP!None
    BY <2>2, <2>11, <2>13, <2>14, ProbeQuietKept DEF ProbeKept
  <2>16. MP!Ok(c) BY <2>6 DEF ProbeRegistered, MP!Ok
  <2>17. CASE d.exc = "error"
    <3>1. d.exc # MP!None BY <2>17 DEF MP!None
    <3>2. b = MP!AndRaise(MP!_finalize_drift_cal(MP!Caught(d), FALSE), d.exc)
      BY <1>1, <1>2, <1>3, <1>4, <1>5, <1>9, <2>16, <3>1, Zenon DEF MP!cmd_TEMPERATURE_PROBE_CALIBRATE, MP!Ok
    <3> QED BY <3>2, <2>15, <2>17, ProbeDriftEndsRaising
  <2>18. CASE d.exc = MP!None
    <3>1. b = MP!ManualProbeHelper(d, "temp")
      BY <1>1, <1>2, <1>3, <1>4, <1>5, <1>9, <2>16, <2>18, Zenon DEF MP!cmd_TEMPERATURE_PROBE_CALIBRATE, MP!Ok
    <3>2. MP!Shape(d) /\ MP!TiltIsLevel(d) /\ MP!RoundsAreCounted(d) /\ (d.points.auto => d.points.tool # MP!None)
      BY <2>15 DEF ProbeQuiet, MP!PointIsDue
    <3>3. MP!DriftHasCommands(d) /\ d.tp.active BY <2>7, <2>9, <2>15 DEF MP!DriftHasCommands
    <3>4. \A x \in {"ACCEPT", "ABORT", "TESTZ", "ADJUSTED"} : d.cmds[x] = MP!None BY <2>7, <2>15
    <3>5. "temp" \in MP!Clients \ {MP!None} BY DEF MP!Clients, MP!None
    <3> QED BY <3>1, <3>2, <3>3, <3>4, <3>5, <2>15, <2>18, ProbeIsTaken
  <2> QED BY <2>14, <2>17, <2>18
<1> QED BY <1>8, <1>9

LEMMA ProbeDriftNext ==
  ASSUME MP!ManualProbeAssumption, NEW a, MP!Sound(a), a.exc = MP!None, a.tp.active, NEW b, b = MP!cmd_TEMPERATURE_PROBE_NEXT(a)
  PROVE  MP!Sound(b)
<1>1. PICK v : v = MP!verify_no_manual_probe(a) OBVIOUS
<1>2. PICK e : e = [v EXCEPT !.tp.next = MP!Never] OBVIOUS
<1>3. PICK c : c = MP!Move(e, v.z) OBVIOUS
<1>4. PICK u : u = MP!Unregister(c, {"ABORT"}) OBVIOUS
<1>5. MP!Sound(v) /\ (v.exc = MP!None => a.cmds["ACCEPT"] = MP!None /\ v = a) BY <1>1, ProbeVerifiesSound
<1>6. CASE v.exc # MP!None
  <2>1. b = v BY <1>1, <1>6, Zenon DEF MP!cmd_TEMPERATURE_PROBE_NEXT, MP!Ok
  <2> QED BY <2>1, <1>5
<1>7. CASE v.exc = MP!None
  <2>1. v = a /\ a.cmds["ACCEPT"] = MP!None BY <1>5, <1>7
  <2>2. ProbeQuiet(a) /\ a.screws.state = MP!None /\ MP!DriftHasCommands(a) /\ a.cmds["ABORT"] = "temp"
    BY <2>1, ProbeIsQuiet
  <2>3. MP!Shape(a) BY <2>2 DEF ProbeQuiet
  <2>4. PICK t : t = [a.tp EXCEPT !.next = MP!Never] OBVIOUS
  <2>5. t \in [active : BOOLEAN, count : Nat, next : Nat, heat : BOOLEAN] /\ t.active /\ t.heat = a.tp.heat
    BY <2>3, <2>4 DEF MP!Shape, MP!Never
  <2>6. e = [a EXCEPT !.tp = t] BY <1>2, <2>1, <2>4
  <2>7. /\ MP!Shape(e) /\ e.tp = t /\ e.exc = MP!None /\ e.cmds = a.cmds /\ e.helper = a.helper /\ e.status = a.status
        /\ e.points = a.points /\ e.retry = a.retry /\ e.applied = a.applied /\ e.screws = a.screws
    BY <2>3, <2>5, <2>6 DEF MP!Shape, MP!Fields
  <2>8. MP!TiltIsLevel(e) /\ MP!RoundsAreCounted(e) /\ MP!PointIsDue(e)
    BY <2>2, <2>7 DEF ProbeQuiet, MP!TiltIsLevel, MP!RoundsAreCounted, MP!PointIsDue
  <2>9. ProbeQuiet(e) BY <2>2, <2>7, <2>8 DEF ProbeQuiet
  <2>10. ProbeKept(e, c) /\ (c.exc = MP!None \/ c.exc = "error") BY <1>3, <2>7, ProbeMoves
  <2>11. ProbeQuiet(c) /\ c.tp = t /\ c.cmds = a.cmds /\ c.screws.state = MP!None
    BY <2>2, <2>7, <2>9, <2>10, ProbeQuietKept DEF ProbeKept
  <2>12. CASE c.exc # MP!None
    <3>1. b = c BY <1>1, <1>2, <1>3, <1>7, <2>12, Zenon DEF MP!cmd_TEMPERATURE_PROBE_NEXT, MP!Ok
    <3>2. MP!DriftHasCommands(c) BY <2>2, <2>5, <2>11 DEF MP!DriftHasCommands
    <3>3. c.cmds["ABORT"] = IF c.tp.active THEN "temp" ELSE MP!None BY <2>2, <2>5, <2>11
    <3> QED BY <3>1, <3>2, <3>3, <2>11, ProbeQuietIsSound
  <2>13. CASE c.exc = MP!None
    <3>1. b = MP!ManualProbeHelper(u, "temp")
      BY <1>1, <1>2, <1>3, <1>4, <1>7, <2>13, Zenon DEF MP!cmd_TEMPERATURE_PROBE_NEXT, MP!Ok
    <3>2. /\ MP!Shape(u) /\ u.exc = MP!None /\ \A x \in MP!Temporary : u.cmds[x] = IF x \in {"ABORT"} THEN MP!None ELSE c.cmds[x]
          /\ u.helper = c.helper /\ u.status = c.status /\ u.points = c.points /\ u.retry = c.retry
          /\ u.applied = c.applied /\ u.screws = c.screws /\ u.tp = c.tp
      BY <1>4, <2>11, <2>13, ProbeUnregisters DEF ProbeQuiet
    <3>3. /\ u.cmds["ACCEPT"] = MP!None /\ u.cmds["ADJUSTED"] = MP!None /\ u.cmds["ABORT"] = MP!None /\ u.cmds["TESTZ"] = MP!None
          /\ u.cmds["TEMPERATURE_PROBE_NEXT"] = a.cmds["TEMPERATURE_PROBE_NEXT"]
          /\ u.cmds["TEMPERATURE_PROBE_COMPLETE"] = a.cmds["TEMPERATURE_PROBE_COMPLETE"]
      BY <2>11, <3>2 DEF ProbeQuiet, MP!Temporary
    <3>4. MP!TiltIsLevel(u) /\ MP!RoundsAreCounted(u) /\ (u.points.auto => u.points.tool # MP!None)
      BY <2>11, <3>2 DEF ProbeQuiet, MP!TiltIsLevel, MP!RoundsAreCounted, MP!PointIsDue
    <3>5. MP!DriftHasCommands(u) /\ u.tp.active BY <2>2, <2>5, <2>11, <3>2, <3>3 DEF MP!DriftHasCommands
    <3>6. \A x \in {"ACCEPT", "ABORT", "TESTZ", "ADJUSTED"} : u.cmds[x] = MP!None BY <3>3
    <3>7. "temp" \in MP!Clients \ {MP!None} /\ u.screws.state = MP!None BY <2>11, <3>2 DEF MP!Clients, MP!None
    <3> QED BY <3>1, <3>2, <3>4, <3>5, <3>6, <3>7, ProbeIsTaken
  <2> QED BY <2>12, <2>13
<1> QED BY <1>6, <1>7

LEMMA ProbeDriftCompletes ==
  ASSUME NEW a, MP!Sound(a), a.exc = MP!None, NEW b, b = MP!cmd_TEMPERATURE_PROBE_COMPLETE(a)
  PROVE  MP!Sound(b)
<1>1. PICK v : v = MP!verify_no_manual_probe(a) OBVIOUS
<1>2. MP!Sound(v) /\ (v.exc = MP!None => a.cmds["ACCEPT"] = MP!None /\ v = a) BY <1>1, ProbeVerifiesSound
<1>3. CASE v.exc # MP!None
  <2>1. b = v BY <1>1, <1>3, Zenon DEF MP!cmd_TEMPERATURE_PROBE_COMPLETE, MP!Ok
  <2> QED BY <2>1, <1>2
<1>4. CASE v.exc = MP!None
  <2>1. b = MP!_finalize_drift_cal(v, a.tp.count >= 3) BY <1>1, <1>4, Zenon DEF MP!cmd_TEMPERATURE_PROBE_COMPLETE, MP!Ok
  <2>2. v = a /\ ProbeQuiet(a) /\ a.screws.state = MP!None BY <1>2, <1>4, ProbeIsQuiet
  <2>3. (a.tp.count >= 3) \in BOOLEAN BY DEF MP!Sound, MP!Shape
  <2> QED BY <2>1, <2>2, <2>3, ProbeDriftEnds
<1> QED BY <1>3, <1>4

LEMMA ProbeDriftAborts ==
  ASSUME NEW a, MP!Sound(a), a.exc = MP!None, a.cmds["ABORT"] = "temp", NEW b, b = MP!cmd_TEMPERATURE_PROBE_ABORT(a)
  PROVE  MP!Sound(b)
<1>1. a.cmds["ACCEPT"] = MP!None BY DEF MP!Sound, MP!Owners, MP!AbortIsOfOne, MP!None
<1>2. ProbeQuiet(a) /\ a.screws.state = MP!None BY <1>1, ProbeIsQuiet
<1>3. b = MP!_finalize_drift_cal(a, FALSE) BY DEF MP!cmd_TEMPERATURE_PROBE_ABORT
<1> QED BY <1>2, <1>3, ProbeDriftEnds

\* Whichever tool a person starts.
LEMMA ProbeStarts ==
  ASSUME MP!ManualProbeAssumption, NEW a, MP!Sound(a), a.exc = MP!None, NEW b \in MP!Starts(a)
  PROVE  MP!Sound(b)
<1>1. CASE \E client \in {"manual", "endstop", "eddy"} : b = MP!ManualProbeHelper(a, client)
  <2>1. PICK client \in {"manual", "endstop", "eddy"} : b = MP!ManualProbeHelper(a, client) BY <1>1
  <2>2. client \in MP!Clients \ {MP!None, "temp"} /\ client # "points" BY DEF MP!Clients, MP!None
  <2> QED BY <2>1, <2>2, ProbeIsStarted
<1>2. CASE b = MP!cmd_PROBE_CALIBRATE(a) BY <1>2, ProbeCalibrateStarts
<1>3. CASE b = MP!cmd_AXIS_TWIST(a) BY <1>3, ProbeTwistStarts
<1>4. CASE b = MP!cmd_TEMPERATURE_PROBE_CALIBRATE(a) BY <1>4, ProbeDriftStarts
<1>5. CASE b = MP!cmd_BED_SCREWS_ADJUST(a) /\ a.cmds["ABORT"] \in {MP!None, "screws"} BY <1>5, ProbeScrewsStart
<1>6. CASE \E tool \in MP!Tools, auto \in BOOLEAN : b = MP!start_probe(a, tool, auto) BY <1>6, ProbeToolStarts
<1> QED BY <1>1, <1>2, <1>3, <1>4, <1>5, <1>6 DEF MP!Starts, MP!Tools

LEMMA ProbeHasMoves ==
  ASSUME NEW a, MP!Sound(a), NEW k \in Nat, NEW b, b = [a EXCEPT !.moves = k]
  PROVE  MP!Sound(b) /\ ProbeKept(a, b) /\ b.exc = a.exc
<1>1. MP!Shape(a) BY DEF MP!Sound
<1>2. ProbeKept(a, b) /\ b.exc = a.exc BY <1>1 DEF MP!Shape, MP!Fields, ProbeKept
<1> QED BY <1>2, ProbeKeptIsSound

\* A command begins with the moves that go well.
LEMMA ProbeBegins ==
  ASSUME MP!ManualProbeAssumption, MP!IInv, s1.exc = MP!None, NEW in, in.moves \in Nat, NEW a, a = MP!With(in)
  PROVE  MP!Sound(a) /\ ProbeKept(s1, a) /\ a.exc = MP!None
<1>1. PICK k : k = IF s1.homed THEN in.moves ELSE 0 OBVIOUS
<1>2. k \in Nat BY <1>1
<1>3. a = [s1 EXCEPT !.moves = k] BY <1>1 DEF MP!With
<1> QED BY <1>2, <1>3, ProbeHasMoves DEF MP!IInv

LEMMA ProbeEnds ==
  ASSUME NEW a, MP!Sound(a), NEW b, b = MP!Ended(a)
  PROVE  MP!Sound(b) /\ b.exc # "error" /\ b.moves = 0
<1>1. PICK x : x = IF a.exc = "error" THEN MP!None ELSE a.exc OBVIOUS
<1>2. b = [a EXCEPT !.moves = 0, !.exc = IF @ = "error" THEN MP!None ELSE @] BY DEF MP!Ended
<1>3. MP!Shape(a) BY DEF MP!Sound
<1>4. b = [a EXCEPT !.moves = 0, !.exc = x] BY <1>1, <1>2, <1>3 DEF MP!Shape, MP!Fields
<1>5. x \in {MP!None, "crash"} /\ (a.exc = "crash" => x = "crash") BY <1>1, <1>3 DEF MP!Shape, MP!None
<1>6. ProbeKept(a, b) /\ b.exc = x /\ b.moves = 0
  <2>1. b = [f \in MP!Fields |-> b[f]] /\ b.exc = x /\ b.moves = 0 BY <1>3, <1>4 DEF MP!Shape, MP!Fields
  <2>2. /\ b.z = a.z /\ b.cmds = a.cmds /\ b.helper = a.helper /\ b.status = a.status /\ b.points = a.points
        /\ b.retry = a.retry /\ b.applied = a.applied /\ b.screws = a.screws /\ b.tp = a.tp /\ b.temp = a.temp
    BY <1>3, <1>4 DEF MP!Shape, MP!Fields
  <2>3. b.z \in 0 .. ProbeTop /\ b.moves \in Nat /\ b.exc \in {MP!None, "error", "crash"}
    BY <1>3, <1>5, <2>1, <2>2 DEF MP!Shape
  <2> QED BY <2>1, <2>2, <2>3 DEF ProbeKept
<1> QED BY <1>5, <1>6, ProbeKeptIsSound DEF MP!None

LEMMA ProbeInputs ==
  ASSUME MP!ManualProbeAssumption, NEW in \in MP!Inputs
  PROVE  in.moves \in Nat /\ in.error \in Nat
BY ProbeConstants DEF MP!Inputs

LEMMA ProbeEndsWell ==
  ASSUME NEW a, MP!Sound(a), s1' = MP!Ended(a)
  PROVE  MP!Sound(s1)' /\ s1'.exc # "error" /\ s1'.moves = 0
<1>1. ASSUME NEW b, b = MP!Ended(a) PROVE MP!Sound(b) /\ b.exc # "error" /\ b.moves = 0 BY <1>1, ProbeEnds
<1> QED BY <1>1

\* The commands, each with the moves and the measurement that it meets.
LEMMA ProbeCommandKeeps ==
  ASSUME MP!ManualProbeAssumption, MP!IInv,
         MP!Start \/ MP!TESTZ \/ MP!ACCEPT \/ MP!ADJUSTED \/ MP!ABORT \/ MP!TempNext \/ MP!TempComplete
  PROVE  MP!Sound(s1)' /\ s1'.exc # "error" /\ s1'.moves = 0 /\ s2' = s2 + 1 /\ s2 < ProbeCommands
<1>0. s1.exc = MP!None /\ s2' = s2 + 1 /\ s2 < ProbeCommands /\ MP!Sound(s1)
  BY DEF MP!Start, MP!TESTZ, MP!ACCEPT, MP!ADJUSTED, MP!ABORT, MP!TempNext, MP!TempComplete, MP!Command, MP!Runs, MP!IInv
<1>1. ASSUME NEW a, MP!Sound(a), s1' = MP!Ended(a) PROVE MP!Sound(s1)' /\ s1'.exc # "error" /\ s1'.moves = 0
  BY <1>1, ProbeEndsWell
<1>2. MP!ManualHasCommands(s1) /\ MP!ScrewsHaveCommands(s1) /\ MP!DriftHasCommands(s1) /\ MP!AbortIsOfOne(s1)
  BY <1>0 DEF MP!Sound, MP!Owners, MP!None
<1>3. CASE MP!Start
  <2>1. PICK in \in MP!Inputs : \E a \in MP!Starts(MP!With([in EXCEPT !.error = 0])) : s1' = MP!Ended(a) BY <1>3 DEF MP!Start
  <2>2. PICK i : i = [in EXCEPT !.error = 0] OBVIOUS
  <2>3. i.moves \in Nat BY <2>2, ProbeInputs DEF MP!Inputs
  <2>4. PICK w : w = MP!With(i) OBVIOUS
  <2>5. MP!Sound(w) /\ w.exc = MP!None BY <1>0, <2>3, <2>4, ProbeBegins
  <2>6. PICK a \in MP!Starts(w) : s1' = MP!Ended(a) BY <2>1, <2>2, <2>4
  <2>7. MP!Sound(a) BY <2>5, <2>6, ProbeStarts
  <2> QED BY <1>0, <1>1, <2>6, <2>7
<1>4. CASE MP!TESTZ
  <2>1. PICK in \in MP!Inputs, dir \in {"-", "+", "Z"} : s1' = MP!Ended(MP!cmd_TESTZ(MP!With(in), dir, in)) BY <1>4 DEF MP!TESTZ
  <2>2. PICK w : w = MP!With(in) OBVIOUS
  <2>3. PICK a : a = MP!cmd_TESTZ(w, dir, in) OBVIOUS
  <2>4. MP!Sound(w) /\ w.exc = MP!None /\ ProbeKept(s1, w) BY <1>0, <2>2, ProbeInputs, ProbeBegins
  <2>5. s1.helper # MP!Idle BY <1>2, <1>4 DEF MP!TESTZ, MP!Owned, MP!ManualHasCommands, MP!None
  <2>6. w.helper # MP!Idle /\ in.error \in Nat BY <2>4, <2>5, ProbeInputs DEF ProbeKept
  <2>7. MP!Sound(a) BY <2>3, <2>4, <2>6, ProbeTests
  <2> QED BY <1>0, <1>1, <2>1, <2>2, <2>3, <2>7
<1>5. CASE MP!ACCEPT
  <2>1. PICK in \in MP!Inputs : \/ MP!Owned("ACCEPT", "manual") /\ s1' = MP!Ended(MP!cmd_ACCEPT(MP!With(in), in))
                                \/ MP!Owned("ACCEPT", "screws") /\ s1' = MP!Ended(MP!ScrewsACCEPT(MP!With(in)))
    BY <1>5 DEF MP!ACCEPT
  <2>2. PICK w : w = MP!With(in) OBVIOUS
  <2>3. MP!Sound(w) /\ w.exc = MP!None /\ ProbeKept(s1, w) BY <1>0, <2>2, ProbeInputs, ProbeBegins
  <2>4. CASE MP!Owned("ACCEPT", "manual") /\ s1' = MP!Ended(MP!cmd_ACCEPT(MP!With(in), in))
    <3>1. PICK a : a = MP!cmd_ACCEPT(w, in) OBVIOUS
    <3>2. w.helper # MP!Idle /\ in.error \in Nat
      BY <1>2, <2>3, <2>4, ProbeInputs DEF MP!Owned, MP!ManualHasCommands, ProbeKept
    <3>3. a = MP!finalize(w, FALSE, in) \/ a = MP!finalize(w, TRUE, in) BY <3>1, Zenon DEF MP!cmd_ACCEPT
    <3>4. MP!Sound(a) BY <2>3, <3>2, <3>3, ProbeFinalizes
    <3> QED BY <1>0, <1>1, <2>2, <2>4, <3>1, <3>4
  <2>5. CASE MP!Owned("ACCEPT", "screws") /\ s1' = MP!Ended(MP!ScrewsACCEPT(MP!With(in)))
    <3>1. PICK a : a = MP!ScrewsACCEPT(w) OBVIOUS
    <3>2. PICK u : u = MP!unregister_commands(w) OBVIOUS
    <3>3. w.cmds["ACCEPT"] = "screws" BY <2>3, <2>5 DEF MP!Owned, ProbeKept
    <3>4. ProbeScrewsOff(u) BY <2>3, <3>2, <3>3, ProbeScrewsGoOff
    <3>5. MP!Sound(a) BY <3>1, <3>2, <3>4, ProbeScrewsGoOn
    <3> QED BY <1>0, <1>1, <2>2, <2>5, <3>1, <3>5
  <2> QED BY <2>1, <2>4, <2>5
<1>6. CASE MP!ADJUSTED
  <2>1. PICK in \in MP!Inputs : s1' = MP!Ended(MP!ScrewsADJUSTED(MP!With(in))) BY <1>6 DEF MP!ADJUSTED
  <2>2. PICK w : w = MP!With(in) OBVIOUS
  <2>3. PICK a : a = MP!ScrewsADJUSTED(w) OBVIOUS
  <2>4. MP!Sound(w) /\ w.exc = MP!None /\ ProbeKept(s1, w) BY <1>0, <2>2, ProbeInputs, ProbeBegins
  <2>5. w.cmds["ADJUSTED"] = "screws" BY <1>6, <2>4 DEF MP!ADJUSTED, MP!Owned, ProbeKept
  <2>6. MP!Sound(a) BY <2>3, <2>4, <2>5, ProbeScrewsAdjusted
  <2> QED BY <1>0, <1>1, <2>1, <2>2, <2>3, <2>6
<1>7. CASE MP!ABORT
  <2>1. PICK in \in MP!Inputs : \/ MP!Owned("ABORT", "manual") /\ s1' = MP!Ended(MP!cmd_ABORT(MP!With(in), in))
                                \/ MP!Owned("ABORT", "screws") /\ s1' = MP!Ended(MP!ScrewsABORT(MP!With(in)))
                                \/ MP!Owned("ABORT", "temp") /\ s1' = MP!Ended(MP!cmd_TEMPERATURE_PROBE_ABORT(MP!With(in)))
    BY <1>7 DEF MP!ABORT
  <2>2. PICK w : w = MP!With(in) OBVIOUS
  <2>3. MP!Sound(w) /\ w.exc = MP!None /\ ProbeKept(s1, w) BY <1>0, <2>2, ProbeInputs, ProbeBegins
  <2>4. CASE MP!Owned("ABORT", "manual") /\ s1' = MP!Ended(MP!cmd_ABORT(MP!With(in), in))
    <3>1. PICK a : a = MP!cmd_ABORT(w, in) OBVIOUS
    <3>2. s1.cmds["ACCEPT"] = "manual" BY <1>2, <2>4 DEF MP!Owned, MP!AbortIsOfOne, MP!None
    <3>3. w.helper # MP!Idle /\ in.error \in Nat BY <1>2, <2>3, <3>2, ProbeInputs DEF MP!ManualHasCommands, ProbeKept
    <3>4. a = MP!finalize(w, FALSE, in) BY <3>1, Zenon DEF MP!cmd_ABORT
    <3>5. MP!Sound(a) BY <2>3, <3>3, <3>4, ProbeFinalizes
    <3> QED BY <1>0, <1>1, <2>2, <2>4, <3>1, <3>5
  <2>5. CASE MP!Owned("ABORT", "screws") /\ s1' = MP!Ended(MP!ScrewsABORT(MP!With(in)))
    <3>1. PICK a : a = MP!ScrewsABORT(w) OBVIOUS
    <3>2. w.cmds["ABORT"] = "screws" BY <2>3, <2>5 DEF MP!Owned, ProbeKept
    <3>3. MP!Sound(a) BY <2>3, <3>1, <3>2, ProbeScrewsAbort
    <3> QED BY <1>0, <1>1, <2>2, <2>5, <3>1, <3>3
  <2>6. CASE MP!Owned("ABORT", "temp") /\ s1' = MP!Ended(MP!cmd_TEMPERATURE_PROBE_ABORT(MP!With(in)))
    <3>1. PICK a : a = MP!cmd_TEMPERATURE_PROBE_ABORT(w) OBVIOUS
    <3>2. w.cmds["ABORT"] = "temp" BY <2>3, <2>6 DEF MP!Owned, ProbeKept
    <3>3. MP!Sound(a) BY <2>3, <3>1, <3>2, ProbeDriftAborts
    <3> QED BY <1>0, <1>1, <2>2, <2>6, <3>1, <3>3
  <2> QED BY <2>1, <2>4, <2>5, <2>6
<1>8. CASE MP!TempNext
  <2>1. PICK in \in MP!Inputs : s1' = MP!Ended(MP!cmd_TEMPERATURE_PROBE_NEXT(MP!With(in))) BY <1>8 DEF MP!TempNext
  <2>2. PICK w : w = MP!With(in) OBVIOUS
  <2>3. PICK a : a = MP!cmd_TEMPERATURE_PROBE_NEXT(w) OBVIOUS
  <2>4. MP!Sound(w) /\ w.exc = MP!None /\ ProbeKept(s1, w) BY <1>0, <2>2, ProbeInputs, ProbeBegins
  <2>5. w.tp.active BY <1>2, <1>8, <2>4 DEF MP!TempNext, MP!Owned, MP!DriftHasCommands, ProbeKept, MP!None
  <2>6. MP!Sound(a) BY <2>3, <2>4, <2>5, ProbeDriftNext
  <2> QED BY <1>0, <1>1, <2>1, <2>2, <2>3, <2>6
<1>9. CASE MP!TempComplete
  <2>1. PICK a : a = MP!cmd_TEMPERATURE_PROBE_COMPLETE(s1) OBVIOUS
  <2>2. s1' = MP!Ended(a) BY <1>9, <2>1 DEF MP!TempComplete
  <2>3. MP!Sound(a) BY <1>0, <2>1, ProbeDriftCompletes
  <2> QED BY <1>0, <1>1, <2>2, <2>3
<1> QED BY <1>3, <1>4, <1>5, <1>6, <1>7, <1>8, <1>9

\* Rounds without a person, and what happens besides the commands.
LEMMA ProbeRoundKeeps ==
  ASSUME MP!ManualProbeAssumption, MP!IInv, MP!AutoRound
  PROVE  MP!Sound(s1)' /\ s1'.exc # "error" /\ s1'.moves = 0 /\ s2' = s2 + 1 /\ s2 < ProbeCommands
<1>0. s1.exc = MP!None /\ s1.points.auto /\ s2' = s2 + 1 /\ s2 < ProbeCommands /\ MP!Sound(s1) BY DEF MP!AutoRound, MP!IInv
<1>1. PICK in \in MP!Inputs :
        LET b == MP!Move(MP!With(in), ProbeTop)
            r == MP!_invoke_callback(b, in.error)
            over == [s |-> MP!Ended(IF MP!Ok(b) THEN r.s ELSE b)]
        IN  s1' = IF MP!Ok(b) /\ MP!Ok(r.s) /\ r.res = "retry" THEN MP!Ended(r.s)
                 ELSE [over.s EXCEPT !.points = [tool |-> MP!None, auto |-> FALSE, count |-> 0]]
  BY DEF MP!AutoRound
<1>2. PICK w : w = MP!With(in) OBVIOUS
<1>3. PICK m : m = MP!Move(w, ProbeTop) OBVIOUS
<1>4. PICK r : r = MP!_invoke_callback(m, in.error) OBVIOUS
<1>5. PICK x : x = IF MP!Ok(m) THEN r.s ELSE m OBVIOUS
<1>6. PICK y : y = MP!Ended(x) OBVIOUS
<1>7. s1' = IF MP!Ok(m) /\ MP!Ok(r.s) /\ r.res = "retry" THEN MP!Ended(r.s)
           ELSE [y EXCEPT !.points = [tool |-> MP!None, auto |-> FALSE, count |-> 0]]
  BY <1>1, <1>2, <1>3, <1>4, <1>5, <1>6
<1>8. in.moves \in Nat /\ in.error \in Nat BY ProbeInputs
<1>9. MP!Sound(w) /\ w.exc = MP!None /\ ProbeKept(s1, w) BY <1>0, <1>2, <1>8, ProbeBegins
<1>10. ProbeKept(w, m) /\ (m.exc = MP!None \/ m.exc = "error") BY <1>3, <1>9, ProbeMoves DEF MP!Sound
<1>11. MP!Sound(m) /\ m.points = s1.points /\ m.helper = s1.helper
  BY <1>9, <1>10, ProbeKeptIsSound DEF ProbeKept, MP!None
<1>12. MP!Shape(m) /\ MP!TiltIsLevel(m) /\ MP!RoundsAreCounted(m) /\ MP!PointIsDue(m) /\ MP!Owners(m) BY <1>10, <1>11 DEF MP!Sound, MP!None
<1>13. m.points.auto /\ m.points.tool \in MP!Tools /\ m.helper.client # "points"
  BY <1>0, <1>11, <1>12 DEF MP!PointIsDue, MP!Shape
<1>14. m.exc = MP!None =>
         /\ MP!Shape(r.s) /\ MP!TiltIsLevel(r.s) /\ r.s.exc \in {MP!None, "error"} /\ r.s.points = m.points /\ MP!Owners(r.s)
         /\ r.s.helper = m.helper /\ (r.s.exc = MP!None /\ r.res = "retry" => MP!RoundsAreCounted(r.s))
  <2> HAVE m.exc = MP!None
  <2>1. /\ MP!Shape(r.s) /\ MP!TiltIsLevel(r.s) /\ r.s.exc \in {MP!None, "error"} /\ r.s.points = m.points
        /\ r.s.cmds = m.cmds /\ r.s.helper = m.helper /\ r.s.status = m.status /\ r.s.screws = m.screws /\ r.s.tp = m.tp
        /\ r.s.exc = MP!None /\ r.res = "retry" => MP!RoundsAreCounted(r.s)
    BY <1>4, <1>8, <1>12, <1>13, ProbeInvokes
  <2>2. MP!Owners(r.s) BY <1>12, <2>1, ProbeOwnersKept
  <2> QED BY <2>1, <2>2
<1>15. CASE MP!Ok(m) /\ MP!Ok(r.s) /\ r.res = "retry"
  <2>1. m.exc = MP!None /\ r.s.exc = MP!None BY <1>15 DEF MP!Ok
  <2>2. MP!PointIsDue(r.s) BY <1>12, <1>14, <2>1 DEF MP!PointIsDue
  <2>3. MP!Sound(r.s) BY <1>14, <1>15, <2>1, <2>2 DEF MP!Sound
  <2>4. PICK z : z = r.s OBVIOUS
  <2>5. s1' = MP!Ended(z) /\ MP!Sound(z) BY <1>7, <1>15, <2>3, <2>4
  <2> QED BY <1>0, <2>5, ProbeEndsWell
<1>16. CASE ~ (MP!Ok(m) /\ MP!Ok(r.s) /\ r.res = "retry")
  <2>1. PICK p : p = [tool |-> MP!None, auto |-> FALSE, count |-> 0] OBVIOUS
  <2>2. p \in [tool : MP!Tools \cup {MP!None}, auto : BOOLEAN, count : 0 .. ProbePoints] /\ p.tool = MP!None /\ ~ p.auto
    BY <2>1, ProbeConstants
  <2>3. s1' = [y EXCEPT !.points = p] BY <1>7, <1>16, <2>1
  <2>4. MP!Shape(x) /\ MP!TiltIsLevel(x) /\ MP!Owners(x) /\ x.helper = m.helper /\ x.exc \in {MP!None, "error"}
    BY <1>5, <1>10, <1>12, <1>14 DEF MP!Ok
  <2>5. PICK e : e = IF x.exc = "error" THEN MP!None ELSE x.exc OBVIOUS
  <2>6. y = [x EXCEPT !.moves = 0, !.exc = e]
    <3>1. y = [x EXCEPT !.moves = 0, !.exc = IF @ = "error" THEN MP!None ELSE @] BY <1>6 DEF MP!Ended
    <3> QED BY <2>4, <2>5, <3>1 DEF MP!Shape, MP!Fields
  <2>7. e = MP!None BY <2>4, <2>5
  <2>8. PICK t : t = [y EXCEPT !.points = p] OBVIOUS
  <2>9. y = [f \in MP!Fields |-> y[f]] /\ y.moves = 0 /\ y.exc = MP!None BY <2>4, <2>6, <2>7 DEF MP!Shape, MP!Fields
  <2>10. /\ y.z = x.z /\ y.cmds = x.cmds /\ y.helper = x.helper /\ y.status = x.status
         /\ y.retry = x.retry /\ y.applied = x.applied /\ y.screws = x.screws /\ y.tp = x.tp /\ y.temp = x.temp
    BY <2>4, <2>6 DEF MP!Shape, MP!Fields
  <2>11. t = [f \in MP!Fields |-> t[f]] /\ t.points = p /\ t.moves = 0 /\ t.exc = MP!None BY <2>8, <2>9 DEF MP!Fields
  <2>12. /\ t.z = x.z /\ t.cmds = x.cmds /\ t.helper = x.helper /\ t.status = x.status
         /\ t.retry = x.retry /\ t.applied = x.applied /\ t.screws = x.screws /\ t.tp = x.tp /\ t.temp = x.temp
    BY <2>8, <2>9, <2>10 DEF MP!Fields
  <2>13. MP!Shape(t) BY <2>2, <2>4, <2>11, <2>12 DEF MP!Shape
  <2>14. MP!Owners(t) BY <2>4, <2>12, ProbeOwnersKept
  <2>15. MP!TiltIsLevel(t) BY <2>4, <2>12 DEF MP!TiltIsLevel
  <2>16. MP!RoundsAreCounted(t) /\ MP!PointIsDue(t)
    BY <1>13, <2>2, <2>4, <2>11, <2>12 DEF MP!RoundsAreCounted, MP!PointIsDue, MP!None
  <2>17. MP!Sound(t) BY <2>13, <2>14, <2>15, <2>16 DEF MP!Sound
  <2>18. s1' = t BY <2>3, <2>8
  <2> QED BY <1>0, <2>11, <2>17, <2>18 DEF MP!None
<1> QED BY <1>15, <1>16

LEMMA ProbeKickKeeps ==
  ASSUME MP!ManualProbeAssumption, MP!IInv, MP!KickNext
  PROVE  MP!Sound(s1)' /\ s1'.exc # "error" /\ s1'.moves = 0 /\ s2' = s2
<1>0. s1.exc = MP!None /\ s1.tp.active /\ s2' = s2 /\ MP!Sound(s1) BY DEF MP!KickNext, MP!Runs, MP!IInv
<1>1. PICK in \in MP!Inputs : LET a == MP!cmd_TEMPERATURE_PROBE_NEXT([MP!With(in) EXCEPT !.tp.next = MP!Never])
                           IN  s1' = [a EXCEPT !.moves = 0, !.exc = IF MP!Ok(a) THEN MP!None ELSE "crash"]
  BY DEF MP!KickNext
<1>2. PICK w : w = MP!With(in) OBVIOUS
<1>3. PICK c : c = [w EXCEPT !.tp.next = MP!Never] OBVIOUS
<1>4. PICK a : a = MP!cmd_TEMPERATURE_PROBE_NEXT(c) OBVIOUS
<1>5. PICK x : x = IF MP!Ok(a) THEN MP!None ELSE "crash" OBVIOUS
<1>6. s1' = [a EXCEPT !.moves = 0, !.exc = x] BY <1>1, <1>2, <1>3, <1>4, <1>5
<1>7. MP!Sound(w) /\ w.exc = MP!None /\ ProbeKept(s1, w) BY <1>0, <1>2, ProbeInputs, ProbeBegins
<1>8. PICK t : t = [w.tp EXCEPT !.next = MP!Never] OBVIOUS
<1>9. MP!Shape(w) /\ w.tp.active BY <1>0, <1>7 DEF MP!Sound, ProbeKept
<1>10. t \in [active : BOOLEAN, count : Nat, next : Nat, heat : BOOLEAN] /\ t.active /\ t.heat = w.tp.heat
  BY <1>8, <1>9 DEF MP!Shape, MP!Never
<1>11. c = [w EXCEPT !.tp = t] BY <1>3, <1>8
<1>12. /\ MP!Shape(c) /\ c.tp = t /\ c.exc = MP!None /\ c.cmds = w.cmds /\ c.helper = w.helper /\ c.status = w.status
       /\ c.points = w.points /\ c.retry = w.retry /\ c.applied = w.applied /\ c.screws = w.screws
  BY <1>7, <1>9, <1>10, <1>11 DEF MP!Shape, MP!Fields
<1>13. MP!TiltIsLevel(c) /\ MP!RoundsAreCounted(c) /\ MP!PointIsDue(c)
  BY <1>7, <1>12 DEF MP!Sound, MP!TiltIsLevel, MP!RoundsAreCounted, MP!PointIsDue, MP!None
<1>14. MP!Owners(c)
  <2>1. MP!Owners(w) BY <1>7 DEF MP!Sound, MP!None
  <2>2. MP!ManualHasCommands(c) /\ MP!ScrewsHaveCommands(c)
    BY <2>1, <1>12 DEF MP!Owners, MP!ManualHasCommands, MP!ScrewsHaveCommands
  <2>3. MP!DriftHasCommands(c) /\ MP!AbortIsOfOne(c)
    BY <2>1, <1>9, <1>10, <1>12 DEF MP!Owners, MP!DriftHasCommands, MP!AbortIsOfOne
  <2> QED BY <2>2, <2>3 DEF MP!Owners
<1>15. MP!Sound(c) BY <1>12, <1>13, <1>14 DEF MP!Sound
<1>16. MP!Sound(a) BY <1>4, <1>10, <1>12, <1>15, ProbeDriftNext
<1>17. PICK b : b = [a EXCEPT !.moves = 0, !.exc = x] OBVIOUS
<1>18. MP!Shape(a) BY <1>16 DEF MP!Sound
<1>19. x \in {MP!None, "crash"} /\ (a.exc = "crash" => x = "crash") BY <1>5 DEF MP!Ok, MP!None
<1>20. b = [f \in MP!Fields |-> b[f]] /\ b.exc = x /\ b.moves = 0 BY <1>17, <1>18 DEF MP!Shape, MP!Fields
<1>21. /\ b.z = a.z /\ b.cmds = a.cmds /\ b.helper = a.helper /\ b.status = a.status /\ b.points = a.points
       /\ b.retry = a.retry /\ b.applied = a.applied /\ b.screws = a.screws /\ b.tp = a.tp /\ b.temp = a.temp
  BY <1>17, <1>18 DEF MP!Shape, MP!Fields
<1>22. b.z \in 0 .. ProbeTop /\ b.moves \in Nat /\ b.exc \in {MP!None, "error", "crash"} BY <1>18, <1>19, <1>20, <1>21 DEF MP!Shape
<1>23. ProbeKept(a, b) BY <1>20, <1>21, <1>22 DEF ProbeKept
<1>24. MP!Sound(b) BY <1>16, <1>19, <1>20, <1>23, ProbeKeptIsSound
<1>25. s1' = b BY <1>6, <1>17
<1> QED BY <1>0, <1>19, <1>20, <1>24, <1>25 DEF MP!None

LEMMA ProbeOtherKeeps ==
  ASSUME MP!ManualProbeAssumption, MP!IInv, MP!Warm \/ MP!G1 \/ MP!M84 \/ MP!G28
  PROVE  MP!Sound(s1)' /\ s1'.exc # "error" /\ s1'.moves = 0 /\ s2' \in 0 .. ProbeCommands
<1>0. /\ MP!Shape(s1) /\ MP!Sound(s1) /\ s1.exc = MP!None /\ s1.moves = 0 /\ s2 \in 0 .. ProbeCommands
      /\ MP!TiltIsLevel(s1) /\ MP!RoundsAreCounted(s1) /\ MP!PointIsDue(s1) /\ MP!Owners(s1)
  BY DEF MP!IInv, MP!Sound, MP!Warm, MP!G1, MP!M84, MP!G28, MP!Command, MP!Runs, MP!None
<1>1. s2' \in 0 .. ProbeCommands
  <2>1. s2' = s2 \/ (s2' = s2 + 1 /\ s2 < ProbeCommands) BY DEF MP!Warm, MP!G1, MP!M84, MP!G28, MP!Command
  <2> QED BY <1>0, <2>1, ProbeConstants
<1>2. ASSUME NEW b, ProbeKept(s1, b), b.exc = MP!None, b.moves = 0, s1' = b
      PROVE  MP!Sound(s1)' /\ s1'.exc # "error" /\ s1'.moves = 0
  <2>1. MP!Sound(b) BY <1>0, <1>2, ProbeKeptIsSound DEF MP!None
  <2> QED BY <1>2, <2>1 DEF MP!None
<1>3. CASE MP!G1
  <2>1. PICK h \in {0, ProbeTop} : s1' = [s1 EXCEPT !.z = h, !.moved = TRUE] BY <1>3 DEF MP!G1
  <2>2. PICK b : b = [s1 EXCEPT !.z = h, !.moved = TRUE] OBVIOUS
  <2>3. h \in 0 .. ProbeTop BY <2>1, ProbeConstants
  <2>4. ProbeKept(s1, b) /\ b.exc = MP!None /\ b.moves = 0 BY <1>0, <2>2, <2>3 DEF MP!Shape, MP!Fields, ProbeKept
  <2> QED BY <1>1, <1>2, <2>1, <2>2, <2>4
<1>4. CASE MP!G28
  <2>1. PICK b : b = [s1 EXCEPT !.homed = TRUE, !.z = ProbeTop, !.moved = TRUE] OBVIOUS
  <2>2. s1' = b BY <1>4, <2>1 DEF MP!G28
  <2>3. ProbeTop \in 0 .. ProbeTop BY ProbeConstants
  <2>4. ProbeKept(s1, b) /\ b.exc = MP!None /\ b.moves = 0 BY <1>0, <2>1, <2>3 DEF MP!Shape, MP!Fields, ProbeKept
  <2> QED BY <1>1, <1>2, <2>2, <2>4
<1>5. CASE MP!M84
  <2>1. PICK b : b = [s1 EXCEPT !.homed = FALSE, !.applied = FALSE] OBVIOUS
  <2>2. s1' = b BY <1>5, <2>1 DEF MP!M84
  <2>3. /\ MP!Shape(b) /\ b.applied = FALSE /\ b.tp = s1.tp /\ b.exc = s1.exc /\ b.cmds = s1.cmds /\ b.helper = s1.helper
        /\ b.status = s1.status /\ b.points = s1.points /\ b.retry = s1.retry /\ b.screws = s1.screws /\ b.moves = s1.moves
    BY <1>0, <2>1 DEF MP!Shape, MP!Fields
  <2>4. MP!TiltIsLevel(b) /\ MP!RoundsAreCounted(b) /\ MP!PointIsDue(b)
    BY <1>0, <2>3 DEF MP!TiltIsLevel, MP!RoundsAreCounted, MP!PointIsDue
  <2>5. MP!Owners(b) BY <1>0, <2>3, ProbeOwnersKept
  <2>6. MP!Sound(b) BY <2>3, <2>4, <2>5 DEF MP!Sound
  <2> QED BY <1>0, <1>1, <2>2, <2>3, <2>6 DEF MP!None
<1>6. CASE MP!Warm
  <2>1. PICK b : b = [s1 EXCEPT !.temp = @ + 1] OBVIOUS
  <2>2. s1' = b /\ s1.temp < DriftEnd BY <1>6, <2>1 DEF MP!Warm
  <2>3. s1.temp + 1 \in 0 .. DriftEnd BY <1>0, <2>2, ProbeConstants DEF MP!Shape
  <2>4. /\ MP!Shape(b) /\ b.applied = s1.applied /\ b.tp = s1.tp /\ b.exc = s1.exc /\ b.cmds = s1.cmds /\ b.helper = s1.helper
        /\ b.status = s1.status /\ b.points = s1.points /\ b.retry = s1.retry /\ b.screws = s1.screws /\ b.moves = s1.moves
    BY <1>0, <2>1, <2>3 DEF MP!Shape, MP!Fields
  <2>5. MP!TiltIsLevel(b) /\ MP!RoundsAreCounted(b) /\ MP!PointIsDue(b)
    BY <1>0, <2>4 DEF MP!TiltIsLevel, MP!RoundsAreCounted, MP!PointIsDue
  <2>6. MP!Owners(b) BY <1>0, <2>4, ProbeOwnersKept
  <2>7. MP!Sound(b) BY <2>4, <2>5, <2>6 DEF MP!Sound
  <2> QED BY <1>0, <1>1, <2>2, <2>4, <2>7 DEF MP!None
<1> QED BY <1>3, <1>4, <1>5, <1>6

LEMMA ProbeStartsSound ==
  ASSUME MP!ManualProbeAssumption, MP!Init
  PROVE  MP!IInv
<1>1. s1 = [cmds |-> [c \in MP!Temporary |-> MP!None], helper |-> MP!Idle, status |-> MP!Hidden,
          z |-> ProbeTop, moved |-> FALSE, homed |-> TRUE, exc |-> MP!None, moves |-> 0,
          points |-> [tool |-> MP!None, auto |-> FALSE, count |-> 0],
          retry |-> MP!Fresh, applied |-> FALSE, twist |-> [index |-> 0, kept |-> TRUE],
          screws |-> [state |-> MP!None, current |-> 0, accepted |-> 0],
          tp |-> MP!ColdTp, temp |-> 0, map |-> "old", mapTemp |-> "old",
          clients |-> 0, saved |-> {}]
  BY DEF MP!Init
<1>2. s1 = [f \in MP!Fields |-> s1[f]] BY <1>1, Zenon DEF MP!Fields
<1>3. /\ s1.cmds = [c \in MP!Temporary |-> MP!None] /\ s1.helper = MP!Idle /\ s1.status = MP!Hidden /\ s1.z = ProbeTop /\ s1.exc = MP!None /\ s1.moves = 0
      /\ s1.points = [tool |-> MP!None, auto |-> FALSE, count |-> 0] /\ s1.retry = MP!Fresh /\ s1.applied = FALSE
      /\ s1.screws = [state |-> MP!None, current |-> 0, accepted |-> 0] /\ s1.tp = MP!ColdTp /\ s1.temp = 0
  BY <1>1
<1>4. s1.cmds \in [MP!Temporary -> {MP!None, "manual", "screws", "temp"}] /\ \A c \in MP!Temporary : s1.cmds[c] = MP!None BY <1>3
<1>5. s1.helper \in [client : MP!Clients, start : 0 .. ProbeTop, past : SUBSET (0 .. ProbeTop)]
  BY <1>3, ProbeConstants DEF MP!Idle, MP!Clients
<1>6. s1.z \in 0 .. ProbeTop /\ s1.temp \in 0 .. DriftEnd BY <1>3, ProbeConstants
<1>7. s1.points \in [tool : MP!Tools \cup {MP!None}, auto : BOOLEAN, count : 0 .. ProbePoints] /\ s1.points.tool = MP!None /\ ~ s1.points.auto
  BY <1>3, ProbeConstants
<1>8. s1.screws \in [state : {MP!None, "adjust"}, current : 0 .. BedScrews, accepted : Int] /\ s1.screws.state = MP!None
  BY <1>3, ProbeConstants
<1>9. s1.tp \in [active : BOOLEAN, count : Nat, next : Nat, heat : BOOLEAN] /\ ~ s1.tp.active /\ ~ s1.tp.heat
  BY <1>3 DEF MP!ColdTp, MP!Never
<1>10. s1.retry \in [current : Nat, previous : Nat, increasing : Int] BY <1>3 DEF MP!Fresh
<1>11. MP!Shape(s1)
  <2>1. s1.helper.client = MP!None => s1.helper = MP!Idle BY <1>3
  <2>2. s1.moves \in Nat /\ s1.exc \in {MP!None, "error", "crash"} BY <1>3
  <2>3. s1.applied \in BOOLEAN
    <3>1. s1.applied = FALSE BY <1>3, Zenon
    <3> QED BY <3>1, Zenon
  <2> QED BY <1>2, <1>4, <1>5, <1>6, <1>7, <1>8, <1>9, <1>10, <2>1, <2>2, <2>3 DEF MP!Shape
<1>12. MP!TiltIsLevel(s1) /\ MP!RoundsAreCounted(s1) BY <1>3, <1>7 DEF MP!TiltIsLevel, MP!RoundsAreCounted, MP!None
<1>13. MP!PointIsDue(s1) BY <1>3, <1>7 DEF MP!PointIsDue, MP!Idle, MP!None
<1>14. s1.cmds["ACCEPT"] = MP!None /\ s1.cmds["TESTZ"] = MP!None /\ s1.cmds["ADJUSTED"] = MP!None /\ s1.cmds["ABORT"] = MP!None
       /\ s1.cmds["TEMPERATURE_PROBE_NEXT"] = MP!None /\ s1.cmds["TEMPERATURE_PROBE_COMPLETE"] = MP!None
  BY <1>4 DEF MP!Temporary
<1>15. s1.status.active = FALSE BY <1>3 DEF MP!Hidden
<1>16. ProbeQuiet(s1) BY <1>3, <1>11, <1>12, <1>13, <1>14, <1>15 DEF ProbeQuiet
<1>17. MP!Sound(s1) BY <1>8, <1>9, <1>14, <1>16, ProbeQuietIsSound DEF MP!DriftHasCommands
<1>18. s2 \in 0 .. ProbeCommands BY ProbeConstants DEF MP!Init
<1> QED BY <1>3, <1>17, <1>18 DEF MP!IInv, MP!None

LEMMA ProbeKeepsIInv ==
  ASSUME MP!ManualProbeAssumption, MP!IInv, [MP!Next]_(MP!vars)
  PROVE  MP!IInv'
<1>1. CASE MP!Start \/ MP!TESTZ \/ MP!ACCEPT \/ MP!ADJUSTED \/ MP!ABORT \/ MP!TempNext \/ MP!TempComplete
  <2>1. MP!Sound(s1)' /\ s1'.exc # "error" /\ s1'.moves = 0 /\ s2' = s2 + 1 /\ s2 < ProbeCommands BY <1>1, ProbeCommandKeeps
  <2>2. s2' \in 0 .. ProbeCommands BY <2>1, ProbeConstants DEF MP!IInv
  <2> QED BY <2>1, <2>2 DEF MP!IInv
<1>2. CASE MP!AutoRound
  <2>1. MP!Sound(s1)' /\ s1'.exc # "error" /\ s1'.moves = 0 /\ s2' = s2 + 1 /\ s2 < ProbeCommands BY <1>2, ProbeRoundKeeps
  <2>2. s2' \in 0 .. ProbeCommands BY <2>1, ProbeConstants DEF MP!IInv
  <2> QED BY <2>1, <2>2 DEF MP!IInv
<1>3. CASE MP!KickNext BY <1>3, ProbeKickKeeps DEF MP!IInv
<1>4. CASE MP!Warm \/ MP!G1 \/ MP!M84 \/ MP!G28 BY <1>4, ProbeOtherKeeps DEF MP!IInv
<1>5. CASE UNCHANGED MP!vars BY <1>5 DEF MP!vars, MP!IInv, MP!Sound, MP!Shape, MP!TiltIsLevel, MP!RoundsAreCounted, MP!PointIsDue, MP!Owners,
  MP!ManualHasCommands, MP!ScrewsHaveCommands, MP!DriftHasCommands, MP!AbortIsOfOne
<1> QED BY <1>1, <1>2, <1>3, <1>4, <1>5 DEF MP!Next

\* What the run checks follows.
LEMMA ProbeIsClean ==
  ASSUME MP!ManualProbeAssumption, MP!IInv
  PROVE  MP!TypeOK /\ MP!CommandsHaveOwners /\ MP!AppliedIsLevel /\ MP!HeatersGoOff
<1>1. MP!Shape(s1) /\ MP!TiltIsLevel(s1) BY DEF MP!IInv, MP!Sound
<1>2. MP!TypeOK BY <1>1 DEF MP!IInv, MP!Shape, MP!TypeOK, MP!Tools
<1>3. MP!AppliedIsLevel BY <1>1 DEF MP!TiltIsLevel, MP!AppliedIsLevel
<1>4. s1.exc = MP!None => MP!ManualHasCommands(s1) /\ MP!ScrewsHaveCommands(s1) /\ MP!DriftHasCommands(s1) /\ MP!AbortIsOfOne(s1)
  BY DEF MP!IInv, MP!Sound, MP!Owners, MP!None
<1>5. MP!HeatersGoOff BY <1>4 DEF MP!HeatersGoOff, MP!DriftHasCommands
<1>6. MP!CommandsHaveOwners
  <2> SUFFICES ASSUME s1.exc = MP!None PROVE MP!CommandsHaveOwners BY DEF MP!CommandsHaveOwners
  <2>1. (s1.cmds["ACCEPT"] = "manual") = (s1.helper # MP!Idle) BY <1>4 DEF MP!ManualHasCommands
  <2>2. s1.status.active = (s1.helper # MP!Idle) BY <1>4 DEF MP!ManualHasCommands
  <2>3. (s1.cmds["ADJUSTED"] = "screws") = (s1.screws.state # MP!None) BY <1>4 DEF MP!ScrewsHaveCommands, MP!None
  <2>4. (s1.cmds["TEMPERATURE_PROBE_NEXT"] = "temp") = s1.tp.active
    <3>1. s1.tp.active \in BOOLEAN BY <1>1 DEF MP!Shape
    <3>2. s1.cmds["TEMPERATURE_PROBE_NEXT"] = "temp" <=> s1.tp.active BY <1>4 DEF MP!DriftHasCommands, MP!None
    <3> QED BY <3>1, <3>2, Zenon
  <2>5. s1.cmds["ACCEPT"] # MP!None => s1.cmds["ABORT"] = s1.cmds["ACCEPT"] BY <1>4 DEF MP!AbortIsOfOne
  <2>6. s1.tp.active /\ s1.helper = MP!Idle => s1.cmds["ABORT"] = "temp"
    <3>1. s1.cmds["ACCEPT"] \in {MP!None, "manual", "screws", "temp"} BY <1>1 DEF MP!Shape, MP!Temporary
    <3> QED BY <1>4, <3>1 DEF MP!AbortIsOfOne, MP!ManualHasCommands, MP!ScrewsHaveCommands
  <2>7. s1.helper.client = "temp" => s1.tp.active BY <1>4 DEF MP!AbortIsOfOne
  <2> QED BY <2>1, <2>2, <2>3, <2>4, <2>5, <2>6, <2>7 DEF MP!CommandsHaveOwners
<1> QED BY <1>2, <1>3, <1>5, <1>6

-----------------------------------------------------------------------------
(* Excluded objects: s1 to s10 are the variables of ExcludeObject in turn. *)

EO == INSTANCE ExcludeObject WITH
  Objects <- PrintObjects, Initial <- FirstPulls, MaxMoves <- ObjectMoves, MaxCommands <- ObjectCommands, g <- s1,
  retracted <- s2, machine <- s3, top <- s4, pushed <- s5, thin <- s6, current <- s7, excluded <- s8, t <- s9,
  count <- s10

LEMMA PlaceIs ==
  ASSUME NEW x \in Int, NEW z \in Int, NEW e \in Int
  PROVE  /\ EO!At(x, z, e) \in EO!Positions
         /\ EO!At(x, z, e).x = x /\ EO!At(x, z, e).z = z /\ EO!At(x, z, e).e = e
BY DEF EO!At, EO!Positions

LEMMA IsPlace ==
  ASSUME NEW p \in EO!Positions
  PROVE  p.x \in Int /\ p.z \in Int /\ p.e \in Int
BY DEF EO!Positions

LEMMA TransformIs ==
  ASSUME NEW t \in EO!Transforms
  PROVE  /\ t.on \in BOOLEAN /\ t.off \in EO!Positions /\ t.last \in EO!Positions /\ t.lastExtruded \in EO!Positions
         /\ t.lastExcluded \in EO!Positions /\ t.maxExtruded \in Int /\ t.maxExcluded \in Int /\ t.adj \in Int
         /\ t.initial \in 0..FirstPulls /\ t.inside \in BOOLEAN
         /\ t.off.x \in Int /\ t.off.z \in Int /\ t.off.e \in Int
         /\ t.last.x \in Int /\ t.last.z \in Int /\ t.last.e \in Int
         /\ t.lastExtruded.x \in Int /\ t.lastExtruded.z \in Int /\ t.lastExtruded.e \in Int
         /\ t.lastExcluded.x \in Int /\ t.lastExcluded.z \in Int /\ t.lastExcluded.e \in Int
BY IsPlace DEF EO!Transforms

LEMMA ObjectStates ==
  ASSUME EO!ExcludeObjectAssumption, EO!TypeOK
  PROVE  /\ s1 \in EO!Positions /\ s3 \in EO!Positions /\ s9 \in EO!Transforms /\ s4 \in Int
         /\ s2 \in BOOLEAN /\ s5 \in BOOLEAN /\ s6 \in BOOLEAN
         /\ s1.x \in Int /\ s1.z \in Int /\ s1.e \in Int /\ s3.x \in Int /\ s3.z \in Int /\ s3.e \in Int
         /\ FirstPulls \in Nat /\ FirstPulls >= 2 /\ EO!Missing \in {0, 1} /\ EO!Peak \in Int
BY IsPlace DEF EO!TypeOK, EO!ExcludeObjectAssumption, EO!Missing, EO!Peak

\* A move of the G-code to new, as far as the filament that it believes in, and what is counted of it, go.
MovesTo(new) ==
  /\ new \in EO!Positions /\ s1' = new /\ s2' \in BOOLEAN /\ new.e \in {s1.e - 1, s1.e, s1.e + 1}
  /\ new.e < s1.e => ~s2 /\ s2' /\ new.x = s1.x
  /\ new.e = s1.e => s2' = s2
  /\ new.e > s1.e => ~s2' /\ (s2 <=> new.x = s1.x)
  /\ s4' = EO!Most(s4, s3'.e)
  /\ s6' = (s6 \/ (s9.inside # s9'.inside /\ ~s5))
  /\ s5' = ((new.e > s1.e /\ new.x # s1.x) \/ (s5 /\ s9.inside = s9'.inside))

LEMMA MoveIs ==
  ASSUME EO!ExcludeObjectAssumption, EO!TypeOK, EO!Move
  PROVE  \E new : MovesTo(new) /\ EO!move(new)
<1>1. PICK new \in {EO!At(1 - s1.x, s1.z, s1.e), EO!At(s1.x, 1 - s1.z, s1.e), EO!At(1 - s1.x, s1.z, s1.e + 1),
                    EO!At(s1.x, s1.z, s1.e - 1), EO!At(s1.x, s1.z, s1.e + 1)} :
        /\ new.e < s1.e => ~s2
        /\ new.e > s1.e => (s2 <=> new.x = s1.x)
        /\ EO!move(new)
        /\ s1' = new
        /\ s2' = IF new.e = s1.e \/ new.x # s1.x THEN s2 ELSE new.e < s1.e
  BY DEF EO!Move
<1>2. s1.x \in Int /\ s1.z \in Int /\ s1.e \in Int /\ s2 \in BOOLEAN BY ObjectStates
<1>3. /\ new \in EO!Positions /\ new.x \in Int /\ new.e \in {s1.e - 1, s1.e, s1.e + 1}
      /\ new.e < s1.e => new.x = s1.x
  <2>1. /\ 1 - s1.x \in Int /\ 1 - s1.z \in Int /\ s1.e + 1 \in Int /\ s1.e - 1 \in Int BY <1>2
  <2>2. PICK x \in Int, z \in Int, e \in Int :
          new = EO!At(x, z, e) /\ e \in {s1.e - 1, s1.e, s1.e + 1} /\ (e < s1.e => x = s1.x)
    BY <1>1, <1>2, <2>1
  <2>3. new \in EO!Positions /\ new.x = x /\ new.e = e BY <2>2, PlaceIs
  <2> QED BY <2>2, <2>3
<1>4. s2' \in BOOLEAN /\ (new.e < s1.e => s2') /\ (new.e = s1.e => s2' = s2)
      /\ (new.e > s1.e => ~s2' /\ (s2 <=> new.x = s1.x))
  <2>1. (new.e < s1.e) \in BOOLEAN BY <1>2, <1>3
  <2>2. s2' \in BOOLEAN BY <1>1, <1>2, <2>1
  <2>3. CASE new.e < s1.e BY <1>1, <1>2, <1>3, <2>2, <2>3
  <2>4. CASE new.e = s1.e BY <1>1, <1>2, <1>3, <2>2, <2>4
  <2>5. CASE new.e > s1.e
    <3>1. ~(new.e < s1.e) /\ new.e # s1.e BY <1>2, <1>3, <2>5
    <3>a. (new.e < s1.e) = FALSE BY <3>1
    <3>2. s2' = IF new.x # s1.x THEN s2 ELSE FALSE BY <1>1, <3>1, <3>a, Zenon
    <3>3. s2 <=> new.x = s1.x BY <1>1, <2>5
    <3>4. ~s2' BY <3>2, <3>3
    <3> QED BY <2>2, <3>1, <3>3, <3>4
  <2> QED BY <1>2, <1>3, <2>2, <2>3, <2>4, <2>5
<1>5. /\ s4' = EO!Most(s4, s3'.e)
      /\ s6' = (s6 \/ (s9.inside # s9'.inside /\ ~s5))
      /\ s5' = ((new.e > s1.e /\ new.x # s1.x) \/ (s5 /\ s9.inside = s9'.inside))
  BY <1>1 DEF EO!Move
<1> QED BY <1>1, <1>3, <1>4, <1>5 DEF MovesTo

\* The peak grows with what is extruded on the way, and with nothing else.
LEMMA PeakMoves ==
  ASSUME EO!ExcludeObjectAssumption, EO!TypeOK, NEW new, MovesTo(new)
  PROVE  /\ new.e \in Int /\ new.x \in Int /\ new.z \in Int
         /\ EO!Missing' \in {0, 1} /\ EO!Peak' = new.e + EO!Missing' /\ EO!Peak' = EO!Most(EO!Peak, new.e)
         /\ EO!Peak' = EO!Peak \/ EO!Peak' = EO!Peak + 1
         /\ new.e > s1.e /\ new.x # s1.x => EO!Peak' = new.e /\ EO!Peak < new.e
         /\ new.e > s1.e => EO!Peak' = new.e
         /\ ~(new.e > s1.e /\ new.x # s1.x) => EO!Peak' = EO!Peak
         /\ new.e = s1.e => EO!Missing' = EO!Missing
<1>1. /\ s1.e \in Int /\ s2 \in BOOLEAN /\ new.e \in Int /\ new.x \in Int /\ new.z \in Int /\ s1' = new
  BY ObjectStates, IsPlace DEF MovesTo
<1>2. EO!Missing = (IF s2 THEN 1 ELSE 0) /\ EO!Missing' = (IF s2' THEN 1 ELSE 0) BY DEF EO!Missing
<1>3. EO!Peak = s1.e + EO!Missing /\ EO!Peak' = new.e + EO!Missing' BY <1>1 DEF EO!Peak
<1>4. CASE new.e < s1.e
  <2>1. EO!Missing = 0 /\ EO!Missing' = 1 /\ new.e = s1.e - 1 BY <1>1, <1>2, <1>4 DEF MovesTo
  <2> QED BY <1>1, <1>3, <1>4, <2>1 DEF EO!Most
<1>5. CASE new.e = s1.e
  <2>1. EO!Missing' = EO!Missing /\ EO!Missing \in {0, 1} BY <1>1, <1>2, <1>5 DEF MovesTo
  <2> QED BY <1>1, <1>3, <1>5, <2>1 DEF EO!Most
<1>6. CASE new.e > s1.e
  <2>1. EO!Missing' = 0 /\ new.e = s1.e + 1 /\ EO!Missing = IF new.x = s1.x THEN 1 ELSE 0 BY <1>1, <1>2, <1>6 DEF MovesTo
  <2> QED BY <1>1, <1>3, <1>6, <2>1 DEF EO!Most
<1> QED BY <1>1, <1>4, <1>5, <1>6

LEMMA MostIs ==
  ASSUME NEW a \in Int, NEW b \in Int
  PROVE  /\ EO!Most(a, b) \in Int /\ EO!Most(a, b) >= a /\ EO!Most(a, b) >= b /\ EO!Most(a, b) \in {a, b}
         /\ \A c \in Int : EO!Most(a - c, b - c) = EO!Most(a, b) - c
BY DEF EO!Most

\* Without the transform.
LEMMA PassesKeeps ==
  ASSUME EO!ExcludeObjectAssumption, EO!IInv, NEW new, MovesTo(new), ~s9.on, s3' = new, s9' = s9
  PROVE  EO!IInv'
<1>1. EO!TypeOK /\ EO!OffsetsAreTrue BY DEF EO!IInv
<1>2. /\ new.e \in Int /\ new.x \in Int /\ new.z \in Int /\ new \in EO!Positions /\ s1' = new /\ s2' \in BOOLEAN
      /\ EO!Missing' \in {0, 1} /\ EO!Peak' = new.e + EO!Missing' /\ EO!Peak' = EO!Most(EO!Peak, new.e)
      /\ s4' = EO!Most(s4, new.e)
  BY <1>1, PeakMoves DEF MovesTo
<1>3. /\ s9 \in EO!Transforms /\ s1.e \in Int /\ s3.e \in Int /\ s4 \in Nat /\ EO!Peak \in Int /\ s5 \in BOOLEAN
      /\ s6 \in BOOLEAN /\ EO!Missing \in {0, 1}
  BY <1>1, ObjectStates DEF EO!TypeOK
<1>4. ~s9.inside /\ s9.off.x = 0 /\ s9.off.z = 0 /\ s9.off.e = 0 /\ s9.off = EO!Zero /\ s9.adj = 0
  BY <1>1, PlaceIs DEF EO!OffsetsAreTrue, EO!Zero
<1>5. s6' = s6 BY <1>3 DEF MovesTo
<1>6. s4' \in Nat BY <1>2, <1>3 DEF EO!Most
<1>7. EO!TypeOK' BY <1>1, <1>2, <1>3, <1>5, <1>6 DEF EO!TypeOK, MovesTo
<1>8. EO!OffsetsAreTrue' BY <1>2, <1>4 DEF EO!OffsetsAreTrue
<1>9. ASSUME ~s6'
      PROVE  EO!PeaksAreKnown' /\ EO!FilamentIsCounted'
  <2>1. EO!FilamentIsCounted BY <1>5, <1>9 DEF EO!IInv
  <2>2. s3.e = s1.e /\ s4 = EO!Peak /\ EO!Peak >= 0
    BY <1>1, <1>3, <1>4, <2>1 DEF EO!OffsetsAreTrue, EO!FilamentIsCounted, EO!Peak
  <2>3. s4' = EO!Peak' /\ EO!Peak' >= 0 /\ EO!Peak' \in Int BY <1>2, <1>3, <2>2 DEF EO!Most
  <2>4. EO!PeaksAreKnown' BY DEF EO!PeaksAreKnown
  <2>5. EO!FilamentIsCounted' BY <1>2, <1>4, <2>3 DEF EO!FilamentIsCounted
  <2> QED BY <2>4, <2>5
<1> QED BY <1>2, <1>7, <1>8, <1>9 DEF EO!IInv

\* In an excluded object.
LEMMA IgnoreKeeps ==
  ASSUME EO!ExcludeObjectAssumption, EO!IInv, NEW new, MovesTo(new), s9.on, s9.initial = 0, EO!_ignore_move(new)
  PROVE  EO!IInv'
<1>1. EO!TypeOK /\ EO!OffsetsAreTrue BY DEF EO!IInv
<1>2. /\ new.e \in Int /\ new.x \in Int /\ new.z \in Int /\ new \in EO!Positions /\ s1' = new /\ s2' \in BOOLEAN
      /\ EO!Missing' \in {0, 1} /\ EO!Peak' = new.e + EO!Missing' /\ EO!Peak' = EO!Most(EO!Peak, new.e)
      /\ EO!Peak' = EO!Peak \/ EO!Peak' = EO!Peak + 1
  BY <1>1, PeakMoves DEF MovesTo
<1>3. /\ s9 \in EO!Transforms /\ s1.e \in Int /\ s3.e \in Int /\ s4 \in Nat /\ EO!Peak \in Int /\ s5 \in BOOLEAN
      /\ s6 \in BOOLEAN /\ EO!Missing \in {0, 1} /\ EO!Peak = s1.e + EO!Missing /\ FirstPulls >= 2 /\ FirstPulls \in Nat
  BY <1>1, ObjectStates DEF EO!TypeOK, EO!Peak
<1>4. /\ s9.off.x \in Int /\ s9.off.e \in Int /\ s9.last.e \in Int /\ s9.lastExtruded \in EO!Positions
      /\ s9.lastExtruded.x \in Int /\ s9.lastExtruded.z \in Int /\ s9.lastExtruded.e \in Int
      /\ s9.maxExtruded \in Int /\ s9.maxExcluded \in Int /\ s9.adj \in Int /\ s9.inside \in BOOLEAN
  BY <1>3, TransformIs
<1>5. PICK off : off = EO!At(new.x - s9.lastExtruded.x, new.z - s9.lastExtruded.z, s9.off.e + new.e - s9.last.e) OBVIOUS
<1>6. off \in EO!Positions /\ off.e = s9.off.e + new.e - s9.last.e
  <2>1. /\ new.x - s9.lastExtruded.x \in Int /\ new.z - s9.lastExtruded.z \in Int
        /\ s9.off.e + new.e - s9.last.e \in Int
    BY <1>2, <1>4
  <2> QED BY <2>1, <1>5, PlaceIs
<1>7. /\ s9' = [on |-> TRUE, off |-> off, last |-> new, lastExtruded |-> s9.lastExtruded, lastExcluded |-> new,
                maxExtruded |-> s9.maxExtruded, maxExcluded |-> EO!Most(s9.maxExcluded, new.e), adj |-> s9.adj,
                initial |-> 0, inside |-> TRUE]
      /\ s3' = s3
  BY <1>5 DEF EO!_ignore_move, EO!Skipped
<1>8. /\ s9'.on /\ s9'.inside /\ s9'.off = off /\ s9'.last = new /\ s9'.lastExtruded = s9.lastExtruded
      /\ s9'.lastExcluded = new /\ s9'.maxExtruded = s9.maxExtruded /\ s9'.adj = s9.adj /\ s9'.initial = 0
      /\ s9'.maxExcluded = EO!Most(s9.maxExcluded, new.e)
  BY <1>7
<1>9. s9' \in EO!Transforms
  <2>1. EO!Most(s9.maxExcluded, new.e) \in Int /\ 0 \in 0..FirstPulls BY <1>2, <1>3, <1>4 DEF EO!Most
  <2> QED BY <1>2, <1>4, <1>6, <1>7, <2>1 DEF EO!Transforms
<1>10. EO!TypeOK'
  <2>1. s4' \in Nat BY <1>3, <1>7 DEF MovesTo, EO!Most
  <2>2. s5' \in BOOLEAN /\ s6' \in BOOLEAN BY <1>3 DEF MovesTo
  <2> QED BY <1>1, <1>2, <1>7, <1>9, <2>1, <2>2 DEF EO!TypeOK
<1>11. EO!OffsetsAreTrue'
  <2>1. s3.e = s1.e - s9.off.e /\ s9.last = s1 BY <1>1 DEF EO!OffsetsAreTrue
  <2>2. s3.e = new.e - off.e BY <1>2, <1>3, <1>4, <1>6, <2>1
  <2> QED BY <1>2, <1>7, <1>8, <2>2 DEF EO!OffsetsAreTrue
<1>12. ASSUME ~s6'
       PROVE  EO!PeaksAreKnown' /\ EO!FilamentIsCounted'
  <2>1. ~s6 /\ (~s9.inside => s5) BY <1>3, <1>4, <1>8, <1>12 DEF MovesTo
  <2>2. EO!PeaksAreKnown /\ EO!FilamentIsCounted BY <2>1 DEF EO!IInv
  <2>3. /\ s9.maxExtruded - s9.lastExtruded.e \in {0, 1} /\ s9.adj = 0
        /\ s4 = s3.e + s9.maxExtruded - s9.lastExtruded.e /\ s4 >= s3.e /\ EO!Peak >= 0
        /\ s9.maxExtruded <= EO!Peak /\ s9.maxExcluded <= EO!Peak
    <3>1. CASE s9.inside BY <2>2, <3>1 DEF EO!PeaksAreKnown, EO!FilamentIsCounted
    <3>2. CASE ~s9.inside
      <4>1. s9.maxExtruded = EO!Peak /\ s9.lastExtruded = s1 BY <2>1, <2>2, <3>2, <1>3 DEF EO!PeaksAreKnown
      <4>2. s9.adj = 0 /\ s4 = s3.e + EO!Missing - s9.adj /\ s4 >= s3.e /\ EO!Peak >= 0
        BY <2>1, <2>2, <3>2 DEF EO!FilamentIsCounted
      <4>3. s9.maxExtruded <= EO!Peak /\ s9.maxExcluded <= EO!Peak BY <2>2 DEF EO!PeaksAreKnown
      <4> QED BY <4>1, <4>2, <4>3, <1>3, <1>4
    <3> QED BY <3>1, <3>2, <1>4
  <2>4. s4' = s4 BY <2>3, <1>3, <1>7 DEF MovesTo, EO!Most
  <2>5. s5' => EO!Most(s9.maxExcluded, new.e) = EO!Peak'
    <3>1. CASE new.e > s1.e /\ new.x # s1.x
      <4>1. EO!Peak' = new.e /\ EO!Peak < new.e BY <1>1, <3>1, PeakMoves
      <4> QED BY <4>1, <2>3, <1>2, <1>3, <1>4 DEF EO!Most
    <3>2. CASE ~(new.e > s1.e /\ new.x # s1.x)
      <4>1. EO!Peak' = EO!Peak BY <1>1, <3>2, PeakMoves
      <4>2. s5' => s5 /\ s9.inside BY <3>2, <1>4, <1>8 DEF MovesTo
      <4>3. s5' => s9.maxExcluded = EO!Peak BY <2>2, <4>2 DEF EO!PeaksAreKnown
      <4> QED BY <4>1, <4>3, <1>2, <1>3, <1>4 DEF EO!Most
    <3> QED BY <3>1, <3>2
  <2>6. s9.maxExtruded <= EO!Peak' /\ EO!Most(s9.maxExcluded, new.e) <= EO!Peak'
    BY <1>2, <1>3, <1>4, <2>3 DEF EO!Most
  <2>7. EO!PeaksAreKnown' BY <1>2, <1>8, <2>3, <2>5, <2>6 DEF EO!PeaksAreKnown
  <2>8. EO!FilamentIsCounted' BY <1>2, <1>3, <1>7, <1>8, <2>3, <2>4 DEF EO!FilamentIsCounted
  <2> QED BY <2>7, <2>8
<1> QED BY <1>10, <1>11, <1>12 DEF EO!IInv

\* Outside of excluded objects, where adj is what the filament is still to be corrected by.
LEMMA NormalKeeps ==
  ASSUME EO!ExcludeObjectAssumption, EO!IInv, NEW new, MovesTo(new), s9.on, NEW adj \in Int, EO!_normal_move(adj, new),
         ~s6 /\ s9.inside => s9.initial = 0,
         ~s6 /\ (s9.inside => s5)
           => /\ s4 = s3.e + EO!Missing - adj /\ EO!Missing - adj \in {0, 1}
              /\ adj # 0 => s1.e = s9.lastExcluded.e /\ (~s5 \/ s9.inside)
  PROVE  EO!IInv'
<1>1. EO!TypeOK /\ EO!OffsetsAreTrue BY DEF EO!IInv
<1>2. /\ new.e \in Int /\ new.x \in Int /\ new.z \in Int /\ new \in EO!Positions /\ s1' = new /\ s2' \in BOOLEAN
      /\ EO!Missing' \in {0, 1} /\ EO!Peak' = new.e + EO!Missing' /\ EO!Peak' = EO!Most(EO!Peak, new.e)
      /\ EO!Peak' = EO!Peak \/ EO!Peak' = EO!Peak + 1
      /\ new.e > s1.e => EO!Peak' = new.e
      /\ new.e = s1.e => EO!Missing' = EO!Missing
  BY <1>1, PeakMoves DEF MovesTo
<1>3. /\ s9 \in EO!Transforms /\ s1.e \in Int /\ s3.e \in Int /\ s4 \in Nat /\ EO!Peak \in Int /\ s5 \in BOOLEAN
      /\ s6 \in BOOLEAN /\ EO!Missing \in {0, 1} /\ EO!Peak = s1.e + EO!Missing /\ FirstPulls >= 2 /\ FirstPulls \in Nat
  BY <1>1, ObjectStates DEF EO!TypeOK, EO!Peak
<1>4. /\ s9.off.x \in Int /\ s9.off.z \in Int /\ s9.off.e \in Int /\ s9.lastExcluded \in EO!Positions
      /\ s9.lastExcluded.x \in Int /\ s9.lastExcluded.z \in Int /\ s9.lastExcluded.e \in Int
      /\ s9.maxExtruded \in Int /\ s9.maxExcluded \in Int /\ s9.inside \in BOOLEAN /\ s9.initial \in 0..FirstPulls
      /\ s9.initial \in Nat
  BY <1>3, TransformIs
<1>5. PICK ox, oz, oe, adj2, left :
        /\ ox = IF EO!LeavesX(s9.off, new) THEN 0 ELSE s9.off.x
        /\ oz = IF EO!LeavesX(s9.off, new) \/ EO!LeavesZ(s9.off, new) THEN 0 ELSE s9.off.z
        /\ oe = IF EO!Corrects(s9.off, new) THEN s9.off.e + adj ELSE s9.off.e
        /\ adj2 = IF EO!Corrects(s9.off, new) THEN 0 ELSE adj
        /\ left = IF s9.initial > 0 /\ s9.last.e # new.e THEN s9.initial - 1 ELSE s9.initial
  OBVIOUS
<1>6. /\ s9' = [on |-> TRUE, off |-> EO!At(ox, oz, oe), last |-> new, lastExtruded |-> new, lastExcluded |-> s9.lastExcluded,
                maxExtruded |-> EO!Most(s9.maxExtruded, new.e), maxExcluded |-> s9.maxExcluded, adj |-> adj2,
                initial |-> left, inside |-> FALSE]
      /\ s3' = EO!At(new.x - EO!At(ox, oz, oe).x, new.z - EO!At(ox, oz, oe).z, new.e - EO!At(ox, oz, oe).e)
  <2>1. EO!Settled(s9.off, adj, new) = [off |-> EO!At(ox, oz, oe), adj |-> adj2] BY <1>5 DEF EO!Settled, EO!Corrected
  <2> QED BY <1>5, <2>1 DEF EO!_normal_move
<1>7. ox \in Int /\ oz \in Int /\ oe \in Int /\ adj2 \in Int /\ left \in 0..FirstPulls /\ left \in Nat BY <1>3, <1>4, <1>5
<1>8. /\ EO!At(ox, oz, oe) \in EO!Positions /\ EO!At(ox, oz, oe).x = ox /\ EO!At(ox, oz, oe).z = oz
      /\ EO!At(ox, oz, oe).e = oe
  BY <1>7, PlaceIs
<1>9. s3' \in EO!Positions /\ s3'.x = new.x - ox /\ s3'.z = new.z - oz /\ s3'.e = new.e - oe
  <2>1. new.x - ox \in Int /\ new.z - oz \in Int /\ new.e - oe \in Int BY <1>2, <1>7
  <2> QED BY <1>6, <1>8, <2>1, PlaceIs
<1>10. /\ s9'.on /\ ~s9'.inside /\ s9'.off.x = ox /\ s9'.off.z = oz /\ s9'.off.e = oe /\ s9'.last = new
       /\ s9'.lastExtruded = new /\ s9'.lastExcluded = s9.lastExcluded /\ s9'.adj = adj2 /\ s9'.initial = left
       /\ s9'.maxExtruded = EO!Most(s9.maxExtruded, new.e) /\ s9'.maxExcluded = s9.maxExcluded
  BY <1>6, <1>8
<1>11. s9' \in EO!Transforms
  <2>1. EO!Most(s9.maxExtruded, new.e) \in Int BY <1>2, <1>4 DEF EO!Most
  <2> QED BY <1>2, <1>4, <1>6, <1>7, <1>8, <2>1 DEF EO!Transforms
<1>12. EO!TypeOK'
  <2>1. s4' \in Nat BY <1>2, <1>3, <1>7, <1>9 DEF MovesTo, EO!Most
  <2>2. s5' \in BOOLEAN /\ s6' \in BOOLEAN BY <1>3 DEF MovesTo
  <2> QED BY <1>1, <1>2, <1>9, <1>11, <2>1, <2>2 DEF EO!TypeOK
<1>13. EO!OffsetsAreTrue'
  <2>1. ox # 0 => new.x = s9.lastExcluded.x BY <1>5 DEF EO!LeavesX
  <2>2. oz # 0 => new.z = s9.lastExcluded.z BY <1>5 DEF EO!LeavesZ
  <2> QED BY <1>2, <1>9, <1>10, <2>1, <2>2 DEF EO!OffsetsAreTrue
<1>14. ASSUME ~s6'
       PROVE  EO!PeaksAreKnown' /\ EO!FilamentIsCounted'
  <2>1. ~s6 /\ (s9.inside => s5) BY <1>3, <1>4, <1>10, <1>14 DEF MovesTo
  <2>2. EO!PeaksAreKnown /\ EO!FilamentIsCounted BY <2>1 DEF EO!IInv
  <2>3. /\ s4 = s3.e + EO!Missing - adj /\ EO!Missing - adj \in {0, 1}
        /\ adj # 0 => s1.e = s9.lastExcluded.e /\ (~s5 \/ s9.inside)
    BY <2>1
  <2>4. /\ s9.maxExtruded <= EO!Peak /\ s9.maxExcluded <= EO!Peak /\ EO!Peak >= 0 /\ s9.last = s1
        /\ s3.e = s1.e - s9.off.e
    BY <1>1, <2>2 DEF EO!PeaksAreKnown, EO!FilamentIsCounted, EO!OffsetsAreTrue
  <2>5. s9'.maxExtruded <= EO!Peak' /\ s9'.maxExcluded <= EO!Peak' BY <1>2, <1>3, <1>4, <1>10, <2>4 DEF EO!Most
  <2>6. EO!Peak' = new.e \/ s9.maxExtruded = EO!Peak => s9'.maxExtruded = EO!Peak'
    BY <1>2, <1>3, <1>4, <1>10, <2>4 DEF EO!Most
  <2>7. left = FirstPulls - 1 => s9'.maxExtruded = EO!Peak' \/ s2'
    <3>1. CASE new.e > s1.e BY <3>1, <1>2, <2>6
    <3>2. CASE new.e < s1.e BY <3>2 DEF MovesTo
    <3>3. CASE new.e = s1.e
      <4>1. left = s9.initial BY <1>5, <2>4, <3>3
      <4>2. s9.initial = FirstPulls - 1 => ~s9.inside BY <1>3, <2>1
      <4>3. s9.initial = FirstPulls - 1 => s9.maxExtruded = EO!Peak \/ s2 BY <4>2, <2>2 DEF EO!PeaksAreKnown
      <4>4. s2' = s2 BY <3>3 DEF MovesTo
      <4> QED BY <4>1, <4>3, <4>4, <2>6
    <3> QED BY <3>1, <3>2, <3>3, <1>2, <1>3
  <2>8. left < FirstPulls - 1 /\ s5' => s9'.maxExtruded = EO!Peak'
    <3>1. CASE new.e > s1.e BY <3>1, <1>2, <2>6
    <3>2. CASE ~(new.e > s1.e) /\ left < FirstPulls - 1 /\ s5'
      <4>1. s5 /\ ~s9.inside BY <3>2, <1>4, <1>10 DEF MovesTo
      <4>2. CASE s9.initial < FirstPulls - 1 BY <4>1, <4>2, <2>2, <2>6 DEF EO!PeaksAreKnown
      <4>3. CASE ~(s9.initial < FirstPulls - 1)
        <5>1. s9.initial = FirstPulls - 1 /\ new.e # s1.e BY <4>3, <3>2, <1>3, <1>4, <1>5, <2>4
        <5>2. new.e < s1.e BY <5>1, <3>2, <1>2, <1>3
        <5>3. ~s2 BY <5>2 DEF MovesTo
        <5>4. s9.maxExtruded = EO!Peak \/ s2 BY <4>1, <5>1, <2>2 DEF EO!PeaksAreKnown
        <5> QED BY <5>3, <5>4, <2>6
      <4> QED BY <4>2, <4>3
    <3> QED BY <3>1, <3>2
  <2>9. EO!PeaksAreKnown' BY <1>2, <1>10, <2>5, <2>7, <2>8 DEF EO!PeaksAreKnown
  <2>10. /\ s4' = s3'.e + EO!Missing' - adj2 /\ EO!Missing' - adj2 \in {0, 1} /\ s4' >= s3'.e
         /\ adj2 # 0 => new.e = s9.lastExcluded.e /\ ~s5'
    <3>1. s4' = EO!Most(s4, new.e - oe) BY <1>9 DEF MovesTo
    <3>2. CASE EO!Corrects(s9.off, new)
      <4>1. oe = s9.off.e + adj /\ adj2 = 0 BY <1>5, <3>2
      <4>2. s4 = EO!Peak - oe BY <4>1, <2>3, <2>4, <1>3, <1>4
      <4>3. s4' = EO!Peak' - oe BY <3>1, <4>2, <1>2, <1>3, <1>7 DEF EO!Most
      <4> QED BY <4>1, <4>3, <1>2, <1>7, <1>9
    <3>3. CASE ~EO!Corrects(s9.off, new) /\ adj = 0
      <4>1. oe = s9.off.e /\ adj2 = 0 BY <1>5, <3>3
      <4>2. s4 = EO!Peak - oe BY <4>1, <3>3, <2>3, <2>4, <1>3, <1>4
      <4>3. s4' = EO!Peak' - oe BY <3>1, <4>2, <1>2, <1>3, <1>7 DEF EO!Most
      <4> QED BY <4>1, <4>3, <1>2, <1>7, <1>9
    <3>4. CASE ~EO!Corrects(s9.off, new) /\ adj # 0
      <4>1. oe = s9.off.e /\ adj2 = adj /\ new.e = s9.lastExcluded.e BY <1>5, <3>4 DEF EO!Corrects
      <4>2. new.e = s1.e /\ EO!Missing' = EO!Missing /\ (~s5 \/ s9.inside) BY <4>1, <3>4, <2>3, <1>2
      <4>3. ~s5' BY <4>2, <1>3, <1>4, <1>10 DEF MovesTo
      <4>4. new.e - oe = s3.e BY <4>1, <4>2, <2>4
      <4>5. s4' = s4 BY <4>4, <3>1, <2>3, <1>3 DEF EO!Most
      <4> QED BY <4>1, <4>2, <4>3, <4>4, <4>5, <2>3, <1>2, <1>3, <1>9
    <3> QED BY <3>2, <3>3, <3>4
  <2>11. EO!Peak' >= 0 BY <1>2, <1>3, <2>4
  <2>12. EO!FilamentIsCounted' BY <1>2, <1>10, <2>10, <2>11 DEF EO!FilamentIsCounted
  <2> QED BY <2>9, <2>12
<1> QED BY <1>12, <1>13, <1>14 DEF EO!IInv

LEMMA ObjectMoveKeeps ==
  ASSUME EO!ExcludeObjectAssumption, EO!IInv, EO!Move
  PROVE  EO!IInv'
<1>1. EO!TypeOK /\ EO!OffsetsAreTrue BY DEF EO!IInv
<1>2. PICK new : MovesTo(new) /\ EO!move(new) BY <1>1, MoveIs
<1>3. s9 \in EO!Transforms /\ EO!Missing \in {0, 1} /\ s1.e \in Int BY <1>1, ObjectStates
<1>4. /\ s9.on \in BOOLEAN /\ s9.inside \in BOOLEAN /\ s9.adj \in Int /\ s9.maxExtruded \in Int
      /\ s9.maxExcluded \in Int /\ s9.lastExcluded.e \in Int /\ s9.lastExtruded.e \in Int
  BY <1>3, TransformIs
<1>5. CASE ~s9.on BY <1>2, <1>5, PassesKeeps DEF EO!move
<1>6. CASE s9.on /\ EO!_test_in_excluded_region
  BY <1>2, <1>6, IgnoreKeeps DEF EO!move, EO!_test_in_excluded_region
<1>7. CASE s9.on /\ ~EO!_test_in_excluded_region /\ s9.inside
  <2> DEFINE adj == s9.maxExcluded - s9.lastExcluded.e - (s9.maxExtruded - s9.lastExtruded.e)
  <2>1. EO!_normal_move(adj, new) BY <1>2, <1>7 DEF EO!move, EO!_move_from_excluded_region
  <2>2. adj \in Int BY <1>4
  <2>3. ASSUME ~s6, s5
        PROVE  /\ s4 = s3.e + EO!Missing - adj /\ EO!Missing - adj \in {0, 1} /\ s1.e = s9.lastExcluded.e
    <3>1. EO!PeaksAreKnown /\ EO!FilamentIsCounted BY <2>3 DEF EO!IInv
    <3>2. /\ s9.lastExcluded = s1 /\ s9.maxExtruded - s9.lastExtruded.e \in {0, 1} /\ s9.maxExcluded = EO!Peak
      BY <3>1, <2>3, <1>7 DEF EO!PeaksAreKnown
    <3>3. s4 = s3.e + s9.maxExtruded - s9.lastExtruded.e BY <3>1, <1>7 DEF EO!FilamentIsCounted
    <3>4. s3.e \in Int /\ EO!Peak = s1.e + EO!Missing BY <1>1, ObjectStates DEF EO!Peak
    <3> QED BY <3>2, <3>3, <3>4, <1>3, <1>4
  <2>4. s9.initial = 0 \/ s6
    BY <1>7 DEF EO!IInv, EO!PeaksAreKnown
  <2> HIDE DEF adj
  <2> QED BY <2>1, <2>2, <2>3, <2>4, <1>2, <1>7, NormalKeeps
<1>8. CASE s9.on /\ ~EO!_test_in_excluded_region /\ ~s9.inside
  <2>1. EO!_normal_move(s9.adj, new) BY <1>2, <1>8 DEF EO!move
  <2>2. ASSUME ~s6
        PROVE  /\ s4 = s3.e + EO!Missing - s9.adj /\ EO!Missing - s9.adj \in {0, 1}
               /\ s9.adj # 0 => s1.e = s9.lastExcluded.e /\ ~s5
    BY <2>2, <1>8 DEF EO!IInv, EO!FilamentIsCounted
  <2> QED BY <2>1, <2>2, <1>2, <1>4, <1>8, NormalKeeps
<1> QED BY <1>4, <1>5, <1>6, <1>7, <1>8

\* What leaves the head, the filament and the transform alone.
LEMMA ObjectsStay ==
  ASSUME EO!IInv, UNCHANGED <<s1, s2, s3, s4, s5, s6, s9>>
  PROVE  EO!IInv'
BY DEF EO!IInv, EO!TypeOK, EO!OffsetsAreTrue, EO!PeaksAreKnown, EO!FilamentIsCounted, EO!Peak, EO!Missing

\* A transform that starts finds the machine where the G-code is.
LEMMA _exclude_objectKeeps ==
  ASSUME EO!ExcludeObjectAssumption, EO!IInv, s9' = EO!_register_transform, UNCHANGED <<s1, s2, s3, s4, s5, s6>>
  PROVE  EO!IInv'
<1>1. CASE s9.on
  <2>1. s9' = s9 BY <1>1 DEF EO!_register_transform
  <2> QED BY <2>1, ObjectsStay
<1>2. CASE ~s9.on
  <2>1. EO!TypeOK /\ EO!OffsetsAreTrue BY DEF EO!IInv
  <2>2. s9' = [on |-> TRUE, off |-> EO!Zero, last |-> s3, lastExtruded |-> s3, lastExcluded |-> s3, maxExtruded |-> 0,
               maxExcluded |-> 0, adj |-> 0, initial |-> FirstPulls, inside |-> s9.inside]
    BY <1>2 DEF EO!_register_transform
  <2>3. EO!Zero \in EO!Positions /\ EO!Zero.x = 0 /\ EO!Zero.z = 0 /\ EO!Zero.e = 0 BY PlaceIs DEF EO!Zero
  <2>4. ~s9.inside /\ s9.off = EO!Zero /\ s9.adj = 0 BY <1>2, <2>1 DEF EO!OffsetsAreTrue
  <2>5. /\ s1 \in EO!Positions /\ s3 \in EO!Positions /\ s3.x = s1.x /\ s3.z = s1.z /\ s3.e = s1.e
        /\ FirstPulls \in Nat /\ FirstPulls >= 2 /\ EO!Peak \in Int
    <3>1. s1.x \in Int /\ s1.z \in Int /\ s1.e \in Int BY <2>1, ObjectStates
    <3> QED BY <2>1, <2>3, <2>4, <3>1, ObjectStates DEF EO!OffsetsAreTrue
  <2>6. s3 = s1 BY <2>5 DEF EO!Positions
  <2>7. /\ s9'.on /\ ~s9'.inside /\ s9'.off = EO!Zero /\ s9'.last = s1 /\ s9'.lastExtruded = s1 /\ s9'.maxExtruded = 0
        /\ s9'.maxExcluded = 0 /\ s9'.adj = 0 /\ s9'.initial = FirstPulls
    BY <2>2, <2>4, <2>6
  <2>8. s9' \in EO!Transforms
    <3>1. FirstPulls \in 0..FirstPulls BY <2>5
    <3>2. s9.inside \in BOOLEAN BY <2>1, ObjectStates, TransformIs
    <3> QED BY <2>2, <2>3, <2>4, <2>5, <3>1, <3>2 DEF EO!Transforms
  <2>9. EO!TypeOK' BY <2>1, <2>8 DEF EO!TypeOK
  <2>10. EO!OffsetsAreTrue' BY <2>1, <2>3, <2>4, <2>7 DEF EO!OffsetsAreTrue
  <2>11. ASSUME ~s6
         PROVE  EO!PeaksAreKnown' /\ EO!FilamentIsCounted'
    <3>1. EO!FilamentIsCounted BY <2>11 DEF EO!IInv
    <3>2. EO!Peak' = EO!Peak /\ EO!Missing' = EO!Missing BY DEF EO!Peak, EO!Missing
    <3>3. EO!PeaksAreKnown' BY <2>5, <2>7, <3>1, <3>2 DEF EO!PeaksAreKnown, EO!FilamentIsCounted
    <3>4. EO!FilamentIsCounted' BY <2>4, <2>7, <3>1, <3>2 DEF EO!FilamentIsCounted
    <3> QED BY <3>3, <3>4
  <2> QED BY <2>9, <2>10, <2>11 DEF EO!IInv
<1> QED BY <1>1, <1>2

\* The next file takes the filament as the last one left it.
LEMMA _reset_fileKeeps ==
  ASSUME EO!ExcludeObjectAssumption, EO!IInv, EO!_reset_file
  PROVE  EO!IInv'
<1>1. EO!TypeOK /\ EO!OffsetsAreTrue BY DEF EO!IInv
<1>2. s9.on /\ s9' = EO!Off /\ s1' = s3 /\ s2' = (s4 # s3.e) /\ UNCHANGED <<s3, s4, s5, s6>> BY DEF EO!_reset_file
<1>3. EO!Zero \in EO!Positions /\ EO!Zero.x = 0 /\ EO!Zero.z = 0 /\ EO!Zero.e = 0 BY PlaceIs DEF EO!Zero
<1>4. /\ s3 \in EO!Positions /\ s3.x \in Int /\ s3.z \in Int /\ s3.e \in Int /\ s4 \in Nat /\ FirstPulls \in Nat
      /\ s9 \in EO!Transforms /\ EO!Missing \in {0, 1}
  BY <1>1, ObjectStates DEF EO!TypeOK
<1>5. ~s9'.on /\ ~s9'.inside /\ s9'.off = EO!Zero /\ s9'.adj = 0 BY <1>2 DEF EO!Off
<1>6. s9' \in EO!Transforms
  <2>1. FirstPulls \in 0..FirstPulls BY <1>4
  <2> QED BY <1>2, <1>3, <2>1 DEF EO!Off, EO!Transforms
<1>7. EO!TypeOK' BY <1>1, <1>2, <1>4, <1>6 DEF EO!TypeOK
<1>8. EO!OffsetsAreTrue' BY <1>2, <1>3, <1>4, <1>5 DEF EO!OffsetsAreTrue
<1>9. ASSUME ~s6
      PROVE  EO!PeaksAreKnown' /\ EO!FilamentIsCounted'
  <2>1. EO!PeaksAreKnown /\ EO!FilamentIsCounted BY <1>9 DEF EO!IInv
  <2>2. s4 - s3.e \in {0, 1}
    <3>1. s9.adj \in Int /\ s9.maxExtruded \in Int /\ s9.lastExtruded.e \in Int BY <1>4, TransformIs
    <3>2. CASE s9.inside
      <4>1. s4 = s3.e + s9.maxExtruded - s9.lastExtruded.e /\ s9.maxExtruded - s9.lastExtruded.e \in {0, 1}
        BY <2>1, <3>2, <1>2 DEF EO!PeaksAreKnown, EO!FilamentIsCounted
      <4> QED BY <4>1, <3>1, <1>4
    <3>3. CASE ~s9.inside
      <4>1. s4 = s3.e + EO!Missing - s9.adj /\ EO!Missing - s9.adj \in {0, 1}
        BY <2>1, <3>3 DEF EO!FilamentIsCounted
      <4> QED BY <4>1, <3>1, <1>4
    <3> QED BY <3>2, <3>3
  <2>3. EO!Missing' = (IF s4 # s3.e THEN 1 ELSE 0) BY <1>2 DEF EO!Missing
  <2>4. EO!Missing' = s4 - s3.e BY <1>4, <2>2, <2>3
  <2>5. EO!Peak' = s4 BY <1>2, <1>4, <2>4 DEF EO!Peak
  <2>6. EO!PeaksAreKnown' BY <1>5 DEF EO!PeaksAreKnown
  <2>7. EO!FilamentIsCounted' BY <1>2, <1>4, <1>5, <2>2, <2>4, <2>5 DEF EO!FilamentIsCounted
  <2> QED BY <2>6, <2>7
<1> QED BY <1>2, <1>7, <1>8, <1>9 DEF EO!IInv

LEMMA ObjectsStart ==
  ASSUME EO!ExcludeObjectAssumption, EO!Init
  PROVE  EO!IInv
<1>1. /\ s1 = EO!Zero /\ s2 = FALSE /\ s3 = EO!Zero /\ s4 = 0 /\ s5 = TRUE /\ s6 = FALSE /\ s9 = EO!Off
  BY DEF EO!Init
<1>2. EO!Zero \in EO!Positions /\ EO!Zero.x = 0 /\ EO!Zero.z = 0 /\ EO!Zero.e = 0 BY PlaceIs DEF EO!Zero
<1>3. ~s9.on /\ ~s9.inside /\ s9.off = EO!Zero /\ s9.adj = 0 BY <1>1 DEF EO!Off
<1>4. s9 \in EO!Transforms
  <2>1. FirstPulls \in 0..FirstPulls BY DEF EO!ExcludeObjectAssumption
  <2> QED BY <1>1, <1>2, <2>1 DEF EO!Off, EO!Transforms
<1>5. EO!TypeOK BY <1>1, <1>2, <1>4 DEF EO!TypeOK
<1>6. EO!OffsetsAreTrue BY <1>1, <1>2, <1>3 DEF EO!OffsetsAreTrue
<1>7. EO!PeaksAreKnown /\ EO!FilamentIsCounted
  BY <1>1, <1>2, <1>3 DEF EO!PeaksAreKnown, EO!FilamentIsCounted, EO!Peak, EO!Missing
<1> QED BY <1>5, <1>6, <1>7 DEF EO!IInv

\* Whatever the objects and however many moves and commands there are.
LEMMA ObjectsKeepIInv ==
  ASSUME EO!ExcludeObjectAssumption, EO!IInv, [EO!Next]_(EO!vars)
  PROVE  EO!IInv'
<1>1. CASE EO!Move BY <1>1, ObjectMoveKeeps
<1>2. CASE EO!cmd_EXCLUDE_OBJECT_START \/ EO!cmd_EXCLUDE_OBJECT_END
  BY <1>2, ObjectsStay DEF EO!cmd_EXCLUDE_OBJECT_START, EO!cmd_EXCLUDE_OBJECT_END
<1>3. CASE EO!cmd_EXCLUDE_OBJECT
  <2>1. s9' = EO!_register_transform \/ s9' = s9
    BY <1>3 DEF EO!cmd_EXCLUDE_OBJECT, EO!_exclude_object, EO!_unexclude_object
  <2>2. UNCHANGED <<s1, s2, s3, s4, s5, s6>> BY <1>3 DEF EO!cmd_EXCLUDE_OBJECT
  <2> QED BY <2>1, <2>2, ObjectsStay, _exclude_objectKeeps
<1>4. CASE EO!_reset_file BY <1>4, _reset_fileKeeps
<1>5. CASE UNCHANGED EO!vars BY <1>5, ObjectsStay DEF EO!vars
<1> QED BY <1>1, <1>2, <1>3, <1>4, <1>5 DEF EO!Next

LEMMA ObjectsLeaveNoTrace ==
  ASSUME EO!ExcludeObjectAssumption, EO!IInv
  PROVE  EO!HeadIsWhereAsked /\ EO!FilamentIsPrimed
<1>1. EO!TypeOK /\ EO!OffsetsAreTrue BY DEF EO!IInv
<1>2. /\ s9 \in EO!Transforms /\ s1.x \in Int /\ s1.z \in Int /\ s3.x \in Int /\ s3.z \in Int /\ s3.e \in Int
      /\ s4 \in Int /\ EO!Missing \in {0, 1}
  BY <1>1, ObjectStates
<1>3. s9.off.x \in Int /\ s9.off.z \in Int BY <1>2, TransformIs
<1>4. EO!HeadIsWhereAsked BY <1>1, <1>2, <1>3 DEF EO!HeadIsWhereAsked, EO!OffsetsAreTrue
<1>5. ASSUME ~s6, ~s9.inside, s9.adj = 0
      PROVE  s4 - s3.e = EO!Missing
  <2>1. s4 = s3.e + EO!Missing - s9.adj BY <1>5 DEF EO!IInv, EO!FilamentIsCounted
  <2> QED BY <1>2, <1>5, <2>1
<1>6. EO!FilamentIsPrimed BY <1>5 DEF EO!FilamentIsPrimed, EO!Missing
<1> QED BY <1>4, <1>6

-----------------------------------------------------------------------------
(* Heaters, whatever their times, temperatures and limits: IInv of Heaters *)
(* is kept by each action.                                                 *)

\* The assumption, constant by constant.
LEMMA HeatersConstants ==
  ASSUME HeatersAssumption
  PROVE  /\ Kinds \subseteq AllKinds /\ Targets \subseteq 0..Hot /\ Delay <= MaxHeat \div 4
         /\ Hot \in Nat /\ Delay \in Nat /\ MaxDelta \in Nat /\ Hysteresis \in Nat /\ MaxError \in Nat /\ TuneDelta \in Nat /\ Peaks \in Nat
         /\ MaxInputs \in Nat /\ MaxHeat \in Nat /\ Gain \in Nat /\ GainTime \in Nat /\ StaleTime \in Nat /\ StartTime \in Nat
         /\ MaxHeat >= 1 /\ Gain >= 1 /\ GainTime >= 1 /\ StaleTime >= 1 /\ StartTime >= 1
BY DEF HeatersAssumption

\* A value that is not written again is renewed before the micro-controller's limit.
LEMMA LimitIsInTime ==
  ASSUME HeatersAssumption
  PROVE  Limit \in Nat /\ Max2(1, Limit) <= MaxHeat
<1>1. Delay \in Nat /\ MaxHeat \in Nat /\ MaxHeat >= 1 /\ Delay <= MaxHeat \div 4 BY HeatersConstants
<1>2. (MaxHeat \div 4) + (3 * MaxHeat) \div 4 <= MaxHeat /\ (3 * MaxHeat) \div 4 \in Nat
  BY <1>1, Z3
<1> QED BY <1>1, <1>2 DEF Limit, Max2

\* The types, without the sets in which they are stated.
LEMMA HeaterStates ==
  ASSUME HeatersAssumption, IInv
  PROVE  /\ kind \in AllKinds /\ temp \in 0..Hot /\ target \in 0..Hot /\ pwm \in 0..Full /\ age \in Nat
         /\ heard \in 0..StaleTime + 1 /\ start \in Never..StartTime /\ heating \in BOOLEAN
         /\ temp \in Int /\ target \in Int /\ Hot \in Nat
         /\ bed \in 0..2 /\ cold \in Nat /\ n \in 0..MaxInputs
         /\ tune.on \in BOOLEAN /\ tune.heating \in BOOLEAN /\ tune.peaks \in Nat /\ tune.base \in 0..Hot
         /\ chk.approach \in BOOLEAN /\ chk.starting \in BOOLEAN /\ chk.last \in 0..Hot /\ chk.goal \in Int
         /\ chk.left \in 0..GainTime /\ chk.err \in 0..MaxError /\ chk.gone \in BOOLEAN /\ chk.alarm \in BOOLEAN
BY HeatersConstants DEF IInv, TypeOK, TunesAre, ChecksAre

LEMMA ReadingIs ==
  ASSUME HeatersAssumption, IInv
  PROVE  Reading \in 0..Hot /\ Reading \in Int
BY HeatersConstants, HeaterStates DEF Reading

LEMMA HeaterStarts ==
  ASSUME HeatersAssumption, Init
  PROVE  IInv
<1>1. TypeOK
  <2>1. /\ 0 \in 0..Hot /\ 0 \in 0..Full /\ 0 \in 0..GainTime /\ 0 \in 0..MaxError /\ 0 \in 0..MaxInputs /\ 0 \in 0..2
        /\ StaleTime + 1 \in 0..StaleTime + 1 /\ Never \in Never..StartTime
    BY HeatersConstants DEF Full, Never
  <2>2. withBed \in BOOLEAN BY DEF Init
  <2> QED BY <2>1, <2>2 DEF Init, TypeOK, None
<1>2. tune \in TunesAre BY HeatersConstants DEF Init, TunesAre, None
<1>3. chk \in ChecksAre BY HeatersConstants DEF Init, ChecksAre
<1>4. cold \in Nat /\ ColdIsCounted /\ AgeIsBounded BY DEF Init, ColdIsCounted, AgeIsBounded
<1>5. FaultIsFound BY HeatersConstants DEF Init, FaultIsFound, Max2
<1> QED BY <1>1, <1>2, <1>3, <1>4, <1>5 DEF IInv

\* What leaves reading, check and time alone leaves the check's account alone.
LEMMA ColdStays ==
  ASSUME ColdIsCounted, FaultIsFound, UNCHANGED <<temp, heard, chk, cold, checked>>
  PROVE  ColdIsCounted' /\ FaultIsFound'
BY DEF ColdIsCounted, FaultIsFound, ColdThen, Max2, Min2, Reading

LEMMA AgeStays ==
  ASSUME AgeIsBounded, UNCHANGED <<pwm, age, heard>>
  PROVE  AgeIsBounded'
BY DEF AgeIsBounded, Limit, Max2

\* After the reading of the sensor the value is new or young enough.
LEMMA PwmIsRenewed ==
  ASSUME HeatersAssumption, IInv, NEW p \in 0..Full, NEW t \in 0..Hot, SetPwm(p, t)
  PROVE  pwm' \in 0..Full /\ age' \in Nat /\ (pwm' > 0 => age' = 0 \/ age' < Limit)
<1>1. Limit \in Nat BY LimitIsInTime
<1>2. pwm \in 0..Full /\ age \in Nat BY HeaterStates
<1> DEFINE value == IF t <= 0 \/ down THEN 0 ELSE p
<1>3. value \in 0..Full BY DEF Full
<1>4. Suppressed(value) => pwm = 0 \/ age < Limit BY DEF Suppressed, Limit
<1>5. IF Suppressed(value) THEN UNCHANGED <<pwm, age>> ELSE pwm' = value /\ age' = 0 BY DEF SetPwm
<1> HIDE DEF value
<1>6. CASE Suppressed(value) BY <1>1, <1>2, <1>4, <1>5, <1>6
<1>7. CASE ~Suppressed(value) BY <1>1, <1>3, <1>5, <1>7
<1> QED BY <1>6, <1>7

\* What the controls leave: a young value, and states of their own.
ControlIsSound ==
  /\ pwm' \in 0..Full /\ age' \in Nat /\ (pwm' > 0 => age' = 0 \/ age' < Limit)
  /\ tune' \in TunesAre /\ tune'.on = tune.on /\ start' \in Never..StartTime /\ heating' \in BOOLEAN

LEMMA AlteredTargetIs ==
  ASSUME HeatersAssumption, IInv, NEW t \in 0..Hot
  PROVE  AlteredTarget(t) \in 0..Hot
<1>1. /\ tune.base \in 0..Hot /\ target \in 0..Hot /\ Hot \in Nat /\ TuneDelta \in Nat BY HeaterStates, HeatersConstants
<1> QED BY <1>1 DEF AlteredTarget, Max2

LEMMA AutoTuneIsSound ==
  ASSUME HeatersAssumption, IInv, NEW t \in 0..Hot, AutoTuneUpdate(t)
  PROVE  ControlIsSound
<1> DEFINE on == TuneHeats(t)
           peaks == IF on = tune.heating THEN tune.peaks ELSE Min2(tune.peaks + 1, Peaks)
<1>1. /\ tune' = [tune EXCEPT !.heating = on, !.peaks = peaks]
      /\ SetPwm(IF on THEN Full ELSE 0, AlteredTarget(t)) /\ UNCHANGED <<start, heating>>
  BY DEF AutoTuneUpdate
<1>2. /\ tune.heating \in BOOLEAN /\ tune.peaks \in Nat /\ target \in Int /\ t \in Int /\ Peaks \in Nat
      /\ start \in Never..StartTime /\ heating \in BOOLEAN /\ tune \in TunesAre
  BY HeaterStates, HeatersConstants DEF IInv
<1>3. on \in BOOLEAN
  <2>1. (t < target) \in BOOLEAN /\ (t <= target) \in BOOLEAN BY <1>2
  <2> QED BY <2>1, Zenon DEF TuneHeats
<1>4. (IF on THEN Full ELSE 0) \in 0..Full BY DEF Full
<1>5. peaks \in Nat BY <1>2 DEF Min2
<1> HIDE DEF on, peaks
<1>6. pwm' \in 0..Full /\ age' \in Nat /\ (pwm' > 0 => age' = 0 \/ age' < Limit)
  BY <1>1, <1>4, AlteredTargetIs, PwmIsRenewed
<1>7. tune' \in TunesAre /\ tune'.on = tune.on BY <1>1, <1>2, <1>3, <1>5 DEF TunesAre
<1> QED BY <1>1, <1>2, <1>6, <1>7 DEF ControlIsSound

LEMMA BangBangIsSound ==
  ASSUME HeatersAssumption, IInv, NEW t \in 0..Hot, BangBangUpdate(t)
  PROVE  ControlIsSound
<1>1. /\ heating' = IF heating THEN t < target + MaxDelta ELSE t <= target - MaxDelta
      /\ SetPwm(IF heating' THEN Full ELSE 0, target) /\ UNCHANGED <<tune, start>>
  BY DEF BangBangUpdate
<1>2. target \in 0..Hot /\ start \in Never..StartTime /\ tune \in TunesAre BY HeaterStates DEF IInv
<1>3. heating' \in BOOLEAN
  <2>1. (t < target + MaxDelta) \in BOOLEAN /\ (t <= target - MaxDelta) \in BOOLEAN BY SMT
  <2> QED BY <1>1, <2>1, Zenon
<1>4. (IF heating' THEN Full ELSE 0) \in 0..Full BY DEF Full
<1>5. pwm' \in 0..Full /\ age' \in Nat /\ (pwm' > 0 => age' = 0 \/ age' < Limit)
  BY <1>1, <1>2, <1>4, PwmIsRenewed
<1> QED BY <1>1, <1>2, <1>3, <1>5 DEF ControlIsSound

LEMMA PidIsSound ==
  ASSUME HeatersAssumption, IInv, PidUpdate
  PROVE  ControlIsSound
<1>1. PICK p \in 0..Full :
        /\ start' = IF ~IsChamber THEN start ELSE IF p = 0 THEN Never ELSE Max2(start, 0)
        /\ SetPwm(IF IsChamber /\ withBed /\ bed # 2 THEN 0
                  ELSE IF IsChamber /\ start' < StartTime THEN Min2(p, 1) ELSE p, target)
  BY DEF PidUpdate
<1>2. /\ UNCHANGED <<tune, heating>> /\ tune \in TunesAre /\ heating \in BOOLEAN /\ target \in 0..Hot
      /\ start \in Never..StartTime /\ StartTime \in Nat /\ StartTime >= 1
  BY HeaterStates, HeatersConstants DEF PidUpdate, IInv
<1>3. start' \in Never..StartTime BY <1>1, <1>2 DEF Max2, Never
<1>4. Min2(p, 1) \in 0..Full /\ 0 \in 0..Full BY DEF Min2, Full
<1>5. (IF IsChamber /\ withBed /\ bed # 2 THEN 0
       ELSE IF IsChamber /\ start' < StartTime THEN Min2(p, 1) ELSE p) \in 0..Full
  BY <1>4, Zenon
<1>6. pwm' \in 0..Full /\ age' \in Nat /\ (pwm' > 0 => age' = 0 \/ age' < Limit)
  BY <1>1, <1>2, <1>5, PwmIsRenewed
<1> QED BY <1>2, <1>3, <1>6 DEF ControlIsSound

LEMMA temperature_callbackKeeps ==
  ASSUME HeatersAssumption, IInv, NEW t \in 0..Hot, NEW high \in BOOLEAN, temperature_callback(t, high)
  PROVE  IInv'
<1>0. /\ reported' = TRUE /\ temp' = t /\ heard' = 0 /\ cold' = IF t > Reading THEN 0 ELSE cold
      /\ UNCHANGED <<kind, withBed, silent, bed, n, chk, cmd, aborted, checked, down>>
  BY DEF temperature_callback, env, wait
<1>1. ControlIsSound
  <2>1. CASE tune.on BY <2>1, AutoTuneIsSound DEF temperature_callback
  <2>2. CASE ~tune.on /\ "watermark" \in kind BY <2>2, BangBangIsSound DEF temperature_callback
  <2>3. CASE ~tune.on /\ "watermark" \notin kind BY <2>3, PidIsSound DEF temperature_callback
  <2> QED BY <2>1, <2>2, <2>3
<1>2. target' \in 0..Hot /\ cut' \in BOOLEAN
  <2>1. AlteredTarget(t) \in 0..Hot /\ 0 \in 0..Hot /\ cut \in BOOLEAN
    BY AlteredTargetIs, HeatersConstants DEF IInv, TypeOK
  <2> QED BY <2>1 DEF temperature_callback
<1>3. TypeOK'
  <2>1. 0 \in 0..StaleTime + 1 BY HeatersConstants
  <2> QED BY <1>0, <1>1, <1>2, <2>1 DEF IInv, TypeOK, ControlIsSound
<1>4. AgeIsBounded'
  <2>1. Limit \in Nat /\ Limit' = Limit BY LimitIsInTime DEF Limit
  <2>2. pwm' > 0 => age' <= Max2(1, Limit) BY <1>1, <2>1 DEF ControlIsSound, Max2
  <2>3. Max2(1, Limit)' = Max2(1, Limit) BY <2>1 DEF Max2
  <2> QED BY <1>1, <2>1, <2>2, <2>3 DEF AgeIsBounded, ControlIsSound
<1>5. cold \in Nat /\ cold' \in Nat /\ FaultIsFound' BY <1>0, HeatersConstants DEF IInv, FaultIsFound, Max2
<1>6. ColdIsCounted'
  <2>1. CASE cold' > 0
    <3>1. t <= Reading /\ cold' = cold BY <1>0, <2>1, ReadingIs
    <3>2. Reading' = t BY <1>0, HeatersConstants DEF Reading
    <3>3. chk.last \in Int /\ chk.goal \in Int /\ Hysteresis \in Int BY HeaterStates, HeatersConstants
    <3>4. ColdThen' = ColdThen BY <1>0, <3>1 DEF ColdThen
    <3> QED BY <1>0, <2>1, <3>1, <3>2, <3>3, <3>4, ReadingIs DEF IInv, ColdIsCounted, Min2, Max2
  <2>2. CASE ~(cold' > 0) BY <2>2 DEF ColdIsCounted
  <2> QED BY <2>1, <2>2
<1>7. tune' \in TunesAre /\ chk' \in ChecksAre BY <1>0, <1>1 DEF ControlIsSound, IInv
<1> QED BY <1>3, <1>4, <1>5, <1>6, <1>7 DEF IInv

\* The error that the check notes, far below the target.
LEMMA ErrorGrows ==
  ASSUME HeatersAssumption, IInv, ~Near
  PROVE  /\ Error \in 0..MaxError /\ Error >= Min2(chk.err + 1, MaxError)
         /\ target > 0 /\ Reading < target - Hysteresis
<1>1. /\ chk.err \in 0..MaxError /\ Reading \in Int /\ target \in Int /\ Hysteresis \in Nat /\ MaxError \in Nat
      /\ target \in 0..Hot /\ Hot \in Nat
  BY HeaterStates, HeatersConstants, ReadingIs
<1>2. target > 0 /\ Reading < target - Hysteresis BY <1>1 DEF Near
<1> QED BY <1>1, <1>2 DEF Error, Min2

LEMMA check_eventKeeps ==
  ASSUME HeatersAssumption, IInv, NEW high \in BOOLEAN, check_event(high)
  PROVE  IInv'
<1>0. /\ checked' = TRUE /\ ~checked /\ ~chk.gone
      /\ cold' = IF high \/ target # chk.last THEN 0 ELSE cold
      /\ UNCHANGED <<kind, withBed, silent, bed, n, temp, heard, cmd, aborted, reported>>
  BY DEF check_event, env, sensor, wait
<1>1. /\ Reading \in Int /\ target \in 0..Hot /\ target \in Int /\ Hot \in Nat /\ cold \in Nat /\ cold' \in Nat /\ chk \in ChecksAre
      /\ chk.last \in 0..Hot /\ chk.goal \in Int /\ chk.left \in 0..GainTime /\ chk.err \in 0..MaxError
      /\ chk.approach \in BOOLEAN
      /\ Hysteresis \in Nat /\ MaxError \in Nat /\ Gain \in Nat /\ Gain >= 1 /\ GainTime \in Nat /\ GainTime >= 1
  BY <1>0, HeaterStates, HeatersConstants, ReadingIs DEF IInv
<1>a. /\ 0 \in 0..MaxError /\ MaxError \in 0..MaxError /\ 0 \in 0..Hot /\ GainTime \in 0..GainTime
      /\ Reading + Gain \in Int /\ Reading - Gain \in Int
  BY <1>1
<1>b. Reading \in Int /\ chk.goal \in Int /\ chk.left \in Nat /\ cold' \in Int BY <1>1
<1>2. FaultIsFound' BY <1>0, <1>1 DEF IInv, FaultIsFound, Max2
<1>3. cold' > 0 => cold' = cold /\ ~high /\ target = chk.last
  BY <1>0, <1>1
\* What the check found until now, in a cold time that goes on.
<1>4. ASSUME cold' > 0, chk.last > 0
      PROVE  /\ Reading < chk.last - Hysteresis /\ ~Near
             /\ chk.err >= Min2(cold - 2, MaxError)
             /\ chk.approach => /\ cold - 1 <= GainTime /\ (cold > 1 => chk.goal > Reading)
                                /\ chk.left <= Max2(0, GainTime + 1 - cold)
             /\ ~chk.approach => cold - 1 <= Max2(GainTime + 1, MaxError)
  <2>1. ColdThen = cold - 1 /\ cold > 0 BY <1>0, <1>3, <1>4 DEF ColdThen
  <2>2. /\ Reading < chk.last - Hysteresis
        /\ chk.err >= Min2(ColdThen - 1, MaxError)
        /\ chk.approach => /\ ColdThen <= GainTime /\ (ColdThen > 0 => chk.goal > Reading)
                           /\ chk.left <= Max2(0, GainTime + 1 - cold)
        /\ ~chk.approach => ColdThen <= Max2(GainTime + 1, MaxError)
    BY <1>0, <1>4, <2>1 DEF IInv, ColdIsCounted
  <2>3. ~Near BY <1>1, <1>3, <1>4, <2>2 DEF Near
  <2> QED BY <1>1, <2>1, <2>2, <2>3
<1>5. ASSUME chk' \in ChecksAre, UNCHANGED <<control, down>>,
             cold' > 0 /\ ~chk'.gone /\ chk'.last > 0 =>
               /\ Reading < chk'.last - Hysteresis
               /\ chk'.err >= Min2(cold' - 1, MaxError)
               /\ chk'.approach => /\ cold' <= GainTime /\ (cold' > 0 => chk'.goal > Reading)
                                   /\ chk'.left <= Max2(0, GainTime + 1 - cold')
               /\ ~chk'.approach => cold' <= Max2(GainTime + 1, MaxError)
      PROVE  IInv'
  <2>1. ColdIsCounted' BY <1>0, <1>5 DEF ColdIsCounted, ColdThen, Reading
  <2>2. UNCHANGED <<target, pwm, age, tune, start, heating, cut>> BY <1>5 DEF control
  <2>3. TypeOK' BY <1>0, <1>5, <2>2 DEF IInv, TypeOK, ChecksAre
  <2>4. AgeIsBounded' BY <1>0, <2>2, AgeStays DEF IInv
  <2> QED BY <1>1, <1>2, <1>5, <2>1, <2>2, <2>3, <2>4 DEF IInv
<1>6. CASE Near
  <2>1. chk' = NearTarget /\ UNCHANGED <<control, down>> BY <1>6 DEF check_event
  <2>a. (IF Reading <= target + Hysteresis THEN 0 ELSE chk.err) \in 0..MaxError BY <1>1, <1>a
  <2>2. chk' \in ChecksAre BY <1>1, <2>a, <2>1 DEF NearTarget, ChecksAre
  <2>3. chk'.last = target BY <1>1, <2>1 DEF NearTarget, ChecksAre
  <2>4. cold' > 0 /\ chk'.last > 0 => FALSE BY <1>3, <1>4, <1>6, <2>3
  <2> QED BY <1>5, <2>1, <2>2, <2>4
<1>7. CASE ~Near /\ chk.approach
  <2>0. Error \in 0..MaxError /\ Error >= Min2(chk.err + 1, MaxError) /\ target > 0 /\ Reading < target - Hysteresis
    BY <1>7, ErrorGrows
  <2>1. chk' = Approach /\ UNCHANGED <<control, down>> BY <1>7 DEF check_event
  <2>3. CASE Reading >= chk.goal
    <3>1. chk' = [chk EXCEPT !.err = 0, !.starting = FALSE, !.goal = Reading + Gain, !.left = GainTime, !.last = target]
      BY <2>1, <2>3 DEF Approach
    <3>2. chk' \in ChecksAre BY <1>1, <1>a, <3>1 DEF ChecksAre
    <3>3. /\ chk'.err = 0 /\ chk'.goal = Reading + Gain /\ chk'.left = GainTime /\ chk'.last = target /\ chk'.approach
      BY <1>1, <1>7, <3>1 DEF ChecksAre
    <3>4. ASSUME cold' > 0 PROVE cold = 1 /\ cold' = 1
      <4>1. cold' = cold /\ target = chk.last BY <1>3, <3>4
      <4>2. cold > 1 => chk.goal > Reading BY <1>4, <1>7, <2>0, <3>4, <4>1
      <4>3. ~(cold > 1) BY <1>b, <2>3, <4>2
      <4> QED BY <1>1, <3>4, <4>1, <4>3
    <3>5. ASSUME cold' > 0
          PROVE  /\ Reading < target - Hysteresis /\ 0 >= Min2(cold' - 1, MaxError) /\ cold' <= GainTime
                 /\ Reading + Gain > Reading /\ GainTime <= Max2(0, GainTime + 1 - cold')
      BY <1>1, <2>0, <3>4, <3>5 DEF Max2, Min2
    <3> HIDE DEF Max2, Min2
    <3> QED BY <1>5, <2>1, <3>2, <3>3, <3>5
  <2>4. CASE Reading < chk.goal /\ chk.left = 0
    <3>1. chk' = [chk EXCEPT !.err = Error, !.approach = FALSE, !.last = target]
      <4>1. ~(Reading >= chk.goal) BY <1>b, <2>4
      <4> QED BY <2>1, <2>4, <4>1, Zenon DEF Approach
    <3>2. chk' \in ChecksAre BY <1>1, <1>a, <2>0, <3>1 DEF ChecksAre
    <3>3. chk'.err = Error /\ chk'.approach = FALSE /\ chk'.last = target BY <1>1, <3>1 DEF ChecksAre
    <3>4. ASSUME cold' > 0 PROVE cold' <= GainTime + 1 /\ Error >= Min2(cold' - 1, MaxError)
      <4>1. cold' = cold /\ target = chk.last BY <1>3, <3>4
      <4>2. chk.err >= Min2(cold - 2, MaxError) /\ cold - 1 <= GainTime BY <1>4, <1>7, <2>0, <3>4, <4>1
      <4> QED BY <1>1, <2>0, <4>1, <4>2 DEF Min2
    <3>5. ASSUME cold' > 0 PROVE cold' <= Max2(GainTime + 1, MaxError)
      BY <1>1, <3>4, <3>5 DEF Max2
    <3> QED BY <1>5, <2>0, <2>1, <3>2, <3>3, <3>4, <3>5
  <2>5. CASE Reading < chk.goal /\ chk.left # 0
    <3> DEFINE goal == IF chk.starting THEN Min2(chk.goal, Reading + Gain) ELSE chk.goal
    <3>1. chk' = [chk EXCEPT !.err = Error, !.last = target, !.goal = goal]
      <4>1. ~(Reading >= chk.goal) BY <1>b, <2>5
      <4> QED BY <2>1, <2>5, <4>1, Zenon DEF Approach
    <3>2. goal \in Int /\ goal > Reading
      <4>1. CASE chk.starting BY <1>1, <1>b, <2>5, <4>1 DEF Min2
      <4>2. CASE ~chk.starting BY <1>1, <2>5, <4>2
      <4> QED BY <4>1, <4>2
    <3> HIDE DEF goal
    <3>3. chk' \in ChecksAre BY <1>1, <1>a, <2>0, <3>1, <3>2 DEF ChecksAre
    <3>4. chk'.err = Error /\ chk'.approach /\ chk'.last = target /\ chk'.goal = goal /\ chk'.left = chk.left
      BY <1>1, <1>7, <3>1 DEF ChecksAre
    <3>5. ASSUME cold' > 0
          PROVE  cold' <= GainTime /\ Error >= Min2(cold' - 1, MaxError) /\ chk.left <= Max2(0, GainTime + 1 - cold')
      <4>1. cold' = cold /\ target = chk.last BY <1>3, <3>5
      <4>2. chk.err >= Min2(cold - 2, MaxError) /\ chk.left <= Max2(0, GainTime + 1 - cold)
        BY <1>4, <1>7, <2>0, <3>5, <4>1
      <4>3. Error \in Int /\ chk.err \in Int BY <1>1, <2>0
      <4>4. Error >= Min2(cold' - 1, MaxError) BY <1>1, <2>0, <4>1, <4>2, <4>3 DEF Min2
      <4>5. chk.left > 0 /\ cold' \in Int BY <1>b, <2>5
      <4>6. cold' <= GainTime BY <1>1, <4>1, <4>2, <4>5 DEF Max2
      <4> QED BY <4>1, <4>2, <4>4, <4>6
    <3> QED BY <1>5, <2>0, <2>1, <3>2, <3>3, <3>4, <3>5
  <2>6. Reading >= chk.goal \/ Reading < chk.goal BY <1>1
  <2> QED BY <2>3, <2>4, <2>5, <2>6
<1>8. CASE ~Near /\ ~chk.approach /\ target # chk.last
  <2>0. Error \in 0..MaxError BY <1>8, ErrorGrows
  <2>1. chk' = NewTarget /\ UNCHANGED <<control, down>> BY <1>8 DEF check_event
  <2>2. chk' \in ChecksAre BY <1>1, <1>a, <2>0, <2>1 DEF NewTarget, ChecksAre
  <2>3. cold' = 0 BY <1>0, <1>8
  <2> QED BY <1>5, <2>1, <2>2, <2>3
<1>9. CASE ~Near /\ ~chk.approach /\ target = chk.last /\ Error = MaxError /\ ~high
  <2>1. Fault BY <1>9 DEF check_event
  <2>2. /\ chk' \in ChecksAre /\ (chk'.gone \/ chk'.last = 0)
        /\ target' \in 0..Hot /\ cut' \in BOOLEAN /\ down' \in BOOLEAN /\ UNCHANGED <<pwm, age, tune, start, heating>>
    <3>1. CASE "box" \in kind
      <4>1. chk' = [chk EXCEPT !.err = MaxError, !.last = 0, !.alarm = TRUE] /\ Off /\ UNCHANGED down
        BY <2>1, <3>1 DEF Fault
      <4>2. chk' \in ChecksAre /\ chk'.last = 0 BY <1>1, <1>a, <4>1 DEF ChecksAre
      <4> QED BY <1>1, <4>1, <4>2 DEF Off, IInv, TypeOK
    <3>2. CASE "box" \notin kind
      <4>1. chk' = [chk EXCEPT !.gone = TRUE, !.alarm = TRUE] /\ down' = TRUE /\ UNCHANGED control
        BY <2>1, <3>2 DEF Fault
      <4>2. chk' \in ChecksAre /\ chk'.gone BY <1>1, <4>1 DEF ChecksAre
      <4> QED BY <1>1, <4>1, <4>2 DEF control, IInv, TypeOK
    <3> QED BY <3>1, <3>2
  <2>3. ColdIsCounted' BY <1>1, <2>2 DEF ColdIsCounted, ChecksAre
  <2>4. TypeOK' BY <1>0, <2>2 DEF IInv, TypeOK, ChecksAre
  <2>5. AgeIsBounded' BY <1>0, <2>2, AgeStays DEF IInv
  <2> QED BY <1>1, <1>2, <2>2, <2>3, <2>4, <2>5 DEF IInv
<1>10. CASE ~Near /\ ~chk.approach /\ target = chk.last /\ ~(Error = MaxError /\ ~high)
  <2>0. Error \in 0..MaxError /\ Error >= Min2(chk.err + 1, MaxError) /\ target > 0 /\ Reading < target - Hysteresis
    BY <1>10, ErrorGrows
  <2>1. chk' = [chk EXCEPT !.err = IF Error = MaxError THEN 0 ELSE Error] /\ UNCHANGED <<control, down>>
    BY <1>10 DEF check_event
  <2>2. chk' \in ChecksAre BY <1>1, <1>a, <2>0, <2>1 DEF ChecksAre
  <2>3. /\ chk'.err = IF Error = MaxError THEN 0 ELSE Error
        /\ chk'.last = target /\ ~chk'.approach
    BY <1>1, <1>10, <2>1 DEF ChecksAre
  <2>4. ASSUME cold' > 0 PROVE chk'.err >= Min2(cold' - 1, MaxError) /\ cold' <= MaxError
    <3>1. cold' = cold /\ ~high BY <1>3, <2>4
    <3>2. Error < MaxError /\ chk'.err = Error BY <1>1, <1>10, <2>0, <2>3, <3>1
    <3>3. chk.err >= Min2(cold - 2, MaxError) BY <1>4, <1>10, <2>0, <2>4
    <3> QED BY <1>1, <2>0, <3>1, <3>2, <3>3 DEF Min2
  <2> QED BY <1>1, <1>5, <2>0, <2>1, <2>2, <2>3, <2>4 DEF Max2
<1> QED BY <1>1, <1>6, <1>7, <1>8, <1>9, <1>10

\* What leaves the check's account and the pin alone keeps the rest.
LEMMA QuietKeeps ==
  ASSUME HeatersAssumption, IInv, TypeOK', tune' \in TunesAre,
         UNCHANGED <<temp, heard, chk, cold, checked, pwm, age>>
  PROVE  IInv'
<1>1. ColdIsCounted' /\ FaultIsFound' BY ColdStays DEF IInv
<1>2. AgeIsBounded' BY AgeStays DEF IInv
<1>3. chk' \in ChecksAre /\ cold' \in Nat BY DEF IInv
<1> QED BY <1>1, <1>2, <1>3 DEF IInv

LEMMA InputIsCounted ==
  ASSUME HeatersAssumption, IInv, Input
  PROVE  n' \in 0..MaxInputs /\ UNCHANGED <<kind, temp, heard, reported, checked, cold>>
<1>1. n \in 0..MaxInputs /\ MaxInputs \in Nat BY HeaterStates, HeatersConstants
<1> QED BY <1>1 DEF Input, sensor, turn

LEMMA NoneIsATune == ASSUME HeatersAssumption PROVE None \in TunesAre /\ ~None.on
BY HeatersConstants DEF None, TunesAre

LEMMA CommandsKeep ==
  ASSUME HeatersAssumption, IInv, NEW t \in Targets, NEW b \in BOOLEAN, PID_CALIBRATE(t) \/ set_temperature(t, b)
  PROVE  IInv'
<1>1. t \in 0..Hot /\ Hot \in Nat BY HeatersConstants
<1>2. /\ Input /\ cmd = "none" /\ target' = t /\ cut' = FALSE
      /\ UNCHANGED <<withBed, silent, bed, pwm, age, start, heating, chk, aborted, down>>
  BY DEF PID_CALIBRATE, set_temperature
<1>3. n' \in 0..MaxInputs /\ UNCHANGED <<kind, temp, heard, reported, checked, cold>> BY <1>2, InputIsCounted
<1>4. tune' \in TunesAre /\ (tune'.on <=> cmd' = "tune") /\ cmd' \in {"none", "wait", "tune"}
  <2>1. CASE PID_CALIBRATE(t)
    <3>1. cmd' = "tune" /\ tune' = [on |-> TRUE, heating |-> FALSE, peaks |-> 0, base |-> t]
      BY <2>1 DEF PID_CALIBRATE
    <3> QED BY <1>1, <3>1 DEF TunesAre
  <2>2. CASE set_temperature(t, b)
    <3>1. cmd' \in {"none", "wait"} /\ UNCHANGED tune BY <2>2 DEF set_temperature
    <3>2. tune \in TunesAre /\ (tune.on <=> cmd = "tune") BY DEF IInv, TypeOK
    <3> QED BY <1>2, <3>1, <3>2
  <2> QED BY <2>1, <2>2
<1>5. TypeOK' BY <1>1, <1>2, <1>3, <1>4 DEF IInv, TypeOK
<1> QED BY <1>2, <1>3, <1>4, <1>5, QuietKeeps

LEMMA WaitEndsKeeps ==
  ASSUME HeatersAssumption, IInv, WaitEnds
  PROVE  IInv'
<1>1. /\ cmd # "none" /\ cmd' = "none" /\ aborted' = FALSE
      /\ UNCHANGED <<kind, withBed, silent, bed, n, temp, heard, pwm, age, start, heating, cut, chk, reported, checked,
                     down, cold>>
  BY DEF WaitEnds, env, sensor, turn
<1>2. tune' \in TunesAre /\ ~tune'.on /\ target' \in 0..Hot
  <2>1. CASE cmd = "tune"
    <3>1. tune' = None /\ target' = 0 BY <2>1 DEF WaitEnds, Restored
    <3>2. 0 \in 0..Hot BY HeatersConstants
    <3> QED BY <3>1, <3>2, NoneIsATune
  <2>2. CASE cmd # "tune"
    <3>1. UNCHANGED <<tune, target>> BY <2>2 DEF WaitEnds
    <3> QED BY <2>2, <3>1, HeaterStates DEF IInv, TypeOK
  <2> QED BY <2>1, <2>2
<1>3. TypeOK' BY <1>1, <1>2 DEF IInv, TypeOK
<1> QED BY <1>1, <1>2, <1>3, QuietKeeps

\* What happens around the heater, and what others do to it.
Around == ChamberOff \/ CLOSE_CHAMBER_DEBUG \/ SensorChanges \/ BedChanges

LEMMA AroundKeeps ==
  ASSUME HeatersAssumption, IInv, Around
  PROVE  IInv'
<1>1. Input BY DEF Around, ChamberOff, CLOSE_CHAMBER_DEBUG, SensorChanges, BedChanges
<1>2. n' \in 0..MaxInputs /\ UNCHANGED <<kind, temp, heard, reported, checked, cold>> BY <1>1, InputIsCounted
<1>3. UNCHANGED <<pwm, age, tune, start, heating, chk, cmd, aborted, down>>
  BY DEF Around, ChamberOff, CLOSE_CHAMBER_DEBUG, SensorChanges, BedChanges, Off, control, wait
<1>4. target' \in 0..Hot /\ cut' \in BOOLEAN /\ bed' \in 0..2 /\ withBed' \in BOOLEAN /\ silent' \in BOOLEAN
  <2>1. /\ target \in 0..Hot /\ 0 \in 0..Hot /\ cut \in BOOLEAN /\ bed \in 0..2 /\ withBed \in BOOLEAN /\ silent \in BOOLEAN
        /\ (~withBed) \in BOOLEAN /\ (~silent) \in BOOLEAN
    BY HeatersConstants DEF IInv, TypeOK
  <2>2. CASE ChamberOff BY <2>1, <2>2, Zenon DEF ChamberOff, Off
  <2>3. CASE CLOSE_CHAMBER_DEBUG BY <2>1, <2>3, Zenon DEF CLOSE_CHAMBER_DEBUG, control
  <2>4. CASE SensorChanges BY <2>1, <2>4, Zenon DEF SensorChanges, control
  <2>5. CASE BedChanges BY <2>1, <2>5 DEF BedChanges, control
  <2> QED BY <2>2, <2>3, <2>4, <2>5 DEF Around
<1>5. TypeOK' BY <1>2, <1>3, <1>4 DEF IInv, TypeOK
<1>6. tune' \in TunesAre BY <1>3 DEF IInv
<1> QED BY <1>2, <1>3, <1>5, <1>6, QuietKeeps

LEMMA handle_shutdownKeeps ==
  ASSUME HeatersAssumption, IInv, handle_shutdown
  PROVE  IInv'
<1>1. n' \in 0..MaxInputs /\ UNCHANGED <<kind, temp, heard, reported, checked, cold>> BY InputIsCounted DEF handle_shutdown
<1>2. /\ chk' = [chk EXCEPT !.gone = TRUE] /\ down' = TRUE
      /\ UNCHANGED <<withBed, silent, bed, target, pwm, age, tune, start, heating, cut, cmd, aborted>>
  BY DEF handle_shutdown, control, wait
<1>3. chk' \in ChecksAre /\ chk'.gone BY <1>2 DEF IInv, ChecksAre
<1>4. TypeOK' BY <1>1, <1>2, <1>3 DEF IInv, TypeOK, ChecksAre
<1>5. ColdIsCounted' BY <1>3 DEF ColdIsCounted
<1>6. FaultIsFound' BY <1>1 DEF IInv, FaultIsFound, Max2
<1>7. AgeIsBounded' BY <1>1, <1>2, AgeStays DEF IInv
<1> QED BY <1>1, <1>2, <1>3, <1>4, <1>5, <1>6, <1>7 DEF IInv

(* The account of a cold time, of a count c, a temperature t and a check k; *)
(* ran says whether the check has run since the count last grew.           *)
Account(c, ran, t, k) ==
  c > 0 /\ ~k.gone /\ k.last > 0 =>
    /\ t < k.last - Hysteresis
    /\ k.err >= Min2((IF ran THEN c ELSE c - 1) - 1, MaxError)
    /\ k.approach => /\ (IF ran THEN c ELSE c - 1) <= GainTime /\ ((IF ran THEN c ELSE c - 1) > 0 => k.goal > t)
                     /\ k.left <= Max2(0, GainTime + 1 - c)
    /\ ~k.approach => (IF ran THEN c ELSE c - 1) <= Max2(GainTime + 1, MaxError)

\* A unit of time after a check, cold or not, keeps the account and ends within the bound of a fault.
LEMMA AccountGrows ==
  ASSUME HeatersAssumption, NEW c \in Nat, NEW d \in Nat, NEW t \in Int, NEW u \in Int,
         NEW k \in ChecksAre, NEW l \in ChecksAre, Account(c, TRUE, t, k),
         0 < d, d <= c + 1, u <= t, t < k.last - Hysteresis, ~k.gone, k.last > 0,
         l.left = Max2(0, k.left - 1), l.approach = k.approach, l.last = k.last, l.goal = k.goal, l.err = k.err
  PROVE  Account(d, FALSE, u, l) /\ d <= Max2(GainTime + 2, MaxError + 1)
<1>1. /\ Hysteresis \in Int /\ GainTime \in Nat /\ GainTime >= 1 /\ MaxError \in Nat
  BY HeatersConstants
<1>2. /\ k.last \in Int /\ k.goal \in Int /\ k.err \in Nat /\ k.err <= MaxError /\ k.left \in Nat
      /\ k.approach \in BOOLEAN
  BY <1>1 DEF ChecksAre
<1>3. c > 0 => /\ k.err >= Min2(c - 1, MaxError)
               /\ k.approach => c <= GainTime /\ k.goal > t /\ k.left <= Max2(0, GainTime + 1 - c)
               /\ ~k.approach => c <= Max2(GainTime + 1, MaxError)
  BY DEF Account
<1>4. k.err >= Min2((d - 1) - 1, MaxError) BY <1>1, <1>2, <1>3 DEF Min2
<1>5. k.approach => d - 1 <= GainTime /\ (d - 1 > 0 => k.goal > u) BY <1>1, <1>2, <1>3
<1>6. k.left <= GainTime BY DEF ChecksAre
<1>7. k.approach => l.left <= Max2(0, GainTime + 1 - d) BY <1>1, <1>2, <1>3, <1>6 DEF Max2
<1>8. ~k.approach => d - 1 <= Max2(GainTime + 1, MaxError) BY <1>1, <1>2, <1>3 DEF Max2
<1>9. d <= Max2(GainTime + 2, MaxError + 1) BY <1>1, <1>2, <1>5, <1>8 DEF Max2
<1>10. u < k.last - Hysteresis BY <1>1, <1>2
<1>11. Account(d, FALSE, u, l) BY <1>4, <1>5, <1>7, <1>8, <1>10 DEF Account
<1> QED BY <1>9, <1>11

\* In a unit of time a heater below its target without a rise is cold for one
\* more, and the check that has run in it has counted it.
LEMMA TickKeeps ==
  ASSUME HeatersAssumption, IInv, Tick
  PROVE  IInv'
<1>1. /\ (checked \/ chk.gone) /\ reported' = FALSE /\ checked' = FALSE
      /\ heard' = Min2(heard + 1, StaleTime + 1) /\ age' = IF pwm = 0 THEN 0 ELSE Min2(age + 1, MaxHeat + 1)
      /\ start' = IF start = Never THEN Never ELSE Min2(start + 1, StartTime)
      /\ down' = (down \/ GivesUp) /\ chk' = [chk EXCEPT !.left = Max2(0, chk.left - 1), !.gone = chk.gone \/ GivesUp]
      /\ cold' = IF Near \/ target # chk.last \/ chk.gone THEN 0 ELSE Min2(cold + 1, 2 * (GainTime + MaxError))
      /\ UNCHANGED <<kind, withBed, silent, bed, n, temp, target, pwm, tune, heating, cut, cmd, aborted>>
  BY DEF Tick, env, wait
<1>2. /\ temp \in 0..Hot /\ target \in 0..Hot /\ Hot \in Nat /\ Hysteresis \in Nat /\ MaxError \in Nat /\ cold \in Nat
      /\ GainTime \in Nat /\ GainTime >= 1 /\ chk \in ChecksAre /\ chk.last \in 0..Hot /\ chk.left \in 0..GainTime
      /\ chk.err \in 0..MaxError /\ chk.goal \in Int /\ pwm \in 0..Full /\ age \in Nat /\ MaxHeat \in Nat /\ MaxHeat >= 1
      /\ heard \in 0..StaleTime + 1 /\ StaleTime \in Nat /\ StaleTime >= 1 /\ start \in Never..StartTime /\ StartTime \in Nat
  BY HeaterStates, HeatersConstants DEF IInv
<1>3. heard' \in 0..StaleTime + 1 /\ start' \in Never..StartTime BY <1>1, <1>2 DEF Min2, Never
<1>4. age' \in Nat /\ AgeIsBounded'
  <2>1. pwm > 0 /\ heard = 0 => age = 0 \/ age < Limit BY DEF IInv, AgeIsBounded
  <2>2. Limit \in Nat BY LimitIsInTime
  <2>3. age' \in Nat /\ (pwm > 0 => age' <= age + 1) BY <1>1, <1>2 DEF Min2, Full
  <2>4. heard' > 0 /\ (heard' <= 1 => heard = 0) BY <1>1, <1>2 DEF Min2
  <2>5. pwm > 0 /\ heard' <= 1 => age' <= Max2(1, Limit) BY <1>2, <2>1, <2>2, <2>3, <2>4 DEF Max2
  <2>6. Max2(1, Limit)' = Max2(1, Limit) BY DEF Max2, Limit
  <2> QED BY <1>1, <2>3, <2>4, <2>5, <2>6 DEF AgeIsBounded
<1>5. /\ chk' \in ChecksAre /\ chk'.left = Max2(0, chk.left - 1) /\ chk'.left \in 0..GainTime
      /\ chk'.approach = chk.approach /\ chk'.last = chk.last /\ chk'.goal = chk.goal /\ chk'.err = chk.err
  <2>1. Max2(0, chk.left - 1) \in 0..GainTime BY <1>2 DEF Max2
  <2>2. (chk.gone \/ GivesUp) \in BOOLEAN BY Zenon
  <2> QED BY <1>1, <1>2, <2>1, <2>2 DEF ChecksAre
<1>6. cold' \in Nat /\ cold' <= cold + 1 BY <1>1, <1>2 DEF Min2
<1>7. cold' > 0 => ~Near /\ target = chk.last /\ ~chk.gone BY <1>1
<1>a. Reading \in Int /\ Reading' \in Int /\ Reading' <= Reading
  <2>1. Reading' = IF heard' > StaleTime THEN 0 ELSE temp BY <1>1 DEF Reading
  <2>2. heard > StaleTime => heard' > StaleTime BY <1>1, <1>2 DEF Min2
  <2>3. temp \in Nat /\ temp \in Int BY <1>2
  <2>4. CASE heard' > StaleTime BY <2>1, <2>3, <2>4 DEF Reading
  <2>5. CASE ~(heard' > StaleTime)
    <3>1. ~(heard > StaleTime) BY <2>2, <2>5
    <3> QED BY <2>1, <2>3, <2>5, <3>1 DEF Reading
  <2> QED BY <2>4, <2>5
<1>8. cold' > 0 => Reading < chk.last - Hysteresis /\ chk.last > 0 BY <1>2, <1>7, <1>a DEF Near
<1>9. Account(cold, TRUE, Reading, chk)
  <2>1. chk.gone \/ ColdThen = cold BY <1>1 DEF ColdThen
  <2> QED BY <1>1, <2>1 DEF IInv, ColdIsCounted, Account
<1>10. cold' > 0 => Account(cold', FALSE, Reading', chk') /\ cold' <= Max2(GainTime + 2, MaxError + 1)
  BY <1>2, <1>5, <1>6, <1>7, <1>8, <1>9, <1>a, AccountGrows
<1>11. ColdIsCounted'
  <2>1. CASE cold' > 0
    <3>1. Account(cold', FALSE, Reading', chk') BY <1>10, <2>1
    <3>2. checked' = FALSE BY <1>1
    <3> QED BY <3>1, <3>2, Zenon DEF ColdIsCounted, ColdThen, Account
  <2>2. CASE ~(cold' > 0) BY <2>2 DEF ColdIsCounted
  <2> QED BY <2>1, <2>2
<1>12. FaultIsFound'
  <2>1. CASE cold' > 0 BY <1>10, <2>1 DEF FaultIsFound, Max2
  <2>2. CASE ~(cold' > 0) BY <1>2, <1>6, <2>2 DEF FaultIsFound, Max2
  <2> QED BY <2>1, <2>2
<1>13. down' \in BOOLEAN BY <1>1, Zenon
<1>14. TypeOK' BY <1>1, <1>3, <1>4, <1>5, <1>13 DEF IInv, TypeOK
<1>15. tune' \in TunesAre BY <1>1 DEF IInv
<1> QED BY <1>4, <1>5, <1>6, <1>11, <1>12, <1>14, <1>15 DEF IInv

LEMMA HeaterKeepsIInv ==
  ASSUME HeatersAssumption, IInv, [Next]_vars
  PROVE  IInv'
<1>1. CASE \E t \in 0..Hot, b \in BOOLEAN : temperature_callback(t, b) BY <1>1, temperature_callbackKeeps
<1>2. CASE Tick BY <1>2, TickKeeps
<1>3. CASE WaitEnds BY <1>3, WaitEndsKeeps
<1>4. CASE abort_waits
  <2>1. aborted' = TRUE
        /\ UNCHANGED <<kind, withBed, silent, bed, n, temp, heard, target, pwm, age, tune, start, heating, cut, chk, cmd,
                       reported, checked, down, cold>>
    BY <1>4 DEF abort_waits, env, sensor, control, turn
  <2>2. TypeOK' BY <2>1 DEF IInv, TypeOK
  <2>3. tune' \in TunesAre BY <2>1 DEF IInv
  <2> QED BY <2>1, <2>2, <2>3, QuietKeeps
<1>5. CASE Around BY <1>5, AroundKeeps
<1>6. CASE handle_shutdown BY <1>6, handle_shutdownKeeps
<1>7. CASE \E b \in BOOLEAN : check_event(b) BY <1>7, check_eventKeeps
<1>8. CASE \E b \in BOOLEAN : \E t \in Targets : PID_CALIBRATE(t) \/ set_temperature(t, b)
  BY <1>8, CommandsKeep
<1>9. CASE UNCHANGED vars
  <2>1. UNCHANGED <<kind, withBed, silent, bed, n, temp, heard, target, pwm, age, tune, start, heating, cut, chk, cmd,
                    aborted, reported, checked, down, cold>>
    BY <1>9 DEF vars, env, sensor, control, wait, turn
  <2>2. TypeOK' BY <2>1 DEF IInv, TypeOK
  <2>3. tune' \in TunesAre BY <2>1 DEF IInv
  <2> QED BY <2>1, <2>2, <2>3, QuietKeeps
<1> QED BY <1>1, <1>2, <1>3, <1>4, <1>5, <1>6, <1>7, <1>8, <1>9 DEF Next, Around

LEMMA HeaterIsSafe ==
  ASSUME HeatersAssumption, IInv
  PROVE  TypeOK /\ RefreshedInTime /\ FaultIsFound
<1>1. Limit \in Nat /\ Max2(1, Limit) <= MaxHeat BY LimitIsInTime
<1>2. pwm > 0 /\ heard <= 1 => age <= Max2(1, Limit) BY DEF IInv, AgeIsBounded
<1>3. age \in Nat /\ MaxHeat \in Nat BY HeaterStates, HeatersConstants
<1>4. Max2(1, Limit) \in Nat BY <1>1 DEF Max2
<1> QED BY <1>1, <1>2, <1>3, <1>4 DEF IInv, RefreshedInTime

-----------------------------------------------------------------------------
(* The idle timeout.                                                       *)

IT == INSTANCE IdleTimeout WITH
  Timeouts <- IdleTimeouts, Moving <- FALSE, MaxTime <- IdleTime, MaxMoves <- IdleMoves, state <- s1, timer <- s2, timeout <- s3,
  holder <- s4, pt <- s5, queued <- s6, delayed <- s7, now <- s8, moves <- s9

LEMMA IdleStarts ==
  ASSUME IT!IdleTimeoutAssumption, IT!Init
  PROVE  IT!IInv
<1>1. IT!TypeOK BY DEF IT!IdleTimeoutAssumption, IT!Init, IT!TypeOK, IT!Delays, IT!Never
<1> QED BY <1>1 DEF IT!Init, IT!IInv, IT!IdleStands, IT!NotForgotten, IT!MovingIsPrinting, IT!DelayedIsArmed, IT!Never

\* The tool head has run dry: the event, and the print time that follows.
LEMMA SyncKeeps ==
  ASSUME IT!IdleTimeoutAssumption, IT!IInv, IT!_process_moves
  PROVE  IT!IInv'
<1> USE DEF IT!Never
<1>1. s8 \in Nat /\ s5 \in Nat /\ s6 \in Nat /\ s2 \in Int BY DEF IT!IInv, IT!TypeOK
<1>2. UNCHANGED <<s3, s4, s7, s8, s9>> /\ s6' = 0 /\ s5' = IT!Most(s5, s8) + s6 /\ s6 > 0 BY DEF IT!_process_moves
<1>3. s5' \in Nat BY <1>1, <1>2 DEF IT!Most
<1>4. \/ UNCHANGED <<s1, s2>> /\ (s5 <= s8 => s1 = "Printing")
      \/ s1' = "Printing" /\ s2' = s8 + 1 + s8 - s8 /\ s5 <= s8
  BY DEF IT!_process_moves, IT!handle_sync_print_time
<1>5. s1' \in {"Idle", "Ready", "Printing"} /\ s2' \in Int BY <1>1, <1>4 DEF IT!IInv, IT!TypeOK
<1>6. IT!TypeOK' BY <1>2, <1>3, <1>5 DEF IT!IInv, IT!TypeOK
<1>7. s4 # "idle" BY <1>1, <1>2 DEF IT!IInv, IT!IdleStands
<1>8. IT!NotForgotten'
  <2>1. s8 + 1 + s8 - s8 # -1 BY <1>1
  <2> QED BY <1>2, <1>4, <1>7, <2>1 DEF IT!IInv, IT!NotForgotten
<1>9. IT!MovingIsPrinting'
  <2>1. s5 > s8 => s1 = "Printing" BY DEF IT!IInv, IT!MovingIsPrinting
  <2> QED BY <1>1, <1>4, <2>1 DEF IT!MovingIsPrinting
<1>10. IT!IdleStands' /\ IT!DelayedIsArmed' BY <1>2, <1>7 DEF IT!IInv, IT!IdleStands, IT!DelayedIsArmed
<1> QED BY <1>6, <1>8, <1>9, <1>10 DEF IT!IInv

LEMMA TimeoutKeeps ==
  ASSUME IT!IdleTimeoutAssumption, IT!IInv, IT!timeout_handler
  PROVE  IT!IInv'
<1> USE DEF IT!Never
<1>1. /\ s8 \in Nat /\ s5 \in Nat /\ s6 \in Nat /\ s2 \in Int /\ s3 \in Nat
      /\ s1 \in {"Idle", "Ready", "Printing"} /\ s4 \in {"none", "client", "sd", "delayed", "idle"}
  BY DEF IT!IInv, IT!TypeOK, IT!IdleTimeoutAssumption
<1>2. UNCHANGED <<s3, s5, s6, s7, s8, s9>> BY DEF IT!timeout_handler
<1>3. IT!check_idle_timeout \in Nat BY <1>1 DEF IT!check_idle_timeout
<1>4. IT!LooksAgain \in Nat
  <2>1. IT!BufferTime \in Int BY <1>1 DEF IT!BufferTime
  <2> QED BY <1>1, <2>1 DEF IT!LooksAgain, IT!Most
<1>5. \/ s1' = s1 /\ s4' = s4 /\ s2' \in Nat
      \/ /\ s1' = "Printing" /\ s2' = -1 /\ s4' = "idle" /\ IT!IsIdle
      \/ /\ s1' = "Ready" /\ s2' \in Nat /\ s4' = s4 /\ IT!IsReady
  BY <1>1, <1>3, <1>4 DEF IT!timeout_handler, IT!TakeMutex
<1>6. IT!IsIdle => s6 = 0 /\ s5 <= s8 BY <1>1 DEF IT!IsIdle
<1>7. IT!IsReady => s5 <= s8 BY <1>1 DEF IT!IsReady, IT!BufferTime
<1>8. IT!TypeOK'
  <2>1. s2' \in Int /\ s1' \in {"Idle", "Ready", "Printing"} /\ s4' \in {"none", "client", "sd", "delayed", "idle"}
    BY <1>1, <1>5
  <2> QED BY <1>2, <2>1 DEF IT!IInv, IT!TypeOK
<1>9. IT!NotForgotten' BY <1>5 DEF IT!NotForgotten
<1>10. IT!MovingIsPrinting' BY <1>2, <1>5, <1>6, <1>7, <1>1 DEF IT!IInv, IT!MovingIsPrinting
<1>11. IT!IdleStands' BY <1>2, <1>5, <1>6 DEF IT!IInv, IT!IdleStands
<1>12. IT!DelayedIsArmed' BY <1>2 DEF IT!IInv, IT!DelayedIsArmed
<1> QED BY <1>8, <1>9, <1>10, <1>11, <1>12 DEF IT!IInv

\* The script leaves the head where it was, so that nothing moves when the state is Idle.
LEMMA IdleScriptKeeps ==
  ASSUME IT!IdleTimeoutAssumption, IT!IInv, IT!transition_idle_state
  PROVE  IT!IInv'
<1> USE DEF IT!Never
<1>1. s8 \in Nat /\ s5 \in Nat /\ s6 \in Nat BY DEF IT!IInv, IT!TypeOK
<1>2. s6 = 0 /\ s5 <= s8 BY DEF IT!IInv, IT!IdleStands, IT!transition_idle_state
<1>3. UNCHANGED <<s3, s7, s8, s9>> /\ s4' = "none" BY DEF IT!transition_idle_state
<1>4. \/ s1' = "Idle" /\ s2' = -1 /\ s6' = 0 /\ s5' = IT!Most(s5, s8) + s6
      \/ s1' = "Ready" /\ s2' = s8 + 2 /\ s6' = s6 /\ s5' = s5
  BY DEF IT!transition_idle_state
<1>5. s5' \in Nat /\ s6' \in Nat /\ s5' <= s8 /\ s2' \in Int /\ s1' \in {"Idle", "Ready"} BY <1>1, <1>2, <1>4 DEF IT!Most
<1>6. IT!TypeOK' BY <1>3, <1>5 DEF IT!IInv, IT!TypeOK
<1>7. IT!NotForgotten'
  <2>1. s8 + 2 # -1 BY <1>1
  <2> QED BY <1>4, <2>1 DEF IT!NotForgotten
<1>8. IT!MovingIsPrinting'
  <2>1. ~(s5' > s8) BY <1>1, <1>5
  <2> QED BY <1>3, <2>1 DEF IT!MovingIsPrinting
<1>9. IT!IdleStands' /\ IT!DelayedIsArmed' BY <1>3 DEF IT!IInv, IT!IdleStands, IT!DelayedIsArmed
<1> QED BY <1>6, <1>7, <1>8, <1>9 DEF IT!IInv

\* Each entry of the delayed_gcode's record can be set alone.
LEMMA DelayAt ==
  ASSUME NEW d \in IT!Delays, NEW t \in Int
  PROVE  [d EXCEPT !.at = t] \in IT!Delays /\ [d EXCEPT !.at = t].at = t /\ [d EXCEPT !.at = t].inside = d.inside
BY DEF IT!Delays

LEMMA DelayInside ==
  ASSUME NEW d \in IT!Delays, NEW b \in BOOLEAN
  PROVE  /\ [d EXCEPT !.inside = b] \in IT!Delays /\ [d EXCEPT !.inside = b].at = d.at
         /\ [d EXCEPT !.inside = b].inside = b
BY DEF IT!Delays

LEMMA DelayRepeat ==
  ASSUME NEW d \in IT!Delays, NEW b \in BOOLEAN
  PROVE  /\ [d EXCEPT !.repeat = b] \in IT!Delays /\ [d EXCEPT !.repeat = b].at = d.at
         /\ [d EXCEPT !.repeat = b].inside = d.inside
BY DEF IT!Delays

LEMMA DelayDuration ==
  ASSUME NEW d \in IT!Delays, NEW t \in Nat
  PROVE  /\ [d EXCEPT !.duration = t] \in IT!Delays /\ [d EXCEPT !.duration = t].at = d.at
         /\ [d EXCEPT !.duration = t].inside = d.inside
BY DEF IT!Delays

LEMMA DelaySince ==
  ASSUME NEW d \in IT!Delays, NEW t \in Nat
  PROVE  /\ [d EXCEPT !.since = t] \in IT!Delays /\ [d EXCEPT !.since = t].at = d.at
         /\ [d EXCEPT !.since = t].inside = d.inside
BY DEF IT!Delays

\* The delayed_gcode, whose timer is armed by an update or by its own callback.
LEMMA DelayedKeeps ==
  ASSUME IT!IdleTimeoutAssumption, IT!IInv,
         IT!_gcode_timer_event \/ IT!DelayedRuns \/ IT!DelayedEnds \/ IT!Update
  PROVE  IT!IInv'
<1> USE DEF IT!Never
<1>1. s8 \in Nat /\ s7 \in IT!Delays
  BY DEF IT!IInv, IT!TypeOK
<1>2. UNCHANGED <<s1, s2, s3, s5, s6, s8, s9>>
  BY DEF IT!_gcode_timer_event, IT!DelayedRuns, IT!DelayedEnds, IT!Update
<1>3. s4' \in {"none", "client", "sd", "delayed", "idle"} /\ (s4' = "idle" => s4 = "idle") /\ (s4 = "idle" => s4' = "idle")
  BY DEF IT!_gcode_timer_event, IT!DelayedRuns, IT!DelayedEnds, IT!Update, IT!TakeMutex, IT!Free, IT!IInv, IT!TypeOK
<1>4. /\ s7' \in IT!Delays
      /\ s7'.inside => s7'.at = -1
  <2>1. s7.inside => s7.at = -1 BY DEF IT!IInv, IT!DelayedIsArmed
  <2>2. CASE IT!_gcode_timer_event
    <3> DEFINE x == [s7 EXCEPT !.at = -1]
               y == [x EXCEPT !.inside = TRUE]
    <3>1. x \in IT!Delays /\ x.at = -1 BY <1>1, DelayAt
    <3>2. y \in IT!Delays /\ y.at = x.at BY <3>1, DelayInside
    <3>3. s7' = [y EXCEPT !.since = s8] BY <2>2 DEF IT!_gcode_timer_event
    <3> HIDE DEF x, y
    <3> QED BY <1>1, <3>1, <3>2, <3>3, DelaySince
  <2>3. CASE IT!DelayedRuns BY <1>1, <2>1, <2>3 DEF IT!DelayedRuns
  <2>4. CASE IT!DelayedEnds
    <3> DEFINE x == [s7 EXCEPT !.inside = FALSE]
               y == [x EXCEPT !.repeat = FALSE]
               z == [y EXCEPT !.since = 0]
               t == IF s7.repeat THEN s7.since + s7.duration ELSE -1
    <3>1. x \in IT!Delays /\ ~x.inside BY <1>1, DelayInside
    <3>2. y \in IT!Delays /\ y.inside = x.inside BY <3>1, DelayRepeat
    <3>3. z \in IT!Delays /\ z.inside = y.inside BY <3>2, DelaySince
    <3>4. s7' = [z EXCEPT !.at = t] BY <2>4 DEF IT!DelayedEnds
    <3>5. t \in Int BY <1>1 DEF IT!Delays
    <3> HIDE DEF x, y, z, t
    <3>6. s7' \in IT!Delays /\ s7'.inside = z.inside BY <3>3, <3>4, <3>5, DelayAt
    <3> QED BY <3>1, <3>2, <3>3, <3>6
  <2>5. CASE IT!Update
    <3>1. PICK t \in {0, 2} : IT!cmd_UPDATE_DELAYED_GCODE(t) BY <2>5 DEF IT!Update
    <3> DEFINE x == [s7 EXCEPT !.duration = t]
               next == IF t = 0 THEN -1 ELSE s8 + t
    <3>2. t \in Nat /\ (t # 0) \in BOOLEAN /\ next \in Int BY <1>1, <3>1
    <3>3. x \in IT!Delays /\ x.at = s7.at /\ x.inside = s7.inside BY <1>1, <3>2, DelayDuration
    <3>4. \/ s7.inside /\ s7' = [x EXCEPT !.repeat = (t # 0)]
          \/ ~s7.inside /\ s7' = [x EXCEPT !.at = next]
      BY <3>1 DEF IT!cmd_UPDATE_DELAYED_GCODE
    <3> HIDE DEF x, next
    <3>5. CASE s7.inside
      <4>1. s7' = [x EXCEPT !.repeat = (t # 0)] BY <3>4, <3>5
      <4>2. s7' \in IT!Delays /\ s7'.at = x.at BY <3>2, <3>3, <4>1, DelayRepeat
      <4> QED BY <2>1, <3>3, <3>5, <4>2
    <3>6. CASE ~s7.inside
      <4>1. s7' = [x EXCEPT !.at = next] BY <3>4, <3>6
      <4>2. s7' \in IT!Delays /\ s7'.inside = x.inside BY <3>2, <3>3, <4>1, DelayAt
      <4> QED BY <3>3, <3>6, <4>2
    <3> QED BY <3>5, <3>6
  <2> QED BY <2>2, <2>3, <2>4, <2>5
<1>5. IT!TypeOK' BY <1>2, <1>3, <1>4 DEF IT!IInv, IT!TypeOK
<1>6. IT!IdleStands' /\ IT!NotForgotten' BY <1>2, <1>3 DEF IT!IInv, IT!IdleStands, IT!NotForgotten
<1>7. IT!MovingIsPrinting' BY <1>2 DEF IT!IInv, IT!MovingIsPrinting
<1>8. IT!DelayedIsArmed' BY <1>4 DEF IT!DelayedIsArmed
<1> QED BY <1>5, <1>6, <1>7, <1>8 DEF IT!IInv

\* Commands of whoever holds the mutex, and time.
LEMMA HoldersKeep ==
  ASSUME IT!IdleTimeoutAssumption, IT!IInv,
         IT!ClientStarts \/ IT!HolderMoves \/ IT!HolderEnds \/ IT!cmd_SET_IDLE_TIMEOUT \/ IT!Tick
  PROVE  IT!IInv'
<1> USE DEF IT!Never
<1>1. s8 \in Nat /\ s5 \in Nat /\ s6 \in Nat /\ s9 \in Nat /\ s3 \in IdleTimeouts /\ s2 \in Int
  BY DEF IT!IInv, IT!TypeOK
<1>2. UNCHANGED <<s1, s5, s7>>
  BY DEF IT!ClientStarts, IT!HolderMoves, IT!HolderEnds, IT!cmd_SET_IDLE_TIMEOUT, IT!Tick
<1>3. /\ s4' \in {"none", "client", "sd", "delayed", "idle"}
      /\ (s4' = "idle" <=> s4 = "idle")
  BY DEF IT!ClientStarts, IT!HolderMoves, IT!HolderEnds, IT!cmd_SET_IDLE_TIMEOUT, IT!Tick, IT!TakeMutex, IT!Free, IT!IInv, IT!TypeOK
<1>4. s8' \in Nat /\ s8 <= s8' /\ s9' \in Nat /\ s6' \in Nat /\ (s4 = "idle" => s6' = s6)
  BY <1>1 DEF IT!ClientStarts, IT!HolderMoves, IT!HolderEnds, IT!cmd_SET_IDLE_TIMEOUT, IT!Tick
<1>5. s3' \in IdleTimeouts /\ s2' \in Int /\ (s2' = s2 \/ s2' # -1)
  <2>1. CASE IT!cmd_SET_IDLE_TIMEOUT
    <3>1. PICK x \in IdleTimeouts : s3' = x /\ s2' = IF s1 = "Ready" THEN s8 + x ELSE s2
      BY <2>1 DEF IT!cmd_SET_IDLE_TIMEOUT
    <3>2. x \in Nat BY DEF IT!IdleTimeoutAssumption
    <3> QED BY <1>1, <3>1, <3>2
  <2>2. CASE ~IT!cmd_SET_IDLE_TIMEOUT BY <1>1, <2>2 DEF IT!ClientStarts, IT!HolderMoves, IT!HolderEnds, IT!Tick
  <2> QED BY <2>1, <2>2
<1>6. IT!TypeOK' BY <1>1, <1>2, <1>3, <1>4, <1>5 DEF IT!IInv, IT!TypeOK
<1>7. IT!NotForgotten' BY <1>2, <1>3, <1>5 DEF IT!IInv, IT!NotForgotten
<1>8. IT!IdleStands'
  <2>1. s4 = "idle" => s6 = 0 /\ s5 <= s8 BY DEF IT!IInv, IT!IdleStands
  <2>2. s5' \in Nat BY <1>1, <1>2
  <2>3. s4' = "idle" => s6' = 0 /\ s5' <= s8' BY <1>1, <1>2, <1>3, <1>4, <2>1, <2>2
  <2> QED BY <2>3 DEF IT!IdleStands
<1>9. IT!MovingIsPrinting'
  <2>1. s5 > s8 => s1 = "Printing" BY DEF IT!IInv, IT!MovingIsPrinting
  <2>2. s5' > s8' => s5 > s8 BY <1>1, <1>2, <1>4
  <2> QED BY <1>2, <2>1, <2>2 DEF IT!MovingIsPrinting
<1>10. IT!DelayedIsArmed' BY <1>2 DEF IT!IInv, IT!DelayedIsArmed
<1> QED BY <1>6, <1>7, <1>8, <1>9, <1>10 DEF IT!IInv

LEMMA IdleKeepsIInv ==
  ASSUME IT!IdleTimeoutAssumption, IT!IInv, [IT!Next]_(IT!vars)
  PROVE  IT!IInv'
<1>1. CASE UNCHANGED IT!vars
  <2>1. UNCHANGED <<s1, s2, s3, s4, s5, s6, s7, s8, s9>> BY <1>1 DEF IT!vars
  <2>2. IT!TypeOK' BY <2>1 DEF IT!IInv, IT!TypeOK
  <2>3. IT!IdleStands' /\ IT!NotForgotten' /\ IT!DelayedIsArmed'
    BY <2>1 DEF IT!IInv, IT!IdleStands, IT!NotForgotten, IT!DelayedIsArmed
  <2>4. IT!MovingIsPrinting' BY <2>1 DEF IT!IInv, IT!MovingIsPrinting
  <2> QED BY <2>2, <2>3, <2>4 DEF IT!IInv
<1> QED BY <1>1, SyncKeeps, TimeoutKeeps, IdleScriptKeeps, DelayedKeeps, HoldersKeep, Zenon DEF IT!Next

-----------------------------------------------------------------------------
(* The API server: what a client knows, and what the last query found.     *)

AS == INSTANCE ApiServer WITH
  Clients <- ApiClients, Values <- Items, None <- NoObjects, Removes <- FALSE, status <- s1, last <- s2, pending <- s3,
  waiting <- s4, timer <- s5, subs <- s6, outs <- s7, rpc <- s8, open <- s9, buffer <- s10, blocked <- s11,
  view <- s12, changes <- s13, requests <- s14

LEMMA DictIs ==
  ASSUME NEW d \in AS!Dicts(Keys)
  PROVE  DOMAIN d \subseteq Keys /\ DOMAIN d # {} /\ d \in [DOMAIN d -> Items]
BY DEF AS!Dicts

LEMMA IsDict ==
  ASSUME NEW S \in SUBSET Keys, S # {}, NEW d \in [S -> Items]
  PROVE  d \in AS!Dicts(Keys)
BY DEF AS!Dicts

LEMMA ViewIs ==
  ASSUME NEW v \in AS!Views
  PROVE  /\ DOMAIN v \subseteq AS!Objects /\ v = [o \in DOMAIN v |-> v[o]]
         /\ \A o \in DOMAIN v : v[o] \in AS!Dicts(Keys)
BY DEF AS!Views

LEMMA IsView ==
  ASSUME NEW S \in SUBSET AS!Objects, NEW v \in [S -> AS!Dicts(Keys)]
  PROVE  v \in AS!Views
BY DEF AS!Views

LEMMA NothingIsView == <<>> \in AS!Views /\ DOMAIN <<>> = {}
<1>1. DOMAIN <<>> = {} OBVIOUS
<1>2. <<>> \in [{} -> AS!Dicts(Keys)] OBVIOUS
<1> QED BY <1>1, <1>2, IsView

\* The difference of two dictionaries, and the later one from it.
LEMMA DiffIs ==
  ASSUME NEW d \in AS!Dicts(Keys), NEW e \in AS!Dicts(Keys)
  PROVE  /\ DOMAIN AS!Diff(d, e) # {} => AS!Diff(d, e) \in AS!Dicts(Keys)
         /\ DOMAIN e \subseteq DOMAIN d => AS!Over(AS!Diff(d, e), e) = d
         /\ DOMAIN e \subseteq DOMAIN d /\ DOMAIN AS!Diff(d, e) = {} => d = e
<1> DEFINE D == {k \in DOMAIN d : k \in DOMAIN e => e[k] # d[k]}
           f == AS!Diff(d, e)
<1>1. f = [k \in D |-> d[k]] BY DEF AS!Diff
<1>2. DOMAIN f = D /\ \A k \in D : f[k] = d[k] BY <1>1
<1>3. DOMAIN d \subseteq Keys /\ d \in [DOMAIN d -> Items] /\ DOMAIN e \subseteq Keys /\ e \in [DOMAIN e -> Items] BY DictIs
<1>4. D \subseteq DOMAIN d /\ \A k \in DOMAIN d \ D : k \in DOMAIN e /\ e[k] = d[k] OBVIOUS
<1> HIDE DEF D, f
<1>5. ASSUME DOMAIN f # {} PROVE f \in AS!Dicts(Keys)
  <2>1. D \in SUBSET Keys /\ D # {} BY <1>2, <1>3, <1>4, <1>5
  <2>2. f \in [D -> Items] BY <1>1, <1>3, <1>4
  <2> QED BY <2>1, <2>2, IsDict
<1>6. ASSUME DOMAIN e \subseteq DOMAIN d PROVE AS!Over(f, e) = d
  <2>1. DOMAIN f \cup DOMAIN e = DOMAIN d BY <1>2, <1>4, <1>6
  <2>2. AS!Over(f, e) = [k \in DOMAIN d |-> IF k \in D THEN d[k] ELSE e[k]] BY <1>2, <2>1 DEF AS!Over
  <2>3. \A k \in DOMAIN d : (IF k \in D THEN d[k] ELSE e[k]) = d[k] BY <1>4
  <2> QED BY <1>3, <2>2, <2>3
<1>7. ASSUME DOMAIN e \subseteq DOMAIN d, DOMAIN f = {} PROVE d = e
  <2>1. DOMAIN d = DOMAIN e /\ \A k \in DOMAIN d : d[k] = e[k] BY <1>2, <1>4, <1>7
  <2> QED BY <1>3, <2>1
<1> QED BY <1>5, <1>6, <1>7 DEF f

LEMMA OverIs ==
  ASSUME NEW d \in AS!Dicts(Keys), NEW e \in AS!Dicts(Keys)
  PROVE  AS!Over(d, e) \in AS!Dicts(Keys)
<1>1. /\ DOMAIN d \subseteq Keys /\ DOMAIN d # {} /\ d \in [DOMAIN d -> Items]
      /\ DOMAIN e \subseteq Keys /\ e \in [DOMAIN e -> Items]
  BY DictIs
<1> DEFINE S == DOMAIN d \cup DOMAIN e
<1>2. AS!Over(d, e) \in [S -> Items] BY <1>1 DEF AS!Over
<1>3. S \in SUBSET Keys /\ S # {} BY <1>1
<1> QED BY <1>2, <1>3, IsDict

\* A client that takes an update knows the same objects as before.
LEMMA AppliedIs ==
  ASSUME NEW v \in AS!Views, NEW u \in AS!Views
  PROVE  /\ AS!Applied(v, u) \in AS!Views /\ DOMAIN AS!Applied(v, u) = DOMAIN v
         /\ \A o \in DOMAIN v :
              AS!Applied(v, u)[o] = IF o \notin DOMAIN u THEN v[o] ELSE IF o \in Deep THEN AS!Over(u[o], v[o]) ELSE u[o]
<1> DEFINE w == AS!Applied(v, u)
           value(o) == IF o \notin DOMAIN u THEN v[o] ELSE IF o \in Deep THEN AS!Over(u[o], v[o]) ELSE u[o]
<1>1. w = [o \in DOMAIN v |-> value(o)] BY DEF AS!Applied
<1>2. DOMAIN v \in SUBSET AS!Objects BY ViewIs
<1>3. ASSUME NEW o \in DOMAIN v PROVE value(o) \in AS!Dicts(Keys)
  <2>1. v[o] \in AS!Dicts(Keys) BY ViewIs
  <2>2. CASE o \notin DOMAIN u BY <2>1, <2>2
  <2>3. CASE o \in DOMAIN u
    <3>1. u[o] \in AS!Dicts(Keys) BY <2>3, ViewIs
    <3> QED BY <2>1, <2>3, <3>1, OverIs
  <2> QED BY <2>2, <2>3
<1> HIDE DEF value
<1>4. w \in [DOMAIN v -> AS!Dicts(Keys)] BY <1>1, <1>3
<1>5. w \in AS!Views BY <1>2, <1>4, IsView
<1> QED BY <1>1, <1>5 DEF value

-----------------------------------------------------------------------------
\* The types, without the sets in which they are stated.
LEMMA ApiStates ==
  ASSUME AS!IInv
  PROVE  /\ s1 \in [AS!Objects -> AS!Dicts(Keys)] /\ s2 \in AS!Views
         /\ s3 \in Seq(AS!Requests) /\ s4 \in Seq([request : AS!Requests, status : AS!Views])
         /\ s5 \in BOOLEAN /\ s6 \in [ApiClients -> (SUBSET AS!Objects) \cup {NoObjects}]
         /\ s7 \subseteq ApiClients /\ s8 \subseteq ApiClients /\ s9 \in [ApiClients -> BOOLEAN]
         /\ s10 \in [ApiClients -> Seq(AS!Views)] /\ s11 \in [ApiClients -> Nat \cup {NoObjects}]
         /\ s12 \in [ApiClients -> AS!Views]
BY DEF AS!IInv, AS!TypeOK, AS!QueuesTypeOK

LEMMA KnownIs ==
  ASSUME AS!IInv, NEW c \in ApiClients
  PROVE  AS!Known(c) \in AS!Views
<1>1. s10[c] \in Seq(AS!Views) /\ s12[c] \in AS!Views BY ApiStates
<1>2. s10[c] # <<>> => AS!Last(s10[c]) \in AS!Views BY <1>1 DEF AS!Last
<1> QED BY <1>1, <1>2 DEF AS!Known

\* What a subscriber is told, applied to the last status, is the present one.
LEMMA NewsIs ==
  ASSUME AS!IInv, NEW O \in SUBSET AS!Objects
  PROVE  /\ AS!News(O) \in AS!Views /\ DOMAIN AS!News(O) \subseteq O
         /\ \A o \in O \cap DOMAIN s2 :
              (IF o \notin DOMAIN AS!News(O) THEN s2[o]
               ELSE IF o \in Deep THEN AS!Over(AS!News(O)[o], s2[o]) ELSE AS!News(O)[o]) = s1[o]
<1> DEFINE changes(o) == o \in DOMAIN s2 => IF o \in Deep THEN DOMAIN AS!Diff(s1[o], s2[o]) # {} ELSE s2[o] # s1[o]
           changed == {o \in O : changes(o)}
           value(o) == IF o \in Deep /\ o \in DOMAIN s2 THEN AS!Diff(s1[o], s2[o]) ELSE s1[o]
           N == AS!News(O)
<1>1. N = [o \in changed |-> value(o)] BY DEF AS!News
<1>2. \A o \in AS!Objects : s1[o] \in AS!Dicts(Keys) BY ApiStates
<1>3. \A o \in DOMAIN s2 : o \in AS!Objects /\ s2[o] \in AS!Dicts(Keys) BY ApiStates, ViewIs
<1>4. \A o \in Deep \cap DOMAIN s2 : DOMAIN s2[o] \subseteq DOMAIN s1[o] BY DEF AS!IInv, AS!LastIsPart
<1>5. ASSUME NEW o \in changed PROVE value(o) \in AS!Dicts(Keys)
  <2>1. CASE o \in Deep /\ o \in DOMAIN s2
    <3>1. DOMAIN AS!Diff(s1[o], s2[o]) # {} BY <2>1
    <3> QED BY <1>2, <1>3, <2>1, <3>1, DiffIs
  <2>2. CASE ~(o \in Deep /\ o \in DOMAIN s2) BY <1>2, <2>2
  <2> QED BY <2>1, <2>2
<1>6. ASSUME NEW o \in O \cap DOMAIN s2
      PROVE  /\ o \notin changed => s2[o] = s1[o]
             /\ o \in changed => (IF o \in Deep THEN AS!Over(value(o), s2[o]) ELSE value(o)) = s1[o]
  <2>1. CASE o \in Deep
    <3>1. /\ AS!Over(AS!Diff(s1[o], s2[o]), s2[o]) = s1[o]
          /\ DOMAIN AS!Diff(s1[o], s2[o]) = {} => s1[o] = s2[o]
      BY <1>2, <1>3, <1>4, <2>1, DiffIs
    <3> QED BY <2>1, <3>1
  <2>2. CASE o \notin Deep BY <2>2
  <2> QED BY <2>1, <2>2
<1> HIDE DEF changes, value
<1>7. N \in [changed -> AS!Dicts(Keys)] BY <1>1, <1>5
<1>8. changed \in SUBSET AS!Objects /\ DOMAIN N = changed /\ changed \subseteq O BY <1>1
<1>9. N \in AS!Views BY <1>7, <1>8, IsView
<1>10. \A o \in changed : N[o] = value(o) BY <1>1
<1> HIDE DEF changed, N
<1> QED BY <1>6, <1>8, <1>9, <1>10 DEF N

-----------------------------------------------------------------------------
(* The API server, action by action.                                       *)

LEMMA ApiConstants ==
  ASSUME AS!ApiServerAssumption
  PROVE  /\ MaxBlocked \in Nat /\ Keys # {} /\ Items # {} /\ NoObjects \notin Nat /\ NoObjects \notin SUBSET AS!Objects
BY DEF AS!ApiServerAssumption

LEMMA ApiStarts ==
  ASSUME AS!ApiServerAssumption, AS!Init
  PROVE  AS!IInv
<1> DEFINE k == CHOOSE x \in Keys : TRUE
           v == CHOOSE x \in Items : TRUE
<1>1. k \in Keys /\ v \in Items BY ApiConstants
<1>2. <<>> \in AS!Views /\ DOMAIN <<>> = {} BY NothingIsView
<1>3. s1 = [o \in AS!Objects |-> [x \in {k} |-> v]] BY DEF AS!Init
<1>4. [x \in {k} |-> v] \in AS!Dicts(Keys)
  <2>1. [x \in {k} |-> v] \in [{k} -> Items] /\ {k} \in SUBSET Keys /\ {k} # {} BY <1>1
  <2> QED BY <2>1, IsDict
<1> HIDE DEF k, v
<1>5. s1 \in [AS!Objects -> AS!Dicts(Keys)] BY <1>3, <1>4
<1>6. /\ s2 = <<>> /\ s3 = <<>> /\ s4 = <<>> /\ s5 = FALSE /\ s6 = [c \in ApiClients |-> NoObjects] /\ s7 = {} /\ s8 = {}
      /\ s9 = [c \in ApiClients |-> TRUE] /\ s10 = [c \in ApiClients |-> <<>>] /\ s11 = [c \in ApiClients |-> NoObjects]
      /\ s12 = [c \in ApiClients |-> <<>>]
  BY DEF AS!Init
<1>7. AS!TypeOK BY <1>2, <1>5, <1>6 DEF AS!TypeOK
<1>8. AS!QueuesTypeOK BY <1>2, <1>6 DEF AS!QueuesTypeOK
<1>9. AS!AnswersAreOfLast /\ AS!LastIsPart BY <1>2, <1>6 DEF AS!AnswersAreOfLast, AS!LastIsPart
<1>10. AS!ViewIsCurrent /\ AS!SubscribersAreServed
  BY <1>6 DEF AS!ViewIsCurrent, AS!SubscribersAreServed, AS!Subscribers
<1> QED BY <1>7, <1>8, <1>9, <1>10 DEF AS!IInv

LEMMA LastIs ==
  ASSUME NEW s \in Seq(AS!Views), s # <<>>
  PROVE  AS!Last(s) = s[Len(s)] /\ Len(s) \in 1..Len(s) /\ Len(s) >= 1
<1>1. Len(s) \in Nat /\ Len(s) # 0 BY EmptySeq
<1> QED BY <1>1 DEF AS!Last

\* What is appended to the buffer is what the client will know.
LEMMA AppendedIsKnown ==
  ASSUME AS!IInv, NEW c \in ApiClients, NEW v \in AS!Views, s10'[c] = Append(s10[c], v)
  PROVE  AS!Known(c)' = v /\ s10'[c] \in Seq(AS!Views) /\ s10'[c] # <<>>
<1>1. s10[c] \in Seq(AS!Views) BY ApiStates
<1> DEFINE b == Append(s10[c], v)
<1>2. b \in Seq(AS!Views) /\ b # <<>> /\ Len(b) = Len(s10[c]) + 1 /\ b[Len(s10[c]) + 1] = v
  BY <1>1, AppendProperties
<1>3. s10'[c] = b OBVIOUS
<1> HIDE DEF b
<1>4. AS!Last(b) = v BY <1>2, LastIs
<1> QED BY <1>2, <1>3, <1>4 DEF AS!Known

\* Subscriptions that go on, of clients that do not forget.
LEMMA ViewsStay ==
  ASSUME AS!IInv, s2' = s2, s5 => s5', AS!Subscribers' \subseteq AS!Subscribers,
         \A c \in AS!Subscribers' :
           /\ s6'[c] = s6[c]
           /\ \A o \in DOMAIN AS!Known(c) : o \in DOMAIN AS!Known(c)' /\ AS!Known(c)'[o] = AS!Known(c)[o]
  PROVE  AS!ViewIsCurrent' /\ AS!SubscribersAreServed'
<1>1. AS!ViewIsCurrent'
  <2> SUFFICES ASSUME NEW c \in AS!Subscribers', NEW o \in s6'[c]
               PROVE  o \in DOMAIN AS!Known(c)' /\ o \in DOMAIN s2' /\ AS!Known(c)'[o] = s2'[o]
    BY DEF AS!ViewIsCurrent
  <2>1. c \in AS!Subscribers /\ o \in s6[c] OBVIOUS
  <2>2. o \in DOMAIN AS!Known(c) /\ o \in DOMAIN s2 /\ AS!Known(c)[o] = s2[o] BY <2>1 DEF AS!IInv, AS!ViewIsCurrent
  <2> QED BY <2>2
<1>2. AS!SubscribersAreServed' BY DEF AS!IInv, AS!SubscribersAreServed
<1> QED BY <1>1, <1>2

LEMMA AnswersStay ==
  ASSUME AS!IInv, UNCHANGED <<s2, s4>>, s5 => s5'
  PROVE  AS!AnswersAreOfLast'
BY DEF AS!IInv, AS!AnswersAreOfLast

LEMMA LastStays ==
  ASSUME AS!IInv, UNCHANGED <<s1, s2>>
  PROVE  AS!LastIsPart'
BY DEF AS!IInv, AS!LastIsPart

\* What the client reads stays known.
LEMMA _do_sendKeeps ==
  ASSUME AS!IInv, AS!ApiServerAssumption, NEW c \in ApiClients, AS!_do_send(c)
  PROVE  AS!IInv'
<1>1. UNCHANGED <<s1, s2, s3, s4, s5, s6, s7, s8, s9, s13, s14>> /\ s9[c] /\ s10[c] # <<>>
  BY DEF AS!_do_send, AS!server
<1>2. PICK k \in 0..Len(s10[c]) : AS!Sent(c, k) BY DEF AS!_do_send
<1>3. /\ s10 \in [ApiClients -> Seq(AS!Views)] /\ s11 \in [ApiClients -> Nat \cup {NoObjects}]
      /\ s12 \in [ApiClients -> AS!Views] /\ s10[c] \in Seq(AS!Views)
  BY ApiStates
<1> DEFINE b == s10[c]
           n1 == Len(b)
           rest == SubSeq(b, k + 1, n1)
<1>4. n1 \in Nat /\ n1 >= 1 /\ AS!Last(b) = b[n1] /\ k \in 0..n1 /\ b \in Seq(AS!Views)
  BY <1>1, <1>3, LastIs, LenProperties
<1>5. \A i \in 1..n1 : b[i] \in AS!Views BY <1>4, ElementOfSeq
<1>6. /\ s10' = [s10 EXCEPT ![c] = rest]
      /\ s12' = IF k = 0 THEN s12 ELSE [s12 EXCEPT ![c] = b[k]]
      /\ s11' = [s11 EXCEPT ![c] = IF k = n1 THEN NoObjects ELSE IF @ = NoObjects THEN MaxBlocked ELSE @]
  BY <1>2 DEF AS!Sent
<1> HIDE DEF b
<1>7. /\ rest \in Seq(AS!Views) /\ Len(rest) = n1 - k /\ (k = n1 => rest = <<>>)
      /\ \A i \in 1..(n1 - k) : rest[i] = b[k + i]
  <2> HIDE DEF n1
  <2>1. k + 1 \in Int /\ n1 \in Int /\ \A i \in (k + 1)..n1 : b[i] \in AS!Views BY <1>4, <1>5
  <2>2. /\ rest \in Seq(AS!Views) /\ Len(rest) = IF k + 1 <= n1 THEN n1 - (k + 1) + 1 ELSE 0
        /\ \A i \in 1..(n1 - (k + 1) + 1) : rest[i] = b[k + 1 + i - 1]
    BY <2>1, SubSeqProperties
  <2>3. k = n1 => rest = <<>> BY <1>4, <2>1, SubSeqEmpty
  <2> QED BY <1>4, <2>2, <2>3
<1> HIDE DEF rest, n1
<1>8. s10' \in [ApiClients -> Seq(AS!Views)] BY <1>3, <1>6, <1>7
<1>9. s12' \in [ApiClients -> AS!Views]
  <2>1. k # 0 => b[k] \in AS!Views BY <1>4, <1>5
  <2> QED BY <1>3, <1>6, <2>1
<1>10. s11' \in [ApiClients -> Nat \cup {NoObjects}] BY <1>3, <1>6, ApiConstants
<1>11. ASSUME NEW d \in ApiClients PROVE AS!Known(d)' = AS!Known(d)
  <2>1. CASE d # c
    <3>1. s10'[d] = s10[d] /\ s12'[d] = s12[d] BY <1>3, <1>6, <2>1
    <3> QED BY <3>1 DEF AS!Known
  <2>2. CASE d = c
    <3>1. AS!Known(c) = b[n1] BY <1>1, <1>4 DEF AS!Known, b
    <3>2. s10'[c] = rest BY <1>3, <1>6
    <3>3. CASE k = n1
      <4>1. rest = <<>> /\ s12'[c] = b[n1] BY <1>3, <1>4, <1>6, <1>7, <3>3
      <4> QED BY <2>2, <3>1, <3>2, <4>1 DEF AS!Known
    <3>4. CASE k # n1
      <4>1. Len(rest) = n1 - k /\ n1 - k >= 1 /\ n1 - k \in 1..(n1 - k) /\ k + (n1 - k) = n1 BY <1>4, <1>7, <3>4
      <4>2. rest # <<>> /\ rest[Len(rest)] = b[n1] BY <1>7, <4>1
      <4>3. AS!Last(rest) = b[n1] BY <1>7, <4>2, LastIs
      <4> QED BY <2>2, <3>1, <3>2, <4>2, <4>3 DEF AS!Known
    <3> QED BY <3>3, <3>4
  <2> QED BY <2>1, <2>2
<1>12. AS!Subscribers' = AS!Subscribers /\ AS!Subscribers \subseteq ApiClients BY <1>1 DEF AS!Subscribers
<1>13. AS!ViewIsCurrent' /\ AS!SubscribersAreServed' BY <1>1, <1>11, <1>12, ViewsStay
<1>14. AS!TypeOK'
  <2>1. \A d \in ApiClients : ~s9[d] => d # c /\ s10'[d] = s10[d] /\ s11'[d] = s11[d] BY <1>1, <1>3, <1>6
  <2> QED BY <1>1, <2>1 DEF AS!IInv, AS!TypeOK
<1>15. AS!QueuesTypeOK' BY <1>1, <1>8, <1>9, <1>10 DEF AS!IInv, AS!QueuesTypeOK
<1>16. AS!AnswersAreOfLast' /\ AS!LastIsPart' BY <1>1, AnswersStay, LastStays
<1> QED BY <1>13, <1>14, <1>15, <1>16 DEF AS!IInv

LEMMA ClosedKeeps ==
  ASSUME AS!IInv, NEW c \in ApiClients, AS!Closed(c)
  PROVE  AS!IInv'
<1>1. /\ UNCHANGED <<s1, s2, s3, s4, s5, s6, s7, s8>>
      /\ s9' = [s9 EXCEPT ![c] = FALSE] /\ s10' = [s10 EXCEPT ![c] = <<>>]
      /\ s11' = [s11 EXCEPT ![c] = NoObjects] /\ s12' = [s12 EXCEPT ![c] = <<>>]
  BY DEF AS!Closed, AS!server
<1>2. /\ s9 \in [ApiClients -> BOOLEAN] /\ s10 \in [ApiClients -> Seq(AS!Views)]
      /\ s11 \in [ApiClients -> Nat \cup {NoObjects}] /\ s12 \in [ApiClients -> AS!Views]
  BY ApiStates
<1>3. \A d \in ApiClients \ {c} : s9'[d] = s9[d] /\ s10'[d] = s10[d] /\ s11'[d] = s11[d] /\ s12'[d] = s12[d]
  BY <1>1, <1>2
<1>4. ~s9'[c] /\ s10'[c] = <<>> /\ s11'[c] = NoObjects BY <1>1, <1>2
<1>5. AS!Subscribers' \subseteq AS!Subscribers \ {c} /\ AS!Subscribers \subseteq ApiClients
  BY <1>1, <1>3, <1>4 DEF AS!Subscribers
<1>6. \A d \in ApiClients \ {c} : AS!Known(d)' = AS!Known(d) BY <1>3 DEF AS!Known
<1>7. AS!ViewIsCurrent' /\ AS!SubscribersAreServed' BY <1>1, <1>5, <1>6, ViewsStay
<1>8. s9' \in [ApiClients -> BOOLEAN] BY <1>1, <1>2
<1>9. AS!TypeOK' BY <1>1, <1>3, <1>4, <1>8 DEF AS!IInv, AS!TypeOK
<1>10. s10' \in [ApiClients -> Seq(AS!Views)] BY <1>1, <1>2
<1>11. s11' \in [ApiClients -> Nat \cup {NoObjects}] BY <1>1, <1>2
<1>12. s12' \in [ApiClients -> AS!Views] BY <1>1, <1>2, NothingIsView
<1>13. AS!QueuesTypeOK' BY <1>1, <1>10, <1>11, <1>12 DEF AS!IInv, AS!QueuesTypeOK
<1>14. AS!AnswersAreOfLast' /\ AS!LastIsPart' BY <1>1, AnswersStay, LastStays
<1> QED BY <1>7, <1>9, <1>13, <1>14 DEF AS!IInv

LEMMA statsKeeps ==
  ASSUME AS!IInv, NEW c \in ApiClients, AS!stats(c)
  PROVE  AS!IInv'
<1>1. CASE s11[c] = 0
  <2>1. AS!Closed(c) BY <1>1 DEF AS!stats
  <2> QED BY <2>1, ClosedKeeps
<1>2. CASE s11[c] # 0
  <2>1. /\ UNCHANGED <<s1, s2, s3, s4, s5, s6, s7, s8, s9, s10, s12>> /\ s9[c] /\ s11[c] # NoObjects
        /\ s11' = [s11 EXCEPT ![c] = @ - 1]
    BY <1>2 DEF AS!stats, AS!server
  <2>2. s11 \in [ApiClients -> Nat \cup {NoObjects}] BY ApiStates
  <2>3. s11[c] \in Nat /\ s11[c] - 1 \in Nat BY <1>2, <2>1, <2>2
  <2>4. s11' \in [ApiClients -> Nat \cup {NoObjects}] BY <2>1, <2>2, <2>3
  <2>5. \A d \in ApiClients : ~s9[d] => s11'[d] = s11[d] BY <2>1, <2>2
  <2>6. AS!Subscribers' = AS!Subscribers BY <2>1 DEF AS!Subscribers
  <2>7. \A d : AS!Known(d)' = AS!Known(d) BY <2>1 DEF AS!Known
  <2>8. AS!ViewIsCurrent' /\ AS!SubscribersAreServed' BY <2>1, <2>6, <2>7, ViewsStay
  <2>9. AS!TypeOK' BY <2>1, <2>5 DEF AS!IInv, AS!TypeOK
  <2>10. AS!QueuesTypeOK' BY <2>1, <2>4 DEF AS!IInv, AS!QueuesTypeOK
  <2>11. AS!AnswersAreOfLast' /\ AS!LastIsPart' BY <2>1, AnswersStay, LastStays
  <2> QED BY <2>8, <2>9, <2>10, <2>11 DEF AS!IInv
<1> QED BY <1>1, <1>2

LEMMA _handle_queryKeeps ==
  ASSUME AS!IInv, NEW c \in ApiClients, NEW O \in SUBSET AS!Objects, NEW b \in BOOLEAN, AS!_handle_query(c, O, b)
  PROVE  AS!IInv'
<1> DEFINE r == [client |-> c, objects |-> O, subscribe |-> b]
<1>1. /\ UNCHANGED <<s1, s2, s4, s7, s8, s9, s10, s11, s12>> /\ s5' = TRUE /\ s3' = Append(s3, r)
      /\ s6' = IF b THEN [s6 EXCEPT ![c] = NoObjects] ELSE s6
  BY DEF AS!_handle_query, AS!conn
<1>2. s3 \in Seq(AS!Requests) /\ s6 \in [ApiClients -> (SUBSET AS!Objects) \cup {NoObjects}] BY ApiStates
<1>3. r \in AS!Requests BY DEF AS!Requests
<1> HIDE DEF r
<1>4. s3' \in Seq(AS!Requests) BY <1>1, <1>2, <1>3, AppendProperties
<1>5. /\ s6' \in [ApiClients -> (SUBSET AS!Objects) \cup {NoObjects}]
      /\ \A d \in ApiClients : s6'[d] = s6[d] \/ s6'[d] = NoObjects
  BY <1>1, <1>2
<1>6. AS!Subscribers' \subseteq AS!Subscribers /\ \A d \in AS!Subscribers' : s6'[d] = s6[d]
  BY <1>1, <1>5 DEF AS!Subscribers
<1>7. \A d : AS!Known(d)' = AS!Known(d) BY <1>1 DEF AS!Known
<1>8. AS!ViewIsCurrent' /\ AS!SubscribersAreServed' BY <1>1, <1>6, <1>7, ViewsStay
<1>9. AS!TypeOK' BY <1>1, <1>5 DEF AS!IInv, AS!TypeOK
<1>10. AS!QueuesTypeOK' BY <1>1, <1>4 DEF AS!IInv, AS!QueuesTypeOK
<1>11. AS!AnswersAreOfLast' /\ AS!LastIsPart' BY <1>1, AnswersStay, LastStays
<1> QED BY <1>8, <1>9, <1>10, <1>11 DEF AS!IInv

\* A line of output for some clients leaves alone what they know of the objects.
LEMMA QueuedKeeps ==
  ASSUME AS!IInv, NEW C \in SUBSET {c \in ApiClients : s9[c]}, s10' = AS!Queued(C, LAMBDA c : <<>>),
         UNCHANGED <<s1, s2, s3, s4, s5, s6, s9, s11, s12>>, s7' \subseteq ApiClients, s8' \subseteq ApiClients
  PROVE  AS!IInv'
<1>1. s10' = [c \in ApiClients |-> IF c \in C THEN Append(s10[c], AS!Applied(AS!Known(c), <<>>)) ELSE s10[c]]
  BY DEF AS!Queued
<1>2. s10 \in [ApiClients -> Seq(AS!Views)] BY ApiStates
<1>3. ASSUME NEW c \in ApiClients
      PROVE  /\ s10'[c] \in Seq(AS!Views) /\ DOMAIN AS!Known(c)' = DOMAIN AS!Known(c)
             /\ \A o \in DOMAIN AS!Known(c) : AS!Known(c)'[o] = AS!Known(c)[o]
  <2>1. CASE c \in C
    <3> DEFINE v == AS!Applied(AS!Known(c), <<>>)
    <3>1. v \in AS!Views /\ DOMAIN v = DOMAIN AS!Known(c) /\ \A o \in DOMAIN AS!Known(c) : v[o] = AS!Known(c)[o]
      BY KnownIs, NothingIsView, AppliedIs
    <3>2. s10'[c] = Append(s10[c], v) BY <1>1, <2>1
    <3> HIDE DEF v
    <3>3. AS!Known(c)' = v /\ s10'[c] \in Seq(AS!Views) BY <3>1, <3>2, AppendedIsKnown
    <3> QED BY <3>1, <3>3
  <2>2. CASE c \notin C
    <3>1. s10'[c] = s10[c] BY <1>1, <2>2
    <3> QED BY <1>2, <3>1 DEF AS!Known
  <2> QED BY <2>1, <2>2
<1>4. s10' \in [ApiClients -> Seq(AS!Views)] BY <1>1, <1>3
<1>5. AS!Subscribers' = AS!Subscribers /\ AS!Subscribers \subseteq ApiClients BY DEF AS!Subscribers
<1>6. AS!ViewIsCurrent' /\ AS!SubscribersAreServed' BY <1>3, <1>5, ViewsStay
<1>7. \A c \in ApiClients : ~s9[c] => s10'[c] = s10[c] BY <1>1
<1>8. AS!TypeOK' BY <1>7 DEF AS!IInv, AS!TypeOK
<1>9. AS!QueuesTypeOK' BY <1>4 DEF AS!IInv, AS!QueuesTypeOK
<1>10. AS!AnswersAreOfLast' /\ AS!LastIsPart' BY AnswersStay, LastStays
<1> QED BY <1>6, <1>8, <1>9, <1>10 DEF AS!IInv

LEMMA OutputsKeep ==
  ASSUME AS!IInv, AS!_output_callback \/ AS!call_remote_method
  PROVE  AS!IInv'
<1>1. s7 \subseteq ApiClients /\ s8 \subseteq ApiClients BY ApiStates
<1>2. CASE AS!_output_callback
  <2>1. /\ UNCHANGED <<s1, s2, s3, s4, s5, s6, s8, s9, s11, s12>> /\ s7' = AS!Alive(s7)
        /\ s10' = AS!Queued(AS!Alive(s7), LAMBDA c : <<>>)
    BY <1>2 DEF AS!_output_callback, AS!server
  <2>2. AS!Alive(s7) \in SUBSET {c \in ApiClients : s9[c]} BY <1>1 DEF AS!Alive
  <2>3. s7' \subseteq ApiClients /\ s8' \subseteq ApiClients BY <1>1, <2>1, <2>2
  <2> QED BY <2>1, <2>2, <2>3, QueuedKeeps
<1>3. CASE AS!call_remote_method
  <2>1. /\ UNCHANGED <<s1, s2, s3, s4, s5, s6, s7, s9, s11, s12>> /\ s8' = AS!Alive(s8)
        /\ s10' = AS!Queued(AS!Alive(s8), LAMBDA c : <<>>)
    BY <1>3 DEF AS!call_remote_method, AS!server
  <2>2. AS!Alive(s8) \in SUBSET {c \in ApiClients : s9[c]} BY <1>1 DEF AS!Alive
  <2>3. s7' \subseteq ApiClients /\ s8' \subseteq ApiClients BY <1>1, <2>1, <2>2
  <2> QED BY <2>1, <2>2, <2>3, QueuedKeeps
<1> QED BY <1>2, <1>3

\* What leaves the queries and the connections alone.
LEMMA ServerStays ==
  ASSUME AS!IInv, UNCHANGED <<s2, s3, s4, s5, s6, s9, s10, s11, s12>>,
         s7' \subseteq ApiClients, s8' \subseteq ApiClients, s1' \in [AS!Objects -> AS!Dicts(Keys)], AS!LastIsPart'
  PROVE  AS!IInv'
<1>1. AS!Subscribers' = AS!Subscribers BY DEF AS!Subscribers
<1>2. \A c : AS!Known(c)' = AS!Known(c) BY DEF AS!Known
<1>3. AS!ViewIsCurrent' /\ AS!SubscribersAreServed' BY <1>1, <1>2, ViewsStay
<1>4. AS!TypeOK' BY DEF AS!IInv, AS!TypeOK
<1>5. AS!QueuesTypeOK' BY DEF AS!IInv, AS!QueuesTypeOK
<1>6. AS!AnswersAreOfLast' BY AnswersStay
<1> QED BY <1>3, <1>4, <1>5, <1>6 DEF AS!IInv

LEMMA RegistrationsKeep ==
  ASSUME AS!IInv, NEW c \in ApiClients, AS!_handle_subscribe_output(c) \/ AS!_handle_rpc_registration(c)
  PROVE  AS!IInv'
<1>1. /\ UNCHANGED <<s1, s2, s3, s4, s5, s6, s9, s10, s11, s12>> /\ s7' \subseteq s7 \cup {c} /\ s8' \subseteq s8 \cup {c}
  BY DEF AS!_handle_subscribe_output, AS!_handle_rpc_registration, AS!server, AS!conn
<1>2. s7 \subseteq ApiClients /\ s8 \subseteq ApiClients /\ s1 \in [AS!Objects -> AS!Dicts(Keys)] BY ApiStates
<1>3. AS!LastIsPart' BY <1>1, LastStays
<1> QED BY <1>1, <1>2, <1>3, ServerStays

LEMMA ChangesKeep ==
  ASSUME AS!IInv, NEW o \in AS!Objects, AS!Changes(o)
  PROVE  AS!IInv'
<1>1. UNCHANGED <<s2, s3, s4, s5, s6, s7, s8, s9, s10, s11, s12>> BY DEF AS!Changes, AS!server, AS!conn
<1>2. PICK d \in AS!Dicts(IF o \in Deep THEN Keys ELSE DOMAIN s1[o]) :
        (o \in Deep => DOMAIN s1[o] \subseteq DOMAIN d) /\ s1' = [s1 EXCEPT ![o] = d]
  BY DEF AS!Changes
<1>3. s1 \in [AS!Objects -> AS!Dicts(Keys)] /\ s7 \subseteq ApiClients /\ s8 \subseteq ApiClients BY ApiStates
<1>4. DOMAIN s1[o] \subseteq Keys BY <1>3, DictIs
<1>5. d \in AS!Dicts(Keys) BY <1>4 DEF AS!Dicts
<1>6. s1' \in [AS!Objects -> AS!Dicts(Keys)] BY <1>2, <1>3, <1>5
<1>7. \A p \in AS!Objects : p \in Deep => DOMAIN s1[p] \subseteq DOMAIN s1'[p] BY <1>2, <1>3
<1>8. AS!LastIsPart'
  <2>1. DOMAIN s2 \subseteq AS!Objects BY ApiStates, ViewIs
  <2> QED BY <1>1, <1>7, <2>1 DEF AS!IInv, AS!LastIsPart
<1> QED BY <1>1, <1>3, <1>6, <1>8, ServerStays

-----------------------------------------------------------------------------
\* The queries that are answered wait with what the query found.
LEMMA WaitingIs ==
  ASSUME AS!IInv, AS!_do_query
  PROVE  /\ s4' \in Seq([request : AS!Requests, status : AS!Views]) /\ DOMAIN s4' = DOMAIN s3
         /\ \A i \in DOMAIN s3 : /\ s3[i] \in AS!Requests
                                 /\ s4'[i] = [request |-> s3[i], status |-> [o \in s3[i].objects |-> s1[o]]]
<1> DEFINE answer(i) == [request |-> s3[i], status |-> [o \in s3[i].objects |-> s1[o]]]
           R == [request : AS!Requests, status : AS!Views]
           W == [i \in DOMAIN s3 |-> answer(i)]
<1>1. s4 = <<>> /\ s4' = s4 \o W BY DEF AS!_do_query, AS!AnswersFirst
<1>2. s3 \in Seq(AS!Requests) /\ s1 \in [AS!Objects -> AS!Dicts(Keys)] BY ApiStates
<1>3. DOMAIN s3 = 1..Len(s3) /\ Len(s3) \in Nat BY <1>2, LenProperties
<1>4. ASSUME NEW i \in DOMAIN s3 PROVE s3[i] \in AS!Requests /\ answer(i) \in R
  <2>1. s3[i] \in AS!Requests BY <1>2, <1>3, ElementOfSeq
  <2>2. s3[i].objects \in SUBSET AS!Objects BY <2>1 DEF AS!Requests
  <2>3. [o \in s3[i].objects |-> s1[o]] \in [s3[i].objects -> AS!Dicts(Keys)] BY <1>2, <2>2
  <2>4. [o \in s3[i].objects |-> s1[o]] \in AS!Views BY <2>2, <2>3, IsView
  <2> QED BY <2>1, <2>4
<1> HIDE DEF answer, R
<1>5. W \in [1..Len(s3) -> R] BY <1>3, <1>4
<1>6. W \in Seq(R) BY <1>3, <1>5, SeqDef
<1>7. DOMAIN W = DOMAIN s3 /\ \A i \in DOMAIN s3 : W[i] = answer(i) OBVIOUS
<1> HIDE DEF W
<1>8. s4' = W BY <1>1, <1>6, ConcatEmptySeq
<1> QED BY <1>4, <1>6, <1>7, <1>8 DEF answer, R

\* Every subscriber knows the present status after a query.
LEMMA QueryTells ==
  ASSUME AS!IInv, AS!_do_query, NEW c \in AS!Subscribers
  PROVE  \A o \in s6[c] : o \in DOMAIN AS!Known(c)' /\ AS!Known(c)'[o] = s1[o]
<1> DEFINE N == AS!News(s6[c])
           K == AS!Known(c)
           C == {d \in AS!Subscribers : DOMAIN AS!News(s6[d]) # {}}
<1>1. s10' = AS!Queued(C, LAMBDA d : AS!News(s6[d])) /\ s12' = s12 BY DEF AS!_do_query
<1>2. s10' = [d \in ApiClients |-> IF d \in C THEN Append(s10[d], AS!Applied(AS!Known(d), AS!News(s6[d]))) ELSE s10[d]]
  BY <1>1 DEF AS!Queued
<1>3. c \in ApiClients /\ s6[c] \in SUBSET AS!Objects BY ApiStates DEF AS!Subscribers
<1>4. \A o \in s6[c] : o \in DOMAIN K /\ o \in DOMAIN s2 /\ K[o] = s2[o] BY DEF AS!IInv, AS!ViewIsCurrent
<1>5. K \in AS!Views BY <1>3, KnownIs
<1>6. /\ N \in AS!Views
      /\ \A o \in s6[c] \cap DOMAIN s2 :
           (IF o \notin DOMAIN N THEN s2[o] ELSE IF o \in Deep THEN AS!Over(N[o], s2[o]) ELSE N[o]) = s1[o]
  BY <1>3, NewsIs
<1>7. c \in C <=> DOMAIN N # {} OBVIOUS
<1>8. s10'[c] = IF DOMAIN N # {} THEN Append(s10[c], AS!Applied(K, N)) ELSE s10[c] BY <1>2, <1>3, <1>7
<1> HIDE DEF N, C
<1>9. CASE DOMAIN N = {}
  <2>1. AS!Known(c)' = K BY <1>1, <1>8, <1>9 DEF AS!Known
  <2> QED BY <1>4, <1>6, <1>9, <2>1
<1>10. CASE DOMAIN N # {}
  <2> DEFINE v == AS!Applied(K, N)
  <2> HIDE DEF K
  <2>1. /\ v \in AS!Views /\ DOMAIN v = DOMAIN K
        /\ \A o \in DOMAIN K : v[o] = IF o \notin DOMAIN N THEN K[o] ELSE IF o \in Deep THEN AS!Over(N[o], K[o]) ELSE N[o]
    BY <1>5, <1>6, AppliedIs
  <2>2. s10'[c] = Append(s10[c], v) BY <1>8, <1>10
  <2> HIDE DEF v
  <2>3. AS!Known(c)' = v BY <1>3, <2>1, <2>2, AppendedIsKnown
  <2> QED BY <1>4, <1>6, <2>1, <2>3
<1> QED BY <1>9, <1>10

LEMMA _do_queryKeeps ==
  ASSUME AS!IInv, AS!_do_query
  PROVE  AS!IInv'
<1>1. /\ UNCHANGED <<s1, s7, s8, s9, s11, s12>> /\ s3' = <<>> /\ s5' = (AS!Asked # {})
      /\ s2' = [o \in AS!Asked |-> s1[o]] /\ s6' = [c \in ApiClients |-> IF s9[c] THEN s6[c] ELSE NoObjects]
  BY DEF AS!_do_query
<1>2. /\ s1 \in [AS!Objects -> AS!Dicts(Keys)] /\ s6 \in [ApiClients -> (SUBSET AS!Objects) \cup {NoObjects}]
      /\ s9 \in [ApiClients -> BOOLEAN] /\ s10 \in [ApiClients -> Seq(AS!Views)]
  BY ApiStates
<1>3. /\ s4' \in Seq([request : AS!Requests, status : AS!Views]) /\ DOMAIN s4' = DOMAIN s3
      /\ \A i \in DOMAIN s3 : /\ s3[i] \in AS!Requests
                              /\ s4'[i] = [request |-> s3[i], status |-> [o \in s3[i].objects |-> s1[o]]]
  BY WaitingIs
<1>4. AS!Asked \in SUBSET AS!Objects
  <2>1. \A c \in AS!Subscribers : s6[c] \in SUBSET AS!Objects BY <1>2 DEF AS!Subscribers
  <2>2. \A i \in DOMAIN s3 : s3[i].objects \in SUBSET AS!Objects BY <1>3 DEF AS!Requests
  <2> QED BY <2>1, <2>2 DEF AS!Asked
<1>5. /\ \A c \in AS!Subscribers : s6[c] \subseteq AS!Asked
      /\ \A i \in DOMAIN s3 : s3[i].objects \subseteq AS!Asked
  BY DEF AS!Asked
<1>6. DOMAIN s2' = AS!Asked /\ \A o \in AS!Asked : s2'[o] = s1[o] BY <1>1
<1>7. s2' \in AS!Views
  <2>1. s2' \in [AS!Asked -> AS!Dicts(Keys)] BY <1>1, <1>2, <1>4
  <2> QED BY <1>4, <2>1, IsView
<1>8. /\ s6' \in [ApiClients -> (SUBSET AS!Objects) \cup {NoObjects}] /\ AS!Subscribers' = AS!Subscribers
      /\ \A c \in AS!Subscribers : s6'[c] = s6[c]
  BY <1>1, <1>2 DEF AS!Subscribers
<1>9. s10' \in [ApiClients -> Seq(AS!Views)] /\ \A c \in ApiClients : ~s9[c] => s10'[c] = s10[c]
  <2> DEFINE C == {d \in AS!Subscribers : DOMAIN AS!News(s6[d]) # {}}
  <2>1. s10' = AS!Queued(C, LAMBDA d : AS!News(s6[d])) BY DEF AS!_do_query
  <2>2. s10' = [d \in ApiClients |-> IF d \in C THEN Append(s10[d], AS!Applied(AS!Known(d), AS!News(s6[d]))) ELSE s10[d]]
    BY <2>1 DEF AS!Queued
  <2>3. \A d \in C : s9[d] /\ d \in ApiClients /\ s6[d] \in SUBSET AS!Objects BY <1>2 DEF AS!Subscribers
  <2> HIDE DEF C
  <2>4. ASSUME NEW d \in ApiClients PROVE s10'[d] \in Seq(AS!Views)
    <3>1. CASE d \in C
      <4> DEFINE v == AS!Applied(AS!Known(d), AS!News(s6[d]))
      <4>1. AS!News(s6[d]) \in AS!Views BY <2>3, <3>1, NewsIs
      <4>2. v \in AS!Views BY <4>1, KnownIs, AppliedIs
      <4>3. s10'[d] = Append(s10[d], v) BY <2>2, <3>1
      <4> HIDE DEF v
      <4> QED BY <4>2, <4>3, AppendedIsKnown
    <3>2. CASE d \notin C BY <1>2, <2>2, <3>2
    <3> QED BY <3>1, <3>2
  <2>5. s10' \in [ApiClients -> Seq(AS!Views)] BY <2>2, <2>4
  <2> QED BY <2>2, <2>3, <2>5
<1>10. AS!ViewIsCurrent' BY <1>5, <1>6, <1>8, QueryTells DEF AS!ViewIsCurrent
<1>11. AS!SubscribersAreServed' BY <1>1, <1>5, <1>8 DEF AS!SubscribersAreServed
<1>12. AS!LastIsPart' BY <1>1, <1>6 DEF AS!LastIsPart
<1>13. AS!AnswersAreOfLast'
  <2> SUFFICES ASSUME NEW i \in DOMAIN s4'
               PROVE  LET objects == s4'[i].request.objects
                      IN  /\ DOMAIN s4'[i].status = objects /\ (objects # {} => s5')
                          /\ \A o \in objects : o \in DOMAIN s2' /\ s4'[i].status[o] = s2'[o]
    BY DEF AS!AnswersAreOfLast
  <2> DEFINE O == s3[i].objects
  <2>1. O \subseteq AS!Asked BY <1>3, <1>5
  <2>2. s4'[i].request.objects = O /\ s4'[i].status = [o \in O |-> s1[o]] BY <1>3
  <2> HIDE DEF O
  <2> QED BY <1>1, <1>6, <2>1, <2>2
<1>14. AS!TypeOK'
  <2>1. s5' \in BOOLEAN BY <1>1
  <2> QED BY <1>1, <1>4, <1>6, <1>8, <1>9, <2>1 DEF AS!IInv, AS!TypeOK
<1>15. AS!QueuesTypeOK' BY <1>1, <1>3, <1>7, <1>9, EmptySeq DEF AS!IInv, AS!QueuesTypeOK
<1> QED BY <1>10, <1>11, <1>12, <1>13, <1>14, <1>15 DEF AS!IInv

LEMMA AnswerKeeps ==
  ASSUME AS!IInv, AS!Answer
  PROVE  AS!IInv'
<1> DEFINE w == Head(s4)
           r == w.request
           R == [request : AS!Requests, status : AS!Views]
<1>1. /\ UNCHANGED <<s1, s2, s3, s5, s7, s8, s9, s11, s12>> /\ s4 # <<>> /\ s4' = Tail(s4)
      /\ s6' = IF r.subscribe THEN [s6 EXCEPT ![r.client] = r.objects] ELSE s6
      /\ s10' = IF s9[r.client] /\ r.subscribe THEN [s10 EXCEPT ![r.client] = Append(@, w.status)] ELSE s10
  BY DEF AS!Answer
<1>2. /\ s4 \in Seq(R) /\ s6 \in [ApiClients -> (SUBSET AS!Objects) \cup {NoObjects}]
      /\ s9 \in [ApiClients -> BOOLEAN] /\ s10 \in [ApiClients -> Seq(AS!Views)]
  BY ApiStates
<1>3. w = s4[1] /\ 1 \in DOMAIN s4 /\ w \in R /\ Tail(s4) \in Seq(R)
      /\ DOMAIN Tail(s4) = 1..(Len(s4) - 1) /\ DOMAIN s4 = 1..Len(s4) /\ Len(s4) \in Nat
      /\ \A i \in 1..(Len(s4) - 1) : Tail(s4)[i] = s4[i + 1]
  <2> HIDE DEF R
  <2>1. Head(s4) \in R /\ Tail(s4) \in Seq(R) /\ Len(Tail(s4)) = Len(s4) - 1
        /\ \A i \in 1..Len(Tail(s4)) : Tail(s4)[i] = s4[i + 1]
    BY <1>1, <1>2, HeadTailProperties
  <2>2. Len(s4) \in Nat /\ Len(s4) # 0 /\ DOMAIN s4 = 1..Len(s4) BY <1>1, <1>2, EmptySeq, LenProperties
  <2>3. DOMAIN Tail(s4) = 1..Len(Tail(s4)) BY <2>1, LenProperties
  <2>4. Head(s4) = s4[1] OBVIOUS
  <2> QED BY <2>1, <2>2, <2>3, <2>4
<1>4. /\ DOMAIN w.status = r.objects /\ (r.objects # {} => s5)
      /\ \A o \in r.objects : o \in DOMAIN s2 /\ w.status[o] = s2[o]
  BY <1>3 DEF AS!IInv, AS!AnswersAreOfLast
<1>5. PICK c \in ApiClients, O \in SUBSET AS!Objects, b \in BOOLEAN, v \in AS!Views :
        r.client = c /\ r.objects = O /\ r.subscribe = b /\ w.status = v
  BY <1>3 DEF AS!Requests
<1> DEFINE told == s9[c] /\ b
<1>6. /\ s6' \in [ApiClients -> (SUBSET AS!Objects) \cup {NoObjects}] /\ (b => s6'[c] = O)
      /\ (~b => s6' = s6) /\ \A d \in ApiClients \ {c} : s6'[d] = s6[d]
  BY <1>1, <1>2, <1>5
<1>7. /\ told => s10'[c] = Append(s10[c], v)
      /\ ~told => s10' = s10
      /\ \A d \in ApiClients \ {c} : s10'[d] = s10[d]
  BY <1>1, <1>2, <1>5
<1>8. told => AS!Known(c)' = v /\ s10'[c] \in Seq(AS!Views) BY <1>7, AppendedIsKnown
<1>9. s10' \in [ApiClients -> Seq(AS!Views)] BY <1>1, <1>2, <1>5, <1>7, <1>8
<1> HIDE DEF w
<1>10. AS!ViewIsCurrent'
  <2> SUFFICES ASSUME NEW d \in AS!Subscribers', NEW o \in s6'[d]
               PROVE  o \in DOMAIN AS!Known(d)' /\ o \in DOMAIN s2' /\ AS!Known(d)'[o] = s2'[o]
    BY DEF AS!ViewIsCurrent
  <2>1. d \in ApiClients /\ s9[d] /\ s6'[d] # NoObjects BY <1>1 DEF AS!Subscribers
  <2>2. CASE d = c /\ b
    <3>1. told /\ o \in O BY <1>6, <2>1, <2>2
    <3> QED BY <1>1, <1>4, <1>5, <1>8, <2>2, <3>1
  <2>3. CASE ~(d = c /\ b)
    <3>1. s6'[d] = s6[d] /\ s10'[d] = s10[d] BY <1>6, <1>7, <2>1, <2>3
    <3>a. s12' = s12 BY <1>1
    <3>2. AS!Known(d)' = AS!Known(d) BY <3>1, <3>a DEF AS!Known
    <3>3. d \in AS!Subscribers BY <2>1, <3>1 DEF AS!Subscribers
    <3> QED BY <1>1, <3>1, <3>2, <3>3 DEF AS!IInv, AS!ViewIsCurrent
  <2> QED BY <2>2, <2>3
<1>11. AS!SubscribersAreServed'
  <2> SUFFICES ASSUME NEW d \in AS!Subscribers', s6'[d] # {} PROVE s5'
    BY DEF AS!SubscribersAreServed
  <2>1. d \in ApiClients /\ s9[d] /\ s6'[d] # NoObjects BY <1>1 DEF AS!Subscribers
  <2>2. CASE d = c /\ b BY <1>1, <1>4, <1>5, <1>6, <2>2
  <2>3. CASE ~(d = c /\ b)
    <3>1. s6'[d] = s6[d] BY <1>6, <2>1, <2>3
    <3>2. d \in AS!Subscribers BY <2>1, <3>1 DEF AS!Subscribers
    <3> QED BY <1>1, <3>1, <3>2 DEF AS!IInv, AS!SubscribersAreServed
  <2> QED BY <2>2, <2>3
<1>12. AS!LastIsPart' BY <1>1, LastStays
<1>13. AS!AnswersAreOfLast'
  <2>1. \A i \in DOMAIN s4' : i + 1 \in DOMAIN s4 /\ s4'[i] = s4[i + 1] BY <1>1, <1>3
  <2> QED BY <1>1, <2>1 DEF AS!IInv, AS!AnswersAreOfLast
<1>14. AS!TypeOK'
  <2>1. \A d \in ApiClients : ~s9[d] => s10'[d] = s10[d] BY <1>7
  <2> QED BY <1>1, <1>6, <2>1 DEF AS!IInv, AS!TypeOK
<1>15. AS!QueuesTypeOK' BY <1>1, <1>3, <1>9 DEF AS!IInv, AS!QueuesTypeOK
<1> QED BY <1>10, <1>11, <1>12, <1>13, <1>14, <1>15 DEF AS!IInv

LEMMA ApiKeepsIInv ==
  ASSUME AS!ApiServerAssumption, AS!IInv, [AS!Next]_(AS!vars)
  PROVE  AS!IInv'
<1>1. CASE AS!_do_query BY <1>1, _do_queryKeeps
<1>2. CASE AS!Answer BY <1>2, AnswerKeeps
<1>3. CASE AS!_output_callback \/ AS!call_remote_method BY <1>3, OutputsKeep
<1>4. ASSUME NEW o \in AS!Objects, AS!Changes(o) PROVE AS!IInv' BY <1>4, ChangesKeep
<1>5. ASSUME NEW c \in ApiClients,
             \/ AS!_do_send(c) \/ AS!close(c) \/ AS!stats(c)
             \/ AS!_handle_subscribe_output(c) \/ AS!_handle_rpc_registration(c)
             \/ \E O \in SUBSET AS!Objects, b \in BOOLEAN : AS!_handle_query(c, O, b)
      PROVE  AS!IInv'
  <2>1. CASE AS!_do_send(c) BY <2>1, _do_sendKeeps
  <2>2. CASE AS!close(c)
    <3>1. AS!Closed(c) BY <2>2 DEF AS!close
    <3> QED BY <3>1, ClosedKeeps
  <2>3. CASE AS!stats(c) BY <2>3, statsKeeps
  <2>4. CASE AS!_handle_subscribe_output(c) \/ AS!_handle_rpc_registration(c) BY <2>4, RegistrationsKeep
  <2>5. CASE \E O \in SUBSET AS!Objects, b \in BOOLEAN : AS!_handle_query(c, O, b) BY <2>5, _handle_queryKeeps
  <2> QED BY <1>5, <2>1, <2>2, <2>3, <2>4, <2>5
<1>6. CASE UNCHANGED AS!vars
  <2>1. UNCHANGED <<s1, s2, s3, s4, s5, s6, s7, s8, s9, s10, s11, s12>> BY <1>6 DEF AS!vars, AS!server, AS!conn
  <2>2. s1' \in [AS!Objects -> AS!Dicts(Keys)] /\ s7' \subseteq ApiClients /\ s8' \subseteq ApiClients BY <2>1, ApiStates
  <2>3. AS!LastIsPart' BY <2>1, LastStays
  <2> QED BY <2>1, <2>2, <2>3, ServerStays
<1> QED BY <1>1, <1>2, <1>3, <1>4, <1>5, <1>6 DEF AS!Next

-----------------------------------------------------------------------------
(* The files of the configuration and of the variables.                    *)

SS == INSTANCE SavedState WITH
  Sections <- [x \in OptionSections |-> x], Names <- VariableNames, MaxSets <- ConfigSets, MaxSaves <- ConfigSaves,
  MaxEdits <- ConfigEdits, MaxFaults <- DiskFaults, what <- s1, disk <- s2, host <- s3, incl <- s4, saved <- s5, store <- s6, count <- s7

\* The types, field by field.
LEMMA FileStates ==
  ASSUME SS!TypeOK
  PROVE  /\ s2 \in SS!Disks /\ s2.main \in SS!Files /\ s2.temp \in SS!Files /\ s2.backup \subseteq SS!Files /\ s2.unsynced \in BOOLEAN
         /\ s2.main.kind \in {"file", "missing", "partial"} /\ s2.main.reg \in SS!Values /\ s2.main.auto \in SS!Values
         /\ s2.main.junk \in BOOLEAN
         /\ s3 \in SS!Hosts /\ s3.up \in BOOLEAN /\ s3.auto \in SS!Values /\ s3.base \in SS!Values /\ s3.flag \in BOOLEAN
         /\ s3.pending \in [SS!Options -> {"no", "set", "dropped"}] /\ s3.eff \in SS!Values
         /\ s3.step \in {"idle", "opened", "written", "moved"}
         /\ s4 \in [SS!Options -> 0..1] /\ s5 \in SS!Values
         /\ s6 \in SS!Stores /\ s6.file \subseteq VariableNames /\ s6.mem \subseteq VariableNames /\ s6.rewrite \subseteq VariableNames
         /\ s6.stored \subseteq VariableNames /\ s6.cut \in BOOLEAN
BY DEF SS!TypeOK, SS!Disks, SS!Files, SS!Hosts, SS!Stores

LEMMA NothingIsSaved ==
  /\ SS!Nothing \in SS!Values /\ \A o \in SS!Options : SS!Nothing[o] = 0
  /\ SS!Missing \in SS!Files /\ SS!Missing.kind = "missing" /\ SS!Missing.junk = FALSE
  /\ SS!Partial \in SS!Files /\ SS!Partial.kind = "partial"
<1>1. SS!Nothing \in SS!Values /\ \A o \in SS!Options : SS!Nothing[o] = 0 BY DEF SS!Nothing, SS!Values
<1>2. SS!Missing \in SS!Files /\ SS!Missing.kind = "missing" /\ SS!Missing.junk = FALSE BY <1>1 DEF SS!Missing, SS!Files
<1>3. SS!Partial \in SS!Files /\ SS!Partial.kind = "partial" BY <1>2 DEF SS!Partial, SS!Files
<1> QED BY <1>1, <1>2, <1>3

LEMMA DownIs ==
  /\ SS!Down \in SS!Hosts /\ SS!Down.up = FALSE /\ SS!Down.step = "idle"
BY NothingIsSaved DEF SS!Down, SS!Hosts

LEMMA OverlayIs ==
  ASSUME NEW v \in SS!Values, NEW w \in SS!Values
  PROVE  /\ SS!Overlay(v, w) \in SS!Values /\ \A o \in SS!Options : SS!Overlay(v, w)[o] = IF v[o] # 0 THEN v[o] ELSE w[o]
         /\ SS!_strip_duplicates(v, w) \in SS!Values
         /\ \A o \in SS!Options : SS!_strip_duplicates(v, w)[o] = IF w[o] # 0 THEN 0 ELSE v[o]
BY DEF SS!Values, SS!Overlay, SS!_strip_duplicates

LEMMA HostSteps ==
  ASSUME NEW h \in SS!Hosts, NEW step \in {"idle", "opened", "written", "moved"}, NEW k, k = [h EXCEPT !.step = step]
  PROVE  /\ k \in SS!Hosts /\ k.up = h.up /\ k.auto = h.auto /\ k.base = h.base /\ k.pending = h.pending /\ k.flag = h.flag
         /\ k.eff = h.eff /\ k.step = step
BY DEF SS!Hosts

-----------------------------------------------------------------------------
(* The files, action by action.                                            *)

LEMMA FilesStart ==
  ASSUME SS!Init
  PROVE  SS!IInv
<1>1. PICK reg \in {[SS!Nothing EXCEPT ![o] = 1] : o \in SS!Options}, auto \in {SS!Nothing, [o \in SS!Options |-> 1]} :
        s2 = [main |-> [kind |-> "file", reg |-> reg, auto |-> auto, junk |-> FALSE], temp |-> SS!Missing,
              backup |-> {}, unsynced |-> FALSE]
  BY DEF SS!Init
<1>2. s3 = SS!Down /\ s4 = SS!Nothing /\ s5 = SS!Nothing /\ s6 = SS!StoreStart BY DEF SS!Init
<1>3. reg \in SS!Values /\ auto \in SS!Values
  <2>1. \A o \in SS!Options : [SS!Nothing EXCEPT ![o] = 1] \in SS!Values BY DEF SS!Values, SS!Nothing
  <2>2. [o \in SS!Options |-> 1] \in SS!Values BY DEF SS!Values
  <2> QED BY <2>1, <2>2, NothingIsSaved
<1>4. s2 \in SS!Disks BY <1>1, <1>3, NothingIsSaved DEF SS!Disks, SS!Files
<1>5. s4 \in [SS!Options -> 0..1] BY <1>2 DEF SS!Nothing
<1>6. s6 \in SS!Stores BY <1>2 DEF SS!StoreStart, SS!Stores
<1>7. SS!TypeOK BY <1>2, <1>4, <1>5, <1>6, DownIs, NothingIsSaved DEF SS!TypeOK
<1>8. s3.up = FALSE /\ s3.step = "idle" /\ s2.main.kind = "file" /\ s2.unsynced = FALSE BY <1>1, <1>2, DownIs
<1>9. SS!SaveIsWhole /\ SS!UnchangedIsRead /\ SS!DroppedAreGone /\ SS!ConfigIsSomewhere /\ SS!PendingIsTrue
  BY <1>8 DEF SS!SaveIsWhole, SS!UnchangedIsRead, SS!DroppedAreGone, SS!ConfigIsSomewhere, SS!PendingIsTrue
<1>10. SS!FileHasSaved BY <1>2, NothingIsSaved DEF SS!FileHasSaved
<1>11. SS!StoredIsThere /\ SS!VariablesAreKept BY <1>2 DEF SS!StoredIsThere, SS!VariablesAreKept, SS!StoreStart
<1> QED BY <1>7, <1>9, <1>10, <1>11 DEF SS!IInv

LEMMA StoreStays ==
  ASSUME SS!IInv, s6' = s6
  PROVE  SS!StoredIsThere' /\ SS!VariablesAreKept' /\ s6' \in SS!Stores
BY DEF SS!IInv, SS!TypeOK, SS!StoredIsThere, SS!VariablesAreKept

\* What a start makes of a file that has what was saved.
LEMMA read_main_configKeeps ==
  ASSUME SS!IInv, SS!read_main_config
  PROVE  SS!IInv'
<1> DEFINE regular == SS!Overlay(s2.main.reg, s4)
           kept == SS!_find_autosave_data(s2.main)
           auto == SS!_strip_duplicates(kept, regular)
           eff == SS!Overlay(regular, auto)
<1>1. /\ s2.main.kind = "file" /\ UNCHANGED <<s2, s4, s5, s6>>
      /\ s3' = [SS!Down EXCEPT !.up = TRUE, !.auto = auto, !.base = auto, !.eff = eff]
  BY DEF SS!read_main_config
<1>2. SS!TypeOK BY DEF SS!IInv
<1>3. s2.main.reg \in SS!Values /\ s2.main.auto \in SS!Values /\ s4 \in SS!Values /\ s5 \in SS!Values /\ s2.main.junk \in BOOLEAN
  BY <1>2, FileStates DEF SS!Values
<1>4. /\ kept \in SS!Values /\ (s2.main.junk => kept = SS!Nothing) /\ (~s2.main.junk => kept = s2.main.auto)
      /\ \A o \in SS!Options : SS!Nothing[o] = 0
  BY <1>3, NothingIsSaved DEF SS!_find_autosave_data
<1>5. /\ regular \in SS!Values
      /\ \A o \in SS!Options : regular[o] = IF s2.main.reg[o] # 0 THEN s2.main.reg[o] ELSE s4[o]
  BY <1>3, OverlayIs
<1> HIDE DEF regular, kept
<1>6. auto \in SS!Values /\ \A o \in SS!Options : auto[o] = IF regular[o] # 0 THEN 0 ELSE kept[o]
  BY <1>4, <1>5, OverlayIs
<1> HIDE DEF auto
<1>7. eff \in SS!Values /\ \A o \in SS!Options : eff[o] = IF regular[o] # 0 THEN regular[o] ELSE auto[o]
  BY <1>5, <1>6, OverlayIs
<1> HIDE DEF eff
<1>8. s3' = [up |-> TRUE, auto |-> auto, base |-> auto, pending |-> [o \in SS!Options |-> "no"], flag |-> FALSE,
             eff |-> eff, step |-> "idle"]
  BY <1>1 DEF SS!Down
<1>9. /\ s3' \in SS!Hosts /\ s3'.auto = auto /\ s3'.base = auto /\ s3'.eff = eff /\ s3'.step = "idle"
      /\ \A o \in SS!Options : s3'.pending[o] = "no"
  BY <1>6, <1>7, <1>8 DEF SS!Hosts
<1>10. \A o \in SS!Options : auto[o] # 0 => eff[o] = auto[o] BY <1>6, <1>7
<1>11. CASE s2.main.junk
  <2>1. \A o \in SS!Options : auto[o] = 0 BY <1>4, <1>6, <1>11
  <2>2. auto = SS!Nothing BY <1>6, <2>1 DEF SS!Values, SS!Nothing
  <2>3. SS!UnchangedIsRead' BY <1>1, <1>9, <1>10, <1>11, <2>2 DEF SS!UnchangedIsRead
  <2>4. SS!TypeOK' BY <1>1, <1>2, <1>9 DEF SS!TypeOK
  <2>5. SS!SaveIsWhole' BY <1>1, <1>9 DEF SS!IInv, SS!SaveIsWhole
  <2>6. SS!DroppedAreGone' /\ SS!PendingIsTrue' BY <1>9 DEF SS!DroppedAreGone, SS!PendingIsTrue
  <2>7. SS!FileHasSaved' /\ SS!ConfigIsSomewhere' BY <1>1 DEF SS!IInv, SS!FileHasSaved, SS!ConfigIsSomewhere
  <2> QED BY <1>1, <2>3, <2>4, <2>5, <2>6, <2>7, StoreStays DEF SS!IInv
<1>12. CASE ~s2.main.junk
  <2>1. \A o \in SS!Options : s5[o] # 0 => s2.main.auto[o] = s5[o] /\ s2.main.reg[o] = 0 /\ s4[o] = 0
    BY <1>1 DEF SS!IInv, SS!FileHasSaved
  <2>2. \A o \in SS!Options : s5[o] # 0 => eff[o] = s5[o] BY <1>4, <1>5, <1>6, <1>7, <1>12, <2>1
  <2>3. SS!UnchangedIsRead' BY <1>1, <1>9, <1>10, <2>2 DEF SS!UnchangedIsRead
  <2>4. SS!TypeOK' BY <1>1, <1>2, <1>9 DEF SS!TypeOK
  <2>5. SS!SaveIsWhole' BY <1>1, <1>9 DEF SS!IInv, SS!SaveIsWhole
  <2>6. SS!DroppedAreGone' /\ SS!PendingIsTrue' BY <1>9 DEF SS!DroppedAreGone, SS!PendingIsTrue
  <2>7. SS!FileHasSaved' /\ SS!ConfigIsSomewhere' BY <1>1 DEF SS!IInv, SS!FileHasSaved, SS!ConfigIsSomewhere
  <2> QED BY <1>1, <2>3, <2>4, <2>5, <2>6, <2>7, StoreStays DEF SS!IInv
<1> QED BY <1>3, <1>11, <1>12

\* Options that are set or dropped in memory.
LEMMA MemoryKeeps ==
  ASSUME SS!IInv, NEW auto \in SS!Values, NEW pending \in [SS!Options -> {"no", "set", "dropped"}],
         SS!Idle, UNCHANGED <<s2, s4, s5, s6>>, s3' = [s3 EXCEPT !.auto = auto, !.pending = pending, !.flag = TRUE],
         \A o \in SS!Options : /\ auto[o] \notin {0, s3.base[o]} => pending[o] = "set"
                               /\ pending[o] = "dropped" => auto[o] = 0
  PROVE  SS!IInv'
<1>1. SS!TypeOK BY DEF SS!IInv
<1>2. s3 \in SS!Hosts /\ s3.step = "idle" BY <1>1, FileStates DEF SS!Idle
<1>3. /\ s3' \in SS!Hosts /\ s3'.up = s3.up /\ s3'.auto = auto /\ s3'.base = s3.base /\ s3'.pending = pending
      /\ s3'.flag = TRUE /\ s3'.step = s3.step
  <2> DEFINE h == [s3 EXCEPT !.auto = auto]
             k == [h EXCEPT !.pending = pending]
  <2>1. h \in SS!Hosts /\ h.up = s3.up /\ h.auto = auto /\ h.base = s3.base /\ h.step = s3.step BY <1>2 DEF SS!Hosts
  <2>2. s3' = [k EXCEPT !.flag = TRUE] BY <1>2 DEF SS!Hosts
  <2> HIDE DEF h
  <2>3. k \in SS!Hosts /\ k.up = s3.up /\ k.auto = auto /\ k.base = s3.base /\ k.pending = pending /\ k.step = s3.step
    BY <2>1 DEF SS!Hosts
  <2> HIDE DEF k
  <2> QED BY <2>2, <2>3 DEF SS!Hosts
<1>4. SS!TypeOK' BY <1>1, <1>3 DEF SS!TypeOK
<1>5. SS!SaveIsWhole' BY <1>2, <1>3 DEF SS!IInv, SS!SaveIsWhole
<1>6. SS!UnchangedIsRead' BY <1>3 DEF SS!UnchangedIsRead
<1>7. SS!DroppedAreGone' /\ SS!PendingIsTrue' BY <1>3 DEF SS!DroppedAreGone, SS!PendingIsTrue
<1>8. SS!FileHasSaved' /\ SS!ConfigIsSomewhere' BY DEF SS!IInv, SS!FileHasSaved, SS!ConfigIsSomewhere
<1> QED BY <1>4, <1>5, <1>6, <1>7, <1>8, StoreStays DEF SS!IInv

LEMMA setKeeps ==
  ASSUME SS!IInv, SS!set
  PROVE  SS!IInv'
<1>1. SS!TypeOK /\ SS!Idle /\ s3.up BY DEF SS!IInv, SS!set, SS!Idle
<1>2. PICK o \in SS!Options : s3' = [s3 EXCEPT !.auto[o] = 2, !.pending = SS!Noted(o, "set"), !.flag = TRUE]
  BY DEF SS!set
<1>3. UNCHANGED <<s2, s4, s5, s6>> BY DEF SS!set
<1> DEFINE auto == [s3.auto EXCEPT ![o] = 2]
           pending == SS!Noted(o, "set")
<1>4. s3 \in SS!Hosts /\ s3.auto \in SS!Values /\ s3.pending \in [SS!Options -> {"no", "set", "dropped"}]
  BY <1>1, FileStates
<1>5. auto \in SS!Values /\ auto[o] = 2 /\ \A p \in SS!Options \ {o} : auto[p] = s3.auto[p] BY <1>4 DEF SS!Values
<1>6. /\ pending \in [SS!Options -> {"no", "set", "dropped"}] /\ pending[o] = "set"
      /\ \A p \in SS!Options \ {o} : pending[p] = s3.pending[p] \/ (s3.pending[p] = "dropped" /\ pending[p] = "no")
  BY <1>4 DEF SS!Noted
<1>7. s3' = [s3 EXCEPT !.auto = auto, !.pending = pending, !.flag = TRUE] BY <1>2, <1>4 DEF SS!Hosts
<1> HIDE DEF auto, pending
<1>8. \A p \in SS!Options : /\ s3.pending[p] = "dropped" => s3.auto[p] = 0
                            /\ s3.auto[p] \notin {0, s3.base[p]} => s3.pending[p] = "set"
  BY <1>1 DEF SS!IInv, SS!DroppedAreGone, SS!PendingIsTrue
<1>9. \A p \in SS!Options : /\ auto[p] \notin {0, s3.base[p]} => pending[p] = "set"
                            /\ pending[p] = "dropped" => auto[p] = 0
  BY <1>5, <1>6, <1>8
<1> QED BY <1>1, <1>3, <1>5, <1>6, <1>7, <1>9, MemoryKeeps

LEMMA remove_sectionKeeps ==
  ASSUME SS!IInv, SS!remove_section
  PROVE  SS!IInv'
<1>1. SS!TypeOK /\ SS!Idle /\ s3.up BY DEF SS!IInv, SS!remove_section, SS!Idle
<1>2. PICK O : s3' = [s3 EXCEPT !.auto = [o \in SS!Options |-> IF o \in O THEN 0 ELSE @[o]],
                                !.pending = [o \in SS!Options |-> IF o \in O THEN "dropped" ELSE @[o]],
                                !.flag = TRUE]
  BY DEF SS!remove_section
<1>3. UNCHANGED <<s2, s4, s5, s6>> BY DEF SS!remove_section
<1> DEFINE auto == [o \in SS!Options |-> IF o \in O THEN 0 ELSE s3.auto[o]]
           pending == [o \in SS!Options |-> IF o \in O THEN "dropped" ELSE s3.pending[o]]
<1>4. s3 \in SS!Hosts /\ s3.auto \in SS!Values /\ s3.pending \in [SS!Options -> {"no", "set", "dropped"}]
  BY <1>1, FileStates
<1>5. auto \in SS!Values /\ \A o \in SS!Options : auto[o] = IF o \in O THEN 0 ELSE s3.auto[o] BY <1>4 DEF SS!Values
<1>6. /\ pending \in [SS!Options -> {"no", "set", "dropped"}]
      /\ \A o \in SS!Options : pending[o] = IF o \in O THEN "dropped" ELSE s3.pending[o]
  BY <1>4
<1>7. s3' = [s3 EXCEPT !.auto = auto, !.pending = pending, !.flag = TRUE] BY <1>2
<1> HIDE DEF auto, pending
<1>8. \A p \in SS!Options : /\ s3.pending[p] = "dropped" => s3.auto[p] = 0
                            /\ s3.auto[p] \notin {0, s3.base[p]} => s3.pending[p] = "set"
  BY <1>1 DEF SS!IInv, SS!DroppedAreGone, SS!PendingIsTrue
<1>9. \A p \in SS!Options : /\ auto[p] \notin {0, s3.base[p]} => pending[p] = "set"
                            /\ pending[p] = "dropped" => auto[p] = 0
  BY <1>5, <1>6, <1>8
<1> QED BY <1>1, <1>3, <1>5, <1>6, <1>7, <1>9, MemoryKeeps

\* A step of a command that saves, or its end: what the host has in memory stays.
LEMMA SavesKeep ==
  ASSUME SS!IInv, NEW step \in {"idle", "opened", "written", "moved"}, s3' = [s3 EXCEPT !.step = step],
         s2' \in SS!Disks, s5' \in SS!Values, UNCHANGED <<s4, s6>>,
         SS!SaveIsWhole', SS!FileHasSaved', SS!ConfigIsSomewhere',
         (s5' = s5 /\ (s3.auto = SS!Nothing /\ s2.main.junk => s2'.main.junk)) \/ s5' = s3.auto
  PROVE  SS!IInv'
<1>1. SS!TypeOK BY DEF SS!IInv
<1>2. s3 \in SS!Hosts BY <1>1, FileStates
<1>3. /\ s3' \in SS!Hosts /\ s3'.up = s3.up /\ s3'.auto = s3.auto /\ s3'.base = s3.base /\ s3'.pending = s3.pending
      /\ s3'.flag = s3.flag /\ s3'.eff = s3.eff /\ s3'.step = step
  BY <1>2, HostSteps
<1>4. SS!TypeOK' BY <1>1, <1>3 DEF SS!TypeOK
<1>5. SS!UnchangedIsRead' BY <1>3 DEF SS!IInv, SS!UnchangedIsRead
<1>6. SS!DroppedAreGone' /\ SS!PendingIsTrue' BY <1>3 DEF SS!IInv, SS!DroppedAreGone, SS!PendingIsTrue
<1> QED BY <1>4, <1>5, <1>6, StoreStays DEF SS!IInv

LEMMA cmd_SAVE_CONFIGKeeps ==
  ASSUME SS!IInv, SS!cmd_SAVE_CONFIG
  PROVE  SS!IInv'
<1>1. SS!TypeOK BY DEF SS!IInv
<1>2. /\ UNCHANGED <<s4, s5, s6>> /\ s3.up /\ s3.step = "idle" /\ s3.auto # SS!Nothing /\ s2.main.kind = "file"
      /\ \A o \in SS!Options : s3.auto[o] # 0 => s4[o] = 0
      /\ s3' = [s3 EXCEPT !.step = "opened"] /\ s2' = [s2 EXCEPT !.temp = SS!Partial, !.unsynced = TRUE]
  BY DEF SS!cmd_SAVE_CONFIG, SS!SaveOpens, SS!Idle, SS!_disallow_include_conflicts
<1>3. s2 \in SS!Disks /\ s3 \in SS!Hosts BY <1>1, FileStates
<1>4. s2' \in SS!Disks /\ s2'.main = s2.main /\ s2'.temp = SS!Partial /\ s2'.backup = s2.backup
  <2> DEFINE d == [s2 EXCEPT !.temp = SS!Partial]
  <2>1. d \in SS!Disks /\ d.main = s2.main /\ d.temp = SS!Partial /\ d.backup = s2.backup
    BY <1>3, NothingIsSaved DEF SS!Disks
  <2>2. s2' = [d EXCEPT !.unsynced = TRUE] BY <1>2, <1>3 DEF SS!Disks
  <2> HIDE DEF d
  <2> QED BY <2>1, <2>2 DEF SS!Disks
<1>5. s3'.up = s3.up /\ s3'.auto = s3.auto /\ s3'.step = "opened" BY <1>2, <1>3, HostSteps
<1>6. SS!SaveIsWhole' BY <1>2, <1>4, <1>5, NothingIsSaved DEF SS!SaveIsWhole
<1>7. SS!FileHasSaved' /\ SS!ConfigIsSomewhere' BY <1>2, <1>4 DEF SS!IInv, SS!FileHasSaved, SS!ConfigIsSomewhere
<1>8. s5' \in SS!Values BY <1>1, <1>2, FileStates
<1> QED BY <1>2, <1>4, <1>6, <1>7, <1>8, SavesKeep

LEMMA SaveWritesKeeps ==
  ASSUME SS!IInv, SS!SaveWrites
  PROVE  SS!IInv'
<1>1. SS!TypeOK BY DEF SS!IInv
<1> DEFINE reg == SS!_strip_duplicates(s2.main.reg, s3.auto)
           f == SS!SavedFile
<1>2. /\ UNCHANGED <<s4, s5, s6>> /\ s3.step = "opened"
      /\ s3' = [s3 EXCEPT !.step = "written"] /\ s2' = [s2 EXCEPT !.temp = f]
  BY DEF SS!SaveWrites
<1>3. /\ s2 \in SS!Disks /\ s3 \in SS!Hosts /\ s2.main \in SS!Files /\ s2.main.reg \in SS!Values /\ s3.auto \in SS!Values
      /\ s2.unsynced \in BOOLEAN
  BY <1>1, FileStates
<1>4. reg \in SS!Values /\ \A o \in SS!Options : reg[o] = IF s3.auto[o] # 0 THEN 0 ELSE s2.main.reg[o] BY <1>3, OverlayIs
<1>5. f = [s2.main EXCEPT !.reg = reg, !.auto = s3.auto] BY DEF SS!SavedFile
<1> HIDE DEF reg, f
<1>6. f \in SS!Files /\ f.kind = s2.main.kind /\ f.reg = reg /\ f.auto = s3.auto
  <2> DEFINE g == [s2.main EXCEPT !.reg = reg]
  <2>1. g \in SS!Files /\ g.kind = s2.main.kind /\ g.reg = reg BY <1>3, <1>4 DEF SS!Files
  <2>2. f = [g EXCEPT !.auto = s3.auto] BY <1>3, <1>5 DEF SS!Files
  <2> HIDE DEF g
  <2> QED BY <1>3, <2>1, <2>2 DEF SS!Files
<1>7. /\ s2' \in SS!Disks /\ s2'.main = s2.main /\ s2'.temp = f /\ s2'.backup = s2.backup
  BY <1>2, <1>3, <1>6 DEF SS!Disks
<1>8. s3'.up = s3.up /\ s3'.auto = s3.auto /\ s3'.step = "written" BY <1>2, <1>3, HostSteps
<1>9. /\ s2.main.kind = "file" /\ s3.up /\ s3.auto # SS!Nothing /\ \A o \in SS!Options : s3.auto[o] # 0 => s4[o] = 0
  BY <1>2 DEF SS!IInv, SS!SaveIsWhole
<1>10. SS!SaveIsWhole' BY <1>2, <1>4, <1>6, <1>7, <1>8, <1>9 DEF SS!SaveIsWhole
<1>11. SS!FileHasSaved' /\ SS!ConfigIsSomewhere' BY <1>2, <1>7 DEF SS!IInv, SS!FileHasSaved, SS!ConfigIsSomewhere
<1>12. s5' \in SS!Values BY <1>1, <1>2, FileStates
<1> QED BY <1>2, <1>7, <1>10, <1>11, <1>12, SavesKeep

LEMMA SaveMovesOldKeeps ==
  ASSUME SS!IInv, SS!SaveMovesOld
  PROVE  SS!IInv'
<1>1. SS!TypeOK BY DEF SS!IInv
<1>2. /\ UNCHANGED <<s4, s5, s6>> /\ s3.step = "written" /\ s3' = [s3 EXCEPT !.step = "moved"]
      /\ s2' = [s2 EXCEPT !.backup = s2.backup \cup {s2.main}, !.main = SS!Missing]
  BY DEF SS!SaveMovesOld
<1>3. s2 \in SS!Disks /\ s3 \in SS!Hosts /\ s2.main \in SS!Files /\ s2.backup \subseteq SS!Files BY <1>1, FileStates
<1> DEFINE b == s2.backup \cup {s2.main}
<1>4. b \in SUBSET SS!Files /\ b # {} BY <1>3
<1> HIDE DEF b
<1>5. s2' \in SS!Disks /\ s2'.main = SS!Missing /\ s2'.temp = s2.temp /\ s2'.backup = b
  <2> DEFINE d == [s2 EXCEPT !.backup = b]
  <2>1. d \in SS!Disks /\ d.temp = s2.temp /\ d.backup = b BY <1>3, <1>4 DEF SS!Disks
  <2>2. s2' = [d EXCEPT !.main = SS!Missing] BY <1>2, <1>3 DEF SS!Disks, b
  <2> HIDE DEF d
  <2> QED BY <2>1, <2>2, NothingIsSaved DEF SS!Disks
<1>6. s3'.up = s3.up /\ s3'.auto = s3.auto /\ s3'.step = "moved" BY <1>2, <1>3, HostSteps
<1>7. SS!SaveIsWhole' BY <1>2, <1>4, <1>5, <1>6 DEF SS!IInv, SS!SaveIsWhole
<1>8. SS!FileHasSaved' /\ SS!ConfigIsSomewhere' BY <1>4, <1>5, NothingIsSaved DEF SS!FileHasSaved, SS!ConfigIsSomewhere
<1>9. s5' \in SS!Values BY <1>1, <1>2, FileStates
<1>10. s3.auto # SS!Nothing BY <1>2 DEF SS!IInv, SS!SaveIsWhole
<1> QED BY <1>2, <1>5, <1>7, <1>8, <1>9, <1>10, SavesKeep

\* A host that is down.
LEMMA DownKeeps ==
  ASSUME SS!IInv, s3' = SS!Down, s2' \in SS!Disks, s4' = s4, s5' \in SS!Values, s6' \in SS!Stores,
         s2'.unsynced /\ s2'.temp.kind = "missing" => s2'.backup # {},
         SS!FileHasSaved', SS!ConfigIsSomewhere', SS!StoredIsThere', SS!VariablesAreKept'
  PROVE  SS!IInv'
<1>1. SS!Down \in SS!Hosts /\ ~SS!Down.up /\ SS!Down.step = "idle" BY DownIs
<1>2. SS!TypeOK' BY <1>1 DEF SS!IInv, SS!TypeOK
<1>3. SS!SaveIsWhole' BY <1>1 DEF SS!SaveIsWhole
<1>4. SS!UnchangedIsRead' /\ SS!DroppedAreGone' /\ SS!PendingIsTrue' BY <1>1 DEF SS!UnchangedIsRead, SS!DroppedAreGone, SS!PendingIsTrue
<1> QED BY <1>2, <1>3, <1>4 DEF SS!IInv

LEMMA SaveMovesNewKeeps ==
  ASSUME SS!IInv, SS!SaveMovesNew
  PROVE  SS!IInv'
<1>1. SS!TypeOK BY DEF SS!IInv
<1>2. UNCHANGED <<s4, s6>> /\ s3.step = "moved" /\ s5' = s3.auto BY DEF SS!SaveMovesNew
<1>3. /\ s2 \in SS!Disks /\ s3 \in SS!Hosts /\ s2.temp \in SS!Files /\ s3.auto \in SS!Values /\ s2.unsynced \in BOOLEAN
  BY <1>1, FileStates
<1>4. /\ s2.temp.auto = s3.auto /\ s2.backup # {}
      /\ \A o \in SS!Options : s3.auto[o] # 0 => s2.temp.reg[o] = 0 /\ s4[o] = 0
  BY <1>2 DEF SS!IInv, SS!SaveIsWhole
<1>5. CASE s3' = SS!Down /\ s2' = [s2 EXCEPT !.main = s2.temp, !.temp = SS!Missing]
  <2>1. s2' \in SS!Disks /\ s2'.main = s2.temp /\ s2'.backup = s2.backup
    <3> DEFINE d == [s2 EXCEPT !.main = s2.temp]
    <3>1. d \in SS!Disks /\ d.main = s2.temp /\ d.backup = s2.backup BY <1>3 DEF SS!Disks
    <3>2. s2' = [d EXCEPT !.temp = SS!Missing] BY <1>3, <1>5 DEF SS!Disks
    <3> HIDE DEF d
    <3> QED BY <3>1, <3>2, NothingIsSaved DEF SS!Disks
  <2>2. SS!FileHasSaved' /\ SS!ConfigIsSomewhere' BY <1>2, <1>4, <2>1 DEF SS!FileHasSaved, SS!ConfigIsSomewhere
  <2> QED BY <1>2, <1>3, <1>4, <1>5, <2>1, <2>2, DownKeeps, StoreStays
<1>6. CASE s3' = [s3 EXCEPT !.step = "idle"] /\ s2' = [s2 EXCEPT !.main = s2.temp, !.temp = SS!Missing, !.unsynced = FALSE]
  <2>1. s2' \in SS!Disks /\ s2'.main = s2.temp /\ s2'.backup = s2.backup
    <3> DEFINE d == [s2 EXCEPT !.main = s2.temp]
               e == [d EXCEPT !.temp = SS!Missing]
    <3>1. d \in SS!Disks /\ d.main = s2.temp /\ d.backup = s2.backup BY <1>3 DEF SS!Disks
    <3>2. s2' = [e EXCEPT !.unsynced = FALSE] BY <1>3, <1>6 DEF SS!Disks
    <3> HIDE DEF d
    <3>3. e \in SS!Disks /\ e.main = s2.temp /\ e.backup = s2.backup BY <3>1, NothingIsSaved DEF SS!Disks
    <3> HIDE DEF e
    <3> QED BY <3>2, <3>3 DEF SS!Disks
  <2>2. SS!FileHasSaved' /\ SS!ConfigIsSomewhere' BY <1>2, <1>4, <2>1 DEF SS!FileHasSaved, SS!ConfigIsSomewhere
  <2>3. s3'.step = "idle" BY <1>3, <1>6, HostSteps
  <2>4. SS!SaveIsWhole' BY <1>4, <2>1, <2>3 DEF SS!SaveIsWhole
  <2> QED BY <1>2, <1>3, <1>6, <2>1, <2>2, <2>4, SavesKeep
<1> QED BY <1>5, <1>6 DEF SS!SaveMovesNew

LEMMA SaveFailsKeeps ==
  ASSUME SS!IInv, SS!SaveFails
  PROVE  SS!IInv'
<1>1. SS!TypeOK BY DEF SS!IInv
<1>2. UNCHANGED <<s2, s4, s5, s6>> /\ s3' = [s3 EXCEPT !.step = "idle"] BY DEF SS!SaveFails
<1>3. s2 \in SS!Disks /\ s3 \in SS!Hosts /\ s5 \in SS!Values BY <1>1, FileStates
<1>4. s3'.step = "idle" BY <1>2, <1>3, HostSteps
<1>5. SS!SaveIsWhole' BY <1>2, <1>4 DEF SS!IInv, SS!SaveIsWhole
<1>6. SS!FileHasSaved' /\ SS!ConfigIsSomewhere' BY <1>2 DEF SS!IInv, SS!FileHasSaved, SS!ConfigIsSomewhere
<1> QED BY <1>2, <1>3, <1>5, <1>6, SavesKeep

LEMMA EditKeeps ==
  ASSUME SS!IInv, SS!Edit
  PROVE  SS!IInv'
<1>1. SS!TypeOK BY DEF SS!IInv
<1>2. s3.step = "idle" /\ s2.main.kind = "file" /\ s5' = SS!Nothing /\ UNCHANGED <<s3, s6>> BY DEF SS!Edit
<1>3. s2 \in SS!Disks /\ s2.main \in SS!Files /\ s4 \in [SS!Options -> 0..1] BY <1>1, FileStates
<1>4. /\ s2' \in SS!Disks /\ s2'.main.kind = "file" /\ s4' \in [SS!Options -> 0..1]
      /\ s2'.temp = s2.temp /\ s2'.backup = s2.backup /\ s2'.unsynced = s2.unsynced
  <2>1. CASE \E o \in SS!Options, v \in 0..1 : s2' = [s2 EXCEPT !.main.reg[o] = v] /\ s4' = s4
    <3>1. PICK o \in SS!Options, v \in 0..1 : s2' = [s2 EXCEPT !.main.reg[o] = v] /\ s4' = s4 BY <2>1
    <3> DEFINE r == [s2.main.reg EXCEPT ![o] = v]
               f == [s2.main EXCEPT !.reg = r]
    <3>2. s2.main.reg \in SS!Values BY <1>1, FileStates
    <3>3. r \in SS!Values BY <3>2 DEF SS!Values
    <3>4. s2' = [s2 EXCEPT !.main = f] BY <3>1
    <3> HIDE DEF r
    <3>5. f \in SS!Files /\ f.kind = "file" BY <1>2, <1>3, <3>3 DEF SS!Files
    <3> HIDE DEF f
    <3> QED BY <1>3, <3>1, <3>4, <3>5 DEF SS!Disks
  <2>2. CASE \E o \in SS!Options : s4' = [s4 EXCEPT ![o] = 1 - s4[o]] /\ s2' = s2
    <3>1. PICK o \in SS!Options : s4' = [s4 EXCEPT ![o] = 1 - s4[o]] /\ s2' = s2 BY <2>2
    <3>2. s4[o] \in 0..1 /\ 1 - s4[o] \in 0..1 BY <1>3
    <3> QED BY <1>2, <1>3, <3>1, <3>2
  <2>3. CASE s2' = [s2 EXCEPT !.main.junk = TRUE] /\ s4' = s4
    <3> DEFINE f == [s2.main EXCEPT !.junk = TRUE]
    <3>1. s2' = [s2 EXCEPT !.main = f] BY <2>3
    <3>2. f \in SS!Files /\ f.kind = "file" BY <1>2, <1>3 DEF SS!Files
    <3> HIDE DEF f
    <3> QED BY <1>3, <2>3, <3>1, <3>2 DEF SS!Disks
  <2> QED BY <2>1, <2>2, <2>3 DEF SS!Edit
<1>5. s5' \in SS!Values /\ \A o \in SS!Options : s5'[o] = 0 BY <1>2, NothingIsSaved
<1>6. SS!TypeOK' BY <1>1, <1>2, <1>4, <1>5 DEF SS!TypeOK
<1>7. SS!SaveIsWhole' BY <1>2, <1>4 DEF SS!IInv, SS!SaveIsWhole
<1>8. SS!FileHasSaved' /\ SS!ConfigIsSomewhere' BY <1>4, <1>5 DEF SS!FileHasSaved, SS!ConfigIsSomewhere
<1>9. SS!UnchangedIsRead' BY <1>2, <1>5 DEF SS!IInv, SS!UnchangedIsRead
<1>10. SS!DroppedAreGone' /\ SS!PendingIsTrue' BY <1>2 DEF SS!IInv, SS!DroppedAreGone, SS!PendingIsTrue
<1> QED BY <1>2, <1>6, <1>7, <1>8, <1>9, <1>10, StoreStays DEF SS!IInv

\* The process ends at any place, or the power fails.
LEMMA CrashKeeps ==
  ASSUME SS!IInv, SS!Crash
  PROVE  SS!IInv'
<1>1. SS!TypeOK BY DEF SS!IInv
<1>2. s3' = SS!Down /\ UNCHANGED <<s4, s5>> BY DEF SS!Crash
<1>3. PICK power \in BOOLEAN :
        LET lost == power /\ s2.unsynced IN
        s2' = [s2 EXCEPT !.temp = IF lost /\ s2.temp.kind = "file" THEN SS!Partial ELSE s2.temp,
                         !.main = IF lost /\ s2.temp.kind = "missing" THEN SS!Partial ELSE s2.main,
                         !.unsynced = FALSE]
  BY <1>1, FileStates DEF SS!Crash, SS!Disks
<1> DEFINE lost == power /\ s2.unsynced
           f == IF lost /\ s2.temp.kind = "file" THEN SS!Partial ELSE s2.temp
           g == IF lost /\ s2.temp.kind = "missing" THEN SS!Partial ELSE s2.main
<1>4. s2 \in SS!Disks /\ s2.main \in SS!Files /\ s2.temp \in SS!Files /\ s5 \in SS!Values BY <1>1, FileStates
<1>5. /\ f \in SS!Files /\ g \in SS!Files /\ (g.kind = "file" => g = s2.main)
      /\ g = s2.main \/ (s2.unsynced /\ s2.temp.kind = "missing")
  BY <1>4, NothingIsSaved
<1>6. s2' = [s2 EXCEPT !.temp = f, !.main = g, !.unsynced = FALSE] BY <1>3
<1> HIDE DEF lost, f, g
<1>7. s2' \in SS!Disks /\ s2'.main = g /\ s2'.backup = s2.backup /\ ~s2'.unsynced
  <2> DEFINE d == [s2 EXCEPT !.temp = f]
             e == [d EXCEPT !.main = g]
  <2>1. d \in SS!Disks /\ d.backup = s2.backup BY <1>4, <1>5 DEF SS!Disks
  <2>2. s2' = [e EXCEPT !.unsynced = FALSE] BY <1>4, <1>6 DEF SS!Disks
  <2> HIDE DEF d
  <2>3. e \in SS!Disks /\ e.main = g /\ e.backup = s2.backup BY <1>5, <2>1 DEF SS!Disks
  <2> HIDE DEF e
  <2> QED BY <2>2, <2>3 DEF SS!Disks
<1>8. SS!FileHasSaved' BY <1>2, <1>5, <1>7 DEF SS!IInv, SS!FileHasSaved
<1>9. SS!ConfigIsSomewhere' BY <1>5, <1>7 DEF SS!IInv, SS!ConfigIsSomewhere, SS!SaveIsWhole
<1>10. s6' = [file |-> s6.file, mem |-> s6.file, rewrite |-> {}, stored |-> s6.stored, cut |-> s6.cut \/ s6.rewrite # {}]
  BY <1>1, FileStates DEF SS!Crash, SS!Loaded, SS!Stores
<1>11. s6' \in SS!Stores /\ SS!StoredIsThere' /\ SS!VariablesAreKept'
  <2>1. /\ s6.file \subseteq VariableNames /\ s6.stored \subseteq VariableNames /\ (s6.cut \/ s6.rewrite # {}) \in BOOLEAN
    BY <1>1, FileStates
  <2>2. s6' \in SS!Stores BY <1>10, <2>1 DEF SS!Stores
  <2>3. s6.cut \/ s6.stored \subseteq (IF s6.rewrite = {} THEN s6.file ELSE s6.rewrite) BY DEF SS!IInv, SS!StoredIsThere
  <2> QED BY <1>10, <2>2, <2>3 DEF SS!StoredIsThere, SS!VariablesAreKept
<1> QED BY <1>2, <1>4, <1>7, <1>8, <1>9, <1>11, DownKeeps

\* The file of the variables.
LEMMA StoreKeeps ==
  ASSUME SS!IInv, UNCHANGED <<s2, s3, s4, s5>>, s6' \in SS!Stores, SS!StoredIsThere', SS!VariablesAreKept'
  PROVE  SS!IInv'
<1>1. SS!TypeOK' BY DEF SS!IInv, SS!TypeOK
<1>2. SS!SaveIsWhole' /\ SS!FileHasSaved' BY DEF SS!IInv, SS!SaveIsWhole, SS!FileHasSaved
<1>3. SS!UnchangedIsRead' /\ SS!DroppedAreGone' BY DEF SS!IInv, SS!UnchangedIsRead, SS!DroppedAreGone
<1>4. SS!ConfigIsSomewhere' /\ SS!PendingIsTrue' BY DEF SS!IInv, SS!ConfigIsSomewhere, SS!PendingIsTrue
<1> QED BY <1>1, <1>2, <1>3, <1>4 DEF SS!IInv

LEMMA VariablesKeep ==
  ASSUME SS!IInv, SS!StoreOpens \/ SS!loadVariables \/ SS!StoreFails
  PROVE  SS!IInv'
<1>1. /\ s6 \in SS!Stores /\ s6.file \subseteq VariableNames /\ s6.mem \subseteq VariableNames /\ s6.rewrite \subseteq VariableNames
      /\ s6.stored \subseteq VariableNames /\ s6.cut \in BOOLEAN
  BY FileStates DEF SS!IInv
<1>2. UNCHANGED <<s2, s3, s4, s5>> BY DEF SS!StoreOpens, SS!loadVariables, SS!StoreFails
<1>3. /\ s6.cut \/ s6.stored \subseteq s6.mem
      /\ s6.cut \/ s6.stored \subseteq (IF s6.rewrite = {} THEN s6.file ELSE s6.rewrite)
  BY DEF SS!IInv, SS!StoredIsThere, SS!VariablesAreKept
<1>4. CASE SS!StoreOpens
  <2>1. PICK name \in VariableNames, new \in SUBSET VariableNames :
          new \in {s6.mem \cup {name}, s6.file \cup {name}} /\ s6.rewrite = {} /\ s6' = [s6 EXCEPT !.file = {}, !.rewrite = new]
    BY <1>1, <1>4 DEF SS!StoreOpens, SS!cmd_SAVE_VARIABLE, SS!save_variable
  <2>2. new \subseteq VariableNames /\ name \in new BY <1>1, <2>1
  <2>3. s6' = [file |-> {}, mem |-> s6.mem, rewrite |-> new, stored |-> s6.stored, cut |-> s6.cut]
    BY <1>1, <2>1 DEF SS!Stores
  <2>4. s6' \in SS!Stores BY <1>1, <2>2, <2>3 DEF SS!Stores
  <2>5. SS!StoredIsThere' /\ SS!VariablesAreKept'
    BY <1>3, <2>1, <2>2, <2>3 DEF SS!StoredIsThere, SS!VariablesAreKept
  <2> QED BY <1>2, <2>4, <2>5, StoreKeeps
<1>5. CASE SS!loadVariables
  <2>1. /\ s6.rewrite # {}
        /\ s6' = [file |-> s6.rewrite, mem |-> s6.rewrite, rewrite |-> {}, stored |-> s6.stored \cup s6.rewrite, cut |-> s6.cut]
    BY <1>1, <1>5 DEF SS!loadVariables, SS!Loaded, SS!Stores
  <2>2. s6' \in SS!Stores BY <1>1, <2>1 DEF SS!Stores
  <2>3. SS!StoredIsThere' /\ SS!VariablesAreKept' BY <1>3, <2>1 DEF SS!StoredIsThere, SS!VariablesAreKept
  <2> QED BY <1>2, <2>2, <2>3, StoreKeeps
<1>6. CASE SS!StoreFails
  <2>1. s6' = [file |-> s6.file, mem |-> s6.mem, rewrite |-> {}, stored |-> s6.stored, cut |-> TRUE]
    BY <1>1, <1>6 DEF SS!StoreFails, SS!Stores
  <2>2. s6' \in SS!Stores BY <1>1, <2>1 DEF SS!Stores
  <2>3. SS!StoredIsThere' /\ SS!VariablesAreKept' BY <2>1 DEF SS!StoredIsThere, SS!VariablesAreKept
  <2> QED BY <1>2, <2>2, <2>3, StoreKeeps
<1> QED BY <1>4, <1>5, <1>6

LEMMA FilesKeepIInv ==
  ASSUME SS!IInv, [SS!Next]_(SS!vars)
  PROVE  SS!IInv'
<1>1. CASE UNCHANGED SS!vars
  <2>1. UNCHANGED <<s2, s3, s4, s5, s6>> BY <1>1 DEF SS!vars
  <2> QED BY <2>1, StoreKeeps, StoreStays
<1>2. CASE SS!StoreOpens \/ SS!loadVariables \/ SS!StoreFails BY <1>2, VariablesKeep
<1> QED
  BY <1>1, <1>2, read_main_configKeeps, setKeeps, remove_sectionKeeps, EditKeeps, CrashKeeps, cmd_SAVE_CONFIGKeeps, SaveWritesKeeps,
     SaveMovesOldKeeps, SaveMovesNewKeeps, SaveFailsKeeps, Zenon DEF SS!Next

LEMMA FilesAreKept ==
  ASSUME SS!IInv
  PROVE  SS!ConfigIsSomewhere /\ SS!SavedIsRead /\ SS!PendingIsTrue /\ SS!VariablesAreKept
BY DEF SS!IInv, SS!UnchangedIsRead, SS!SavedIsRead

-----------------------------------------------------------------------------
(* The G-code position: s1 to s18 are the variables of GCodeMove in turn.  *)

GM == INSTANCE GCodeMove WITH
  Values <- CoordValues, Factors <- FlowFactors, Speeds <- FeedRates, MaxX <- AxisLimit, MaxE <- PullLimit,
  SmallE <- SmallPull, BigE <- BigPull, MaxCommands <- MoveCommands, last <- s1, base <- s2, homing <- s3,
  mode <- s4, factor <- s5, speed <- s6, speedFactor <- s7, saved <- s8, cmd <- s9, ext <- s10, extPos <- s11,
  hot <- s12, acc <- s13, accOn <- s14, ready <- s15, g <- s16, savedG <- s17, n <- s18

LEMMA Distributes == \A a, b, c \in Int : (a + b) * c = a * c + b * c
BY Z3

LEMMA ProductIsInt == \A a, b \in Int : a * b \in Int
BY Z3

LEMMA ProductIsPositive == \A a, b \in Nat \ {0} : a * b \in Nat \ {0}
BY Z3

LEMMA DivOfProduct ==
  ASSUME NEW a \in Int, NEW b \in Nat \ {0}
  PROVE  (a * b) \div b = a
<1>1. a * b \in Int BY ProductIsInt
<1>2. \A q \in Int : q * b <= a * b /\ a * b < q * b + b => q = a BY Z3
<1> QED BY <1>1, <1>2, Z3

LEMMA WholeQuotient ==
  ASSUME NEW a \in Int, NEW b \in Nat \ {0}, a % b = 0
  PROVE  a \div b \in Int /\ (a \div b) * b = a
BY Z3

LEMMA PointIs ==
  \A x, e \in Int : GM!At(x, e) \in GM!Points /\ GM!At(x, e).X = x /\ GM!At(x, e).E = e
BY DEF GM!At, GM!Points, GM!Axes

LEMMA IsPoint ==
  ASSUME NEW p \in GM!Points
  PROVE  p.X \in Int /\ p.E \in Int
BY DEF GM!Points, GM!Axes

LEMMA MovedPoint ==
  ASSUME NEW p \in GM!Points, NEW v \in Int
  PROVE  /\ [p EXCEPT !.X = v] \in GM!Points /\ [p EXCEPT !.X = v].X = v /\ [p EXCEPT !.X = v].E = p.E
         /\ [p EXCEPT !.E = v] \in GM!Points /\ [p EXCEPT !.E = v].E = v /\ [p EXCEPT !.E = v].X = p.X
BY DEF GM!Points, GM!Axes

LEMMA MovedAlong ==
  ASSUME NEW p \in GM!Points, NEW a \in GM!Axes, NEW v \in Int
  PROVE  /\ [p EXCEPT ![a] = v] \in GM!Points
         /\ a = "X" => [p EXCEPT ![a] = v].X = v /\ [p EXCEPT ![a] = v].E = p.E
         /\ a = "E" => [p EXCEPT ![a] = v].E = v /\ [p EXCEPT ![a] = v].X = p.X
BY DEF GM!Points, GM!Axes

LEMMA GCodeStates ==
  ASSUME GM!GCodeMoveAssumption, GM!IInv
  PROVE  /\ s1 \in GM!Points /\ s2 \in GM!Points /\ s3 \in GM!Points /\ s9 \in GM!Points /\ s4 \in GM!Modes
         /\ s5 \in FlowFactors /\ s7 \in FlowFactors /\ s5 \in Nat \ {0} /\ s7 \in Nat \ {0} /\ s6 \in Nat \ {0}
         /\ s13 \in Int /\ s10 \in Extruders /\ s11 \in [Extruders -> Int] /\ s12 \in BOOLEAN /\ s15 \in BOOLEAN
         /\ s14 \in {"never", "on", "off"} /\ s16 \in GM!Beliefs
         /\ s1.X \in Int /\ s1.E \in Int /\ s2.X \in Int /\ s2.E \in Int /\ s3.X \in Int /\ s3.E \in Int
         /\ s9.X \in Int /\ s9.E \in Int /\ s4.coord \in BOOLEAN /\ s4.extrude \in BOOLEAN
         /\ s16.X \in Int /\ s16.E \in Int /\ s16.F \in Nat \ {0}
         /\ s14 = "never" => s1 = s9 /\ s1.X - s2.X = s16.X /\ s1.E - s2.E = s16.E * s5
         /\ s6 = s16.F * s7
<1>1. GM!TypeOK /\ s16 \in GM!Beliefs BY DEF GM!IInv
<1>2. s1 \in GM!Points /\ s2 \in GM!Points /\ s3 \in GM!Points /\ s9 \in GM!Points BY <1>1 DEF GM!TypeOK
<1>3. /\ s4 \in GM!Modes /\ s5 \in FlowFactors /\ s7 \in FlowFactors /\ s6 \in Nat \ {0} /\ s13 \in Int
      /\ s10 \in Extruders /\ s11 \in [Extruders -> Int] /\ s12 \in BOOLEAN /\ s15 \in BOOLEAN
      /\ s14 \in {"never", "on", "off"}
  BY <1>1 DEF GM!TypeOK
<1>4. s4.coord \in BOOLEAN /\ s4.extrude \in BOOLEAN BY <1>3 DEF GM!Modes
<1>5. s16.X \in Int /\ s16.E \in Int /\ s16.F \in Nat \ {0} BY <1>1 DEF GM!Beliefs
<1>6. s5 \in Nat \ {0} /\ s7 \in Nat \ {0} BY <1>3 DEF GM!GCodeMoveAssumption
<1> QED BY <1>1, <1>2, <1>3, <1>4, <1>5, <1>6, IsPoint DEF GM!IInv, GM!PositionIsBelieved, GM!SpeedIsBelieved

\* What toolhead.move does with a position.
LEMMA HeadMoveIs ==
  ASSUME GM!GCodeMoveAssumption, GM!IInv, NEW to \in GM!Points
  PROVE  LET m == GM!HeadMove(to)
         IN  /\ m.pos \in GM!Points /\ m.acc \in Int /\ m.refused \in BOOLEAN
             /\ s14 = "never" => m.pos = IF m.refused THEN s9 ELSE to
<1>1. /\ s9 \in GM!Points /\ s13 \in Int /\ s9.E \in Int /\ s9.X \in Int /\ s14 \in {"never", "on", "off"}
      /\ s12 \in BOOLEAN
  BY GCodeStates
<1>2. to.E \in Int /\ to.X \in Int BY IsPoint
<1>3. \A q \in GM!Points : GM!Refused(s9, q) \in BOOLEAN BY DEF GM!Refused
<1>4. \A q \in GM!Points, left \in Int :
        LET m == GM!Actual(q, left)
        IN  /\ m.pos \in GM!Points /\ m.acc = left /\ m.refused \in BOOLEAN
            /\ m.pos = IF m.refused THEN s9 ELSE q
  BY <1>1, <1>3 DEF GM!Actual
<1>5. CASE s14 # "on"
  <2>1. GM!HeadMove(to) = GM!Actual(to, IF GM!Refused(s9, to) THEN s13 ELSE 0) BY <1>5 DEF GM!HeadMove
  <2> QED BY <2>1, <1>1, <1>4
<1>6. CASE s14 = "on"
  <2> DEFINE de == to.E - s9.E
             sum == IF GM!Abs(de) < SmallPull THEN s13 + de ELSE s13
  <2>1. de \in Int /\ sum \in Int BY <1>1, <1>2
  <2>2. \/ GM!HeadMove(to) = GM!Actual(to, 0)
        \/ GM!HeadMove(to) = [refused |-> FALSE, pos |-> s9, acc |-> sum]
        \/ GM!HeadMove(to) = GM!Actual([to EXCEPT !.E = @ + sum], 0)
    BY <1>6 DEF GM!HeadMove
  <2>3. to.E + sum \in Int BY <1>2, <2>1
  <2> HIDE DEF sum
  <2>4. [to EXCEPT !.E = to.E + sum] \in GM!Points BY <2>3, MovedPoint
  <2>5. CASE GM!HeadMove(to) = GM!Actual(to, 0) BY <2>5, <1>4, <1>6
  <2>6. CASE GM!HeadMove(to) = [refused |-> FALSE, pos |-> s9, acc |-> sum] BY <2>6, <1>1, <1>6, <2>1
  <2>7. CASE GM!HeadMove(to) = GM!Actual([to EXCEPT !.E = @ + sum], 0) BY <2>7, <2>4, <1>4, <1>6
  <2> QED BY <2>2, <2>5, <2>6, <2>7
<1> QED BY <1>5, <1>6

\* The position after a move, or after its error, is where the tool head was sent.
LEMMA LastAfterIs ==
  ASSUME GM!GCodeMoveAssumption, GM!IInv, NEW to \in GM!Points
  PROVE  LET m == GM!HeadMove(to)
         IN  /\ GM!LastAfter(m, to) \in GM!Points
             /\ s14 = "never" => GM!LastAfter(m, to) = m.pos
BY HeadMoveIs DEF GM!LastAfter

-----------------------------------------------------------------------------
\* The parameters of a command.
Parameters(p) ==
  /\ "X" \in DOMAIN p => p.X \in Int
  /\ "E" \in DOMAIN p => p.E \in Int
  /\ "F" \in DOMAIN p => p.F \in Nat \ {0}

LEMMA ParamsAre ==
  ASSUME GM!GCodeMoveAssumption, NEW p \in GM!Params
  PROVE  Parameters(p) /\ "F" \notin DOMAIN p /\ \A f \in FeedRates : Parameters(GM!WithSpeed(p, f))
<1>1. PICK s \in SUBSET {"X", "E"} : p \in [s -> CoordValues] BY DEF GM!Params, GM!Axes
<1>2. CoordValues \subseteq Int /\ FeedRates \subseteq Nat \ {0} BY DEF GM!GCodeMoveAssumption
<1>3. \A a \in {"X", "E"} : a \in DOMAIN p => p[a] \in Int BY <1>1, <1>2
<1>4. "F" \notin DOMAIN p BY <1>1
<1>5. ASSUME NEW f \in FeedRates
      PROVE  Parameters(GM!WithSpeed(p, f))
  <2> DEFINE q == GM!WithSpeed(p, f)
  <2>1. q = [a \in DOMAIN p \cup {"F"} |-> IF a = "F" THEN f ELSE p[a]] BY DEF GM!WithSpeed
  <2>2. \A a \in {"X", "E"} : a \in DOMAIN q => a \in DOMAIN p /\ q[a] = p[a] BY <2>1
  <2>3. q["F"] = f BY <2>1
  <2> QED BY <1>2, <1>3, <2>2, <2>3 DEF Parameters
<1> QED BY <1>3, <1>4, <1>5 DEF Parameters

\* What a command asks for, and what its author counts on.
LEMMA AskedIs ==
  ASSUME GM!GCodeMoveAssumption, GM!IInv, NEW p, Parameters(p)
  PROVE  /\ GM!Asked(p) \in GM!Points
         /\ \A b \in BOOLEAN : GM!Believed(p, "X", b) \in Int /\ GM!Believed(p, "E", b) \in Int
         /\ s14 = "never" =>
              /\ GM!Asked(p).X - s2.X = GM!Believed(p, "X", s4.coord)
              /\ GM!Asked(p).E - s2.E = GM!Believed(p, "E", s4.coord /\ s4.extrude) * s5
<1>1. /\ s1.X \in Int /\ s1.E \in Int /\ s2.X \in Int /\ s2.E \in Int /\ s5 \in Nat \ {0} /\ s16.X \in Int /\ s16.E \in Int
      /\ s4.coord \in BOOLEAN /\ s4.extrude \in BOOLEAN
      /\ s14 = "never" => s1.X - s2.X = s16.X /\ s1.E - s2.E = s16.E * s5
  BY GCodeStates
<1> DEFINE x == IF "X" \in DOMAIN p THEN IF s4.coord THEN p.X + s2.X ELSE s1.X + p.X ELSE s1.X
           e == IF "E" \in DOMAIN p
                THEN IF s4.coord /\ s4.extrude THEN p.E * s5 + s2.E ELSE s1.E + p.E * s5
                ELSE s1.E
<1>2. GM!Asked(p) = GM!At(x, e) BY DEF GM!Asked
<1>3. "X" \in DOMAIN p => p.X \in Int BY DEF Parameters
<1>4. "E" \in DOMAIN p => p.E \in Int /\ p.E * s5 \in Int BY <1>1, ProductIsInt DEF Parameters
<1>5. x \in Int /\ e \in Int BY <1>1, <1>3, <1>4
<1>6. \A b \in BOOLEAN : GM!Believed(p, "X", b) \in Int /\ GM!Believed(p, "E", b) \in Int
  BY <1>1, <1>3, <1>4 DEF GM!Believed
<1>7. s14 = "never" => x - s2.X = GM!Believed(p, "X", s4.coord)
  BY <1>1, <1>3 DEF GM!Believed
<1>8. ASSUME s14 = "never"
      PROVE  e - s2.E = GM!Believed(p, "E", s4.coord /\ s4.extrude) * s5
  <2>1. s1.E - s2.E = s16.E * s5 /\ s16.E * s5 \in Int BY <1>1, <1>8, ProductIsInt
  <2>2. CASE "E" \notin DOMAIN p BY <1>1, <2>1, <2>2 DEF GM!Believed
  <2>3. CASE "E" \in DOMAIN p /\ s4.coord /\ s4.extrude
    <3>1. GM!Believed(p, "E", s4.coord /\ s4.extrude) = p.E BY <2>3 DEF GM!Believed
    <3>2. e = p.E * s5 + s2.E BY <2>3
    <3> QED BY <1>1, <1>4, <2>3, <3>1, <3>2
  <2>4. CASE "E" \in DOMAIN p /\ ~(s4.coord /\ s4.extrude)
    <3>1. GM!Believed(p, "E", s4.coord /\ s4.extrude) = s16.E + p.E BY <2>4 DEF GM!Believed
    <3>2. e = s1.E + p.E * s5 BY <2>4
    <3>3. (s16.E + p.E) * s5 = s16.E * s5 + p.E * s5 BY <1>1, <1>4, <2>4, Distributes
    <3> QED BY <1>1, <1>4, <2>1, <2>4, <3>1, <3>2, <3>3
  <2> QED BY <2>2, <2>3, <2>4
<1> HIDE DEF x, e
<1> QED BY <1>2, <1>5, <1>6, <1>7, <1>8, PointIs

\* The parts of the invariant, put together.
LEMMA GCodeTogether ==
  ASSUME /\ s1' \in GM!Points /\ s2' \in GM!Points /\ s3' \in GM!Points /\ s9' \in GM!Points /\ s4' \in GM!Modes
         /\ s5' \in FlowFactors /\ s7' \in FlowFactors /\ s6' \in Nat \ {0}
         /\ s13' \in Int /\ s10' \in Extruders /\ s11' \in [Extruders -> Int] /\ s12' \in BOOLEAN /\ s15' \in BOOLEAN
         /\ s14' \in {"never", "on", "off"} /\ s16' \in GM!Beliefs /\ (s8' = GM!None <=> s17' = GM!None)
         /\ s14' = "never" => s1' = s9' /\ s1'.X - s2'.X = s16'.X /\ s1'.E - s2'.E = s16'.E * s5'
         /\ s6' = s16'.F * s7'
         /\ GM!SavedIsBelieved'
  PROVE  GM!IInv'
BY DEF GM!IInv, GM!TypeOK, GM!PositionIsBelieved, GM!SpeedIsBelieved

LEMMA SavedStays ==
  ASSUME GM!IInv, UNCHANGED <<s8, s17>>, s14' = "never" => s14 = "never"
  PROVE  GM!SavedIsBelieved' /\ (s8' = GM!None <=> s17' = GM!None)
<1>1. GM!SavedIsBelieved /\ (s8 = GM!None <=> s17 = GM!None) BY DEF GM!IInv, GM!TypeOK
<1> QED BY <1>1 DEF GM!SavedIsBelieved

LEMMA G1Keeps ==
  ASSUME GM!GCodeMoveAssumption, GM!IInv, NEW p, Parameters(p), GM!G1(p)
  PROVE  GM!IInv'
<1> DEFINE m == GM!HeadMove(GM!Asked(p))
<1>1. GM!Asked(p) \in GM!Points BY AskedIs
<1>2. /\ m.pos \in GM!Points /\ m.acc \in Int /\ m.refused \in BOOLEAN
      /\ s14 = "never" => m.pos = IF m.refused THEN s9 ELSE GM!Asked(p)
      /\ GM!LastAfter(m, GM!Asked(p)) \in GM!Points
      /\ s14 = "never" => GM!LastAfter(m, GM!Asked(p)) = m.pos
  BY <1>1, HeadMoveIs, LastAfterIs
<1> DEFINE bx == GM!Believed(p, "X", s4.coord)
           be == GM!Believed(p, "E", s4.coord /\ s4.extrude)
<1>3. /\ s1' = GM!LastAfter(m, GM!Asked(p)) /\ s9' = m.pos /\ s13' = m.acc
      /\ s6' = IF "F" \in DOMAIN p THEN p.F * s7 ELSE s6
      /\ s16' = [X |-> IF m.refused THEN s16.X ELSE bx, E |-> IF m.refused THEN s16.E ELSE be,
                 F |-> IF "F" \in DOMAIN p THEN p.F ELSE s16.F]
      /\ UNCHANGED <<s2, s3, s4, s5, s7, s8, s10, s11, s12, s14, s15, s17>>
  BY DEF GM!G1
<1>4. bx \in Int /\ be \in Int /\ (s14 = "never" => GM!Asked(p).X - s2.X = bx /\ GM!Asked(p).E - s2.E = be * s5)
  <2>1. s4.coord \in BOOLEAN /\ (s4.coord /\ s4.extrude) \in BOOLEAN BY GCodeStates
  <2> QED BY <2>1, AskedIs
<1> HIDE DEF m, bx, be
<1>5. /\ s6 \in Nat \ {0} /\ s7 \in Nat \ {0} /\ s16.X \in Int /\ s16.E \in Int /\ s16.F \in Nat \ {0}
      /\ s6 = s16.F * s7
      /\ s14 = "never" => s1 = s9 /\ s1.X - s2.X = s16.X /\ s1.E - s2.E = s16.E * s5
  BY GCodeStates
<1>6. "F" \in DOMAIN p => p.F \in Nat \ {0} BY DEF Parameters
<1>7. s16' \in GM!Beliefs BY <1>3, <1>4, <1>5, <1>6 DEF GM!Beliefs
<1>8. s16'.X = (IF m.refused THEN s16.X ELSE bx) /\ s16'.E = (IF m.refused THEN s16.E ELSE be) BY <1>3
<1>9. s6' \in Nat \ {0} /\ s6' = s16'.F * s7' BY <1>3, <1>5, <1>6, ProductIsPositive
<1>10. s14' = "never" => s1' = s9' /\ s1'.X - s2'.X = s16'.X /\ s1'.E - s2'.E = s16'.E * s5'
  BY <1>2, <1>3, <1>4, <1>5, <1>8
<1>11. GM!SavedIsBelieved' /\ (s8' = GM!None <=> s17' = GM!None) BY <1>3, SavedStays
<1>12. /\ s1' \in GM!Points /\ s2' \in GM!Points /\ s3' \in GM!Points /\ s9' \in GM!Points /\ s4' \in GM!Modes
       /\ s5' \in FlowFactors /\ s7' \in FlowFactors /\ s13' \in Int /\ s10' \in Extruders
       /\ s11' \in [Extruders -> Int] /\ s12' \in BOOLEAN /\ s15' \in BOOLEAN /\ s14' \in {"never", "on", "off"}
  BY <1>2, <1>3, GCodeStates
<1> QED BY <1>7, <1>9, <1>10, <1>11, <1>12, GCodeTogether

\* The rest of the state, where an action changes none of it.
LEMMA HeadStays ==
  ASSUME GM!GCodeMoveAssumption, GM!IInv, UNCHANGED <<s10, s11, s12, s14, s15>>
  PROVE  /\ s10' \in Extruders /\ s11' \in [Extruders -> Int] /\ s12' \in BOOLEAN /\ s15' \in BOOLEAN
         /\ s14' \in {"never", "on", "off"}
BY GCodeStates

LEMMA G1BadSpeedKeeps ==
  ASSUME GM!GCodeMoveAssumption, GM!IInv, NEW p, Parameters(p), GM!G1BadSpeed(p)
  PROVE  GM!IInv'
<1>1. s1' = s9 /\ UNCHANGED <<s2, s3, s4, s5, s6, s7, s8, s9, s10, s11, s12, s13, s14, s15, s16, s17>>
  BY DEF GM!G1BadSpeed, GM!LastAfter, GM!head
<1>2. GM!SavedIsBelieved' /\ (s8' = GM!None <=> s17' = GM!None) BY <1>1, SavedStays
<1> QED BY <1>1, <1>2, GCodeStates, GCodeTogether

LEMMA SwitchesKeep ==
  ASSUME GM!GCodeMoveAssumption, GM!IInv,
         \/ \E a, b \in BOOLEAN : GM!SetMode([coord |-> a, extrude |-> b])
         \/ GM!SetAccumulator \/ GM!Heat \/ GM!HandleShutdown
  PROVE  GM!IInv'
<1>1. /\ s4' \in GM!Modes /\ s12' \in BOOLEAN /\ s15' \in BOOLEAN /\ s14' \in {"never", "on", "off"}
      /\ s14' = "never" => s14 = "never"
      /\ UNCHANGED <<s1, s2, s3, s5, s6, s7, s8, s9, s10, s11, s13, s16, s17>>
  <2>1. CASE \E a, b \in BOOLEAN : GM!SetMode([coord |-> a, extrude |-> b])
    BY <2>1, GCodeStates DEF GM!SetMode, GM!Modes, GM!head
  <2>2. CASE GM!SetAccumulator BY <2>2, GCodeStates DEF GM!SetAccumulator, GM!coords, GM!head
  <2>3. CASE GM!Heat \/ GM!HandleShutdown BY <2>3, GCodeStates DEF GM!Heat, GM!HandleShutdown, GM!coords, GM!head
  <2> QED BY <2>1, <2>2, <2>3
<1>2. GM!SavedIsBelieved' /\ (s8' = GM!None <=> s17' = GM!None) BY <1>1, SavedStays
<1> QED BY <1>1, <1>2, GCodeStates, GCodeTogether

LEMMA G92Keeps ==
  ASSUME GM!GCodeMoveAssumption, GM!IInv, NEW p, Parameters(p), GM!G92(p)
  PROVE  GM!IInv'
<1> DEFINE gx == IF DOMAIN p = {} THEN 0 ELSE GM!Believed(p, "X", TRUE)
           ge == IF DOMAIN p = {} THEN 0 ELSE GM!Believed(p, "E", TRUE)
           bx == IF "X" \in DOMAIN p THEN s1.X - p.X ELSE s2.X
           be == IF "E" \in DOMAIN p THEN s1.E - p.E * s5 ELSE s2.E
<1>1. /\ s2' = IF DOMAIN p = {} THEN s1 ELSE GM!At(bx, be)
      /\ s16' = [X |-> gx, E |-> ge, F |-> s16.F]
      /\ UNCHANGED <<s1, s3, s4, s5, s6, s7, s8, s9, s10, s11, s12, s13, s14, s15, s17>>
  BY DEF GM!G92, GM!head
<1>2. /\ s1 \in GM!Points /\ s1.X \in Int /\ s1.E \in Int /\ s2.X \in Int /\ s2.E \in Int /\ s5 \in Nat \ {0}
      /\ s16.X \in Int /\ s16.E \in Int /\ s16.F \in Nat \ {0}
      /\ s14 = "never" => s1.X - s2.X = s16.X /\ s1.E - s2.E = s16.E * s5
  BY GCodeStates
<1>3. "X" \in DOMAIN p => p.X \in Int BY DEF Parameters
<1>4. "E" \in DOMAIN p => p.E \in Int /\ p.E * s5 \in Int BY <1>2, ProductIsInt DEF Parameters
<1>5. /\ gx = IF DOMAIN p = {} THEN 0 ELSE IF "X" \in DOMAIN p THEN p.X ELSE s16.X
      /\ ge = IF DOMAIN p = {} THEN 0 ELSE IF "E" \in DOMAIN p THEN p.E ELSE s16.E
  BY DEF GM!Believed
<1> HIDE DEF gx, ge
<1>6. gx \in Int /\ ge \in Int /\ bx \in Int /\ be \in Int BY <1>2, <1>3, <1>4, <1>5
<1>7. s2' \in GM!Points
  <2> HIDE DEF bx, be
  <2> QED BY <1>1, <1>2, <1>6, PointIs
<1>8. s14 = "never" => s1.X - s2'.X = gx /\ s1.E - s2'.E = ge * s5
  <2>1. CASE DOMAIN p = {}
    <3>1. 0 * s5 = 0 BY <1>2
    <3>2. gx = 0 /\ ge = 0 /\ s2' = s1 BY <1>1, <1>5, <2>1
    <3> QED BY <1>2, <3>1, <3>2
  <2>2. CASE DOMAIN p # {}
    <3>1. s2'.X = bx /\ s2'.E = be
      <4> HIDE DEF bx, be
      <4> QED BY <1>1, <1>6, <2>2, PointIs
    <3>2. s14 = "never" => s1.X - bx = gx BY <1>2, <1>3, <1>5, <2>2
    <3>3. s14 = "never" => s1.E - be = ge * s5
      <4>1. CASE "E" \in DOMAIN p
        <5>1. be = s1.E - p.E * s5 /\ ge = p.E BY <1>5, <2>2, <4>1
        <5> HIDE DEF be
        <5> QED BY <1>2, <1>4, <4>1, <5>1
      <4>2. CASE "E" \notin DOMAIN p
        <5>1. be = s2.E /\ ge = s16.E BY <1>5, <2>2, <4>2
        <5> QED BY <1>2, <5>1
      <4> QED BY <4>1, <4>2
    <3> QED BY <3>1, <3>2, <3>3
  <2> QED BY <2>1, <2>2
<1>9. s16' \in GM!Beliefs /\ s16'.X = gx /\ s16'.E = ge /\ s16'.F = s16.F BY <1>1, <1>2, <1>6 DEF GM!Beliefs
<1>10. GM!SavedIsBelieved' /\ (s8' = GM!None <=> s17' = GM!None) BY <1>1, SavedStays
<1>11. s6' \in Nat \ {0} /\ s6' = s16'.F * s7' BY <1>1, <1>9, GCodeStates
<1>12. s14' = "never" => s1' = s9' /\ s1'.X - s2'.X = s16'.X /\ s1'.E - s2'.E = s16'.E * s5'
  BY <1>1, <1>8, <1>9, GCodeStates
<1>13. /\ s1' \in GM!Points /\ s3' \in GM!Points /\ s9' \in GM!Points /\ s4' \in GM!Modes /\ s5' \in FlowFactors
       /\ s7' \in FlowFactors /\ s13' \in Int
  BY <1>1, GCodeStates
<1> QED BY <1>1, <1>7, <1>9, <1>10, <1>11, <1>12, <1>13, HeadStays, GCodeTogether

LEMMA FactorsKeep ==
  ASSUME GM!GCodeMoveAssumption, GM!IInv, NEW f \in FlowFactors, GM!M220(f) \/ GM!M221(f)
  PROVE  GM!IInv'
<1>1. /\ s6 \in Nat \ {0} /\ s7 \in Nat \ {0} /\ s16.F \in Nat \ {0} /\ s6 = s16.F * s7 /\ s5 \in Nat \ {0}
      /\ s1.E \in Int /\ s2.E \in Int /\ s2 \in GM!Points /\ s16.E \in Int
      /\ s14 = "never" => s1.E - s2.E = s16.E * s5
  BY GCodeStates
<1>2. f \in Nat \ {0} BY DEF GM!GCodeMoveAssumption
<1>3. UNCHANGED <<s1, s3, s4, s8, s9, s10, s11, s12, s13, s14, s15, s16, s17>> BY DEF GM!M220, GM!M221, GM!head
<1>4. GM!SavedIsBelieved' /\ (s8' = GM!None <=> s17' = GM!None) BY <1>3, SavedStays
<1>5. CASE GM!M220(f)
  <2>1. s6' = (s6 \div s7) * f /\ s7' = f /\ UNCHANGED <<s2, s5>> BY <1>5 DEF GM!M220, GM!FactoredSpeed
  <2>2. s6 \div s7 = s16.F BY <1>1, DivOfProduct
  <2>3. s6' = s16.F * f /\ s6' \in Nat \ {0} BY <1>1, <1>2, <2>1, <2>2, ProductIsPositive
  <2> QED BY <1>3, <1>4, <2>1, <2>3, GCodeStates, GCodeTogether
<1>6. CASE GM!M221(f)
  <2> DEFINE b == s1.E - ((s1.E - s2.E) \div s5) * f
  <2>1. s5' = f /\ s2' = [s2 EXCEPT !.E = b] /\ UNCHANGED <<s6, s7>> BY <1>6 DEF GM!M221, GM!BaseForFactor
  <2>2. b \in Int
    <3>1. (s1.E - s2.E) \div s5 \in Int BY <1>1
    <3> QED BY <1>1, <1>2, <3>1, ProductIsInt
  <2>3. s14 = "never" => s1.E - b = s16.E * f
    <3>1. s14 = "never" => (s1.E - s2.E) \div s5 = s16.E BY <1>1, DivOfProduct
    <3>2. s16.E * f \in Int BY <1>1, <1>2, ProductIsInt
    <3> QED BY <1>1, <3>1, <3>2
  <2> HIDE DEF b
  <2>4. s2' \in GM!Points /\ s2'.E = b /\ s2'.X = s2.X BY <1>1, <2>1, <2>2, MovedPoint
  <2> QED BY <1>3, <1>4, <2>1, <2>3, <2>4, GCodeStates, GCodeTogether
<1> QED BY <1>5, <1>6

LEMMA OffsetKeeps ==
  ASSUME GM!GCodeMoveAssumption, GM!IInv, NEW axis \in GM!Axes, NEW v \in Int, NEW adjust \in BOOLEAN, NEW move \in BOOLEAN,
         GM!SetOffset(axis, v, adjust, move)
  PROVE  GM!IInv'
<1> DEFINE offset == IF adjust THEN s3[axis] + v ELSE v
<1>1. PICK delta \in Int : delta = offset - s3[axis]
  BY GCodeStates DEF GM!Axes
<1>2. offset \in Int BY GCodeStates DEF GM!Axes
<1>3. PICK to : to = [s1 EXCEPT ![axis] = @ + delta] OBVIOUS
<1>4. PICK m : m = GM!HeadMove(to) OBVIOUS
<1>5. /\ axis = "X" \/ delta % s5 = 0
      /\ s2' = [s2 EXCEPT ![axis] = @ + delta] /\ s3' = [s3 EXCEPT ![axis] = offset]
      /\ s1' = IF move THEN GM!LastAfter(m, to) ELSE s1
      /\ s9' = IF move THEN m.pos ELSE s9
      /\ s13' = IF move THEN m.acc ELSE s13
      /\ s16' = IF move /\ ~m.refused THEN s16
                ELSE [s16 EXCEPT ![axis] = @ - IF axis = "X" THEN delta ELSE delta \div s5]
      /\ UNCHANGED <<s4, s5, s6, s7, s8, s10, s11, s12, s14, s15, s17>>
  BY <1>1, <1>3, <1>4 DEF GM!SetOffset
<1> HIDE DEF offset
<1>6. /\ s1 \in GM!Points /\ s2 \in GM!Points /\ s3 \in GM!Points /\ s9 \in GM!Points /\ s1.X \in Int /\ s1.E \in Int
      /\ s2.X \in Int /\ s2.E \in Int /\ s3.X \in Int /\ s3.E \in Int /\ s13 \in Int /\ s5 \in Nat \ {0} /\ s16 \in GM!Beliefs
      /\ s16.X \in Int /\ s16.E \in Int /\ s16.F \in Nat \ {0} /\ s6 \in Nat \ {0} /\ s6 = s16.F * s7
      /\ s14 = "never" => s1 = s9 /\ s1.X - s2.X = s16.X /\ s1.E - s2.E = s16.E * s5
  BY GCodeStates
<1>7. GM!SavedIsBelieved' /\ (s8' = GM!None <=> s17' = GM!None) BY <1>5, SavedStays
<1>8. /\ to \in GM!Points /\ s2' \in GM!Points /\ s3' \in GM!Points
      /\ axis = "X" => s2'.X = s2.X + delta /\ s2'.E = s2.E /\ to.X = s1.X + delta /\ to.E = s1.E
      /\ axis = "E" => s2'.E = s2.E + delta /\ s2'.X = s2.X /\ to.E = s1.E + delta /\ to.X = s1.X
  <2>1. s1[axis] + delta \in Int /\ s2[axis] + delta \in Int BY <1>6 DEF GM!Axes
  <2>2. /\ to = [s1 EXCEPT ![axis] = s1[axis] + delta] /\ s2' = [s2 EXCEPT ![axis] = s2[axis] + delta]
        /\ s3' = [s3 EXCEPT ![axis] = offset]
    BY <1>3, <1>5
  <2>3. to \in GM!Points /\ s2' \in GM!Points /\ s3' \in GM!Points BY <2>1, <2>2, <1>2, <1>6, MovedAlong
  <2>4. CASE axis = "X"
    <3>1. s1[axis] = s1.X /\ s2[axis] = s2.X BY <2>4
    <3> QED BY <2>1, <2>2, <2>3, <2>4, <3>1, <1>6, MovedAlong
  <2>5. CASE axis = "E"
    <3>1. s1[axis] = s1.E /\ s2[axis] = s2.E BY <2>5
    <3> QED BY <2>1, <2>2, <2>3, <2>5, <3>1, <1>6, MovedAlong
  <2> QED BY <2>3, <2>4, <2>5 DEF GM!Axes
<1>9. /\ m.pos \in GM!Points /\ m.acc \in Int /\ m.refused \in BOOLEAN
      /\ s14 = "never" => m.pos = IF m.refused THEN s9 ELSE to
      /\ GM!LastAfter(m, to) \in GM!Points
      /\ s14 = "never" => GM!LastAfter(m, to) = m.pos
  BY <1>4, <1>8, HeadMoveIs, LastAfterIs
<1>10. s1' \in GM!Points /\ s9' \in GM!Points /\ s13' \in Int BY <1>5, <1>6, <1>9
<1>11. s14 = "never" => s1' = s9' /\ s1' = IF move /\ ~m.refused THEN to ELSE s1
  BY <1>5, <1>6, <1>9
<1>12. PICK off \in Int : off = IF move /\ ~m.refused THEN 0 ELSE IF axis = "X" THEN delta ELSE delta \div s5
  BY <1>1, <1>6
<1>13. /\ s16' \in GM!Beliefs /\ s16'.F = s16.F
       /\ axis = "X" => s16'.X = s16.X - off /\ s16'.E = s16.E
       /\ axis = "E" => s16'.E = s16.E - off /\ s16'.X = s16.X
  <2>1. CASE move /\ ~m.refused BY <2>1, <1>5, <1>6, <1>12
  <2>2. CASE ~(move /\ ~m.refused)
    <3>1. CASE axis = "X"
      <4>1. s16' = [s16 EXCEPT !.X = s16.X - off] BY <1>5, <1>12, <2>2, <3>1
      <4> QED BY <4>1, <3>1, <1>6 DEF GM!Beliefs
    <3>2. CASE axis = "E"
      <4>1. s16' = [s16 EXCEPT !.E = s16.E - off] BY <1>5, <1>12, <2>2, <3>2
      <4> QED BY <4>1, <3>2, <1>6 DEF GM!Beliefs
    <3> QED BY <3>1, <3>2 DEF GM!Axes
  <2> QED BY <2>1, <2>2
<1>14. ASSUME s14 = "never"
       PROVE  s1'.X - s2'.X = s16'.X /\ s1'.E - s2'.E = s16'.E * s5
  <2>1. CASE axis = "X"
    <3>1. /\ s2'.X = s2.X + delta /\ s2'.E = s2.E /\ to.X = s1.X + delta /\ to.E = s1.E
      BY <2>1, <1>8
    <3>2. s16'.X = s16.X - off /\ s16'.E = s16.E BY <2>1, <1>13
    <3>3. off = IF move /\ ~m.refused THEN 0 ELSE delta BY <2>1, <1>12
    <3>4. s1'.E = s1.E /\ s1'.X = IF move /\ ~m.refused THEN s1.X + delta ELSE s1.X BY <1>11, <1>14, <3>1
    <3>5. s1'.E - s2'.E = s16'.E * s5 BY <3>1, <3>2, <3>4, <1>6, <1>14
    <3>6. s1'.X - s2'.X = s16'.X BY <3>1, <3>2, <3>3, <3>4, <1>1, <1>6, <1>14
    <3> QED BY <3>5, <3>6
  <2>2. CASE axis = "E"
    <3>1. /\ s2'.E = s2.E + delta /\ s2'.X = s2.X /\ to.E = s1.E + delta /\ to.X = s1.X
      BY <2>2, <1>8
    <3>2. s16'.E = s16.E - off /\ s16'.X = s16.X BY <2>2, <1>13
    <3>3. s1'.X = s1.X /\ s1'.E = IF move /\ ~m.refused THEN s1.E + delta ELSE s1.E BY <1>11, <1>14, <3>1
    <3>4. s1'.X - s2'.X = s16'.X BY <3>1, <3>2, <3>3, <1>6, <1>14
    <3>5. off * s5 = IF move /\ ~m.refused THEN 0 ELSE delta
      <4>1. axis # "X" BY <2>2
      <4>2. delta % s5 = 0 BY <4>1, <1>5
      <4>3. (delta \div s5) * s5 = delta /\ 0 * s5 = 0 BY <4>2, <1>1, <1>6, WholeQuotient
      <4> QED BY <4>1, <4>3, <1>12
    <3>6. (s16.E - off) * s5 = s16.E * s5 - off * s5
      <4>1. -off \in Int /\ s16.E - off = s16.E + (-off) BY <1>6, <1>12
      <4>2. (s16.E + (-off)) * s5 = s16.E * s5 + (-off) * s5 BY <4>1, <1>6, Distributes
      <4>3. (-off) * s5 + off * s5 = 0 * s5 BY <4>1, <1>6, <1>12, Distributes
      <4>4. off * s5 \in Int /\ (-off) * s5 \in Int /\ s16.E * s5 \in Int BY <4>1, <1>6, <1>12, ProductIsInt
      <4> QED BY <4>1, <4>2, <4>3, <4>4, <1>6
    <3>7. s16.E * s5 \in Int BY <1>6, ProductIsInt
    <3>8. s1'.E - s2'.E = s16'.E * s5 BY <3>1, <3>2, <3>3, <3>5, <3>6, <3>7, <1>1, <1>6, <1>14
    <3> QED BY <3>4, <3>8
  <2> QED BY <2>1, <2>2 DEF GM!Axes
<1>15. /\ s4' \in GM!Modes /\ s5' \in FlowFactors /\ s7' \in FlowFactors /\ s6' \in Nat \ {0} /\ s6' = s16'.F * s7'
  BY <1>5, <1>13, GCodeStates
<1>16. s14' = "never" => s1' = s9' /\ s1'.X - s2'.X = s16'.X /\ s1'.E - s2'.E = s16'.E * s5'
  BY <1>5, <1>11, <1>14
<1> QED BY <1>5, <1>7, <1>8, <1>10, <1>13, <1>15, <1>16, HeadStays, GCodeTogether

LEMMA SaveStateKeeps ==
  ASSUME GM!GCodeMoveAssumption, GM!IInv, GM!SaveState
  PROVE  GM!IInv'
<1>1. /\ s17' = s16 /\ s8' = [base |-> s2, last |-> s1, homing |-> s3, mode |-> s4, factor |-> s5, speed |-> s6,
                             speedFactor |-> s7]
      /\ UNCHANGED <<s1, s2, s3, s4, s5, s6, s7, s9, s10, s11, s12, s13, s14, s15, s16>>
  BY DEF GM!SaveState, GM!coords, GM!head
<1>2. s8' # GM!None /\ s17' # GM!None
  <2>1. "none" \in DOMAIN GM!None BY DEF GM!None
  <2>2. "none" \notin DOMAIN s8' BY <1>1
  <2>3. s16 \in GM!Beliefs BY GCodeStates
  <2>4. "none" \notin DOMAIN s16 BY <2>3 DEF GM!Beliefs
  <2> QED BY <1>1, <2>1, <2>2, <2>4
<1>3. /\ s8'.base = s2 /\ s8'.last = s1 /\ s8'.homing = s3 /\ s8'.mode = s4 /\ s8'.factor = s5 /\ s8'.speed = s6
      /\ s8'.speedFactor = s7
  BY <1>1
<1>4. s8' \in GM!SavedStates BY <1>1, GCodeStates DEF GM!SavedStates
<1>5. GM!SavedIsBelieved' BY <1>1, <1>3, <1>4, GCodeStates DEF GM!SavedIsBelieved
<1> QED BY <1>1, <1>2, <1>5, GCodeStates, GCodeTogether

LEMMA RestoreStateKeeps ==
  ASSUME GM!GCodeMoveAssumption, GM!IInv, NEW move \in BOOLEAN, GM!RestoreState(move)
  PROVE  GM!IInv'
<1>1. PICK to : to = GM!At(s8.last.X, s1.E) OBVIOUS
<1>2. PICK m : m = GM!HeadMove(to) OBVIOUS
<1>3. /\ s8 # GM!None /\ s4' = s8.mode /\ s3' = s8.homing /\ s5' = s8.factor /\ s6' = s8.speed /\ s7' = s8.speedFactor
      /\ s2' = GM!At(s8.base.X, s8.base.E + (s1.E - s8.last.E))
      /\ s1' = IF move THEN GM!LastAfter(m, to) ELSE s1
      /\ s9' = IF move THEN m.pos ELSE s9
      /\ s13' = IF move THEN m.acc ELSE s13
      /\ s16' = [s17 EXCEPT !.X = IF move /\ ~m.refused THEN s17.X ELSE s1.X - s8.base.X]
      /\ UNCHANGED <<s8, s10, s11, s12, s14, s15, s17>>
  BY <1>1, <1>2 DEF GM!RestoreState, GM!RestoredE
<1>4. /\ s8 \in GM!SavedStates /\ s17 \in GM!Beliefs /\ s8.speed = s17.F * s8.speedFactor
      /\ s14 = "never" => s8.last.X - s8.base.X = s17.X /\ s8.last.E - s8.base.E = s17.E * s8.factor
  BY <1>3 DEF GM!IInv, GM!SavedIsBelieved
<1>5. /\ s8.base \in GM!Points /\ s8.last \in GM!Points /\ s8.homing \in GM!Points /\ s8.mode \in GM!Modes
      /\ s8.factor \in FlowFactors /\ s8.speed \in Nat \ {0} /\ s8.speedFactor \in FlowFactors
      /\ s17.X \in Int /\ s17.E \in Int /\ s17.F \in Nat \ {0}
  BY <1>4 DEF GM!SavedStates, GM!Beliefs
<1>6. s8.base.X \in Int /\ s8.base.E \in Int /\ s8.last.X \in Int /\ s8.last.E \in Int BY <1>5, IsPoint
<1>7. /\ s1 \in GM!Points /\ s9 \in GM!Points /\ s1.X \in Int /\ s1.E \in Int /\ s13 \in Int /\ (s14 = "never" => s1 = s9)
  BY GCodeStates
<1>8. to \in GM!Points /\ to.X = s8.last.X /\ to.E = s1.E BY <1>1, <1>6, <1>7, PointIs
<1>9. /\ m.pos \in GM!Points /\ m.acc \in Int /\ m.refused \in BOOLEAN
      /\ s14 = "never" => m.pos = IF m.refused THEN s9 ELSE to
      /\ GM!LastAfter(m, to) \in GM!Points
      /\ s14 = "never" => GM!LastAfter(m, to) = m.pos
  BY <1>2, <1>8, HeadMoveIs, LastAfterIs
<1>10. s1' \in GM!Points /\ s9' \in GM!Points /\ s13' \in Int BY <1>3, <1>7, <1>9
<1>11. s2' \in GM!Points /\ s2'.X = s8.base.X /\ s2'.E = s8.base.E + (s1.E - s8.last.E)
  BY <1>3, <1>6, <1>7, PointIs
<1>12. PICK x \in Int : x = IF move /\ ~m.refused THEN s17.X ELSE s1.X - s8.base.X BY <1>5, <1>6, <1>7
<1>13. s16' = [s17 EXCEPT !.X = x] BY <1>3, <1>12
<1>14. s16' \in GM!Beliefs /\ s16'.X = x /\ s16'.E = s17.E /\ s16'.F = s17.F BY <1>4, <1>13 DEF GM!Beliefs
<1>15. s14 = "never" => s1' = s9' /\ s1'.E = s1.E /\ s1'.X = IF move /\ ~m.refused THEN s8.last.X ELSE s1.X
  BY <1>3, <1>7, <1>8, <1>9
<1>16. s14 = "never" => s1'.X - s2'.X = s16'.X BY <1>4, <1>11, <1>12, <1>14, <1>15
<1>17. s14 = "never" => s1'.E - s2'.E = s16'.E * s5'
  <2>1. s17.E * s8.factor = s16'.E * s5' BY <1>3, <1>14
  <2> QED BY <1>4, <1>6, <1>7, <1>11, <1>15, <2>1
<1>18. GM!SavedIsBelieved' /\ (s8' = GM!None <=> s17' = GM!None) BY <1>3, SavedStays
<1>19. s6' = s16'.F * s7' BY <1>3, <1>4, <1>14
<1> QED BY <1>3, <1>5, <1>10, <1>11, <1>14, <1>15, <1>16, <1>17, <1>18, <1>19, HeadStays, GCodeTogether

LEMMA BesideKeeps ==
  ASSUME GM!GCodeMoveAssumption, GM!IInv, NEW x \in Int, GM!HomeRailsEnd(x) \/ GM!ManualMove(x)
  PROVE  GM!IInv'
<1>1. PICK to : to = [s9 EXCEPT !.X = x] OBVIOUS
<1>2. /\ s2 \in GM!Points /\ s9 \in GM!Points /\ s2.X \in Int /\ s3.X \in Int /\ s13 \in Int /\ s16 \in GM!Beliefs
      /\ s14 = "never" => s1 = s9 /\ s1.E - s2.E = s16.E * s5
  BY GCodeStates
<1>3. to \in GM!Points /\ to.X = x /\ to.E = s9.E BY <1>1, <1>2, MovedPoint
<1>4. UNCHANGED <<s3, s4, s5, s6, s7, s8, s10, s11, s12, s14, s15, s17>> BY DEF GM!HomeRailsEnd, GM!ManualMove
<1>5. GM!SavedIsBelieved' /\ (s8' = GM!None <=> s17' = GM!None) BY <1>4, SavedStays
<1>6. /\ s1' \in GM!Points /\ s1' = s9' /\ s2' \in GM!Points /\ s2'.E = s2.E /\ s2'.X \in Int /\ s13' \in Int
      /\ s14 = "never" => s1'.E = s9.E
      /\ s16' = [s16 EXCEPT !.X = s1'.X - s2'.X]
  <2>1. CASE GM!HomeRailsEnd(x)
    <3>1. /\ s9' = to /\ s1' = to /\ s2' = [s2 EXCEPT !.X = s3.X] /\ s16' = [s16 EXCEPT !.X = x - s3.X] /\ s13' = s13
      BY <1>1, <2>1 DEF GM!HomeRailsEnd
    <3>2. s2' \in GM!Points /\ s2'.X = s3.X /\ s2'.E = s2.E BY <3>1, <1>2, MovedPoint
    <3> QED BY <3>1, <3>2, <1>2, <1>3
  <2>2. CASE GM!ManualMove(x)
    <3>1. PICK m : m = GM!HeadMove(to) OBVIOUS
    <3>2. /\ ~m.refused /\ s9' = m.pos /\ s13' = m.acc /\ s1' = m.pos /\ s2' = s2
          /\ s16' = [s16 EXCEPT !.X = m.pos.X - s2.X]
      BY <1>1, <2>2, <3>1 DEF GM!ManualMove, GM!AfterManual
    <3>3. m.pos \in GM!Points /\ m.acc \in Int /\ (s14 = "never" => m.pos = IF m.refused THEN s9 ELSE to)
      BY <1>3, <3>1, HeadMoveIs
    <3> QED BY <3>2, <3>3, <1>2, <1>3
  <2> QED BY <2>1, <2>2
<1>7. s1'.X - s2'.X \in Int BY <1>6, IsPoint
<1>8. s16' \in GM!Beliefs /\ s16'.X = s1'.X - s2'.X /\ s16'.E = s16.E /\ s16'.F = s16.F
  BY <1>2, <1>6, <1>7 DEF GM!Beliefs
<1>9. s14' = "never" => s1'.E - s2'.E = s16'.E * s5' BY <1>2, <1>4, <1>6, <1>8
<1>10. s6' \in Nat \ {0} /\ s6' = s16'.F * s7' BY <1>4, <1>8, GCodeStates
<1>11. s3' \in GM!Points /\ s4' \in GM!Modes /\ s5' \in FlowFactors /\ s7' \in FlowFactors BY <1>4, GCodeStates
<1> QED BY <1>4, <1>5, <1>6, <1>8, <1>9, <1>10, <1>11, HeadStays, GCodeTogether

LEMMA ActivateExtruderKeeps ==
  ASSUME GM!GCodeMoveAssumption, GM!IInv, NEW x \in Extruders, GM!ActivateExtruder(x)
  PROVE  GM!IInv'
<1>1. /\ s10' = x /\ s11' = [s11 EXCEPT ![s10] = s9.E] /\ s9' = [s9 EXCEPT !.E = s11[x]] /\ s1' = s9' /\ s5' = 1
      /\ s2' = [s2 EXCEPT !.E = s1'.E] /\ s16' = [s16 EXCEPT !.E = 0]
      /\ UNCHANGED <<s3, s4, s6, s7, s8, s13, s12, s14, s15, s17>>
  BY DEF GM!ActivateExtruder
<1>2. /\ s9 \in GM!Points /\ s2 \in GM!Points /\ s9.E \in Int /\ s9.X \in Int /\ s2.X \in Int /\ s16 \in GM!Beliefs
      /\ s10 \in Extruders /\ s11 \in [Extruders -> Int]
      /\ s14 = "never" => s1 = s9 /\ s1.X - s2.X = s16.X
  BY GCodeStates
<1>3. s11[x] \in Int /\ s11' \in [Extruders -> Int] BY <1>1, <1>2
<1>4. s9' \in GM!Points /\ s9'.E = s11[x] /\ s9'.X = s9.X BY <1>1, <1>2, <1>3, MovedPoint
<1>5. s1'.E = s11[x] BY <1>1, <1>4
<1>6. s2' \in GM!Points /\ s2'.E = s11[x] /\ s2'.X = s2.X BY <1>1, <1>2, <1>3, <1>5, MovedPoint
<1>7. s16' \in GM!Beliefs /\ s16'.X = s16.X /\ s16'.E = 0 /\ s16'.F = s16.F BY <1>1, <1>2 DEF GM!Beliefs
<1>8. s14' = "never" => s1'.X - s2'.X = s16'.X /\ s1'.E - s2'.E = s16'.E * s5'
  BY <1>1, <1>2, <1>3, <1>4, <1>5, <1>6, <1>7
<1>9. s5' \in FlowFactors BY <1>1 DEF GM!GCodeMoveAssumption
<1>10. GM!SavedIsBelieved' /\ (s8' = GM!None <=> s17' = GM!None) BY <1>1, SavedStays
<1>11. /\ s3' \in GM!Points /\ s4' \in GM!Modes /\ s7' \in FlowFactors /\ s6' \in Nat \ {0} /\ s6' = s16'.F * s7'
       /\ s13' \in Int /\ s12' \in BOOLEAN /\ s15' \in BOOLEAN /\ s14' \in {"never", "on", "off"}
  BY <1>1, <1>7, GCodeStates
<1> QED BY <1>1, <1>3, <1>4, <1>6, <1>7, <1>8, <1>9, <1>10, <1>11, GCodeTogether

LEMMA GCodeStarts ==
  ASSUME GM!GCodeMoveAssumption, GM!Init
  PROVE  GM!IInv
<1>1. PICK f \in FeedRates : s6 = f /\ s16 = [X |-> 0, E |-> 0, F |-> f] BY DEF GM!Init
<1>2. f \in Nat \ {0} /\ 1 \in FlowFactors BY DEF GM!GCodeMoveAssumption
<1>3. GM!At(0, 0) \in GM!Points /\ GM!At(0, 0).X = 0 /\ GM!At(0, 0).E = 0 BY PointIs
<1>4. /\ s1 = GM!At(0, 0) /\ s2 = GM!At(0, 0) /\ s3 = GM!At(0, 0) /\ s9 = GM!At(0, 0)
      /\ s4 = [coord |-> TRUE, extrude |-> TRUE] /\ s5 = 1 /\ s7 = 1 /\ s8 = GM!None /\ s17 = GM!None
      /\ s10 \in Extruders /\ s11 = [x \in Extruders |-> 0]
      /\ s12 = FALSE /\ s13 = 0 /\ s14 = "never" /\ s15 = TRUE
  BY DEF GM!Init
<1>5. s16 \in GM!Beliefs /\ s16.X = 0 /\ s16.E = 0 /\ s16.F = f BY <1>1, <1>2 DEF GM!Beliefs
<1>6. GM!TypeOK
  <2>1. s4 \in GM!Modes /\ s11 \in [Extruders -> Int] BY <1>4 DEF GM!Modes
  <2> QED BY <1>1, <1>2, <1>3, <1>4, <2>1 DEF GM!TypeOK
<1> QED BY <1>1, <1>2, <1>3, <1>4, <1>5, <1>6
     DEF GM!IInv, GM!PositionIsBelieved, GM!SpeedIsBelieved, GM!SavedIsBelieved

\* Whatever the commands, their parameters and the limits.
LEMMA GCodeKeepsIInv ==
  ASSUME GM!GCodeMoveAssumption, GM!IInv, [GM!Next]_(GM!vars)
  PROVE  GM!IInv'
<1>1. CASE \E p \in GM!Params : GM!G1(p) \/ GM!G1BadSpeed(p) \/ GM!G92(p) \/ \E f \in FeedRates : GM!G1(GM!WithSpeed(p, f))
  BY <1>1, ParamsAre, G1Keeps, G1BadSpeedKeeps, G92Keeps
<1>2. CASE \/ \E a, b \in BOOLEAN : GM!SetMode([coord |-> a, extrude |-> b])
           \/ GM!SetAccumulator \/ GM!Heat \/ GM!HandleShutdown
  BY <1>2, SwitchesKeep
<1>3. CASE \E f \in FlowFactors : GM!M220(f) \/ GM!M221(f) BY <1>3, FactorsKeep
<1>4. CASE \E a \in GM!Axes, v \in CoordValues, adjust, move \in BOOLEAN : GM!SetOffset(a, v, adjust, move)
  BY <1>4, OffsetKeeps DEF GM!GCodeMoveAssumption
<1>5. CASE GM!SaveState \/ \E move \in BOOLEAN : GM!RestoreState(move) BY <1>5, SaveStateKeeps, RestoreStateKeeps
<1>6. CASE \E x \in CoordValues : GM!HomeRailsEnd(x) \/ GM!ManualMove(x) BY <1>6, BesideKeeps DEF GM!GCodeMoveAssumption
<1>7. CASE \E x \in Extruders : GM!ActivateExtruder(x) BY <1>7, ActivateExtruderKeeps
<1>8. CASE UNCHANGED GM!vars
  <2>1. UNCHANGED <<s1, s2, s3, s4, s5, s6, s7, s8, s9, s10, s11, s12, s13, s14, s15, s16, s17>>
    BY <1>8 DEF GM!vars, GM!coords, GM!head
  <2>2. GM!SavedIsBelieved' /\ (s8' = GM!None <=> s17' = GM!None) BY <2>1, SavedStays
  <2> QED BY <2>1, <2>2, GCodeStates, GCodeTogether
<1> QED BY <1>1, <1>2, <1>3, <1>4, <1>5, <1>6, <1>7, <1>8 DEF GM!Next

LEMMA GCodeIsKnown ==
  ASSUME GM!IInv
  PROVE  GM!TypeOK /\ GM!InSync /\ GM!PositionIsBelieved /\ GM!SpeedIsBelieved
BY DEF GM!IInv, GM!InSync

-----------------------------------------------------------------------------
(* The run: the part that is examined takes its steps, the others do not   *)
(* move.                                                                   *)

ASSUME PrinterAssumption ==
  /\ HeatersAssumption
  /\ AS!ApiServerAssumption
  /\ IT!IdleTimeoutAssumption
  /\ GM!GCodeMoveAssumption
  /\ EO!ExcludeObjectAssumption
  /\ MP!ManualProbeAssumption

PrinterInit ==
  /\ Init
  /\ \/ part = "heaters" /\ Spare(0)
     \/ /\ kind = (CHOOSE k \in Kinds : TRUE) /\ ~withBed
        /\ \/ part = "files" /\ SS!Init /\ Spare(7)
           \/ part = "api" /\ AS!Init /\ Spare(14)
           \/ part = "idle" /\ IT!Init /\ Spare(9)
           \/ part = "gcode" /\ GM!Init /\ Spare(18)
           \/ part = "objects" /\ EO!Init /\ Spare(10)
           \/ part = "probing" /\ MP!Init /\ Spare(2)

PrinterNext ==
  \/ Takes("heaters", 0, Next)
  \/ Takes("files", 7, SS!Next /\ UNCHANGED vars)
  \/ Takes("api", 14, AS!Next /\ UNCHANGED vars)
  \/ Takes("idle", 9, IT!Next /\ UNCHANGED vars)
  \/ Takes("gcode", 18, GM!Next /\ UNCHANGED vars)
  \/ Takes("objects", 10, EO!Next /\ UNCHANGED vars)
  \/ Takes("probing", 2, MP!Next /\ UNCHANGED vars)

PrinterSpec == PrinterInit /\ [][PrinterNext]_all

-----------------------------------------------------------------------------
\* Heaters (heaters.py, verify_heater.py): the PWM is renewed in time, a heater that fails is found, and one that
\* was switched off by a check stays off but for a calibration.
HeatersAreWatched == part = "heaters" => TypeOK /\ RefreshedInTime /\ FaultIsFound /\ StaysOff

\* The G-code position (gcode_move.py) is where the head was sent and what the author of the G-code counts on;
\* excluded objects (exclude_object.py) leave no trace in it.
PositionIsKnown ==
  /\ part = "gcode" => GM!TypeOK /\ GM!InSync /\ GM!PositionIsBelieved /\ GM!SpeedIsBelieved
  /\ part = "objects" => EO!HeadIsWhereAsked /\ EO!FilamentIsPrimed

\* Files: whatever fails or is cut off, a configuration exists and what was saved is read.
SavedIsKept == part = "files" => SS!ConfigIsSomewhere /\ SS!SavedIsRead /\ SS!PendingIsTrue /\ SS!VariablesAreKept

\* Clients of the API see the present state, and a printer that is left alone goes idle.
ClientsAreCurrent ==
  /\ part = "api" => AS!TypeOK /\ AS!ViewIsCurrent /\ AS!SubscribersAreServed
  /\ part = "idle" => IT!NotForgotten /\ IT!MovingIsPrinting /\ IT!DelayedIsArmed

\* Manual probing and the calibrations built on it: one owner of the commands, adjustments that level, heaters
\* that go off.
CalibrationsAreClean == part = "probing" => MP!TypeOK /\ MP!CommandsHaveOwners /\ MP!AppliedIsLevel /\ MP!HeatersGoOff

-----------------------------------------------------------------------------
(* A step of the run is a step of the heaters or leaves them alone.        *)

LEMMA HeatersStepAlone ==
  ASSUME [PrinterNext]_all
  PROVE  part' = part /\ (part = "heaters" => [Next]_vars)
<1>1. CASE Takes("heaters", 0, Next) BY <1>1 DEF Takes
<1>2. CASE UNCHANGED all BY <1>2 DEF all
<1>3. CASE \E p \in {"files", "api", "idle", "gcode", "objects"} : part = p /\ part' = p
  BY <1>3
<1> QED BY <1>1, <1>2, <1>3 DEF PrinterNext, Takes

\* The heaters keep their inductive invariant in any behaviour of the run.
THEOREM HeatersInvariant == PrinterSpec => [](part = "heaters" => IInv)
<1>1. PrinterInit => (part = "heaters" => IInv) BY PrinterAssumption, HeaterStarts DEF PrinterInit
<1>2. (part = "heaters" => IInv) /\ [PrinterNext]_all => (part = "heaters" => IInv)'
  BY PrinterAssumption, HeatersStepAlone, HeaterKeepsIInv
<1> QED BY <1>1, <1>2, PTL DEF PrinterSpec

\* Only a command, a calibration or its end sets a target, and the end sets none.
LEMMA OffStays ==
  ASSUME IInv, StaysOff, [Next]_vars
  PROVE  StaysOff'
<1>1. tune \in TunesAre BY DEF IInv
<1>2. ASSUME NEW t \in 0..Hot, NEW b \in BOOLEAN, temperature_callback(t, b) PROVE StaysOff'
  <2>1. CASE tune.on
    <3>1. tune'.on BY <1>1, <1>2, <2>1 DEF temperature_callback, AutoTuneUpdate, TunesAre
    <3> QED BY <3>1 DEF StaysOff
  <2>2. CASE ~tune.on BY <1>2, <2>2, Zenon DEF temperature_callback, AlteredTarget, StaysOff
  <2> QED BY <2>1, <2>2
<1>3. CASE Tick BY <1>3, Zenon DEF Tick, StaysOff
<1>4. CASE WaitEnds BY <1>4, Zenon DEF WaitEnds, Restored, StaysOff
<1>5. CASE abort_waits BY <1>5, Zenon DEF abort_waits, control, StaysOff
<1>6. CASE ChamberOff BY <1>6, Zenon DEF ChamberOff, Off, StaysOff
<1>7. CASE CLOSE_CHAMBER_DEBUG \/ SensorChanges \/ BedChanges \/ handle_shutdown
  BY <1>7, Zenon DEF CLOSE_CHAMBER_DEBUG, SensorChanges, BedChanges, handle_shutdown, control, StaysOff
<1>8. CASE \E b \in BOOLEAN : check_event(b) BY <1>8, Zenon DEF check_event, Fault, Off, control, StaysOff
<1>9. CASE \E b \in BOOLEAN : \E t \in Targets : PID_CALIBRATE(t) \/ set_temperature(t, b)
  BY <1>9, Zenon DEF PID_CALIBRATE, set_temperature, StaysOff
<1>10. CASE UNCHANGED vars BY <1>10, Zenon DEF vars, control, StaysOff
<1> QED BY <1>2, <1>3, <1>4, <1>5, <1>6, <1>7, <1>8, <1>9, <1>10, Zenon DEF Next

\* A heater that is on and whose sensor reports is renewed in time, one whose reading does not rise is found, and one that
\* was switched off stays off but for a calibration, in any behaviour of the run.
THEOREM HeatersAreSafe == PrinterSpec => []HeatersAreWatched
<1>1. (part = "heaters" => IInv /\ StaysOff) => HeatersAreWatched
  BY PrinterAssumption, HeaterIsSafe DEF HeatersAreWatched
<1>2. PrinterInit => (part = "heaters" => StaysOff) BY DEF PrinterInit, Init, StaysOff
<1>3. (part = "heaters" => IInv) /\ (part = "heaters" => StaysOff) /\ [PrinterNext]_all
        => (part = "heaters" => StaysOff)'
  BY HeatersStepAlone, OffStays
<1> QED BY <1>1, <1>2, <1>3, HeatersInvariant, PTL DEF PrinterSpec

-----------------------------------------------------------------------------
(* The run, whose part is not the heaters.                                 *)

LEMMA PartsStepAlone ==
  ASSUME [PrinterNext]_all
  PROVE  /\ part' = part
         /\ part = "idle" => [IT!Next]_(IT!vars)
         /\ part = "api" => [AS!Next]_(AS!vars)
         /\ part = "files" => [SS!Next]_(SS!vars)
         /\ part = "gcode" => [GM!Next]_(GM!vars)
         /\ part = "objects" => [EO!Next]_(EO!vars)
         /\ part = "probing" => [MP!Next]_(MP!vars)
<1>1. CASE Takes("idle", 9, IT!Next /\ UNCHANGED vars) BY <1>1 DEF Takes
<1>2. CASE Takes("api", 14, AS!Next /\ UNCHANGED vars) BY <1>2 DEF Takes
<1>3. CASE Takes("files", 7, SS!Next /\ UNCHANGED vars) BY <1>3 DEF Takes
<1>4. CASE Takes("gcode", 18, GM!Next /\ UNCHANGED vars) BY <1>4 DEF Takes
<1>5. CASE Takes("objects", 10, EO!Next /\ UNCHANGED vars) BY <1>5 DEF Takes
<1>6. CASE Takes("probing", 2, MP!Next /\ UNCHANGED vars) BY <1>6 DEF Takes
<1>7. CASE UNCHANGED all
  <2>1. UNCHANGED <<part, s1, s2, s3, s4, s5, s6, s7, s8, s9, s10, s11, s12, s13, s14, s15, s16, s17, s18>>
    BY <1>7 DEF all, slots
  <2> QED BY <2>1 DEF IT!vars, AS!vars, AS!server, AS!conn, SS!vars, GM!vars, GM!coords, GM!head, EO!vars, MP!vars
<1>8. CASE part = "heaters" /\ part' = "heaters" BY <1>8
<1> QED BY <1>1, <1>2, <1>3, <1>4, <1>5, <1>6, <1>7, <1>8 DEF PrinterNext, Takes

\* The idle timeout keeps its inductive invariant in any behaviour of the run, whatever the timeouts and the times.
THEOREM IdleInvariant == PrinterSpec => [](part = "idle" => IT!IInv)
<1>1. PrinterInit => (part = "idle" => IT!IInv) BY PrinterAssumption, IdleStarts DEF PrinterInit, Init
<1>2. (part = "idle" => IT!IInv) /\ [PrinterNext]_all => (part = "idle" => IT!IInv)'
  BY PrinterAssumption, PartsStepAlone, IdleKeepsIInv
<1> QED BY <1>1, <1>2, PTL DEF PrinterSpec

\* The API server keeps its inductive invariant in any behaviour of the run, whatever the clients, objects and values.
THEOREM ApiInvariant == PrinterSpec => [](part = "api" => AS!IInv)
<1>1. PrinterInit => (part = "api" => AS!IInv) BY PrinterAssumption, ApiStarts DEF PrinterInit, Init
<1>2. (part = "api" => AS!IInv) /\ [PrinterNext]_all => (part = "api" => AS!IInv)'
  BY PrinterAssumption, PartsStepAlone, ApiKeepsIInv
<1> QED BY <1>1, <1>2, PTL DEF PrinterSpec

\* A subscriber that has read all it was sent knows what the last query found, and is served again; a printer that is
\* left alone is not forgotten, and one that moves is printing: in any behaviour of the run.
THEOREM ClientsAreAlwaysCurrent == PrinterSpec => []ClientsAreCurrent
<1>1. (part = "api" => AS!IInv) /\ (part = "idle" => IT!IInv) => ClientsAreCurrent
  BY DEF ClientsAreCurrent, AS!IInv, IT!IInv
<1> QED BY <1>1, IdleInvariant, ApiInvariant, PTL

\* The files keep their inductive invariant in any behaviour of the run, whatever the sections, options and variables,
\* and however many sets, saves, edits and faults there are.
THEOREM FilesInvariant == PrinterSpec => [](part = "files" => SS!IInv)
<1>1. PrinterInit => (part = "files" => SS!IInv) BY FilesStart DEF PrinterInit
<1>2. (part = "files" => SS!IInv) /\ [PrinterNext]_all => (part = "files" => SS!IInv)'
  BY PartsStepAlone, FilesKeepIInv
<1> QED BY <1>1, <1>2, PTL DEF PrinterSpec

\* The configuration is always found in one of its files, what was saved is what is read, what waits to be saved is
\* marked, and a variable that was stored is kept unless the power was cut in the middle: in any behaviour of the run.
THEOREM FilesAreAlwaysKept == PrinterSpec => []SavedIsKept
<1>1. (part = "files" => SS!IInv) => SavedIsKept BY FilesAreKept DEF SavedIsKept
<1> QED BY <1>1, FilesInvariant, PTL

\* The G-code position keeps its inductive invariant in any behaviour of the run, whatever the commands and the limits.
THEOREM GCodeInvariant == PrinterSpec => [](part = "gcode" => GM!IInv)
<1>1. PrinterInit => (part = "gcode" => GM!IInv) BY PrinterAssumption, GCodeStarts DEF PrinterInit
<1>2. (part = "gcode" => GM!IInv) /\ [PrinterNext]_all => (part = "gcode" => GM!IInv)'
  BY PrinterAssumption, PartsStepAlone, GCodeKeepsIInv
<1> QED BY <1>1, <1>2, PTL DEF PrinterSpec

\* So does the transform that skips excluded objects, whatever the objects, the moves and the extrusions that pass first.
THEOREM ObjectsInvariant == PrinterSpec => [](part = "objects" => EO!IInv)
<1>1. PrinterInit => (part = "objects" => EO!IInv) BY PrinterAssumption, ObjectsStart DEF PrinterInit
<1>2. (part = "objects" => EO!IInv) /\ [PrinterNext]_all => (part = "objects" => EO!IInv)'
  BY PrinterAssumption, PartsStepAlone, ObjectsKeepIInv
<1> QED BY <1>1, <1>2, PTL DEF PrinterSpec

\* The head is where the G-code sent it, its coordinates and speed mean what the author counts on, and an excluded object
\* leaves neither an offset nor a filament that is retracted too far: in any behaviour of the run.
THEOREM PositionIsAlwaysKnown == PrinterSpec => []PositionIsKnown
<1>1. (part = "gcode" => GM!IInv) /\ (part = "objects" => EO!IInv) => PositionIsKnown
  BY PrinterAssumption, GCodeIsKnown, ObjectsLeaveNoTrace DEF PositionIsKnown
<1> QED BY <1>1, GCodeInvariant, ObjectsInvariant, PTL

\* The state that the calibration tools share keeps its inductive invariant in any behaviour of the run, whatever the
\* points, screws, heights, retries and temperatures, and wherever a move of a command fails.
THEOREM ProbingInvariant == PrinterSpec => [](part = "probing" => MP!IInv)
<1>1. PrinterInit => (part = "probing" => MP!IInv) BY PrinterAssumption, ProbeStartsSound DEF PrinterInit
<1>2. (part = "probing" => MP!IInv) /\ [PrinterNext]_all => (part = "probing" => MP!IInv)'
  BY PrinterAssumption, PartsStepAlone, ProbeKeepsIInv
<1> QED BY <1>1, <1>2, PTL DEF PrinterSpec

\* Who waits for a person has the commands that answer it and nobody else has them, a tilt that counts as applied was
\* measured to be level, and the heaters of the drift calibration go off with it: in any behaviour of the run.
THEOREM CalibrationsAreAlwaysClean == PrinterSpec => []CalibrationsAreClean
<1>1. (part = "probing" => MP!IInv) => CalibrationsAreClean BY PrinterAssumption, ProbeIsClean DEF CalibrationsAreClean
<1> QED BY <1>1, ProbingInvariant, PTL

=============================================================================
