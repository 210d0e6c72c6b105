-------------------------------- MODULE MCMachine ----------------------------
(***************************************************************************)
(* The motion of the head, from the tool head to the steps, and the        *)
(* devices around it, part by part.                                        *)
(***************************************************************************)
EXTENDS Integers, Parts

all == <<part, slots>>

(* Small beds: rectangular ones with and without faulty regions, round ones. *)
Rect(xc, yc, faulty, zero, alg, pps) ==
  [xc |-> xc, yc |-> yc, pps |-> pps, algo |-> alg, lo |-> <<1, 1>>, hi |-> <<13, 13>>, radius |-> 0,
   origin |-> <<0, 0>>, zref |-> zero, faulty |-> faulty]
Round(cnt, r, o, faulty) ==
  [xc |-> cnt, yc |-> cnt, pps |-> 2, algo |-> "lagrange", lo |-> <<-r, -r>>, hi |-> <<r, r>>, radius |-> r,
   origin |-> o, zref |-> <<>>, faulty |-> faulty]

Middle == <<<<6, 6>>, <<9, 8>>>>   \* around the middle of a 3 x 3 mesh
Edge   == <<<<12, 5>>, <<15, 9>>>> \* over the end of a row
Other  == <<<<4, 10>>, <<10, 14>>>>
Beds ==
  {Rect(3, 3, f, z, "lagrange", 2) : f \in {<<>>, <<Middle>>, <<Edge, Other>>, <<Middle, Edge>>},
                                     z \in {<<>>, <<7, 7>>, <<20, 3>>}}
  \cup {Rect(4, 4, <<Middle>>, <<>>, "bicubic", 2), Rect(3, 4, <<>>, <<>>, "bicubic", 0),
        Round(5, 6, <<0, 0>>, <<>>), Round(3, 6, <<2, 2>>, <<>>),
        Round(5, 6, <<0, 0>>, <<<<<<2, -1>>, <<4, 1>>>>>>)}

Auto == [method |-> "automatic"]
Requests ==
  {Auto, [method |-> "rapid_scan"], [method |-> "manual"],
   [method |-> "automatic", xc |-> 4, yc |-> 3], [method |-> "automatic", xc |-> 7, yc |-> 5],
   [method |-> "rapid_scan", lo |-> <<3, 3>>, hi |-> <<11, 9>>],
   [method |-> "automatic", objects |-> {<<4, 3>>, <<8, 9>>}, margin |-> 5],
   [method |-> "automatic", objects |-> {<<4, 3>>, <<6, 11>>}, margin |-> 0]}

\* Times of the tool head are units of about 50 ms, the long ones shortened.
TO == INSTANCE Toolhead WITH
  Low <- 5, High <- 7, StartTime <- 3, MinKin <- 1, KinDelay <- 1, StepFlush <- 1, BgLow <- 2, BgBatch <- 2,
  BgExtra <- 2, LookFlush <- 3, DripTime <- 1, DripSeg <- 1, Durations <- {1, 4}, MaxTime <- 13, MaxMoves <- 3,
  LastCommand <- 13, now <- s1, th <- s2, pc <- s3, wakeAt <- s4, dripEnd <- s5, done <- s6, canPause <- s7,
  moves <- s8

BM == INSTANCE BedMesh WITH
  Names <- {"p1", "p2"}, Meshes <- {<<0, 2, 4, 2>>, <<-2, 0, 0, 4>>, <<0, 0, 8, 0>>}, FadeStart <- 1, Fade <- 7,
  FadeTargets <- {99, 0, 2}, NodeDist <- 2, CheckDist <- 1, Delta <- 8, Xs <- {0, 6}, Zs <- {0, 4, 9},
  Offsets <- {0, -1, 2}, MaxCommands <- 3, base <- s1, mesh <- s2, shift <- s3, target <- s4, tool <- s5,
  last <- s6, head <- s7, path <- s8, profiles <- s9, pending <- s10, status <- s11, n <- s12

BP == INSTANCE BedMeshPoints WITH
  Configs <- Beds, Requests <- Requests, MinDist <- 1, MaxRuns <- 2, orig <- s1, mesh <- s2, base <- s3,
  subs <- s4, zref <- s5, scan <- s6, results <- s7, stage <- s8, matrix <- s9, runs <- s10

MI == INSTANCE MeshInterpolation WITH
  Counts <- {3, 4}, Mults <- {1, 2, 3}, Coefs <- {0, 2}, Tension <- 1, algo <- s1, xc <- s2, yc <- s3, xm <- s4,
  ym <- s5, bed <- s6, grid <- s7, phase <- s8

KI == INSTANCE Kinematics WITH
  Kinds <- {"cartesian", "corexy", "corexz", "hybrid_corexy", "hybrid_corexz", "delta", "rotary_delta", "polar", "deltesian"},
  Coord <- {-2, 0, 1, 2}, XYRange <- <<-1, 1>>, MinZ <- -1, MaxZ <- 1, LimitZ <- 0, HomeZ <- 2, MaxXY2 <- 2,
  SlowXY2 <- 1,
  kind <- s1, pos <- s2, limits <- s3, xy2 <- s4, moved <- s5

DC == INSTANCE DualCarriages WITH
  Ranges <- <<<<0, 16, 0>>, <<4, 20, 20>>>>, Positive <- <<FALSE, TRUE>>, SafeDist <- 4, Grid <- 4, MaxSteps <- 7,
  dc <- s1, pos <- s2, limits <- s3, saved <- s4, asked <- s5, at <- s6, steps <- s7

TQ == INSTANCE TrapQueue WITH
  Speeds <- {-2, 2}, Durations <- {1, 2}, Windows <- {0, 1}, StepDists <- {1, 2}, Advances <- {0, 1},
  MaxNullMove <- 20, HistoryExpire <- 4, MaxTime <- 6, MaxGap <- 2, MaxChanges <- 2, moves <- s1, tail <- s2,
  history <- s3, sk <- s4, stepper <- s5, pa_list <- s6, mcu <- s7, end <- s8, path <- s9, jumped <- s10,
  changes <- s11

SC == INSTANCE StepCompress WITH
  Steppers <- {1}, Pins <- {}, MaxError <- 2, FarClocks <- 3, FilterClocks <- 2, MaxCount <- 2, MoveNum <- 3,
  MaxClock <- 4, MaxSteps <- 3, MaxHomings <- 1, sc <- s1, clocks <- s2, flushed <- s3, expired <- s4,
  asked <- s5, sent <- s6, used <- s7, homings <- s8

S2 == INSTANCE StepCompress WITH
  Steppers <- {1, 2}, Pins <- {2}, MaxError <- 2, FarClocks <- 3, FilterClocks <- 2, MaxCount <- 2,
  MoveNum <- 2, MaxClock <- 4, MaxSteps <- 2, MaxHomings <- 0, sc <- s1, clocks <- s2, flushed <- s3,
  expired <- s4, asked <- s5, sent <- s6, used <- s7, homings <- s8

\* Registers that are tuned, each with its least and its greatest value.
Tunings ==
  {<<>>} \cup {[tbl |-> <<v, 0, 3>>] : v \in 0 .. 3} \cup {[tpfd |-> <<v, 0, 15>>] : v \in {0, 15}}
  \cup {[toff |-> <<v, 1, 15>>, tbl |-> <<w, 0, 3>>] : v \in 1 .. 3, w \in 0 .. 1}

FA == INSTANCE Fans WITH
  Kinds <- {"part", "heater", "controller", "chamber", "box", "temperature"}, Speeds <- {0, 1, 4, 5}, Full <- 5,
  Half <- 2, OffBelow <- 1, Kick <- 2, Period <- 3, Idle <- 1, Timeout <- 2, Ahead <- 2, MaxInputs <- 2,
  kind <- s1, value <- s2, time <- s3, queue <- s4, pin <- s5, enable <- s6, watch <- s7, count <- s8,
  error <- s9, timer <- s10, speed <- s11, on <- s12, target <- s13, hot <- s14, off <- s15, limits <- s16,
  stuck <- s17, spins <- s18, still <- s19, need <- s20, down <- s21, n <- s22

BS == INSTANCE BulkSensors WITH
  Clients <- {"c1", "c2"}, NoClient <- "none", Drivers <- {"adxl345", "ldc1612", "hx71x", "angle"}, Wrap <- 4,
  MaxLink <- 1, MaxBlocks <- 4, MaxSessions <- 2, MaxFaults <- 1, driver <- s1, phase <- s2, client_cbs <- s3,
  is_started <- s4, timer <- s5, job <- s6, down <- s7, up <- s8, raw_samples <- s9, stream <- s10,
  last_sequence <- s11, batch <- s12, faults <- s13, shutdown <- s14, consecutive_fails <- s15

TS == INSTANCE TempSensors WITH
  Sensors <- {1, 2},
  KindsOf <- <<{"aht10", "htu21d", "ds18b20", "lm75", "host", "bme280", "bme680", "bmp180", "bmp388", "sht3x"}, {"lm75"}>>,
  Combined <- {1, 2}, Temps <- {1, 3}, MinTemp <- 2, MaxTemp <- 4, MaxDeviation <- 1, ReportTime <- 1,
  StaleTime <- 2, MaxBusyCycles <- 1, MaxFaults <- 1, sensor <- s1, chip <- s2, user <- s3, combined <- s4,
  ready <- s5, shutdown <- s6, faults <- s7

TM == INSTANCE Tmc WITH
  Kinds <- {"uart", "spi"}, Shared <- TRUE, Callbacks <- {"c1", "c2"}, MaxCommands <- 3, MaxFaults <- 1,
  MaxResets <- 1, FailedReads <- 0, Tries <- 2, Wrap <- 4, kind <- s1, enabled <- s2, count <- s3, pin <- s4,
  cache <- s5, chip <- s6, ifcnt <- s7, cnt <- s8, bus <- s9, tries <- s10, todo <- s11, calls <- s12,
  check_timer <- s13, timers <- s14, offset <- s15, gstat <- s16, moving <- s17, saved <- s18, shutdown <- s19,
  running <- s20, n <- s21, seen <- s22

T2 == INSTANCE Tmc WITH
  Kinds <- {"tmc2660", "uart"}, Shared <- FALSE, Callbacks <- {"c1", "c2"}, MaxCommands <- 2, MaxFaults <- 1,
  MaxResets <- 1, FailedReads <- 1, Tries <- 2, Wrap <- 4, kind <- s1, enabled <- s2, count <- s3, pin <- s4,
  cache <- s5, chip <- s6, ifcnt <- s7, cnt <- s8, bus <- s9, tries <- s10, todo <- s11, calls <- s12,
  check_timer <- s13, timers <- s14, offset <- s15, gstat <- s16, moving <- s17, saved <- s18, shutdown <- s19,
  running <- s20, n <- s21, seen <- s22

TV == INSTANCE TmcValues WITH
  Layout <- {<<1, 4, FALSE>>, <<4, 8, TRUE>>, <<32, 2, FALSE>>, <<64, 4, FALSE>>}, Bytes <- {0, 165, 255},
  ChainLen <- 3, Currents <- {10 * i : i \in 0 .. 210}, Holds <- {0, 100, 500, 2000}, Scale <- 1000,
  Clocks <- {4000, 12000, 12500, 16000}, Tunings <- Tunings, what <- s1, input <- s2

OP == INSTANCE OutputPins WITH
  Kinds <- {"digital", "pwm", "queued", "cycle", "servo", "led"}, Full <- 2, Duration <- 6, ResendHost <- 4,
  Lag <- 1, Start <- 2, Moves <- {0, 2}, MovesInUse <- {0}, ServoStarts <- {0}, MaxTime <- 12, MaxSets <- 2,
  kind <- s1, invert <- s2, pin <- s3, wire <- s4, mcu <- s5, time <- s6

LI == INSTANCE Lights WITH
  N <- 4, Colors <- {<<0, 0, 0>>, <<1, 0, 1>>}, Mains <- {"ready", "print_start", "printing"},
  Subs <- {"clear_nozzle"}, MaxInputs <- 3, MaxFailed <- 1, status <- s1, print <- s2,
  neo <- s3, pins <- s4, later <- s5, led <- s6, jobs <- s7, tpl <- s8, ui <- s9, n <- s10

BU == INSTANCE Buttons WITH
  Room <- 2, Wrap <- 4, MaxFlight <- 2, MaxChanges <- 4, MaxTime <- 3, MaxReads <- 8, LongPress <- 2,
  Debounce <- 2, AdcButtons <- 2, what <- s1, input <- s2, fw <- s3, msgs <- s4, acks <- s5, host <- s6,
  async <- s7, ready <- s8, keys <- s9, adc <- s10, now <- s11

ME == INSTANCE Menu WITH
  Children <- [main |-> <<"speed", "sub">>, sub |-> <<"load">>],
  Calls <- [speed |-> "exit_force", load |-> "exit"], Rows <- 2, Timeout <- 1, MaxValue <- 2, MaxKeys <- 6,
  MaxTime <- 8, m <- s1, q <- s2, off <- s3, now <- s4, keys <- s5

PA == INSTANCE Palette2 WITH
  Send <- 1, Setup <- 2, HeaderLen <- 2,
  Requests <- {"O99", "", "O20 D1", "O20 D8", "O100", "O102", "U39", "U39 D-", "U0 D3", "O53"},
  MaxConnects <- 2, MaxInputs <- 4, MaxQueue <- 4, conn <- s1, serial <- s2, timers <- s3, heartbeat <- s4,
  signal_disconnect <- s5, beatAt <- s6, beating <- s7, writing <- s8, queue <- s9, last <- s10, print <- s11,
  smart <- s12, readers <- s13, cmd <- s14, feed <- s15, down <- s16, silent <- s17, n <- s18

ASSUME MachineAssumption ==
  /\ TO!ToolheadAssumption
  /\ BM!BedMeshAssumption
  /\ BP!BedMeshPointsAssumption
  /\ MI!MeshInterpolationAssumption
  /\ KI!KinematicsAssumption
  /\ DC!DualCarriagesAssumption
  /\ TQ!TrapQueueAssumption
  /\ SC!StepCompressAssumption
  /\ S2!StepCompressAssumption
  /\ FA!FansAssumption
  /\ TM!TmcAssumption
  /\ T2!TmcAssumption
  /\ OP!OutputPinsAssumption
  /\ PA!Palette2Assumption

\* The compression of a queue of steps is a function of it, checked for every queue of five steps.
ASSUME StepsAreExact == SC!CompressionIsRight({<<a, a+b, a+b+c, a+b+c+d, a+b+c+d+e>> : a, b, c, d, e \in 1 .. 5})

Init ==
  \/ part = "toolhead" /\ TO!Init /\ Spare(8)
  \/ part = "mesh" /\ BM!Init /\ Spare(12)
  \/ part = "points" /\ BP!Init /\ Spare(10)
  \/ part = "interpolation" /\ MI!Init /\ Spare(8)
  \/ part = "rails" /\ KI!Init /\ Spare(5)
  \/ part = "carriages" /\ DC!Init /\ Spare(7)
  \/ part = "trapq" /\ TQ!Init /\ Spare(11)
  \/ part = "steps" /\ SC!Init /\ Spare(8)
  \/ part = "steppers" /\ S2!Init /\ Spare(8)
  \/ part = "fans" /\ FA!Init
  \/ part = "bulk" /\ BS!Init /\ Spare(15)
  \/ part = "temperatures" /\ TS!Init /\ Spare(7)
  \/ part = "drivers" /\ TM!Init
  \/ part = "chips" /\ T2!Init
  \/ part = "values" /\ TV!Init /\ Spare(2)
  \/ part = "pins" /\ OP!Init /\ Spare(6)
  \/ part = "lights" /\ LI!Init /\ Spare(10)
  \/ part = "buttons" /\ BU!Init /\ Spare(11)
  \/ part = "menu" /\ ME!Init /\ Spare(5)
  \/ part = "splicer" /\ PA!Init /\ Spare(18)

Next ==
  \/ Takes("toolhead", 8, TO!Next)
  \/ Takes("mesh", 12, BM!Next)
  \/ Takes("points", 10, BP!Next)
  \/ Takes("interpolation", 8, MI!Next)
  \/ Takes("rails", 5, KI!Next)
  \/ Takes("carriages", 7, DC!Next)
  \/ Takes("trapq", 11, TQ!Next)
  \/ Takes("steps", 8, SC!Next)
  \/ Takes("steppers", 8, S2!Next)
  \/ Takes("fans", 22, FA!Next)
  \/ Takes("bulk", 15, BS!Next)
  \/ Takes("temperatures", 7, TS!Next)
  \/ Takes("drivers", 22, TM!Next)
  \/ Takes("chips", 22, T2!Next)
  \/ Takes("values", 2, TV!Next)
  \/ Takes("pins", 6, OP!Next)
  \/ Takes("lights", 10, LI!Next)
  \/ Takes("buttons", 11, BU!Next)
  \/ Takes("menu", 5, ME!Next)
  \/ Takes("splicer", 18, PA!Next)

MachineSpec == Init /\ [][Next]_all

-----------------------------------------------------------------------------
\* Moves reach the micro-controllers in time (toolhead.py): no step is made late, and what is dripped can be cut short.
MovesAreTimely == part = "toolhead" => TO!MovesAreTimely

\* The bed mesh (bed_mesh.py): what is probed where, what is computed from it and how moves follow it.
MeshIsTrue ==
  /\ part = "mesh" => BM!TypeOK /\ BM!PositionIsLast /\ BM!FollowsBed /\ BM!PendingMatches
  /\ part = "points" => /\ BP!TypeOK /\ BP!MatrixIsInPlace /\ BP!RoundIsNearest /\ BP!StaysInMesh
                        /\ BP!AvoidsFaulty /\ BP!ProbedBedHasMesh
  /\ part = "interpolation" => /\ MI!TypeOK /\ MI!ProbedPointsKept /\ MI!LagrangeIsExact
                               /\ MI!SplinesKeepPlanes /\ MI!LinesAreSymmetric

\* No move leaves the machine's range, and dual carriages never meet.
RailsAreKept ==
  /\ part = "rails" => KI!TypeOK /\ KI!MovesStayInside /\ KI!PositionIsReadBack
  /\ part = "carriages" => DC!TypeOK /\ DC!CarriagesAreKnown /\ DC!CarriagesStayApart /\ DC!StaysOnRail

\* The steps of the micro-controllers are those of the moves (itersolve.c, trapq.c, stepcompress.c, stepper.py).
StepsAreThoseOfMoves ==
  /\ part = "trapq" => /\ TQ!TypeOK /\ TQ!NoJump /\ TQ!McuPositionIsKnown /\ TQ!ReportedIsTrue
                       /\ TQ!AdvanceIsThatOfTheMove
  /\ part = "steppers" => /\ S2!TypeOK /\ S2!StepsAreAsked /\ S2!FlushIsComplete /\ S2!NoOverflow /\ S2!PastIsKnown
  /\ part = "steps" => /\ SC!TypeOK /\ SC!StepsAreAsked /\ SC!FlushIsComplete /\ SC!NoOverflow /\ SC!PastIsKnown

\* Fans: commands reach the pin in order, what is hot is cooled, a fan that stands still is found, and its heater put out.
FansCool ==
  part = "fans" => FA!TypeOK /\ FA!CommandsInOrder /\ FA!HeaterIsCooled /\ FA!StillIsFound /\ FA!StillFanStops

\* Sensors: clients of a stream get what was measured, when it was; temperatures are handed on only in range.
SensorsAreHeard ==
  /\ part = "bulk" => BS!TypeOK /\ BS!ClientsAreServed /\ BS!TimesAreTrue /\ BS!StoppedIsQuiet
  /\ part = "temperatures" => TS!TypeOK /\ TS!HandedIsInRange /\ TS!BusyIsBounded

\* Stepper drivers: what the host believes of the enable line, the registers and the phase is so, and what is
\* written into a register is what was meant.
DriversAreAsBelieved ==
  /\ part = "drivers" => /\ TM!TypeOK /\ TM!LineServesAll /\ TM!DriverHasCache /\ TM!WrittenIsThere
                         /\ TM!PhaseIsOfRest /\ TM!HomingRestores /\ TM!ToffFollows
  /\ part = "chips" => T2!TypeOK /\ T2!LineServesAll /\ T2!PhaseIsOfRest /\ T2!HomingRestores /\ T2!ToffFollows
  /\ part = "values" => /\ TV!FieldsAreApart /\ TV!FlippedIsRefused /\ TV!ChainReaches
                        /\ TV!SenseIsClose /\ TV!ScalerIsClose /\ TV!TunedFits

\* Output pins and the splicer: the micro-controller never shuts down for want of a command, and plays commands
\* in order; a connection has its timers and no line of another, and a device that fell silent is found.
DevicesAreServed ==
  /\ part = "pins" => OP!NoShutdown /\ OP!ShowsLast /\ OP!PlayedInOrder
  /\ part = "splicer" => PA!TypeOK /\ PA!TimersServe /\ PA!SilenceIsFound /\ PA!QueueIsOfConnection

\* Lights, buttons and the menu: lights show the last that was asked, a press counts once, a script runs once.
PanelIsTrue ==
  /\ part = "lights" => LI!StripShowsLast /\ LI!CoolerFollowsPrint /\ LI!DisabledIsOff /\ LI!LampFollowsStatus
  /\ part = "buttons" => BU!ReportsAreTaken /\ BU!TurnsAreTrue /\ BU!OneKeyPerPress /\ BU!AdcIsSettled
  /\ part = "menu" => ME!ScriptsRunOnce /\ ME!EditedIsSelected /\ ME!EnteredIsShown /\ ME!SentIsShown
=============================================================================
