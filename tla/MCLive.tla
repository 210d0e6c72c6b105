--------------------------------- MODULE MCLive -----------------------------
(***************************************************************************)
(* The host and its micro-controllers, in two specifications. SerialSpec   *)
(* is what they do with serial lines, in four parts: the window protocol   *)
(* with a receive window that fills up, the same with so few sequence      *)
(* numbers that they wrap twice, the connection above it, and a homing     *)
(* move over two lines. LiveSpec is what must come to an end: messages of  *)
(* the line, homing, and the connection and restart of the                 *)
(* micro-controllers. What SerialWindowProofs, HomingProofs and            *)
(* McuConnectProofs prove of their components is carried over to both at   *)
(* the end.                                                                *)
(***************************************************************************)
EXTENDS SerialWindowProofs, Parts

\* How long a homing move may take, and after how long a trsync stops by itself.
CONSTANTS HomingTime, Timeout

\* Block numbers that the MCU may expect.
Starts == {SeqValues - 1, SeqValues}
LiveStarts == {1}

SQ == INSTANCE SerialWindowProofs WITH
  SeqValues <- 3, MaxPending <- 2, RxWindow <- 9, BlockSize <- 1, McuStarts <- {2}, NotifyMessages <- {4},
  MaxMessages <- 4, MaxFaults <- 1, MaxWire <- 3, ready <- s1, send_seq <- s2, receive_seq <- s3,
  sent_queue <- s4, last_ack_seq <- s5, ignore_nak_seq <- s6, retransmit_seq <- s7, retransmit_timer <- s8,
  notify_queue <- s9, receive_window <- s10, last_ack_bytes <- s11, last_receive_sent <- s12, stamp <- s13,
  to_mcu <- s14, to_host <- s15, mcu_next <- s16, mcu_state <- s17, executed <- s18, answered <- s19,
  submitted <- s20, faults <- s21, resent <- s22

HO == INSTANCE HomingProofs WITH
  Stow <- FALSE, HomingRetries <- 2, TriggerRetries <- 1, SampleCount <- 2, SamplesToleranceRetries <- 1,
  MaxCommands <- 2, at <- s1, axes <- s2, asked <- s3, move <- s4, tries <- s5, zTries <- s6, homed <- s7,
  located <- s8, drive <- s9, heater <- s10, saved <- s11, probe <- s12, samples <- s13, retries <- s14,
  rejected <- s15, failed <- s16, commands <- s17,
  Secondary <- {"m2"}, Main <- "m1", ExpireTicks <- Timeout, MinExtend <- 1, MoveTime <- 1, Horizon <- HomingTime,
  MaxReports <- 1, now <- s1, mcu <- s2, toMcu <- s3, toHost <- s4, td <- s5, tdm <- s6, waiting <- s7,
  host <- s8, result <- s9

MC == INSTANCE McuConnectProofs WITH
  Order <- <<"mcu", "THR">>, Method <- [mcu |-> "rpi_usb", THR |-> "command"], MaxFaults <- 2, MaxRestarts <- 1,
  conf <- s1, down <- s2, link <- s3, held <- s4, reason <- s5, phase <- s6, next <- s7,
  state <- s8, inShutdown <- s9, serial <- s10, known <- s11, sync <- s12, timedOut <- s13, stop <- s14,
  pending <- s15, faults <- s16, restarts <- s17,
  Clients <- {11, 12}, Key <- [c \in {11, 12} |-> c], Chunks <- 1, Retries <- 1, MaxSessions <- 2, MaxLost <- 2,
  MaxQueries <- 1, MaxTicks <- 4, Wrap <- 8, TIMEOUT_ACTIVE <- 2, g <- s1, handlers <- s2, awaited <- s3,
  wire <- s4, back <- s5, session <- s6, open <- s7, connected <- s8, lost <- s9, clock <- s10,
  last_clock <- s11, queries_pending <- s12, sampled <- s13

ASSUME LiveAssumption ==
  /\ SQ!SeqAssumption /\ SQ!McuAssumption /\ SQ!SizeAssumption /\ SQ!BoundAssumption
  /\ MC!SN!SerialConnAssumption /\ MC!SN!KeysDiffer /\ MC!SN!ClockTurnsLate
  /\ HO!TD!DispatchAssumption
  /\ HO!HomingAssumption
  /\ MC!McuConnectAssumption

all == <<vars, part, slots>>

SerialInit ==
  \/ Init /\ part = "window" /\ Spare(0)
  \/ Init /\ mcu_next = SeqValues /\ part = "sequence" /\ SQ!Init
  \/ Init /\ mcu_next = SeqValues /\ part = "connection" /\ MC!SN!Init /\ Spare(13)
  \/ Init /\ mcu_next = SeqValues /\ part = "endstops" /\ HO!TD!Init /\ Spare(9)

SerialNext ==
  \/ Takes("window", 0, Next)
  \/ Takes("sequence", 22, SQ!Next /\ UNCHANGED vars)
  \/ Takes("connection", 13, MC!SN!Next /\ UNCHANGED vars)
  \/ Takes("endstops", 9, HO!TD!Next /\ UNCHANGED vars)
  \/ part \in {"connection", "endstops"} /\ UNCHANGED all   \* only the window must never stop

SerialSpec == SerialInit /\ [][SerialNext]_all

-----------------------------------------------------------------------------
LiveInit ==
  /\ Init
  /\ \/ part = "window" /\ Spare(0)
     \/ part = "endstops" /\ HO!TD!Init /\ Spare(9)
     \/ part = "homing" /\ HO!Init /\ Spare(17)
     \/ part = "mcus" /\ MC!Init /\ Spare(17)

LiveNext ==
  \/ Takes("window", 0, Next)
  \/ Takes("endstops", 9, HO!TD!Next /\ UNCHANGED vars)
  \/ Takes("homing", 17, HO!Next /\ UNCHANGED vars)
  \/ Takes("mcus", 17, MC!Next /\ UNCHANGED vars)

\* Of the line: the threads run, and the time-out leaves time for an answer in the
\* end. Of the endstops: threads, firmware and time go on, the endstop need never be
\* touched. Of homing: moves end, a probe does not miss for ever. Of the
\* micro-controllers: the host, the firmware and the links go on.
LiveFairness ==
  /\ Fairness
  /\ WF_all(Takes("endstops", 9, HO!TD!StartDispatch /\ UNCHANGED vars))
  /\ WF_all(Takes("endstops", 9, HO!TD!EndOfMove /\ UNCHANGED vars))
  /\ WF_all(Takes("endstops", 9, HO!TD!StopDispatch /\ UNCHANGED vars))
  /\ WF_all(Takes("endstops", 9, HO!TD!Tick /\ UNCHANGED vars))
  /\ \A m \in HO!TD!MCUs :
       /\ WF_all(Takes("endstops", 9, HO!TD!StartTrsync(m) /\ UNCHANGED vars))
       /\ WF_all(Takes("endstops", 9, HO!TD!StopTrsync(m) /\ UNCHANGED vars))
       /\ WF_all(Takes("endstops", 9, HO!TD!HandleTrsyncState(m) /\ UNCHANGED vars))
       /\ WF_all(Takes("endstops", 9, HO!TD!FastReadState(m) /\ UNCHANGED vars))
       /\ WF_all(Takes("endstops", 9, HO!TD!Execute(m) /\ UNCHANGED vars))
       /\ WF_all(Takes("endstops", 9, HO!TD!PeriodicReport(m) /\ UNCHANGED vars))
       /\ WF_all(Takes("endstops", 9, HO!TD!Expires(m) /\ UNCHANGED vars))
  /\ WF_all(Takes("homing", 17, HO!MovesEnd /\ UNCHANGED vars))
  /\ WF_all(Takes("homing", 17, HO!HostGoesOn /\ UNCHANGED vars))
  /\ SF_all(Takes("homing", 17, HO!ZAgrees /\ UNCHANGED vars))
  /\ SF_all(Takes("homing", 17, HO!SamplesAgree /\ UNCHANGED vars))
  /\ WF_all(Takes("mcus", 17, MC!Host /\ UNCHANGED vars))
  /\ WF_all(Takes("mcus", 17, MC!FIRMWARE_RESTART /\ UNCHANGED vars))
  /\ \A m \in MC!Mcu :
       /\ WF_all(Takes("mcus", 17, MC!Answers(m) /\ UNCHANGED vars))
       /\ WF_all(Takes("mcus", 17, MC!EmergencyStop(m) /\ UNCHANGED vars))
       /\ WF_all(Takes("mcus", 17, MC!LinkReturns(m) /\ UNCHANGED vars))

LiveSpec == LiveInit /\ [][LiveNext]_all /\ LiveFairness

-----------------------------------------------------------------------------
\* The invariant of the window (serialqueue.c), also with numbers that wrap twice. The connection of serialhdl.py,
\* msgproto.py and clocksync.py: nobody waits in vain, answers are one's own, the dictionary is whole, and the
\* clock is extended rightly.
LineIsSound ==
  /\ part = "window" => IInv
  /\ part = "sequence" => SQ!IInv /\ SQ!AnswersAreInWindow
  /\ part = "connection" => /\ MC!SN!TypeOK /\ MC!SN!NobodyWaitsInVain /\ MC!SN!AnswersAreOwn
                            /\ MC!SN!DictionaryIsWhole /\ MC!SN!ClockIsExtended /\ MC!SN!NoStrayError

\* Homing over several micro-controllers (mcu.py, trdispatch.c, trsync.c): however long messages take, all stop
\* together, and hits and misses are reported truly.
EndstopsStopTogether ==
  part = "endstops" => HO!TD!TypeOK /\ HO!TD!StopTogether /\ HO!TD!HitIsTrue /\ HO!TD!MissIsFullMove

\* Homing comes to an end, hit or miss, and so does every command that homes
\* or probes.
HomingIsOver ==
  /\ []<>~In("endstops", ~HO!TD!HomingEnded)
  /\ []<>~In("homing", ~HO!NoCommand)

\* A micro-controller that stops or is lost ends the ready state unless it restarts, automatic restarts do not chain,
\* and FIRMWARE_RESTART makes the printer ready when the trouble is over, also after one was reset while it was
\* configured, unless a port was left open then.
McusRecover ==
  /\ \A m \in MC!Mcu : []<>~In("mcus", MC!Unnoticed(m))
  /\ []<>~In("mcus", ~MC!Settled)
  /\ []<>~In("mcus", ~MC!Ready /\ ~MC!PortIsHeld)

\* A shutdown shows and reaches every micro-controller.
ShutdownIsTotal == part = "mcus" => MC!TypeOK /\ MC!ShutdownShows /\ MC!ShutdownReaches

\* Homing and probing (homing.py, probe.py, safe_z_home.py, corexy.py), errors included, leave nothing begun: the
\* probe is lowered while it is needed, and what counts as homed has been located.
HomingLeavesNothing ==
  part = "homing" => /\ HO!TypeOK /\ HO!LoweredForEveryProbe /\ HO!NothingLeftBegun /\ HO!HeatersRestored
                     /\ HO!HomedIsLocated /\ HO!DrivesWork

-----------------------------------------------------------------------------
(* A step of LiveSpec is a step of the part it belongs to, and leaves the  *)
(* other parts alone.                                                      *)

LiveInv ==
  /\ part = "endstops" => HO!TD!IInv
  /\ part = "homing" => HO!IInv
  /\ part = "mcus" => MC!IInv

LEMMA PartsAssume == HO!HomingAssumption /\ HO!TD!DispatchAssumption /\ MC!McuConnectAssumption
BY LiveAssumption

LEMMA InitIsLiveInv ==
  ASSUME LiveInit
  PROVE  LiveInv
<1>1. HO!TD!Init => HO!TD!IInv BY PartsAssume, HO!DispatchStartsRight
<1>2. HO!Init => HO!IInv BY PartsAssume, HO!InitIsIInv
<1>3. MC!Init => MC!IInv BY PartsAssume, MC!InitIsIInv
<1>4. \/ part = "window"
      \/ part = "endstops" /\ HO!TD!Init
      \/ part = "homing" /\ HO!Init
      \/ part = "mcus" /\ MC!Init
  BY DEF LiveInit
<1> QED BY <1>1, <1>2, <1>3, <1>4 DEF LiveInv

\* A step of one part is no step of another one.
LEMMA StepsStayApart ==
  ASSUME [LiveNext]_all
  PROVE  /\ part' = part \/ part' = "window"
         /\ part = "endstops" => [HO!TD!Next]_(HO!TD!vars)
         /\ part = "homing" => [HO!Next]_(HO!vars)
         /\ part = "mcus" => [MC!Next]_(MC!vars)
<1>1. CASE Takes("window", 0, Next) BY <1>1 DEF Takes
<1>2. CASE Takes("endstops", 9, HO!TD!Next /\ UNCHANGED vars) BY <1>2 DEF Takes
<1>3. CASE Takes("homing", 17, HO!Next /\ UNCHANGED vars) BY <1>3 DEF Takes
<1>4. CASE Takes("mcus", 17, MC!Next /\ UNCHANGED vars) BY <1>4 DEF Takes
<1>5. CASE UNCHANGED all
  BY <1>5 DEF all, slots, HO!TD!vars, HO!vars, HO!probing, MC!vars, MC!fwVars, MC!mcuVars, MC!hostVars, MC!bounds
<1> QED BY <1>1, <1>2, <1>3, <1>4, <1>5 DEF LiveNext

LEMMA NextKeepsLiveInv ==
  ASSUME LiveInv, [LiveNext]_all
  PROVE  LiveInv'
<1>1. CASE part' = "endstops" /\ part = "endstops"
  BY <1>1, PartsAssume, StepsStayApart, HO!DispatchStepKeeps DEF LiveInv
<1>2. CASE part' = "homing" /\ part = "homing"
  BY <1>2, PartsAssume, StepsStayApart, HO!NextKeepsIInv DEF LiveInv
<1>3. CASE part' = "mcus" /\ part = "mcus"
  BY <1>3, PartsAssume, StepsStayApart, MC!NextKeepsIInv DEF LiveInv
<1>4. CASE part' \notin {"endstops", "homing", "mcus"}
  BY <1>4 DEF LiveInv
<1> QED BY <1>1, <1>2, <1>3, <1>4, StepsStayApart

\* Homing moves, homing and the connections keep their inductive invariants in any behaviour of the live run.
THEOREM LiveInvariant == LiveSpec => []LiveInv
<1>1. LiveInit => LiveInv BY InitIsLiveInv
<1>2. LiveInv /\ [LiveNext]_all => LiveInv' BY NextKeepsLiveInv
<1> QED BY <1>1, <1>2, PTL DEF LiveSpec

LEMMA LiveInvSuffices ==
  ASSUME LiveInv
  PROVE  HomingLeavesNothing /\ ShutdownIsTotal
<1>1. HO!IInv => /\ HO!TypeOK /\ HO!LoweredForEveryProbe /\ HO!NothingLeftBegun /\ HO!HeatersRestored
                 /\ HO!HomedIsLocated /\ HO!DrivesWork
  BY HO!IInvSuffices DEF HO!IInv
<1>2. MC!IInv => MC!TypeOK /\ MC!ShutdownShows /\ MC!ShutdownReaches
  BY MC!IInvSuffices
<1> QED BY <1>1, <1>2 DEF LiveInv, HomingLeavesNothing, ShutdownIsTotal

\* Homing and probing leave nothing begun in any behaviour of the live run.
THEOREM HomingIsClean == LiveSpec => []HomingLeavesNothing
BY LiveInvariant, LiveInvSuffices, PTL

\* A shutdown shows and reaches every micro-controller in any behaviour of the live run.
THEOREM ShutdownsAreTotal == LiveSpec => []ShutdownIsTotal
BY LiveInvariant, LiveInvSuffices, PTL

-----------------------------------------------------------------------------
(* The same for SerialSpec.                                                *)

SerialInv ==
  /\ part = "window" => IInv
  /\ part = "sequence" => SQ!IInv
  /\ part = "connection" => MC!SN!IInv /\ MC!SN!OwnInv /\ MC!SN!ClockIsCounted
  /\ part = "endstops" => HO!TD!IInv

LEMMA ConnectionAssumes == MC!SN!SerialConnAssumption /\ MC!SN!KeysDiffer /\ MC!SN!ClockTurnsLate
BY LiveAssumption

LEMMA InitIsSerialInv ==
  ASSUME SerialInit
  PROVE  SerialInv
<1>1. Init => IInv BY InitEstablishesIInv
<1>2. SQ!Init => SQ!IInv BY SQ!InitEstablishesIInv
<1>3. MC!SN!Init => MC!SN!IInv /\ MC!SN!OwnInv /\ MC!SN!ClockIsCounted
  BY ConnectionAssumes, MC!ConnectionStartsRight, MC!OwnStartsRight, MC!ClockStartsRight
<1>4. HO!TD!Init => HO!TD!IInv BY PartsAssume, HO!DispatchStartsRight
<1>5. \/ part = "window" /\ Init
      \/ part = "sequence" /\ SQ!Init
      \/ part = "connection" /\ MC!SN!Init
      \/ part = "endstops" /\ HO!TD!Init
  BY DEF SerialInit
<1> QED BY <1>1, <1>2, <1>3, <1>4, <1>5 DEF SerialInv

LEMMA SerialStepsStayApart ==
  ASSUME [SerialNext]_all
  PROVE  /\ part' = part
         /\ part = "window" => [Next]_vars
         /\ part = "sequence" => [SQ!Next]_(SQ!vars)
         /\ part = "connection" => [MC!SN!Next]_(MC!SN!vars)
         /\ part = "endstops" => [HO!TD!Next]_(HO!TD!vars)
<1>1. CASE Takes("window", 0, Next) BY <1>1 DEF Takes
<1>2. CASE Takes("sequence", 22, SQ!Next /\ UNCHANGED vars) BY <1>2 DEF Takes
<1>3. CASE Takes("connection", 13, MC!SN!Next /\ UNCHANGED vars) BY <1>3 DEF Takes
<1>4. CASE Takes("endstops", 9, HO!TD!Next /\ UNCHANGED vars) BY <1>4 DEF Takes
<1>5. CASE UNCHANGED all
  BY <1>5 DEF all, slots, SQ!vars, SQ!hostVars, SQ!mcuVars, MC!SN!vars, MC!SN!clocks, HO!TD!vars
<1> QED BY <1>1, <1>2, <1>3, <1>4, <1>5 DEF SerialNext

LEMMA NextKeepsSerialInv ==
  ASSUME SerialInv, [SerialNext]_all
  PROVE  SerialInv'
<1>1. CASE part = "window"
  BY <1>1, SerialStepsStayApart, StepKeepsIInv DEF SerialInv
<1>2. CASE part = "sequence"
  BY <1>2, SerialStepsStayApart, SQ!StepKeepsIInv DEF SerialInv
<1>3. CASE part = "connection"
  BY <1>3, ConnectionAssumes, SerialStepsStayApart, MC!ConnectionStepKeeps, MC!OwnStepKeeps, MC!ClockStepKeeps
     DEF SerialInv
<1>4. CASE part = "endstops"
  BY <1>4, PartsAssume, SerialStepsStayApart, HO!DispatchStepKeeps DEF SerialInv
<1>5. CASE part \notin {"window", "sequence", "connection", "endstops"}
  BY <1>5, SerialStepsStayApart DEF SerialInv
<1> QED BY <1>1, <1>2, <1>3, <1>4, <1>5

\* The line, the connection above it and homing moves over it keep their inductive invariants in any behaviour of
\* the serial run.
THEOREM SerialInvariant == SerialSpec => []SerialInv
<1>1. SerialInit => SerialInv BY InitIsSerialInv
<1>2. SerialInv /\ [SerialNext]_all => SerialInv' BY NextKeepsSerialInv
<1> QED BY <1>1, <1>2, PTL DEF SerialSpec

\* The line is sound in any behaviour of the run: the window is right, with numbers that wrap too, nobody waits in
\* vain, and who asks gets the answer to his own question.
THEOREM LineIsAlwaysSound == SerialSpec => []LineIsSound
<1>1. SerialInv => LineIsSound
  <2>1. SQ!IInv => SQ!AnswersAreInWindow BY SQ!IInvImpliesAnswersAreInWindow
  <2>2. MC!SN!IInv => MC!SN!TypeOK /\ MC!SN!NobodyWaitsInVain /\ MC!SN!DictionaryIsWhole
    BY ConnectionAssumes, MC!ConnectionIsRight
  <2>3. MC!SN!OwnInv => MC!SN!AnswersAreOwn /\ MC!SN!NoStrayError BY MC!OwnIsRight
  <2>4. MC!SN!IInv /\ MC!SN!ClockIsCounted => MC!SN!ClockIsExtended
    BY ConnectionAssumes, MC!CountedIsExtended
  <2> QED BY <2>1, <2>2, <2>3, <2>4 DEF SerialInv, LineIsSound
<1> QED BY <1>1, SerialInvariant, PTL

\* In any behaviour of the run all stop together, and hits and misses are reported truly.
THEOREM EndstopsAreTrue == SerialSpec => []EndstopsStopTogether
<1>1. SerialInv => EndstopsStopTogether
  <2>1. HO!TD!IInv => HO!TD!TypeOK /\ HO!TD!StopTogether /\ HO!TD!HitIsTrue /\ HO!TD!MissIsFullMove
    BY PartsAssume, HO!ExtensionsAreBacked, HO!OutcomeIsTrue DEF HO!TD!IInv
  <2> QED BY <2>1 DEF SerialInv, EndstopsStopTogether
<1> QED BY <1>1, SerialInvariant, PTL
=============================================================================
