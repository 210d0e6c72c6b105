------------------------------ MODULE MCPrintJob ------------------------------
(***************************************************************************)
(* PrintJob with a few greenlets, jobs and inputs. The run of all commands *)
(* has two scenarios more, with the commands that bear on one property.    *)
(***************************************************************************)
EXTENDS PrintJob, TLC, TLAPS, SequenceTheorems

Symmetry == Permutations(Procs)

CancelCommands == AllCommands \ {"M24", "RESUME"}
PauseCommands == AllCommands \ {"M24"}

VARIABLE scenario

OneJob(commands) == INSTANCE PrintJob WITH Commands <- commands, MaxJobs <- 1

\* The commands of the configuration.
OneInit == Init /\ scenario = "one"
OneNext == Next /\ UNCHANGED scenario
OneSpec == OneInit /\ [][OneNext]_<<vars, scenario>> /\ Fairness

PrintInit == Init /\ scenario \in {"all", "cancelling", "pausing"}
PrintNext ==
  /\ UNCHANGED scenario
  /\ \/ scenario = "all" /\ Next
     \/ scenario = "cancelling" /\ OneJob(CancelCommands)!Next
     \/ scenario = "pausing" /\ OneJob(PauseCommands)!Next
PrintSpec == PrintInit /\ [][PrintNext]_<<vars, scenario>>

-----------------------------------------------------------------------------
\* Without M24, RESUME and further jobs, the worker runs no line of a file that is closed.
CancelEndsPrint == [][scenario = "cancelling" /\ WorkerDispatches => Head(lines)[1] = current_file]_<<vars, scenario>>

\* Without M24 and further jobs, a PAUSE that the printer accepted stops the job, or the job is about to stop.
PauseStopsPrint == scenario = "pausing" => PausedMeansStopping

-----------------------------------------------------------------------------
(* Types.                                                                  *)

\* The buffered lines stay a sequence of lines of some job.
LEMMA BufferFacts ==
    ASSUME TypeOK
    PROVE  /\ <<>> \in Seq((1 .. MaxJobs) \X (1 .. NLines))
           /\ lines # <<>> => /\ Tail(lines) \in Seq((1 .. MaxJobs) \X (1 .. NLines))
                              /\ Len(Tail(lines)) = Len(lines) - 1
                              /\ \A i \in 1 .. Len(lines) - 1 : Tail(lines)[i] = lines[i + 1]
           /\ Len(lines) \in Nat
           /\ lines # <<>> => Len(lines) > 0
           /\ DOMAIN lines = 1 .. Len(lines)
           /\ 0 \in 0 .. NLines
<1>1. lines \in Seq((1 .. MaxJobs) \X (1 .. NLines))
  BY DEF TypeOK, WorkerTypeOK
<1> QED
  BY <1>1, EmptySeq, HeadTailProperties, LenProperties, BoundsAssumption

LEMMA FileTypeOKStep ==
    ASSUME TypeOK, BufferMatchesFile, Next
    PROVE  FileTypeOK'
<1> USE BoundsAssumption DEF
     sdVars, workerVars, statsVars, pauseVars, lockVars, procVars, envVars, TypeOK,
     FileTypeOK, EnvTypeOK
<1>1. ASSUME UNCHANGED <<current_file, file_position, next_file_position, restore_job>>
      PROVE  FileTypeOK'
  BY <1>1
<1>2. ASSUME WorkerStart \/ WorkerStops \/ WorkerReads \/ WorkerReadFails \/ LinePauses
           \/ LineClearsPause \/ LineSwitches \/ LineStarts \/ LineFails \/ LineCrashes
           \/ OnErrorStarts \/ OnErrorEnds
      PROVE  FileTypeOK'
  BY <1>1, <1>2
     DEF WorkerStart, WorkerStops, WorkerReads, WorkerReadFails, LinePauses,
         LineClearsPause, LineSwitches, LineStarts, LineFails, LineCrashes,
         OnErrorStarts, OnErrorEnds
<1>3. ASSUME NEW p \in Procs, ClientSubmits(p) \/ ScriptStarts(p) \/ ScriptEnds(p)
           \/ M24(p) \/ M25(p) \/ M25Returns(p) \/ PAUSE(p) \/ PauseReturns(p)
           \/ RESUME(p) \/ RestoreEnds(p) \/ RestoreFails(p) \/ CLEAR_PAUSE(p)
           \/ Runout(p) \/ RunoutReturns(p) \/ RunoutSubmits(p)
      PROVE  FileTypeOK'
  BY <1>1, <1>3
     DEF ClientSubmits, ScriptStarts, ScriptEnds, M24, M25, M25Returns, PAUSE,
         PauseReturns, RESUME, RestoreEnds, RestoreFails, CLEAR_PAUSE, Runout,
         RunoutReturns, RunoutSubmits, PauseThen
<1>4. ASSUME WorkerDispatches
      PROVE  FileTypeOK'
  <2>1. file_position + 1 \in 0 .. NLines
    BY <1>4, BufferFacts DEF WorkerDispatches, BufferMatchesFile
  <2> QED
    BY <1>4, <2>1 DEF WorkerDispatches
<1>5. ASSUME OnErrorCancels
      PROVE  FileTypeOK'
  BY <1>5 DEF OnErrorCancels, Exit
<1>6. ASSUME WorkerRestored \/ WorkerRestoreFails \/ WorkerEndOfFile \/ LineCancels
      PROVE  FileTypeOK'
  BY <1>6
     DEF WorkerRestored, WorkerRestoreFails, WorkerEndOfFile, LineCancels, Exit,
         CloseCancelled
<1>7. ASSUME LineSkips \/ LineEnds
      PROVE  FileTypeOK'
  BY <1>7 DEF LineSkips, LineEnds, Exit, ExitSilently
<1>8. ASSUME NEW p \in Procs, StartLoad(p)
      PROVE  FileTypeOK'
  BY <1>8 DEF StartLoad, Opened, LoadFails
<1>9. ASSUME NEW p \in Procs, ExtractionEnds(p)
      PROVE  FileTypeOK'
  BY <1>9 DEF ExtractionEnds, Opened
<1>10. ASSUME NEW p \in Procs, CancelReturns(p)
      PROVE  FileTypeOK'
  BY <1>10 DEF CancelReturns, CloseCancelled, Crash
<1>11. ASSUME NEW p \in Procs, M26(p) \/ SDCARD_RESET_FILE(p) \/ ResetReturns(p)
           \/ ScanEnds(p)
      PROVE  FileTypeOK'
  BY <1>11
     DEF M26, SDCARD_RESET_FILE, ResetReturns, ScanEnds, CloseReset, PauseThen, Crash
<1>12. ASSUME NEW p \in Procs, CANCEL_PRINT(p) \/ CancelRequest(p)
           \/ CancelRequestReturns(p)
      PROVE  FileTypeOK'
  BY <1>12
     DEF CANCEL_PRINT, CancelRequest, CancelRequestReturns, PauseThen, CloseCancelled,
         Crash
<1> QED
  BY <1>1, <1>2, <1>3, <1>4, <1>5, <1>6, <1>7, <1>8, <1>9, <1>10, <1>11, <1>12
     DEF Next, Worker, Proc, Rest, vars, MediaFails, Shutdown

LEMMA FlagTypeOKStep ==
    ASSUME TypeOK, Next
    PROVE  FlagTypeOK'
<1> USE DEF
     sdVars, workerVars, statsVars, pauseVars, lockVars, procVars, envVars, TypeOK,
     FlagTypeOK
<1>1. ASSUME UNCHANGED <<must_pause_work, cmd_from_sd, work_timer>>
      PROVE  FlagTypeOK'
  BY <1>1
<1>2. ASSUME WorkerReads \/ LineClearsPause \/ LineSkips \/ LineSwitches \/ LineStarts
           \/ LineFails \/ OnErrorStarts
      PROVE  FlagTypeOK'
  BY <1>1, <1>2
     DEF WorkerReads, LineClearsPause, LineSkips, LineSwitches, LineStarts, LineFails,
         OnErrorStarts
<1>3. ASSUME NEW p \in Procs, ClientSubmits(p) \/ ScriptStarts(p) \/ ScriptEnds(p)
           \/ M26(p) \/ M25Returns(p) \/ StartLoad(p) \/ ExtractionEnds(p)
           \/ PauseReturns(p) \/ RESUME(p) \/ RestoreFails(p) \/ CLEAR_PAUSE(p)
           \/ RunoutReturns(p) \/ RunoutSubmits(p)
      PROVE  FlagTypeOK'
  BY <1>1, <1>3
     DEF ClientSubmits, ScriptStarts, ScriptEnds, M26, M25Returns, StartLoad,
         ExtractionEnds, PauseReturns, RESUME, RestoreFails, CLEAR_PAUSE, RunoutReturns,
         RunoutSubmits
<1>4. ASSUME WorkerStart \/ WorkerRestored \/ WorkerRestoreFails \/ WorkerStops
           \/ WorkerEndOfFile
      PROVE  FlagTypeOK'
  BY <1>4
     DEF WorkerStart, WorkerRestored, WorkerRestoreFails, WorkerStops, WorkerEndOfFile,
         ExitSilently, Exit, LoopUnlessPaused
<1>5. ASSUME WorkerReadFails \/ WorkerDispatches \/ LinePauses \/ LineCancels
           \/ LineEnds
      PROVE  FlagTypeOK'
  BY <1>5
     DEF WorkerReadFails, WorkerDispatches, LinePauses, LineCancels, LineEnds, Exit,
         RequestPause, LoopUnlessPaused, ExitSilently
<1>6. ASSUME LineCrashes \/ OnErrorCancels \/ OnErrorEnds
      PROVE  FlagTypeOK'
  BY <1>6 DEF LineCrashes, OnErrorCancels, OnErrorEnds, RequestPause, Exit
<1>7. ASSUME NEW p \in Procs, M24(p) \/ M25(p) \/ SDCARD_RESET_FILE(p)
           \/ ResetReturns(p) \/ ScanEnds(p)
      PROVE  FlagTypeOK'
  BY <1>7
     DEF M24, M25, SDCARD_RESET_FILE, ResetReturns, ScanEnds, Resume, PauseThen,
         RequestPause, Crash
<1>8. ASSUME NEW p \in Procs, PAUSE(p) \/ RestoreEnds(p) \/ CANCEL_PRINT(p)
           \/ CancelReturns(p) \/ CancelRequest(p)
      PROVE  FlagTypeOK'
  BY <1>8
     DEF PAUSE, RestoreEnds, CANCEL_PRINT, CancelReturns, CancelRequest, RequestPause,
         Resume, PauseThen, Crash
<1>9. ASSUME NEW p \in Procs, CancelRequestReturns(p) \/ Runout(p)
      PROVE  FlagTypeOK'
  BY <1>9 DEF CancelRequestReturns, Runout, Crash, RequestPause
<1>10. ASSUME Shutdown
      PROVE  FlagTypeOK'
  BY <1>10 DEF Shutdown, RequestPause
<1> QED
  BY <1>1, <1>2, <1>3, <1>4, <1>5, <1>6, <1>7, <1>8, <1>9, <1>10
     DEF Next, Worker, Proc, Rest, vars, MediaFails

LEMMA WorkerTypeOKStep ==
    ASSUME TypeOK, BufferMatchesFile, Next
    PROVE  WorkerTypeOK'
<1> USE DEF sdVars, workerVars, statsVars, pauseVars, lockVars, procVars, envVars
<1> DEFINE Lines == Seq((1 .. MaxJobs) \X (1 .. NLines))
<1>1. /\ sdpc \in WorkerStates
      /\ lines \in Lines
      /\ read_position \in 0 .. NLines
      /\ line_end \in 0 .. NLines
      /\ file_position \in 0 .. NLines
      /\ next_file_position \in 0 .. NLines
      /\ <<>> \in Lines
      /\ lines # <<>> => Tail(lines) \in Lines
  BY BufferFacts DEF TypeOK, WorkerTypeOK, FileTypeOK
<1> HIDE DEF Lines
<1>2. SUFFICES /\ sdpc' \in WorkerStates
               /\ lines' \in Lines
               /\ read_position' \in 0 .. NLines
               /\ line_end' \in 0 .. NLines
  BY DEF WorkerTypeOK, Lines
<1> DEFINE Goal == /\ sdpc' \in WorkerStates
                   /\ lines' \in Lines
                   /\ read_position' \in 0 .. NLines
                   /\ line_end' \in 0 .. NLines
<1>3. ASSUME UNCHANGED workerVars
      PROVE  Goal
  BY <1>1, <1>3
<1>4. ASSUME LinePauses \/ LineCancels \/ LineClearsPause \/ LineSkips
      PROVE  Goal
  BY <1>3, <1>4 DEF LinePauses, LineCancels, LineClearsPause, LineSkips
<1>5. ASSUME WorkerStart \/ WorkerRestored \/ WorkerRestoreFails \/ WorkerStops
           \/ WorkerEndOfFile \/ WorkerReadFails
      PROVE  Goal
  BY <1>1, <1>5
     DEF WorkerStart, WorkerRestored, WorkerRestoreFails, WorkerStops, WorkerEndOfFile,
         WorkerReadFails, ExitSilently, Exit, LoopUnlessPaused, WorkerStates
<1>6. ASSUME WorkerReads
      PROVE  Goal
  <2>1. PICK n \in 1 .. NLines - read_position :
             /\ lines' = [i \in 1 .. n |-> <<current_file, read_position + i>>]
             /\ read_position' = read_position + n
    BY <1>6 DEF WorkerReads
  <2>2. current_file \in 1 .. MaxJobs /\ n \in Nat
    BY <1>1, <1>6, BoundsAssumption DEF WorkerReads, TypeOK, FileTypeOK
  <2>3. \A i \in 1 .. n : <<current_file, read_position + i>> \in (1 .. MaxJobs) \X (1 .. NLines)
    BY <1>1, <2>2, BoundsAssumption
  <2>4. lines' \in Lines
    BY <2>1, <2>2, <2>3 DEF Lines
  <2> QED
    BY <1>1, <1>6, <2>1, <2>4, BoundsAssumption DEF WorkerReads
<1>7. ASSUME WorkerDispatches
      PROVE  Goal
  <2>1. file_position + 1 \in 0 .. NLines
    <3>1. sdpc = "loop" /\ lines # <<>>
      BY <1>7 DEF WorkerDispatches
    <3> QED
      BY <1>1, <3>1, BufferFacts, BoundsAssumption DEF BufferMatchesFile
  <2> QED
    BY <1>1, <1>7, <2>1 DEF WorkerDispatches, WorkerStates
<1>8. ASSUME LineSwitches \/ LineStarts \/ LineEnds \/ LineFails \/ LineCrashes
           \/ OnErrorStarts \/ OnErrorCancels \/ OnErrorEnds
      PROVE  Goal
  BY <1>1, <1>8
     DEF LineSwitches, LineStarts, LineEnds, LineFails, LineCrashes, OnErrorStarts,
         OnErrorCancels, OnErrorEnds, RunsAnother, ExitSilently, Exit, LoopUnlessPaused,
         ReadForLog, WorkerStates
<1>9. ASSUME NEW p \in Procs, M24(p) \/ ScanEnds(p) \/ RestoreEnds(p)
      PROVE  Goal
  BY <1>1, <1>9 DEF M24, ScanEnds, RestoreEnds, Resume, WorkerStates
<1>10. ASSUME NEW p \in Procs, Proc(p), ~M24(p), ~ScanEnds(p), ~RestoreEnds(p)
       PROVE  Goal
  <2>1. UNCHANGED workerVars
    BY <1>10
       DEF Proc, ClientSubmits, ScriptStarts, ScriptEnds, M26, M25, M25Returns,
           SDCARD_RESET_FILE, ResetReturns, StartLoad, ExtractionEnds, PAUSE, PauseReturns,
           RESUME, RestoreFails, CLEAR_PAUSE, CANCEL_PRINT, CancelReturns, CancelRequest,
           CancelRequestReturns, Runout, RunoutReturns, RunoutSubmits
  <2> QED
    BY <1>3, <2>1
<1>11. ASSUME Shutdown
       PROVE  Goal
  BY <1>1, <1>11 DEF Shutdown, ReadForLog
<1> QED
  BY <1>3, <1>4, <1>5, <1>6, <1>7, <1>8, <1>9, <1>10, <1>11
     DEF Next, Worker, Rest, vars, MediaFails

LEMMA ReportTypeOKStep ==
    ASSUME TypeOK, Next
    PROVE  ReportTypeOK'
<1> USE DEF
     sdVars, workerVars, statsVars, pauseVars, lockVars, procVars, envVars, TypeOK,
     ReportTypeOK, FlagTypeOK, JobStates
<1>1. ASSUME UNCHANGED <<state, started, is_paused, sd_paused, pause_command_sent>>
      PROVE  ReportTypeOK'
  BY <1>1
<1>2. ASSUME WorkerReads \/ WorkerDispatches \/ LineSkips \/ LineSwitches \/ LineStarts
           \/ LineFails \/ OnErrorStarts
      PROVE  ReportTypeOK'
  BY <1>1, <1>2
     DEF WorkerReads, WorkerDispatches, LineSkips, LineSwitches, LineStarts, LineFails,
         OnErrorStarts
<1>3. ASSUME NEW p \in Procs, ClientSubmits(p) \/ ScriptStarts(p) \/ ScriptEnds(p)
           \/ M24(p) \/ M26(p) \/ M25(p) \/ M25Returns(p) \/ RESUME(p)
           \/ RestoreFails(p) \/ RunoutSubmits(p)
      PROVE  ReportTypeOK'
  BY <1>1, <1>3
     DEF ClientSubmits, ScriptStarts, ScriptEnds, M24, M26, M25, M25Returns, RESUME,
         RestoreFails, RunoutSubmits, PauseThen
<1>4. ASSUME WorkerStart \/ WorkerRestored \/ WorkerRestoreFails \/ WorkerStops
           \/ WorkerEndOfFile
      PROVE  ReportTypeOK'
  BY <1>4
     DEF WorkerStart, WorkerRestored, WorkerRestoreFails, WorkerStops, WorkerEndOfFile,
         ExitSilently, Exit, NoteStart, LoopUnlessPaused, NotePause, NoteFinish
<1>5. ASSUME WorkerReadFails \/ LinePauses \/ LineCancels \/ LineClearsPause \/ LineEnds
      PROVE  ReportTypeOK'
  BY <1>5
     DEF WorkerReadFails, LinePauses, LineCancels, LineClearsPause, LineEnds, Exit,
         NotePause, NoteFinish, CloseCancelled, ClearPause, LoopUnlessPaused,
         ExitSilently
<1>6. ASSUME LineCrashes \/ OnErrorCancels \/ OnErrorEnds
      PROVE  ReportTypeOK'
  BY <1>6
     DEF LineCrashes, OnErrorCancels, OnErrorEnds, Exit, NotePause, NoteFinish,
         ClearPause
<1>7. ASSUME NEW p \in Procs, SDCARD_RESET_FILE(p) \/ ResetReturns(p) \/ StartLoad(p)
           \/ ExtractionEnds(p) \/ ScanEnds(p)
      PROVE  ReportTypeOK'
  BY <1>7
     DEF SDCARD_RESET_FILE, ResetReturns, StartLoad, ExtractionEnds, ScanEnds,
         CloseReset, Reset, PauseThen, Crash, LoadFails
<1>8. ASSUME NEW p \in Procs, PAUSE(p) \/ PauseReturns(p) \/ RestoreEnds(p)
           \/ CLEAR_PAUSE(p) \/ CANCEL_PRINT(p)
      PROVE  ReportTypeOK'
  BY <1>8
     DEF PAUSE, PauseReturns, RestoreEnds, CLEAR_PAUSE, CANCEL_PRINT, PauseDone,
         ClearPause, PauseThen, CloseCancelled, NoteFinish
<1>9. ASSUME NEW p \in Procs, CancelReturns(p) \/ CancelRequest(p)
           \/ CancelRequestReturns(p) \/ Runout(p) \/ RunoutReturns(p)
      PROVE  ReportTypeOK'
  BY <1>9
     DEF CancelReturns, CancelRequest, CancelRequestReturns, Runout, RunoutReturns,
         CloseCancelled, NoteFinish, ClearPause, Crash
<1> QED
  BY <1>1, <1>2, <1>3, <1>4, <1>5, <1>6, <1>7, <1>8, <1>9
     DEF Next, Worker, Proc, Rest, vars, MediaFails, Shutdown

\* Arriving and leaving keep the line a sequence of greenlets.
LEMMA ArriveKeepsType ==
    ASSUME LockTypeOK, NEW g \in Procs \cup {"sd"}, Lock!Arrive(g)
    PROVE  LockTypeOK'
<1>1. line' \in Seq(Procs \cup {"sd"})
  <2>1. line' = Append(line, g)
    BY DEF Lock!Arrive
  <2> QED
    BY <2>1, AppendProperties DEF LockTypeOK
<1>2. inside' \subseteq Procs \cup {"sd"}
  BY DEF Lock!Arrive, LockTypeOK
<1> QED
  BY <1>1, <1>2 DEF LockTypeOK

LEMMA LeaveKeepsType ==
    ASSUME LockTypeOK, MutexHeld, NEW g \in Procs \cup {"sd"}, Lock!Leave(g)
    PROVE  LockTypeOK'
<1>1. line # <<>>
  BY DEF MutexHeld, Lock!Leave
<1>2. line' \in Seq(Procs \cup {"sd"})
  <2>1. line' = Tail(line)
    BY DEF Lock!Leave
  <2> QED
    BY <1>1, <2>1, HeadTailProperties DEF LockTypeOK
<1> QED
  BY <1>2 DEF Lock!Leave, LockTypeOK

LEMMA GrantKeepsType ==
    ASSUME LockTypeOK, NEW g \in Procs \cup {"sd"}, Lock!Grant(g)
    PROVE  LockTypeOK'
BY DEF LockTypeOK, Lock!Grant

\* A greenlet that moves changes the set of holders by itself at most.
LEMMA HoldersOfMove ==
    ASSUME ProcTypeOK, NEW p \in Procs, NEW where, pc' = [pc EXCEPT ![p] = where],
           sdpc' \in {"command", "onerror"} <=> sdpc \in {"command", "onerror"}
    PROVE  MutexHolders' = IF where \in OutsideMutex THEN MutexHolders \ {p}
                                                     ELSE MutexHolders \cup {p}
<1>1. \A q \in Procs : pc'[q] = IF q = p THEN where ELSE pc[q]
  BY DEF ProcTypeOK
<1> QED
  BY <1>1, ProcsAssumption DEF MutexHolders

\* It asks for the mutex.
LEMMA SubmitKeepsMutex ==
    ASSUME ProcTypeOK, LockTypeOK, MutexHeld, NEW p \in Procs, NEW script, NEW e,
           pc[p] \in OutsideMutex, SubmitAt(p, script, e), sdpc' = sdpc
    PROVE  MutexHeld'
<1>1. line' # <<>>
  <2>1. line' = Append(line, p)
    BY DEF SubmitAt, Lock!Arrive
  <2> QED
    BY <2>1, AppendProperties DEF LockTypeOK
<1>2. CASE line = <<>>
  <2>1. MutexHolders' = {p} /\ inside' = {p}
    BY <1>2, HoldersOfMove DEF SubmitAt, Lock!Arrive, MutexHeld, OutsideMutex
  <2> QED
    BY <1>1, <2>1 DEF MutexHeld
<1>3. CASE line # <<>>
  <2>1. MutexHolders' = MutexHolders /\ inside' = inside
    BY <1>3, HoldersOfMove DEF SubmitAt, Lock!Arrive, MutexHeld, OutsideMutex, MutexHolders
  <2> QED
    BY <1>1, <2>1 DEF MutexHeld
<1> QED
  BY <1>2, <1>3

\* It goes on with the mutex.
LEMMA StayKeepsMutex ==
    ASSUME ProcTypeOK, MutexHeld, NEW p \in Procs, NEW where,
           pc[p] \notin OutsideMutex, where \notin OutsideMutex,
           pc' = [pc EXCEPT ![p] = where], UNCHANGED lockVars,
           sdpc' \in {"command", "onerror"} <=> sdpc \in {"command", "onerror"}
    PROVE  MutexHeld'
<1>1. MutexHolders' = MutexHolders
  BY HoldersOfMove DEF MutexHolders
<1> QED
  BY <1>1 DEF MutexHeld, lockVars

\* It goes on without it.
LEMMA StayOutKeepsMutex ==
    ASSUME ProcTypeOK, MutexHeld, NEW p \in Procs, NEW where,
           pc[p] \in OutsideMutex, where \in OutsideMutex,
           pc' = [pc EXCEPT ![p] = where], UNCHANGED <<line, inside, sdpc>>
    PROVE  MutexHeld'
<1>1. MutexHolders' = MutexHolders
  BY HoldersOfMove, ProcsAssumption DEF MutexHolders
<1> QED
  BY <1>1 DEF MutexHeld

\* It releases it.
LEMMA LeaveKeepsMutex ==
    ASSUME ProcTypeOK, MutexHeld, NEW p \in Procs, pc[p] \notin OutsideMutex,
           Lock!Leave(p), pc' = [pc EXCEPT ![p] = "idle"], sdpc' = sdpc
    PROVE  MutexHeld'
<1>1. MutexHolders' = {}
  BY HoldersOfMove DEF MutexHeld, Lock!Leave, OutsideMutex
<1> QED
  BY <1>1 DEF MutexHeld, Lock!Leave

LEMMA LockTypeOKStep ==
    ASSUME TypeOK, MutexHeld, Next
    PROVE  LockTypeOK'
<1> USE DEF TypeOK, sdVars, workerVars, statsVars, pauseVars, lockVars, procVars, envVars
<1>1. ASSUME UNCHANGED <<line, inside>>
      PROVE  LockTypeOK'
  BY <1>1 DEF LockTypeOK
<1>2. ASSUME WorkerStart \/ WorkerRestored \/ WorkerRestoreFails \/ WorkerStops \/ WorkerReads
           \/ WorkerEndOfFile \/ WorkerReadFails \/ LinePauses \/ LineCancels
           \/ LineClearsPause \/ LineSkips
      PROVE  LockTypeOK'
  BY <1>1, <1>2
     DEF WorkerStart, WorkerRestored, WorkerRestoreFails, WorkerStops, WorkerReads,
         WorkerEndOfFile, WorkerReadFails, LinePauses, LineCancels, LineClearsPause, LineSkips
<1>3. ASSUME WorkerDispatches \/ LineEnds \/ LineCrashes \/ LineStarts \/ OnErrorStarts
           \/ OnErrorCancels \/ OnErrorEnds
      PROVE  LockTypeOK'
  BY <1>3, ArriveKeepsType, LeaveKeepsType, GrantKeepsType
     DEF WorkerDispatches, LineEnds, LineCrashes, LineStarts, OnErrorStarts, OnErrorCancels,
         OnErrorEnds
<1>4. ASSUME LineFails \/ LineSwitches
      PROVE  LockTypeOK'
  <2>1. line # <<>>
    BY <1>4 DEF LineFails, LineSwitches, MutexHeld, MutexHolders
  <2>2. Append(Tail(line), "sd") \in Seq(Procs \cup {"sd"})
    BY <2>1, HeadTailProperties, AppendProperties DEF LockTypeOK
  <2> QED
    BY <1>4, <2>2 DEF LineFails, LineSwitches, RunsAnother, LockTypeOK
<1>5. ASSUME NEW p \in Procs,
             ClientSubmits(p) \/ RunoutSubmits(p) \/ CancelRequest(p) \/ ScriptStarts(p)
               \/ Runout(p) \/ RunoutReturns(p)
      PROVE  LockTypeOK'
  BY <1>1, <1>5, ArriveKeepsType, GrantKeepsType
     DEF ClientSubmits, RunoutSubmits, CancelRequest, ScriptStarts, Runout, RunoutReturns,
         Submit, SubmitAt
<1>6. ASSUME NEW p \in Procs,
             ScriptEnds(p) \/ RestoreFails(p) \/ StartLoad(p) \/ ExtractionEnds(p)
               \/ ScanEnds(p) \/ PAUSE(p) \/ PauseReturns(p)
      PROVE  LockTypeOK'
  BY <1>1, <1>6, LeaveKeepsType
     DEF ScriptEnds, RestoreFails, StartLoad, ExtractionEnds, ScanEnds, PAUSE, PauseReturns,
         PauseDone, LoadFails, Opened, GoOn, Finish
<1>7. ASSUME NEW p \in Procs,
             M24(p) \/ M26(p) \/ M25(p) \/ M25Returns(p) \/ SDCARD_RESET_FILE(p) \/ RESUME(p)
               \/ RestoreEnds(p) \/ CLEAR_PAUSE(p) \/ CANCEL_PRINT(p)
      PROVE  LockTypeOK'
  BY <1>1, <1>7
     DEF M24, M26, M25, M25Returns, SDCARD_RESET_FILE, RESUME, RestoreEnds, CLEAR_PAUSE,
         CANCEL_PRINT, PauseThen, GoOn
<1>8. ASSUME NEW p \in Procs, ResetReturns(p) \/ CancelReturns(p) \/ CancelRequestReturns(p)
      PROVE  LockTypeOK'
  BY <1>1, <1>8, ArriveKeepsType, LeaveKeepsType
     DEF ResetReturns, CancelReturns, CancelRequestReturns, Submit, SubmitAt, GoOn, Crash
<1> QED
  BY <1>1, <1>2, <1>3, <1>4, <1>5, <1>6, <1>7, <1>8
     DEF Next, Worker, Proc, Rest, vars, MediaFails, Shutdown

LEMMA ProcTypeOKStep ==
    ASSUME TypeOK, Next
    PROVE  ProcTypeOK'
<1> USE DEF
     sdVars, workerVars, statsVars, pauseVars, lockVars, procVars, envVars, TypeOK,
     ProcTypeOK, ProcStates, Pausers, Scripts, AllCommands, LoadCommands
<1>1. ASSUME UNCHANGED <<abort_epoch, pc, todo, epoch>>
      PROVE  ProcTypeOK'
  BY <1>1
<1>2. ASSUME WorkerStart \/ WorkerRestored \/ WorkerRestoreFails \/ WorkerStops
           \/ WorkerReads \/ WorkerEndOfFile \/ WorkerReadFails \/ WorkerDispatches
           \/ LinePauses \/ LineClearsPause \/ LineSkips \/ LineSwitches \/ LineStarts
           \/ LineEnds \/ LineFails \/ LineCrashes \/ OnErrorStarts \/ OnErrorEnds
      PROVE  ProcTypeOK'
  BY <1>1, <1>2
     DEF WorkerStart, WorkerRestored, WorkerRestoreFails, WorkerStops, WorkerReads,
         WorkerEndOfFile, WorkerReadFails, WorkerDispatches, LinePauses, LineClearsPause,
         LineSkips, LineSwitches, LineStarts, LineEnds, LineFails, LineCrashes,
         OnErrorStarts, OnErrorEnds
<1>3. ASSUME LineCancels \/ OnErrorCancels
      PROVE  ProcTypeOK'
  BY <1>3 DEF LineCancels, OnErrorCancels, Exit
<1>4. ASSUME NEW p \in Procs, StartLoad(p)
      PROVE  ProcTypeOK'
  BY <1>4 DEF StartLoad, LoadCommands, Runs, Opened, LoadFails, Finish
<1>5. ASSUME NEW p \in Procs, ScanEnds(p)
      PROVE  ProcTypeOK'
  BY <1>5 DEF ScanEnds, GoOn, Finish
<1>6. ASSUME NEW p \in Procs, PAUSE(p)
      PROVE  ProcTypeOK'
  BY <1>6 DEF PAUSE, Runs, GoOn, PauseDone, Finish
<1>7. ASSUME NEW p \in Procs, CANCEL_PRINT(p)
      PROVE  ProcTypeOK'
  BY <1>7 DEF CANCEL_PRINT, Runs, GoOn, PauseThen
<1>8. ASSUME NEW p \in Procs, CancelReturns(p)
      PROVE  ProcTypeOK'
  BY <1>8 DEF CancelReturns, GoOn, Crash
<1>9. ASSUME NEW p \in Procs, CancelRequest(p)
      PROVE  ProcTypeOK'
  <2>1. abort_epoch' \in Nat /\ abort_epoch' \in {abort_epoch, abort_epoch + 1}
    BY <1>9 DEF CancelRequest, Submit, SubmitAt
  <2>2. pc' \in [Procs -> ProcStates] /\ todo' \in [Procs -> Scripts]
    BY <1>9 DEF CancelRequest, Submit, SubmitAt
  <2>3. epoch' \in [Procs -> Nat]
    BY <1>9 DEF CancelRequest, Submit, SubmitAt
  <2> QED
    BY <2>1, <2>2, <2>3
<1>10. ASSUME NEW p \in Procs, CancelRequestReturns(p)
      PROVE  ProcTypeOK'
  BY <1>10 DEF CancelRequestReturns, Submit, SubmitAt, Crash
<1>11. ASSUME NEW p \in Procs, ClientSubmits(p) \/ ScriptStarts(p) \/ ScriptEnds(p)
           \/ M24(p)
      PROVE  ProcTypeOK'
  BY <1>11
     DEF ClientSubmits, ScriptStarts, ScriptEnds, M24, Submit, SubmitAt, Finish, Runs,
         GoOn
<1>12. ASSUME NEW p \in Procs, M26(p) \/ M25(p) \/ M25Returns(p) \/ SDCARD_RESET_FILE(p)
      PROVE  ProcTypeOK'
  BY <1>12 DEF M26, M25, M25Returns, SDCARD_RESET_FILE, Runs, GoOn, PauseThen
<1>13. ASSUME NEW p \in Procs, ResetReturns(p) \/ ExtractionEnds(p) \/ PauseReturns(p)
           \/ RESUME(p)
      PROVE  ProcTypeOK'
  BY <1>13
     DEF ResetReturns, ExtractionEnds, PauseReturns, RESUME, GoOn, Crash, Opened, Finish,
         PauseDone, Runs
<1>14. ASSUME NEW p \in Procs, RestoreEnds(p) \/ RestoreFails(p) \/ CLEAR_PAUSE(p)
           \/ Runout(p)
      PROVE  ProcTypeOK'
  BY <1>14 DEF RestoreEnds, RestoreFails, CLEAR_PAUSE, Runout, GoOn, Finish, Runs
<1>15. ASSUME NEW p \in Procs, RunoutReturns(p) \/ RunoutSubmits(p)
      PROVE  ProcTypeOK'
  BY <1>15 DEF RunoutReturns, RunoutSubmits, Submit, SubmitAt
<1> QED
  BY <1>1, <1>2, <1>3, <1>4, <1>5, <1>6, <1>7, <1>8, <1>9, <1>10, <1>11, <1>12, <1>13,
     <1>14, <1>15
     DEF Next, Worker, Proc, Rest, vars, MediaFails, Shutdown

LEMMA EnvTypeOKStep ==
    ASSUME TypeOK, Next
    PROVE  EnvTypeOK'
<1> USE BoundsAssumption DEF
     sdVars, workerVars, statsVars, pauseVars, lockVars, procVars, envVars, TypeOK,
     EnvTypeOK
<1>1. ASSUME UNCHANGED <<jobs, inputs, media_ok, shutdown>>
      PROVE  EnvTypeOK'
  BY <1>1
<1>2. ASSUME WorkerStart \/ WorkerRestored \/ WorkerRestoreFails \/ WorkerStops
           \/ WorkerReads \/ WorkerEndOfFile \/ WorkerReadFails \/ WorkerDispatches
           \/ LineStarts \/ LineEnds \/ OnErrorStarts \/ OnErrorCancels \/ OnErrorEnds
      PROVE  EnvTypeOK'
  BY <1>1, <1>2
     DEF WorkerStart, WorkerRestored, WorkerRestoreFails, WorkerStops, WorkerReads,
         WorkerEndOfFile, WorkerReadFails, WorkerDispatches, LineStarts, LineEnds,
         OnErrorStarts, OnErrorCancels, OnErrorEnds
<1>3. ASSUME NEW p \in Procs, ClientSubmits(p) \/ ScriptStarts(p) \/ ScriptEnds(p)
           \/ M25Returns(p) \/ ExtractionEnds(p) \/ ScanEnds(p) \/ PauseReturns(p)
           \/ RestoreEnds(p) \/ RestoreFails(p) \/ RunoutReturns(p) \/ RunoutSubmits(p)
      PROVE  EnvTypeOK'
  BY <1>1, <1>3
     DEF ClientSubmits, ScriptStarts, ScriptEnds, M25Returns, ExtractionEnds, ScanEnds,
         PauseReturns, RestoreEnds, RestoreFails, RunoutReturns, RunoutSubmits
<1>4. ASSUME LinePauses \/ LineCancels \/ LineClearsPause \/ LineSkips
      PROVE  EnvTypeOK'
  BY <1>4 DEF LinePauses, LineCancels, LineClearsPause, LineSkips, Input
<1>5. ASSUME LineSwitches \/ LineFails \/ LineCrashes
      PROVE  EnvTypeOK'
  BY <1>5 DEF LineSwitches, LineFails, LineCrashes, Input, Exit
<1>6. ASSUME NEW p \in Procs, M24(p) \/ M26(p) \/ M25(p) \/ SDCARD_RESET_FILE(p)
      PROVE  EnvTypeOK'
  BY <1>6 DEF M24, M26, M25, SDCARD_RESET_FILE, Runs, Input, PauseThen
<1>7. ASSUME NEW p \in Procs, ResetReturns(p) \/ StartLoad(p) \/ PAUSE(p) \/ RESUME(p)
      PROVE  EnvTypeOK'
  BY <1>7 DEF ResetReturns, StartLoad, PAUSE, RESUME, Crash, Runs, Input
<1>8. ASSUME NEW p \in Procs, CLEAR_PAUSE(p) \/ CANCEL_PRINT(p) \/ CancelReturns(p)
           \/ CancelRequest(p)
      PROVE  EnvTypeOK'
  BY <1>8
     DEF CLEAR_PAUSE, CANCEL_PRINT, CancelReturns, CancelRequest, Runs, Input, PauseThen,
         Crash
<1>9. ASSUME NEW p \in Procs, CancelRequestReturns(p) \/ Runout(p)
      PROVE  EnvTypeOK'
  BY <1>9 DEF CancelRequestReturns, Runout, Crash, Input
<1>10. ASSUME MediaFails
      PROVE  EnvTypeOK'
  <2>1. inputs' \in 0 .. MaxInputs
    BY <1>10 DEF MediaFails, Input
  <2> QED
    BY <1>10, <2>1 DEF MediaFails
<1>11. ASSUME Shutdown
      PROVE  EnvTypeOK'
  BY <1>11 DEF Shutdown, Input
<1> QED
  BY <1>1, <1>2, <1>3, <1>4, <1>5, <1>6, <1>7, <1>8, <1>9, <1>10, <1>11
     DEF Next, Worker, Proc, Rest, vars

-----------------------------------------------------------------------------
(* The worker, the mutex, the buffer and the reported state.               *)

LEMMA WorkerFlagsStep ==
    ASSUME WorkerFlags, Next
    PROVE  WorkerFlags'
<1> USE DEF
     sdVars, workerVars, statsVars, pauseVars, lockVars, procVars, envVars, WorkerFlags,
     InCommand
<1>1. ASSUME UNCHANGED <<work_timer, cmd_from_sd, sdpc>>
      PROVE  WorkerFlags'
  BY <1>1
<1>2. ASSUME WorkerReads \/ LinePauses \/ LineCancels \/ LineClearsPause \/ LineSkips
      PROVE  WorkerFlags'
  BY <1>1, <1>2 DEF WorkerReads, LinePauses, LineCancels, LineClearsPause, LineSkips
<1>3. ASSUME NEW p \in Procs, ClientSubmits(p) \/ ScriptStarts(p) \/ ScriptEnds(p)
           \/ M26(p) \/ M25(p) \/ M25Returns(p) \/ SDCARD_RESET_FILE(p)
           \/ ResetReturns(p) \/ StartLoad(p) \/ ExtractionEnds(p) \/ PAUSE(p)
           \/ PauseReturns(p) \/ RESUME(p) \/ RestoreFails(p) \/ CLEAR_PAUSE(p)
           \/ CANCEL_PRINT(p) \/ CancelReturns(p) \/ CancelRequest(p)
           \/ CancelRequestReturns(p) \/ Runout(p) \/ RunoutReturns(p)
           \/ RunoutSubmits(p)
      PROVE  WorkerFlags'
  BY <1>1, <1>3
     DEF ClientSubmits, ScriptStarts, ScriptEnds, M26, M25, M25Returns,
         SDCARD_RESET_FILE, ResetReturns, StartLoad, ExtractionEnds, PAUSE, PauseReturns,
         RESUME, RestoreFails, CLEAR_PAUSE, CANCEL_PRINT, CancelReturns, CancelRequest,
         CancelRequestReturns, Runout, RunoutReturns, RunoutSubmits, PauseThen
<1>4. ASSUME WorkerStart \/ WorkerRestored \/ WorkerRestoreFails \/ WorkerStops
           \/ WorkerEndOfFile
      PROVE  WorkerFlags'
  BY <1>4
     DEF WorkerStart, WorkerRestored, WorkerRestoreFails, WorkerStops, WorkerEndOfFile,
         ExitSilently, Exit, LoopUnlessPaused
<1>5. ASSUME WorkerReadFails \/ WorkerDispatches \/ LineSwitches \/ LineStarts
           \/ LineEnds
      PROVE  WorkerFlags'
  BY <1>5
     DEF WorkerReadFails, WorkerDispatches, LineSwitches, LineStarts, LineEnds, Exit,
         RunsAnother, LoopUnlessPaused, ExitSilently
<1>6. ASSUME LineFails \/ LineCrashes \/ OnErrorStarts \/ OnErrorCancels \/ OnErrorEnds
      PROVE  WorkerFlags'
  BY <1>6
     DEF LineFails, LineCrashes, OnErrorStarts, OnErrorCancels, OnErrorEnds, RunsAnother,
         Exit
<1>7. ASSUME NEW p \in Procs, M24(p) \/ ScanEnds(p) \/ RestoreEnds(p)
      PROVE  WorkerFlags'
  BY <1>7 DEF M24, ScanEnds, RestoreEnds, Resume
<1> QED
  BY <1>1, <1>2, <1>3, <1>4, <1>5, <1>6, <1>7
     DEF Next, Worker, Proc, Rest, vars, MediaFails, Shutdown

LEMMA MutexHeldStep ==
    ASSUME TypeOK, WorkerFlags, MutexHeld, Next
    PROVE  MutexHeld'
<1> USE DEF TypeOK, sdVars, workerVars, statsVars, pauseVars, lockVars, procVars, envVars
<1>1. ASSUME UNCHANGED <<line, inside, pc, sdpc>>
      PROVE  MutexHeld'
  BY <1>1 DEF MutexHeld, MutexHolders
<1>2. ASSUME WorkerReads \/ LinePauses \/ LineCancels \/ LineClearsPause \/ LineSkips
      PROVE  MutexHeld'
  BY <1>1, <1>2 DEF WorkerReads, LinePauses, LineCancels, LineClearsPause, LineSkips
<1>3. ASSUME WorkerStart \/ WorkerRestored \/ WorkerRestoreFails \/ WorkerStops
           \/ WorkerEndOfFile \/ WorkerReadFails
      PROVE  MutexHeld'
  BY <1>3, ProcsAssumption
     DEF WorkerStart, WorkerRestored, WorkerRestoreFails, WorkerStops, WorkerEndOfFile,
         WorkerReadFails, ExitSilently, Exit, LoopUnlessPaused, MutexHeld, MutexHolders
<1>4. ASSUME WorkerDispatches \/ LineStarts \/ OnErrorStarts
      PROVE  MutexHeld'
  BY <1>4, ProcsAssumption, AppendProperties
     DEF WorkerDispatches, LineStarts, OnErrorStarts, Lock!Locked, Lock!Arrive, Lock!Grant,
         MutexHeld, MutexHolders, LockTypeOK
<1>5. ASSUME LineEnds \/ LineCrashes \/ OnErrorCancels \/ OnErrorEnds
      PROVE  MutexHeld'
  BY <1>5, ProcsAssumption
     DEF LineEnds, LineCrashes, OnErrorCancels, OnErrorEnds, Lock!Leave, ExitSilently,
         Exit, LoopUnlessPaused, MutexHeld, MutexHolders
<1>6. ASSUME LineFails \/ LineSwitches
      PROVE  MutexHeld'
  <2> USE DEF LineFails, LineSwitches, RunsAnother
  <2>1. CASE Len(line) = 1
    BY <1>6, <2>1, ProcsAssumption DEF MutexHeld, MutexHolders
  <2>2. CASE Len(line) # 1
    <3>1. inside = {"sd"} /\ line # <<>>
      BY <1>6 DEF MutexHeld, MutexHolders
    <3>2. line' # <<>>
      BY <1>6, <2>2, <3>1, HeadTailProperties, AppendProperties DEF LockTypeOK
    <3> QED
      BY <1>6, <2>2, <3>1, <3>2, ProcsAssumption DEF MutexHeld, MutexHolders
  <2> QED
    BY <2>1, <2>2
<1>7. ASSUME NEW p \in Procs,
             ClientSubmits(p) \/ RunoutSubmits(p) \/ CancelRequest(p)
      PROVE  MutexHeld'
  BY <1>7, SubmitKeepsMutex, StayOutKeepsMutex
     DEF ClientSubmits, RunoutSubmits, CancelRequest, Submit, OutsideMutex
<1>8. ASSUME NEW p \in Procs, ScriptStarts(p)
      PROVE  MutexHeld'
  <2>1. MutexHolders' = {p}
    BY <1>8, HoldersOfMove DEF ScriptStarts, Lock!Grant, MutexHeld, OutsideMutex
  <2> QED
    BY <1>8, <2>1 DEF ScriptStarts, Lock!Grant, MutexHeld
<1>9. ASSUME NEW p \in Procs, Runout(p) \/ RunoutReturns(p)
      PROVE  MutexHeld'
  BY <1>9, StayOutKeepsMutex DEF Runout, RunoutReturns, OutsideMutex
<1>10. ASSUME NEW p \in Procs, CancelRequestReturns(p)
      PROVE  MutexHeld'
  <2>1. p \notin inside
    BY <1>10, ProcsAssumption DEF CancelRequestReturns, MutexHeld, MutexHolders, OutsideMutex
  <2> QED
    BY <1>10, <2>1, SubmitKeepsMutex, StayOutKeepsMutex
       DEF CancelRequestReturns, Submit, Crash, OutsideMutex
<1>11. ASSUME NEW p \in Procs, M24(p) \/ RestoreEnds(p)
      PROVE  MutexHeld'
  BY <1>11, StayKeepsMutex
     DEF M24, RestoreEnds, Runs, GoOn, Resume, WorkerFlags, InCommand, OutsideMutex
<1>12. ASSUME NEW p \in Procs,
              M26(p) \/ M25(p) \/ M25Returns(p) \/ SDCARD_RESET_FILE(p) \/ RESUME(p)
                \/ CLEAR_PAUSE(p) \/ CANCEL_PRINT(p)
      PROVE  MutexHeld'
  BY <1>12, StayKeepsMutex
     DEF M26, M25, M25Returns, SDCARD_RESET_FILE, RESUME, CLEAR_PAUSE, CANCEL_PRINT,
         PauseThen, CloseReset, CloseCancelled, Runs, GoOn, OutsideMutex
<1>13. ASSUME NEW p \in Procs, ScriptEnds(p) \/ RestoreFails(p)
      PROVE  MutexHeld'
  BY <1>13, LeaveKeepsMutex DEF ScriptEnds, RestoreFails, Finish, OutsideMutex
<1>14. ASSUME NEW p \in Procs, StartLoad(p) \/ ExtractionEnds(p)
      PROVE  MutexHeld'
  BY <1>14, StayKeepsMutex, LeaveKeepsMutex
     DEF StartLoad, ExtractionEnds, LoadFails, Opened, Finish, Runs, OutsideMutex
<1>15. ASSUME NEW p \in Procs, ScanEnds(p)
      PROVE  MutexHeld'
  BY <1>15, StayKeepsMutex, LeaveKeepsMutex
     DEF ScanEnds, GoOn, Finish, Resume, WorkerFlags, InCommand, OutsideMutex
<1>16. ASSUME NEW p \in Procs, PAUSE(p) \/ PauseReturns(p)
      PROVE  MutexHeld'
  BY <1>16, StayKeepsMutex, LeaveKeepsMutex
     DEF PAUSE, PauseReturns, PauseDone, GoOn, Finish, Runs, OutsideMutex
<1>17. ASSUME NEW p \in Procs, ResetReturns(p) \/ CancelReturns(p)
      PROVE  MutexHeld'
  <2>1. inside = {p}
    BY <1>17 DEF ResetReturns, CancelReturns, MutexHeld, MutexHolders, OutsideMutex
  <2> QED
    BY <1>17, <2>1, StayKeepsMutex, LeaveKeepsMutex
       DEF ResetReturns, CancelReturns, CloseReset, CloseCancelled, GoOn, Crash, OutsideMutex
<1> QED
  BY <1>1, <1>2, <1>3, <1>4, <1>5, <1>6, <1>7, <1>8, <1>9, <1>10, <1>11, <1>12, <1>13,
     <1>14, <1>15, <1>16, <1>17
     DEF Next, Worker, Proc, Rest, vars, MediaFails, Shutdown
LEMMA LoadExcludesWorkerStep ==
    ASSUME TypeOK, WorkerFlags, MutexHeld, LoadExcludesWorker, Next
    PROVE  LoadExcludesWorker'
<1> USE ProcsAssumption DEF
     sdVars, workerVars, statsVars, pauseVars, lockVars, procVars, envVars, TypeOK,
     ProcTypeOK, WorkerFlags, MutexHeld, LoadExcludesWorker, ProcStates, Pausers,
     Scripts, AllCommands, LoadCommands, InCommand, MutexHolders, OutsideMutex
<1>1. ASSUME UNCHANGED <<pc, work_timer, current_file, state>>
      PROVE  LoadExcludesWorker'
  BY <1>1
<1>2. ASSUME WorkerReads \/ WorkerDispatches \/ LinePauses \/ LineClearsPause
           \/ LineSkips \/ LineSwitches \/ LineStarts \/ LineFails \/ OnErrorStarts
      PROVE  LoadExcludesWorker'
  BY <1>1, <1>2
     DEF WorkerReads, WorkerDispatches, LinePauses, LineClearsPause, LineSkips,
         LineSwitches, LineStarts, LineFails, OnErrorStarts
<1>3. ASSUME WorkerStart \/ WorkerRestored \/ WorkerRestoreFails \/ WorkerStops
           \/ WorkerEndOfFile
      PROVE  LoadExcludesWorker'
  BY <1>3
     DEF WorkerStart, WorkerRestored, WorkerRestoreFails, WorkerStops, WorkerEndOfFile,
         ExitSilently, Exit, NoteStart, LoopUnlessPaused, NotePause, NoteFinish
<1>4. ASSUME WorkerReadFails \/ LineCancels \/ LineEnds \/ LineCrashes \/ OnErrorCancels
      PROVE  LoadExcludesWorker'
  BY <1>4
     DEF WorkerReadFails, LineCancels, LineEnds, LineCrashes, OnErrorCancels, Exit,
         NotePause, NoteFinish, CloseCancelled, LoopUnlessPaused, ExitSilently
<1>5. ASSUME OnErrorEnds
      PROVE  LoadExcludesWorker'
  BY <1>5 DEF OnErrorEnds, Exit, NoteFinish
<1>6. ASSUME NEW p \in Procs, M24(p)
      PROVE  LoadExcludesWorker'
  BY <1>6 DEF M24, Runs, Resume, GoOn
<1>7. ASSUME NEW p \in Procs, StartLoad(p)
      PROVE  LoadExcludesWorker'
  BY <1>7 DEF StartLoad, Runs, Opened, Reset, LoadFails, Finish
<1>8. ASSUME NEW p \in Procs, ScanEnds(p)
      PROVE  LoadExcludesWorker'
  BY <1>8 DEF ScanEnds, Reset, GoOn, Finish, Resume
<1>9. ASSUME NEW p \in Procs, RestoreEnds(p)
      PROVE  LoadExcludesWorker'
  BY <1>9 DEF RestoreEnds, GoOn, Resume
<1>10. ASSUME NEW p \in Procs, ClientSubmits(p) \/ ScriptStarts(p) \/ ScriptEnds(p)
           \/ M26(p) \/ M25(p)
      PROVE  LoadExcludesWorker'
  BY <1>10
     DEF ClientSubmits, ScriptStarts, ScriptEnds, M26, M25, Submit, SubmitAt, Finish,
         Runs, GoOn, PauseThen, Waits
<1>11. ASSUME NEW p \in Procs, M25Returns(p) \/ SDCARD_RESET_FILE(p) \/ ResetReturns(p)
           \/ ExtractionEnds(p) \/ PAUSE(p)
      PROVE  LoadExcludesWorker'
  BY <1>11
     DEF M25Returns, SDCARD_RESET_FILE, ResetReturns, ExtractionEnds, PAUSE, Waits, GoOn,
         Runs, CloseReset, Reset, PauseThen, Crash, Opened, Finish, PauseDone
<1>12. ASSUME NEW p \in Procs, PauseReturns(p) \/ RESUME(p) \/ RestoreFails(p)
           \/ CLEAR_PAUSE(p) \/ CANCEL_PRINT(p)
      PROVE  LoadExcludesWorker'
  BY <1>12
     DEF PauseReturns, RESUME, RestoreFails, CLEAR_PAUSE, CANCEL_PRINT, Waits, PauseDone,
         GoOn, Finish, Runs, PauseThen, CloseCancelled, NoteFinish
<1>13. ASSUME NEW p \in Procs, CancelReturns(p) \/ CancelRequest(p)
           \/ CancelRequestReturns(p) \/ Runout(p) \/ RunoutReturns(p)
      PROVE  LoadExcludesWorker'
  BY <1>13
     DEF CancelReturns, CancelRequest, CancelRequestReturns, Runout, RunoutReturns,
         Waits, CloseCancelled, NoteFinish, GoOn, Crash, SubmitAt, Submit
<1>14. ASSUME NEW p \in Procs, RunoutSubmits(p)
      PROVE  LoadExcludesWorker'
  BY <1>14 DEF RunoutSubmits, Submit, SubmitAt
<1> QED
  BY <1>1, <1>2, <1>3, <1>4, <1>5, <1>6, <1>7, <1>8, <1>9, <1>10, <1>11, <1>12, <1>13,
     <1>14
     DEF Next, Worker, Proc, Rest, vars, MediaFails, Shutdown

LEMMA BufferMatchesFileStep ==
    ASSUME TypeOK, WorkerFlags, LoadExcludesWorker, BufferMatchesFile, Next
    PROVE  BufferMatchesFile'
<1> USE DEF sdVars, workerVars, statsVars, pauseVars, lockVars, procVars, envVars
<1>1. /\ file_position \in 0 .. NLines /\ next_file_position \in 0 .. NLines
      /\ read_position \in 0 .. NLines /\ line_end \in 0 .. NLines
      /\ NLines \in Nat /\ Len(lines) \in Nat
  BY BufferFacts, BoundsAssumption DEF TypeOK, FileTypeOK, WorkerTypeOK
<1>2. ASSUME UNCHANGED <<sdpc, lines, line_end, file_position, current_file>>,
             must_pause_work => must_pause_work',
             must_pause_work' \/ UNCHANGED read_position
      PROVE  BufferMatchesFile'
  BY <1>2 DEF BufferMatchesFile
\* An empty buffer is right when the file has been sought to its position.
<1>3. ASSUME lines' = <<>>, file_position' \in 0 .. NLines,
             sdpc' \in {"restore", "loop"} /\ current_file' # 0 =>
                 must_pause_work' \/ read_position' = file_position',
             sdpc' \notin {"command", "relock"}
      PROVE  BufferMatchesFile'
  <2>1. Len(lines') = 0 /\ DOMAIN lines' = {}
    BY <1>3
  <2>2. file_position' + Len(lines') = file_position' /\ file_position' <= NLines
    <3>1. file_position' \in Nat /\ file_position' <= NLines
      BY <1>1, <1>3
    <3>2. file_position' + 0 = file_position'
      <4>1. \A n \in Nat : n + 0 = n
        OBVIOUS
      <4> QED
        BY <3>1, <4>1
    <3> QED
      BY <2>1, <3>1, <3>2
  <2> QED
    BY <1>3, <2>1, <2>2 DEF BufferMatchesFile
\* Closing the file leaves only the bounds to keep.
<1>4. ASSUME UNCHANGED workerVars, current_file' = 0, file_position' \in {0, file_position}
      PROVE  BufferMatchesFile'
  BY <1>1, <1>4 DEF BufferMatchesFile
\* While no worker runs, the file may change at will.
<1>5. ASSUME ~work_timer, UNCHANGED lines, sdpc' \in {sdpc, "armed"}
      PROVE  BufferMatchesFile'
  BY <1>5 DEF BufferMatchesFile, WorkerFlags
<1>6. ASSUME LinePauses \/ LineClearsPause \/ LineSkips \/ LineCancels
      PROVE  BufferMatchesFile'
  BY <1>2, <1>4, <1>6
     DEF LinePauses, LineClearsPause, LineSkips, LineCancels, CloseCancelled, RequestPause
<1>7. ASSUME WorkerStart \/ WorkerRestored \/ WorkerRestoreFails \/ WorkerStops
           \/ WorkerEndOfFile \/ WorkerReadFails
      PROVE  BufferMatchesFile'
  <2>1. lines' = <<>> /\ UNCHANGED file_position /\ sdpc' \notin {"command", "relock"}
    BY <1>7
       DEF WorkerStart, WorkerRestored, WorkerRestoreFails, WorkerStops, WorkerEndOfFile,
           WorkerReadFails, ExitSilently, Exit, LoopUnlessPaused, BufferMatchesFile
  <2>2. sdpc' \in {"restore", "loop"} /\ current_file' # 0 =>
            must_pause_work' \/ read_position' = file_position'
    BY <1>7
       DEF WorkerStart, WorkerRestored, WorkerRestoreFails, WorkerStops, WorkerEndOfFile,
           WorkerReadFails, ExitSilently, Exit, LoopUnlessPaused, BufferMatchesFile
  <2> QED
    BY <1>1, <1>3, <2>1, <2>2
<1>8. ASSUME WorkerReads
      PROVE  BufferMatchesFile'
  <2>1. PICK n \in 1 .. NLines - read_position :
             /\ lines' = [i \in 1 .. n |-> <<current_file, read_position + i>>]
             /\ read_position' = read_position + n
    BY <1>8 DEF WorkerReads
  <2>2. read_position = file_position
    BY <1>1, <1>8, EmptySeq DEF WorkerReads, BufferMatchesFile
  <2>3. Len(lines') = n /\ DOMAIN lines' = 1 .. n /\ n \in Nat
    BY <1>1, <2>1
  <2> QED
    BY <1>1, <1>8, <2>1, <2>2, <2>3 DEF WorkerReads, BufferMatchesFile
<1>9. ASSUME WorkerDispatches
      PROVE  BufferMatchesFile'
  <2>1. /\ sdpc = "loop" /\ sdpc' = "command"
        /\ line_end' = file_position + 1 /\ UNCHANGED <<current_file, read_position>>
    BY <1>9 DEF WorkerDispatches
  <2>5. UNCHANGED must_pause_work
    BY <1>9 DEF WorkerDispatches
  <2>2. /\ Len(lines') = Len(lines) - 1 /\ Len(lines) > 0
        /\ DOMAIN lines' = 1 .. Len(lines) - 1 /\ DOMAIN lines = 1 .. Len(lines)
        /\ \A i \in 1 .. Len(lines) - 1 : lines'[i] = lines[i + 1]
    <3>1. lines # <<>> /\ lines' = Tail(lines)
      BY <1>9 DEF WorkerDispatches
    <3>2. Tail(lines) \in Seq((1 .. MaxJobs) \X (1 .. NLines))
      BY <3>1, BufferFacts
    <3> QED
      BY <3>1, <3>2, BufferFacts, LenProperties
  <2>3. line_end' + Len(lines') <= NLines
    BY <1>1, <2>1, <2>2 DEF BufferMatchesFile
  <2>4. ASSUME current_file' # 0
        PROVE  /\ must_pause_work' \/ read_position' = line_end' + Len(lines')
               /\ \A i \in DOMAIN lines' : lines'[i] = <<current_file', line_end' + i>>
    <3>1. ~must_pause_work => read_position' = line_end' + Len(lines')
      <4>1. ~must_pause_work => read_position = file_position + Len(lines)
        BY <2>1, <2>4 DEF BufferMatchesFile
      <4>2. (file_position + 1) + (Len(lines) - 1) = file_position + Len(lines)
        BY <1>1
      <4> QED
        BY <2>1, <2>2, <4>1, <4>2
    <3>2. ASSUME NEW i \in DOMAIN lines'
          PROVE  lines'[i] = <<current_file', line_end' + i>>
      <4>1. i \in 1 .. Len(lines) - 1 /\ i + 1 \in DOMAIN lines
        BY <1>1, <2>2
      <4>2. lines[i + 1] = <<current_file, file_position + (i + 1)>>
        BY <2>1, <2>4, <4>1 DEF BufferMatchesFile
      <4>3. line_end' + i = file_position + (i + 1)
        BY <1>1, <2>1, <4>1
      <4> QED
        BY <2>1, <2>2, <4>1, <4>2, <4>3
    <3> QED
      BY <3>1, <3>2, <2>5
  <2> QED
    BY <2>1, <2>3, <2>4 DEF BufferMatchesFile
<1>10. ASSUME LineEnds
       PROVE  BufferMatchesFile'
  <2>1. CASE next_file_position = line_end
    BY <1>1, <1>3, <1>10, <2>1 DEF LineEnds, Exit, LoopUnlessPaused, BufferMatchesFile
  <2>2. CASE next_file_position # line_end
    BY <1>1, <1>3, <1>10, <2>2 DEF LineEnds, ExitSilently, Exit, LoopUnlessPaused
  <2> QED
    BY <2>1, <2>2
<1>11. ASSUME LineCrashes \/ OnErrorCancels \/ OnErrorEnds
       PROVE  BufferMatchesFile'
  BY <1>1, <1>3, <1>11 DEF LineCrashes, OnErrorCancels, OnErrorEnds, Exit
<1>12. ASSUME LineSwitches \/ LineStarts \/ LineFails \/ OnErrorStarts
       PROVE  BufferMatchesFile'
  BY <1>12
     DEF LineSwitches, LineStarts, LineFails, OnErrorStarts, RunsAnother, BufferMatchesFile
<1>13. ASSUME NEW p \in Procs,
              M24(p) \/ M26(p) \/ StartLoad(p) \/ ScanEnds(p) \/ ExtractionEnds(p)
                \/ RestoreEnds(p)
       PROVE  BufferMatchesFile'
  BY <1>2, <1>5, <1>13
     DEF M24, M26, StartLoad, ScanEnds, ExtractionEnds, RestoreEnds, Resume,
         LoadExcludesWorker
<1>14. ASSUME NEW p \in Procs,
              SDCARD_RESET_FILE(p) \/ ResetReturns(p) \/ CANCEL_PRINT(p) \/ CancelReturns(p)
                \/ CancelRequest(p) \/ CancelRequestReturns(p)
       PROVE  BufferMatchesFile'
  BY <1>2, <1>4, <1>14
     DEF SDCARD_RESET_FILE, ResetReturns, CANCEL_PRINT, CancelReturns, CancelRequest,
         CancelRequestReturns, PauseThen, CloseReset, CloseCancelled, Crash, RequestPause
<1>15. ASSUME NEW p \in Procs,
              ClientSubmits(p) \/ ScriptStarts(p) \/ ScriptEnds(p) \/ M25(p) \/ M25Returns(p)
                \/ PAUSE(p) \/ PauseReturns(p) \/ RESUME(p) \/ RestoreFails(p)
                \/ CLEAR_PAUSE(p) \/ Runout(p) \/ RunoutReturns(p) \/ RunoutSubmits(p)
       PROVE  BufferMatchesFile'
  BY <1>2, <1>15
     DEF ClientSubmits, ScriptStarts, ScriptEnds, M25, M25Returns, PAUSE, PauseReturns,
         RESUME, RestoreFails, CLEAR_PAUSE, Runout, RunoutReturns, RunoutSubmits, PauseThen,
         RequestPause
<1>16. ASSUME Shutdown
       PROVE  BufferMatchesFile'
  BY <1>2, <1>16 DEF Shutdown, RequestPause, ReadForLog
<1> QED
  BY <1>2, <1>6, <1>7, <1>8, <1>9, <1>10, <1>11, <1>12, <1>13, <1>14, <1>15, <1>16
     DEF Next, Worker, Proc, Rest, vars, MediaFails

LEMMA StateMatchesFileStep ==
    ASSUME WorkerFlags, LoadExcludesWorker, StateMatchesFile, WorkerReports, Next
    PROVE  StateMatchesFile'
<1> USE DEF
     sdVars, workerVars, statsVars, pauseVars, lockVars, procVars, envVars, WorkerFlags,
     LoadExcludesWorker, StateMatchesFile, WorkerReports, InCommand
<1>1. ASSUME UNCHANGED <<state, started, current_file>>
      PROVE  StateMatchesFile'
  BY <1>1
<1>2. ASSUME WorkerReads \/ WorkerDispatches \/ LinePauses \/ LineClearsPause
           \/ LineSkips \/ LineSwitches \/ LineStarts \/ LineFails \/ OnErrorStarts
      PROVE  StateMatchesFile'
  BY <1>1, <1>2
     DEF WorkerReads, WorkerDispatches, LinePauses, LineClearsPause, LineSkips,
         LineSwitches, LineStarts, LineFails, OnErrorStarts
<1>3. ASSUME NEW p \in Procs, ClientSubmits(p) \/ ScriptStarts(p) \/ ScriptEnds(p)
           \/ M24(p) \/ M26(p) \/ M25(p) \/ M25Returns(p) \/ PAUSE(p) \/ PauseReturns(p)
           \/ RESUME(p) \/ RestoreEnds(p) \/ RestoreFails(p) \/ CLEAR_PAUSE(p)
           \/ Runout(p) \/ RunoutReturns(p) \/ RunoutSubmits(p)
      PROVE  StateMatchesFile'
  BY <1>1, <1>3
     DEF ClientSubmits, ScriptStarts, ScriptEnds, M24, M26, M25, M25Returns, PAUSE,
         PauseReturns, RESUME, RestoreEnds, RestoreFails, CLEAR_PAUSE, Runout,
         RunoutReturns, RunoutSubmits, PauseThen
<1>4. ASSUME WorkerStart \/ WorkerRestored \/ WorkerRestoreFails \/ WorkerStops
           \/ WorkerEndOfFile
      PROVE  StateMatchesFile'
  BY <1>4
     DEF WorkerStart, WorkerRestored, WorkerRestoreFails, WorkerStops, WorkerEndOfFile,
         ExitSilently, Exit, NoteStart, LoopUnlessPaused, NotePause, NoteFinish
<1>5. ASSUME WorkerReadFails \/ LineCancels \/ LineEnds \/ LineCrashes \/ OnErrorCancels
      PROVE  StateMatchesFile'
  BY <1>5
     DEF WorkerReadFails, LineCancels, LineEnds, LineCrashes, OnErrorCancels, Exit,
         NotePause, NoteFinish, CloseCancelled, LoopUnlessPaused, ExitSilently
<1>6. ASSUME OnErrorEnds
      PROVE  StateMatchesFile'
  BY <1>6 DEF OnErrorEnds, Exit, NoteFinish
<1>7. ASSUME NEW p \in Procs, SDCARD_RESET_FILE(p) \/ ResetReturns(p) \/ StartLoad(p)
           \/ ExtractionEnds(p) \/ ScanEnds(p)
      PROVE  StateMatchesFile'
  BY <1>7
     DEF SDCARD_RESET_FILE, ResetReturns, StartLoad, ExtractionEnds, ScanEnds, Runs,
         CloseReset, Reset, PauseThen, Crash, Opened, LoadFails
<1>8. ASSUME NEW p \in Procs, CANCEL_PRINT(p) \/ CancelReturns(p) \/ CancelRequest(p)
           \/ CancelRequestReturns(p)
      PROVE  StateMatchesFile'
  BY <1>8
     DEF CANCEL_PRINT, CancelReturns, CancelRequest, CancelRequestReturns, Runs,
         PauseThen, CloseCancelled, NoteFinish, Crash
<1> QED
  BY <1>1, <1>2, <1>3, <1>4, <1>5, <1>6, <1>7, <1>8
     DEF Next, Worker, Proc, Rest, vars, MediaFails, Shutdown

LEMMA WorkerReportsStep ==
    ASSUME TypeOK, WorkerFlags, MutexHeld, LoadExcludesWorker, StateMatchesFile, WorkerReports, Next
    PROVE  WorkerReports'
<1> USE DEF
     sdVars, workerVars, statsVars, pauseVars, lockVars, procVars, envVars, TypeOK,
     WorkerFlags, LoadExcludesWorker, StateMatchesFile, WorkerReports, InCommand
<1>1. ASSUME UNCHANGED <<state, started, current_file, sdpc, media_ok>>
      PROVE  WorkerReports'
  BY <1>1
<1>2. ASSUME WorkerReads \/ LinePauses \/ LineClearsPause \/ LineSkips
      PROVE  WorkerReports'
  BY <1>1, <1>2 DEF WorkerReads, LinePauses, LineClearsPause, LineSkips
<1>3. ASSUME NEW p \in Procs, ClientSubmits(p) \/ ScriptStarts(p) \/ ScriptEnds(p)
           \/ M26(p) \/ M25(p) \/ M25Returns(p) \/ PAUSE(p) \/ PauseReturns(p)
           \/ RESUME(p) \/ RestoreFails(p) \/ CLEAR_PAUSE(p) \/ Runout(p)
           \/ RunoutReturns(p) \/ RunoutSubmits(p)
      PROVE  WorkerReports'
  BY <1>1, <1>3
     DEF ClientSubmits, ScriptStarts, ScriptEnds, M26, M25, M25Returns, PAUSE,
         PauseReturns, RESUME, RestoreFails, CLEAR_PAUSE, Runout, RunoutReturns,
         RunoutSubmits, PauseThen
<1>4. ASSUME WorkerStart \/ WorkerRestored \/ WorkerRestoreFails \/ WorkerStops
           \/ WorkerEndOfFile
      PROVE  WorkerReports'
  BY <1>4
     DEF WorkerStart, WorkerRestored, WorkerRestoreFails, WorkerStops, WorkerEndOfFile,
         ExitSilently, Exit, NoteStart, LoopUnlessPaused, NotePause, NoteFinish
<1>5. ASSUME WorkerReadFails \/ WorkerDispatches \/ LineCancels \/ LineSwitches
           \/ LineStarts
      PROVE  WorkerReports'
  BY <1>5
     DEF WorkerReadFails, WorkerDispatches, LineCancels, LineSwitches, LineStarts, Exit,
         NotePause, NoteFinish, CloseCancelled, RunsAnother
<1>6. ASSUME LineEnds \/ LineFails \/ LineCrashes \/ OnErrorStarts \/ OnErrorCancels
      PROVE  WorkerReports'
  BY <1>6
     DEF LineEnds, LineFails, LineCrashes, OnErrorStarts, OnErrorCancels,
         LoopUnlessPaused, Exit, NotePause, NoteFinish, ExitSilently, RunsAnother
<1>7. ASSUME OnErrorEnds
      PROVE  WorkerReports'
  BY <1>7 DEF OnErrorEnds, Exit, NoteFinish
<1>8. ASSUME NEW p \in Procs, M24(p) \/ SDCARD_RESET_FILE(p) \/ ResetReturns(p)
           \/ StartLoad(p) \/ ExtractionEnds(p)
      PROVE  WorkerReports'
  BY <1>8
     DEF M24, SDCARD_RESET_FILE, ResetReturns, StartLoad, ExtractionEnds, Runs, Resume,
         CloseReset, Reset, PauseThen, Waits, Crash, Opened, LoadFails
<1>9. ASSUME NEW p \in Procs, ScanEnds(p) \/ RestoreEnds(p) \/ CANCEL_PRINT(p)
           \/ CancelReturns(p) \/ CancelRequest(p)
      PROVE  WorkerReports'
  BY <1>9
     DEF ScanEnds, RestoreEnds, CANCEL_PRINT, CancelReturns, CancelRequest, Reset,
         Resume, Runs, PauseThen, Waits, CloseCancelled, NoteFinish, Crash
<1>10. ASSUME NEW p \in Procs, CancelRequestReturns(p)
      PROVE  WorkerReports'
  BY <1>10 DEF CancelRequestReturns, Waits, CloseCancelled, NoteFinish, Crash
<1>11. ASSUME MediaFails
      PROVE  WorkerReports'
  BY <1>11 DEF MediaFails
<1> QED
  BY <1>1, <1>2, <1>3, <1>4, <1>5, <1>6, <1>7, <1>8, <1>9, <1>10, <1>11
     DEF Next, Worker, Proc, Rest, vars, Shutdown

-----------------------------------------------------------------------------
(* IInv is inductive.                                                      *)

LEMMA InitEstablishesIInv == Init => IInv
<1> SUFFICES ASSUME Init
             PROVE  IInv
  OBVIOUS
<1> USE DEF Init, StatsInit, Lock!Init
<1>1. FileTypeOK /\ EnvTypeOK
  BY BoundsAssumption DEF FileTypeOK, EnvTypeOK
<1>2. FlagTypeOK /\ ReportTypeOK
  BY DEF FlagTypeOK, ReportTypeOK, JobStates
<1>3. WorkerTypeOK
  BY EmptySeq, BoundsAssumption DEF WorkerTypeOK, WorkerStates
<1>4. LockTypeOK
  BY EmptySeq DEF LockTypeOK
<1>5. ProcTypeOK
  BY DEF ProcTypeOK, ProcStates, Scripts
<1>6. WorkerFlags /\ LoadExcludesWorker /\ BufferMatchesFile
  BY DEF WorkerFlags, InCommand, LoadExcludesWorker, BufferMatchesFile
<1>7. MutexHeld
  <2>1. MutexHolders = {}
    BY DEF MutexHolders, OutsideMutex
  <2> QED
    BY <2>1 DEF MutexHeld
<1>8. StateMatchesFile /\ WorkerReports
  BY DEF StateMatchesFile, WorkerReports
<1> QED
  BY <1>1, <1>2, <1>3, <1>4, <1>5, <1>6, <1>7, <1>8 DEF IInv, TypeOK

LEMMA NextPreservesIInv == IInv /\ [Next]_vars => IInv'
<1>1. ASSUME IInv, Next
      PROVE  IInv'
  BY <1>1, FileTypeOKStep, FlagTypeOKStep, WorkerTypeOKStep, ReportTypeOKStep,
     LockTypeOKStep, ProcTypeOKStep, EnvTypeOKStep, WorkerFlagsStep, MutexHeldStep,
     LoadExcludesWorkerStep, BufferMatchesFileStep, StateMatchesFileStep, WorkerReportsStep
     DEF IInv, TypeOK
<1>2. ASSUME IInv, UNCHANGED vars
      PROVE  IInv'
  <2> USE <1>2 DEF vars, sdVars, workerVars, statsVars, pauseVars, lockVars, procVars, envVars
  <2>1. TypeOK'
    BY DEF IInv, TypeOK, FileTypeOK, FlagTypeOK, WorkerTypeOK, ReportTypeOK, LockTypeOK,
           ProcTypeOK, EnvTypeOK
  <2>2. MutexHeld'
    BY DEF IInv, MutexHeld, MutexHolders
  <2>3. WorkerFlags' /\ LoadExcludesWorker' /\ BufferMatchesFile'
    BY DEF IInv, WorkerFlags, LoadExcludesWorker, BufferMatchesFile
  <2>4. StateMatchesFile' /\ WorkerReports'
    BY DEF IInv, StateMatchesFile, WorkerReports
  <2> QED
    BY <2>1, <2>2, <2>3, <2>4 DEF IInv
<1> QED
  BY <1>1, <1>2

\* The inductive invariant holds in every state the printer reaches.
THEOREM PrintJobInvariant == Spec => []IInv
<1> QED
  BY InitEstablishesIInv, NextPreservesIInv, PTL DEF Spec
-----------------------------------------------------------------------------
(* What follows from it.                                                   *)

\* Every variable keeps its type: no position or job counter leaves its range.
THEOREM TypesAreKept == Spec => []TypeOK
<1>1. IInv => TypeOK
  BY DEF IInv
<1> QED
  BY <1>1, PrintJobInvariant, PTL

\* work_handler leaves by no path with work_timer or cmd_from_sd wrong, so
\* do_pause() and "SD busy" never see a worker that is not there.
THEOREM FlagsTellTheWorker == Spec => []WorkerFlags
<1>1. IInv => WorkerFlags
  BY DEF IInv
<1> QED
  BY <1>1, PrintJobInvariant, PTL

\* However a print is paused, resumed, sought or cancelled, the lines in the
\* buffer of work_handler are the ones that follow file_position.
THEOREM NoLineIsLost == Spec => []NoLineLost
<1>1. IInv => NoLineLost
  BY DEF IInv, BufferMatchesFile, NoLineLost
<1> QED
  BY <1>1, PrintJobInvariant, PTL

\* print_stats agrees with virtual_sdcard about the file.
THEOREM StateAgreesWithFile == Spec => []StateMatchesFile
<1>1. IInv => StateMatchesFile
  BY DEF IInv
<1> QED
  BY <1>1, PrintJobInvariant, PTL

\* "printing" is reported only while a worker is there to print.
THEOREM PrintingIsTrue == Spec => []PrintingHasWorker
<1>1. IInv => PrintingHasWorker
  BY DEF IInv, WorkerFlags, WorkerReports, PrintingHasWorker
<1> QED
  BY <1>1, PrintJobInvariant, PTL

-----------------------------------------------------------------------------
(* The two scenarios of MCPrintJob: without M24, and with one job, a pause *)
(* and a cancel are heeded.                                                *)

\* What a greenlet does where M24 is no command and the first job is the only one.
OneJobProc(p) ==
    \/ ClientSubmits(p) \/ ScriptStarts(p) \/ ScriptEnds(p)
    \/ M26(p) \/ M25(p) \/ M25Returns(p)
    \/ SDCARD_RESET_FILE(p) \/ ResetReturns(p)
    \/ ExtractionEnds(p) \/ ScanEnds(p)
    \/ PAUSE(p) \/ PauseReturns(p)
    \/ RestoreEnds(p) \/ RestoreFails(p) \/ CLEAR_PAUSE(p)
    \/ CANCEL_PRINT(p) \/ CancelReturns(p)
    \/ CancelRequest(p) \/ CancelRequestReturns(p)
    \/ Runout(p) \/ RunoutReturns(p) \/ RunoutSubmits(p)
    \/ StartLoad(p) /\ jobs = 0

OneJobNext ==
    Worker \/ (\E p \in Procs : OneJobProc(p)) \/ MediaFails \/ Shutdown \/ Rest

ScenariosAssumption == CancelCommands \cup PauseCommands \subseteq Commands /\ MaxJobs >= 1

\* A step of such a scenario is a step of the program, and no M24.
LEMMA ScenarioIsOneJob ==
    ASSUME ScenariosAssumption, TypeOK,
           NEW C, C \subseteq Commands, "M24" \notin C, OneJob(C)!Next
    PROVE  OneJobNext \/ \E p \in Procs : "RESUME" \in C /\ RESUME(p)
<1> USE DEF sdVars, workerVars, statsVars, pauseVars, lockVars, procVars, envVars,
     OneJob!sdVars, OneJob!workerVars, OneJob!statsVars, OneJob!pauseVars,
     OneJob!lockVars, OneJob!procVars, OneJob!envVars
<1>1. ASSUME OneJob(C)!WorkerStart \/ OneJob(C)!WorkerRestored \/
              OneJob(C)!WorkerRestoreFails \/ OneJob(C)!WorkerStops
      PROVE  WorkerStart \/ WorkerRestored \/ WorkerRestoreFails \/ WorkerStops
  BY <1>1
     DEF WorkerStart, OneJob!WorkerStart, ExitSilently, OneJob!ExitSilently, Exit,
         OneJob!Exit, NoteStart, OneJob!NoteStart, WorkerRestored,
         OneJob!WorkerRestored, LoopUnlessPaused, OneJob!LoopUnlessPaused, NotePause,
         OneJob!NotePause, NoteFinish, OneJob!NoteFinish, WorkerRestoreFails,
         OneJob!WorkerRestoreFails, WorkerStops, OneJob!WorkerStops
<1>2. ASSUME OneJob(C)!WorkerReads \/ OneJob(C)!WorkerEndOfFile \/
              OneJob(C)!WorkerReadFails \/ OneJob(C)!WorkerDispatches
      PROVE  WorkerReads \/ WorkerEndOfFile \/ WorkerReadFails \/ WorkerDispatches
  BY <1>2
     DEF WorkerReads, OneJob!WorkerReads, WorkerEndOfFile, OneJob!WorkerEndOfFile, Exit,
         OneJob!Exit, NoteFinish, OneJob!NoteFinish, WorkerReadFails,
         OneJob!WorkerReadFails, NotePause, OneJob!NotePause, WorkerDispatches,
         OneJob!WorkerDispatches, Lock!Locked, OneJob!Lock!Locked, Lock!Arrive,
         OneJob!Lock!Arrive, Lock!Range, OneJob!Lock!Range
<1>3. ASSUME OneJob(C)!LinePauses \/ OneJob(C)!LineCancels \/
              OneJob(C)!LineClearsPause \/ OneJob(C)!LineSkips
      PROVE  LinePauses \/ LineCancels \/ LineClearsPause \/ LineSkips
  BY <1>3
     DEF LinePauses, OneJob!LinePauses, Input, OneJob!Input, RequestPause,
         OneJob!RequestPause, LineCancels, OneJob!LineCancels, CloseCancelled,
         OneJob!CloseCancelled, NoteFinish, OneJob!NoteFinish, ClearPause,
         OneJob!ClearPause, LineClearsPause, OneJob!LineClearsPause, LineSkips,
         OneJob!LineSkips
<1>4. ASSUME OneJob(C)!LineSwitches \/ OneJob(C)!LineStarts \/ OneJob(C)!LineFails
      PROVE  LineSwitches \/ LineStarts \/ LineFails
  BY <1>4
     DEF LineSwitches, OneJob!LineSwitches, Input, OneJob!Input, RunsAnother,
         OneJob!RunsAnother, LineStarts, OneJob!LineStarts, Lock!Grant,
         OneJob!Lock!Grant, LineFails, OneJob!LineFails
<1>5. ASSUME OneJob(C)!LineEnds \/ OneJob(C)!LineCrashes
      PROVE  LineEnds \/ LineCrashes
  BY <1>5
     DEF LineEnds, OneJob!LineEnds, Lock!Leave, OneJob!Lock!Leave, LoopUnlessPaused,
         OneJob!LoopUnlessPaused, Exit, OneJob!Exit, NotePause, OneJob!NotePause,
         NoteFinish, OneJob!NoteFinish, ExitSilently, OneJob!ExitSilently, LineCrashes,
         OneJob!LineCrashes, Input, OneJob!Input, RequestPause, OneJob!RequestPause,
         ReadForLog, OneJob!ReadForLog
<1>6. ASSUME OneJob(C)!OnErrorStarts \/ OneJob(C)!OnErrorCancels \/
              OneJob(C)!OnErrorEnds
      PROVE  OnErrorStarts \/ OnErrorCancels \/ OnErrorEnds
  BY <1>6
     DEF OnErrorStarts, OneJob!OnErrorStarts, Lock!Grant, OneJob!Lock!Grant,
         OnErrorCancels, OneJob!OnErrorCancels, Lock!Leave, OneJob!Lock!Leave,
         ClearPause, OneJob!ClearPause, Exit, OneJob!Exit, NoteFinish,
         OneJob!NoteFinish, OnErrorEnds, OneJob!OnErrorEnds
<1>7. OneJob(C)!Worker => Worker
  BY <1>1, <1>2, <1>3, <1>4, <1>5, <1>6 DEF OneJob!Worker, Worker
<1>8. /\ jobs \in Nat /\ (jobs < 1 => jobs = 0 /\ jobs < MaxJobs)
  BY BoundsAssumption DEF TypeOK, EnvTypeOK, ScenariosAssumption
<1>9. ASSUME NEW p \in Procs, OneJob(C)!ClientSubmits(p) \/ OneJob(C)!ScriptStarts(p) \/
              OneJob(C)!ScriptEnds(p)
      PROVE  ClientSubmits(p) \/ ScriptStarts(p) \/ ScriptEnds(p)
  BY <1>9
     DEF ClientSubmits, OneJob!ClientSubmits, Submit, OneJob!Submit, SubmitAt,
         OneJob!SubmitAt, Lock!Arrive, OneJob!Lock!Arrive, Lock!Range,
         OneJob!Lock!Range, ScriptStarts, OneJob!ScriptStarts, Lock!Grant,
         OneJob!Lock!Grant, ScriptEnds, OneJob!ScriptEnds, Finish, OneJob!Finish,
         Lock!Leave, OneJob!Lock!Leave
<1>10. ASSUME NEW p \in Procs, OneJob(C)!M26(p) \/ OneJob(C)!M25(p) \/ OneJob(C)!M25Returns(p)
      PROVE  M26(p) \/ M25(p) \/ M25Returns(p)
  BY <1>10
     DEF M26, OneJob!M26, Runs, OneJob!Runs, Input, OneJob!Input, GoOn, OneJob!GoOn,
         M25, OneJob!M25, PauseThen, OneJob!PauseThen, RequestPause,
         OneJob!RequestPause, Waits, OneJob!Waits, M25Returns, OneJob!M25Returns
<1>11. ASSUME NEW p \in Procs, OneJob(C)!SDCARD_RESET_FILE(p) \/ OneJob(C)!ResetReturns(p)
      PROVE  SDCARD_RESET_FILE(p) \/ ResetReturns(p)
  BY <1>11
     DEF SDCARD_RESET_FILE, OneJob!SDCARD_RESET_FILE, Runs, OneJob!Runs, Input,
         OneJob!Input, CloseReset, OneJob!CloseReset, Reset, OneJob!Reset, GoOn,
         OneJob!GoOn, PauseThen, OneJob!PauseThen, RequestPause, OneJob!RequestPause,
         Waits, OneJob!Waits, ResetReturns, OneJob!ResetReturns, Crash, OneJob!Crash,
         Lock!Leave, OneJob!Lock!Leave
<1>12. ASSUME NEW p \in Procs, OneJob(C)!StartLoad(p)
      PROVE  StartLoad(p) /\ jobs = 0
  BY <1>12, <1>8
     DEF StartLoad, OneJob!StartLoad, LoadCommands, OneJob!LoadCommands, Runs,
         OneJob!Runs, Input, OneJob!Input, Opened, OneJob!Opened, Reset, OneJob!Reset,
         LoadFails, OneJob!LoadFails, Finish, OneJob!Finish, Lock!Leave,
         OneJob!Lock!Leave
<1>13. ASSUME NEW p \in Procs, OneJob(C)!ExtractionEnds(p) \/ OneJob(C)!ScanEnds(p)
      PROVE  ExtractionEnds(p) \/ ScanEnds(p)
  BY <1>13
     DEF ExtractionEnds, OneJob!ExtractionEnds, Opened, OneJob!Opened, Reset,
         OneJob!Reset, Finish, OneJob!Finish, Lock!Leave, OneJob!Lock!Leave, ScanEnds,
         OneJob!ScanEnds, GoOn, OneJob!GoOn, Resume, OneJob!Resume
<1>14. ASSUME NEW p \in Procs, OneJob(C)!PAUSE(p) \/ OneJob(C)!PauseReturns(p)
      PROVE  PAUSE(p) \/ PauseReturns(p)
  BY <1>14
     DEF PAUSE, OneJob!PAUSE, Runs, OneJob!Runs, Input, OneJob!Input, GoOn, OneJob!GoOn,
         PauseDone, OneJob!PauseDone, Finish, OneJob!Finish, Lock!Leave,
         OneJob!Lock!Leave, RequestPause, OneJob!RequestPause, Waits, OneJob!Waits,
         PauseReturns, OneJob!PauseReturns
<1>15. ASSUME NEW p \in Procs, OneJob(C)!RESUME(p) \/ OneJob(C)!RestoreEnds(p) \/
              OneJob(C)!RestoreFails(p) \/ OneJob(C)!CLEAR_PAUSE(p)
      PROVE  ("RESUME" \in C /\ RESUME(p)) \/ RestoreEnds(p) \/ RestoreFails(p) \/ CLEAR_PAUSE(p)
  BY <1>15
     DEF RESUME, OneJob!RESUME, Runs, OneJob!Runs, Input, OneJob!Input, RestoreEnds,
         OneJob!RestoreEnds, GoOn, OneJob!GoOn, Resume, OneJob!Resume, RestoreFails,
         OneJob!RestoreFails, Finish, OneJob!Finish, Lock!Leave, OneJob!Lock!Leave,
         CLEAR_PAUSE, OneJob!CLEAR_PAUSE, ClearPause, OneJob!ClearPause
<1>16. ASSUME NEW p \in Procs, OneJob(C)!CANCEL_PRINT(p) \/ OneJob(C)!CancelReturns(p)
      PROVE  CANCEL_PRINT(p) \/ CancelReturns(p)
  BY <1>16
     DEF CANCEL_PRINT, OneJob!CANCEL_PRINT, Runs, OneJob!Runs, Input, OneJob!Input,
         ClearPause, OneJob!ClearPause, GoOn, OneJob!GoOn, PauseThen, OneJob!PauseThen,
         RequestPause, OneJob!RequestPause, Waits, OneJob!Waits, CloseCancelled,
         OneJob!CloseCancelled, NoteFinish, OneJob!NoteFinish, CancelReturns,
         OneJob!CancelReturns, Crash, OneJob!Crash, Lock!Leave, OneJob!Lock!Leave
<1>17. ASSUME NEW p \in Procs, OneJob(C)!CancelRequest(p) \/ OneJob(C)!CancelRequestReturns(p)
      PROVE  CancelRequest(p) \/ CancelRequestReturns(p)
  BY <1>17
     DEF CancelRequest, OneJob!CancelRequest, Input, OneJob!Input, Waits, OneJob!Waits,
         RequestPause, OneJob!RequestPause, CloseCancelled, OneJob!CloseCancelled,
         NoteFinish, OneJob!NoteFinish, SubmitAt, OneJob!SubmitAt, Lock!Arrive,
         OneJob!Lock!Arrive, Lock!Range, OneJob!Lock!Range, Submit, OneJob!Submit,
         CancelRequestReturns, OneJob!CancelRequestReturns, Crash, OneJob!Crash,
         Lock!Leave, OneJob!Lock!Leave
<1>18. ASSUME NEW p \in Procs, OneJob(C)!Runout(p) \/ OneJob(C)!RunoutReturns(p) \/
              OneJob(C)!RunoutSubmits(p)
      PROVE  Runout(p) \/ RunoutReturns(p) \/ RunoutSubmits(p)
  BY <1>18
     DEF Runout, OneJob!Runout, Input, OneJob!Input, RequestPause, OneJob!RequestPause,
         Waits, OneJob!Waits, RunoutReturns, OneJob!RunoutReturns, RunoutSubmits,
         OneJob!RunoutSubmits, Submit, OneJob!Submit, SubmitAt, OneJob!SubmitAt,
         Lock!Arrive, OneJob!Lock!Arrive, Lock!Range, OneJob!Lock!Range
<1>19. \A p : ~OneJob(C)!M24(p)
  BY DEF OneJob!M24, OneJob!Runs
<1>20. OneJob(C)!MediaFails \/ OneJob(C)!Shutdown \/ OneJob(C)!Rest => MediaFails \/ Shutdown \/ Rest
  BY DEF MediaFails, OneJob!MediaFails, Input, OneJob!Input, Shutdown, OneJob!Shutdown,
         RequestPause, OneJob!RequestPause, ReadForLog, OneJob!ReadForLog, Rest,
         OneJob!Rest, vars, OneJob!vars
<1>21. ASSUME NEW p \in Procs, OneJob(C)!Proc(p)
      PROVE  OneJobProc(p) \/ ("RESUME" \in C /\ RESUME(p))
  BY <1>9, <1>10, <1>11, <1>12, <1>13, <1>14, <1>15, <1>16, <1>17, <1>18, <1>19, <1>21 DEF OneJob!Proc, OneJobProc
<1> QED
  BY <1>7, <1>20, <1>21 DEF OneJob!Next, OneJobNext

\* Loads a file; waits in do_pause() to close it.
Loading(p) == pc[p] \in {"extracting", "scanning"}
Closing(p) == pc[p] \in {"CANCEL_PRINT", "SDCARD_RESET_FILE", "cancel"}

NotBegun == jobs = 0 \/ \E p \in Procs : Loading(p)

LoadsOnce == jobs \in {0, 1} /\ \A p \in Procs : Loading(p) => jobs = 1

OneJobStep == OneJobNext \/ \E p \in Procs : RESUME(p)

LEMMA OneJobIsNext == OneJobStep => Next
BY DEF OneJobStep, OneJobNext, OneJobProc, Next, Proc

\* The place a greenlet goes to in a step, if any: it begins to load only if
\* nobody has before, and to wait for the worker only after asking it to stop.
Goes(p, s) ==
    /\ pc' = [pc EXCEPT ![p] = s]
    /\ s \in {"extracting", "scanning"} =>
         (pc[p] = "extracting" /\ jobs' = jobs) \/ (jobs = 0 /\ jobs' = 1)
    /\ s \in {"CANCEL_PRINT", "SDCARD_RESET_FILE", "cancel"} => work_timer /\ must_pause_work'

LEMMA WhereGreenletsGo ==
    ASSUME TypeOK, OneJobNext
    PROVE  /\ pc' = pc \/ \E p \in Procs, s \in ProcStates \ {"restoring"} : Goes(p, s)
           /\ jobs' = jobs \/ (jobs = 0 /\ jobs' = 1)
<1> USE DEF sdVars, workerVars, statsVars, pauseVars, lockVars, procVars, envVars
<1>0. must_pause_work \in BOOLEAN /\ work_timer \in BOOLEAN
  BY DEF TypeOK, FlagTypeOK
<1> DEFINE Goal == /\ pc' = pc \/ \E p \in Procs, s \in ProcStates \ {"restoring"} : Goes(p, s)
                   /\ jobs' = jobs \/ (jobs = 0 /\ jobs' = 1)
<1>1. ASSUME pc' = pc, jobs' = jobs
      PROVE  Goal
  BY <1>1
<1>2. ASSUME NEW p \in Procs, NEW s \in {"idle", "lock", "run", "delay", "M25", "PAUSE", "runout"},
             pc' = [pc EXCEPT ![p] = s], jobs' = jobs
      PROVE  Goal
  <2>1. s \in ProcStates \ {"restoring"}
    BY DEF ProcStates, Pausers
  <2> QED
    BY <1>2, <2>1 DEF Goes
<1>3. ASSUME Worker
      PROVE  Goal
  BY <1>1, <1>3
     DEF Worker, WorkerStart, WorkerRestored, WorkerRestoreFails, WorkerStops,
         WorkerReads, WorkerEndOfFile, WorkerReadFails, WorkerDispatches,
         LinePauses, LineCancels, LineClearsPause, LineSkips, LineSwitches,
         LineStarts, LineEnds, LineFails, LineCrashes, OnErrorStarts,
         OnErrorCancels, OnErrorEnds
<1>4. ASSUME MediaFails \/ Shutdown \/ Rest
      PROVE  Goal
  BY <1>1, <1>4 DEF MediaFails, Shutdown, Rest, vars
<1>5. ASSUME NEW p \in Procs, ClientSubmits(p) \/ ScriptStarts(p) \/ ScriptEnds(p) \/ M26(p)
           \/ M25(p) \/ M25Returns(p)
      PROVE  Goal
  <2>1. jobs' = jobs /\ \E s \in {"run", "lock", "idle", "M25"} : pc' = [pc EXCEPT ![p] = s]
    BY <1>5
       DEF ClientSubmits, Submit, SubmitAt, ScriptStarts, ScriptEnds, Finish, M26, M25,
           M25Returns, PauseThen, GoOn
  <2> QED
    BY <1>2, <2>1
<1>6. ASSUME NEW p \in Procs, ScanEnds(p) \/ PAUSE(p) \/ PauseReturns(p)
      PROVE  Goal
  <2>1. jobs' = jobs /\ \E s \in {"run", "idle", "PAUSE"} : pc' = [pc EXCEPT ![p] = s]
    BY <1>6 DEF ScanEnds, PAUSE, PauseReturns, PauseDone, GoOn, Finish
  <2> QED
    BY <1>2, <2>1
<1>7. ASSUME NEW p \in Procs, RestoreEnds(p) \/ RestoreFails(p) \/ CLEAR_PAUSE(p)
           \/ Runout(p) \/ RunoutReturns(p) \/ RunoutSubmits(p)
      PROVE  Goal
  <2>1. jobs' = jobs /\ \E s \in {"run", "idle", "runout", "delay", "lock"} : pc' = [pc EXCEPT ![p] = s]
    BY <1>7
       DEF RestoreEnds, RestoreFails, CLEAR_PAUSE, Runout, RunoutReturns, RunoutSubmits,
           Submit, SubmitAt, GoOn, Finish
  <2> QED
    BY <1>2, <2>1
<1>8. ASSUME NEW p \in Procs, ResetReturns(p) \/ CancelReturns(p) \/ CancelRequestReturns(p)
      PROVE  Goal
  <2>1. jobs' = jobs /\ \E s \in {"run", "idle", "lock"} : pc' = [pc EXCEPT ![p] = s]
    BY <1>8
       DEF ResetReturns, CancelReturns, CancelRequestReturns, Submit, SubmitAt, GoOn, Crash
  <2> QED
    BY <1>2, <2>1
<1>9. ASSUME NEW p \in Procs, SDCARD_RESET_FILE(p) \/ CANCEL_PRINT(p) \/ CancelRequest(p)
      PROVE  Goal
  <2>1. jobs' = jobs
    BY <1>9 DEF SDCARD_RESET_FILE, CANCEL_PRINT, CancelRequest
  <2>2. CASE \E s \in {"run", "lock"} : pc' = [pc EXCEPT ![p] = s]
    BY <1>2, <2>1, <2>2
  <2>3. CASE ~\E s \in {"run", "lock"} : pc' = [pc EXCEPT ![p] = s]
    <3>1. /\ work_timer /\ must_pause_work'
          /\ \E s \in {"SDCARD_RESET_FILE", "CANCEL_PRINT", "cancel"} : pc' = [pc EXCEPT ![p] = s]
      BY <1>0, <1>9, <2>3
         DEF SDCARD_RESET_FILE, CANCEL_PRINT, CancelRequest, PauseThen, RequestPause, Waits,
             GoOn, Submit, SubmitAt
    <3> QED
      BY <2>1, <3>1 DEF Goes, ProcStates, Pausers
  <2> QED
    BY <2>2, <2>3
<1>10. ASSUME NEW p \in Procs, StartLoad(p), jobs = 0
       PROVE  Goal
  <2>1. /\ jobs' = 1
        /\ \E s \in {"scanning", "extracting", "idle"} : pc' = [pc EXCEPT ![p] = s]
    BY <1>10 DEF StartLoad, Opened, LoadFails, Finish
  <2> QED
    BY <1>10, <2>1 DEF Goes, ProcStates
<1>11. ASSUME NEW p \in Procs, ExtractionEnds(p)
       PROVE  Goal
  <2>1. /\ jobs' = jobs /\ pc[p] = "extracting"
        /\ \E s \in {"scanning", "idle"} : pc' = [pc EXCEPT ![p] = s]
    BY <1>11 DEF ExtractionEnds, Opened, Finish
  <2> QED
    BY <2>1 DEF Goes, ProcStates
<1> QED
  BY <1>3, <1>4, <1>5, <1>6, <1>7, <1>8, <1>9, <1>10, <1>11
     DEF OneJobNext, OneJobProc

\* A load begins only if none has begun before.
LEMMA LoadsOnceStep ==
    ASSUME TypeOK, LoadsOnce, OneJobStep
    PROVE  LoadsOnce' /\ (NotBegun' => NotBegun)
<1>1. pc \in [Procs -> ProcStates] /\ jobs \in {0, 1}
  BY DEF TypeOK, ProcTypeOK, LoadsOnce
<1>2. CASE OneJobNext
  <2>1. ASSUME NEW q \in Procs, Loading(q)'
        PROVE  jobs' = 1 /\ NotBegun
    BY <1>1, <1>2, <2>1, WhereGreenletsGo DEF Goes, Loading, LoadsOnce, NotBegun
  <2> QED
    BY <1>1, <1>2, <2>1, WhereGreenletsGo DEF LoadsOnce, NotBegun
<1>3. ASSUME NEW p \in Procs, RESUME(p)
      PROVE  LoadsOnce' /\ (NotBegun' => NotBegun)
  BY <1>1, <1>3 DEF RESUME, LoadsOnce, NotBegun, Loading
<1> QED
  BY <1>2, <1>3 DEF OneJobStep

\* Whoever waits to close the file has asked the worker to stop.
LEMMA ClosingIsAsked ==
    ASSUME TypeOK, OneJobNext, NEW q \in Procs, Closing(q)'
    PROVE  Closing(q) \/ (work_timer /\ must_pause_work')
<1>1. pc \in [Procs -> ProcStates]
  BY DEF TypeOK, ProcTypeOK
<1> QED
  BY <1>1, WhereGreenletsGo DEF Goes, Closing

\* Only do_resume() starts a worker or takes back a request to stop.
LEMMA OnlyResumeRestarts ==
    ASSUME TypeOK, OneJobStep
    PROVE  \/ (must_pause_work => must_pause_work') /\ (sdpc = "off" => sdpc' = "off")
           \/ \E p \in Procs : Resume /\ (ScanEnds(p) \/ (RestoreEnds(p) /\ sd_paused))
<1> USE DEF sdVars, workerVars, statsVars, pauseVars, lockVars, procVars, envVars, RequestPause
<1>0. must_pause_work \in BOOLEAN /\ work_timer \in BOOLEAN
  BY DEF TypeOK, FlagTypeOK
<1> DEFINE Goal == /\ must_pause_work => must_pause_work'
                   /\ sdpc = "off" => sdpc' = "off"
<1>1. ASSUME Worker
      PROVE  Goal
  BY <1>0, <1>1
     DEF Worker, WorkerStart, WorkerRestored, WorkerRestoreFails, WorkerStops,
         WorkerReads, WorkerEndOfFile, WorkerReadFails, WorkerDispatches,
         LinePauses, LineCancels, LineClearsPause, LineSkips, LineSwitches,
         LineStarts, LineEnds, LineFails, LineCrashes, OnErrorStarts,
         OnErrorCancels, OnErrorEnds,
         LoopUnlessPaused, ExitSilently, Exit, RunsAnother
<1>2. ASSUME MediaFails \/ Shutdown \/ Rest
      PROVE  Goal
  BY <1>0, <1>2 DEF MediaFails, Shutdown, Rest, vars
<1>3. ASSUME NEW p \in Procs, ClientSubmits(p) \/ ScriptStarts(p) \/ ScriptEnds(p) \/ M26(p)
           \/ M25(p) \/ M25Returns(p) \/ SDCARD_RESET_FILE(p) \/ ResetReturns(p)
      PROVE  Goal
  BY <1>0, <1>3
     DEF ClientSubmits, ScriptStarts, ScriptEnds, M26, M25, M25Returns, SDCARD_RESET_FILE,
         ResetReturns, PauseThen, Crash
<1>4. ASSUME NEW p \in Procs, StartLoad(p) \/ ExtractionEnds(p) \/ PAUSE(p) \/ PauseReturns(p)
           \/ RESUME(p) \/ RestoreFails(p) \/ CLEAR_PAUSE(p)
      PROVE  Goal
  BY <1>0, <1>4
     DEF StartLoad, ExtractionEnds, PAUSE, PauseReturns, RESUME, RestoreFails, CLEAR_PAUSE
<1>5. ASSUME NEW p \in Procs, CANCEL_PRINT(p) \/ CancelReturns(p) \/ CancelRequest(p)
           \/ CancelRequestReturns(p) \/ Runout(p) \/ RunoutReturns(p) \/ RunoutSubmits(p)
      PROVE  Goal
  BY <1>0, <1>5
     DEF CANCEL_PRINT, CancelReturns, CancelRequest, CancelRequestReturns, Runout,
         RunoutReturns, RunoutSubmits, PauseThen, Crash
<1>6. ASSUME NEW p \in Procs, ScanEnds(p) \/ RestoreEnds(p)
      PROVE  Goal \/ (Resume /\ (ScanEnds(p) \/ (RestoreEnds(p) /\ sd_paused)))
  BY <1>0, <1>6 DEF ScanEnds, RestoreEnds
<1> QED
  BY <1>1, <1>2, <1>3, <1>4, <1>5, <1>6 DEF OneJobStep, OneJobNext, OneJobProc

\* Before the first job has been loaded nothing starts a worker.
LEMMA NotBegunStaysOff ==
    ASSUME TypeOK, WorkerFlags, MutexHeld, LoadsOnce, OneJobStep,
           NotBegun', sdpc = "off", ~sd_paused \/ \A p \in Procs : pc[p] # "restoring"
    PROVE  sdpc' = "off"
<1> SUFFICES ASSUME NEW p \in Procs, Resume, ScanEnds(p)
             PROVE  FALSE
  BY OnlyResumeRestarts DEF RestoreEnds
<1>1. pc[p] = "scanning" /\ jobs = 1 /\ jobs' = jobs
  BY DEF ScanEnds, LoadsOnce, Loading, envVars
<1>2. pc' = [pc EXCEPT ![p] = "run"] \/ pc' = [pc EXCEPT ![p] = "idle"]
  BY DEF ScanEnds, GoOn, Finish
<1>3. PICK q \in Procs : Loading(q)'
  BY <1>1 DEF NotBegun
<1>4. q # p /\ Loading(q)
  BY <1>2, <1>3 DEF Loading, TypeOK, ProcTypeOK
<1>5. p \in inside /\ q \in inside
  BY <1>1, <1>4 DEF MutexHeld, MutexHolders, OutsideMutex, Loading
<1> QED
  BY <1>4, <1>5 DEF MutexHeld

\* sd_paused is set only together with a request to stop.
LEMMA PausedIsAsked ==
    ASSUME TypeOK, WorkerFlags, OneJobStep
    PROVE  sd_paused' => sd_paused \/ (work_timer /\ must_pause_work')
<1> USE DEF sdVars, workerVars, statsVars, pauseVars, lockVars, procVars, envVars, RequestPause
<1>0. must_pause_work \in BOOLEAN /\ work_timer \in BOOLEAN /\ (sdpc = "command" => work_timer)
  BY DEF TypeOK, FlagTypeOK, WorkerFlags
<1> DEFINE Goal == sd_paused' => sd_paused \/ (work_timer /\ must_pause_work')
<1>1. ASSUME sd_paused' = sd_paused
      PROVE  Goal
  BY <1>1
<1>2. ASSUME Worker
      PROVE  Goal
  BY <1>0, <1>2
     DEF Worker, WorkerStart, WorkerRestored, WorkerRestoreFails, WorkerStops,
         WorkerReads, WorkerEndOfFile, WorkerReadFails, WorkerDispatches,
         LinePauses, LineCancels, LineClearsPause, LineSkips, LineSwitches,
         LineStarts, LineEnds, LineFails, LineCrashes, OnErrorStarts,
         OnErrorCancels, OnErrorEnds, ClearPause
<1>3. ASSUME MediaFails \/ Shutdown \/ Rest
      PROVE  Goal
  BY <1>1, <1>3 DEF MediaFails, Shutdown, Rest, vars
<1>4. ASSUME NEW p \in Procs, ClientSubmits(p) \/ ScriptStarts(p) \/ ScriptEnds(p) \/ M26(p)
           \/ M25(p) \/ M25Returns(p) \/ SDCARD_RESET_FILE(p) \/ ResetReturns(p)
      PROVE  Goal
  BY <1>1, <1>4
     DEF ClientSubmits, ScriptStarts, ScriptEnds, M26, M25, M25Returns, SDCARD_RESET_FILE,
         ResetReturns
<1>5. ASSUME NEW p \in Procs, StartLoad(p) \/ ExtractionEnds(p) \/ ScanEnds(p)
           \/ PauseReturns(p) \/ RESUME(p) \/ RestoreFails(p) \/ CLEAR_PAUSE(p)
      PROVE  Goal
  BY <1>1, <1>5
     DEF StartLoad, ExtractionEnds, ScanEnds, PauseReturns, RESUME, RestoreFails,
         CLEAR_PAUSE, ClearPause
<1>6. ASSUME NEW p \in Procs, PAUSE(p) \/ RestoreEnds(p) \/ Runout(p)
      PROVE  Goal
  BY <1>0, <1>6 DEF PAUSE, RestoreEnds, Runout
<1>7. ASSUME NEW p \in Procs, CANCEL_PRINT(p) \/ CancelReturns(p) \/ CancelRequest(p)
           \/ CancelRequestReturns(p) \/ RunoutReturns(p) \/ RunoutSubmits(p)
      PROVE  Goal
  BY <1>1, <1>7
     DEF CANCEL_PRINT, CancelReturns, CancelRequest, CancelRequestReturns, RunoutReturns,
         RunoutSubmits, ClearPause
<1> QED
  BY <1>2, <1>3, <1>4, <1>5, <1>6, <1>7 DEF OneJobStep, OneJobNext, OneJobProc

\* The file of an active worker is closed by one that has asked it to stop.
LEMMA FileIsClosedAfterAsking ==
    ASSUME IInv, OneJobStep, sdpc' \notin {"off", "armed"}, current_file' = 0
    PROVE  \/ must_pause_work'
           \/ sdpc \notin {"off", "armed"} /\ current_file = 0
           \/ sdpc # "off" /\ \E p \in Procs : Closing(p)
<1> USE DEF sdVars, workerVars, statsVars, pauseVars, lockVars, procVars, envVars, RequestPause
<1>0. /\ must_pause_work \in BOOLEAN /\ work_timer \in BOOLEAN
      /\ work_timer <=> sdpc # "off"
      /\ sdpc = "command" => work_timer
      /\ \A p \in Procs : pc[p] = "extracting" => ~work_timer
  BY DEF IInv, TypeOK, FlagTypeOK, WorkerFlags, LoadExcludesWorker
<1> DEFINE Goal == \/ must_pause_work'
                   \/ sdpc \notin {"off", "armed"} /\ current_file = 0
                   \/ sdpc # "off" /\ \E p \in Procs : Closing(p)
<1>1. ASSUME current_file' = current_file, sdpc' = sdpc
      PROVE  Goal
  BY <1>1
<1>2. ASSUME Worker
      PROVE  Goal
  BY <1>0, <1>2
     DEF Worker, WorkerStart, WorkerRestored, WorkerRestoreFails, WorkerStops,
         WorkerReads, WorkerEndOfFile, WorkerReadFails, WorkerDispatches,
         LinePauses, LineCancels, LineClearsPause, LineSkips, LineSwitches,
         LineStarts, LineEnds, LineFails, LineCrashes, OnErrorStarts,
         OnErrorCancels, OnErrorEnds, ExitSilently, Exit, LoopUnlessPaused, RunsAnother, CloseCancelled
<1>3. ASSUME MediaFails \/ Shutdown \/ Rest
      PROVE  Goal
  BY <1>1, <1>3 DEF MediaFails, Shutdown, Rest, vars
<1>4. ASSUME NEW p \in Procs, ClientSubmits(p) \/ ScriptStarts(p) \/ ScriptEnds(p) \/ M26(p)
           \/ M25(p) \/ M25Returns(p)
      PROVE  Goal
  BY <1>1, <1>4
     DEF ClientSubmits, ScriptStarts, ScriptEnds, M26, M25, M25Returns, PauseThen
<1>5. ASSUME NEW p \in Procs, SDCARD_RESET_FILE(p) \/ CANCEL_PRINT(p) \/ CancelRequest(p)
      PROVE  Goal
  BY <1>0, <1>5
     DEF SDCARD_RESET_FILE, CANCEL_PRINT, CancelRequest, PauseThen, CloseReset, CloseCancelled
<1>6. ASSUME NEW p \in Procs, ResetReturns(p) \/ CancelReturns(p) \/ CancelRequestReturns(p)
      PROVE  Goal
  BY <1>1, <1>6 DEF ResetReturns, CancelReturns, CancelRequestReturns, Closing
<1>7. ASSUME NEW p \in Procs, StartLoad(p) \/ ExtractionEnds(p) \/ ScanEnds(p)
      PROVE  Goal
  BY <1>0, <1>7 DEF StartLoad, ExtractionEnds, ScanEnds, Resume
<1>8. ASSUME NEW p \in Procs, PAUSE(p) \/ PauseReturns(p) \/ RESUME(p) \/ RestoreEnds(p)
           \/ RestoreFails(p) \/ CLEAR_PAUSE(p) \/ Runout(p) \/ RunoutReturns(p)
           \/ RunoutSubmits(p)
      PROVE  Goal
  BY <1>1, <1>8
     DEF PAUSE, PauseReturns, RESUME, RestoreEnds, RestoreFails, CLEAR_PAUSE, Runout,
         RunoutReturns, RunoutSubmits, Resume
<1> QED
  BY <1>2, <1>3, <1>4, <1>5, <1>6, <1>7, <1>8 DEF OneJobStep, OneJobNext, OneJobProc

-----------------------------------------------------------------------------
(* The invariants of the two scenarios.                                    *)

\* Until the first job starts there is no worker and nothing to resume; after
\* that, what was paused has been asked to stop.
PausingInv ==
    /\ LoadsOnce
    /\ NotBegun => sdpc = "off" /\ ~sd_paused
    /\ sd_paused => sdpc = "off" \/ must_pause_work

LEMMA PausingStep ==
    ASSUME IInv, PausingInv, OneJobStep
    PROVE  PausingInv'
<1>1. TypeOK /\ WorkerFlags /\ MutexHeld /\ LoadsOnce
  BY DEF IInv, PausingInv
<1>2. LoadsOnce' /\ (NotBegun' => NotBegun)
  BY <1>1, LoadsOnceStep
<1>3. NotBegun' => sdpc' = "off" /\ ~sd_paused'
  BY <1>1, <1>2, NotBegunStaysOff, PausedIsAsked DEF PausingInv, WorkerFlags
<1>4. sd_paused' => sdpc' = "off" \/ must_pause_work'
  <2>1. ASSUME NEW p \in Procs, ScanEnds(p)
        PROVE  ~sd_paused'
    <3>1. Loading(p) /\ sd_paused' = sd_paused
      BY <2>1 DEF ScanEnds, Loading, pauseVars
    <3> QED
      BY <3>1 DEF PausingInv, NotBegun
  <2>2. ASSUME NEW p \in Procs, RestoreEnds(p)
        PROVE  ~sd_paused'
    BY <2>2 DEF RestoreEnds
  <2>3. CASE (must_pause_work => must_pause_work') /\ (sdpc = "off" => sdpc' = "off")
    BY <1>1, <2>3, PausedIsAsked DEF PausingInv
  <2> QED
    BY <1>1, <2>1, <2>2, <2>3, OnlyResumeRestarts
<1> QED
  BY <1>2, <1>3, <1>4 DEF PausingInv

\* Until the first job starts nobody waits to close a file; after that, who
\* waits has asked the worker to stop, and so it is while a closed file is
\* still in its buffer.
CancellingInv ==
    /\ LoadsOnce
    /\ NotBegun => sdpc = "off" /\ \A p \in Procs : ~Closing(p)
    /\ sdpc # "off" /\ (\E p \in Procs : Closing(p)) => must_pause_work
    /\ sdpc \notin {"off", "armed"} /\ current_file = 0 => must_pause_work
    /\ \A p \in Procs : pc[p] # "restoring"

LEMMA CancellingStep ==
    ASSUME IInv, CancellingInv, OneJobNext
    PROVE  CancellingInv'
<1>1. TypeOK /\ WorkerFlags /\ MutexHeld /\ LoadsOnce /\ OneJobStep
  BY DEF IInv, CancellingInv, OneJobStep
<1>2. LoadsOnce' /\ (NotBegun' => NotBegun)
  BY <1>1, LoadsOnceStep
<1>3. NotBegun' => sdpc' = "off" /\ \A q \in Procs : ~Closing(q)'
  BY <1>1, <1>2, NotBegunStaysOff, ClosingIsAsked DEF CancellingInv, WorkerFlags
<1>4. \/ (must_pause_work => must_pause_work') /\ (sdpc = "off" => sdpc' = "off")
      \/ sdpc = "off" /\ sdpc' = "armed" /\ \A q \in Procs : ~Closing(q)
  <2>1. ASSUME NEW p \in Procs, ScanEnds(p), Resume
        PROVE  sdpc = "off" /\ sdpc' = "armed" /\ \A q \in Procs : ~Closing(q)
    <3>1. Loading(p)
      BY <2>1 DEF ScanEnds, Loading
    <3> QED
      BY <2>1, <3>1 DEF CancellingInv, NotBegun, Resume
  <2> QED
    BY <1>1, <2>1, OnlyResumeRestarts DEF CancellingInv, RestoreEnds
<1>5. ASSUME NEW q \in Procs, Closing(q)', sdpc' # "off"
      PROVE  must_pause_work'
  BY <1>1, <1>4, <1>5, ClosingIsAsked DEF CancellingInv, WorkerFlags
<1>6. ASSUME sdpc' \notin {"off", "armed"}, current_file' = 0
      PROVE  must_pause_work'
  BY <1>4, <1>6, <1>1, FileIsClosedAfterAsking DEF CancellingInv
<1>7. \A q \in Procs : pc'[q] # "restoring"
  BY <1>1, WhereGreenletsGo DEF Goes, CancellingInv, TypeOK, ProcTypeOK
<1> QED
  BY <1>2, <1>3, <1>5, <1>6, <1>7 DEF CancellingInv

ScenarioInv ==
    /\ IInv
    /\ scenario = "pausing" => PausingInv
    /\ scenario = "cancelling" => CancellingInv

LEMMA InitEstablishesScenarioInv ==
    ASSUME PrintInit
    PROVE  ScenarioInv
<1>1. IInv
  BY InitEstablishesIInv DEF PrintInit
<1>2. jobs = 0 /\ sdpc = "off" /\ ~sd_paused /\ \A p \in Procs : pc[p] = "idle"
  BY DEF PrintInit, Init
<1> QED
  BY <1>1, <1>2 DEF ScenarioInv, PausingInv, CancellingInv, LoadsOnce, Loading, Closing

LEMMA NextPreservesScenarioInv ==
    ASSUME ScenariosAssumption, ScenarioInv, [PrintNext]_<<vars, scenario>>
    PROVE  ScenarioInv'
<1>1. CASE UNCHANGED <<vars, scenario>>
  <2>1. IInv'
    BY <1>1, NextPreservesIInv DEF ScenarioInv
  <2>2. (PausingInv => PausingInv') /\ (CancellingInv => CancellingInv')
    BY <1>1
       DEF vars, sdVars, workerVars, statsVars, pauseVars, procVars, envVars, PausingInv,
           CancellingInv, LoadsOnce, NotBegun, Loading, Closing
  <2> QED
    BY <1>1, <2>1, <2>2 DEF ScenarioInv
<1>2. CASE scenario = "all" /\ Next /\ UNCHANGED scenario
  BY <1>2, NextPreservesIInv DEF ScenarioInv
<1>3. CASE scenario = "cancelling" /\ OneJob(CancelCommands)!Next /\ UNCHANGED scenario
  <2>1. CancelCommands \subseteq Commands /\ "M24" \notin CancelCommands /\ "RESUME" \notin CancelCommands
    BY DEF ScenariosAssumption, CancelCommands
  <2>2. OneJobNext
    BY <1>3, <2>1, ScenarioIsOneJob DEF ScenarioInv, IInv
  <2>3. IInv'
    BY <2>2, OneJobIsNext, NextPreservesIInv DEF ScenarioInv, OneJobStep
  <2> QED
    BY <1>3, <2>2, <2>3, CancellingStep DEF ScenarioInv
<1>4. CASE scenario = "pausing" /\ OneJob(PauseCommands)!Next /\ UNCHANGED scenario
  <2>1. PauseCommands \subseteq Commands /\ "M24" \notin PauseCommands
    BY DEF ScenariosAssumption, PauseCommands
  <2>2. OneJobStep
    BY <1>4, <2>1, ScenarioIsOneJob DEF ScenarioInv, IInv, OneJobStep
  <2>3. IInv'
    BY <2>2, OneJobIsNext, NextPreservesIInv DEF ScenarioInv
  <2> QED
    BY <1>4, <2>2, <2>3, PausingStep DEF ScenarioInv
<1> QED
  BY <1>1, <1>2, <1>3, <1>4 DEF PrintNext

THEOREM ScenariosInvariant ==
    ASSUME ScenariosAssumption
    PROVE  PrintSpec => []ScenarioInv
<1>1. PrintInit => ScenarioInv
  BY InitEstablishesScenarioInv
<1>2. ScenarioInv /\ [PrintNext]_<<vars, scenario>> => ScenarioInv'
  BY NextPreservesScenarioInv
<1> QED
  BY <1>1, <1>2, PTL DEF PrintSpec

\* Without M24, and with one job, a PAUSE that the printer accepted
\* (cmd_PAUSE, send_pause_command) stops work_handler, or it is about to stop.
THEOREM PauseIsHeeded ==
    ASSUME ScenariosAssumption
    PROVE  PrintSpec => []PauseStopsPrint
<1>1. ScenarioInv => PauseStopsPrint
  BY DEF ScenarioInv, IInv, WorkerFlags, PausingInv, PauseStopsPrint, PausedMeansStopping
<1> QED
  BY <1>1, ScenariosInvariant, PTL

\* Without M24 and RESUME, and with one job, work_handler starts no line of a file that
\* do_cancel() or _reset_file() has closed, wherever it was at that time.
THEOREM CancelIsHeeded ==
    ASSUME ScenariosAssumption
    PROVE  PrintSpec => CancelEndsPrint
<1>1. ScenarioInv =>
        [scenario = "cancelling" /\ WorkerDispatches => Head(lines)[1] = current_file]_<<vars, scenario>>
  <2> SUFFICES ASSUME ScenarioInv, scenario = "cancelling", WorkerDispatches
               PROVE  Head(lines)[1] = current_file
    OBVIOUS
  <2>1. sdpc = "loop" /\ ~must_pause_work /\ lines # <<>>
    BY DEF WorkerDispatches
  <2>2. current_file # 0
    BY <2>1 DEF ScenarioInv, CancellingInv
  <2>3. 1 \in DOMAIN lines /\ Head(lines) = lines[1]
    BY <2>1, BufferFacts DEF ScenarioInv, IInv
  <2>4. lines[1] = <<current_file, file_position + 1>>
    BY <2>1, <2>2, <2>3 DEF ScenarioInv, IInv, BufferMatchesFile
  <2> QED
    BY <2>3, <2>4
<1> QED
  BY <1>1, ScenariosInvariant, PTL DEF CancelEndsPrint
=============================================================================
