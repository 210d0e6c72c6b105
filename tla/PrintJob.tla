------------------------------ MODULE PrintJob ------------------------------
(***************************************************************************)
(* The life of a print from the virtual SD card: the file worker, the      *)
(* commands that load, start, pause, resume and cancel a job, and the      *)
(* cancel request that arrives over the API socket beside the G-code queue *)
(* (extras/virtual_sdcard.py, extras/pause_resume.py, extras/print_stats.py *)
(* and the mutex and abort epoch of gcode.py).                             *)
(*                                                                         *)
(* All of this runs in greenlets of one thread that are switched only in   *)
(* reactor.pause(), in a wait for the mutex, or in a command that does one *)
(* of those.  A step of this module is the code between two such points.   *)
(*                                                                         *)
(* The actors are the worker ("sd", the greenlet that runs work_handler)   *)
(* and Procs, the greenlets of G-code clients and of API requests.         *)
(***************************************************************************)
EXTENDS Naturals, Sequences, Functions

CONSTANTS
    Procs,      \* greenlets other than the worker
    Commands,   \* the commands they run, a subset of AllCommands
    NLines,     \* lines in a file
    MaxJobs,    \* bound on the number of files loaded
    MaxInputs   \* bound on commands, requests and faults together

AllCommands ==
    {"M23", "M24", "M25", "M26", "PAUSE", "RESUME", "CLEAR_PAUSE", "CANCEL_PRINT",
     "SDCARD_RESET_FILE", "SDCARD_PRINT_FILE", "POWER_OFF_CONTINUE"}

ASSUME ProcsAssumption == "sd" \notin Procs
ASSUME CommandsAssumption == Commands \subseteq AllCommands
ASSUME BoundsAssumption == NLines \in Nat /\ MaxJobs \in Nat /\ MaxInputs \in Nat

VARIABLES
    \* VirtualSD
    current_file,         \* the job whose file is open, 0 for None
    file_position,        \* lines of the file that are done
    next_file_position,   \* where the worker continues after this line
    must_pause_work, cmd_from_sd,
    work_timer,           \* not None
    restore_job,          \* the job _printer_off_power_resume was made for, or 0
    \* the locals of work_handler
    sdpc,                 \* where the worker is, see WorkerStates
    lines,                \* lines read and not yet run, as <<job, number>>
    read_position,        \* the offset of the open file
    line_end,             \* where the line that runs should lead (next_file_position)
    \* PauseResume
    is_paused, sd_paused, pause_command_sent,
    \* PrintStats
    state,                \* the reported state of the job
    started,              \* print_start_time is set: started, and neither finished nor reset since
    \* GCodeDispatch
    line, inside,         \* the mutex, see FifoLock
    abort_epoch,
    \* the other greenlets
    pc,                   \* where the greenlet is, see ProcStates
    todo,                 \* the rest of its script, see Scripts
    epoch,                \* local_epoch of its _process_commands
    \* environment
    jobs, inputs,         \* files loaded so far, inputs so far
    media_ok,             \* the file can still be read
    shutdown              \* "no", or why the printer is in shutdown

sdVars == <<current_file, file_position, next_file_position, must_pause_work,
            cmd_from_sd, work_timer, restore_job>>
workerVars == <<sdpc, lines, read_position, line_end>>
statsVars == <<state, started>>
pauseVars == <<is_paused, sd_paused, pause_command_sent>>
lockVars == <<line, inside>>
procVars == <<pc, todo, epoch>>
envVars == <<jobs, inputs, media_ok, shutdown>>

vars == <<sdVars, workerVars, statsVars, pauseVars, lockVars, abort_epoch,
          procVars, envVars>>

Lock == INSTANCE FifoLock WITH Greenlets <- Procs \cup {"sd"}

-----------------------------------------------------------------------------
(* extras/print_stats.py: methods that others call, each conjoined to the  *)
(* step that makes the call. Durations and filament use are left out:      *)
(* nothing here depends on them.                                           *)

JobStates ==
    {"standby", "extracting", "printing", "paused", "complete", "cancelled", "error"}

StatsInit == state = "standby" /\ started = FALSE

\* reset(), also the first thing set_current_file() does.
Reset == state' = "standby" /\ started' = FALSE

\* note_start(): from any state, for the first time or after a pause.
NoteStart == state' = "printing" /\ started' = TRUE

\* note_pause(): an error is not overwritten.
NotePause ==
    /\ state' = IF state = "error" THEN state ELSE "paused"
    /\ UNCHANGED started

\* _note_finish(): only a job that was started can finish, and only once.
NoteFinish(final) ==
    /\ state' = IF started THEN final ELSE state
    /\ started' = FALSE

-----------------------------------------------------------------------------

\* "armed": the timer is registered; "restore": in the power-loss restore;
\* "loop": in a pause of the work loop; "command" and "onerror": in the run of
\* a line or of on_error_gcode; "relock" and "lock": waiting for the mutex for
\* the second script of a line or for on_error_gcode.
WorkerStates ==
    {"off", "armed", "restore", "loop", "command", "relock", "lock", "onerror"}

\* "lock": waiting for the mutex; "run": holds it, before a command or in one
\* that moves or waits and touches nothing here; "restoring": in the
\* RESTORE_GCODE_STATE of RESUME; "extracting" and "scanning": in _load_file;
\* "delay": in the pause_delay of a filament sensor; the states of Pausers: in
\* the do_pause of that command or request.
Pausers == {"M25", "PAUSE", "CANCEL_PRINT", "SDCARD_RESET_FILE", "cancel", "runout"}

ProcStates == Pausers \cup {"idle", "lock", "run", "restoring", "extracting", "scanning",
                         "delay"}

\* "any": further commands of the client's choice; "none": nothing more;
\* otherwise one command.
Scripts == AllCommands \cup {"any", "none"}

Init ==
    /\ current_file = 0
    /\ file_position = 0
    /\ next_file_position = 0
    /\ must_pause_work = FALSE
    /\ cmd_from_sd = FALSE
    /\ work_timer = FALSE
    /\ restore_job = 0
    /\ sdpc = "off"
    /\ lines = <<>>
    /\ read_position = 0
    /\ line_end = 0
    /\ StatsInit
    /\ is_paused = FALSE
    /\ sd_paused = FALSE
    /\ pause_command_sent = FALSE
    /\ Lock!Init
    /\ abort_epoch = 0
    /\ pc = [p \in Procs |-> "idle"]
    /\ todo = [p \in Procs |-> "any"]
    /\ epoch = [p \in Procs |-> 0]
    /\ jobs = 0
    /\ inputs = 0
    /\ media_ok = TRUE
    /\ shutdown = "no"
-----------------------------------------------------------------------------
(* Shared pieces.                                                          *)

\* Mutant: do_pause() also waits for a worker that is in a command.
WaitsForCommand == work_timer

\* do_pause() must wait while the worker is active and not in a command.
Waits == work_timer /\ ~cmd_from_sd

\* Mutant: a worker that is in a command is not asked.
RequestPauseBetweenLines == must_pause_work' = (must_pause_work \/ Waits)

\* do_pause() and handle_shutdown() ask an active worker to stop.
RequestPause == must_pause_work' = (must_pause_work \/ work_timer)

\* handle_shutdown() reads around file_position for the log and so moves the
\* offset of the file.
ReadForLog ==
    IF work_timer /\ current_file # 0 /\ media_ok
      THEN read_position' \in file_position .. NLines
      ELSE UNCHANGED read_position

\* The flags that CLEAR_PAUSE clears; sd_paused is not one of them.
ClearPause ==
    /\ is_paused' = FALSE
    /\ pause_command_sent' = FALSE
    /\ UNCHANGED sd_paused

\* Mutant: the cancel is not noted in the print statistics.
CloseWithoutNote ==
    /\ current_file' = 0
    /\ file_position' = 0
    /\ UNCHANGED statsVars

\* The middle of do_cancel(): close the file, forget it, note the cancel.
CloseCancelled ==
    /\ current_file' = 0
    /\ file_position' = 0
    /\ NoteFinish("cancelled")

\* The same of _reset_file().
CloseReset ==
    /\ current_file' = 0
    /\ file_position' = 0
    /\ Reset

Input == inputs < MaxInputs /\ inputs' = inputs + 1
-----------------------------------------------------------------------------
(* The worker: VirtualSD.work_handler.                                     *)

\* Mutant: cmd_from_sd stays set.
ExitInCommand(stats) ==
    /\ sdpc' = "off"
    /\ work_timer' = FALSE
    /\ UNCHANGED cmd_from_sd
    /\ lines' = <<>>
    /\ stats

\* The end of work_handler after the work loop.
Exit(stats) ==
    /\ sdpc' = "off"
    /\ work_timer' = FALSE
    /\ cmd_from_sd' = FALSE
    /\ lines' = <<>>
    /\ stats

\* The seek fails at the start or after a skip: return without telling anyone.
ExitSilently == Exit(UNCHANGED statsVars)

\* Mutant: a pause of the worker is not noted.
LoopUnlessPausedSilently(buffer) ==
    IF must_pause_work
      THEN Exit(IF current_file # 0 THEN UNCHANGED statsVars ELSE NoteFinish("complete"))
      ELSE /\ sdpc' = "loop"
           /\ cmd_from_sd' = FALSE
           /\ lines' = buffer
           /\ UNCHANGED <<work_timer, statsVars>>

\* Loop on, or leave the loop because a pause was requested.
LoopUnlessPaused(buffer) ==
    IF must_pause_work
      THEN IF current_file # 0 THEN Exit(NotePause) ELSE Exit(NoteFinish("complete"))
      ELSE /\ sdpc' = "loop"
           /\ cmd_from_sd' = FALSE
           /\ lines' = buffer
           /\ UNCHANGED <<work_timer, statsVars>>

\* The timer registered by do_resume() fires.
WorkerStart ==
    /\ sdpc = "armed"
    /\ UNCHANGED <<current_file, file_position, next_file_position, must_pause_work,
                   restore_job, line_end, pauseVars, lockVars, abort_epoch, procVars,
                   envVars>>
    /\ IF current_file = 0 \/ ~media_ok
         THEN ExitSilently /\ UNCHANGED read_position
         ELSE /\ read_position' = file_position
              /\ IF restore_job = 0 /\ must_pause_work
                   THEN Exit(state' = "paused" /\ started' = TRUE)
                   ELSE /\ sdpc' = IF restore_job # 0 THEN "restore" ELSE "loop"
                        /\ NoteStart
                        /\ UNCHANGED <<work_timer, cmd_from_sd, lines>>

\* The power-loss restore script ends.  It runs without the mutex.
WorkerRestored ==
    /\ sdpc = "restore"
    /\ restore_job' = 0
    /\ LoopUnlessPaused(<<>>)
    /\ UNCHANGED <<current_file, file_position, next_file_position, must_pause_work,
                   read_position, line_end, pauseVars, lockVars, abort_epoch, procVars, envVars>>

WorkerRestoreFails ==
    /\ sdpc = "restore"
    /\ restore_job' = 0
    /\ Exit(NoteFinish("error"))
    /\ UNCHANGED <<current_file, file_position, next_file_position, must_pause_work,
                   read_position, line_end, pauseVars, lockVars, abort_epoch, procVars, envVars>>

\* Mutant: the worker leaves its loop at the end of the buffer only.
WorkerStopsAtBufferEnd ==
    /\ sdpc = "loop"
    /\ must_pause_work
    /\ lines = <<>>
    /\ LoopUnlessPaused(<<>>)
    /\ UNCHANGED <<current_file, file_position, next_file_position, must_pause_work,
                   restore_job, read_position, line_end, pauseVars, lockVars, abort_epoch,
                   procVars, envVars>>

\* The worker wakes with must_pause_work set.
WorkerStops ==
    /\ sdpc = "loop"
    /\ must_pause_work
    /\ LoopUnlessPaused(<<>>)
    /\ UNCHANGED <<current_file, file_position, next_file_position, must_pause_work,
                   restore_job, read_position, line_end, pauseVars, lockVars, abort_epoch,
                   procVars, envVars>>

\* It reads the next lines; how many fit into one read is arbitrary.
WorkerReads ==
    /\ sdpc = "loop"
    /\ ~must_pause_work
    /\ lines = <<>>
    /\ current_file # 0
    /\ media_ok
    /\ \E n \in 1 .. NLines - read_position :
         /\ lines' = [i \in 1 .. n |-> <<current_file, read_position + i>>]
         /\ read_position' = read_position + n
    /\ UNCHANGED <<sdVars, sdpc, line_end, statsVars, pauseVars, lockVars, abort_epoch, procVars,
                   envVars>>

\* There is nothing more to read.
WorkerEndOfFile ==
    /\ sdpc = "loop"
    /\ ~must_pause_work
    /\ lines = <<>>
    /\ current_file # 0
    /\ media_ok
    /\ read_position >= NLines
    /\ current_file' = 0
    /\ Exit(NoteFinish("complete"))
    /\ UNCHANGED <<file_position, next_file_position, must_pause_work, restore_job,
                   read_position, line_end, pauseVars, lockVars, abort_epoch, procVars, envVars>>

\* The read raises, also because the file was closed meanwhile.
WorkerReadFails ==
    /\ sdpc = "loop"
    /\ ~must_pause_work
    /\ lines = <<>>
    /\ current_file = 0 \/ ~media_ok
    /\ Exit(IF current_file # 0 THEN NotePause ELSE NoteFinish("complete"))
    /\ UNCHANGED <<current_file, file_position, next_file_position, must_pause_work,
                   restore_job, read_position, line_end, pauseVars, lockVars, abort_epoch,
                   procVars, envVars>>

\* Mutant: the end of the line is counted twice.
DispatchCountsTwice ==
    /\ sdpc = "loop"
    /\ ~must_pause_work
    /\ lines # <<>>
    /\ ~Lock!Locked
    /\ Lock!Arrive("sd")
    /\ cmd_from_sd' = TRUE
    /\ next_file_position' = file_position + 2
    /\ line_end' = file_position + 2
    /\ lines' = Tail(lines)
    /\ sdpc' = "command"
    /\ UNCHANGED <<current_file, file_position, must_pause_work, work_timer, restore_job,
                   read_position, statsVars, pauseVars, abort_epoch, procVars, envVars>>

\* It starts the next line unless somebody has the mutex.
WorkerDispatches ==
    /\ sdpc = "loop"
    /\ ~must_pause_work
    /\ lines # <<>>
    /\ ~Lock!Locked
    /\ Lock!Arrive("sd")
    /\ cmd_from_sd' = TRUE
    /\ next_file_position' = file_position + 1
    /\ line_end' = file_position + 1
    /\ lines' = Tail(lines)
    /\ sdpc' = "command"
    /\ UNCHANGED <<current_file, file_position, must_pause_work, work_timer, restore_job,
                   read_position, statsVars, pauseVars, abort_epoch, procVars, envVars>>

\* What a line may do before it ends: pause or cancel the print, clear the
\* pause, or move the file position (SDCARD_LOOP_END).
LinePauses ==
    /\ sdpc = "command"
    /\ ~is_paused
    /\ shutdown = "no"
    /\ Input
    /\ IF pause_command_sent
         THEN UNCHANGED <<must_pause_work, sd_paused, pause_command_sent>>
         ELSE RequestPause /\ sd_paused' = TRUE /\ pause_command_sent' = TRUE
    /\ is_paused' = TRUE
    /\ UNCHANGED <<current_file, file_position, next_file_position, cmd_from_sd, work_timer,
                   restore_job, workerVars, statsVars, lockVars, abort_epoch, procVars,
                   jobs, media_ok, shutdown>>

LineCancels ==
    /\ sdpc = "command"
    /\ shutdown = "no"
    /\ Input
    /\ abort_epoch' = abort_epoch + 1
    /\ IF current_file # 0
         THEN RequestPause /\ CloseCancelled
         ELSE file_position' = 0 /\ UNCHANGED <<current_file, must_pause_work, statsVars>>
    /\ ClearPause
    /\ UNCHANGED <<next_file_position, cmd_from_sd, work_timer, restore_job, workerVars,
                   lockVars, procVars, jobs, media_ok, shutdown>>

LineClearsPause ==
    /\ sdpc = "command"
    /\ shutdown = "no"
    /\ Input
    /\ ClearPause
    /\ UNCHANGED <<sdVars, workerVars, statsVars, lockVars, abort_epoch, procVars, jobs,
                   media_ok, shutdown>>

LineSkips ==
    /\ sdpc = "command"
    /\ shutdown = "no"
    /\ Input
    /\ next_file_position' \in 0 .. NLines
    /\ UNCHANGED <<current_file, file_position, must_pause_work, cmd_from_sd, work_timer,
                   restore_job, workerVars, statsVars, pauseVars, lockVars, abort_epoch,
                   procVars, jobs, media_ok, shutdown>>

\* Mutant: the file is sought but the buffered lines are kept.
LineEndsKeepsBuffer ==
    /\ sdpc = "command"
    /\ Lock!Leave("sd")
    /\ file_position' = next_file_position
    /\ IF next_file_position = line_end
         THEN LoopUnlessPaused(lines) /\ UNCHANGED read_position
         ELSE IF current_file = 0 \/ ~media_ok
                THEN ExitSilently /\ UNCHANGED read_position
                ELSE LoopUnlessPaused(lines) /\ read_position' = next_file_position
    /\ UNCHANGED <<current_file, next_file_position, must_pause_work, restore_job,
                   line_end, pauseVars, abort_epoch, procVars, envVars>>

\* The line ends.  file_position is advanced, and if the line moved it the
\* buffered lines are dropped and the file is sought.
LineEnds ==
    /\ sdpc = "command"
    /\ Lock!Leave("sd")
    /\ file_position' = next_file_position
    /\ IF next_file_position = line_end
         THEN LoopUnlessPaused(lines) /\ UNCHANGED read_position
         ELSE IF current_file = 0 \/ ~media_ok
                THEN ExitSilently /\ UNCHANGED read_position
                ELSE LoopUnlessPaused(<<>>) /\ read_position' = next_file_position
    /\ UNCHANGED <<current_file, next_file_position, must_pause_work, restore_job,
                   line_end, pauseVars, abort_epoch, procVars, envVars>>

\* run_script() has ended but the worker starts another at once.  If others are
\* in line for the mutex it waits behind them.
RunsAnother(waiting, running) ==
    IF Len(line) = 1
      THEN sdpc' = running /\ UNCHANGED lockVars
      ELSE sdpc' = waiting /\ line' = Append(Tail(line), "sd") /\ inside' = {}

\* The line begins another feature of the print: with gcode_adap, the extruder
\* is switched by a script of its own before the line runs.
LineSwitches ==
    /\ sdpc = "command"
    /\ Input
    /\ RunsAnother("relock", "command")
    /\ UNCHANGED <<sdVars, lines, read_position, line_end, statsVars, pauseVars, abort_epoch,
                   procVars, jobs, media_ok, shutdown>>

LineStarts ==
    /\ sdpc = "relock"
    /\ Lock!Grant("sd")
    /\ sdpc' = "command"
    /\ UNCHANGED <<sdVars, lines, read_position, line_end, statsVars, pauseVars, abort_epoch,
                   procVars, envVars>>

\* The line raises a G-code error.  run_script() releases the mutex and the
\* worker asks for it again at once to run on_error_gcode.
LineFails ==
    /\ sdpc = "command"
    /\ Input
    /\ RunsAnother("lock", "onerror")
    /\ UNCHANGED <<sdVars, lines, read_position, line_end, statsVars, pauseVars, abort_epoch,
                   procVars, jobs, media_ok, shutdown>>

\* The handler of a line hits an internal error: shutdown, and the worker leaves its loop.
LineCrashes ==
    /\ sdpc = "command"
    /\ shutdown = "no"
    /\ Input
    /\ shutdown' = "fault"
    /\ RequestPause
    /\ ReadForLog
    /\ Lock!Leave("sd")
    /\ Exit(IF current_file # 0 THEN NotePause ELSE NoteFinish("complete"))
    /\ UNCHANGED <<current_file, file_position, next_file_position, restore_job, line_end,
                   pauseVars, abort_epoch, procVars, jobs, media_ok>>

OnErrorStarts ==
    /\ sdpc = "lock"
    /\ Lock!Grant("sd")
    /\ sdpc' = "onerror"
    /\ UNCHANGED <<sdVars, lines, read_position, line_end, statsVars, pauseVars, abort_epoch,
                   procVars, envVars>>

\* on_error_gcode has cancelled the print, as it does in printer.cfg; the error
\* is noted after that.
OnErrorCancels ==
    /\ sdpc = "onerror"
    /\ shutdown = "no"
    /\ Lock!Leave("sd")
    /\ abort_epoch' = abort_epoch + 1
    /\ must_pause_work' = (must_pause_work \/ current_file # 0)
    /\ current_file' = 0
    /\ file_position' = 0
    /\ ClearPause
    /\ Exit(NoteFinish(IF current_file # 0 THEN "cancelled" ELSE "error"))
    /\ UNCHANGED <<next_file_position, restore_job, read_position, line_end, procVars, envVars>>

\* on_error_gcode does not cancel, as the default, or fails.
OnErrorEnds ==
    /\ sdpc = "onerror"
    /\ Lock!Leave("sd")
    /\ Exit(NoteFinish("error"))
    /\ UNCHANGED <<current_file, file_position, next_file_position, must_pause_work,
                   restore_job, read_position, line_end, pauseVars, abort_epoch, procVars,
                   envVars>>

Worker ==
    \/ WorkerStart \/ WorkerRestored \/ WorkerRestoreFails \/ WorkerStops
    \/ WorkerReads \/ WorkerEndOfFile \/ WorkerReadFails \/ WorkerDispatches
    \/ LinePauses \/ LineCancels \/ LineClearsPause \/ LineSkips
    \/ LineSwitches \/ LineStarts \/ LineEnds \/ LineFails \/ LineCrashes
    \/ OnErrorStarts \/ OnErrorCancels \/ OnErrorEnds
-----------------------------------------------------------------------------
(* Scripts: GCodeDispatch.run_script and _process_commands.                *)

\* A greenlet asks for the mutex to run a script; e is the epoch at that time.
SubmitAt(p, script, e) ==
    /\ Lock!Arrive(p)
    /\ todo' = [todo EXCEPT ![p] = script]
    /\ IF line = <<>>
         THEN pc' = [pc EXCEPT ![p] = "run"] /\ epoch' = [epoch EXCEPT ![p] = e]
         ELSE pc' = [pc EXCEPT ![p] = "lock"] /\ UNCHANGED epoch

Submit(p, script) == SubmitAt(p, script, abort_epoch)

ClientSubmits(p) ==
    /\ pc[p] = "idle"
    /\ inputs < MaxInputs
    /\ Submit(p, "any")
    /\ UNCHANGED <<sdVars, workerVars, statsVars, pauseVars, abort_epoch, envVars>>

ScriptStarts(p) ==
    /\ pc[p] = "lock"
    /\ Lock!Grant(p)
    /\ pc' = [pc EXCEPT ![p] = "run"]
    /\ epoch' = [epoch EXCEPT ![p] = abort_epoch]
    /\ UNCHANGED <<sdVars, workerVars, statsVars, pauseVars, abort_epoch, todo, envVars>>

\* The script ends: nothing is left, a command raised, or the epoch changed.
Finish(p) ==
    /\ Lock!Leave(p)
    /\ pc' = [pc EXCEPT ![p] = "idle"]
    /\ todo' = [todo EXCEPT ![p] = "any"]
    /\ UNCHANGED epoch

ScriptEnds(p) ==
    /\ pc[p] = "run"
    /\ Finish(p)
    /\ UNCHANGED <<sdVars, workerVars, statsVars, pauseVars, abort_epoch, envVars>>

\* The next command of the script is cmd.
Runs(p, cmd) ==
    /\ pc[p] = "run"
    /\ cmd \in Commands
    /\ todo[p] \in {"any", cmd}
    /\ epoch[p] = abort_epoch
    /\ shutdown = "no"
    /\ Input

\* The command is done and the script goes on; a script of one command is over.
GoOn(p) ==
    /\ pc' = [pc EXCEPT ![p] = "run"]
    /\ todo' = [todo EXCEPT ![p] = IF todo[p] = "any" THEN "any" ELSE "none"]
    /\ UNCHANGED <<epoch, lockVars>>

\* An internal error in a command or an API request shuts the printer down.
Crash(p) ==
    /\ shutdown' = IF shutdown = "no" THEN "internal" ELSE shutdown
    /\ RequestPause
    /\ pc' = [pc EXCEPT ![p] = "idle"]
    /\ todo' = [todo EXCEPT ![p] = "any"]
    /\ IF inside = {p} THEN Lock!Leave(p) ELSE UNCHANGED lockVars
    /\ UNCHANGED <<epoch, current_file, file_position, statsVars>>
-----------------------------------------------------------------------------
(* Commands of [virtual_sdcard].                                           *)

\* do_resume().
Resume ==
    /\ ~work_timer
    /\ must_pause_work' = FALSE
    /\ work_timer' = TRUE
    /\ sdpc' = "armed"
    /\ UNCHANGED <<lines, read_position, line_end>>

\* M24, unless the worker is active ("SD busy": ScriptEnds).
M24(p) ==
    /\ Runs(p, "M24")
    /\ Resume
    /\ GoOn(p)
    /\ UNCHANGED <<current_file, file_position, next_file_position, cmd_from_sd, restore_job,
                   statsVars, pauseVars, abort_epoch, jobs, media_ok, shutdown>>

\* M26, unless the worker is active.
M26(p) ==
    /\ Runs(p, "M26")
    /\ ~work_timer
    /\ file_position' \in 0 .. NLines
    /\ GoOn(p)
    /\ UNCHANGED <<current_file, next_file_position, must_pause_work, cmd_from_sd, work_timer,
                   restore_job, workerVars, statsVars, pauseVars, abort_epoch, jobs,
                   media_ok, shutdown>>

\* Mutant: the worker is not paused first.
PauseThenGoOn(p, waiting, done) == UNCHANGED must_pause_work /\ done

\* A command that pauses stays in do_pause() or goes on with done.
PauseThen(p, waiting, done) ==
    /\ RequestPause
    /\ IF Waits
         THEN /\ pc' = [pc EXCEPT ![p] = waiting]
              /\ UNCHANGED <<todo, epoch, lockVars, current_file, file_position, statsVars>>
         ELSE done

M25(p) ==
    /\ Runs(p, "M25")
    /\ PauseThen(p, "M25", GoOn(p) /\ UNCHANGED <<current_file, file_position, statsVars>>)
    /\ UNCHANGED <<next_file_position, cmd_from_sd, work_timer, restore_job, workerVars,
                   pauseVars, abort_epoch, jobs, media_ok, shutdown>>

M25Returns(p) ==
    /\ pc[p] = "M25"
    /\ ~Waits
    /\ GoOn(p)
    /\ UNCHANGED <<sdVars, workerVars, statsVars, pauseVars, abort_epoch, envVars>>

\* SDCARD_RESET_FILE, refused while a line of the file is in progress.
SDCARD_RESET_FILE(p) ==
    /\ Runs(p, "SDCARD_RESET_FILE")
    /\ ~cmd_from_sd
    /\ IF current_file = 0
         THEN CloseReset /\ GoOn(p) /\ UNCHANGED must_pause_work
         ELSE PauseThen(p, "SDCARD_RESET_FILE", CloseReset /\ GoOn(p))
    /\ UNCHANGED <<next_file_position, cmd_from_sd, work_timer, restore_job, workerVars,
                   pauseVars, abort_epoch, jobs, media_ok, shutdown>>

\* After the pause the file is closed, whether or not it is still there.
ResetReturns(p) ==
    /\ pc[p] = "SDCARD_RESET_FILE"
    /\ ~Waits
    /\ IF current_file # 0
         THEN CloseReset /\ GoOn(p) /\ UNCHANGED <<must_pause_work, shutdown>>
         ELSE Crash(p)
    /\ UNCHANGED <<next_file_position, cmd_from_sd, work_timer, restore_job, workerVars,
                   pauseVars, abort_epoch, jobs, inputs, media_ok>>

\* M23, SDCARD_PRINT_FILE and SDCARD_POWER_OFF_CONTINUES_PINT_FILE: reset, then
\* load a file.  A 3MF file is extracted first, which takes many pauses.
LoadCommands == {"M23", "SDCARD_PRINT_FILE", "POWER_OFF_CONTINUE"}

\* _load_file() has the file: it is scanned for slicer settings, with pauses.
Opened(p, job) ==
    /\ current_file' = job
    /\ pc' = [pc EXCEPT ![p] = "scanning"]
    /\ UNCHANGED <<epoch, lockVars>>

LoadFails(p) == current_file' = 0 /\ Reset /\ Finish(p)

StartLoad(p) ==
    \E cmd \in LoadCommands :
        /\ Runs(p, cmd)
        /\ ~work_timer
        /\ jobs < MaxJobs
        /\ jobs' = jobs + 1
        /\ file_position' = 0
        /\ restore_job' = IF cmd = "POWER_OFF_CONTINUE" THEN jobs + 1 ELSE restore_job
        /\ \/ Opened(p, jobs + 1) /\ Reset /\ todo' = [todo EXCEPT ![p] = cmd]
           \/ /\ pc' = [pc EXCEPT ![p] = "extracting"]
              /\ todo' = [todo EXCEPT ![p] = cmd]
              /\ current_file' = 0
              /\ state' = "extracting"
              /\ started' = FALSE
              /\ UNCHANGED <<epoch, lockVars>>
           \/ LoadFails(p)
        /\ UNCHANGED <<next_file_position, must_pause_work, cmd_from_sd, work_timer,
                       workerVars, pauseVars, abort_epoch, media_ok, shutdown>>

ExtractionEnds(p) ==
    /\ pc[p] = "extracting"
    /\ \/ /\ Opened(p, jobs)
          /\ file_position' = 0
          /\ UNCHANGED <<todo, statsVars>>
       \/ /\ Reset
          /\ Finish(p)
          /\ UNCHANGED <<current_file, file_position>>
    /\ UNCHANGED <<next_file_position, must_pause_work, cmd_from_sd, work_timer, restore_job,
                   workerVars, pauseVars, abort_epoch, envVars>>

\* set_current_file(), and for all but M23 do_resume(): at the start of the
\* file, or at the position saved before the power loss.
ScanEnds(p) ==
    /\ pc[p] = "scanning"
    /\ Reset
    /\ IF todo[p] = "POWER_OFF_CONTINUE"
         THEN file_position' \in 0 .. NLines
         ELSE UNCHANGED file_position
    /\ IF todo[p] = "M23"
         THEN GoOn(p) /\ UNCHANGED <<must_pause_work, work_timer, workerVars>>
         ELSE IF work_timer
                THEN Finish(p) /\ UNCHANGED <<must_pause_work, work_timer, workerVars>>
                ELSE GoOn(p) /\ Resume
    /\ UNCHANGED <<current_file, next_file_position, cmd_from_sd, restore_job, pauseVars,
                   abort_epoch, envVars>>
-----------------------------------------------------------------------------
(* Commands of [pause_resume].                                             *)

\* PAUSE once the worker is asked to stop: the state of the moves is saved,
\* which a printer in shutdown refuses.
PauseDone(p) ==
    /\ pause_command_sent' = TRUE
    /\ IF shutdown = "no"
         THEN is_paused' = TRUE /\ GoOn(p)
         ELSE UNCHANGED is_paused /\ Finish(p)

PAUSE(p) ==
    /\ Runs(p, "PAUSE")
    /\ IF is_paused
         THEN GoOn(p) /\ UNCHANGED <<must_pause_work, pauseVars>>
         ELSE IF pause_command_sent
                THEN PauseDone(p) /\ UNCHANGED <<must_pause_work, sd_paused>>
                ELSE /\ sd_paused' = work_timer
                     /\ RequestPause
                     /\ IF Waits
                          THEN /\ pc' = [pc EXCEPT ![p] = "PAUSE"]
                               /\ UNCHANGED <<todo, epoch, lockVars, is_paused,
                                              pause_command_sent>>
                          ELSE PauseDone(p)
    /\ UNCHANGED <<current_file, file_position, next_file_position, cmd_from_sd, work_timer,
                   restore_job, workerVars, statsVars, abort_epoch, jobs, media_ok, shutdown>>

PauseReturns(p) ==
    /\ pc[p] = "PAUSE"
    /\ ~Waits
    /\ PauseDone(p)
    /\ UNCHANGED <<sdVars, workerVars, statsVars, sd_paused, abort_epoch, envVars>>

\* RESUME moves back to the saved position first.
RESUME(p) ==
    /\ Runs(p, "RESUME")
    /\ is_paused
    /\ pc' = [pc EXCEPT ![p] = "restoring"]
    /\ UNCHANGED <<sdVars, workerVars, statsVars, pauseVars, lockVars, abort_epoch, todo,
                   epoch, jobs, media_ok, shutdown>>

\* send_resume_command(), which raises "SD busy" if the worker is active.
RestoreEnds(p) ==
    /\ pc[p] = "restoring"
    /\ sd_paused => ~work_timer
    /\ GoOn(p)
    /\ is_paused' = FALSE
    /\ sd_paused' = FALSE
    /\ pause_command_sent' = FALSE
    /\ IF sd_paused
         THEN Resume
         ELSE UNCHANGED <<must_pause_work, work_timer, workerVars>>
    /\ UNCHANGED <<current_file, file_position, next_file_position, cmd_from_sd, restore_job,
                   statsVars, abort_epoch, envVars>>

RestoreFails(p) ==
    /\ pc[p] = "restoring"
    /\ Finish(p)
    /\ UNCHANGED <<sdVars, workerVars, statsVars, pauseVars, abort_epoch, envVars>>

CLEAR_PAUSE(p) ==
    /\ Runs(p, "CLEAR_PAUSE")
    /\ ClearPause
    /\ GoOn(p)
    /\ UNCHANGED <<sdVars, workerVars, statsVars, abort_epoch, jobs, media_ok, shutdown>>

\* CANCEL_PRINT with a job of the virtual SD card: do_cancel() aborts the
\* scripts in progress, pauses the worker and closes the file.
CANCEL_PRINT(p) ==
    /\ Runs(p, "CANCEL_PRINT")
    /\ IF work_timer \/ sd_paused
         THEN /\ abort_epoch' = abort_epoch + 1
              /\ IF current_file = 0
                   THEN /\ file_position' = 0
                        /\ ClearPause
                        /\ GoOn(p)
                        /\ UNCHANGED <<current_file, statsVars, must_pause_work>>
                   ELSE /\ PauseThen(p, "CANCEL_PRINT", CloseCancelled /\ GoOn(p))
                        /\ IF Waits THEN UNCHANGED pauseVars ELSE ClearPause
         ELSE /\ ClearPause
              /\ GoOn(p)
              /\ UNCHANGED <<abort_epoch, current_file, file_position, statsVars,
                             must_pause_work>>
    /\ UNCHANGED <<next_file_position, cmd_from_sd, work_timer, restore_job, workerVars,
                   jobs, media_ok, shutdown>>

CancelReturns(p) ==
    /\ pc[p] = "CANCEL_PRINT"
    /\ ~Waits
    /\ IF current_file # 0
         THEN CloseCancelled /\ ClearPause /\ GoOn(p) /\ UNCHANGED <<must_pause_work, shutdown>>
         ELSE Crash(p) /\ UNCHANGED pauseVars
    /\ UNCHANGED <<next_file_position, cmd_from_sd, work_timer, restore_job, workerVars,
                   abort_epoch, jobs, inputs, media_ok>>
-----------------------------------------------------------------------------
(* Requests that do not queue for the mutex first.                         *)

\* pause_resume/cancel: do_cancel() at once, then CANCEL_PRINT as a script.
CancelRequest(p) ==
    /\ pc[p] = "idle"
    /\ Input
    /\ IF work_timer \/ sd_paused
         THEN /\ abort_epoch' = abort_epoch + 1
              /\ IF current_file # 0 /\ Waits
                   THEN /\ RequestPause
                        /\ pc' = [pc EXCEPT ![p] = "cancel"]
                        /\ UNCHANGED <<todo, epoch, lockVars, current_file, file_position,
                                       statsVars>>
                   ELSE /\ IF current_file # 0
                             THEN RequestPause /\ CloseCancelled
                             ELSE /\ file_position' = 0
                                  /\ UNCHANGED <<must_pause_work, current_file, statsVars>>
                        /\ SubmitAt(p, "CANCEL_PRINT", abort_epoch + 1)
         ELSE /\ Submit(p, "CANCEL_PRINT")
              /\ UNCHANGED <<abort_epoch, must_pause_work, current_file, file_position,
                             statsVars>>
    /\ UNCHANGED <<next_file_position, cmd_from_sd, work_timer, restore_job, workerVars,
                   pauseVars, jobs, media_ok, shutdown>>

CancelRequestReturns(p) ==
    /\ pc[p] = "cancel"
    /\ ~Waits
    /\ IF current_file # 0
         THEN CloseCancelled /\ Submit(p, "CANCEL_PRINT") /\ UNCHANGED <<must_pause_work, shutdown>>
         ELSE Crash(p)
    /\ UNCHANGED <<next_file_position, cmd_from_sd, work_timer, restore_job, workerVars,
                   pauseVars, abort_epoch, jobs, inputs, media_ok>>

\* A filament sensor: send_pause_command() at once, then, after a delay, PAUSE
\* as a script.
Runout(p) ==
    /\ pc[p] = "idle"
    /\ Input
    /\ IF pause_command_sent
         THEN /\ pc' = [pc EXCEPT ![p] = "delay"]
              /\ UNCHANGED <<must_pause_work, sd_paused, pause_command_sent>>
         ELSE /\ sd_paused' = work_timer
              /\ RequestPause
              /\ pc' = [pc EXCEPT ![p] = IF Waits THEN "runout" ELSE "delay"]
              /\ pause_command_sent' = ~Waits
    /\ UNCHANGED <<current_file, file_position, next_file_position, cmd_from_sd, work_timer,
                   restore_job, workerVars, statsVars, is_paused, lockVars, abort_epoch, todo,
                   epoch, jobs, media_ok, shutdown>>

RunoutReturns(p) ==
    /\ pc[p] = "runout"
    /\ ~Waits
    /\ pause_command_sent' = TRUE
    /\ pc' = [pc EXCEPT ![p] = "delay"]
    /\ UNCHANGED <<sdVars, workerVars, statsVars, is_paused, sd_paused, lockVars, abort_epoch,
                   todo, epoch, envVars>>

RunoutSubmits(p) ==
    /\ pc[p] = "delay"
    /\ Submit(p, "PAUSE")
    /\ UNCHANGED <<sdVars, workerVars, statsVars, pauseVars, abort_epoch, envVars>>

Proc(p) ==
    \/ ClientSubmits(p) \/ ScriptStarts(p) \/ ScriptEnds(p)
    \/ M24(p) \/ M26(p) \/ M25(p) \/ M25Returns(p)
    \/ SDCARD_RESET_FILE(p) \/ ResetReturns(p)
    \/ StartLoad(p) \/ ExtractionEnds(p) \/ ScanEnds(p)
    \/ PAUSE(p) \/ PauseReturns(p)
    \/ RESUME(p) \/ RestoreEnds(p) \/ RestoreFails(p)
    \/ CLEAR_PAUSE(p) \/ CANCEL_PRINT(p) \/ CancelReturns(p)
    \/ CancelRequest(p) \/ CancelRequestReturns(p)
    \/ Runout(p) \/ RunoutReturns(p) \/ RunoutSubmits(p)
-----------------------------------------------------------------------------
(* Faults.                                                                 *)

\* The file can no longer be read (a USB stick is pulled).
MediaFails ==
    /\ media_ok
    /\ Input
    /\ media_ok' = FALSE
    /\ UNCHANGED <<sdVars, workerVars, statsVars, pauseVars, lockVars, abort_epoch, procVars,
                   jobs, shutdown>>

\* Another part of the printer shuts it down; handle_shutdown() stops the
\* worker and from now on every command raises.
Shutdown ==
    /\ shutdown = "no"
    /\ Input
    /\ shutdown' = "fault"
    /\ RequestPause
    /\ ReadForLog
    /\ UNCHANGED <<current_file, file_position, next_file_position, cmd_from_sd, work_timer,
                   restore_job, sdpc, lines, line_end, statsVars, pauseVars, lockVars, abort_epoch,
                   procVars, jobs, media_ok>>

\* Nothing is going on and no input is left: the bound of the model is reached.
Rest ==
    /\ inputs = MaxInputs
    /\ sdpc = "off"
    /\ \A p \in Procs : pc[p] = "idle"
    /\ UNCHANGED vars

Next == Worker \/ (\E p \in Procs : Proc(p)) \/ MediaFails \/ Shutdown \/ Rest

\* The reactor runs every due timer and every move or wait of a command ends,
\* so the worker and each greenlet that is not idle keep taking steps.
WorkerProgress ==
    \/ WorkerStart \/ WorkerRestored \/ WorkerStops \/ WorkerReads \/ WorkerEndOfFile
    \/ WorkerReadFails \/ WorkerDispatches \/ LineStarts \/ LineEnds
    \/ OnErrorStarts \/ OnErrorEnds

ProcProgress(p) ==
    \/ ScriptStarts(p) \/ ScriptEnds(p) \/ M25Returns(p) \/ ResetReturns(p)
    \/ ExtractionEnds(p) \/ ScanEnds(p) \/ PauseReturns(p) \/ RestoreEnds(p)
    \/ RestoreFails(p) \/ CancelReturns(p) \/ CancelRequestReturns(p) \/ RunoutReturns(p)
    \/ RunoutSubmits(p)

Fairness == WF_vars(WorkerProgress) /\ \A p \in Procs : WF_vars(ProcProgress(p))

Spec == Init /\ [][Next]_vars /\ Fairness
-----------------------------------------------------------------------------
InCommand == {"command", "relock", "lock", "onerror"}

FileTypeOK ==
    /\ current_file \in 0 .. MaxJobs
    /\ file_position \in 0 .. NLines
    /\ next_file_position \in 0 .. NLines
    /\ restore_job \in 0 .. MaxJobs

FlagTypeOK ==
    /\ must_pause_work \in BOOLEAN
    /\ cmd_from_sd \in BOOLEAN
    /\ work_timer \in BOOLEAN

WorkerTypeOK ==
    /\ sdpc \in WorkerStates
    /\ lines \in Seq((1 .. MaxJobs) \X (1 .. NLines))
    /\ read_position \in 0 .. NLines
    /\ line_end \in 0 .. NLines

ReportTypeOK ==
    /\ state \in JobStates
    /\ started \in BOOLEAN
    /\ is_paused \in BOOLEAN
    /\ sd_paused \in BOOLEAN
    /\ pause_command_sent \in BOOLEAN

LockTypeOK == line \in Seq(Procs \cup {"sd"}) /\ inside \in SUBSET (Procs \cup {"sd"})

ProcTypeOK ==
    /\ abort_epoch \in Nat
    /\ pc \in [Procs -> ProcStates]
    /\ todo \in [Procs -> Scripts]
    /\ epoch \in [Procs -> Nat]

EnvTypeOK ==
    /\ jobs \in 0 .. MaxJobs
    /\ inputs \in 0 .. MaxInputs
    /\ media_ok \in BOOLEAN
    /\ shutdown \in {"no", "fault", "internal"}

TypeOK ==
    /\ FileTypeOK
    /\ FlagTypeOK
    /\ WorkerTypeOK
    /\ ReportTypeOK
    /\ LockTypeOK
    /\ ProcTypeOK
    /\ EnvTypeOK

\* Whatever way the worker left, the flags that other commands read say so: an
\* exit that forgot one of them would make every later print fail with "SD
\* busy" or let do_pause() believe that a line is in progress.
WorkerFlags ==
    /\ work_timer <=> sdpc # "off"
    /\ cmd_from_sd <=> sdpc \in InCommand

\* A print resumes exactly where it stopped: between two lines the next
\* buffered line is the one after file_position and the buffer has no gap; the
\* next read goes on from there (a worker that was asked to stop reads no more).
NoLineLost ==
    sdpc = "loop" /\ current_file # 0 =>
        /\ must_pause_work \/ read_position = file_position + Len(lines)
        /\ \A i \in DOMAIN lines : lines[i] = <<current_file, file_position + i>>

\* The reported state agrees with the file: a job that may be resumed still has
\* its file and a job that is over has not.
StateMatchesFile ==
    /\ state = "paused" => current_file # 0
    /\ state \in {"complete", "cancelled"} => current_file = 0
    /\ state \in {"printing", "paused"} <=> started

\* "printing" is not reported when nobody prints.  (If the file cannot be read
\* after a skip, the worker leaves without a word; see ExitSilently.)
PrintingHasWorker == state = "printing" /\ media_ok => work_timer

\* The parts of the inductive invariant IInv.  The greenlet inside the mutex is
\* the one that is in a command, and there is one at most.
OutsideMutex == {"idle", "lock", "cancel", "runout", "delay"}

MutexHolders ==
    {p \in Procs : pc[p] \notin OutsideMutex}
        \cup {g \in {"sd"} : sdpc \in {"command", "onerror"}}

MutexHeld ==
    /\ inside = MutexHolders
    /\ \A g, h \in inside : g = h
    /\ line = <<>> => inside = {}

\* A file is loaded only while there is no worker that could print it.
LoadExcludesWorker ==
    \A p \in Procs :
        /\ pc[p] \in {"extracting", "scanning"} => ~work_timer
        /\ pc[p] = "extracting" => current_file = 0 /\ state = "extracting"

\* NoLineLost, and what it takes in the other states of the worker.
BufferMatchesFile ==
    /\ sdpc \in {"off", "armed", "restore"} => lines = <<>>
    /\ sdpc = "restore" /\ current_file # 0 =>
         must_pause_work \/ read_position = file_position
    /\ sdpc = "loop" => file_position + Len(lines) <= NLines
    /\ sdpc \in {"command", "relock"} => line_end + Len(lines) <= NLines
    /\ sdpc = "loop" /\ current_file # 0 =>
         /\ must_pause_work \/ read_position = file_position + Len(lines)
         /\ \A i \in DOMAIN lines : lines[i] = <<current_file, file_position + i>>
    /\ sdpc \in {"command", "relock"} /\ current_file # 0 =>
         /\ must_pause_work \/ read_position = line_end + Len(lines)
         /\ \A i \in DOMAIN lines : lines[i] = <<current_file, line_end + i>>

\* A worker that has begun reports "printing" until its file is gone.
WorkerReports ==
    /\ started => current_file # 0
    /\ sdpc \notin {"off", "armed"} /\ current_file # 0 => state = "printing"
    /\ sdpc \in {"off", "armed"} /\ media_ok => state # "printing"

IInv ==
    /\ TypeOK
    /\ WorkerFlags
    /\ MutexHeld
    /\ LoadExcludesWorker
    /\ BufferMatchesFile
    /\ StateMatchesFile
    /\ WorkerReports

\* A job that was cancelled prints no further line, whichever greenlet
\* cancelled it and wherever the worker was at that time.
CancelledPrintsNothing ==
    [][WorkerDispatches => Head(lines)[1] = current_file]_vars

\* A PAUSE that the printer accepted stops the job, or the job is about to stop.
PausedMeansStopping == is_paused /\ sd_paused => ~work_timer \/ must_pause_work

\* No command or request trips over a file that another one has closed.
NoInternalError == shutdown # "internal"

\* The power-loss restore runs only for the job it was prepared for.
RestoreForItsJob == sdpc = "restore" => restore_job = current_file

\* Clients do not keep the mutex busy for ever: the worker and do_pause() poll
\* for a free moment and may miss every one if they do.
ClientsFallSilent == <>[][\A p \in Procs : ~ClientSubmits(p)]_vars

\* Whoever waits in do_pause(), for the mutex or in a command comes back, even
\* if the worker it waits for is started again meanwhile.
GreenletsReturn ==
    ClientsFallSilent => \A p \in Procs : pc[p] # "idle" ~> pc[p] = "idle"

\* A pause request always stops the worker.
PauseIsHeard == must_pause_work /\ work_timer ~> ~work_timer
=============================================================================
