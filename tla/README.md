# Verification of the QIDI Plus 5 printer software

TLA+ models of the host software in this repository (`klipper/klippy`, the
printer's fork of Klipper), the TLC runs that check them on small instances, and
the theorems about them that the TLA+ proof system has checked. `PROJECT.json`
lists components, runs, mutants, the line of code behind every definition,
hazards and theorems.

## 1. The system

One Python process drives the printer. Everything in it, apart from the thread
of the C serial queue and a few helpers, runs in **greenlets of one thread**: a
greenlet keeps the processor until it calls `reactor.pause()` (or a wait built
on it), so the code between two such points is atomic, and every hazard lies in
what may happen *at* them.

| part | state it keeps | operations | talks to | hard because |
|---|---|---|---|---|
| reactor (`reactor.py`) | timers, greenlet pool, async queue | timers, `pause`, completions, mutex | everybody | scheduling, wake-ups, re-entry |
| G-code dispatch (`gcode.py`) | mutex, abort epoch, handlers | `run_script`, `run_script_from_command`, cancel epoch, serial input | all commands | interleaved scripts, errors, M112 out of order |
| virtual SD card (`extras/virtual_sdcard.py`) | open file, position, flags of the worker, restore script | load, start, pause, reset, cancel, the worker greenlet | dispatch, statistics, pause/resume | two greenlets read and write the same flags around waits |
| pause/resume (`extras/pause_resume.py`) | `is_paused`, `sd_paused`, `pause_command_sent` | PAUSE, RESUME, CLEAR_PAUSE, CANCEL_PRINT, API requests | virtual SD, sensors | requests that bypass the G-code queue |
| print statistics (`extras/print_stats.py`) | reported state, start time | `note_*`, `reset` | virtual SD | must agree with the file in every interleaving |
| filament sensors (`extras/filament_switch_sensor.py`) | presence, debounce time | runout and insert handlers | pause/resume | pause now, PAUSE command later |
| API socket (`webhooks.py`) | connections, subscriptions | requests as greenlets | all | concurrent requests, internal errors shut down |
| serial transport (`chelper/serialqueue.c`, `serialhdl.py`) | windows, sequence numbers, queues | send, receive, ack, nak, retransmit | MCU | loss, duplication, 4-bit wrap-around, threads |
| heaters (`extras/heaters.py`, `verify_heater.py`) | target, temperature, PWM, error | set, wait, verify | MCU, dispatch | waits that must be abortable, fault detection |
| tool head (`toolhead.py`, `kinematics/extruder.py`) | look-ahead queue, print time, queuing state | moves, dwell, flush, drip | steppers | priming, flush times, held-back extrusion |
| homing and trsync (`mcu.py`, `extras/homing.py`, `chelper/trdispatch.c`) | trigger state per MCU | arm, trigger, time-out | MCUs | several MCUs must stop together |
| idle timeout, exclude object, save variables, print_stats_manager | small state machines, files | | | power loss between two steps |
| configuration and macros (`config/`) | printer setup, macro variables | PRINT_START and others | dispatch | hooks such as `on_error_gcode: CANCEL_PRINT` |
| closed `.so` extras, displays, sensors, drivers, kinematics in C | | | | no source, or numeric |

What makes the central parts correct:

* mutex: exclusion, first come first served, no lost wake-up;
* transport: each command executed once and in order, answers told apart although
  their numbers repeat, no block without a timer, no full buffer, no caller told
  too early;
* print job: no line of a file is lost or printed twice across pause, resume,
  skip and seek; a cancelled job prints nothing more; a pause is heard; the
  flags that commands test before they act (`work_timer`, `cmd_from_sd`) are
  true on every path out of the worker; the reported state agrees with the
  file; nobody waits for ever; no request trips over a file another one closed.

## 2. Plan

The order was: the reactor's mutex and the print job first, because every
command goes through them; then the transport to the micro-controllers; then what
moves the machine (tool head, homing, connection); then the devices. Every
component that has state of its own now has a module, and the components every
command depends on have their invariants proved, with those of homing over several
micro-controllers. Section 5 names what is only model-checked and why.

## 3. Modules

A component has one module. `MC...` modules put several components, as *parts*,
into one run of TLC (`MCReactorMutex`, `MCPrintJob`, `MCLive`, `MCPrinter` and
`MCMachine`). Theorems are in `...Proofs` modules beside the component, or at the
end of the `MC...` module whose specification they are about.

| module | models |
|---|---|
| `FifoLock`, `ReactorMutex` | a first-come lock; the mutex of `reactor.py`, which implements it |
| `Reactor` | timers, dispatch, pauses at any depth, the pool of greenlets, completions of `reactor.py` |
| `GCodeInput` | the pseudo-tty and the batches of lines (`GCodeIO`, `_process_commands`) |
| `PrintJob` | print state (`print_stats.py`); virtual SD card, pause/resume, scripts and their mutex (`FifoLock`), runouts |
| `ApiServer` | clients, queries, subscriptions and send buffers of `webhooks.py` |
| `IdleTimeout` | `idle_timeout.py` and `delayed_gcode.py` over the tool head's events |
| `ReliableChannel`, `SerialWindow` | in-order execution; the window protocol of `serialqueue.c`, which implements it |
| `SerialConn` | queries, retries, handlers, identification, the 32-bit clock (`serialhdl.py`, `clocksync.py`) |
| `McuConnect` | sessions of the printer, configuration, shutdown, restart (`klippy.py`, `mcu.py`) |
| `Toolhead` | print time, look-ahead, flush timer, stalls, drip (`toolhead.py`) |
| `GCodeMove`, `ExcludeObject` | commanded positions and the extrusion accumulator; the transform that skips objects |
| `BedMesh`, `BedMeshPoints`, `MeshInterpolation` | `bed_mesh.py`: following the mesh, probing it, computing it |
| `Homing`, `TriggerDispatch` | G28, homing moves, probe sessions; trsync over several micro-controllers |
| `ManualProbe` | the calibrations that wait for ACCEPT and ABORT |
| `Kinematics`, `DualCarriages` | limits and stepper positions of nine kinematics; two carriages on one rail |
| `TrapQueue`, `StepCompress` | from moves to step times (`trapq.c`, `itersolve.c`); from step times to commands |
| `Heaters`, `Fans`, `OutputPins`, `Lights` | what is switched on and off, with its checks |
| `BulkSensors`, `TempSensors` | streams of samples; polled sensors |
| `Tmc`, `TmcValues` | registers of stepper drivers over a shared wire; the numbers in them |
| `Buttons`, `Menu` | keys and the menu of a display |
| `SavedState` | SAVE_CONFIG and SAVE_VARIABLE with crashes and power loss |
| `Palette2` | the filament splicer: its connection, its requests and the scripts they run (`palette2.py`) |
| `Parts` | the variable `part` and the slots that the parts of a run share |

The comment at the head of each module says what is abstracted; `PROJECT.json`
has the lines of code behind each definition. Definitions named as mutants in
their comment are not part of a specification: each is a plausible mistake in the
definition after it, and the run that checks a property must find it violated
when the mistake is put in.

**Parts.** In a run with parts `part` says which component's behaviour it is;
it never changes. The variables of a component that has not the module of its
own in that run are *slots* `s1 ... s22` of `Parts`; slots a part does not use
are 0. (`MCPrinter` extends `Heaters`: the other parts leave its variables as they
start.) A property of the run says of each part what its module promises
(`PositionIsKnown` of the run `printer`, for instance, is that of `GCodeMove` in the
part "gcode" and that of `ExcludeObject` in the part "objects"). Parts do not
influence each other; each is checked as if it had a run of its own.

### ReactorMutex

`is_locked`, `next_pending`, `queue` are the attributes of the object; `pc` is
where a greenlet is, and `due` the greenlets whose timer `__exit__` set to NOW.
`__enter__` is `EnterFree`, or `EnterTaken` followed by `Wake` for each return
of `reactor.pause(NEVER)`, which takes the lock only if `MayTake`; `__exit__` is
`ExitIdle` or `ExitHandOff`. A waiter sleeps with NEVER and only `__exit__` sets
its timer, that of the head, so `Wake` finds the lock free for it and the loop in
`__enter__` runs once: wake-ups without a cause do not occur in this program and are
not modelled. What others do between the hand-over and that wake-up is.

Refinement: the lock's line is the holder followed by `queue`; during a
hand-over the line is `queue` alone and nobody is inside.

### PrintJob

A step is the code between two points where greenlets can switch. The worker
`"sd"` runs `work_handler`; `sdpc` is where it is. Every other greenlet (`Procs`)
is a client or a request, `pc` says where it is, `todo` what its script may
still run and `epoch` the abort epoch its `_process_commands` started with.

| code | actions |
|---|---|
| `work_handler`, start, restore | `WorkerStart`, `WorkerRestored`, `WorkerRestoreFails` |
| the loop | `WorkerStops`, `WorkerReads`, `WorkerEndOfFile`, `WorkerReadFails`, `WorkerDispatches` |
| a line of the file | `LinePauses`, `LineCancels`, `LineClearsPause`, `LineSkips`, `LineSwitches`, `LineStarts`, `LineEnds`, `LineFails`, `LineCrashes` |
| `on_error_gcode` | `OnErrorStarts`, `OnErrorCancels`, `OnErrorEnds` |
| `run_script`, `_process_commands` | `ClientSubmits`, `ScriptStarts`, `ScriptEnds`; `Runs` is the condition under which a command of a script is run |
| `do_pause` | `PauseThen` and the `...Returns` actions, enabled when its polling loop ends |
| `_load_file` | `StartLoad`, `ExtractionEnds` (3MF), `ScanEnds` |
| PAUSE, RESUME, CLEAR_PAUSE, CANCEL_PRINT | the actions of these names |
| `pause_resume/cancel` | `CancelRequest`, `CancelRequestReturns`, then the script CANCEL_PRINT |
| runout | `Runout`, `RunoutReturns`, `RunoutSubmits` |
| faults | `MediaFails`, `Shutdown` |

Abstractions. A file has `NLines` lines and a line is `<<job, number>>`; how
many lines one read of 8192 bytes returns is arbitrary. What a line of the file
or a client's script does to the state of the job is chosen freely; moves,
waits and macros only take time. `last line without line end` and the contents
of the restore script are not modelled. A command that raises ends its script
(`ScriptEnds`), as `run_script` does. After a shutdown no command handler runs
(`gcode.py:181-187`) but greenlets in the middle of one go on. The extrusion
scan, the 3MF extraction and the restore of RESUME may take any time and, but
for the scan, may fail.

### SerialWindow

The background thread of `serialqueue.c` is one actor: each of its callbacks
runs under `sq->lock` and is a step (`SendBlock` one block of `command_event`,
`Retransmit` is `retransmit_event`, `HostReceives` a message of `input_event`),
as is each call from Python (`Submit`, `SetReceiveWindow`). The variables have
the names of `struct serialqueue`; sizes are counted in blocks, and of times is
kept which block they are about (`last_receive_sent`, `stamp`) and whether the
timer of the retransmission is off, running or due at once.

External: the MCU, modelled from what the host relies on. It executes the block
it expects (`McuAccepts`), may answer (`McuReplies`), then acknowledges it
(`McuAcks`); any other block is dropped and the expected number sent
(`McuNaks`); `McuReports` sends what nobody asked for. Lines keep their order
and lose or damage blocks (`Fault`); what `tcflush` cuts off is `Flushed`.

A connection starts with the host at number 1 and the MCU anywhere: until the
first acknowledgement only identification queries are sent, one at a time, and
they may be lost and still be notified; they are asked again. All of this
is modelled; `early` marks those messages.

Refinement: a message is waiting while it is in `ready` or in a block that the
MCU has not accepted yet.

### The other modules

The actions have the names of the methods, or say what happens where a method
waits in the middle. Three shapes recur.

* *A loop of timers and greenlets* (`Reactor`, `GCodeInput`, `ApiServer`,
  `IdleTimeout`, `Heaters`, `Fans`, `OutputPins`, `Lights`, `BulkSensors`, `TempSensors`,
  `Tmc`, `Palette2`, `Toolhead`): one action per callback up to its next wait. Time is an
  action of its own that does not pass a timer that is due; what a sensor, a chip
  or a client does is an action with a bound on the number of its faults.
* *Two sides of a line* (`SerialWindow`, `SerialConn`, `TriggerDispatch`,
  `McuConnect`, `Buttons`): the host's threads as in the code, and a
  micro-controller modelled as external from what the host relies on.
* *Commands under the G-code mutex* (`GCodeMove`, `ExcludeObject`, `BedMesh`,
  `ManualProbe`, `Homing`, `Kinematics`, `DualCarriages`, `Menu`,
  `SavedState`): a command is one step, or several if it can fail half way. What
  it computes is a function of the state; beside it the module keeps what really
  is (where the head stands, what the disk holds), and the properties compare the
  two.
* *Algorithms* (`BedMeshPoints`, `MeshInterpolation`, `TrapQueue`,
  `StepCompress`, `TmcValues`): functions from the code against a reference
  definition, over all small inputs.

## 4. Runs

| run | parts and bounds | shows |
|---|---|---|
| `reactor_mutex` | mutex: 4 greenlets; reactor: 2 greenlets, 2 timers, 1 call and 1 unit of time; input: 3 lines, batches of 2 | hand-overs are not lost and go to the head of the queue, the mutex is a FIFO lock, waiters are served; the reactor does not sleep past a timer, one greenlet dispatches, what is due is called; each line is run or dropped once and in order |
| `print_job` | 2 greenlets, all commands, 2 lines, 2 jobs, 5 inputs; two scenarios with 1 job, one without M24, one without M24 and RESUME | `NoLineLost`, `StateMatchesFile`, `PrintingHasWorker`, the invariant of the proofs; where nothing restarts the job, a cancelled one prints nothing more and an accepted PAUSE stops it |
| `print_live` | 1 job, 4 inputs, no symmetry | `GreenletsReturn`, `PauseIsHeard` |
| `serial_window` | window: 3 messages, 4 numbers, 3 blocks in flight, a buffer of 2 blocks, 1 fault; sequence: 4 messages, 3 numbers, 2 in flight; connection: 2 clients, 2 sessions, 2 lost answers; homing moves: 2 micro-controllers, a time-out and a move of 2 units of time | the window and its timer are consistent, no full buffer, notified means executed and answered; answers find their block where the window is as large as the numbers allow; answers are one's own, the clock is extended rightly; all steppers stop together, and a hit or a miss is reported truly |
| `printer` | 7 parts in `MCPrinter`: 3 heaters (plain, a box with bang-bang control, a chamber) and 2 inputs; 2 extruders, 2 coordinates, factors and feed rates, 3 commands; 2 objects, 7 moves and 3 commands, 2 moves let pass; 2 clients with 2 requests; timeouts of 3 and 5 of 9 units; 2 sets, 2 saves, 1 edit and 1 fault; 2 points, 2 screws, 6 heights, 2 retries of a tilt, 4 commands, of which one may fail after up to 3 moves | heaters watched, the head where it is believed to be, saved files kept, clients current, calibrations clean: commands have owners, applied means level, heaters go off |
| `machine` | 20 more in `MCMachine`, each a small instance, among them the splicer with a queue of 4 commands and 2 connections | from moves to steps: they are timely, the mesh is followed, no accepted move leaves its range (the coordinates lie inside and outside of it) and no carriage its rail, the steps are those of the moves; fans cool, sensors heard, registers as believed, pins and splicer served, panel and lights true |
| `live` | transport: 2 messages, 3 numbers, 1 fault; homing moves of 1 unit of time over 2 micro-controllers with a time-out of 1, hit, miss or timed out; G28 and probing with retries; 2 micro-controllers with 2 faults and a restart | what must come to an end does, and the transport implements `ReliableChannel` |
| `moves_end` | 2 moves, 18 units of time | queued moves are run although nothing follows |
| `print_late_cancel`, `print_paused_restart`, `print_stale_restore`, `homing_asked` | 4 inputs, 3 commands | the disagreements below |

`CHECK_DEADLOCK` is on for `reactor_mutex` (a part other than the mutex may stop),
`print_job` (the model can only stop in `Rest`, when nothing goes on and the
inputs are used up) and `serial_window`. It is off where a part ends when its
bound is reached (`printer`, `machine`, `moves_end`, `live`, `homing_asked`), and in
`print_live`, where a greenlet that waits for ever is to be reported by the
property.

**Bounds.** Each names the smallest instance in which the hazard can happen: three
greenlets at the mutex are two waiters beside a holder, the smallest queue in
which order matters. Two lines are enough for a line that is running and one that
is buffered, so for every state of the buffer that the worker tells apart; two
jobs for one that replaces another; two greenlets beside the worker for one that
waits in `do_pause` while another acts; five inputs for load, pause, resume,
cancel and one disturbance. The numbers of the transport wrap around within the
connection (the MCU starts anywhere) and within four blocks; time-outs are not
bounded, only what is on the line is, so with one fault there are losses during
retransmissions of retransmissions. Times in `Toolhead` and the devices are in
units in which every limit of the code is at least one. In `live` a
trsync may stop by itself while the move goes on (`Expires` is enabled before the
homing ends), so a stop that is lost before the dispatcher listens is resolved by the
time-out. A micro-controller of `McuConnect` may be reset at any moment, in the
middle of connect too. The theorems need
none of these bounds.

**Fairness.** `WF` on the steps of the print worker that end something it has
begun, and on the same of every other greenlet: the reactor runs every timer
that is due (`_check_timers`; checked in the part "reactor") and every wait in a
command is bounded. No fairness for inputs, failures, or the commands a script
runs. `GreenletsReturn` has the premise `ClientsFallSilent`: the worker tests
the mutex each 100 ms and `do_pause` its flags each 1 ms, so clients that keep
the mutex busy for ever can starve both, and the code does nothing against it.

For the transport: `WF` on the callbacks of the background thread, which polls
all of them, and on the MCU. A time-out that comes before its answer flushes
the line and could do so for ever; `rto` doubles with each one up to 5 s, so in
the end there is none (`<>[][~Premature]_vars`). That naks do not do the same
is not assumed: it is what `ignore_nak_seq` is for, and the property fails
without it. A caller may wait for longer than its answer: when the acknowledgement
after a response is lost, nothing is left to be sent again and the notification
comes only with the next block (`NotifiedByNextBlock`). With a clock query each
second that is a delay; during identification it ends in the time-out of
`_start_session()` and a new attempt.

For homing: `WF` on the threads, the firmware, and time; none on the endstop.
`SF` on the event that the samples of a probe agree (a probe that never
repeats itself is what the retry limits are for). For the connection: `WF` on the host (its
clock queries, callbacks and the stop it sends included), the firmware and on links that come
back; `FIRMWARE_RESTART` is given when it is asked for. `FirmwareRestartRecovers` ends in a
printer that is ready or in a port that a dead session still holds (`PortIsHeld`): after a
reset in the middle of connect the session goes on with a closed connection, the reset
command of a later FIRMWARE_RESTART raises on it, and the ports of the other
micro-controllers are never closed (one of the findings). `TroubleShows`: a
micro-controller that has shut down or no longer answers does not stay unnoticed for ever.
One that restarts by itself is left out: `_handle_starting` passes its message on with an
argument too few (one of the findings), so nothing tells the printer until a command
misses its object.

### Disagreements found

Four have a run, in which TLC shows the disagreement:

1. `print_late_cancel`: a cancel that waits in `do_pause` can be undone by M24
   or RESUME within its poll; it then returns because the *new* worker is in a
   line, closes the file, and buffered lines are still printed.
2. `print_paused_restart`: starting a file while paused leaves `is_paused` set
   and the new print cannot be paused. (The shipped PRINT_START macro runs
   CLEAR_PAUSE, which hides it for files that call the macro.)
3. `print_stale_restore`: a power-loss continuation whose file cannot be loaded
   leaves its restore script to the next print.
4. `homing_asked`: `home()` of `corexy.py` leaves its loop over the axes
   without homing any, and then homes the last one only.

`Palette2` has as steps what shuts the printer down (`down`): PALETTE_DISCONNECT without
a connection unregisters a timer that is None, an empty line or a request for an entry
beyond the header raises `IndexError`, a smart load of which nothing is known compares
`None < 0`. And it has what blocks it: a device that is silent during PALETTE_CONNECT
holds the G-code mutex for ever, since `_wait_for_heartbeat` has no end.

Properties do not hide what is listed there, but say what they leave to it:

* `PrintingHasWorker` has the premise that the file can be sought: a failing seek ends the
  worker without a note (`ExitSilently`). `CalibrationsAreClean` is about a printer that
  runs: a manual probe started between two samples of a drift calibration ends in a crash.
* `CarriagesStayApart` holds from a selection of modes with the carriages apart to the next
  restore whose move is refused, which leaves them linked.
* `MovesStayInside` is the limits of each kind of printer; a deltesian keeps to the height of
  its pillars when Z moves and X is in range, and not in a move of X alone at its top.
* `StillFanStops` is about fans that are watched: a heater fan that runs when a target is set is
  not, and a controller fan is not reported again until its first fault has passed.
* `LampFollowsStatus` holds until NEOPIXEL_MODE is used, which sets the strip by hand.

The rest of `findings` in `PROJECT.json` was met while modelling: each was shown
by TLC with a wider choice of inputs than the runs have (the constants that leave
them out are `Removes`, `MovesInUse`, `ServoStarts`, `ScrewsBeside`, `Key` and the
like) or without a premise of the property, and names the line and the sequence of commands.

## 5. Proofs

The theorems hold for every value of the constants that satisfies the assumptions
the modules name: any number of greenlets, timers, lines, jobs, messages,
micro-controllers, faults and inputs, and any limit. The assumptions say that a
number is a number, that constants that must differ do, and what the code relies
on itself (`MaxPending < SeqValues`: `MAX_PENDING_BLOCKS` against
`MESSAGE_SEQ_MASK` in `serialqueue.c`; `KeysDiffer` and `ClockTurnsLate` of
`SerialConn`, below, where the code does not ensure it and a finding says so). Each theorem comes from an invariant `IInv` that a step
preserves; TLC checked each one first. One lemma says of each conjunct, or of
each action where the conjuncts need each other, why it is preserved.

| module | theorems | of the runs' properties |
|---|---|---|
| `MCReactorMutex` | `InvariantHolds`, `MutexExcludes`, `HandOffIsNotLost`, `MutexIsFifo` (the steps of the refinement to `FifoLock`) | `IInv`, `HandOffReachesHead` |
| the same, of its parts | `ReactorKeepsTime`, `InputIsNotLost` | `ReactorIsSound`, `InputIsTaken` |
| `ReactorProofs` | `ReactorInvariant`, `NothingIsSleptThrough`; of `GCodeInput`: `LinesAreTaken` | |
| `MCPrintJob` | `PrintJobInvariant`, `TypesAreKept`, `FlagsTellTheWorker`, `NoLineIsLost`, `StateAgreesWithFile`, `PrintingIsTrue` | `IInv`, `NoLineLost`, `StateMatchesFile`, `PrintingHasWorker` |
| the same, of its scenarios | `PauseIsHeeded`, `CancelIsHeeded` | `PauseStopsPrint`, `CancelEndsPrint` |
| `SerialWindowProofs` | `IInvHolds`, `WindowIsAlwaysRight`, `PromisesAreAlwaysKept` | `WindowIsRight`, `PromisesAreKept` |
| `HomingProofs` | `HomingInvariant`, `NothingIsLeft`; of `TriggerDispatch`: `DispatchIsInvariant`, `EndstopsStop` | |
| `McuConnectProofs` | `ConnectInvariant`, `ShutdownIsSeen`; of `SerialConn`: `ConnectionInvariant`, `ConnectionHolds`, `ClockIsKnown`, `QueriesGetTheirAnswers` | |
| `MCLive` | `HomingIsClean`, `ShutdownsAreTotal`; `LineIsAlwaysSound`, `EndstopsAreTrue` | `HomingLeavesNothing`, `ShutdownIsTotal`; `LineIsSound`, `EndstopsStopTogether` |
| `MCPrinter` | `HeatersInvariant`, `HeatersAreSafe` | `HeatersAreWatched` |
| the same, of its parts | `GCodeInvariant`, `ObjectsInvariant`, `PositionIsAlwaysKnown`; `IdleInvariant`, `ApiInvariant`, `ClientsAreAlwaysCurrent`; `FilesInvariant`, `FilesAreAlwaysKept`; `ProbingInvariant`, `CalibrationsAreAlwaysClean` | `PositionIsKnown`; `ClientsAreCurrent`; `SavedIsKept`; `CalibrationsAreClean` |

*Parts.* A property of a run with parts is a theorem of its specification, too:
a step of one part is no step of another one (`StepsStayApart`, `PartsStepAlone`), so the
invariants of the components, proved in their own modules for all constants,
are carried over by instances of those modules.

*ReactorMutex.* `IInv` adds to the type invariant that `queue` holds exactly the
waiting greenlets, each once, that the lock is marked while anybody holds or
waits for it, and that while a hand-over is pending nobody holds it and the
timer of the head is due. It gives `MutexExcludes`, `HandOffIsNotLost` and,
step by step, `MutexIsFifo`.

*Reactor.* That the loop never sleeps past a timer (`NoOversleep`) depends on
where a scan of the timers was cut off: a callback that pauses leaves the rest of
the scan to nobody. `NextIsSoon` says what makes this right: the next check is
not later than any timer, but for those the scan still has to look at.
`ScanIsRight` says who may have such a rest and that its first timer is the one
whose callback runs; `CurIsRight` tells the greenlet that runs from the one
that dispatches; `RestIsQuiet` keeps timers that are not registered, and those
that wait for a completion, out of the way. The proof has one lemma per
action and lemmas on the two list operations of the code, removing the
first occurrence and appending.

*GCodeInput.* Lines carry the number in which they arrived. Batch and waiting
lines together are the last ones, in order (`LinesInOrder`); `BatchIsRight` says
that between batches there is no line to run, `FdIsRight` that the tty is
only read while fewer lines wait than the limit, from which `ReadsAgain` follows.

*PrintJob.* `NoLineLost` and the others are not inductive alone. `IInv` adds:
`MutexHeld` (the greenlet inside the mutex is the one in a command, at most
one), so that only one greenlet loads a file; `LoadExcludesWorker` (a load and
a worker exclude each other across the pauses of the load); `BufferMatchesFile`
(where the buffer starts in each state of the worker: at `file_position` between
lines and at `line_end` in a line); `WorkerReports` (which reported states go
with which states of the worker). Each conjunct is preserved by its own lemma
(`...Step`), one step per group of actions; `NextPreservesIInv` combines them.

The two scenarios of `MCPrintJob` are about `CancelledPrintsNothing` and
`PausedMeansStopping`, which the program does not keep (see the disagreements
above). They show exactly what breaks them: with one job and every command but
M24, an accepted pause stops the job (`PauseIsHeeded`); without RESUME also, no
line of a closed file is begun (`CancelIsHeeded`). `ScenarioIsOneJob` shows, by
expanding both instances, that a step of a scenario is a step of the program
that is no M24. The invariants `PausingInv` and `CancellingInv` then say: before
the first job nothing has begun, so nobody waits and the worker is off; whoever
waits to close the file has asked the worker to stop; and only `do_resume`
takes such a request back, which without M24 only RESUME calls. The theorems
have one assumption, that the scenarios' commands are among the commands.

*SerialWindow.* For any number of sequence values, any window below it and any
buffer. `LineIsNumbered` and `McuIsNear` keep all numbers that are on the line
within `SeqValues` of each other, so that a number that has wrapped stands for
one block only; with a lost or repeated block what is on the line is a thinned
copy of what was sent. `RepliesAreInOrder` orders answers and acknowledgements
(a response comes before the acknowledgement of its block);
`MessagesAreInOrder` says that messages that wait, are in flight and were executed
follow each other; `NotificationsAreTrue` that who waits for a notification waits
for the block with his message; `BufferIsCounted` counts what the MCU may still
have in its buffer. `HostReceives` and `Retransmit`, which move the whole window, have the
longest proofs.

*Homing.* `PlaceIsRight` says from which callers each place in the code is
reached, `CountIsRight` bounds the retries, `BegunIsRight` and `PinIsRight` which
sessions and pins go with a place, `TargetIsKept` where the target of the heater
is, `OneIsMarked` that one axis at most counts as homed before it is located. It was
in proving this that a guard of the model was found to be too wide: `RailsEnd`
could be taken again, and succeed, after a handler of `home_rails_end` had raised.
The model was corrected.

*TriggerDispatch.* `StopTogether` says that after one micro-controller has
stopped no other waits for longer than one time-out. The host gives a
micro-controller more time only when reports have come from all the others, and
sends the smallest of their clocks: so each expiry, the one in force, one on its way
to the firmware and the one the host has computed, is `Backed` by reports that
were sent before the others stopped (`TimesAreBacked`; reports are delayed but
not invented, `ReportsAreRight`). `CommandsAreRight` and `StartsFirst` say what may be in
a queue of commands and that the start comes before every other one: an
extension never reaches a trsync that is not armed. For a hit, `MainStopsFirst` says
that without a time-out nobody stops before the micro-controller of the endstop,
for a miss `MissesAreLate` that it stopped because its move was over, for both
`ResultsAreTrue` that the answer to the host's request is the reason that the
firmware kept.

*McuConnect.* `ShutdownReaches` alone is not inductive: the micro-controller that
is being configured has no steppersync yet, and the stop must reach it too
(`StopReaches` with `InUse`). `KnownIsDown` says that what the host knows of a
shutdown is true, `IdentifyIsFresh` what a new session leaves behind.

*SerialConn.* `LineIsOfWaiters` says that of each greenlet that waits there is one
thing on the line, the command as it was sent or its acknowledgement, and of
others nothing: so nobody waits in vain, and what is changed for a greenlet when its
acknowledgement comes is not what another one waits for. `SessionsAreRight` tells how
sessions and clients follow each other. Two more conjuncts need keys that differ
(`KeysDiffer`; where two clients share the name and oid of an answer, the properties
fail, as the findings say): `HandlersAreOwn`, by which the handler of an answer is
the client who asked or nobody, and `AnswersAreFresh`, by which an answer comes before
the acknowledgement of its command, so that it cannot meet a later query.
The clock needs `ClockIsCounted`, queries without an answer are as many as the ticks
since the last one, and one fact about remainders (`NearIsFound`): a number is found
from its last 32 bits and a number that is near. It is near if the clock does not turn
half over before a silent micro-controller is given up (`ClockTurnsLate`), which
`TIMEOUT_ACTIVE = 40` does not ensure above 53 MHz (one of the findings); only
`ClockIsKnown` and the clock in `LineIsSound` depend on it.

*Heaters.* Three promises. A heater that is on is written again before the
micro-controller gives up (`RefreshedInTime`), as long as its sensor reports: a value is
suppressed only while it is younger than `Limit` (`AgeIsBounded`), whoever wrote it
(PID, bang-bang or a calibration). One whose reading stays below the target without a rise is
found out (`FaultIsFound`). The invariant counts how long it has been cold
(`ColdIsCounted`): the error has grown at each check but the first two, an approach
uses up its time, and when it ends the error is what is left to wait for. A reading that is
too old counts as 0, as in `get_temp`, so a sensor that falls silent is found too; and
so is a chamber that waits for the bed, although `verify_heater.py:84` means to exempt it:
its comparison is never true (one of the findings), and the model has no such branch.
The promise holds while the target and the height of the tool head (`position_z`) are left
as they are, since the code starts to count again with each of them. One that a callback has
switched off (its own above `z_max_limit`, another heater's, a fault of the box heater, the
fan of the controllers) stays off, but for a calibration that is running, which sets its own
target again (`alter_target` of `ControlAutoTune`). The limits, times and temperatures are any.

*API.* `ViewIsCurrent` speaks of clients that have read all they were sent. The
invariant looks at what is still on its way: the last of a client's answers, wherever it
waits (`AnswersAreOfLast`: in the socket, in the buffer that `send()` could not empty, or
not yet taken by the client), tells what the last query found, earlier ones do not
matter, and `LastIsPart` says that what a query compares with is what some query found.
What `_handle_query` finds depends on the objects alone, so the comparison with
`last_query` is right whoever asked. The constant `Removes` is FALSE: a key that leaves a
status is not reported, as `_do_query` compares the fields that are there.

*Idle timeout.* `IdleStands`: the timer is registered unless the script of the timeout
runs, and that greenlet then gives it back. The delayed scripts are armed at the time they
hold. `Moving` is FALSE: an idle script that moves the head breaks the promise (the last of
the findings).

*Files.* Four facts make `SavedIsKept` inductive. `SaveIsWhole`: after each step of
`cmd_SAVE_CONFIG` the new file, the old one or the dated one is whole and holds what the
step has got to, so a crash or a power loss leaves one of them (data that has not been
synced may be cut, a rename may not overtake the one before). `FileHasSaved`: a main file
that is whole has the options that were saved last, `UnchangedIsRead`: what the running
program did not change is what the file says, under the overlay of the includes.
`StoredIsThere`: a variable that was stored is in the file, or in the rewrite that is
under way. There may be any number of sets, saves, edits and faults.

*GCodeMove.* A command fails after it has changed the position, and RESTORE brings back what
SAVE found; so what the author of a file counts on is carried along (`g`, and `savedG` with a
saved state), and the invariant says of the saved state what `PositionIsBelieved` and
`SpeedIsBelieved` say of the present one. M221, G92 and RESTORE change the base of the axes and
keep it true by the arithmetic of their new base. The accumulator of small extrusions holds
moves back and counts them twice (see the findings), so position promises are made
until it is first set (`accOn = "never"`); types and speed hold in any case.

*ExcludeObject.* Two invariants. `OffsetsAreTrue` says what lies between the G-code and the
head: the offsets, and that one is left only as long as the G-code has not moved along its axis.
For the filament one has to know the most that was asked for, the *peak*: a file retracts and
gives back one unit, so `PeaksAreKnown` says that the maximum of each stretch, inside or outside of
excluded objects, is the peak as soon as the stretch extrudes (the first one, which begins when the
transform is put in, after two moves of the filament: this is what
`initial_extrusion_moves` is for and why `Initial >= 2` is assumed). `FilamentIsCounted`
then says that what the nozzle is short of is what the G-code believes, but for a correction
(`extruder_adj`) that is due. The premise, that each stretch extrudes, is needed: without it
a retraction is lost, as one of the findings says.

*ManualProbe.* A command computes a record from the state, through functions that stand for
the functions of the code and call each other as those do. The invariant is therefore a
predicate of a record, `Sound`, and there is a lemma for each function: from a sound record
it makes a sound one, or, between the taking and the giving back of the commands, one whose
tool is *quiet* (its state says idle and its commands are nobody's). `Sound` says more
than `CommandsHaveOwners`: who of `manual`, `screws` and `temp` has which of the six commands
is a function of the states of the three tools (`ManualHasCommands`, `ScrewsHaveCommands`,
`DriftHasCommands`), and ABORT, which all three use, is that of the one which waits for a
person (`AbortIsOfOne`). `PointIsDue` and `RoundsAreCounted` tie a manual probe of a point to
the tool that asked for it, and the rounds of a tilt to `applied`. Any number of points,
screws and retries, any heights and temperatures; any move of a command may be the one that
fails. `Points >= 1` is what `minimum_points` of `ProbePointsHelper` demands.
`ScrewsBeside` is FALSE: BED_SCREWS_ADJUST is not started while another tool has ABORT. With TRUE
`CommandsHaveOwners` fails: `cmd_BED_SCREWS_ADJUST` does not look whether a manual probe
waits, and when its first move fails it takes ACCEPT and ABORT away from it (one of the findings).

**Only model-checked**, and why:

* Liveness (`WaitersServed`, `CallbacksRun`, `GreenletsReturn`, `PauseIsHeard`,
  `EverythingIsAcknowledged`, `HomingIsOver`, `McusRecover`, `MotionEnds`) and the fairness
  part of `FifoSpec`: the prover does not handle `WF` with `ENABLED`.
* `ChannelSpec`: the mapping concatenates the messages of all blocks
  (`FlattenSeq`), and what a recursive definition computes cannot be proved.
* Of the run `machine`: `StepsAreThoseOfMoves` (`StepCompress` and `TrapQueue` are
  written with `RECURSIVE` operators, behind which the prover has no arithmetic),
  `MovesAreTimely`, `MeshIsTrue` and `RailsAreKept` (what they compare are sums over a queue,
  results of such computations, or limits that only a printer whose ranges fit each other
  keeps).
* `FansCool`, `SensorsAreHeard`, `DriversAreAsBelieved`,
  `DevicesAreServed` and `PanelIsTrue` of the same run. Each is the promise of several small
  modules whose times are fixed numbers (that a fan is found to stand still, for instance,
  depends on how far ahead of now its commands may be).
* The four properties that the program violates.

## 6. Not modelled

See `components` in `PROJECT.json`. Left out are: encoding and parsing of
messages and of G-code, formatting, drawing on displays, the regression of
`clocksync.py`, PID arithmetic, junction speeds, least-squares fits and the
analysis of resonances (real numbers), the Jinja macros of `config/` (`PrintJob`
allows what their hooks do), and the closed `.so` modules, which have no source.
