------------------------------ MODULE McuConnect ------------------------------
(***************************************************************************)
(* How the host connects to its micro-controllers, configures them, shuts  *)
(* them down and restarts (klippy.py, mcu.py, clocksync.py, error_mcu.py). *)
(* One session is the life of one Printer object; the loop of main() makes *)
(* the next one with the reason the last one ended for.                    *)
(*                                                                         *)
(* The link hides the serial queue: it is up, or down for so long that the *)
(* clock queries go unanswered.  A micro-controller's own part is external.*)
(***************************************************************************)
EXTENDS Naturals, Sequences, SequencesExt, FiniteSets

CONSTANTS Order,         \* the micro-controllers in order of configuration
          Method,          \* the restart_method of each
          MaxFaults,       \* bound: crashes, resets and link losses
          MaxRestarts      \* bound: RESTART commands of the user

Mcu == {Order[i] : i \in DOMAIN Order}

McuConnectAssumption ==
  /\ Order \in Seq(Mcu) /\ Order # <<>> /\ IsInjective(Order)
  /\ Method \in [Mcu -> {"command", "arduino", "rpi_usb"}]
  /\ MaxFaults \in Nat /\ MaxRestarts \in Nat

VARIABLES
  conf, down, link,   \* firmware: its configuration, is_shutdown; the link
  held,               \* a serial port a dead session still holds
  reason,             \* start_args["start_reason"]
  phase, next,        \* where the session is; the index of the MCU in turn
  state, inShutdown,  \* state_message, in_shutdown_state
  serial,             \* the connection of each MCU: "none", "open", "closed"
  known,              \* _is_shutdown
  sync,               \* is there a _steppersync?
  timedOut,           \* _is_timeout
  stop,               \* an emergency_stop command that is on its way
  pending,            \* callbacks of invoke_async_shutdown, by MCU
  faults, restarts

fwVars   == <<conf, down, link>>
mcuVars  == <<serial, known, sync, timedOut, stop, pending>>
hostVars == <<reason, phase, next, state, inShutdown>>
bounds   == <<faults, restarts>>
vars == <<fwVars, mcuVars, hostVars, held, bounds>>

All(v) == [m \in Mcu |-> v]
This == Order[next]

Init ==
  /\ conf \in [Mcu -> {"none", "same", "other"}] /\ down \in [Mcu -> BOOLEAN]
  /\ link = All(TRUE) /\ held = All(FALSE)
  /\ reason = "startup" /\ phase = "identify" /\ next = 1
  /\ state = "startup" /\ inShutdown = FALSE
  /\ serial = All("none") /\ known = All(FALSE) /\ sync = All(FALSE)
  /\ timedOut = All(FALSE) /\ stop = All(FALSE) /\ pending = {}
  /\ faults = 0 /\ restarts = 0

-----------------------------------------------------------------------------
(* Printer: state, shutdown, exit.                                           *)

\* Mutant: ready is reported whatever came before.
SetStateAlways(msg) == IF msg = "ready" \/ state \in {"ready", "startup"} THEN msg ELSE state

\* Mutant: a state reached once stays.
SetStateOnce(msg) == IF state = "startup" THEN msg ELSE state

SetState(msg) == IF state \in {"ready", "startup"} THEN msg ELSE state

\* Mutant: only the ones that are configured completely.
StoppedWithSync == {m \in Mcu : serial[m] = "open" /\ ~known[m] /\ sync[m]}

\* the micro-controllers the shutdown handlers send emergency_stop to
Stopped == {m \in Mcu : serial[m] = "open" /\ ~known[m]}

Shutdown ==
  IF inShutdown THEN UNCHANGED <<inShutdown, state, stop>>
  ELSE /\ inShutdown' = TRUE /\ state' = SetState("shutdown")
       /\ stop' = [m \in Mcu |-> stop[m] \/ m \in Stopped]

RequestExit(result) == phase' = "exit" /\ reason' = result /\ next' = 1

ConnectFails ==
  /\ state' = SetState("error") /\ phase' = "running"
  /\ UNCHANGED <<next, reason, inShutdown>>

\* Mutant: a restart that did not help is tried again.
MayRestartAlways == TRUE

MayRestart == reason # "firmware_restart"

\* The pause after request_exit never returns: the reactor ends with it.
CheckRestart ==
  IF MayRestart THEN RequestExit("firmware_restart") /\ UNCHANGED <<state, inShutdown>>
  ELSE ConnectFails

-----------------------------------------------------------------------------
(* The connection: every mcu_identify, then every connect handler.           *)

Identify ==
  /\ phase = "identify"
  /\ IF link[This] /\ ~held[This]
     THEN /\ serial' = [serial EXCEPT ![This] = "open"]
          /\ IF next < Len(Order) THEN next' = next + 1 /\ UNCHANGED phase
             ELSE next' = 1 /\ phase' = "connect"
          /\ UNCHANGED <<reason, state, inShutdown>>
     ELSE /\ UNCHANGED serial
          /\ IF Method[This] = "rpi_usb" /\ ~link[This] THEN CheckRestart ELSE ConnectFails
  /\ UNCHANGED <<fwVars, held, known, sync, timedOut, stop, pending, bounds>>

Abandoned ==
  /\ phase = "connect" /\ state # "startup" /\ phase' = "running"
  /\ UNCHANGED <<fwVars, held, mcuVars, bounds, reason, next, state, inShutdown>>

Refuses(m) == ~link[m] \/ known[m] \/ down[m]

\* Mutant: one too many.
IsLastOff == next > Len(Order)

IsLast == next = Len(Order)


Connected ==
  /\ sync' = [sync EXCEPT ![This] = TRUE]
  /\ IF IsLast THEN phase' = "running" /\ state' = SetState("ready") /\ UNCHANGED next
     ELSE next' = next + 1 /\ phase' = "connect" /\ UNCHANGED state
  /\ UNCHANGED <<reason, inShutdown>>

\* get_config, and what follows from its answer
Connect ==
  /\ phase = "connect" /\ state = "startup"
  /\ \/ /\ Refuses(This) \/ (conf[This] # "none" /\ reason = "firmware_restart")
        /\ ConnectFails /\ UNCHANGED <<conf, sync>>
     \/ /\ ~Refuses(This)
        /\ \/ conf[This] = "none" /\ Method[This] = "rpi_usb" /\ MayRestart
           \/ conf[This] = "other" /\ reason # "firmware_restart"
        /\ CheckRestart /\ UNCHANGED <<conf, sync>>
     \/ /\ ~Refuses(This) /\ conf[This] = "none"
        /\ Method[This] = "rpi_usb" => ~MayRestart
        /\ conf' = [conf EXCEPT ![This] = "same"] /\ phase' = "configured"
        /\ UNCHANGED <<sync, reason, next, state, inShutdown>>
     \/ /\ ~Refuses(This) /\ conf[This] = "same" /\ reason # "firmware_restart"
        /\ Connected /\ UNCHANGED conf
  /\ UNCHANGED <<down, link, held, serial, known, timedOut, stop, pending, bounds>>

\* get_config once more.  An MCU that is still not configured is reset here;
\* what comes next fails on the closed connection.
Configured ==
  /\ phase = "configured"
  /\ \/ /\ Refuses(This)
        /\ ConnectFails /\ UNCHANGED <<sync, serial, conf, stop>>
     \/ /\ ~Refuses(This) /\ conf[This] # "none"
        /\ Connected /\ UNCHANGED <<serial, conf, stop>>
     \/ /\ ~Refuses(This) /\ conf[This] = "none"
        /\ serial' = [serial EXCEPT ![This] = "closed"]
        /\ stop' = [stop EXCEPT ![This] = FALSE]
        /\ ConnectFails /\ UNCHANGED <<sync, conf>>
  /\ UNCHANGED <<down, link, held, known, timedOut, pending, bounds>>

-----------------------------------------------------------------------------
(* What happens beside it.                                                   *)

\* _handle_shutdown, for the message shutdown or is_shutdown
HandleShutdown(m) ==
  /\ phase # "exit" /\ serial[m] = "open" /\ link[m] /\ down[m] /\ ~known[m]
  /\ known' = [known EXCEPT ![m] = TRUE] /\ pending' = pending \cup {m}
  /\ UNCHANGED <<fwVars, held, hostVars, serial, sync, timedOut, stop, bounds>>

AsyncShutdown ==
  /\ phase # "exit" /\ \E p \in pending : pending' = pending \ {p}
  /\ Shutdown
  /\ UNCHANGED <<fwVars, held, reason, phase, next, serial, known, sync, timedOut, bounds>>

CheckActive(m) ==
  /\ phase # "exit" /\ sync[m] /\ ~link[m] /\ ~timedOut[m]
  /\ timedOut' = [timedOut EXCEPT ![m] = TRUE] /\ Shutdown
  /\ UNCHANGED <<fwVars, held, reason, phase, next, serial, known, sync, pending, bounds>>

\* the timer of the clock queries meets a connection that was closed before
ClockTimerRaises(m) ==
  /\ phase = "running" /\ serial[m] = "closed" /\ ~inShutdown /\ Shutdown
  /\ UNCHANGED <<fwVars, held, reason, phase, next, serial, known, sync, timedOut, pending, bounds>>

FIRMWARE_RESTART ==
  /\ phase = "running" /\ state # "ready" /\ RequestExit("firmware_restart")
  /\ UNCHANGED <<fwVars, held, mcuVars, state, inShutdown, bounds>>

RESTART ==
  /\ phase # "exit" /\ restarts < MaxRestarts /\ restarts' = restarts + 1
  /\ RequestExit("restart")
  /\ UNCHANGED <<fwVars, held, mcuVars, state, inShutdown, faults>>

-----------------------------------------------------------------------------
(* The end of a session.                                                     *)

NewSession(left) ==
  /\ held' = [m \in Mcu |-> held[m] \/ m \in left]
  /\ phase' = "identify" /\ next' = 1 /\ state' = "startup" /\ inShutdown' = FALSE
  /\ serial' = All("none") /\ known' = All(FALSE) /\ sync' = All(FALSE)
  /\ timedOut' = All(FALSE) /\ stop' = All(FALSE) /\ pending' = {}
  /\ UNCHANGED reason

IsOpen == {m \in Mcu : serial[m] = "open"}

\* Mutant: an MCU that is known to be shut down is passed over.
MayResetIfRunning(m) == ~known[m] /\ IF Method[m] = "rpi_usb" THEN TRUE ELSE link[m]

MayReset(m) ==
  CASE Method[m] = "command" -> serial[m] = "open" /\ link[m]
    [] Method[m] = "arduino" -> link[m]
    [] OTHER -> TRUE

\* _firmware_restart of the MCU in turn.  The reset command of a closed
\* connection raises, and nothing after it is done, the disconnect neither.
ExitResets ==
  /\ phase = "exit" /\ reason = "firmware_restart" /\ next <= Len(Order)
  /\ IF Method[This] = "command" /\ serial[This] = "closed"
     THEN NewSession(IsOpen) /\ UNCHANGED fwVars
     ELSE /\ next' = next + 1
          /\ IF MayReset(This)
             THEN /\ conf' = [conf EXCEPT ![This] = "none"]
                  /\ down' = [down EXCEPT ![This] = FALSE]
                  /\ link' = [link EXCEPT ![This] = @ \/ Method[This] = "rpi_usb"]
                  /\ serial' = [serial EXCEPT ![This] = "closed"]
                  /\ stop' = [stop EXCEPT ![This] = FALSE]
             ELSE UNCHANGED <<fwVars, serial, stop>>
          /\ UNCHANGED <<held, reason, phase, state, inShutdown, known, sync, timedOut, pending>>
  /\ UNCHANGED bounds

ExitEnds ==
  /\ phase = "exit" /\ (reason = "firmware_restart" => next > Len(Order))
  /\ NewSession({}) /\ UNCHANGED <<fwVars, bounds>>

-----------------------------------------------------------------------------
(* The micro-controllers and the links.                                      *)

EmergencyStop(m) ==
  /\ stop[m] /\ link[m] /\ stop' = [stop EXCEPT ![m] = FALSE]
  /\ down' = [down EXCEPT ![m] = @ \/ conf[m] # "none"]
  /\ UNCHANGED <<conf, link, held, hostVars, serial, known, sync, timedOut, pending, bounds>>

\* A command for an object that was lost with the configuration.
MissesObject(m) ==
  /\ state = "ready" /\ phase = "running" /\ sync[m] /\ link[m] /\ ~down[m] /\ conf[m] = "none"
  /\ down' = [down EXCEPT ![m] = TRUE]
  /\ UNCHANGED <<conf, link, held, mcuVars, hostVars, bounds>>

\* It stops, restarts or is lost.  Of a restart it sends the message starting:
\* the handler calls invoke_async_shutdown with an argument too few, and the
\* error ends in the log of the serial thread, so that the host goes on.
Fault(m) ==
  /\ faults < MaxFaults /\ faults' = faults + 1
  /\ \/ ~down[m] /\ down' = [down EXCEPT ![m] = TRUE] /\ UNCHANGED <<conf, link>>
     \/ conf' = [conf EXCEPT ![m] = "none"] /\ down' = [down EXCEPT ![m] = FALSE] /\ UNCHANGED link
     \/ link[m] /\ link' = [link EXCEPT ![m] = FALSE] /\ UNCHANGED <<conf, down>>
  /\ UNCHANGED <<held, mcuVars, hostVars, restarts>>

LinkReturns(m) ==
  /\ ~link[m] /\ link' = [link EXCEPT ![m] = TRUE]
  /\ UNCHANGED <<conf, down, held, mcuVars, hostVars, bounds>>

Host == Identify \/ Abandoned \/ Connect \/ Configured \/ ExitResets \/ ExitEnds \/ AsyncShutdown
Answers(m) == HandleShutdown(m) \/ CheckActive(m) \/ ClockTimerRaises(m)

Next ==
  \/ Host \/ FIRMWARE_RESTART \/ RESTART
  \/ \E m \in Mcu : Answers(m) \/ EmergencyStop(m) \/ MissesObject(m) \/ Fault(m) \/ LinkReturns(m)

Spec == Init /\ [][Next]_vars

\* The reactor goes on, the micro-controllers answer, a lost link returns,
\* and the user does what the error message says.  A printer that is idle need
\* not send a command that misses its object.
Fairness ==
  /\ WF_vars(Host) /\ WF_vars(FIRMWARE_RESTART)
  /\ \A m \in Mcu : WF_vars(Answers(m)) /\ WF_vars(EmergencyStop(m)) /\ WF_vars(LinkReturns(m))

LiveSpec == Spec /\ Fairness

-----------------------------------------------------------------------------
NextTypeOK ==
  /\ next \in 1..Len(Order) + 1
  /\ phase # "exit" => next <= Len(Order)

BoundsTypeOK == faults \in 0..MaxFaults /\ restarts \in 0..MaxRestarts

FirmwareTypeOK ==
  /\ conf \in [Mcu -> {"none", "same", "other"}]
  /\ down \in [Mcu -> BOOLEAN] /\ link \in [Mcu -> BOOLEAN] /\ held \in [Mcu -> BOOLEAN]

HostTypeOK ==
  /\ reason \in {"startup", "restart", "firmware_restart"}
  /\ phase \in {"identify", "connect", "configured", "running", "exit"}
  /\ state \in {"startup", "ready", "error", "shutdown"} /\ inShutdown \in BOOLEAN

SessionTypeOK ==
  /\ serial \in [Mcu -> {"none", "open", "closed"}]
  /\ known \in [Mcu -> BOOLEAN] /\ sync \in [Mcu -> BOOLEAN]
  /\ timedOut \in [Mcu -> BOOLEAN] /\ stop \in [Mcu -> BOOLEAN]
  /\ pending \subseteq Mcu

TypeOK == NextTypeOK /\ BoundsTypeOK /\ FirmwareTypeOK /\ HostTypeOK /\ SessionTypeOK

\* A printer that was shut down never tells its clients that it is ready or
\* starting, although a shutdown may come between two connect handlers.
ShutdownShows == inShutdown => state \in {"error", "shutdown"}

\* A shutdown reaches every micro-controller the session configured, the one
\* it is about to configure included: it has stopped or lost its
\* configuration, or the stop waits in its queue.
ShutdownReaches ==
  inShutdown => \A m \in Mcu : (sync[m] /\ serial[m] = "open")
                               => (down[m] \/ stop[m] \/ conf[m] = "none")

\* An MCU that is known to be shut down has stopped, or has lost its configuration since.
KnownIsDown == \A m \in Mcu : known[m] /\ serial[m] = "open" => down[m] \/ conf[m] = "none"

\* What a shutdown reaches, the MCU that has its configuration and no steppersync yet included.
InUse(m) == serial[m] = "open" /\ (sync[m] \/ (phase = "configured" /\ m = This))
StopReaches == inShutdown => \A m \in Mcu : InUse(m) => down[m] \/ stop[m] \/ conf[m] = "none"

\* A session begins with what NewSession leaves.
IdentifyIsFresh ==
  phase = "identify" => \A m \in Mcu : /\ serial[m] # "closed" /\ ~sync[m]
                                       /\ serial[m] = "none" => ~known[m]

IInv == TypeOK /\ ShutdownShows /\ KnownIsDown /\ StopReaches /\ IdentifyIsFresh

\* A micro-controller that stops or is lost ends the ready state.  Trouble
\* does not pass by itself: only a restart of that micro-controller hides it,
\* until a command misses its object.
Ready == state = "ready"
Troubled(m) == Ready /\ (down[m] \/ timedOut[m])
Restarted(m) == conf[m] = "none" /\ ~down[m]
Unnoticed(m) == Troubled(m) /\ ~Restarted(m)
TroubleShows == \A m \in Mcu : []<>~Unnoticed(m)

\* Automatic restarts do not chain: every session gets as far as ready,
\* an error or a shutdown, or the next one does.
Settled == state # "startup" \/ faults < MaxFaults
SessionsSettle == []<>Settled

\* "use FIRMWARE_RESTART to reset the firmware, reload the config, and
\* restart the host": when the trouble is over this makes the printer ready,
\* also after an MCU was reset in the middle of its configuration, unless the
\* reset command of that one left the port of another one open for ever.
PortIsHeld == \E m \in Mcu : held[m]
FirmwareRestartRecovers == []<>(Ready \/ PortIsHeld)
=============================================================================
