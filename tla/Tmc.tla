---------------------------------- MODULE Tmc ----------------------------------
(* A stepper driver that is set up over a wire (extras/tmc.py, tmc_uart.py,     *)
(* tmc2130.py, tmc2660.py) and the enable line it shares (stepper_enable.py).   *)
(* A greenlet that reads or writes a register queues for the mutex of the wire  *)
(* (`bus`): the value is taken from the cached registers before the wait. What  *)
(* a greenlet has yet to do is todo[g]; its first instruction is the one that   *)
(* waits when g is in the queue. `running` goes on until it waits again.        *)
EXTENDS Integers, Sequences, FiniteSets

CONSTANTS Kinds,          \* the wires looked at: "uart", "spi", "tmc2660"
          Shared,         \* no enable line of its own: toff enables the driver
          Callbacks,      \* greenlets that run the callbacks of the enable line
          MaxCommands, MaxFaults, MaxResets, FailedReads,
          Tries,          \* range(5) of set_register
          Wrap            \* values of IFCNT (256)

TmcAssumption == Tries \in Nat \ {0} /\ Wrap \in Nat \ {0, 1}

VARIABLES kind, enabled, count, pin, cache, chip, ifcnt, cnt, bus, tries, todo,
          calls, check_timer, timers, offset, gstat, moving, saved, shutdown,
          running, n, seen
vars == <<kind, enabled, count, pin, cache, chip, ifcnt, cnt, bus, tries, todo,
          calls, check_timer, timers, offset, gstat, moving, saved, shutdown,
          running, n, seen>>
wire == <<chip, ifcnt, cnt, tries, gstat>>
line == <<enabled, count, pin, calls>>

Greenlets == Callbacks \union {"gcode", "check"}
Regs == <<"CHOPCONF", "DRVCONF", "GCONF", "TCOOLTHRS">>
all_fields == [CHOPCONF |-> {"toff"}, DRVCONF |-> {"vsense", "rdsel"},
               GCONF |-> {"en_pwm"}, TCOOLTHRS |-> {"tcoolthrs"}]
Fields == UNION {all_fields[r] : r \in DOMAIN all_fields}
Toff == 2
NoSaved == [en_pwm |-> -1, tcoolthrs |-> -1]
Free == todo["gcode"] = <<>> /\ ~\E g \in Callbacks :
            todo[g] # <<>> /\ Head(todo[g])[1] \in {"wait_moves", "phase", "query"}

set_field(c, new) == [f \in Fields |-> IF f \in DOMAIN new THEN new[f] ELSE c[f]]
Write(r, new) == <<"write", r, new>>
_init_registers == [i \in 1..Len(Regs) |-> Write(Regs[i], <<>>)]
start_checks == <<<<"start">>, <<"read", "GSTAT">>, <<"timer">>>>
_do_enable == _init_registers \o start_checks
_do_disable == IF Shared THEN <<Write("CHOPCONF", [toff |-> 0]), <<"stop">>>> ELSE <<<<"stop">>>>
_do_periodic_check == <<<<"read", "DRV_STATUS">>, <<"read", "GSTAT">>>>
cmd_SET_TMC_FIELD(v) == <<Write("GCONF", [en_pwm |-> v])>>
set_current(v) == IF v # cache.vsense THEN <<Write("DRVCONF", [vsense |-> v])>> ELSE <<>>
handle_homing_move_begin ==
  <<Write("GCONF", [en_pwm |-> 0])>>
    \o IF cache.tcoolthrs = 0 THEN <<Write("TCOOLTHRS", [tcoolthrs |-> 1])>> ELSE <<>>
handle_homing_move_end == <<<<"restore", "GCONF">>, <<"restore", "TCOOLTHRS">>>>

ChecksAreOff == check_timer = FALSE /\ timers = 0 /\ offset = FALSE /\ gstat = FALSE
Init == /\ kind \in Kinds
        /\ cache = [f \in Fields |-> IF f = "toff" /\ ~Shared THEN Toff
                                     ELSE IF f = "en_pwm" THEN 1 ELSE 0]
        /\ chip = cache
        /\ enabled = [driver |-> FALSE, other |-> FALSE] /\ count = 0 /\ pin = 0
        /\ ifcnt = -1 /\ cnt = 0 /\ bus = <<>> /\ tries = Tries
        /\ todo = [g \in Greenlets |-> <<>>] /\ calls = <<>>
        /\ ChecksAreOff
        /\ moving = FALSE /\ saved = NoSaved /\ shutdown = FALSE
        /\ running = "none"
        /\ n = [commands |-> 0, faults |-> 0, resets |-> 0, reads |-> 0]
        /\ seen = [wrong |-> FALSE, lost |-> FALSE, moved |-> FALSE, failed |-> FALSE]

Counted(k) == n' = [n EXCEPT ![k] = @ + 1]

(* ---- the enable line ---- *)
set_enable == count' = count + 1 /\ pin' = IF count = 0 THEN 1 ELSE pin
\* Mutant: the line goes off with the first stepper that is disabled.
set_disable_first == count' = count - 1 /\ pin' = 0
set_disable == count' = count - 1 /\ pin' = IF count = 1 THEN 0 ELSE pin
_handle_stepper_enable(s, on) ==
  calls' = IF s = "driver" THEN Append(calls, IF on THEN "enable" ELSE "disable") ELSE calls
motor_enable(s) == /\ ~enabled[s] /\ set_enable /\ _handle_stepper_enable(s, TRUE)
                   /\ enabled' = [enabled EXCEPT ![s] = TRUE]
motor_disable(s) == /\ enabled[s] /\ set_disable /\ _handle_stepper_enable(s, FALSE)
                    /\ enabled' = [enabled EXCEPT ![s] = FALSE]
Switch(s) == /\ Free /\ n.commands < MaxCommands /\ Counted("commands")
             /\ motor_enable(s) \/ motor_disable(s)
             /\ UNCHANGED <<kind, cache, wire, bus, todo, check_timer, timers, offset,
                            moving, saved, shutdown, running, seen>>
Callback == /\ calls # <<>>
            /\ \E g \in Callbacks :
                 /\ todo[g] = <<>>
                 /\ todo' = [todo EXCEPT ![g] = IF Head(calls) = "enable" THEN _do_enable
                                                ELSE _do_disable]
                 /\ running' = g
                 /\ cache' = IF Shared /\ Head(calls) = "enable"
                             THEN set_field(cache, [toff |-> Toff]) ELSE cache
            /\ calls' = Tail(calls)
            /\ UNCHANGED <<kind, enabled, count, pin, wire, bus, check_timer, timers,
                           offset, moving, saved, shutdown, n, seen>>

(* ---- commands ---- *)
Command(prog) == /\ Free /\ n.commands < MaxCommands /\ Counted("commands") /\ prog # <<>>
                 /\ todo' = [todo EXCEPT !["gcode"] = prog] /\ running' = "gcode"
                 /\ UNCHANGED <<kind, line, cache, wire, bus, check_timer, timers,
                                offset, moving, shutdown, seen>>
cmd_INIT_TMC == Command(_init_registers) /\ UNCHANGED saved
SetField == (\E v \in 0..1 : Command(cmd_SET_TMC_FIELD(v))) /\ UNCHANGED saved
SetCurrent == (\E v \in 0..1 : Command(set_current(v))) /\ UNCHANGED saved
Home == /\ Command(handle_homing_move_begin \o handle_homing_move_end)
        /\ saved' = [en_pwm |-> cache.en_pwm, tcoolthrs |-> cache.tcoolthrs]
StartMove == /\ Free /\ ~moving /\ enabled.driver /\ n.commands < MaxCommands
             /\ Counted("commands") /\ moving' = TRUE
             /\ UNCHANGED <<kind, line, cache, wire, bus, todo, check_timer, timers,
                            offset, saved, shutdown, running, seen>>
EndMove == /\ moving /\ moving' = FALSE
           /\ UNCHANGED <<kind, line, cache, wire, bus, todo, check_timer, timers,
                          offset, saved, shutdown, running, n, seen>>
Check == /\ timers > 0 /\ todo["check"] = <<>> /\ n.commands < MaxCommands
         /\ Counted("commands")
         /\ todo' = [todo EXCEPT !["check"] = _do_periodic_check] /\ running' = "check"
         /\ UNCHANGED <<kind, line, cache, wire, bus, check_timer, timers, offset,
                        moving, saved, shutdown, seen>>

(* ---- what a greenlet does until it waits for the wire ---- *)
Parked == {"mutex", "wait_moves"}
\* Mutant: the mutex of the wire is handed to the greenlet that came last.
QueueLast(g, reg, val) == bus' = IF bus = <<>> THEN <<[who |-> g, reg |-> reg, val |-> val]>>
  ELSE <<Head(bus), [who |-> g, reg |-> reg, val |-> val]>> \o Tail(bus)
Queue(g, reg, val) == bus' = Append(bus, [who |-> g, reg |-> reg, val |-> val])
set_register(g, reg, new) ==
  /\ cache' = set_field(cache, new)
  /\ Queue(g, reg, [f \in all_fields[reg] |-> cache'[f]])
Next1(g) == todo' = [todo EXCEPT ![g] = Tail(@)]
NoTimer == check_timer' = FALSE /\ timers' = IF check_timer THEN timers - 1 ELSE timers
Doing(g, what) == /\ todo[g] # <<>> /\ Head(todo[g])[1] = what
                  /\ running = g \/ (running = "none" /\ what \in Parked)
                  /\ running' = IF what = "stop" /\ Len(todo[g]) > 1 THEN g ELSE "none"
DoWrite(g) == /\ Doing(g, "write") /\ set_register(g, Head(todo[g])[2], Head(todo[g])[3])
              /\ UNCHANGED <<todo, check_timer, timers, offset>>
Restore(g) == /\ Doing(g, "restore")
              /\ set_register(g, Head(todo[g])[2],
                              [f \in all_fields[Head(todo[g])[2]] |-> saved[f]])
              /\ UNCHANGED <<todo, check_timer, timers, offset>>
DoRead(g) == /\ Doing(g, "read") /\ Queue(g, Head(todo[g])[2], <<>>)
             /\ UNCHANGED <<cache, todo, check_timer, timers, offset>>
Start(g) == /\ Doing(g, "start") /\ NoTimer /\ Queue(g, "DRV_STATUS", <<>>)
            /\ UNCHANGED <<cache, todo, offset>>
stop_checks(g) == Doing(g, "stop") /\ NoTimer /\ Next1(g) /\ UNCHANGED <<cache, bus, offset>>
Clear(g) == /\ Doing(g, "clear") /\ Queue(g, "CLEAR", <<>>)
            /\ UNCHANGED <<cache, todo, check_timer, timers, offset>>
\* The end of start_checks; the phase is asked for only when it is not known.
Timer(g) == /\ Doing(g, "timer") /\ check_timer' = TRUE /\ timers' = timers + 1
            /\ offset' = (offset /\ Len(todo[g]) = 1)
            /\ todo' = [todo EXCEPT ![g] = IF offset' THEN <<>> ELSE <<<<"mutex">>>>]
            /\ UNCHANGED <<cache, bus>>
GetMutex(g) == /\ Doing(g, "mutex") /\ Free
               /\ todo' = [todo EXCEPT ![g] = IF offset THEN <<>> ELSE <<<<"wait_moves">>>>]
               /\ UNCHANGED <<cache, bus, check_timer, timers, offset>>
\* Mutant: the phase is asked for without a wait for the moves.
WaitMoves_not(g) == /\ Doing(g, "wait_moves")
                    /\ todo' = [todo EXCEPT ![g] = <<<<"query">>>>]
                    /\ Queue(g, "MSCNT", <<>>)
                    /\ UNCHANGED <<cache, check_timer, timers, offset>>
WaitMoves(g) == /\ Doing(g, "wait_moves") /\ ~moving
                /\ todo' = [todo EXCEPT ![g] = <<<<"query">>>>]
                /\ Queue(g, "MSCNT", <<>>)
                /\ UNCHANGED <<cache, check_timer, timers, offset>>
Step(g) == /\ DoWrite(g) \/ Restore(g) \/ DoRead(g) \/ Start(g) \/ stop_checks(g)
              \/ Clear(g) \/ Timer(g) \/ GetMutex(g) \/ WaitMoves(g)
           /\ UNCHANGED <<kind, line, wire, moving, saved, shutdown, n, seen>>

(* ---- the wire: the greenlet at the head of the queue has the mutex ---- *)
r == Head(bus)
Leave == bus' = Tail(bus) /\ tries' = Tries
\* A CommandError ends a command; a callback or a check makes it a shutdown,
\* and sync_mcu_position forgets the phase of a driver that is disabled.
Raised == /\ Leave /\ todo' = [todo EXCEPT ![r.who] = <<>>]
          /\ shutdown' = (r.who # "gcode" /\ ~(r.reg = "MSCNT" /\ ~enabled.driver))
          /\ offset' = (offset /\ r.reg # "MSCNT")
          /\ seen' = [seen EXCEPT !.failed = TRUE] /\ running' = "none"
Resume(g) == running' = IF todo'[g] = <<>> THEN "none" ELSE g
Returns == Leave /\ Next1(r.who) /\ Resume(r.who) /\ UNCHANGED <<shutdown, offset>>
Lands == chip' = set_field(chip, r.val)
Faulty(b) == IF b THEN n.faults < MaxFaults /\ Counted("faults") ELSE UNCHANGED n
Wrote == bus # <<>> /\ r.reg \in DOMAIN all_fields
wired == <<kind, line, cache, check_timer, timers, moving, saved>>

\* IFCNT is read before the first write; the read may fail five times.
ReadIfcnt == /\ Wrote /\ kind = "uart" /\ ifcnt = -1 /\ ifcnt' = cnt
             /\ UNCHANGED <<wired, chip, cnt, bus, tries, todo, gstat, offset,
                            shutdown, running, n, seen>>
\* Mutant: a write counts as done whatever IFCNT says.
Confirmed_always(old, new) == TRUE
Confirmed(old, new) == new = (old + 1) % Wrap
_uart_write(landed) ==
  /\ Wrote /\ kind = "uart" /\ ifcnt # -1 /\ Faulty(~landed)
  /\ IF landed THEN Lands /\ cnt' = (cnt + 1) % Wrap ELSE UNCHANGED <<chip, cnt>>
  /\ ifcnt' = cnt'
  /\ \/ /\ Confirmed(ifcnt, cnt') /\ Returns
        /\ seen' = [seen EXCEPT !.lost = @ \/ ~landed]
     \/ /\ ~Confirmed(ifcnt, cnt') /\ tries > 1 /\ tries' = tries - 1
        /\ UNCHANGED <<bus, todo, shutdown, offset, running, seen>>
     \/ ~Confirmed(ifcnt, cnt') /\ tries = 1 /\ Raised
  /\ UNCHANGED <<wired, gstat>>
\* The read of IFCNT after the write fails: ifcnt keeps the old value.
_uart_unread(landed) ==
  /\ Wrote /\ kind = "uart" /\ ifcnt # -1 /\ n.reads < FailedReads
  /\ n' = [n EXCEPT !.reads = @ + 1]
  /\ IF landed THEN Lands /\ cnt' = (cnt + 1) % Wrap ELSE UNCHANGED <<chip, cnt>>
  /\ Raised /\ UNCHANGED <<wired, gstat, ifcnt>>
_spi_write(landed) ==
  /\ Wrote /\ kind = "spi" /\ Faulty(~landed)
  /\ \/ landed /\ Lands /\ Returns /\ UNCHANGED seen
     \/ ~landed /\ UNCHANGED chip
        /\ \/ tries > 1 /\ tries' = tries - 1 /\ UNCHANGED <<bus, todo, shutdown, offset, running, seen>>
           \/ tries = 1 /\ Raised
  /\ UNCHANGED <<wired, ifcnt, cnt, gstat>>
_tmc2660_write == /\ Wrote /\ kind = "tmc2660" /\ Lands /\ Returns
                  /\ UNCHANGED <<wired, ifcnt, cnt, gstat, n, seen>>
rdsel(reg) == IF reg = "MSCNT" THEN 0 ELSE 2
\* get_register of a TMC2660 selects the value with a field of DRVCONF.
_tmc2660_select == /\ cache' = set_field(cache, [rdsel |-> rdsel(r.reg)])
                   /\ LET sent == IF cache.rdsel # cache'.rdsel THEN cache'.rdsel ELSE chip.rdsel
                      IN seen' = [seen EXCEPT !.wrong = @ \/ sent # rdsel(r.reg),
                                              !.moved = @ \/ (r.reg = "MSCNT" /\ moving)]
                   /\ chip' = set_field(chip, [vsense |-> cache.vsense, rdsel |-> cache'.rdsel])
_read == IF kind = "tmc2660" THEN _tmc2660_select
         ELSE /\ UNCHANGED <<cache, chip>>
              /\ seen' = [seen EXCEPT !.moved = @ \/ (r.reg = "MSCNT" /\ moving)]
\* A set flag of GSTAT: start_checks clears it once, a check cannot.
_query_register ==
  /\ bus # <<>> /\ r.reg \in {"DRV_STATUS", "GSTAT"} /\ _read
  /\ \/ (r.reg = "DRV_STATUS" \/ ~gstat) /\ Returns
     \/ /\ r.reg = "GSTAT" /\ gstat /\ r.who # "check" /\ Leave
        /\ todo' = [todo EXCEPT ![r.who] = <<<<"clear">>, <<"read", "GSTAT">>, <<"timer">>, <<"reset">>>>]
        /\ Resume(r.who) /\ UNCHANGED <<shutdown, offset>>
     \/ /\ r.reg = "GSTAT" /\ gstat /\ r.who = "check" /\ Leave
        /\ Next1(r.who) /\ Resume(r.who) /\ shutdown' = TRUE /\ UNCHANGED offset
  /\ UNCHANGED <<kind, line, ifcnt, cnt, check_timer, timers, moving, saved, gstat, n>>
_query_phase == /\ bus # <<>> /\ r.reg = "MSCNT" /\ _read /\ Leave /\ Next1(r.who)
                /\ offset' = TRUE /\ running' = "none"
                /\ UNCHANGED <<kind, line, ifcnt, cnt, check_timer, timers, moving, saved,
                               gstat, shutdown, n>>
Cleared == /\ bus # <<>> /\ r.reg = "CLEAR" /\ gstat' = FALSE /\ Returns
           /\ cnt' = (cnt + 1) % Wrap /\ ifcnt' = IF kind = "uart" THEN cnt' ELSE ifcnt
           /\ UNCHANGED <<wired, chip, n, seen>>
\* Five answers to a read in a row are lost.
Unread == /\ bus # <<>> /\ r.val = <<>> /\ kind = "uart" /\ n.reads < FailedReads
          /\ n' = [n EXCEPT !.reads = @ + 1] /\ Raised
          /\ UNCHANGED <<wired, chip, ifcnt, cnt, gstat>>
Wire == \/ ReadIfcnt \/ _tmc2660_write \/ _query_register \/ _query_phase \/ Cleared \/ Unread
        \/ \E landed \in BOOLEAN : _uart_write(landed) \/ _uart_unread(landed) \/ _spi_write(landed)

\* The motor's supply fails for a moment: the driver has its defaults again.
Reset == /\ n.resets < MaxResets /\ Counted("resets") /\ kind # "tmc2660"
         /\ todo = [g \in Greenlets |-> <<>>] /\ calls = <<>>
         /\ chip' = [f \in Fields |-> 0] /\ gstat' = TRUE /\ cnt' = 0
         /\ UNCHANGED <<kind, line, cache, ifcnt, bus, tries, todo, check_timer, timers,
                        offset, moving, saved, shutdown, running, seen>>
\* The same while a greenlet sets the driver up.
ResetMidway == /\ n.resets < MaxResets - 1 /\ n' = [n EXCEPT !.resets = MaxResets]
               /\ kind # "tmc2660"
               /\ chip' = [f \in Fields |-> 0] /\ gstat' = TRUE /\ cnt' = 0
               /\ UNCHANGED <<kind, line, cache, ifcnt, bus, tries, todo, check_timer,
                              timers, offset, moving, saved, shutdown, running, seen>>

Next == /\ ~shutdown
        /\ \/ /\ running = "none"
              /\ \/ (\E s \in {"driver", "other"} : Switch(s))
                 \/ Callback \/ cmd_INIT_TMC \/ SetField \/ SetCurrent \/ Home
                 \/ StartMove \/ EndMove \/ Check \/ Reset \/ ResetMidway \/ Wire
           \/ \E g \in Greenlets : Step(g)
Spec == Init /\ [][Next]_vars

Quiet == bus = <<>> /\ calls = <<>> /\ (\A g \in Greenlets : todo[g] = <<>>) /\ ~shutdown

\* The line is on exactly while one of its steppers is enabled (set_enable, set_disable).
LineServesAll == pin = IF \E s \in DOMAIN enabled : enabled[s] THEN 1 ELSE 0

\* Whatever greenlets write registers, change fields and home at once, when all
\* is done the driver has the registers the host thinks it has, unless a write
\* was reported as failed or the driver was reset since (set_register).
DriverHasCache == Quiet /\ ~seen.failed /\ ~gstat =>
                    \A f \in Fields : chip[f] = cache[f]

\* A write that returned is in the driver (the check of IFCNT in set_register).
WrittenIsThere == ~seen.lost

\* The phase of the driver is read while the motor stands (_do_enable).
PhaseIsOfRest == ~seen.moved

\* Homing leaves the stealthchop and coolstep settings as they were, unless a
\* write failed (handle_homing_move_begin, handle_homing_move_end).
HomingRestores == Quiet /\ ~seen.failed => cache.tcoolthrs = 0

\* A driver that only toff enables is on exactly while its stepper is enabled.
ToffFollows == Quiet /\ Shared /\ ~seen.failed /\ ~gstat =>
                 (chip.toff # 0) = enabled.driver

\* A read of a TMC2660 returns the value it selected (get_register).
ReadsWhatItAsked == ~seen.wrong

\* At most one timer checks the driver (start_checks).
OneTimer == timers <= 1

\* A disabled driver is not checked (_do_disable, stop_checks).
ChecksFollow == Quiet => check_timer = enabled.driver

TypeOK == /\ kind \in Kinds /\ cache \in [Fields -> 0..2] /\ chip \in [Fields -> 0..2]
          /\ count \in 0..2 /\ pin \in 0..1 /\ ifcnt \in -1..(Wrap - 1) /\ cnt \in 0..(Wrap - 1)
          /\ tries \in 1..Tries /\ timers \in Nat /\ (check_timer => timers > 0)
          /\ \A g \in Greenlets : Cardinality({i \in 1..Len(bus) : bus[i].who = g}) <= 1
================================================================================
