--------------------------- MODULE TriggerDispatch ---------------------------
(***************************************************************************)
(* Stopping the steppers of several micro-controllers together while       *)
(* homing: TriggerDispatch and MCU_trsync of mcu.py, and the C dispatcher  *)
(* of chelper/trdispatch.c that runs in the serial threads.                *)
(*                                                                         *)
(* Each micro-controller stops by itself when its timeout passes.  The     *)
(* dispatcher extends the timeout of one from the reports of the others,   *)
(* and passes the first trigger on to all of them.  Messages keep their    *)
(* order and may be delayed for any time; all clocks show `now'.           *)
(***************************************************************************)
EXTENDS Naturals, Sequences, FiniteSets, FiniteSetsExt

CONSTANTS Secondary,     \* the MCUs beside the one of the endstop
          Main,          \* the MCU of the endstop: self._trsyncs[0]
          ExpireTicks,   \* the timeout of a trsync (TRSYNC_TIMEOUT)
          MinExtend,     \* the least extension worth a message
          MoveTime,      \* when the commanded move ends
          Horizon,       \* bound: the last instant explored
          MaxReports     \* bound: periodic reports of an MCU on the way

DispatchAssumption ==
  /\ Main \notin Secondary /\ IsFiniteSet(Secondary)
  /\ {ExpireTicks, MinExtend, MoveTime, Horizon, MaxReports} \subseteq Nat
  /\ 0 < MinExtend /\ MinExtend <= ExpireTicks

MCUs == {Main} \cup Secondary

None == 0   EndstopHit == 1   HostRequest == 2   PastEndTime == 3   CommsTimeout == 4
Never == Horizon + ExpireTicks + 1

VARIABLES
  now,          \* the time
  mcu,          \* per MCU: the trsync object of the firmware
  toMcu,        \* per MCU: commands on the way
  toHost,       \* per MCU: trsync_state messages on the way
  td,           \* the struct trdispatch
  tdm,          \* per MCU: its struct trdispatch_mcu
  waiting,      \* per MCU: messages the C reader has passed on to Python
  host,         \* the greenlet that homes
  result        \* per MCU: the reason that stop() was told

vars == <<now, mcu, toMcu, toHost, td, tdm, waiting, host, result>>

Idle == [begin |-> Never, can |-> FALSE, reason |-> None, expire |-> Never,
         stopped |-> Never, endstop |-> FALSE]

Init ==
  /\ now = 0
  /\ mcu = [m \in MCUs |-> Idle]
  /\ toMcu = [m \in MCUs |-> <<>>] /\ toHost = [m \in MCUs |-> <<>>]
  /\ waiting = [m \in MCUs |-> <<>>]
  /\ td = [active |-> FALSE, can |-> FALSE]
  /\ tdm = [m \in MCUs |-> [status |-> 0, expire |-> 0]]
  /\ host = [pc |-> "setup", started |-> {}, completion |-> "none", homeEnd |-> FALSE]
  /\ result = [m \in MCUs |-> None]

Command(op, arg) == [op |-> op, arg |-> arg]

(***************************************************************************)
(* The homing greenlet.                                                    *)
(***************************************************************************)
\* MCU_trsync.start of one MCU; the endstop's own goes first.  trsync_start and
\* its first trsync_set_timeout are taken to arrive together.
StartTrsync(m) ==
  /\ host.pc = "setup" /\ m \notin host.started
  /\ m # Main => Main \in host.started
  /\ host' = [host EXCEPT !.started = @ \cup {m}]
  /\ tdm' = [tdm EXCEPT ![m] = [status |-> now, expire |-> now + ExpireTicks]]
  /\ toMcu' = [toMcu EXCEPT ![m] = Append(@, Command("start", now))]
  /\ UNCHANGED <<now, mcu, toHost, td, waiting, result>>

\* trdispatch_start, then the command that arms the endstop.
StartDispatch ==
  /\ host.pc = "setup" /\ host.started = MCUs
  /\ td' = [active |-> TRUE, can |-> TRUE]
  /\ host' = [host EXCEPT !.pc = "moving"]
  /\ toMcu' = [toMcu EXCEPT ![Main] = Append(@, Command("endstop_home", 1))]
  /\ UNCHANGED <<now, mcu, toHost, tdm, waiting, result>>

\* Mutant: wait_end does not tell the trsync when the move ends.
EndOfMoveUntold ==
  /\ host.pc = "moving"
  /\ host' = [host EXCEPT !.pc = "wait"]
  /\ UNCHANGED <<now, mcu, toMcu, toHost, td, tdm, waiting, result>>

\* drip_move returns when the trigger is known or the move is all queued, which
\* may be before its end; then wait_end.
EndOfMove ==
  /\ host.pc = "moving"
  /\ host' = [host EXCEPT !.pc = "wait", !.homeEnd = TRUE]
  /\ UNCHANGED <<now, mcu, toMcu, toHost, td, tdm, waiting, result>>

\* The completion is set: disarm the endstop, end the dispatch.
StopDispatch ==
  /\ host.pc = "wait" /\ host.completion # "none"
  /\ td' = [td EXCEPT !.active = FALSE]
  /\ host' = [host EXCEPT !.pc = "stop", !.homeEnd = FALSE]
  /\ toMcu' = [m \in MCUs |->
       (IF m = Main THEN Append(toMcu[m], Command("endstop_home", 0)) ELSE toMcu[m])
         \o <<Command("trigger", HostRequest)>>]
  /\ UNCHANGED <<now, mcu, toHost, tdm, waiting, result>>

\* MCU_trsync.stop: the query is answered after the MCU has run it.
StopTrsync(m) ==
  /\ host.pc = "stop" /\ result[m] = None /\ toMcu[m] = <<>>
  /\ result' = [result EXCEPT ![m] = mcu[m].reason]
  /\ host' = IF \A o \in MCUs : result'[o] # None THEN [host EXCEPT !.pc = "done"] ELSE host
  /\ UNCHANGED <<now, mcu, toMcu, toHost, td, tdm, waiting>>

\* Mutant: only the endstop's MCU is asked.
StopReasonOfMain == result[Main]

\* What TriggerDispatch.stop returns, once every MCU has answered.
StopReason == IF \E m \in MCUs : result[m] >= CommsTimeout THEN CommsTimeout ELSE result[Main]

\* Mutant: any report after the move was queued is taken for its end.
IsLateAny(m, msg) == m = Main /\ host.homeEnd /\ msg.can

\* The report shows that the move is over and the endstop was not touched.
IsLate(m, msg) == m = Main /\ host.homeEnd /\ msg.can /\ msg.clock >= MoveTime

\* MCU_trsync._handle_trsync_state: the Python side of a report.
HandleTrsyncState(m) ==
  /\ waiting[m] # <<>>
  /\ LET msg == Head(waiting[m])
         late == IsLate(m, msg)
     IN  /\ waiting' = [waiting EXCEPT ![m] = Tail(@)]
         /\ host' = [host EXCEPT !.homeEnd = @ /\ ~late,
              !.completion = IF msg.can \/ @ # "none" THEN @
                             ELSE IF msg.reason >= CommsTimeout THEN "failure" ELSE "ok"]
         /\ toMcu' = IF late THEN [toMcu EXCEPT ![m] = Append(@, Command("trigger", PastEndTime))]
                             ELSE toMcu
  /\ UNCHANGED <<now, mcu, toHost, td, tdm, result>>

(***************************************************************************)
(* The C dispatcher.                                                       *)
(***************************************************************************)
\* Mutant: the MCU that lags behind is extended by its own report.
OthersTimeOwn(m, status) == status[m]

\* Mutant: the MCU that lags behind gets PR_NEVER.
OthersTimeUnset(m, status) ==
  IF \A o \in MCUs : status[m] <= status[o] THEN Never ELSE Min({status[o] : o \in MCUs})

\* The latest time up to which the others of m have reported.
OthersTime(m, status) ==
  IF Secondary = {} THEN status[m] ELSE Min({status[o] : o \in MCUs \ {m}})

\* handle_trsync_state in C; Python gets the message after it.  A message of a
\* secondary MCU that has not stopped means nothing to Python.
FastReadState(m) ==
  /\ toHost[m] # <<>>
  /\ LET msg == Head(toHost[m])
         status == [o \in MCUs |-> IF o = m THEN msg.clock ELSE tdm[o].status]
         expire == [o \in MCUs |-> OthersTime(o, status) + ExpireTicks]
         extended == {o \in MCUs : expire[o] >= tdm[o].expire + MinExtend}
     IN  /\ toHost' = [toHost EXCEPT ![m] = Tail(@)]
         /\ waiting' = [waiting EXCEPT ![m] = 
              IF host.pc \in {"stop", "done"} \/ (msg.can /\ m # Main) THEN @ ELSE Append(@, msg)]
         /\ IF ~ td.active \/ ~ td.can
            THEN UNCHANGED <<td, tdm, toMcu>>
            ELSE IF ~ msg.can
            THEN /\ td' = [td EXCEPT !.can = FALSE]
                 /\ toMcu' = [o \in MCUs |-> Append(toMcu[o], Command("trigger", HostRequest))]
                 /\ UNCHANGED tdm
            ELSE /\ tdm' = [o \in MCUs |-> [status |-> status[o],
                       expire |-> IF o \in extended THEN expire[o] ELSE tdm[o].expire]]
                 /\ toMcu' = [o \in MCUs |-> IF o \in extended
                       THEN Append(toMcu[o], Command("set_timeout", expire[o])) ELSE toMcu[o]]
                 /\ UNCHANGED td
  /\ UNCHANGED <<now, mcu, host, result>>

(***************************************************************************)
(* The firmware, and time.                                                 *)
(***************************************************************************)
\* The first trigger decides the reason, stops the steppers and is reported.
Triggered(ts, reason) ==
  IF ts.can THEN [ts EXCEPT !.can = FALSE, !.reason = reason, !.stopped = now] ELSE ts

Report(m, ts) == toHost' = [toHost EXCEPT ![m] = Append(@, [can |-> ts.can, reason |-> ts.reason,
                                                             clock |-> now])]

\* A trsync that is started after its timeout stops at once.
Started(ts, begin) ==
  LET armed == [ts EXCEPT !.begin = begin, !.can = TRUE, !.expire = begin + ExpireTicks]
  IN  IF now < armed.expire THEN armed ELSE Triggered(armed, CommsTimeout)

Execute(m) ==
  /\ toMcu[m] # <<>>
  /\ LET c == Head(toMcu[m])
         ts == CASE c.op = "start"        -> Started(mcu[m], c.arg)
                 [] c.op = "set_timeout"  -> [mcu[m] EXCEPT !.expire = c.arg]
                 [] c.op = "endstop_home" -> [mcu[m] EXCEPT !.endstop = c.arg = 1]
                 [] c.op = "trigger"      -> Triggered(mcu[m], c.arg)
     IN  /\ mcu' = [mcu EXCEPT ![m] = ts]
         /\ IF mcu[m].stopped # ts.stopped THEN Report(m, ts) ELSE UNCHANGED toHost
  /\ toMcu' = [toMcu EXCEPT ![m] = Tail(@)]
  /\ UNCHANGED <<now, td, tdm, waiting, host, result>>

PeriodicReport(m) ==
  /\ mcu[m].can
  /\ Len(toHost[m]) + Len(waiting[m]) < MaxReports
  /\ Report(m, mcu[m])
  /\ UNCHANGED <<now, mcu, toMcu, td, tdm, waiting, host, result>>

StopBy(m, reason) ==
  /\ mcu[m].can
  /\ mcu' = [mcu EXCEPT ![m] = Triggered(@, reason)]
  /\ Report(m, mcu'[m])
  /\ UNCHANGED <<now, toMcu, td, tdm, waiting, host, result>>

EndstopHits == mcu[Main].endstop /\ StopBy(Main, EndstopHit)
Expires(m) == now >= mcu[m].expire /\ StopBy(m, CommsTimeout)

\* A timeout that is due is not missed.
Tick ==
  /\ now < Horizon
  /\ \A m \in MCUs : mcu[m].can => now < mcu[m].expire
  /\ now' = now + 1
  /\ UNCHANGED <<mcu, toMcu, toHost, td, tdm, waiting, host, result>>

Next ==
  \/ StartDispatch \/ EndOfMove \/ StopDispatch \/ EndstopHits \/ Tick
  \/ \E m \in MCUs : \/ StartTrsync(m) \/ StopTrsync(m) \/ HandleTrsyncState(m)
                     \/ FastReadState(m) \/ Execute(m) \/ PeriodicReport(m) \/ Expires(m)

Spec == Init /\ [][Next]_vars

\* The serial threads, the reactor, the firmware and time go on; whether the
\* endstop is ever touched is not assumed.
Fairness ==
  /\ WF_vars(StartDispatch) /\ WF_vars(EndOfMove) /\ WF_vars(StopDispatch) /\ WF_vars(Tick)
  /\ \A m \in MCUs : /\ WF_vars(StartTrsync(m)) /\ WF_vars(StopTrsync(m))
                      /\ WF_vars(HandleTrsyncState(m)) /\ WF_vars(FastReadState(m))
                      /\ WF_vars(Execute(m)) /\ WF_vars(PeriodicReport(m)) /\ WF_vars(Expires(m))

LiveSpec == Spec /\ Fairness

(***************************************************************************)
(* Properties.                                                             *)
(***************************************************************************)
Instants == 0 .. Never
Commands == [op : {"start", "set_timeout", "endstop_home", "trigger"}, arg : Nat]
Reports == [can : BOOLEAN, reason : None .. CommsTimeout, clock : 0 .. Horizon]

FirmwareTypeOK ==
  /\ now \in 0 .. Horizon
  /\ mcu \in [MCUs -> [begin : Instants, can : BOOLEAN, reason : None .. CommsTimeout,
                       expire : Instants, stopped : Instants, endstop : BOOLEAN]]

MessagesTypeOK ==
  /\ toMcu \in [MCUs -> Seq(Commands)] /\ toHost \in [MCUs -> Seq(Reports)] /\ waiting \in [MCUs -> Seq(Reports)]

HostTypeOK ==
  /\ td \in [active : BOOLEAN, can : BOOLEAN]
  /\ tdm \in [MCUs -> [status : 0 .. Horizon, expire : 0 .. Horizon + ExpireTicks]]
  /\ host \in [pc : {"setup", "moving", "wait", "stop", "done"}, started : SUBSET MCUs,
               completion : {"none", "ok", "failure"}, homeEnd : BOOLEAN]
  /\ result \in [MCUs -> None .. CommsTimeout]

\* The shape of the state.
TypeOK == FirmwareTypeOK /\ MessagesTypeOK /\ HostTypeOK

\* However long messages take, once one MCU has stopped no other has a timeout
\* later than ExpireTicks after that stop: the extensions of one are backed by
\* reports of all the others.
StopTogether ==
  \A a, b \in MCUs :
    (mcu[a].stopped # Never /\ mcu[b].can)
      => mcu[b].expire <= Max({mcu[a].stopped, mcu[b].begin}) + ExpireTicks

\* When homing reports a hit, the endstop's MCU stopped on the endstop, nobody
\* ran into its timeout, and the others stopped after it and in time.
HitIsTrue ==
  (host.pc = "done" /\ StopReason = EndstopHit)
    => \A m \in MCUs : /\ mcu[m].reason \notin {None, CommsTimeout}
                       /\ mcu[m].stopped >= mcu[Main].stopped
                       /\ mcu[m].stopped <= mcu[Main].stopped + ExpireTicks

\* Homing that reports neither a hit nor a timeout has made the whole move: no
\* MCU was stopped before the end of it.
MissIsFullMove ==
  (host.pc = "done" /\ StopReason \notin {EndstopHit, CommsTimeout})
    => /\ StopReason = PastEndTime
       /\ \A m \in MCUs : mcu[m].stopped >= MoveTime

\* Homing comes to an end, hit or miss, whatever messages are delayed and even
\* if a trigger arrives before the dispatcher listens.
HomingEnded == host.pc = "done"
HomingEnds == <>HomingEnded

(***************************************************************************)
(* The inductive invariant.                                                *)
(***************************************************************************)
\* The last instant at which m was known to run, as far as time has gone.
Last(m) == IF mcu[m].stopped = Never THEN now ELSE mcu[m].stopped

TimedOut == \E m \in MCUs : mcu[m].reason = CommsTimeout
MainStopped == mcu[Main].stopped # Never

\* The trsync of an MCU is started once, and stops once, for a reason.
StopsOnce ==
  \A m \in MCUs :
    /\ mcu[m].can => mcu[m].stopped = Never
    /\ mcu[m].can \/ mcu[m].reason # None => mcu[m].begin # Never
    /\ mcu[m].stopped = Never <=> mcu[m].reason = None
    /\ mcu[m].stopped = Never \/ mcu[m].stopped <= now
    /\ mcu[m].begin = Never \/ mcu[m].begin <= now

\* Who is not started has not been heard of; a command to start comes first.
StartsFirst ==
  /\ host.pc # "setup" \/ td.active => host.started = MCUs
  /\ \A m \in MCUs \ host.started : mcu[m] = Idle /\ toMcu[m] = <<>> /\ toHost[m] = <<>> /\ waiting[m] = <<>>
  /\ \A m \in host.started :
       \/ mcu[m].can \/ mcu[m].reason # None
       \/ toMcu[m] # <<>> /\ Head(toMcu[m]).op = "start"
  /\ \A m \in MCUs : \A i \in DOMAIN toMcu[m] :
       toMcu[m][i].op = "start" => i = 1 /\ mcu[m] = Idle /\ toMcu[m][i].arg <= now

\* Extensions are backed by the others, a trigger has a cause.
CommandsAreRight ==
  \A m \in MCUs : \A i \in DOMAIN toMcu[m] :
    LET c == toMcu[m][i]
    IN  /\ c.op = "set_timeout" => /\ c.arg <= Horizon + ExpireTicks
                                   /\ \A a \in MCUs \ {m} : c.arg <= Last(a) + ExpireTicks
        /\ c.op = "endstop_home" => host.pc # "setup"
        /\ c.op = "trigger" => \/ c.arg = HostRequest /\ (MainStopped \/ TimedOut)
                               \/ c.arg = PastEndTime /\ m = Main /\ MoveTime <= now

\* Reports are of the time when their MCU ran, and tell truly that it has stopped.
ReportIsRight(m, msg) == msg.clock <= Last(m) /\ (msg.can \/ mcu[m].stopped # Never)

ReportsAreRight ==
  /\ \A m \in MCUs : /\ \A i \in DOMAIN toHost[m] : ReportIsRight(m, toHost[m][i])
                     /\ \A i \in DOMAIN waiting[m] : ReportIsRight(m, waiting[m][i])
                     /\ tdm[m].status <= Last(m)
  /\ host.completion # "none" => MainStopped \/ TimedOut

\* If nobody ran into its timeout, the endstop's MCU was the first to stop.
MainStopsFirst == TimedOut \/ \A m \in MCUs : mcu[Main].stopped <= mcu[m].stopped

\* Nobody runs, or has run, for more than ExpireTicks after another one stopped.
Backed(t, a, m) == t <= Last(a) + ExpireTicks \/ t <= mcu[m].begin + ExpireTicks

TimesAreBacked ==
  \A m \in MCUs : \A a \in MCUs \ {m} :
    /\ mcu[m].can => Backed(mcu[m].expire, a, m) /\ Backed(now, a, m)
    /\ mcu[m].reason \notin {None, CommsTimeout} => Backed(mcu[m].stopped, a, m)

\* Everybody was started before the endstop was armed, so before it was hit.
HitsAreArmed ==
  /\ mcu[Main].endstop => host.pc # "setup"
  /\ mcu[Main].reason = EndstopHit =>
       /\ host.pc # "setup"
       /\ \A m \in MCUs :
            /\ mcu[m].begin = Never \/ mcu[m].begin <= mcu[Main].stopped
            /\ \A i \in DOMAIN toMcu[m] : toMcu[m][i].op = "start" => toMcu[m][i].arg <= mcu[Main].stopped

\* The endstop's MCU does not stop by request while all is well, and by the end of the move not before it.
MissesAreLate ==
  /\ mcu[Main].reason = HostRequest => TimedOut
  /\ mcu[Main].reason = PastEndTime => MoveTime <= mcu[Main].stopped

\* What stop() was told is why the MCU stopped, and a request to stop is on the way to all that have not.
ResultsAreTrue ==
  /\ \A m \in MCUs : result[m] # None => result[m] = mcu[m].reason
  /\ host.pc = "done" => \A m \in MCUs : result[m] # None
  /\ host.pc = "stop" => \A m \in MCUs :
       mcu[m].reason # None \/ \E i \in DOMAIN toMcu[m] : toMcu[m][i].op = "trigger"

IInv ==
  /\ TypeOK /\ StopsOnce /\ StartsFirst /\ CommandsAreRight /\ ReportsAreRight /\ MainStopsFirst
  /\ TimesAreBacked /\ HitsAreArmed /\ MissesAreLate /\ ResultsAreTrue
==============================================================================
