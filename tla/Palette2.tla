------------------------------ MODULE Palette2 ------------------------------
(***************************************************************************)
(* The filament splicer Palette 2 (extras/palette2.py): a serial line with *)
(* a timer that reads, one that writes a queue and one that sends          *)
(* heartbeats; commands of the G-code, which hold the mutex of the         *)
(* interpreter; and the requests of the device, some of which run scripts  *)
(* and so wait for that mutex inside the handler that reads.               *)
(*                                                                         *)
(* One unit of time is a part of HEARTBEAT_SEND; reading and writing are   *)
(* fast beside it.  Lines are members of small sets.  An exception out of  *)
(* a timer, and an internal error of a command, shut the printer down.     *)
(***************************************************************************)
EXTENDS Integers, Sequences

CONSTANTS Send, Setup,  \* HEARTBEAT_SEND, SETUP_TIMEOUT
          HeaderLen,    \* entries of the header of a print, 9
          Requests,     \* lines of the device, out of Lines
          MaxConnects, MaxInputs, MaxQueue  \* bounds: connections; commands but these, and lines; a queue nobody writes

Timeout == 2 * Send + 1  \* HEARTBEAT_TIMEOUT
Never == -1              \* reactor.NEVER
None == 99               \* Python's None, of a time

\* Requests that are answered at once, and those that run a script.
Quick == {"O99", "", "O20 D0", "O20 D1", "O20 D2", "O20 D4", "O20 D8", "O40", "O50", "O50 old", "O100", "O102",
          "U0 D3", "U39", "U39 D", "U39 D-"}
Scripts == {"U25 D0", "U25 D1", "U0 D2", "O34", "O53"}
Lines == Quick \cup Scripts

Palette2Assumption ==
  {Send, HeaderLen} \subseteq Nat \ {0} /\ Setup = 2 * Send /\ {MaxConnects, MaxInputs, MaxQueue} \subseteq Nat /\ Requests \subseteq Lines

VARIABLES
  conn, serial,    \* connections so far, whether there is one
  timers,          \* how many of each kind of timer are registered
  heartbeat,       \* age of the last heartbeat, or None
  signal_disconnect,
  beatAt, beating, \* time to the next call of _run_Heartbeat; its calls that pause: of which connection, how long
  writing,         \* _run_Write is called again
  queue, last,     \* write_queue, omega_last_command
  print,           \* what is known of the print
  smart,           \* smart_load_timer is registered
  readers,         \* calls of _run_Read that wait for the mutex: connection, request, the line that came with it
  cmd,             \* the command that holds the mutex, and for how long
  feed,            \* feed rate set by a script
  down, silent, n  \* shut down; time a silent device was not found; inputs

vars == <<conn, serial, timers, heartbeat, signal_disconnect, beatAt, beating, writing, queue, last, print, smart,
          readers, cmd, feed, down, silent, n>>
line == <<conn, serial, timers, heartbeat, signal_disconnect, beatAt, beating, writing>>

Reset(printing) ==
  [printing |-> printing, setup |-> FALSE, splicing |-> FALSE, loading |-> FALSE, remaining |-> "none",
   header |-> {}, headerNo |-> 0, splices |-> 0, spliceNo |-> 0, algorithms |-> 0, algorithmNo |-> 0, ping |-> FALSE]

Init ==
  /\ conn = 0 /\ serial = FALSE /\ timers = [t \in {"read", "write", "beat"} |-> 0]
  /\ heartbeat = None /\ signal_disconnect = FALSE /\ beatAt = Never /\ beating = {} /\ writing = FALSE
  /\ queue = <<>> /\ last = "" /\ print = Reset(FALSE) /\ smart = FALSE /\ readers = {}
  /\ cmd = [what |-> "none", waited |-> 0] /\ feed = "normal" /\ down = FALSE /\ silent = 0 /\ n = 0

Free == cmd.what = "none"
Put(q, l) == Append(q, [what |-> l, conn |-> conn])

\* A command of the G-code comes to hold the mutex.
Command == ~down /\ Free /\ n < MaxInputs /\ n' = n + 1

(* cmd_Disconnect from wherever it is called: the timers go, except that   *)
(* of a smart load.                                                        *)
Disconnected ==
  /\ serial' = FALSE
  /\ timers' = [t \in DOMAIN timers |-> timers[t] - 1]
  /\ heartbeat' = None /\ beatAt' = Never /\ writing' = FALSE
  /\ print' = [print EXCEPT !.printing = FALSE]
  /\ UNCHANGED <<conn, signal_disconnect>>

-----------------------------------------------------------------------------
(* Commands.                                                               *)

cmd_Connect ==
  /\ ~down /\ Free /\ ~serial /\ conn < MaxConnects
  /\ signal_disconnect' = FALSE
  /\ \/ UNCHANGED <<conn, serial, timers, beatAt, writing, queue, cmd>>  \* the port does not open
     \/ /\ conn' = conn + 1 /\ serial' = TRUE
        /\ timers' = [t \in DOMAIN timers |-> timers[t] + 1]
        /\ beatAt' = 0 /\ writing' = TRUE
        /\ queue' = [i \in 1 .. 2 |-> [what |-> <<"", "O50">>[i], conn |-> conn + 1]]
        /\ cmd' = [what |-> "connect", waited |-> 0]
  /\ UNCHANGED <<heartbeat, beating, last, print, smart, readers, feed, down, n>>

\* Without timers to unregister the command is an internal error.
cmd_Disconnect ==
  /\ Command
  /\ IF timers["read"] = 0
       THEN down' = TRUE /\ UNCHANGED <<line, print>>
       ELSE Disconnected /\ UNCHANGED <<beating, down>>
  /\ UNCHANGED <<queue, last, smart, readers, cmd, feed>>

\* A line for the device: a cut, a clearing, a code that has no handler.
cmd_OmegaDefault ==
  /\ Command /\ serial
  /\ queue' = Put(queue, "cut")
  /\ UNCHANGED <<line, last, print, smart, readers, cmd, feed, down>>

cmd_Smart_Load ==
  /\ Command /\ serial /\ print.loading
  /\ smart' = TRUE
  /\ UNCHANGED <<line, queue, last, print, readers, cmd, feed, down>>

\* _wait_for_heartbeat has waited long enough, if there ever was a heartbeat.
Heard == heartbeat # None /\ ~(heartbeat > Setup /\ cmd.waited < Setup)

cmd_O1 ==
  /\ Command
  /\ IF serial THEN beatAt' = 0 /\ cmd' = [what |-> "O1", waited |-> 0]
               ELSE UNCHANGED <<beatAt, cmd>>
  /\ UNCHANGED <<conn, serial, timers, heartbeat, signal_disconnect, beating, writing, queue, last, print, smart,
                 readers, feed, down>>

_wait_for_heartbeat ==
  /\ ~down /\ cmd.what \in {"connect", "O1"} /\ Heard
  /\ signal_disconnect' = (signal_disconnect \/ heartbeat > Setup)
  /\ queue' = IF cmd.what = "O1" /\ heartbeat <= Setup THEN Put(queue, "O1") ELSE queue
  /\ cmd' = [what |-> "none", waited |-> 0]
  /\ UNCHANGED <<conn, serial, timers, heartbeat, beatAt, beating, writing, last, print, smart, readers, feed,
                 down, n>>

cmd_O9 ==
  /\ Command
  /\ queue' = IF serial THEN Put(queue, "O9") ELSE queue
  /\ print' = [print EXCEPT !.printing = FALSE]
  /\ UNCHANGED <<line, last, smart, readers, cmd, feed, down>>

cmd_O21 ==
  /\ Command
  /\ print' = [Reset(TRUE) EXCEPT !.header = {0}]
  /\ UNCHANGED <<line, queue, last, smart, readers, cmd, feed, down>>

\* O22 to O29: the other entries of the header.
cmd_O22 ==
  /\ Command
  /\ \E i \in 1 .. HeaderLen - 1 : print' = [print EXCEPT !.header = @ \cup {i}]
  /\ UNCHANGED <<line, queue, last, smart, readers, cmd, feed, down>>

cmd_O30 ==
  /\ Command
  /\ print' = [print EXCEPT !.splices = @ + 1]
  /\ UNCHANGED <<line, queue, last, smart, readers, cmd, feed, down>>

cmd_O31 ==
  /\ Command /\ serial
  /\ print' = [print EXCEPT !.ping = TRUE]
  /\ queue' = Put(queue, "O31")
  /\ UNCHANGED <<line, last, smart, readers, cmd, feed, down>>

cmd_O32 ==
  /\ Command
  /\ print' = [print EXCEPT !.algorithms = @ + 1]
  /\ UNCHANGED <<line, queue, last, smart, readers, cmd, feed, down>>

\* Any other command that holds the mutex for a while, and its end.
Long ==
  /\ \/ Command /\ cmd' = [what |-> "other", waited |-> 0]
     \/ ~down /\ cmd.what = "other" /\ cmd' = [what |-> "none", waited |-> 0] /\ UNCHANGED n
  /\ UNCHANGED <<line, queue, last, print, smart, readers, feed, down>>

-----------------------------------------------------------------------------
(* Requests of the device.  Each says what becomes of the queue, of the    *)
(* print, of the timer of the smart load and of the printer.               *)

Same == [queue |-> queue, print |-> print, smart |-> smart, down |-> FALSE]
Failed == [Same EXCEPT !.down = TRUE]

\* The next entry of a list, which must be there.
NextOf(count, no, given, what) ==
  IF print[no] < count
    THEN [Same EXCEPT !.queue = IF given THEN Put(queue, what) ELSE queue, !.print = [print EXCEPT ![no] = @ + 1]]
    ELSE Failed

\* What is not given is None, which _run_Write skips.
p2cmd_O20(l) ==
  CASE ~print.printing -> Same
    [] l = "O20 D0" -> NextOf(HeaderLen, "headerNo", print.headerNo \in print.header, "header")
    [] l = "O20 D1" -> NextOf(print.splices, "spliceNo", TRUE, "O30")
    [] l = "O20 D2" -> [Same EXCEPT !.queue = IF print.ping THEN Put(queue, "ping") ELSE queue]
    [] l = "O20 D4" -> NextOf(print.algorithms, "algorithmNo", TRUE, "O32")
    [] l = "O20 D8" -> [Same EXCEPT !.queue = Put(queue, last)]

\* A firmware that is too old raises an error; a question is answered with the files.
p2cmd_O50(l) == IF l = "O50" THEN [Same EXCEPT !.queue = Put(queue, "O52")] ELSE Failed

\* Cancelled, loading, and how much is still to be loaded: of a print only.
p2cmd_O97(l) ==
  CASE ~print.printing -> Same
    [] l = "U0 D3" -> [Same EXCEPT !.print = Reset(FALSE), !.print.printing = print.printing]
    [] l = "U39" -> [Same EXCEPT !.print.loading = TRUE]
    [] l = "U39 D-" -> [Same EXCEPT !.print.remaining = "more"]
    [] l = "U39 D" -> [Same EXCEPT !.print.remaining = "nothing", !.smart = FALSE,
                                   !.print.loading = @ /\ ~smart]

\* Pausing and resuming the print are for pause_resume.
p2cmd_O100 == [Same EXCEPT !.print.setup = TRUE]

\* A cold extruder stops the load.
p2cmd_O102(hot) == IF hot THEN [Same EXCEPT !.smart = TRUE] ELSE [Same EXCEPT !.queue = Put(queue, "O102 D1")]

\* An empty line has no first character.
Answers(l) ==
  CASE l = "" -> {Failed}
    [] l \in {"O20 D0", "O20 D1", "O20 D2", "O20 D4", "O20 D8"} -> {p2cmd_O20(l)}
    [] l \in {"O50", "O50 old"} -> {p2cmd_O50(l)}
    [] l \in {"U0 D3", "U39", "U39 D", "U39 D-"} -> {p2cmd_O97(l)}
    [] l = "O100" -> {p2cmd_O100}
    [] l = "O102" -> {p2cmd_O102(hot) : hot \in BOOLEAN}
    [] OTHER -> {Same}

p2cmd(l) ==
  \E a \in Answers(l) :
    queue' = a.queue /\ print' = a.print /\ smart' = a.smart /\ down' = a.down

\* What the script of a request does, if the request runs one.
Runs(l) == l \in {"U25 D0", "U25 D1", "O53"} \/ (l \in {"U0 D2", "O34"} /\ print.printing)
Mine == \E r \in readers : r.conn = conn

(* _run_Read: a line comes.  A request with a script waits for the mutex,  *)
(* with what came behind it; the timer is not called again until it ends.  *)
_run_Read ==
  /\ ~down /\ serial /\ ~signal_disconnect /\ ~Mine /\ n < MaxInputs /\ n' = n + 1
  /\ \E l \in Requests, behind \in {"", "O99"} :
       IF l \in Scripts /\ Runs(l)
         THEN /\ readers' = readers \cup {[conn |-> conn, what |-> l, behind |-> behind]}
              /\ print' = [print EXCEPT !.splicing = IF l \in {"U25 D0", "U25 D1"} THEN l = "U25 D0" ELSE @]
              /\ UNCHANGED <<heartbeat, queue, smart, down>>
         ELSE /\ p2cmd(l)
              /\ heartbeat' = IF l = "O99" THEN 0 ELSE heartbeat
              /\ UNCHANGED readers
  /\ UNCHANGED <<conn, serial, timers, signal_disconnect, beatAt, beating, writing, last, cmd, feed>>

\* The mutex is free: the script runs, and the handler goes on with the lines it had read, whatever has become of
\* the connection. Starting a print fails when the card is busy.
ScriptRuns ==
  /\ ~down /\ Free
  /\ \E r \in readers :
       /\ readers' = readers \ {r}
       /\ heartbeat' = IF r.behind = "O99" THEN 0 ELSE heartbeat
       /\ feed' = IF r.what = "U25 D0" THEN "splice" ELSE IF r.what = "U25 D1" THEN "normal" ELSE feed
       /\ down' \in IF r.what = "O53" THEN BOOLEAN ELSE {FALSE}
  /\ UNCHANGED <<conn, serial, timers, signal_disconnect, beatAt, beating, writing, queue, last, print, smart, cmd, n>>

\* A read that fails, or the sign of another handler, ends the connection.
ReadEnds ==
  /\ ~down /\ serial /\ ~Mine
  /\ \/ signal_disconnect /\ UNCHANGED n
     \/ n < MaxInputs /\ n' = n + 1
  /\ Disconnected
  /\ UNCHANGED <<beating, queue, last, smart, readers, cmd, feed, down>>

-----------------------------------------------------------------------------
(* The other timers.                                                       *)

_run_Write ==
  /\ ~down /\ writing /\ queue # <<>>
  /\ last' = Head(queue).what /\ queue' = Tail(queue)
  /\ \/ UNCHANGED <<writing, signal_disconnect, n>>
     \/ n < MaxInputs /\ n' = n + 1 /\ writing' = FALSE /\ signal_disconnect' = TRUE
  /\ UNCHANGED <<conn, serial, timers, heartbeat, beatAt, beating, print, smart, readers, cmd, feed, down>>

_run_Heartbeat ==
  /\ ~down /\ beatAt = 0
  /\ queue' = Put(queue, "O99")
  /\ beating' = beating \cup {[conn |-> conn, left |-> Send]} /\ beatAt' = Never
  /\ UNCHANGED <<conn, serial, timers, heartbeat, signal_disconnect, writing, last, print, smart, readers, cmd,
                 feed, down, n>>

\* After its pause the call looks at the heartbeat there is now; its timer may be that of an earlier connection.
HeartbeatEnds ==
  /\ ~down
  /\ \E b \in beating :
       /\ b.left = 0 /\ beating' = beating \ {b}
       /\ IF heartbeat # None /\ heartbeat > Timeout /\ (~print.printing \/ print.setup)
            THEN Disconnected
            ELSE /\ beatAt' = IF serial /\ b.conn = conn THEN Send ELSE beatAt
                 /\ UNCHANGED <<conn, serial, timers, heartbeat, signal_disconnect, writing, print>>
  /\ UNCHANGED <<queue, last, smart, readers, cmd, feed, down, n>>

\* The load goes on while there is more to load; that nothing is known of it was not thought of.
_run_Smart_Load ==
  /\ ~down /\ smart /\ ~print.splicing /\ print.remaining = "none"
  /\ down' = TRUE
  /\ UNCHANGED <<line, queue, last, print, smart, readers, cmd, feed, n>>

Silent == serial /\ heartbeat # None /\ heartbeat > Timeout /\ (~print.printing \/ print.setup)

\* Time passes when nothing is due.
Tick ==
  /\ ~down /\ beatAt # 0 /\ (\A b \in beating : b.left > 0) /\ ~(writing /\ queue # <<>>)
  /\ ~(signal_disconnect /\ serial /\ ~Mine) /\ ~(cmd.what \in {"connect", "O1"} /\ Heard)
  /\ ~(smart /\ ~print.splicing /\ print.remaining = "none") /\ (Free => readers = {})
  /\ Len(queue) < MaxQueue
  /\ heartbeat' = IF heartbeat \in {None, Timeout + 1} THEN heartbeat ELSE heartbeat + 1
  /\ beatAt' = IF beatAt = Never THEN Never ELSE beatAt - 1
  /\ beating' = {[b EXCEPT !.left = @ - 1] : b \in beating}
  /\ cmd' = IF cmd.waited < Setup /\ cmd.what \in {"connect", "O1"} THEN [cmd EXCEPT !.waited = @ + 1] ELSE cmd
  /\ UNCHANGED <<conn, serial, timers, signal_disconnect, writing, queue, last, print, smart, readers, feed, down, n>>

Step ==
  \/ cmd_Connect \/ cmd_Disconnect \/ cmd_OmegaDefault \/ cmd_Smart_Load \/ cmd_O1 \/ _wait_for_heartbeat
  \/ cmd_O9 \/ cmd_O21 \/ cmd_O22 \/ cmd_O30 \/ cmd_O31 \/ cmd_O32 \/ Long
  \/ _run_Read \/ ScriptRuns \/ ReadEnds \/ _run_Write \/ _run_Heartbeat \/ HeartbeatEnds \/ _run_Smart_Load

Next ==
  \/ Step /\ silent' = IF Silent' THEN silent ELSE 0
  \/ Tick /\ silent' = IF Silent THEN silent + 1 ELSE 0

Spec == Init /\ [][Next]_vars

-----------------------------------------------------------------------------
TypeOK ==
  /\ conn \in 0 .. MaxConnects /\ serial \in BOOLEAN /\ timers \in [{"read", "write", "beat"} -> Nat]
  /\ heartbeat \in 0 .. Timeout + 1 \cup {None} /\ beatAt \in Never .. Send
  /\ beating \subseteq [conn : 1 .. MaxConnects, left : 0 .. Send]
  /\ readers \subseteq [conn : 1 .. MaxConnects, what : Scripts, behind : {"", "O99"}]

\* Every connection has one timer of each kind, and none is left when it ends (cmd_Connect, cmd_Disconnect).
TimersServe == \A t \in DOMAIN timers : timers[t] = IF serial THEN 1 ELSE 0

\* A device that has fallen silent is found by the call of _run_Heartbeat after next, unless the print is being set up.
SilenceIsFound == silent <= 2 * Send

\* What is written into the line was meant for this connection: lines left in the queue of an earlier one are dropped.
QueueIsOfConnection == writing => \A i \in DOMAIN queue : queue[i].conn = conn
=============================================================================
