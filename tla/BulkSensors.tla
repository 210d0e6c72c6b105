----------------------------- MODULE BulkSensors -----------------------------
(***************************************************************************)
(* Measurements that a micro-controller streams to the host                *)
(* (extras/bulk_sensor.py) and the drivers of the chips that use it        *)
(* (adxl345, lis2dw, mpu9250, ldc1612, hx71x, ads1220, angle).             *)
(*                                                                         *)
(* BatchBulkHelper starts the chip for the first client, hands batches of  *)
(* blocks to the clients from a timer, and stops the chip when the last    *)
(* client is gone.  Starting and stopping talk to the micro-controller and *)
(* wait for its answers, so other greenlets add clients in between.  A     *)
(* driver is the list of its steps:                                        *)
(*   check   read a register and refuse an unexpected value                *)
(*   set     write a register and read it back                             *)
(*   query   send the command that starts the stream (not awaited)         *)
(*   halt    send the command that stops it and wait for its ack           *)
(*   note    FixedFreqReader.note_start: clear the queue, ask the status   *)
(*   clear   clear the queue                                               *)
(*   status  ask the status at the start of a batch                        *)
(*   hand    convert what is queued and call the clients                   *)
(* Commands and answers travel in order over two reliable links.  A block  *)
(* of samples carries its number modulo SeqMod.                            *)
(***************************************************************************)
EXTENDS Naturals, Sequences, FiniteSets, SequencesExt

CONSTANTS Clients, Drivers, NoClient,
          Wrap,         \* sequence numbers are taken modulo this (2^16)
          MaxLink,      \* bound: blocks under way or queued
          MaxBlocks,    \* bound: blocks of one stream
          MaxSessions,  \* bound: starts of the stream
          MaxFaults     \* bound: registers that read wrongly

VARIABLES driver, phase, client_cbs, is_started, timer, job,
          down, up, raw_samples, stream, last_sequence, batch, faults, shutdown,
          consecutive_fails

vars == <<driver, phase, client_cbs, is_started, timer, job, down, up,
          raw_samples, stream, last_sequence, batch, faults, shutdown,
          consecutive_fails>>
host == <<phase, client_cbs, is_started, timer, batch, consecutive_fails>>

NoJob == [doing |-> "nothing", who |-> NoClient, steps |-> <<>>, wait |-> "no"]
Job(d, c, s) == [doing |-> d, who |-> c, steps |-> s, wait |-> "no"]

(* The drivers.                                                            *)
adxl345_start == <<"check", "set", "query", "set", "note">>
lis2dw_start  == <<"check", "set", "query", "set", "note">>
mpu9250_start == <<"check", "query", "note">>
ldc1612_start == <<"check", "query", "note">>
hx71x_start   == <<"query", "note">>
ads1220_start == <<"check", "set", "query", "note">>
angle_start   == <<"check", "clear", "query">>

\* Mutant: the queue is cleared before the stream is stopped.
adxl345_finish_early == <<"set", "clear", "halt">>

adxl345_finish == <<"set", "halt", "clear">>
lis2dw_finish  == <<"halt", "clear", "set">>
mpu9250_finish == <<"halt", "clear">>
ldc1612_finish == <<"halt", "clear">>
hx71x_finish   == IF shutdown THEN <<>> ELSE <<"halt", "clear">>
ads1220_finish == IF shutdown THEN <<>> ELSE <<"halt", "clear">>
angle_finish   == <<"halt", "clear">>

(* What a driver's constructor wires to the helper: its callbacks, whether *)
(* its blocks are numbered by FixedFreqReader, and whether its batch is    *)
(* handed over when it holds no sample.                                    *)
Wired(start, finish, reader, always) ==
    [start |-> start, finish |-> finish, reader |-> reader, always |-> always]
ADXL345 == Wired(adxl345_start, adxl345_finish, TRUE, FALSE)
LIS2DW  == Wired(lis2dw_start, lis2dw_finish, TRUE, FALSE)
MPU9250 == Wired(mpu9250_start, mpu9250_finish, TRUE, FALSE)
LDC1612 == Wired(ldc1612_start, ldc1612_finish, TRUE, FALSE)
HX71xBase == Wired(hx71x_start, hx71x_finish, TRUE, TRUE)
ADS1220 == Wired(ads1220_start, ads1220_finish, TRUE, TRUE)
Angle   == Wired(angle_start, angle_finish, FALSE, FALSE)

Chip ==
    CASE driver = "adxl345" -> ADXL345
      [] driver = "lis2dw"  -> LIS2DW
      [] driver = "mpu9250" -> MPU9250
      [] driver = "ldc1612" -> LDC1612
      [] driver = "hx71x"   -> HX71xBase
      [] driver = "ads1220" -> ADS1220
      [] driver = "angle"   -> Angle
Start == Chip.start
Finish == Chip.finish

(* What each driver makes of the blocks of a batch: a block is bad if the  *)
(* chip flagged its sample.                                                *)
Good(b) == ~b.bad
adxl345_convert(bs) == SelectSeq(bs, Good)
ldc1612_convert(bs) == bs
hx71x_convert(bs) ==
    LET first == SelectInSeq(bs, LAMBDA b : b.bad)
    IN  IF first = 0 THEN bs ELSE SubSeq(bs, 1, first - 1)
angle_convert(bs) == SelectSeq(bs, Good)
Converted(bs) ==
    CASE driver = "adxl345" -> adxl345_convert(bs)
      [] driver = "hx71x"   -> hx71x_convert(bs)
      [] driver = "angle"   -> angle_convert(bs)
      [] OTHER              -> ldc1612_convert(bs)

(* The full number of a block, from its short one: relative to the last    *)
(* status, as a signed difference (FixedFreqReader), or to the block       *)
(* before, as an unsigned one (Angle).                                     *)
Ahead(seq, from) == (seq + Wrap - (from % Wrap)) % Wrap

\* Mutant: the difference is not sign extended.
pull_samples_unsigned(bs) ==
    [k \in DOMAIN bs |-> last_sequence + Ahead(bs[k].seq, last_sequence)]

pull_samples(bs) ==
    [k \in DOMAIN bs |->
        LET d == Ahead(bs[k].seq, last_sequence)
        IN  IF d >= Wrap \div 2 THEN last_sequence + d - Wrap ELSE last_sequence + d]
extract_samples(bs) ==
    LET at[k \in 0 .. Len(bs)] ==
          IF k = 0 THEN last_sequence
          ELSE at[k - 1] + Ahead(bs[k].seq, at[k - 1])
    IN  [k \in DOMAIN bs |-> at[k]]

Numbers(bs) == IF Chip.reader THEN pull_samples(bs) ELSE extract_samples(bs)

Init ==
    /\ driver \in Drivers
    /\ phase = [c \in Clients |-> "out"]
    /\ client_cbs = <<>> /\ is_started = FALSE /\ timer = FALSE /\ job = NoJob
    /\ down = <<>> /\ up = <<>> /\ raw_samples = <<>>
    /\ stream = [on |-> FALSE, session |-> 0, next |-> 0]
    /\ last_sequence = 0 /\ batch = <<>> /\ faults = 0 /\ shutdown = FALSE
    /\ consecutive_fails = 0

(* BatchBulkHelper.  Clients are added in any greenlet; whoever finds the  *)
(* helper stopped starts it.                                               *)
add_client(c) ==
    /\ phase[c] = "out"
    /\ ~\E k \in DOMAIN client_cbs : client_cbs[k] = c
    /\ stream.session < MaxSessions
    /\ client_cbs' = Append(client_cbs, c)
    /\ \/ /\ is_started
          /\ phase' = [phase EXCEPT ![c] = "in"]
          /\ UNCHANGED <<is_started, job>>
       \/ /\ ~is_started /\ job = NoJob
          /\ is_started' = TRUE /\ job' = Job("start", c, Start)
          /\ phase' = [phase EXCEPT ![c] = "adding"]
    /\ UNCHANGED <<driver, timer, down, up, raw_samples, stream, last_sequence,
                   batch, faults, shutdown, consecutive_fails>>

(* The client has seen enough: its callback returns False from now on      *)
(* (AccelQueryHelper.handle_batch, BatchWebhooksClient.handle_batch).      *)
is_finished(c) ==
    /\ phase[c] = "in"
    /\ phase' = [phase EXCEPT ![c] = "done"]
    /\ UNCHANGED <<driver, client_cbs, is_started, timer, job, down, up, raw_samples,
                   stream, last_sequence, batch, faults, shutdown, consecutive_fails>>

proc_batch ==
    /\ timer /\ job = NoJob
    /\ timer' = FALSE
    /\ job' = Job("batch", NoClient,
                  IF Chip.reader THEN <<"status", "hand">> ELSE <<"hand">>)
    /\ batch' = <<>>
    /\ UNCHANGED <<driver, phase, client_cbs, is_started, down, up, raw_samples, stream,
                   last_sequence, faults, shutdown, consecutive_fails>>

(* One step of the running job.  A step that needs an answer is sent first *)
(* and goes on when the answer is there.                                   *)
Awaited == {"check", "set", "halt", "note", "status"}
Issue ==
    /\ job.steps # <<>> /\ job.wait = "no"
    /\ Head(job.steps) \in Awaited
    /\ ~shutdown
    /\ job' = [job EXCEPT !.wait = "sent"]
    /\ down' = Append(down, Head(job.steps))
    /\ raw_samples' = IF Head(job.steps) = "note" THEN <<>> ELSE raw_samples
    /\ last_sequence' = IF Head(job.steps) = "note" THEN 0 ELSE last_sequence
    /\ UNCHANGED <<driver, host, up, stream, faults, shutdown>>

Unawaited ==
    /\ job.steps # <<>> /\ Head(job.steps) \in {"query", "clear"}
    /\ job' = [job EXCEPT !.steps = Tail(@)]
    /\ down' = IF Head(job.steps) = "query" /\ ~shutdown THEN Append(down, "query") ELSE down
    /\ raw_samples' = IF Head(job.steps) = "clear" THEN <<>> ELSE raw_samples
    /\ last_sequence' = IF Head(job.steps) = "clear" THEN 0 ELSE last_sequence
    /\ UNCHANGED <<driver, host, up, stream, faults, shutdown>>

_update_clock(next) == last_sequence + Ahead(next, last_sequence)

(* The answer of a step that did what it was to do.                        *)
Answered ==
    /\ job.wait = "answered"
    /\ job' = [job EXCEPT !.steps = Tail(@), !.wait = "no"]
    /\ UNCHANGED <<driver, host, down, up, raw_samples, stream, last_sequence, faults,
                   shutdown>>

(* A job is done: the caller of add_client returns, or the timer sleeps.   *)
_start_done ==
    /\ job.doing = "start" /\ job.steps = <<>>
    /\ timer' = TRUE /\ job' = NoJob
    /\ phase' = IF job.who = NoClient THEN phase ELSE [phase EXCEPT ![job.who] = "in"]
    /\ consecutive_fails' = 0
    /\ UNCHANGED <<driver, client_cbs, is_started, down, up, raw_samples, stream,
                   last_sequence, batch, faults, shutdown>>

\* Mutant: such a client is not looked for.
_stop_done_and_off ==
    /\ job.doing = "stop" /\ job.steps = <<>>
    /\ is_started' = FALSE /\ job' = NoJob
    /\ UNCHANGED <<driver, phase, client_cbs, timer, down, up, raw_samples, stream,
                   last_sequence, batch, faults, shutdown, consecutive_fails>>

(* After a stop: a client that came while it ran starts the chip again.    *)
_stop_done ==
    /\ job.doing = "stop" /\ job.steps = <<>>
    /\ is_started' = (client_cbs # <<>>)
    /\ job' = IF client_cbs # <<>> THEN Job("start", NoClient, Start) ELSE NoJob
    /\ UNCHANGED <<driver, phase, client_cbs, timer, down, up, raw_samples, stream,
                   last_sequence, batch, faults, shutdown, consecutive_fails>>
(* The stop at the end of a batch: all clients are dropped first.          *)
_stop == /\ client_cbs' = <<>> /\ timer' = FALSE
         /\ job' = Job("stop", NoClient, Finish)

(* Convert the queue and call each client; a client that returns False is  *)
(* taken out.  hx71x restarts the chip inside the batch when a sample is   *)
(* bad, or after a row of batches with overflows (5 in the code, 2 here).  *)
Called(bs) == bs # <<>> \/ Chip.always
Left == SelectSeq(client_cbs, LAMBDA c : phase[c] # "done")
Gone == {client_cbs[k] : k \in {j \in DOMAIN client_cbs : phase[client_cbs[j]] = "done"}}

handle_batch ==
    /\ phase' = [c \in Clients |-> IF c \in Gone THEN "out" ELSE phase[c]]
    /\ IF Gone # {} /\ Left = <<>>
         THEN _stop
         ELSE client_cbs' = Left /\ timer' = TRUE /\ job' = NoJob

Taken ==
    LET n == Numbers(raw_samples)
    IN  [k \in DOMAIN raw_samples |-> [raw_samples[k] EXCEPT !.read = n[k],
                                         !.own = raw_samples[k].session = stream.session]]

_process_batch ==
    /\ job.doing = "batch" /\ job.steps # <<>> /\ Head(job.steps) = "hand"
    /\ batch' = Taken
    /\ raw_samples' = <<>>
    /\ last_sequence' = IF ~Chip.reader /\ Taken # <<>> THEN Last(Taken).read
                        ELSE last_sequence
    /\ UNCHANGED <<driver, is_started, down, up, stream, faults, shutdown>>
    /\ \E overflow \in {FALSE, driver = "hx71x" /\ stream.session < MaxSessions} :
         LET bad == driver = "hx71x" /\ \E k \in DOMAIN raw_samples : raw_samples[k].bad
             again == bad \/ (overflow /\ consecutive_fails >= 1)
         IN  /\ consecutive_fails' = IF again \/ ~overflow THEN 0 ELSE consecutive_fails + 1
             /\ \/ /\ again
                   /\ job' = Job("again", NoClient, Finish \o Start)
                   /\ UNCHANGED <<phase, client_cbs, timer>>
                \/ /\ ~again /\ Called(Converted(Taken)) /\ handle_batch
                \/ /\ ~again /\ ~Called(Converted(Taken))
                   /\ timer' = TRUE /\ job' = NoJob /\ UNCHANGED <<phase, client_cbs>>

RestartDone ==
    /\ job.doing = "again" /\ job.steps = <<>>
    /\ handle_batch
    /\ UNCHANGED <<driver, is_started, down, up, raw_samples, stream, last_sequence,
                   batch, faults, shutdown, consecutive_fails>>

(* A command error: a register reads wrongly, or no answer comes from a    *)
(* micro-controller that has shut down.  A failing start drops every       *)
(* client; a failing stop too; a failing batch stops the sensor.           *)
Error ==
    /\ job.steps # <<>> /\ Head(job.steps) \in Awaited
    /\ \/ shutdown /\ faults' = faults
       \/ /\ job.wait = "answered" /\ Head(job.steps) \in {"check", "set"}
          /\ faults < MaxFaults /\ faults' = faults + 1
    /\ \/ /\ job.doing = "start"
          /\ client_cbs' = <<>> /\ is_started' = FALSE /\ job' = NoJob
          /\ phase' = IF job.who = NoClient THEN phase ELSE [phase EXCEPT ![job.who] = "out"]
          /\ UNCHANGED timer
       \/ /\ job.doing = "stop"
          /\ client_cbs' = <<>> /\ is_started' = FALSE /\ job' = NoJob
          /\ UNCHANGED <<phase, timer>>
       \/ /\ job.doing \in {"batch", "again"}
          /\ _stop /\ UNCHANGED <<phase, is_started>>
    /\ UNCHANGED <<driver, down, up, raw_samples, stream, last_sequence, batch, shutdown,
                   consecutive_fails>>

(* The micro-controller.                                                   *)
Block(bad) == [n |-> stream.next, session |-> stream.session, read |-> 0, own |-> TRUE,
               seq |-> stream.next % Wrap, bad |-> bad]
Sample ==
    /\ stream.on /\ ~shutdown /\ stream.next < MaxBlocks
    /\ Len(SelectSeq(up, LAMBDA m : m.kind = "data")) + Len(raw_samples) < MaxLink
    /\ \E bad \in {FALSE, stream.session < MaxSessions} : up' = Append(up, [kind |-> "data", block |-> Block(bad)])
    /\ stream' = [stream EXCEPT !.next = @ + 1]
    /\ UNCHANGED <<driver, host, job, down, raw_samples, last_sequence, faults, shutdown>>

McuCommand ==
    /\ down # <<>> /\ ~shutdown
    /\ down' = Tail(down)
    /\ stream' = CASE Head(down) = "query" -> [on |-> TRUE, session |-> stream.session + 1,
                                               next |-> 0]
                   [] Head(down) = "halt"  -> [stream EXCEPT !.on = FALSE]
                   [] OTHER                -> stream
    /\ up' = IF Head(down) = "query" THEN up
             ELSE Append(up, [kind |-> "answer", next |-> stream.next % Wrap])
    /\ UNCHANGED <<driver, host, job, raw_samples, last_sequence, faults, shutdown>>

(* The host's background thread.                                           *)
_handle_data ==
    /\ up # <<>> /\ Head(up).kind = "data"
    /\ up' = Tail(up) /\ raw_samples' = Append(raw_samples, Head(up).block)
    /\ UNCHANGED <<driver, host, job, down, stream, last_sequence, faults, shutdown>>

HandleAnswer ==
    /\ up # <<>> /\ Head(up).kind = "answer"
    /\ up' = Tail(up)
    /\ job' = IF job.wait = "sent" THEN [job EXCEPT !.wait = "answered"] ELSE job
    /\ last_sequence' = IF job.wait = "sent" /\ Head(job.steps) \in {"note", "status"}
                          THEN _update_clock(Head(up).next) ELSE last_sequence
    /\ UNCHANGED <<driver, host, down, raw_samples, stream, faults, shutdown>>

McuShutdown ==
    /\ ~shutdown /\ shutdown' = TRUE
    /\ down' = <<>> /\ up' = <<>> /\ stream' = [stream EXCEPT !.on = FALSE]
    /\ UNCHANGED <<driver, host, job, raw_samples, last_sequence, faults>>

Next ==
    \/ \E c \in Clients : add_client(c) \/ is_finished(c)
    \/ proc_batch \/ Issue \/ Unawaited \/ Answered \/ _start_done \/ _stop_done
    \/ _process_batch \/ RestartDone \/ Error
    \/ Sample \/ McuCommand \/ _handle_data \/ HandleAnswer \/ McuShutdown

Spec == Init /\ [][Next]_vars

-----------------------------------------------------------------------------
TypeOK ==
    /\ driver \in Drivers
    /\ phase \in [Clients -> {"out", "adding", "in", "done"}]
    /\ Range(client_cbs) \subseteq Clients
    /\ {is_started, timer, shutdown} \subseteq BOOLEAN
    /\ job.doing \in {"nothing", "start", "stop", "batch", "again"}
    /\ job.wait \in {"no", "sent", "answered"}
    /\ stream.next \in 0 .. MaxBlocks /\ faults \in 0 .. MaxFaults

(* A registered client never sits with a sensor that nobody starts: while  *)
(* there are clients the helper is started and either its timer is set or  *)
(* a job runs that will set it (the client added during a stop).           *)
ClientsAreServed ==
    client_cbs # <<>> => is_started /\ (timer \/ job # NoJob)

(* Every sample handed to a client carries the number, and so the time, of *)
(* its own block, and belongs to the stream that is running now: nothing   *)
(* of the stream before, nothing off by a wrap of the 16-bit number.       *)
TimesAreTrue ==
    \A k \in DOMAIN batch :
        batch[k].read = batch[k].n /\ batch[k].own

(* A sensor that was stopped without an error streams nothing, and nothing *)
(* is left in its queue to grow or to be taken for the next session's.     *)
StoppedIsQuiet ==
    ~is_started /\ job = NoJob /\ faults = 0 /\ ~shutdown
        => ~stream.on /\ raw_samples = <<>> /\ up = <<>>

(* As the previous one for any past error: fails, the stop of a chip whose *)
(* register does not read back leaves the stream on.                       *)
StoppedIsQuietAlways ==
    ~is_started /\ job = NoJob /\ ~shutdown => raw_samples = <<>>

(* A client that add_client accepted is called until it is done: fails     *)
(* when the start that another client began, or a batch, ends in an error. *)
AcceptedIsServed ==
    \A c \in Clients : phase[c] = "in" => c \in Range(client_cbs)
=============================================================================
