----------------------------- MODULE GCodeInput -----------------------------
(***************************************************************************)
(* G-code that arrives on the pseudo-tty (GCodeIO of gcode.py) and the     *)
(* loop that runs it (GCodeDispatch._process_commands): one greenlet runs  *)
(* what has come, in batches under the G-code mutex, while the others only *)
(* add to pending_commands.                                                *)
(***************************************************************************)
EXTENDS Naturals, Sequences, FiniteSets

CONSTANTS Kinds,     \* of lines, see AllKinds
          Limit,     \* pending lines at which the input is not read any more (20)
          MaxLines, MaxChunk, MaxOthers \* bounds: lines, lines of a read, scripts of others and aborts

\* slow: its handler waits; error: it raises a command error; crash: any other.
AllKinds == {"plain", "slow", "error", "crash", "M112"}
GCodeInputAssumption ==
  /\ Kinds \subseteq AllKinds
  /\ Limit \in Nat \ {0} /\ MaxLines \in Nat \ {0} /\ MaxChunk \in Nat \ {0} /\ MaxOthers \in Nat \ {0}

VARIABLES
  received,       \* lines read so far
  partial,        \* partial_input: a part of a line has been read
  pending, fd,    \* pending_commands, is the input read (fd_handle)
  pc, batch,      \* the greenlet that processes; is_processing_data: pc # "idle"
  held,           \* another greenlet has the G-code mutex
  aborted,        \* abort_epoch has changed since the batch began
  ready, down,    \* is_printer_ready, has the printer been shut down
  ran, acks, lost,\* lines run, answered, and dropped by an abort
  others

buffers == <<received, partial, pending, fd>>
history == <<ran, acks, lost>>
vars    == <<buffers, pc, batch, held, aborted, ready, down, history, others>>

Init ==
  /\ received = 0 /\ partial = FALSE /\ pending = <<>> /\ fd = TRUE /\ pc = "idle" /\ batch = <<>>
  /\ held = FALSE /\ aborted = FALSE /\ ready = FALSE /\ down = FALSE /\ ran = 0 /\ acks = 0 /\ lost = 0 /\ others = 0

Chunks == UNION {{s \in [1..k -> [n : (received + 1)..(received + k), kind : Kinds]] : \A i \in 1..k : s[i].n = received + i}
                 : k \in 0..MaxChunk}

-----------------------------------------------------------------------------
\* klippy:ready, klippy:shutdown: afterwards only the commands of
\* base_gcode_handlers.
_handle_ready == /\ ~ready /\ ~down /\ ready' = TRUE
                 /\ UNCHANGED <<buffers, pc, batch, held, aborted, down, history, others>>
Shutdown == down' = TRUE /\ ready' = FALSE

\* M112 is obeyed at once when it comes while other lines wait or run, unless
\* too many wait.
OutOfOrder(lines, all) ==
  /\ pc # "idle" \/ Len(all) > 1
  /\ Len(all) < Limit /\ \E i \in DOMAIN lines : lines[i].kind = "M112"

\* A read: the lines that are complete, and whether a part of one is left.
_process_data ==
  /\ fd /\ \E lines \in Chunks :
       /\ received + Len(lines) <= MaxLines /\ received' = received + Len(lines)
       /\ partial' \in BOOLEAN /\ (lines = <<>> => partial')
       /\ LET all == pending \o lines
          IN  /\ IF OutOfOrder(lines, all) THEN Shutdown ELSE UNCHANGED <<ready, down>>
              /\ IF pc # "idle"
                 THEN pending' = all /\ fd' = (Len(all) < Limit) /\ UNCHANGED <<pc, batch>>
                 ELSE /\ pending' = <<>> /\ batch' = all /\ pc' = IF all = <<>> THEN "idle" ELSE "lock"
                      /\ UNCHANGED fd
  /\ UNCHANGED <<held, aborted, history, others>>

\* The batch gets the mutex; local_epoch.
Locks == /\ pc = "lock" /\ ~held /\ pc' = "run" /\ aborted' = FALSE
         /\ UNCHANGED <<buffers, batch, held, ready, down, history, others>>

\* A line runs and is answered, an error included; when the printer is not
\* ready most lines are errors.
Answered == ran' = ran + 1 /\ acks' = acks + 1 /\ batch' = Tail(batch) /\ pc' = "run"
Runs ==
  /\ pc = "run" /\ batch # <<>> /\ ~aborted
  /\ IF Head(batch).kind = "slow" /\ ready THEN pc' = "slow" /\ UNCHANGED <<ran, acks, batch>> ELSE Answered
  /\ IF Head(batch).kind \in {"crash", "M112"} THEN Shutdown ELSE UNCHANGED <<ready, down>>
  /\ UNCHANGED <<buffers, held, aborted, lost, others>>

SlowEnds == pc = "slow" /\ Answered /\ UNCHANGED <<buffers, held, aborted, ready, down, lost, others>>

\* The end of the batch, or of what an abort leaves of it, and the next one.
\* Mutant: what has come in the meantime is forgotten.
NextBatchLater == <<>>
NextBatch == pending

BatchEnds ==
  /\ pc = "run" /\ (batch = <<>> \/ aborted)
  /\ lost' = lost + Len(batch) /\ batch' = NextBatch /\ pending' = <<>>
  /\ pc' = IF NextBatch = <<>> THEN "idle" ELSE "lock"
  /\ fd' = (fd \/ NextBatch = <<>>)
  /\ UNCHANGED <<received, partial, held, aborted, ready, down, ran, acks, others>>

\* Scripts of other greenlets, and abort_waits by CANCEL_PRINT and others.
RunScript == /\ pc \notin {"run", "slow"} /\ others < MaxOthers /\ ~held /\ held' = TRUE /\ others' = others + 1
             /\ UNCHANGED <<buffers, pc, batch, aborted, ready, down, history>>
ScriptEnds == held /\ held' = FALSE /\ UNCHANGED <<buffers, pc, batch, aborted, ready, down, history, others>>
abort_waits == /\ pc \in {"run", "slow"} /\ ~aborted /\ others < MaxOthers /\ aborted' = TRUE /\ others' = others + 1
               /\ UNCHANGED <<buffers, pc, batch, held, ready, down, history>>

Next == \/ _handle_ready \/ _process_data \/ Locks \/ Runs \/ SlowEnds \/ BatchEnds
        \/ RunScript \/ ScriptEnds \/ abort_waits

Spec == Init /\ [][Next]_vars
FairSpec == Spec /\ WF_vars(Locks) /\ WF_vars(Runs) /\ WF_vars(SlowEnds) /\ WF_vars(BatchEnds) /\ WF_vars(ScriptEnds)

-----------------------------------------------------------------------------
StateTypeOK ==
  /\ pc \in {"idle", "lock", "run", "slow"} /\ partial \in BOOLEAN /\ fd \in BOOLEAN /\ held \in BOOLEAN
  /\ aborted \in BOOLEAN /\ ready \in BOOLEAN /\ down \in BOOLEAN

Line == [n : Nat, kind : Kinds]
LinesTypeOK == batch \in Seq(Line) /\ pending \in Seq(Line)

CountTypeOK ==
  /\ received \in 0..MaxLines /\ ran \in Nat /\ acks \in Nat /\ lost \in Nat /\ others \in 0..MaxOthers
  /\ Len(pending) <= Limit + MaxChunk

TypeOK == StateTypeOK /\ LinesTypeOK /\ CountTypeOK

\* Every line that was read is run once and answered once, in its order, but
\* for those that an abort has dropped.
LinesInOrder ==
  LET rest == batch \o pending
  IN  /\ received = ran + lost + Len(rest) /\ acks = ran
      /\ \A i \in DOMAIN rest : rest[i].n = received - Len(rest) + i

\* The input is read again when nothing runs.
ReadsAgain == pc = "idle" => fd /\ pending = <<>>

\* Each line is answered, so that a sender that waits for it goes on.
EveryLineIsAnswered == lost = 0

\* A line that has been read is run or dropped.
LinesWait == pending # <<>> \/ batch # <<>>
LinesRun  == LinesWait ~> ~LinesWait

-----------------------------------------------------------------------------
\* Between batches there is no line to run, and one that is slow is the first.
BatchIsRight == (pc = "idle" => batch = <<>>) /\ (pc = "slow" => batch # <<>>)

\* What waits may only pass the limit with the lines of one read.
FdIsRight == fd => Len(pending) < Limit

IInv == TypeOK /\ LinesInOrder /\ ReadsAgain /\ BatchIsRight /\ FdIsRight

=============================================================================
