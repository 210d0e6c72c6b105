---------------------------- MODULE SerialWindow ----------------------------
(***************************************************************************)
(* The transport between host and micro-controller                         *)
(* (klippy/chelper/serialqueue.c): blocks of messages with sequence        *)
(* numbers of a few bits, a window of blocks in flight, acknowledgements   *)
(* that double as naks, retransmission of all that is not acknowledged, and *)
(* the notifications that tell a caller that its message has arrived.      *)
(*                                                                         *)
(* The host is the background thread of serialqueue.c; each of its         *)
(* callbacks runs under sq->lock and is one step.  When a message is due   *)
(* is left open; the order is that of the ready queue.  The                *)
(* micro-controller is modelled from how the host uses it, and the line    *)
(* loses and garbles blocks but keeps their order.                         *)
(***************************************************************************)
EXTENDS Integers, Sequences, SequencesExt

CONSTANTS
    SeqValues,       \* MESSAGE_SEQ_MASK + 1
    MaxPending,      \* MAX_PENDING_BLOCKS
    RxWindow,        \* blocks that fit into the receive buffer of the MCU
    BlockSize,       \* messages that fit into a block
    McuStarts,       \* numbers of the block that the MCU may expect at first
    NotifyMessages,  \* messages sent with a notify_id once the session has started
    MaxMessages,     \* bound on messages
    MaxFaults,       \* bound on lost or garbled blocks and unasked reports
    MaxWire          \* bound on blocks on the line in each direction

ASSUME SeqAssumption == SeqValues \in Nat \ {0} /\ MaxPending \in Nat /\ MaxPending < SeqValues
ASSUME McuAssumption == McuStarts \subseteq 1 .. SeqValues
\* The receive buffer holds a block that is worked on and one that comes in.
ASSUME SizeAssumption == RxWindow \in Nat \ {0, 1} /\ BlockSize \in Nat \ {0}
ASSUME BoundAssumption ==
    MaxMessages \in Nat /\ MaxFaults \in Nat /\ MaxWire \in Nat /\ NotifyMessages \subseteq Nat

VARIABLES
    \* struct serialqueue
    ready,               \* messages that wait to be sent
    send_seq, receive_seq,
    sent_queue,          \* blocks that are not acknowledged, each a sequence of messages
    last_ack_seq, ignore_nak_seq, retransmit_seq,
    retransmit_timer,    \* "never", "later", or "now" (SQPT_RETRANSMIT)
    notify_queue,        \* records of the message, its block and whether it was sent
                         \* before the ends agreed; the list is in the order of blocks
    receive_window, last_ack_bytes,  \* counted in blocks
    last_receive_sent,   \* the block last_receive_sent_time is about, or 0
    stamp,               \* the block that the sent_time of the latest response is
                         \* about, or 0
    \* the line, and the MCU
    to_mcu,              \* blocks, the head also while the MCU works on it
    to_host,             \* responses and acknowledgements
    mcu_next,            \* the number of the block the MCU expects; it knows the last bits
    mcu_state,           \* "idle", "run" or "replied"
    executed,            \* messages that the MCU has executed
    answered,            \* messages whose response has reached the host
    \* bookkeeping
    submitted, faults,
    resent               \* blocks that were sent more than once

hostVars == <<send_seq, receive_seq, sent_queue, last_ack_seq, ignore_nak_seq,
              retransmit_seq, retransmit_timer, notify_queue, last_ack_bytes,
              last_receive_sent, stamp, answered>>
mcuVars == <<mcu_next, mcu_state, executed>>

vars == <<ready, hostVars, receive_window, to_mcu, to_host, mcuVars, submitted, faults,
          resent>>

Init ==
    /\ ready = <<>>
    /\ send_seq = 1
    /\ receive_seq = 1
    /\ sent_queue = <<>>
    /\ last_ack_seq = 0
    /\ ignore_nak_seq = 0
    /\ retransmit_seq = 0
    /\ retransmit_timer = "never"
    /\ notify_queue = {}
    /\ receive_window = 0
    /\ last_ack_bytes = 0
    /\ last_receive_sent = 0
    /\ stamp = 0
    /\ to_mcu = <<>>
    /\ to_host = <<>>
    /\ mcu_next \in McuStarts
    /\ mcu_state = "idle"
    /\ executed = <<>>
    /\ answered = {}
    /\ submitted = 0
    /\ faults = 0
    /\ resent = {}
-----------------------------------------------------------------------------
(* The host.                                                               *)

\* Only seq is on the line; the number is bookkeeping.
Block(n, messages) == [seq |-> n % SeqValues, number |-> n, messages |-> messages]

Damaged(block) == [seq |-> SeqValues, number |-> block.number, messages |-> <<>>]

\* Connected: the first acknowledgement has come.
Connected == receive_seq # 1

\* No message waits for its notification.
Quiet == ready = <<>> /\ notify_queue = {}

\* serialqueue_send().  Until the session has started only _get_identify_data()
\* sends, one message at a time, and waits for its notification.
Submit ==
    /\ submitted < MaxMessages
    /\ receive_window = 0 => Quiet
    /\ submitted' = submitted + 1
    /\ ready' = Append(ready, submitted + 1)
    /\ UNCHANGED <<hostVars, receive_window, to_mcu, to_host, mcuVars, faults, resent>>

\* _start_session(): the identification is over; it had a response.
SetReceiveWindow ==
    /\ receive_window = 0
    /\ answered # {}
    /\ Quiet
    /\ receive_window' = RxWindow
    /\ UNCHANGED <<ready, hostVars, to_mcu, to_host, mcuVars, submitted, faults, resent>>

\* Mutant: one block too many.
MaySendOneMore == send_seq - receive_seq <= MaxPending

\* Mutant: the block that is acknowledged is taken to have left the buffer.
MaySendAtOnce ==
    /\ send_seq - receive_seq < MaxPending
    /\ send_seq > receive_seq /\ receive_window # 0 => Len(sent_queue) + 1 <= receive_window

\* check_send_command(): the window is open.  Until another acknowledgement has
\* come the block that a response acknowledged may still be in the buffer.
MaySend ==
    /\ send_seq - receive_seq < MaxPending
    /\ send_seq > receive_seq /\ receive_window # 0 =>
         Len(sent_queue) + 1 + (IF last_ack_seq < receive_seq THEN last_ack_bytes ELSE 0)
            <= receive_window

\* build_and_send_command(): one block.  A due retransmission comes first.
SendBlock ==
    /\ ready # <<>>
    /\ retransmit_timer # "now"
    /\ MaySend
    /\ Len(to_mcu) < MaxWire
    /\ LET size == IF Len(ready) < BlockSize THEN Len(ready) ELSE BlockSize
           messages == SubSeq(ready, 1, size)
           notify == {m \in ToSet(messages) : receive_window = 0 \/ m \in NotifyMessages}
       IN  /\ ready' = SubSeq(ready, size + 1, Len(ready))
           /\ sent_queue' = Append(sent_queue, messages)
           /\ to_mcu' = Append(to_mcu, Block(send_seq, messages))
           /\ notify_queue' = notify_queue \cup
                 {[message |-> m, block |-> send_seq, early |-> ~Connected] : m \in notify}
    /\ send_seq' = send_seq + 1
    /\ retransmit_timer' = IF sent_queue = <<>> THEN "later" ELSE retransmit_timer
    /\ UNCHANGED <<receive_seq, last_ack_seq, ignore_nak_seq, retransmit_seq, receive_window,
                   last_ack_bytes, last_receive_sent, stamp, answered, to_host, mcuVars, submitted,
                   faults, resent>>

\* What tcflush() leaves of the blocks on the line: those that have gone out,
\* and a part of one that is just going out.
Flushed ==
    LET sent == IF mcu_state = "idle" THEN 0 ELSE 1
    IN  {to_mcu} \cup
        {SubSeq(to_mcu, 1, k) : k \in sent .. Len(to_mcu) - 1} \cup
        {Append(SubSeq(to_mcu, 1, k), Damaged(to_mcu[k + 1])) : k \in sent .. Len(to_mcu) - 1}

\* retransmit_event(), due to a nak ("now") or a time-out ("later").
Retransmit ==
    /\ retransmit_timer # "never"
    /\ \E line \in Flushed :
         to_mcu' = line \o [i \in DOMAIN sent_queue |-> Block(receive_seq + (i - 1), sent_queue[i])]
    /\ Len(to_mcu') <= MaxWire
    /\ ignore_nak_seq' = IF retransmit_timer = "later" THEN send_seq
                         ELSE IF receive_seq < retransmit_seq THEN retransmit_seq
                         ELSE receive_seq
    /\ retransmit_seq' = send_seq
    /\ retransmit_timer' = "later"
    /\ resent' = resent \cup (receive_seq .. send_seq - 1)
    /\ UNCHANGED <<ready, send_seq, receive_seq, sent_queue, last_ack_seq, notify_queue,
                   receive_window, last_ack_bytes, last_receive_sent, stamp, answered, to_host, mcuVars,
                   submitted, faults>>

\* The full sequence number of an acknowledgement.
Decode(seq) == receive_seq + ((seq - receive_seq) % SeqValues)

\* Mutant: every acknowledgement starts a new connection.
UpdateReceiveSeqAnew(rseq) ==
    /\ receive_seq' = rseq
    /\ sent_queue' = <<>>
    /\ last_receive_sent' = 0
    /\ send_seq' = rseq
    /\ UNCHANGED last_ack_bytes

\* Mutant: the host keeps its own number at connection.
UpdateReceiveSeqOnly(rseq) ==
    /\ receive_seq' = rseq
    /\ sent_queue' = SubSeq(sent_queue, 1 + rseq - receive_seq, Len(sent_queue))
    /\ last_receive_sent' = rseq - 1
    /\ last_ack_bytes' = 1
    /\ UNCHANGED send_seq

\* update_receive_seq(): forget what is acknowledged.  If that is more than was
\* sent, the connection is new and the host takes over the number of the MCU.
UpdateReceiveSeq(rseq) ==
    /\ receive_seq' = rseq
    /\ IF rseq - receive_seq <= Len(sent_queue)
         THEN /\ sent_queue' = SubSeq(sent_queue, 1 + rseq - receive_seq, Len(sent_queue))
              /\ last_receive_sent' = rseq - 1
              /\ last_ack_bytes' = 1
              /\ UNCHANGED send_seq
         ELSE /\ sent_queue' = <<>>
              /\ last_receive_sent' = 0
              /\ send_seq' = rseq
              /\ UNCHANGED last_ack_bytes

\* Mutant: every nak is heeded.
IsNakAlways(rseq) == last_ack_seq >= rseq /\ sent_queue' # <<>>

\* A repeated acknowledgement asks for a retransmission, unless it can be the
\* answer to one that is under way.
IsNak(rseq) == last_ack_seq >= rseq /\ rseq > ignore_nak_seq /\ sent_queue' # <<>>

\* Mutant: any acknowledgement stops the timer.
NextTimerStops(reply) ==
    IF ~reply.data /\ IsNak(Decode(reply.seq)) THEN "now"
    ELSE IF Decode(reply.seq) = receive_seq THEN retransmit_timer
    ELSE "never"

NextTimer(reply) ==
    IF ~reply.data /\ IsNak(Decode(reply.seq)) THEN "now"
    ELSE IF Decode(reply.seq) = receive_seq THEN retransmit_timer
    ELSE IF sent_queue' = <<>> THEN "never"
    ELSE "later"

SentTimeAny(rseq) == last_receive_sent'  \* Mutant: also after a retransmission

\* The sent_time of a response, if it can be told.
SentTime(rseq) == IF rseq > retransmit_seq THEN last_receive_sent' ELSE 0

\* Mutant: a response counts as an acknowledgement.
WakeSeqOfAny(reply) == Decode(reply.seq) - 1

\* Mutant: the block that the MCU expects next is taken to have arrived.
WakeSeqNext(reply) == Decode(reply.seq) - (IF reply.data THEN 1 ELSE 0)

\* The messages up to this block may be taken as arrived.  A response comes before
\* the acknowledgement of the block it answers and must be delivered first.
WakeSeq(reply) == Decode(reply.seq) - (IF reply.data THEN 2 ELSE 1)

\* Mutant: only responses are looked at.
NotifyOnData(reply) ==
    notify_queue' = IF reply.data THEN {n \in notify_queue : n.block > WakeSeq(reply)} ELSE notify_queue

\* wake_seq is unsigned: below zero it lets everybody go.
Notify(reply) ==
    notify_queue' = {n \in notify_queue : WakeSeq(reply) \in 0 .. n.block - 1}

\* handle_message().
HandleMessage(reply) ==
    LET rseq == Decode(reply.seq)
    IN  IF rseq > send_seq /\ Connected
          THEN UNCHANGED hostVars
          ELSE /\ IF rseq # receive_seq
                    THEN UpdateReceiveSeq(rseq)
                    ELSE UNCHANGED <<receive_seq, sent_queue, last_receive_sent,
                                     last_ack_bytes, send_seq>>
               /\ retransmit_timer' = NextTimer(reply)
               /\ last_ack_seq' =
                    IF ~reply.data /\ last_ack_seq < rseq THEN rseq ELSE last_ack_seq
               /\ stamp' = IF reply.data THEN SentTime(rseq) ELSE stamp
               /\ Notify(reply)
               /\ answered' = answered \cup ({reply.answers} \ {0})
               /\ UNCHANGED <<ignore_nak_seq, retransmit_seq>>

HostReceives ==
    /\ to_host # <<>>
    /\ to_host' = Tail(to_host)
    /\ HandleMessage(Head(to_host))
    /\ UNCHANGED <<ready, receive_window, to_mcu, mcuVars, submitted, faults, resent>>
-----------------------------------------------------------------------------
(* The micro-controller.                                                   *)

Reply(data, answers) ==
    [seq |-> mcu_next % SeqValues, number |-> mcu_next, data |-> data, answers |-> answers]

\* The next block has come: it is executed while it is still in the buffer.
McuAccepts ==
    /\ mcu_state = "idle"
    /\ to_mcu # <<>>
    /\ Head(to_mcu).seq = mcu_next % SeqValues
    /\ mcu_next' = mcu_next + 1
    /\ executed' = executed \o Head(to_mcu).messages
    /\ mcu_state' = "run"
    /\ UNCHANGED <<ready, hostVars, receive_window, to_mcu, to_host, submitted, faults,
                   resent>>

\* A command may send a response.
McuReplies ==
    /\ mcu_state = "run"
    /\ Len(to_host) < MaxWire
    /\ \E m \in ToSet(Head(to_mcu).messages) : to_host' = Append(to_host, Reply(TRUE, m))
    /\ mcu_state' = "replied"
    /\ UNCHANGED <<ready, hostVars, receive_window, to_mcu, mcu_next, executed, submitted,
                   faults, resent>>

\* The block is acknowledged and leaves the buffer.
McuAcks ==
    /\ mcu_state # "idle"
    /\ Len(to_host) < MaxWire
    /\ to_host' = Append(to_host, Reply(FALSE, 0))
    /\ to_mcu' = Tail(to_mcu)
    /\ mcu_state' = "idle"
    /\ UNCHANGED <<ready, hostVars, receive_window, mcu_next, executed, submitted, faults,
                   resent>>

\* Any other block is dropped and the number that is expected is sent.
McuNaks ==
    /\ mcu_state = "idle"
    /\ to_mcu # <<>>
    /\ Head(to_mcu).seq # mcu_next % SeqValues
    /\ Len(to_host) < MaxWire
    /\ to_host' = Append(to_host, Reply(FALSE, 0))
    /\ to_mcu' = Tail(to_mcu)
    /\ UNCHANGED <<ready, hostVars, receive_window, mcuVars, submitted, faults, resent>>

\* A report that nobody asked for, as of a sensor.
McuReports ==
    /\ faults < MaxFaults
    /\ faults' = faults + 1
    /\ Len(to_host) < MaxWire
    /\ to_host' = Append(to_host, Reply(TRUE, 0))
    /\ UNCHANGED <<ready, hostVars, receive_window, to_mcu, mcuVars, submitted, resent>>
-----------------------------------------------------------------------------
(* The line.                                                               *)

\* A block to the MCU is lost or garbled, one to the host is lost (a garbled
\* one is dropped by msgblock_check()).
Fault ==
    /\ faults < MaxFaults
    /\ faults' = faults + 1
    /\ \/ /\ \E i \in (IF mcu_state = "idle" THEN 1 ELSE 2) .. Len(to_mcu) :
               to_mcu' \in {RemoveAt(to_mcu, i), [to_mcu EXCEPT ![i] = Damaged(@)]}
          /\ UNCHANGED to_host
       \/ /\ \E i \in DOMAIN to_host : to_host' = RemoveAt(to_host, i)
          /\ UNCHANGED to_mcu
    /\ UNCHANGED <<ready, hostVars, receive_window, mcuVars, submitted, resent>>

Mcu == McuAccepts \/ McuReplies \/ McuAcks \/ McuNaks

\* All is sent and acknowledged, or the identification waits for a notification
\* that will not come (a time-out in _start_session() ends it).
Rest ==
    /\ submitted = MaxMessages \/ (receive_window = 0 /\ ~Quiet)
    /\ ready = <<>> /\ sent_queue = <<>> /\ to_mcu = <<>> /\ to_host = <<>>
    /\ UNCHANGED vars

Next ==
    \/ Submit \/ SetReceiveWindow \/ SendBlock \/ Retransmit \/ HostReceives
    \/ Mcu \/ McuReports \/ Fault \/ Rest

\* A time-out while the answer to the last transmission is still to come.
Premature ==
    /\ retransmit_timer = "later"
    /\ to_mcu # <<>> \/ to_host # <<>>
    /\ Retransmit

\* The background thread runs whatever is due, and the MCU works on what it
\* gets.  The time-out doubles with each use, up to seconds (rto), so in the
\* end it leaves time for an answer.
Fairness ==
    /\ WF_vars(SendBlock) /\ WF_vars(Retransmit) /\ WF_vars(HostReceives) /\ WF_vars(Mcu)
    /\ <>[][~Premature]_vars

Spec == Init /\ [][Next]_vars /\ Fairness
-----------------------------------------------------------------------------
TypeOK ==
    /\ ready \in Seq(1 .. MaxMessages)
    /\ send_seq \in Nat \ {0} /\ receive_seq \in Nat \ {0}
    /\ sent_queue \in Seq(Seq(1 .. MaxMessages))
    /\ last_ack_seq \in Nat /\ ignore_nak_seq \in Nat /\ retransmit_seq \in Nat
    /\ retransmit_timer \in {"never", "later", "now"}
    /\ notify_queue \subseteq [message : 1 .. MaxMessages, block : Nat, early : BOOLEAN]
    /\ receive_window \in {0, RxWindow}
    /\ last_ack_bytes \in {0, 1}
    /\ last_receive_sent \in Nat /\ stamp \in Nat
    /\ to_mcu \in Seq([seq : 0 .. SeqValues, number : Nat \ {0}, messages : Seq(1 .. MaxMessages)])
    /\ to_host \in Seq([seq : 0 .. SeqValues - 1, number : Nat \ {0}, data : BOOLEAN,
                        answers : 0 .. MaxMessages])
    /\ mcu_next \in Nat \ {0}
    /\ mcu_state \in {"idle", "run", "replied"}
    /\ executed \in Seq(1 .. MaxMessages)
    /\ answered \subseteq 1 .. MaxMessages
    /\ submitted \in 0 .. MaxMessages
    /\ faults \in 0 .. MaxFaults
    /\ resent \in SUBSET Nat

\* The numbers and the list of blocks in flight agree, whichever way a
\* connection began.
WindowMatches ==
    /\ send_seq = receive_seq + Len(sent_queue)
    /\ Len(sent_queue) <= MaxPending

\* A block that is not acknowledged has a timer that will send it again; a lost
\* one would stall every later command.
UnackedHasTimer == sent_queue # <<>> <=> retransmit_timer # "never"

\* Once connected, no answer that is on its way can be taken for the
\* acknowledgement of a block that was not sent.
AnswersAreInWindow ==
    Connected => \A i \in DOMAIN to_host : Decode(to_host[i].seq) <= send_seq

\* The sent_time that clock synchronisation gets with a response is that of a
\* block that was sent once only, so the round trip it computes is a real one.
RoundTripIsTrue == stamp \notin resent

\* A notification is at most one block behind the acknowledgements: it may wait
\* for the acknowledgement of the next block when that of its own was lost.
NotifiedByNextBlock == \A n \in notify_queue : n.block >= receive_seq - 1

Increasing(s) == \A i, j \in DOMAIN s : i < j => s[i] < s[j]

\* However often a block is sent, its messages are executed once and in the
\* order in which they were sent.
ExecutedInOrder == Increasing(executed)

\* The window agrees with the blocks that wait, what is not acknowledged has a
\* timer, answers are decoded rightly, round trips are measured of blocks sent
\* once, a notification is at most a block late, and messages are executed once
\* and in order.
WindowIsRight ==
    /\ TypeOK /\ WindowMatches /\ UnackedHasTimer /\ AnswersAreInWindow
    /\ RoundTripIsTrue /\ NotifiedByNextBlock /\ ExecutedInOrder
-----------------------------------------------------------------------------
(* The inductive invariant.                                                *)

Running == mcu_state # "idle"

\* The two ends agree on the numbers.
Agreed == mcu_next <= send_seq

Below(S, T) == \A m \in S, n \in T : m < n

\* The messages of the k-th block in flight.
Sent(k) == ToSet(sent_queue[k])

\* Messages that have not been sent, and the next one to come.
Unsent == ToSet(ready) \cup {submitted + 1}

\* What last_receive_sent and stamp tell of, and what was sent again.
StampsArePast ==
    /\ last_receive_sent \in {0, receive_seq - 1}
    /\ stamp < receive_seq
    /\ stamp \notin resent
    /\ \A n \in resent : 0 < n /\ n < retransmit_seq
    /\ retransmit_seq <= send_seq

\* Where the MCU is.
McuIsNear ==
    /\ receive_seq <= mcu_next
    /\ mcu_next < receive_seq + SeqValues
    /\ Connected \/ executed # <<>> => Agreed
    /\ ~Agreed => ~Running
    /\ last_ack_seq <= receive_seq

\* The blocks on the line are numbered such that the MCU cannot take one for
\* another, and those that it has not had yet are the ones in flight.
LineIsNumbered ==
    /\ \A i \in DOMAIN to_mcu :
         LET block == to_mcu[i]
         IN  /\ block.number < send_seq
             /\ mcu_next < block.number + SeqValues
             /\ block.seq \in {block.number % SeqValues, SeqValues}
             /\ block.seq # SeqValues /\ block.number >= mcu_next =>
                  block.messages = sent_queue[1 + block.number - receive_seq]
    /\ \A i, j \in DOMAIN to_mcu :
         i < j => to_mcu[i].number + 1 < to_mcu[j].number + SeqValues

\* The block that the MCU works on is the last it has had.
HeadIsRunning ==
    Running => /\ to_mcu # <<>>
               /\ to_mcu[1].number = mcu_next - 1
               /\ ToSet(to_mcu[1].messages) \subseteq ToSet(executed)
               /\ \A i \in DOMAIN to_host : to_host[i].data \/ to_host[i].number < mcu_next
               /\ last_ack_seq < mcu_next

\* Replies tell where the MCU was, in order, and responses precede the
\* acknowledgement of their block.
RepliesAreInOrder ==
    /\ \A i \in DOMAIN to_host :
         LET reply == to_host[i]
         IN  /\ reply.seq = reply.number % SeqValues
             /\ receive_seq <= reply.number
             /\ reply.number <= mcu_next
             /\ Agreed \/ reply.number = mcu_next
             /\ reply.answers \in ToSet(executed) \cup {0}
             /\ reply.data \/ reply.answers = 0
    /\ \A i, j \in DOMAIN to_host :
         i < j => /\ to_host[i].number <= to_host[j].number
                  /\ to_host[i].data \/ to_host[j].answers = 0
                       \/ to_host[i].number < to_host[j].number

\* Messages wait, are in flight and have been executed in the order in which
\* they were sent.
MessagesAreInOrder ==
    /\ Increasing(ready)
    /\ \A m \in ToSet(ready) : m <= submitted
    /\ \A k \in DOMAIN sent_queue : Increasing(sent_queue[k]) /\ Below(Sent(k), Unsent)
    /\ \A k, l \in DOMAIN sent_queue : k < l => Below(Sent(k), Sent(l))
    /\ Increasing(executed)
    /\ Below(ToSet(executed), Unsent)
    /\ \A k \in DOMAIN sent_queue :
         receive_seq + k > mcu_next => Below(ToSet(executed), Sent(k))

\* Who waits for a notification waits for the block that carries the message.
NotificationsAreTrue ==
    \A n \in notify_queue :
      ~n.early =>
        /\ Connected
        /\ n.block < send_seq
        /\ n.block < mcu_next => n.message \in ToSet(executed)
        /\ n.block >= mcu_next => n.message \in Sent(1 + n.block - receive_seq)
        /\ \A i \in DOMAIN to_host : to_host[i].answers = n.message => n.block = to_host[i].number - 1
        /\ Running /\ n.message \in ToSet(to_mcu[1].messages) => n.block = mcu_next - 1

\* The session has had a response, and as long as nothing is sent twice the
\* blocks on the line are those that the MCU has not finished.
BufferIsCounted ==
    /\ answered \subseteq ToSet(executed)
    /\ receive_window # 0 => answered # {}
    /\ Running /\ receive_seq = mcu_next => last_ack_bytes = 1
    /\ resent = {} => \A i, j \in DOMAIN to_mcu : i < j => to_mcu[i].number + (j - i) <= to_mcu[j].number
    /\ resent = {} /\ executed # <<>> =>
         \A i \in DOMAIN to_mcu : to_mcu[i].number + (IF Running THEN 1 ELSE 0) >= mcu_next

IInv ==
    /\ TypeOK /\ WindowMatches /\ UnackedHasTimer /\ NotifiedByNextBlock
    /\ StampsArePast /\ McuIsNear /\ LineIsNumbered /\ HeadIsRunning /\ RepliesAreInOrder
    /\ MessagesAreInOrder /\ NotificationsAreTrue /\ BufferIsCounted
-----------------------------------------------------------------------------
(* What a step may not do.                                                 *)

\* The messages sent since the two ends agree whose callers are notified by a step.
Notified == {n.message : n \in {x \in notify_queue \ notify_queue' : ~x.early}}

\* A caller that is told that its message has arrived can rely on it.
NotifiedIsExecuted == [][Notified \subseteq ToSet(executed)]_vars

\* A response reaches its caller before the notification of its message does:
\* SerialRetryCommand looks for the response when the notification comes.
ResponseBeforeNotify ==
    [][\A m \in Notified : \A i \in DOMAIN to_host : to_host[i].answers # m]_vars

\* As long as nothing had to be sent twice, a block that is sent finds room in
\* the receive buffer of the MCU.
SentBlockFits ==
    [][SendBlock /\ receive_window # 0 /\ resent = {} => Len(to_mcu') <= RxWindow]_vars

\* The messages that the MCU has not had yet.
Undelivered ==
    ToSet(ready) \cup
        UNION {Sent(k) : k \in {l \in DOMAIN sent_queue : receive_seq + l > mcu_next}}

\* Once connected, no message is dropped: it waits until it is executed.
NothingVanishes ==
    [][Connected => Undelivered \subseteq Undelivered' \cup ToSet(executed')]_vars

\* What the transport promises to its callers.
PromisesAreKept ==
    NotifiedIsExecuted /\ ResponseBeforeNotify /\ SentBlockFits /\ NothingVanishes
-----------------------------------------------------------------------------
\* Every block is acknowledged, whatever is lost.
EverythingIsAcknowledged == []<>(sent_queue = <<>>)

\* The window protocol implements the reliable channel.
Channel ==
    INSTANCE ReliableChannel WITH
        Messages <- 1 .. MaxMessages,
        waiting <- FlattenSeq(SubSeq(sent_queue, 1 + mcu_next - receive_seq, Len(sent_queue)))
                     \o ready,
        connected <- Connected

ChannelSpec == Channel!Spec
=============================================================================
