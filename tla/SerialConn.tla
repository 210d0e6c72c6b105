------------------------------ MODULE SerialConn ------------------------------
(***************************************************************************)
(* Queries to a micro-controller and the synchronisation with its clock    *)
(* (serialhdl.py, clocksync.py): greenlets send commands and wait until    *)
(* they are acknowledged, a background thread hands answers to handlers    *)
(* that are found by the name of the answer and its oid.                   *)
(*                                                                         *)
(* Commands arrive in order and once (SerialWindow); an answer may be lost.*)
(* Greenlets 1..MaxSessions read the data dictionary, one for each session *)
(* that is tried; the clients query a connected micro-controller.          *)
(***************************************************************************)
EXTENDS Integers, Sequences, FiniteSets

CONSTANTS Clients,       \* numbers above MaxSessions
          Key,           \* the answer's name and oid each client waits for
          Chunks,        \* of the data dictionary
          Retries, MaxSessions, MaxLost, MaxQueries, MaxTicks,
          Wrap,          \* 2^32, in ticks; a tick is the period of get_clock
          TIMEOUT_ACTIVE

SerialConnAssumption ==
  /\ {Chunks, Retries, MaxSessions, MaxLost, MaxQueries, MaxTicks, Wrap, TIMEOUT_ACTIVE} \subseteq Nat
  /\ \A c \in Clients : c \in Nat /\ c > MaxSessions /\ Key[c] \in Nat /\ Key[c] > 0
  /\ Wrap > 0

\* The clock does not turn half over before a connection without answers counts
\* as lost: with TIMEOUT_ACTIVE = 40, one of less than 53 MHz.
ClockTurnsLate == 2 * (TIMEOUT_ACTIVE + 1) <= Wrap

\* No two clients wait for an answer of the same name and oid.
KeysDiffer == \A c, d \in Clients : Key[c] = Key[d] => c = d

VARIABLES
  g,        \* greenlets: [pc, tries, got, data]; data: chunks read, or queries made
  handlers, \* name and oid to the greenlet whose handle_callback is registered, or 0
  pending,  \* pending_notifications: who waits for one
  wire,     \* commands on their way: [from, arg]
  back,     \* answers and acknowledgements on their way
  session, open, connected,
  lost,
  clock,    \* of the micro-controller
  last_clock, queries_pending,
  sampled   \* the clock when the last answer to get_clock was given

vars == <<g, handlers, pending, wire, back, session, open, connected, lost, clock, last_clock, queries_pending, sampled>>
clocks == <<clock, last_clock, queries_pending, sampled>>

Greenlets == 1..MaxSessions \cup Clients
KeyOf(c) == IF c \in Clients THEN Key[c] ELSE 0
None == -1

Init ==
  /\ g = [c \in Greenlets |-> [pc |-> "off", tries |-> 0, got |-> None, data |-> 0]]
  /\ handlers = [k \in {KeyOf(c) : c \in Greenlets} |-> 0]
  /\ pending = {} /\ wire = <<>> /\ back = <<>> /\ session = 0 /\ open = FALSE /\ connected = FALSE /\ lost = 0
  /\ clock = 0 /\ last_clock = 0 /\ queries_pending = 0 /\ sampled = 0

\* What a command asks for: a chunk, or a query of a client.
Arg(c, x) == IF c \in Clients THEN 10 * c + x.data ELSE x.data

-----------------------------------------------------------------------------
(* SerialRetryCommand.                                                     *)
Begun(x) == [x EXCEPT !.pc = "send", !.tries = Retries, !.got = None]

Register(c) == handlers' = [handlers EXCEPT ![KeyOf(c)] = c]

\* register_response(None, ...) is an error if there is no handler.
Registered(c) == handlers[KeyOf(c)] # 0
Unregistered(c) == [handlers EXCEPT ![KeyOf(c)] = 0]

raw_send_wait_ack(c) ==
  /\ g[c].pc \in {"send", "pause"}
  /\ IF open THEN /\ wire' = Append(wire, [from |-> c, arg |-> Arg(c, g[c])]) /\ pending' = pending \cup {c}
                  /\ g' = [g EXCEPT ![c].pc = "wait"]
     ELSE g' = [g EXCEPT ![c].pc = "stray"] /\ UNCHANGED <<wire, pending>>
  /\ UNCHANGED <<handlers, back, session, open, connected, lost, clocks>>

McuAnswers(answered) ==
  /\ wire # <<>> /\ wire' = Tail(wire) /\ (~answered => lost < MaxLost)
  /\ LET ack == [ack |-> TRUE, from |-> wire[1].from, arg |-> 0]
         answer == [ack |-> FALSE, from |-> KeyOf(wire[1].from), arg |-> wire[1].arg]
     IN  back' = back \o IF answered THEN <<answer, ack>> ELSE <<ack>>
  /\ lost' = lost + (IF answered THEN 0 ELSE 1)
  /\ UNCHANGED <<g, handlers, pending, session, open, connected, clocks>>

_bg_thread ==
  /\ back # <<>> /\ back' = Tail(back)
  /\ LET r == back[1] h == handlers[r.from]
     IN  IF r.ack THEN pending' = pending \ {r.from} /\ g' = [g EXCEPT ![r.from].pc = "acked"]
         ELSE g' = (IF h = 0 THEN g ELSE [g EXCEPT ![h].got = r.arg]) /\ pending' = pending
  /\ UNCHANGED <<handlers, wire, session, open, connected, lost, clocks>>

\* _get_identify_data goes on with the next chunk until one is empty.
Answered(c, x) ==
  CASE c \in Clients -> [x EXCEPT !.pc = "done"]
    [] c \notin Clients /\ x.got = x.data /\ x.data = Chunks -> [x EXCEPT !.pc = "done"]
    [] OTHER -> Begun([x EXCEPT !.data = IF x.got = x.data THEN @ + 1 ELSE @])

get_response(c) ==
  /\ g[c].pc = "acked"
  /\ \/ /\ g[c].got # None /\ Registered(c)
        /\ g' = [g EXCEPT ![c] = Answered(c, @)]
        /\ handlers' = IF g'[c].pc = "done" THEN Unregistered(c) ELSE [handlers EXCEPT ![KeyOf(c)] = c]
     \/ /\ g[c].got = None /\ g[c].tries > 0
        /\ g' = [g EXCEPT ![c].pc = "pause", ![c].tries = @ - 1] /\ UNCHANGED handlers
     \/ /\ g[c].got = None /\ g[c].tries = 0 /\ Registered(c)
        /\ g' = [g EXCEPT ![c].pc = "failed"] /\ handlers' = Unregistered(c)
     \/ /\ g[c].got # None \/ g[c].tries = 0
        /\ ~Registered(c) /\ g' = [g EXCEPT ![c].pc = "stray"] /\ UNCHANGED handlers
  /\ UNCHANGED <<pending, wire, back, session, open, connected, lost, clocks>>

-----------------------------------------------------------------------------
(* Sessions.                                                               *)
_start_session ==
  /\ ~open /\ ~connected /\ session < MaxSessions
  /\ session' = session + 1 /\ open' = TRUE /\ g' = [g EXCEPT ![session'] = Begun(@)] /\ Register(session')
  /\ UNCHANGED <<pending, wire, back, connected, lost, clocks>>

identified ==
  /\ open /\ ~connected /\ g[session].pc = "done" /\ connected' = TRUE
  /\ UNCHANGED <<g, handlers, pending, wire, back, session, open, lost, clocks>>

\* Mutant: a greenlet that waits for a notification is not told.
ClosedQuietly(x) == x

\* pn.complete(None): the greenlet raises an error.
Closed(x) == [x EXCEPT !.pc = "failed"]

\* The session's greenlet failed, or did not end in 5 seconds.  One that is
\* about to send does so at once.
disconnect ==
  /\ \A c \in Greenlets : g[c].pc # "send"
  /\ open /\ ~connected /\ g[session].pc # "done"
  /\ g' = [c \in Greenlets |-> IF c \in pending THEN Closed(g[c]) ELSE g[c]]
  /\ pending' = {} /\ wire' = <<>> /\ back' = <<>> /\ open' = FALSE
  /\ UNCHANGED <<handlers, session, connected, lost, clocks>>

query(c) ==
  /\ connected /\ g[c].pc \in {"off", "done", "failed"} /\ g[c].data < MaxQueries
  /\ LET x == [g[c] EXCEPT !.data = @ + 1] IN g' = [g EXCEPT ![c] = Begun(x)]
  /\ Register(c)
  /\ UNCHANGED <<pending, wire, back, session, open, connected, lost, clocks>>

-----------------------------------------------------------------------------
(* The clock.                                                              *)
is_active == queries_pending <= TIMEOUT_ACTIVE

Extended(clock32) == last_clock + ((clock32 - last_clock) % Wrap)

\* A query of the clock is sent every tick; it is answered at once, or not.
_get_clock_event(answered) ==
  /\ connected /\ is_active /\ clock < MaxTicks /\ clock' = clock + 1
  /\ IF answered THEN queries_pending' = 0 /\ sampled' = clock' /\ last_clock' = Extended(clock' % Wrap)
     ELSE queries_pending' = queries_pending + 1 /\ UNCHANGED <<sampled, last_clock>>
  /\ UNCHANGED <<g, handlers, pending, wire, back, session, open, connected, lost>>

clock32_to_clock64(clock32) ==
  LET diff == (clock32 - last_clock) % Wrap
  IN  last_clock + (IF diff >= Wrap \div 2 THEN diff - Wrap ELSE diff)

Next ==
  \/ \E c \in Greenlets : raw_send_wait_ack(c) \/ get_response(c)
  \/ \E answered \in BOOLEAN : McuAnswers(answered) \/ _get_clock_event(answered)
  \/ _bg_thread \/ _start_session \/ identified \/ disconnect
  \/ \E c \in Clients : query(c)

Spec == Init /\ [][Next]_vars

-----------------------------------------------------------------------------
(* Properties                                                              *)
Places == {"off", "send", "wait", "acked", "pause", "done", "failed", "stray"}

GreenletsTypeOK ==
  /\ g \in [Greenlets -> [pc : Places, tries : 0..Retries, got : Nat \cup {None}, data : Nat]]
  /\ handlers \in [{KeyOf(c) : c \in Greenlets} -> Greenlets \cup {0}]

LineTypeOK ==
  /\ pending \subseteq Greenlets /\ lost \in 0..MaxLost
  /\ wire \in Seq([from : Greenlets, arg : Nat])
  /\ back \in Seq([ack : BOOLEAN, from : Nat, arg : Nat])
  /\ \A i \in DOMAIN back : back[i].from \in IF back[i].ack THEN Greenlets ELSE DOMAIN handlers

SessionTypeOK ==
  /\ session \in 0..MaxSessions /\ open \in BOOLEAN /\ connected \in BOOLEAN
  /\ clock \in 0..MaxTicks /\ {last_clock, queries_pending, sampled} \subseteq Nat

\* The shape of the state.
TypeOK == GreenletsTypeOK /\ LineTypeOK /\ SessionTypeOK

\* A greenlet that waits for a notification will get it: its command or the
\* acknowledgement is on its way.
NobodyWaitsInVain ==
  \A c \in Greenlets : g[c].pc = "wait" =>
    /\ c \in pending
    /\ \/ \E i \in DOMAIN wire : wire[i].from = c
       \/ \E i \in DOMAIN back : back[i].ack /\ back[i].from = c

\* What a query returns answers a command of this very query.
AnswersAreOwn == \A c \in Clients : g[c].pc = "done" => g[c].got = Arg(c, g[c])

\* The data dictionary of a connected micro-controller is whole.
DictionaryIsWhole == connected => g[session].data = Chunks

\* No query of a client ends in an error that is none of serialhdl's own.
NoStrayError == \A c \in Clients : g[c].pc # "stray"

\* Nor does one that reads the data dictionary.
NoStraySession == \A s \in 1..MaxSessions : g[s].pc # "stray"

\* The clocks of the host are those of the micro-controller, also for an event
\* of the last tick that is reported with 32 bits.
ClockIsExtended ==
  /\ last_clock = sampled
  /\ is_active => \A c \in {clock, clock - 1} : c >= 0 => clock32_to_clock64(c % Wrap) = c

-----------------------------------------------------------------------------
(* The invariants that a step keeps.                                       *)

\* Who is notified waits, and what is on the line is of greenlets that wait:
\* of each one thing, his command as he sent it or its acknowledgement.
LineIsOfWaiters ==
  /\ \A c \in Greenlets : c \in pending <=> g[c].pc = "wait"
  /\ \A i \in DOMAIN wire : /\ g[wire[i].from].pc = "wait"
                            /\ wire[i].arg = Arg(wire[i].from, g[wire[i].from])
                            /\ \A j \in DOMAIN wire : wire[i].from = wire[j].from => i = j
  /\ \A i \in DOMAIN back : back[i].ack =>
       /\ g[back[i].from].pc = "wait"
       /\ \A j \in DOMAIN back : back[j].ack /\ back[i].from = back[j].from => i = j
       /\ \A j \in DOMAIN wire : wire[j].from # back[i].from

\* Sessions begin one after the other, clients query when one is identified,
\* and who has read the dictionary has it all.
SessionsAreRight ==
  /\ open => session > 0
  /\ connected => open /\ g[session].pc = "done"
  /\ ~connected => \A c \in Clients : g[c].pc = "off"
  /\ \A s \in 1..MaxSessions : s > session => g[s].pc = "off"
  /\ \A s \in 1..MaxSessions : g[s].pc = "done" => g[s].data = Chunks

IInv == TypeOK /\ NobodyWaitsInVain /\ LineIsOfWaiters /\ SessionsAreRight

\* Where the clock turns late: the ticks without an answer are counted.
ClockIsCounted ==
  /\ last_clock = sampled /\ queries_pending = clock - last_clock
  /\ queries_pending <= TIMEOUT_ACTIVE + 1

\* Where keys differ: only the client is a handler of his answer,
HandlersAreOwn ==
  /\ \A c \in Clients :
       /\ handlers[Key[c]] \in {0, c}
       /\ g[c].pc \in {"send", "wait", "acked", "pause"} => handlers[Key[c]] = c
       /\ g[c].pc # "stray"
  /\ \A s \in 1..MaxSessions : handlers[0] \notin Clients

\* and answers are to his command, and come before its acknowledgement.
AnswersAreFresh ==
  \A c \in Clients :
    /\ g[c].got \in {None, Arg(c, g[c])} /\ (g[c].pc = "done" => g[c].got # None)
    /\ \A i \in DOMAIN back : ~back[i].ack /\ back[i].from = Key[c] =>
         /\ back[i].arg = Arg(c, g[c])
         /\ \E j \in DOMAIN back : i < j /\ back[j].ack /\ back[j].from = c

OwnInv == HandlersAreOwn /\ AnswersAreFresh
=============================================================================
