------------------------------ MODULE ApiServer ------------------------------
(***************************************************************************)
(* The API server (webhooks.py): connections with their send buffers,      *)
(* queries and subscriptions of the printer's objects, subscriptions of    *)
(* the G-code output and remote methods.                                   *)
(*                                                                         *)
(* An object's status is one item, a dictionary [keys -> values].  The     *)
(* clients keep a copy: an update replaces the item, or for the objects    *)
(* that are compared deeply the keys it names.  A message in a send buffer *)
(* is what its client knows once it has read it.                           *)
(***************************************************************************)
EXTENDS Naturals, Sequences, SequencesExt

CONSTANTS Clients,
          Plain, Deep,         \* objects; Deep: DEEP_COMPARISON_MODULES
          Keys, Values, None,
          Removes,             \* may a deep object lose a key
          MaxBlocked,          \* blocking_count of a client that does not read
          MaxChanges, MaxRequests \* bounds

Objects == Plain \cup Deep
Dicts(K) == UNION {[S -> Values] : S \in (SUBSET K) \ {{}}}

ApiServerAssumption ==
  /\ Plain \cap Deep = {} /\ Removes \in BOOLEAN /\ {MaxBlocked, MaxChanges, MaxRequests} \subseteq Nat
  /\ Keys # {} /\ Values # {} /\ None \notin Nat /\ \A S \in SUBSET Objects : None # S

VARIABLES
  status, last,     \* what get_status returns; last_query
  pending, waiting, \* pending_queries; completed ones whose greenlet has not run yet
  timer,            \* is query_timer registered
  subs, outs, rpc,  \* QueryStatusHelper.clients, GCodeHelper.clients, connections of a remote method
  open, buffer,     \* is the connection open; its send_buffer
  blocked,          \* blocking_count, or None: is_blocking is not set
  view,             \* what the client knows
  changes, requests

server == <<last, pending, waiting, timer, subs>>
conn   == <<open, buffer, blocked, view>>
vars   == <<status, server, outs, rpc, conn, changes, requests>>

Init ==
  /\ status = [o \in Objects |-> [k \in {CHOOSE x \in Keys : TRUE} |-> CHOOSE v \in Values : TRUE]] /\ last = <<>>
  /\ pending = <<>> /\ waiting = <<>> /\ timer = FALSE
  /\ subs = [c \in Clients |-> None] /\ outs = {} /\ rpc = {}
  /\ open = [c \in Clients |-> TRUE] /\ buffer = [c \in Clients |-> <<>>]
  /\ blocked = [c \in Clients |-> None] /\ view = [c \in Clients |-> <<>>]
  /\ changes = 0 /\ requests = 0

-----------------------------------------------------------------------------
\* f with the entries of g.
Over(g, f) == [x \in DOMAIN g \cup DOMAIN f |-> IF x \in DOMAIN g THEN g[x] ELSE f[x]]

\* What the client knows when it has read all that was sent.
Known(c) == IF buffer[c] = <<>> THEN view[c] ELSE Last(buffer[c])

\* What a client does with an update.
Applied(known, update) ==
  [o \in DOMAIN known |-> IF o \notin DOMAIN update THEN known[o]
                          ELSE IF o \in Deep THEN Over(update[o], known[o]) ELSE update[o]]

\* send(): an update for each of some clients is added to its buffer; a client that does not block is sent to.
Queued(C, update(_)) == [c \in Clients |-> IF c \in C THEN Append(buffer[c], Applied(Known(c), update(c))) ELSE buffer[c]]

\* _do_send: the socket takes a part of the buffer.
Sent(c, k) ==
  /\ view' = IF k = 0 THEN view ELSE [view EXCEPT ![c] = buffer[c][k]]
  /\ buffer' = [buffer EXCEPT ![c] = SubSeq(@, k + 1, Len(@))]
  /\ blocked' = [blocked EXCEPT ![c] = IF k = Len(buffer[c]) THEN None ELSE IF @ = None THEN MaxBlocked ELSE @]

_do_send(c) ==
  /\ open[c] /\ buffer[c] # <<>> /\ \E k \in 0..Len(buffer[c]) : (k = 0 => blocked[c] = None) /\ Sent(c, k)
  /\ UNCHANGED <<status, server, outs, rpc, open, changes, requests>>

\* The client is gone or has been blocking for too long; the tables of the
\* subscribers are cleaned later.
Closed(c) ==
  /\ open' = [open EXCEPT ![c] = FALSE] /\ buffer' = [buffer EXCEPT ![c] = <<>>]
  /\ blocked' = [blocked EXCEPT ![c] = None] /\ view' = [view EXCEPT ![c] = <<>>]
  /\ UNCHANGED <<status, server, outs, rpc, changes, requests>>

close(c) == open[c] /\ Closed(c)

stats(c) ==
  /\ open[c] /\ blocked[c] # None
  /\ IF blocked[c] = 0 THEN Closed(c)
     ELSE blocked' = [blocked EXCEPT ![c] = @ - 1] /\ UNCHANGED <<status, server, outs, rpc, open, buffer, view, changes, requests>>

-----------------------------------------------------------------------------
Request == requests < MaxRequests /\ requests' = requests + 1

\* objects/query and objects/subscribe: the greenlet waits for the next query,
\* and the old subscription ends now.
_handle_query(c, objects, subscribe) ==
  /\ Request /\ open[c]
  /\ subs' = IF subscribe THEN [subs EXCEPT ![c] = None] ELSE subs
  /\ pending' = Append(pending, [client |-> c, objects |-> objects, subscribe |-> subscribe])
  /\ timer' = TRUE
  /\ UNCHANGED <<status, last, waiting, outs, rpc, conn, changes>>

\* The entries of new that old lacks or has otherwise.
Diff(new, old) == [k \in {j \in DOMAIN new : j \in DOMAIN old => old[j] # new[j]} |-> new[k]]

\* What a subscriber is told of the status: the objects that have changed.
News(objects) ==
  LET changed == {o \in objects : o \in DOMAIN last => IF o \in Deep THEN DOMAIN Diff(status[o], last[o]) # {}
                                                                     ELSE last[o] # status[o]}
  IN  [o \in changed |-> IF o \in Deep /\ o \in DOMAIN last THEN Diff(status[o], last[o]) ELSE status[o]]

Subscribers == {c \in Clients : open[c] /\ subs[c] # None}

\* The objects that this query asks for.
Asked == UNION ({subs[c] : c \in Subscribers} \cup {pending[i].objects : i \in DOMAIN pending})

\* The greenlets of completed queries run before the timer fires again: their
\* timers come after query_timer in the same round of the reactor.
\* Mutant: the query does not wait for them.
AnswersLater == TRUE
AnswersFirst == waiting = <<>>

_do_query ==
  /\ timer /\ AnswersFirst /\ last' = [o \in Asked |-> status[o]]
  /\ waiting' = waiting \o [i \in DOMAIN pending |-> [request |-> pending[i], status |-> [o \in pending[i].objects |-> status[o]]]]
  /\ pending' = <<>> /\ timer' = (Asked # {})
  /\ subs' = [c \in Clients |-> IF open[c] THEN subs[c] ELSE None]
  /\ buffer' = Queued({c \in Subscribers : DOMAIN News(subs[c]) # {}}, LAMBDA c : News(subs[c]))
  /\ UNCHANGED <<status, outs, rpc, open, blocked, view, changes, requests>>

\* The rest of _handle_query, in the order of the requests.
Answer ==
  /\ waiting # <<>> /\ waiting' = Tail(waiting)
  /\ LET r == Head(waiting).request
     IN  /\ subs' = IF r.subscribe THEN [subs EXCEPT ![r.client] = r.objects] ELSE subs
         /\ buffer' = IF open[r.client] /\ r.subscribe
                      THEN [buffer EXCEPT ![r.client] = Append(@, Head(waiting).status)]
                      ELSE buffer
  /\ UNCHANGED <<status, last, pending, timer, outs, rpc, open, blocked, view, changes, requests>>

\* gcode/subscribe_output and register_remote_method.
_handle_subscribe_output(c) ==
  /\ Request /\ open[c] /\ c \notin outs /\ outs' = outs \cup {c} /\ UNCHANGED <<status, server, rpc, conn, changes>>
_handle_rpc_registration(c) ==
  /\ Request /\ open[c] /\ c \notin rpc /\ rpc' = rpc \cup {c} /\ UNCHANGED <<status, server, outs, conn, changes>>

\* A line of output, a call of the method: closed connections are dropped, and
\* a method without a connection is an error for its caller.
Alive(C) == {c \in C : open[c]}
_output_callback ==
  /\ Request /\ outs # {} /\ outs' = Alive(outs)
  /\ buffer' = Queued(Alive(outs), LAMBDA c : <<>>)
  /\ UNCHANGED <<status, server, rpc, open, blocked, view, changes>>
call_remote_method ==
  /\ Request /\ rpc # {} /\ rpc' = Alive(rpc)
  /\ buffer' = Queued(Alive(rpc), LAMBDA c : <<>>)
  /\ UNCHANGED <<status, server, outs, open, blocked, view, changes>>

Changes(o) ==
  /\ changes < MaxChanges /\ changes' = changes + 1
  /\ \E d \in Dicts(IF o \in Deep THEN Keys ELSE DOMAIN status[o]) \ {status[o]} :
       (o \in Deep /\ ~Removes => DOMAIN status[o] \subseteq DOMAIN d) /\ status' = [status EXCEPT ![o] = d]
  /\ UNCHANGED <<server, outs, rpc, conn, requests>>

Next ==
  \/ _do_query \/ Answer \/ _output_callback \/ call_remote_method \/ \E o \in Objects : Changes(o)
  \/ \E c \in Clients :
       \/ _do_send(c) \/ close(c) \/ stats(c) \/ _handle_subscribe_output(c) \/ _handle_rpc_registration(c)
       \/ \E O \in SUBSET Objects, b \in BOOLEAN : _handle_query(c, O, b)

Spec == Init /\ [][Next]_vars

-----------------------------------------------------------------------------
TypeOK ==
  /\ status \in [Objects -> Dicts(Keys)] /\ timer \in BOOLEAN /\ open \in [Clients -> BOOLEAN]
  /\ DOMAIN last \subseteq Objects /\ {outs, rpc} \subseteq SUBSET Clients /\ subs \in [Clients -> (SUBSET Objects) \cup {None}]
  /\ \A c \in Clients : ~open[c] => buffer[c] = <<>> /\ blocked[c] = None

\* A subscriber that has read all it was sent knows the status of the last query.
ViewIsCurrent ==
  \A c \in Subscribers :
    \A o \in subs[c] : o \in DOMAIN Known(c) /\ o \in DOMAIN last /\ Known(c)[o] = last[o]

\* A client with a subscription is served again.
SubscribersAreServed == (\E c \in Subscribers : subs[c] # {}) => timer

-----------------------------------------------------------------------------
(* What the queues hold, and how an answer that waits agrees with the last *)
(* query.                                                                  *)
Views == UNION {[S -> Dicts(Keys)] : S \in SUBSET Objects}
Requests == [client : Clients, objects : SUBSET Objects, subscribe : BOOLEAN]

QueuesTypeOK ==
  /\ last \in Views /\ pending \in Seq(Requests) /\ waiting \in Seq([request : Requests, status : Views])
  /\ buffer \in [Clients -> Seq(Views)] /\ view \in [Clients -> Views] /\ blocked \in [Clients -> Nat \cup {None}]

\* An answer whose greenlet has not run yet tells what the last query found, and the next query will come.
AnswersAreOfLast ==
  \A i \in DOMAIN waiting :
    LET objects == waiting[i].request.objects
    IN  /\ DOMAIN waiting[i].status = objects /\ (objects # {} => timer)
        /\ \A o \in objects : o \in DOMAIN last /\ waiting[i].status[o] = last[o]

\* An object that loses no key has those that it had at the last query.
LastIsPart == \A o \in Deep \cap DOMAIN last : ~Removes => DOMAIN last[o] \subseteq DOMAIN status[o]

IInv == TypeOK /\ QueuesTypeOK /\ AnswersAreOfLast /\ LastIsPart /\ ViewIsCurrent /\ SubscribersAreServed
=============================================================================
