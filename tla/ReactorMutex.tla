---------------------------- MODULE ReactorMutex ----------------------------
(***************************************************************************)
(* The reactor's mutex (klippy/reactor.py, class ReactorMutex).            *)
(*                                                                         *)
(* Greenlets are switched only inside reactor.pause(), so the code of      *)
(* __enter__ up to the pause, of one turn of its loop, and of __exit__     *)
(* each run as one step.  A waiting greenlet sleeps with its timer at      *)
(* NEVER; __exit__ moves the timer of the oldest waiter to NOW and the     *)
(* reactor switches to that greenlet some time later.  Between the two     *)
(* steps the lock has no holder but is_locked stays True: a greenlet that  *)
(* arrives in that window must queue.                                      *)
(*                                                                         *)
(*   is_locked, next_pending, queue   the attributes of the mutex          *)
(*   pc[g]    "out", "waiting" (in the pause of __enter__) or "holding"    *)
(*   due[g]   the timer of the paused greenlet g is at NOW, not at NEVER   *)
(***************************************************************************)
EXTENDS Sequences, Functions

CONSTANT Greenlets

VARIABLES is_locked, next_pending, queue, pc, due

vars == <<is_locked, next_pending, queue, pc, due>>

Init ==
    /\ is_locked = FALSE
    /\ next_pending = FALSE
    /\ queue = <<>>
    /\ pc = [g \in Greenlets |-> "out"]
    /\ due = [g \in Greenlets |-> FALSE]

\* Mutant: the lock remembers its holder instead of a flag.
EnterFreeStoresHolder(g) ==
    /\ pc[g] = "out"
    /\ ~is_locked
    /\ is_locked' = g
    /\ pc' = [pc EXCEPT ![g] = "holding"]
    /\ UNCHANGED <<next_pending, queue, due>>

\* __enter__ of a free mutex.
EnterFree(g) ==
    /\ pc[g] = "out"
    /\ ~is_locked
    /\ is_locked' = TRUE
    /\ pc' = [pc EXCEPT ![g] = "holding"]
    /\ UNCHANGED <<next_pending, queue, due>>

\* Mutant: the newest waiter is put at the front of the queue.
EnterTakenAtFront(g) ==
    /\ pc[g] = "out"
    /\ is_locked
    /\ queue' = <<g>> \o queue
    /\ pc' = [pc EXCEPT ![g] = "waiting"]
    /\ due' = [due EXCEPT ![g] = FALSE]
    /\ UNCHANGED <<is_locked, next_pending>>

\* __enter__ of a taken mutex: queue up and pause(NEVER).
EnterTaken(g) ==
    /\ pc[g] = "out"
    /\ is_locked
    /\ queue' = Append(queue, g)
    /\ pc' = [pc EXCEPT ![g] = "waiting"]
    /\ due' = [due EXCEPT ![g] = FALSE]
    /\ UNCHANGED <<is_locked, next_pending>>

\* The reactor runs the timer of a paused greenlet: it takes the lock if that
\* was passed to it and otherwise goes back to sleep.
MayTakeLast(g) == next_pending /\ queue[Len(queue)] = g  \* Mutant: queue[-1]

MayTake(g) == next_pending /\ Head(queue) = g

Wake(g) ==
    /\ pc[g] = "waiting"
    /\ due[g]
    /\ due' = [due EXCEPT ![g] = FALSE]
    /\ IF MayTake(g)
         THEN /\ next_pending' = FALSE
              /\ queue' = Tail(queue)
              /\ pc' = [pc EXCEPT ![g] = "holding"]
         ELSE UNCHANGED <<next_pending, queue, pc>>
    /\ UNCHANGED is_locked

\* Mutant: the lock stays marked as taken.
ExitIdleKeepsLock(g) ==
    /\ pc[g] = "holding"
    /\ queue = <<>>
    /\ pc' = [pc EXCEPT ![g] = "out"]
    /\ UNCHANGED <<is_locked, next_pending, queue, due>>

\* __exit__ with nobody queued.
ExitIdle(g) ==
    /\ pc[g] = "holding"
    /\ queue = <<>>
    /\ is_locked' = FALSE
    /\ pc' = [pc EXCEPT ![g] = "out"]
    /\ UNCHANGED <<next_pending, queue, due>>

\* Mutants: the lock is marked free during the hand-off; the timer of the next
\* owner is not moved; the timer of the newest waiter is moved instead.
ExitHandOffUnlocks(g) ==
    /\ pc[g] = "holding"
    /\ queue # <<>>
    /\ is_locked' = FALSE
    /\ next_pending' = TRUE
    /\ due' = [due EXCEPT ![Head(queue)] = TRUE]
    /\ pc' = [pc EXCEPT ![g] = "out"]
    /\ UNCHANGED queue

ExitHandOffNoTimer(g) ==
    /\ pc[g] = "holding"
    /\ queue # <<>>
    /\ next_pending' = TRUE
    /\ pc' = [pc EXCEPT ![g] = "out"]
    /\ UNCHANGED <<is_locked, queue, due>>

ExitHandOffNewest(g) ==
    /\ pc[g] = "holding"
    /\ queue # <<>>
    /\ next_pending' = TRUE
    /\ due' = [due EXCEPT ![queue[Len(queue)]] = TRUE]
    /\ pc' = [pc EXCEPT ![g] = "out"]
    /\ UNCHANGED <<is_locked, queue>>

\* __exit__ with waiters: the lock is passed to the oldest one.
ExitHandOff(g) ==
    /\ pc[g] = "holding"
    /\ queue # <<>>
    /\ next_pending' = TRUE
    /\ due' = [due EXCEPT ![Head(queue)] = TRUE]
    /\ pc' = [pc EXCEPT ![g] = "out"]
    /\ UNCHANGED <<is_locked, queue>>

Next ==
    \E g \in Greenlets :
        \/ EnterFree(g)
        \/ EnterTaken(g)
        \/ Wake(g)
        \/ ExitIdle(g)
        \/ ExitHandOff(g)

\* The reactor runs every timer that is due, and the critical sections of this
\* program end (a `with mutex` block always reaches __exit__).
Fairness ==
    \A g \in Greenlets : WF_vars(Wake(g)) /\ WF_vars(ExitIdle(g) \/ ExitHandOff(g))

Spec == Init /\ [][Next]_vars /\ Fairness
-----------------------------------------------------------------------------
Holders == {g \in Greenlets : pc[g] = "holding"}

TypeOK ==
    /\ is_locked \in BOOLEAN
    /\ next_pending \in BOOLEAN
    /\ queue \in Seq(Greenlets)
    /\ pc \in [Greenlets -> {"out", "waiting", "holding"}]
    /\ due \in [Greenlets -> BOOLEAN]

\* Two greenlets are never in the critical section together, not even when one
\* arrives between the release and the wake-up of the next waiter.
MutualExclusion == \A g, h \in Greenlets : g \in Holders /\ h \in Holders => g = h

\* A lock that was passed on is not lost: it has no holder, its next owner is
\* the oldest waiter, and that waiter's timer is due.
HandOffReachesHead ==
    next_pending =>
        /\ is_locked
        /\ Holders = {}
        /\ queue # <<>>
        /\ due[Head(queue)]

\* A taken lock can still be released, for somebody holds it or is about to,
\* and nobody sleeps in the queue of a lock that no one will release.
LockedHasOwner ==
    /\ is_locked <=> Holders # {} \/ next_pending
    /\ queue # <<>> => is_locked

\* The queue holds the paused greenlets, each once.
QueueIsWaiters ==
    /\ \A g \in Greenlets : pc[g] = "waiting" <=> g \in Range(queue)
    /\ IsInjective(queue)

\* The invariant the proofs are built on.
IInv ==
    /\ TypeOK
    /\ MutualExclusion
    /\ HandOffReachesHead
    /\ LockedHasOwner
    /\ QueueIsWaiters

\* A greenlet that waits for the mutex gets it, whoever arrives meanwhile.
WaitersServed ==
    \A g \in Greenlets : pc[g] = "waiting" ~> pc[g] = "holding"
-----------------------------------------------------------------------------
\* The mutex is a FIFO lock: the line is the holder followed by the queue.
HolderSeq == IF Holders = {} THEN <<>> ELSE <<CHOOSE g \in Greenlets : pc[g] = "holding">>

Fifo == INSTANCE FifoLock WITH line <- HolderSeq \o queue, inside <- Holders

FifoSpec == Fifo!Spec
=============================================================================
