------------------------------ MODULE FifoLock ------------------------------
(***************************************************************************)
(* What a user of a ReactorMutex may rely on: a lock whose waiters are     *)
(* served strictly in the order of their arrival.                          *)
(*                                                                         *)
(*   line    greenlets that asked for the lock and have not released it,   *)
(*           oldest first                                                  *)
(*   inside  the greenlet that is in the critical section, if any; it is   *)
(*           empty while the lock is being handed to the head of the line  *)
(*                                                                         *)
(* ReactorMutex implements this module, and PrintJob uses its actions for  *)
(* the G-code mutex.                                                       *)
(***************************************************************************)
EXTENDS Sequences, Functions

CONSTANT Greenlets

VARIABLES line, inside

lockVars == <<line, inside>>

\* ReactorMutex.test(): the lock is taken while anyone stands in line.
Locked == line # <<>>

Init == line = <<>> /\ inside = {}

\* A greenlet asks for the lock.  It goes straight in when nobody is in line,
\* and never overtakes a greenlet that came before it.
Arrive(g) ==
    /\ g \notin Range(line)
    /\ line' = Append(line, g)
    /\ inside' = IF line = <<>> THEN {g} ELSE inside

\* The head of the line goes in once its predecessor has left.
Grant(g) ==
    /\ inside = {}
    /\ line # <<>>
    /\ g = Head(line)
    /\ inside' = {g}
    /\ UNCHANGED line

\* The greenlet inside releases the lock.
Leave(g) ==
    /\ inside = {g}
    /\ inside' = {}
    /\ line' = Tail(line)

Next == \E g \in Greenlets : Arrive(g) \/ Grant(g) \/ Leave(g)

Spec == Init /\ [][Next]_lockVars /\ WF_lockVars(\E g \in Greenlets : Grant(g))
=============================================================================
