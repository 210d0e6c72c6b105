--------------------------- MODULE ReliableChannel ---------------------------
(***************************************************************************)
(* What the serial transport promises to the code that sends commands to a *)
(* micro-controller: once the two ends agree on a sequence number, every   *)
(* message is executed, once, and in the order in which it was sent.       *)
(* Before that, messages may vanish (serialhdl.py asks again).             *)
(***************************************************************************)
EXTENDS Naturals, Sequences

CONSTANT Messages

VARIABLES
    waiting,    \* messages sent and not yet executed, in order
    executed,   \* messages executed, in order
    connected   \* the two ends agree

chanVars == <<waiting, executed, connected>>

Init ==
    /\ waiting = <<>>
    /\ executed = <<>>
    /\ connected = FALSE

Send(m) ==
    /\ waiting' = Append(waiting, m)
    /\ UNCHANGED <<executed, connected>>

Connect ==
    /\ ~connected
    /\ connected' = TRUE
    /\ UNCHANGED <<waiting, executed>>

\* The oldest messages are executed; a few may travel together.
Execute ==
    /\ \E n \in 1 .. Len(waiting) :
         /\ executed' = executed \o SubSeq(waiting, 1, n)
         /\ waiting' = SubSeq(waiting, n + 1, Len(waiting))
    /\ UNCHANGED connected

\* The oldest messages are lost.
Vanish ==
    /\ ~connected
    /\ \E n \in 1 .. Len(waiting) : waiting' = SubSeq(waiting, n + 1, Len(waiting))
    /\ UNCHANGED <<executed, connected>>

Next == (\E m \in Messages : Send(m)) \/ Connect \/ Execute \/ Vanish

Spec == Init /\ [][Next]_chanVars /\ WF_chanVars(Execute \/ Vanish)
=============================================================================
