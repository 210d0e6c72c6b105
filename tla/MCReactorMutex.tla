----------------------------- MODULE MCReactorMutex -------------------------
(***************************************************************************)
(* The reactor, its mutex and the G-code input that runs under it, each on *)
(* its own. The mutex has four interchangeable greenlets.                  *)
(*                                                                         *)
(* With the proofs about ReactorMutex, for any set of greenlets: the       *)
(* inductive invariant IInv, the safety properties it implies, and the     *)
(* refinement of FifoLock (its safety part; the liveness part is           *)
(* model-checked). At the end, what holds of the three parts together.     *)
(***************************************************************************)
EXTENDS ReactorMutex, Parts, SequenceTheorems, TLAPS

CONSTANTS u1, u2   \* timers of the program

RE == INSTANCE ReactorProofs WITH
  User <- {u1, u2}, NG <- 2, MaxTime <- 1, MaxCalls <- 1, now <- s1, timers <- s2, wake <- s3, nextTimer <- s4,
  cur <- s5, dispatch <- s6, pc <- s7, call <- s8, ev <- s9, scan <- s10, until <- s11, pool <- s12,
  done <- s13, waiting <- s14, calls <- s15,
  Kinds <- {"plain", "slow", "error", "crash", "M112"}, Limit <- 2, MaxLines <- 3, MaxChunk <- 2,
  MaxOthers <- 2, received <- s1, partial <- s2, pending <- s3, fd <- s4, inputPc <- s5, batch <- s6,
  held <- s7, aborted <- s8, ready <- s9, down <- s10, ran <- s11, acks <- s12, lost <- s13, others <- s14

ASSUME MutexAssumption ==
  /\ RE!ReactorAssumption
  /\ RE!GI!GCodeInputAssumption

MutexInit ==
  /\ Init
  /\ \/ part = "mutex" /\ Spare(0)
     \/ part = "reactor" /\ RE!Init /\ Spare(15)
     \/ part = "gcode" /\ RE!GI!Init /\ Spare(14)

all == <<vars, part, slots>>

MutexNext ==
  \/ Takes("mutex", 0, Next)
  \/ Takes("reactor", 15, RE!Next /\ UNCHANGED vars)
  \/ Takes("gcode", 14, RE!GI!Next /\ UNCHANGED vars)
  \/ part # "mutex" /\ UNCHANGED all   \* only the mutex must never stop

\* Of the reactor: its thread runs, callbacks end, time passes. Of the input: the greenlet that runs the lines
\* goes on, and scripts end. While another part has its turn neither can step.
MutexFairness ==
  /\ Fairness
  /\ WF_all(Takes("reactor", 15, RE!Loop /\ UNCHANGED vars))
  /\ WF_all(Takes("reactor", 15, RE!Leave /\ UNCHANGED vars))
  /\ WF_all(Takes("reactor", 15, RE!Tick /\ UNCHANGED vars))
  /\ WF_all(Takes("gcode", 14, (RE!GI!Locks \/ RE!GI!Runs \/ RE!GI!SlowEnds \/ RE!GI!BatchEnds) /\ UNCHANGED vars))
  /\ WF_all(Takes("gcode", 14, RE!GI!ScriptEnds /\ UNCHANGED vars))

MutexSpec == MutexInit /\ [][MutexNext]_all /\ MutexFairness

-----------------------------------------------------------------------------
\* The loop of reactor.py: it never sleeps past a timer, the wake timer of a paused greenlet is registered as
\* long as it is paused, and one greenlet dispatches.
ReactorIsSound == part = "reactor" => RE!TypeOK /\ RE!NoOversleep /\ RE!WakersMatch /\ RE!OneDispatches

\* A timer that is due is called, unregistered or put off, a completion wakes those who wait for it, and G-code
\* that has been read is run or dropped.
CallbacksRun ==
  /\ \A u \in {u1, u2} : In("reactor", RE!Due(u)) ~> ~In("reactor", RE!Due(u))
  /\ \A g \in RE!G : In("reactor", RE!Awaits(g)) ~> ~In("reactor", RE!Awaits(g))
  /\ In("gcode", RE!GI!LinesWait) ~> ~In("gcode", RE!GI!LinesWait)

\* G-code of the pseudo-tty (gcode.py): each line is run and answered once and in its order, or dropped by an
\* abort; the input is read again when nothing runs.
InputIsTaken == part = "gcode" => RE!GI!TypeOK /\ RE!GI!LinesInOrder /\ RE!GI!ReadsAgain

-----------------------------------------------------------------------------
(* The mutex is sound, and a fair queue.                                   *)

\* Appending puts the new element last and keeps the rest in place.
LEMMA AppendFacts ==
    ASSUME NEW S, NEW s \in Seq(S), NEW e \in S
    PROVE  /\ Append(s, e) \in Seq(S)
           /\ Append(s, e) # <<>>
           /\ DOMAIN Append(s, e) = 1 .. Len(s) + 1
           /\ \A i \in 1 .. Len(s) : Append(s, e)[i] = s[i]
           /\ Append(s, e)[Len(s) + 1] = e
           /\ Range(Append(s, e)) = Range(s) \cup {e}
           /\ s # <<>> => Head(Append(s, e)) = Head(s)
<1>1. /\ Append(s, e) \in Seq(S)
      /\ Append(s, e) # <<>>
      /\ DOMAIN Append(s, e) = 1 .. Len(s) + 1
      /\ \A i \in 1 .. Len(s) : Append(s, e)[i] = s[i]
      /\ Append(s, e)[Len(s) + 1] = e
  OBVIOUS
<1>2. Range(Append(s, e)) = Range(s) \cup {e}
  <2>1. DOMAIN s = 1 .. Len(s) /\ Len(s) \in Nat
    OBVIOUS
  <2>2. DOMAIN Append(s, e) = DOMAIN s \cup {Len(s) + 1}
    BY <1>1, <2>1
  <2> QED
    BY <1>1, <2>1, <2>2 DEF Range
<1>3. s # <<>> => Head(Append(s, e)) = Head(s)
  OBVIOUS
<1> QED
  BY <1>1, <1>2, <1>3

\* Removing the head of a sequence without repetitions removes exactly that
\* element.
LEMMA TailFacts ==
    ASSUME NEW S, NEW s \in Seq(S), s # <<>>, IsInjective(s)
    PROVE  /\ Head(s) \in S
           /\ Head(s) \in Range(s)
           /\ Tail(s) \in Seq(S)
           /\ IsInjective(Tail(s))
           /\ Range(Tail(s)) = Range(s) \ {Head(s)}
           /\ s = <<Head(s)>> \o Tail(s)
<1>1. /\ DOMAIN s = 1 .. Len(s) /\ Len(s) \in Nat \ {0}
      /\ Head(s) = s[1]
      /\ Tail(s) \in Seq(S)
      /\ DOMAIN Tail(s) = 1 .. Len(s) - 1
      /\ \A i \in 1 .. Len(s) - 1 : Tail(s)[i] = s[i + 1]
  OBVIOUS
<1>2. Head(s) \in S /\ Head(s) \in Range(s)
  BY <1>1 DEF Range
<1>3. IsInjective(Tail(s))
  BY <1>1 DEF IsInjective
<1>4. Range(Tail(s)) = Range(s) \ {Head(s)}
  <2>1. ASSUME NEW x \in Range(Tail(s))
        PROVE  x \in Range(s) \ {Head(s)}
    BY <1>1 DEF Range, IsInjective
  <2>2. ASSUME NEW x \in Range(s), x # Head(s)
        PROVE  x \in Range(Tail(s))
    <3>1. PICK i \in 1 .. Len(s) : x = s[i]
      BY <1>1 DEF Range
    <3>2. i - 1 \in 1 .. Len(s) - 1 /\ Tail(s)[i - 1] = x
      BY <1>1, <2>2, <3>1
    <3> QED
      BY <1>1, <3>2 DEF Range
  <2> QED
    BY <2>1, <2>2
<1>5. s = <<Head(s)>> \o Tail(s)
  OBVIOUS
<1> QED
  BY <1>1, <1>2, <1>3, <1>4, <1>5
-----------------------------------------------------------------------------
(* IInv is inductive.                                                      *)

LEMMA InitEstablishesIInv == Init => IInv
<1> SUFFICES ASSUME Init
             PROVE  IInv
  OBVIOUS
<1> USE DEF Init
<1>1. Holders = {}
  BY DEF Holders
<1>2. TypeOK
  <2>1. queue \in Seq(Greenlets)
    BY EmptySeq
  <2>2. pc \in [Greenlets -> {"out", "waiting", "holding"}]
    OBVIOUS
  <2> QED
    BY <2>1, <2>2, Zenon DEF TypeOK
<1>3. MutualExclusion /\ HandOffReachesHead /\ LockedHasOwner
  BY <1>1 DEF MutualExclusion, HandOffReachesHead, LockedHasOwner
<1>4. QueueIsWaiters
  BY DEF QueueIsWaiters, Range, IsInjective
<1> QED
  BY <1>2, <1>3, <1>4 DEF IInv

LEMMA NextPreservesIInv == IInv /\ [Next]_vars => IInv'
<1> SUFFICES ASSUME IInv, [Next]_vars
             PROVE  IInv'
  OBVIOUS
<1> USE DEF IInv, TypeOK
<1>1. ASSUME NEW g \in Greenlets, EnterFree(g)
      PROVE  IInv'
  <2>1. TypeOK'
    BY <1>1 DEF EnterFree
  <2>2. MutualExclusion' /\ LockedHasOwner' /\ HandOffReachesHead'
    BY <1>1 DEF EnterFree, MutualExclusion, LockedHasOwner, HandOffReachesHead, Holders
  <2>3. QueueIsWaiters'
    BY <1>1 DEF EnterFree, QueueIsWaiters
  <2> QED
    BY <2>1, <2>2, <2>3
<1>2. ASSUME NEW g \in Greenlets, EnterTaken(g)
      PROVE  IInv'
  <2>1. /\ queue' = Append(queue, g)
        /\ queue' \in Seq(Greenlets)
        /\ queue' # <<>>
        /\ DOMAIN queue' = 1 .. Len(queue) + 1
        /\ \A i \in 1 .. Len(queue) : queue'[i] = queue[i]
        /\ queue'[Len(queue) + 1] = g
        /\ Range(queue') = Range(queue) \cup {g}
        /\ queue # <<>> => Head(queue') = Head(queue)
    BY <1>2, AppendFacts DEF EnterTaken
  <2>2. g \notin Range(queue) /\ g \notin Holders
    BY <1>2 DEF EnterTaken, QueueIsWaiters, Holders
  <2>3. TypeOK'
    BY <1>2, <2>1 DEF EnterTaken
  <2>4. Holders' = Holders
    BY <1>2 DEF EnterTaken, Holders
  <2>5. MutualExclusion' /\ LockedHasOwner'
    BY <1>2, <2>4 DEF EnterTaken, MutualExclusion, LockedHasOwner
  <2>6. HandOffReachesHead'
    <3> SUFFICES ASSUME next_pending'
                 PROVE  is_locked' /\ Holders' = {} /\ queue' # <<>> /\ due'[Head(queue')]
      BY DEF HandOffReachesHead
    <3>1. next_pending /\ is_locked'
      BY <1>2 DEF EnterTaken
    <3>2. Holders = {} /\ queue # <<>> /\ due[Head(queue)]
      BY <3>1 DEF HandOffReachesHead
    <3>3. Head(queue) \in Range(queue)
      BY <3>2, TailFacts DEF QueueIsWaiters
    <3> QED
      BY <1>2, <2>1, <2>2, <2>4, <3>1, <3>2, <3>3 DEF EnterTaken
  <2>7. QueueIsWaiters'
    <3>1. \A h \in Greenlets : pc'[h] = "waiting" <=> h \in Range(queue')
      BY <1>2, <2>1 DEF EnterTaken, QueueIsWaiters
    <3>2. IsInjective(queue')
      <4>1. DOMAIN queue = 1 .. Len(queue) /\ Len(queue) \in Nat
        OBVIOUS
      <4>2. \A i \in 1 .. Len(queue) : queue[i] # g
        BY <2>2, <4>1 DEF Range
      <4> QED
        BY <2>1, <4>1, <4>2 DEF QueueIsWaiters, IsInjective
    <3> QED
      BY <3>1, <3>2 DEF QueueIsWaiters
  <2> QED
    BY <2>3, <2>5, <2>6, <2>7
<1>3. ASSUME NEW g \in Greenlets, Wake(g)
      PROVE  IInv'
  <2>1. CASE MayTake(g)
    <3>1. /\ next_pending /\ is_locked /\ Holders = {} /\ queue # <<>> /\ Head(queue) = g
      BY <2>1 DEF MayTake, HandOffReachesHead
    <3>2. /\ next_pending' = FALSE
          /\ is_locked' = is_locked
          /\ queue' = Tail(queue)
          /\ pc' = [pc EXCEPT ![g] = "holding"]
          /\ due' = [due EXCEPT ![g] = FALSE]
      BY <1>3, <2>1 DEF Wake
    <3>3. /\ Tail(queue) \in Seq(Greenlets)
          /\ IsInjective(Tail(queue))
          /\ Range(Tail(queue)) = Range(queue) \ {g}
      BY <3>1, TailFacts DEF QueueIsWaiters
    <3>4. Holders' = {g}
      BY <3>1, <3>2 DEF Holders
    <3>5. TypeOK' /\ MutualExclusion' /\ LockedHasOwner' /\ HandOffReachesHead'
      BY <3>1, <3>2, <3>3, <3>4
      DEF MutualExclusion, LockedHasOwner, HandOffReachesHead
    <3>6. QueueIsWaiters'
      BY <3>2, <3>3 DEF QueueIsWaiters
    <3> QED
      BY <3>5, <3>6
  <2>2. CASE ~MayTake(g)
    <3>1. /\ UNCHANGED <<is_locked, next_pending, queue, pc>>
          /\ due' = [due EXCEPT ![g] = FALSE]
      BY <1>3, <2>2 DEF Wake
    <3>2. Holders' = Holders
      BY <3>1 DEF Holders
    <3>3. TypeOK' /\ MutualExclusion' /\ LockedHasOwner' /\ QueueIsWaiters'
      BY <3>1, <3>2 DEF MutualExclusion, LockedHasOwner, QueueIsWaiters
    <3>4. HandOffReachesHead'
      BY <2>2, <3>1, <3>2 DEF HandOffReachesHead, MayTake
    <3> QED
      BY <3>3, <3>4
  <2> QED
    BY <2>1, <2>2
<1>4. ASSUME NEW g \in Greenlets, ExitIdle(g)
      PROVE  IInv'
  <2>1. g \in Holders /\ ~next_pending
    BY <1>4 DEF ExitIdle, Holders, HandOffReachesHead
  <2>2. Holders' = {}
    BY <1>4, <2>1 DEF ExitIdle, Holders, MutualExclusion
  <2>3. TypeOK' /\ MutualExclusion' /\ LockedHasOwner' /\ HandOffReachesHead'
    BY <1>4, <2>1, <2>2
    DEF ExitIdle, MutualExclusion, LockedHasOwner, HandOffReachesHead
  <2>4. QueueIsWaiters'
    BY <1>4 DEF ExitIdle, QueueIsWaiters
  <2> QED
    BY <2>3, <2>4
<1>5. ASSUME NEW g \in Greenlets, ExitHandOff(g)
      PROVE  IInv'
  <2>1. g \in Holders /\ is_locked
    BY <1>5 DEF ExitHandOff, Holders, LockedHasOwner
  <2>2. Holders' = {}
    BY <1>5, <2>1 DEF ExitHandOff, Holders, MutualExclusion
  <2>3. Head(queue) \in Greenlets
    BY <1>5, TailFacts DEF ExitHandOff, QueueIsWaiters
  <2>4. TypeOK' /\ MutualExclusion' /\ LockedHasOwner' /\ HandOffReachesHead'
    BY <1>5, <2>1, <2>2, <2>3
    DEF ExitHandOff, MutualExclusion, LockedHasOwner, HandOffReachesHead
  <2>5. QueueIsWaiters'
    BY <1>5 DEF ExitHandOff, QueueIsWaiters
  <2> QED
    BY <2>4, <2>5
<1>6. CASE UNCHANGED vars
  BY <1>6 DEF vars, MutualExclusion, LockedHasOwner, HandOffReachesHead,
              QueueIsWaiters, Holders
<1> QED
  BY <1>1, <1>2, <1>3, <1>4, <1>5, <1>6 DEF Next

\* The mutex keeps its inductive invariant in every reachable state.
THEOREM InvariantHolds == Spec => []IInv
BY InitEstablishesIInv, NextPreservesIInv, PTL DEF Spec

\* Two greenlets are never inside a `with mutex` block together.
THEOREM MutexExcludes == Spec => []MutualExclusion
BY InvariantHolds, PTL DEF IInv

\* No wake-up is lost between the release and the next waiter.
THEOREM HandOffIsNotLost == Spec => [](HandOffReachesHead /\ LockedHasOwner)
BY InvariantHolds, PTL DEF IInv
-----------------------------------------------------------------------------
(* Every step of the mutex is a step of FifoLock or leaves it unchanged.   *)

LEMMA RangeOfConcat ==
    ASSUME NEW S, NEW s \in Seq(S), NEW t \in Seq(S)
    PROVE  Range(s \o t) = Range(s) \cup Range(t)
<1>1. /\ DOMAIN s = 1 .. Len(s) /\ Len(s) \in Nat
      /\ DOMAIN t = 1 .. Len(t) /\ Len(t) \in Nat
      /\ DOMAIN (s \o t) = 1 .. Len(s) + Len(t)
      /\ \A i \in 1 .. Len(s) : (s \o t)[i] = s[i]
      /\ \A i \in 1 .. Len(t) : (s \o t)[Len(s) + i] = t[i]
  OBVIOUS
<1>2. Range(s) \subseteq Range(s \o t)
  BY <1>1 DEF Range
<1>3. Range(t) \subseteq Range(s \o t)
  <2>1. \A i \in 1 .. Len(t) : Len(s) + i \in 1 .. Len(s) + Len(t)
    BY <1>1
  <2> QED
    BY <1>1, <2>1 DEF Range
<1>4. ASSUME NEW i \in 1 .. Len(s) + Len(t)
      PROVE  (s \o t)[i] \in Range(s) \cup Range(t)
  <2>1. CASE i \in 1 .. Len(s)
    BY <1>1, <2>1 DEF Range
  <2>2. CASE i \notin 1 .. Len(s)
    <3>1. i - Len(s) \in 1 .. Len(t) /\ (s \o t)[i] = t[i - Len(s)]
      BY <1>1, <2>2
    <3> QED
      BY <1>1, <3>1 DEF Range
  <2> QED
    BY <2>1, <2>2
<1> QED
  BY <1>1, <1>2, <1>3, <1>4 DEF Range

LEMMA InitRefines == Init => Fifo!Init
BY DEF Init, Fifo!Init, HolderSeq, Holders

\* The mapped line begins with the holder, if there is one.
LEMMA HolderSeqFacts ==
    ASSUME IInv
    PROVE  /\ Holders = {} => HolderSeq = <<>>
           /\ \A g \in Greenlets : pc[g] = "holding" => Holders = {g} /\ HolderSeq = <<g>>
<1>1. Holders = {} => HolderSeq = <<>>
  BY DEF HolderSeq
<1>2. ASSUME NEW g \in Greenlets, pc[g] = "holding"
      PROVE  Holders = {g} /\ HolderSeq = <<g>>
  <2>1. \A h \in Greenlets : pc[h] = "holding" => h = g
    BY <1>2 DEF IInv, MutualExclusion, Holders
  <2>2. Holders = {g}
    BY <1>2, <2>1 DEF Holders
  <2>3. (CHOOSE h \in Greenlets : pc[h] = "holding") = g
    BY <1>2, <2>1
  <2> QED
    BY <2>2, <2>3 DEF HolderSeq
<1> QED
  BY <1>1, <1>2

LEMMA HolderSeqFactsNext ==
    ASSUME IInv'
    PROVE  /\ Holders' = {} => HolderSeq' = <<>>
           /\ \A g \in Greenlets : pc'[g] = "holding" => Holders' = {g} /\ HolderSeq' = <<g>>
<1>1. Holders' = {} => HolderSeq' = <<>>
  BY DEF HolderSeq
<1>2. ASSUME NEW g \in Greenlets, pc'[g] = "holding"
      PROVE  Holders' = {g} /\ HolderSeq' = <<g>>
  <2>1. \A h \in Greenlets : pc'[h] = "holding" => h = g
    BY <1>2 DEF IInv, MutualExclusion, Holders
  <2>2. Holders' = {g}
    BY <1>2, <2>1 DEF Holders
  <2>3. (CHOOSE h \in Greenlets : pc'[h] = "holding") = g
    BY <1>2, <2>1
  <2> QED
    BY <2>2, <2>3 DEF HolderSeq
<1> QED
  BY <1>1, <1>2

LEMMA NextRefines == IInv /\ IInv' /\ [Next]_vars => [Fifo!Next]_(Fifo!lockVars)
<1> SUFFICES ASSUME IInv, IInv', [Next]_vars
             PROVE  [Fifo!Next]_(Fifo!lockVars)
  OBVIOUS
<1> DEFINE L == HolderSeq \o queue
<1>1. /\ queue \in Seq(Greenlets)
      /\ queue' \in Seq(Greenlets)
      /\ pc \in [Greenlets -> {"out", "waiting", "holding"}]
  BY DEF IInv, TypeOK
<1>2. ASSUME NEW g \in Greenlets, EnterFree(g)
      PROVE  Fifo!Arrive(g)
  <2>1. Holders = {} /\ queue = <<>>
    <3>1. Holders = {} /\ ~next_pending
      BY <1>2 DEF EnterFree, IInv, LockedHasOwner
    <3>2. ASSUME queue # <<>>
          PROVE  FALSE
      BY <1>2, <3>1, <3>2 DEF EnterFree, IInv, LockedHasOwner
    <3> QED
      BY <3>1, <3>2
  <2>2. pc'[g] = "holding" /\ queue' = <<>>
    BY <1>1, <1>2, <2>1 DEF EnterFree
  <2>3. L = <<>> /\ L' = <<g>> /\ Holders' = {g}
    BY <2>1, <2>2, HolderSeqFacts, HolderSeqFactsNext
  <2>4. Range(L) = {}
    BY <2>3 DEF Range
  <2>5. Append(L, g) = <<g>>
    BY <2>3
  <2> QED
    BY <2>3, <2>4, <2>5 DEF Fifo!Arrive, Fifo!Range, Range
<1>3. ASSUME NEW g \in Greenlets, EnterTaken(g)
      PROVE  Fifo!Arrive(g)
  <2>1. Holders' = Holders /\ HolderSeq' = HolderSeq
    <3>1. \A h \in Greenlets : pc'[h] = "holding" <=> pc[h] = "holding"
      BY <1>1, <1>3 DEF EnterTaken
    <3>2. Holders' = Holders
      BY <3>1 DEF Holders
    <3>3. CASE Holders = {}
      BY <3>2, <3>3, HolderSeqFacts, HolderSeqFactsNext
    <3>4. CASE Holders # {}
      <4>1. PICK h \in Greenlets : pc[h] = "holding" /\ pc'[h] = "holding"
        BY <3>1, <3>4 DEF Holders
      <4> QED
        BY <3>2, <4>1, HolderSeqFacts, HolderSeqFactsNext
    <3> QED
      BY <3>3, <3>4
  <2>2. HolderSeq \in Seq(Greenlets)
    <3>1. CASE Holders = {}
      BY <3>1, HolderSeqFacts
    <3>2. CASE Holders # {}
      <4>1. PICK h \in Greenlets : pc[h] = "holding"
        BY <3>2 DEF Holders
      <4>2. HolderSeq = <<h>>
        BY <4>1, HolderSeqFacts
      <4> QED
        BY <4>2
    <3> QED
      BY <3>1, <3>2
  <2>3. L' = Append(L, g)
    BY <1>1, <1>3, <2>1, <2>2 DEF EnterTaken
  <2>4. g \notin Range(queue) /\ g \notin Range(HolderSeq)
    <3>1. g \notin Range(queue) /\ g \notin Holders
      BY <1>3 DEF EnterTaken, IInv, QueueIsWaiters, Holders
    <3>2. CASE Holders = {}
      BY <3>1, <3>2, HolderSeqFacts DEF Range
    <3>3. CASE Holders # {}
      <4>1. PICK h \in Greenlets : pc[h] = "holding"
        BY <3>3 DEF Holders
      <4>2. HolderSeq = <<h>> /\ h # g
        BY <3>1, <4>1, HolderSeqFacts DEF Holders
      <4> QED
        BY <3>1, <4>2 DEF Range
    <3> QED
      BY <3>2, <3>3
  <2>5. g \notin Range(L)
    BY <1>1, <2>2, <2>4, RangeOfConcat
  <2>6. L # <<>>
    <3>1. CASE Holders = {}
      <4>1. queue # <<>>
        BY <1>3, <3>1 DEF EnterTaken, IInv, LockedHasOwner, HandOffReachesHead
      <4> QED
        BY <1>1, <2>2, <4>1, ConcatEqualIffEmpty
    <3>2. CASE Holders # {}
      <4>1. PICK h \in Greenlets : pc[h] = "holding"
        BY <3>2 DEF Holders
      <4>2. HolderSeq = <<h>>
        BY <4>1, HolderSeqFacts
      <4> QED
        BY <1>1, <4>2
    <3> QED
      BY <3>1, <3>2
  <2> QED
    BY <2>1, <2>3, <2>5, <2>6 DEF Fifo!Arrive, Fifo!Range, Range
<1>4. ASSUME NEW g \in Greenlets, Wake(g)
      PROVE  Fifo!Grant(g) \/ UNCHANGED Fifo!lockVars
  <2>1. CASE MayTake(g)
    <3>1. Holders = {} /\ queue # <<>> /\ Head(queue) = g
      BY <2>1 DEF MayTake, IInv, HandOffReachesHead
    <3>2. queue' = Tail(queue) /\ pc'[g] = "holding"
      BY <1>1, <1>4, <2>1 DEF Wake
    <3>3. HolderSeq = <<>> /\ HolderSeq' = <<g>> /\ Holders' = {g}
      BY <3>1, <3>2, HolderSeqFacts, HolderSeqFactsNext
    <3>4. queue = <<g>> \o Tail(queue)
      BY <1>1, <3>1, TailFacts DEF IInv, QueueIsWaiters
    <3>5. L = queue /\ L' = queue
      BY <1>1, <3>2, <3>3, <3>4
    <3> QED
      BY <3>1, <3>3, <3>5 DEF Fifo!Grant
  <2>2. CASE ~MayTake(g)
    <3>1. UNCHANGED <<queue, pc>>
      BY <1>4, <2>2 DEF Wake
    <3> QED
      BY <3>1 DEF Fifo!lockVars, HolderSeq, Holders
  <2> QED
    BY <2>1, <2>2
<1>5. ASSUME NEW g \in Greenlets, ExitIdle(g) \/ ExitHandOff(g)
      PROVE  Fifo!Leave(g)
  <2>1. pc[g] = "holding" /\ queue' = queue /\ pc' = [pc EXCEPT ![g] = "out"]
    BY <1>5 DEF ExitIdle, ExitHandOff
  <2>2. Holders = {g} /\ HolderSeq = <<g>>
    BY <2>1, HolderSeqFacts
  <2>3. Holders' = {} /\ HolderSeq' = <<>>
    <3>1. Holders' = {}
      BY <1>1, <2>1, <2>2 DEF Holders
    <3> QED
      BY <3>1, HolderSeqFactsNext
  <2>4. L' = queue /\ Tail(L) = queue
    BY <1>1, <2>1, <2>2, <2>3
  <2> QED
    BY <2>2, <2>3, <2>4 DEF Fifo!Leave
<1>6. CASE UNCHANGED vars
  BY <1>6 DEF vars, Fifo!lockVars, HolderSeq, Holders
<1> QED
  BY <1>2, <1>3, <1>4, <1>5, <1>6 DEF Next, Fifo!Next

\* ReactorMutex implements the safety part of FifoLock: nobody overtakes.
THEOREM MutexIsFifo == Spec => Fifo!Init /\ [][Fifo!Next]_(Fifo!lockVars)
BY InvariantHolds, InitRefines, NextRefines, PTL DEF Spec

-----------------------------------------------------------------------------
(* A step of MutexSpec is a step of the part it belongs to, and leaves the *)
(* other parts alone.                                                      *)

PartsInv ==
    /\ part = "mutex" => IInv
    /\ part = "reactor" => RE!IInv
    /\ part = "gcode" => RE!GI!IInv

LEMMA PartsAssume == RE!ReactorAssumption /\ RE!GI!GCodeInputAssumption
BY MutexAssumption

LEMMA InitIsPartsInv ==
    ASSUME MutexInit
    PROVE  PartsInv
<1>1. Init => IInv
  BY InitEstablishesIInv
<1>2. RE!Init => RE!IInv
  BY PartsAssume, RE!InitIsIInv
<1>3. RE!GI!Init => RE!GI!IInv
  BY PartsAssume, RE!InputStarts
<1>4. /\ Init
      /\ part = "mutex" \/ (part = "reactor" /\ RE!Init) \/ (part = "gcode" /\ RE!GI!Init)
  BY DEF MutexInit
<1> QED
  BY <1>1, <1>2, <1>3, <1>4 DEF PartsInv

\* A step of one part is no step of another one.
LEMMA StepsStayApart ==
    ASSUME [MutexNext]_all
    PROVE  /\ part' = part
           /\ part = "mutex" => [Next]_vars
           /\ part = "reactor" => [RE!Next]_(RE!vars)
           /\ part = "gcode" => [RE!GI!Next]_(RE!GI!vars)
<1>1. CASE Takes("mutex", 0, Next)
  BY <1>1 DEF Takes
<1>2. CASE Takes("reactor", 15, RE!Next /\ UNCHANGED vars)
  BY <1>2 DEF Takes
<1>3. CASE Takes("gcode", 14, RE!GI!Next /\ UNCHANGED vars)
  BY <1>3 DEF Takes
<1>4. CASE UNCHANGED all
  BY <1>4 DEF all, slots, RE!vars, RE!gVars, RE!cVars, RE!GI!vars, RE!GI!buffers, RE!GI!history
<1> QED
  BY <1>1, <1>2, <1>3, <1>4 DEF MutexNext

LEMMA NextKeepsPartsInv ==
    ASSUME PartsInv, [MutexNext]_all
    PROVE  PartsInv'
<1>1. CASE part = "mutex"
  BY <1>1, StepsStayApart, NextPreservesIInv DEF PartsInv
<1>2. CASE part = "reactor"
  BY <1>2, PartsAssume, StepsStayApart, RE!NextKeepsIInv DEF PartsInv
<1>3. CASE part = "gcode"
  BY <1>3, PartsAssume, StepsStayApart, RE!InputKeepsIInv DEF PartsInv
<1>4. CASE part \notin {"mutex", "reactor", "gcode"}
  BY <1>4, StepsStayApart DEF PartsInv
<1> QED
  BY <1>1, <1>2, <1>3, <1>4

THEOREM PartsInvariant == MutexSpec => []PartsInv
<1>1. MutexInit => PartsInv
  BY InitIsPartsInv
<1>2. PartsInv /\ [MutexNext]_all => PartsInv'
  BY NextKeepsPartsInv
<1> QED
  BY <1>1, <1>2, PTL DEF MutexSpec

\* The loop of reactor.py never sleeps past a timer, a paused greenlet can be
\* woken, and one greenlet dispatches: in any behaviour of the run.
THEOREM ReactorKeepsTime == MutexSpec => []ReactorIsSound
<1>1. PartsInv => ReactorIsSound
  BY DEF PartsInv, ReactorIsSound, RE!IInv
<1> QED
  BY <1>1, PartsInvariant, PTL

\* Every line of the pseudo-tty is run and answered once, in its order, or
\* dropped by an abort, in any behaviour of the run.
THEOREM InputIsNotLost == MutexSpec => []InputIsTaken
<1>1. PartsInv => InputIsTaken
  BY DEF PartsInv, InputIsTaken, RE!GI!IInv
<1> QED
  BY <1>1, PartsInvariant, PTL
=============================================================================
