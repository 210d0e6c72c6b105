----------------------------- MODULE ReactorProofs -----------------------------
(***************************************************************************)
(* The reactor never sleeps past a timer, each greenlet in a pause has a   *)
(* wake timer, and one greenlet dispatches: for any timers of the program, *)
(* any number of greenlets and any length of a run.  Each line of the      *)
(* G-code input is run or dropped once and in order.                       *)
(***************************************************************************)
EXTENDS Reactor, FiniteSetTheorems, SequenceTheorems, TLAPS

CONSTANTS Kinds, Limit, MaxLines, MaxChunk, MaxOthers \* of the G-code input
VARIABLES received, partial, pending, fd, inputPc, batch, held, aborted, ready, down, ran, acks, lost, others

GI == INSTANCE GCodeInput WITH pc <- inputPc

-----------------------------------------------------------------------------
(* Sequences without duplicates.                                           *)

LEMMA ContainsIsIn ==
  ASSUME NEW S, NEW s \in Seq(S), NEW e
  PROVE  Contains(s, e) <=> e \in Range(s)
BY DEF Contains, Range

LEMMA AppendIs ==
  ASSUME NEW S, NEW s \in Seq(S), NEW e \in S
  PROVE  /\ Append(s, e) \in Seq(S)
         /\ Range(Append(s, e)) = Range(s) \cup {e}
         /\ IsInjective(s) /\ e \notin Range(s) => IsInjective(Append(s, e))
<1>1. Append(s, e) \in Seq(S) OBVIOUS
<1>2. DOMAIN Append(s, e) = 1..(Len(s) + 1) /\ DOMAIN s = 1..Len(s) /\ Len(s) \in Nat OBVIOUS
<1>3. \A i \in 1..Len(s) : Append(s, e)[i] = s[i] OBVIOUS
<1>4. Append(s, e)[Len(s) + 1] = e OBVIOUS
<1>5. 1..(Len(s) + 1) = (1..Len(s)) \cup {Len(s) + 1} BY <1>2
<1>6. Range(Append(s, e)) = Range(s) \cup {e} BY <1>2, <1>3, <1>4, <1>5 DEF Range
<1>7. ASSUME IsInjective(s), e \notin Range(s)
      PROVE  IsInjective(Append(s, e))
  BY <1>2, <1>3, <1>4, <1>5, <1>7 DEF IsInjective, Range
<1> QED BY <1>1, <1>6, <1>7

LEMMA TailIs ==
  ASSUME NEW S, NEW s \in Seq(S), s # <<>>
  PROVE  /\ Head(s) \in S /\ Tail(s) \in Seq(S)
         /\ Range(s) = Range(Tail(s)) \cup {Head(s)}
<1>1. Head(s) \in S /\ Tail(s) \in Seq(S) /\ Head(s) = s[1] OBVIOUS
<1>2. DOMAIN s = 1..Len(s) /\ DOMAIN Tail(s) = 1..(Len(s) - 1) /\ Len(s) \in Nat /\ Len(s) >= 1 OBVIOUS
<1>3. \A i \in 1..(Len(s) - 1) : Tail(s)[i] = s[i + 1] OBVIOUS
<1>4. Range(s) \subseteq Range(Tail(s)) \cup {Head(s)}
  <2> SUFFICES ASSUME NEW i \in 1..Len(s) PROVE s[i] \in Range(Tail(s)) \cup {Head(s)}
    BY <1>2 DEF Range
  <2>1. CASE i = 1 BY <2>1, <1>1
  <2>2. CASE i > 1
    <3>1. i - 1 \in 1..(Len(s) - 1) /\ Tail(s)[i - 1] = s[i] BY <2>2, <1>2, <1>3
    <3> QED BY <3>1, <1>2 DEF Range
  <2> QED BY <2>1, <2>2
<1>5. Range(Tail(s)) \cup {Head(s)} \subseteq Range(s) BY <1>1, <1>2, <1>3 DEF Range
<1> QED BY <1>1, <1>4, <1>5

LEMMA FrontIs ==
  ASSUME NEW S, NEW s \in Seq(S), s # <<>>, IsInjective(s)
  PROVE  /\ Last(s) \in S /\ Front(s) \in Seq(S)
         /\ Range(Front(s)) = Range(s) \ {Last(s)} /\ Last(s) \in Range(s)
         /\ IsInjective(Front(s))
<1>1. DOMAIN s = 1..Len(s) /\ Len(s) \in Nat /\ Len(s) >= 1 /\ Last(s) = s[Len(s)] BY DEF Last
<1>2. Front(s) \in Seq(S) /\ DOMAIN Front(s) = 1..(Len(s) - 1) BY <1>1 DEF Front
<1>3. \A i \in 1..(Len(s) - 1) : Front(s)[i] = s[i] BY <1>1 DEF Front
<1>4. Last(s) \in S /\ Last(s) \in Range(s) BY <1>1 DEF Range
<1>5. \A i, j \in 1..Len(s) : s[i] = s[j] => i = j BY <1>1 DEF IsInjective
<1>6. IsInjective(Front(s)) BY <1>1, <1>2, <1>3, <1>5 DEF IsInjective
<1>7. Range(Front(s)) = {s[i] : i \in 1..(Len(s) - 1)} BY <1>2, <1>3 DEF Range
<1>8. Range(s) = {s[i] : i \in 1..Len(s)} BY <1>1 DEF Range
<1>9. Range(Front(s)) = Range(s) \ {Last(s)} BY <1>1, <1>5, <1>7, <1>8
<1> QED BY <1>2, <1>4, <1>6, <1>9

\* unregister_timer takes the timer out and keeps the others.
LEMMA RemoveFirstIs ==
  ASSUME NEW S, NEW s \in Seq(S), IsInjective(s), NEW e \in Range(s)
  PROVE  /\ RemoveFirst(s, e) \in Seq(S) /\ IsInjective(RemoveFirst(s, e))
         /\ Range(RemoveFirst(s, e)) = Range(s) \ {e}
<1>1. DOMAIN s = 1..Len(s) /\ Len(s) \in Nat OBVIOUS
<1>2. PICK k \in 1..Len(s) : s[k] = e BY <1>1 DEF Range
<1>3. \A i, j \in 1..Len(s) : s[i] = s[j] => i = j BY <1>1 DEF IsInjective
<1>4. {i \in 1..Len(s) : s[i] = e} = {k} BY <1>2, <1>3
<1>5. SelectInSeq(s, LAMBDA v : v = e) = k
  <2>1. Min({k}) = k BY <1>2 DEF Min
  <2> QED BY <1>4, <2>1 DEF SelectInSeq
<1>6. RemoveFirst(s, e) = RemoveAt(s, k) BY <1>2, <1>5 DEF RemoveFirst
<1> DEFINE r == SubSeq(s, 1, k - 1) \o SubSeq(s, k + 1, Len(s))
<1>7. RemoveFirst(s, e) = r BY <1>6 DEF RemoveAt
<1>8. /\ SubSeq(s, 1, k - 1) \in Seq(S) /\ Len(SubSeq(s, 1, k - 1)) = k - 1
      /\ \A i \in 1..(k - 1) : SubSeq(s, 1, k - 1)[i] = s[i]
  BY <1>1, <1>2
<1>9. /\ SubSeq(s, k + 1, Len(s)) \in Seq(S) /\ Len(SubSeq(s, k + 1, Len(s))) = Len(s) - k
      /\ \A i \in 1..(Len(s) - k) : SubSeq(s, k + 1, Len(s))[i] = s[i + k]
  <2>1. PICK n \in Nat : n = Len(s) BY <1>1
  <2>2. k \in Nat /\ k >= 1 /\ k <= n BY <2>1, <1>2
  <2>3. k + 1 \in Int /\ n \in Int /\ \A i \in (k + 1)..n : s[i] \in S BY <2>1, <2>2, <1>1
  <2>4. /\ SubSeq(s, k + 1, n) \in Seq(S)
        /\ Len(SubSeq(s, k + 1, n)) = IF k + 1 <= n THEN n - (k + 1) + 1 ELSE 0
        /\ \A i \in 1..(n - (k + 1) + 1) : SubSeq(s, k + 1, n)[i] = s[(k + 1) + i - 1]
    BY <2>3, SubSeqProperties
  <2>5. n - (k + 1) + 1 = n - k /\ (~(k + 1 <= n) => n - k = 0) BY <2>2
  <2>6. \A i \in 1..(n - k) : (k + 1) + i - 1 = i + k BY <2>2
  <2>7. Len(SubSeq(s, k + 1, n)) = n - k BY <2>4, <2>5
  <2>8. \A i \in 1..(n - k) : SubSeq(s, k + 1, n)[i] = s[i + k] BY <2>4, <2>5, <2>6
  <2> QED BY <2>1, <2>4, <2>7, <2>8
<1>10. /\ r \in Seq(S) /\ Len(r) = Len(s) - 1 /\ DOMAIN r = 1..(Len(s) - 1)
       /\ \A i \in 1..(Len(s) - 1) : r[i] = IF i < k THEN s[i] ELSE s[i + 1]
  <2> DEFINE a == SubSeq(s, 1, k - 1)
             b == SubSeq(s, k + 1, Len(s))
  <2>1. a \in Seq(S) /\ b \in Seq(S) /\ Len(a) = k - 1 /\ Len(b) = Len(s) - k BY <1>8, <1>9
  <2>2. /\ \A i \in 1..(k - 1) : a[i] = s[i]
        /\ \A i \in 1..(Len(s) - k) : b[i] = s[i + k]
    BY <1>8, <1>9
  <2>3. r = a \o b OBVIOUS
  <2> HIDE DEF a, b, r
  <2>4. r \in Seq(S) /\ Len(r) = Len(s) - 1 BY <2>1, <2>3, <1>1, <1>2
  <2>5. \A i \in 1..(Len(s) - 1) : r[i] = IF i < k THEN s[i] ELSE s[i + 1]
    <3> SUFFICES ASSUME NEW i \in 1..(Len(s) - 1) PROVE r[i] = IF i < k THEN s[i] ELSE s[i + 1] OBVIOUS
    <3>a. a \o b = r /\ \A j \in 1..(Len(a) + Len(b)) : r[j] = IF j <= Len(a) THEN a[j] ELSE b[j - Len(a)]
      BY <2>1, <2>3, ConcatProperties
    <3>1. CASE i < k
      <4>1. i \in 1..(Len(a) + Len(b)) /\ i <= Len(a) /\ i \in 1..(k - 1) BY <3>1, <2>1, <1>1, <1>2
      <4> QED BY <4>1, <3>1, <3>a, <2>2
    <3>2. CASE ~(i < k)
      <4>1. i - (k - 1) \in 1..(Len(s) - k) /\ (i - (k - 1)) + k = i + 1 BY <3>2, <1>1, <1>2
      <4>a. i \in 1..(Len(a) + Len(b)) /\ ~(i <= Len(a)) /\ i - Len(a) = i - (k - 1) BY <3>2, <2>1, <1>1, <1>2
      <4>2. r[i] = b[i - (k - 1)] BY <4>a, <3>a
      <4> QED BY <4>1, <4>2, <3>2, <2>2
    <3> QED BY <3>1, <3>2
  <2> QED BY <2>4, <2>5
<1> HIDE DEF r
<1>11. IsInjective(r) BY <1>1, <1>2, <1>3, <1>10 DEF IsInjective
<1>12. Range(r) \subseteq Range(s) \ {e}
  <2> SUFFICES ASSUME NEW i \in 1..(Len(s) - 1) PROVE r[i] \in Range(s) \ {e} BY <1>10 DEF Range
  <2>1. PICK j \in 1..Len(s) : j # k /\ r[i] = s[j] BY <1>1, <1>2, <1>10
  <2> QED BY <2>1, <1>1, <1>2, <1>3 DEF Range
<1>13. Range(s) \ {e} \subseteq Range(r)
  <2> SUFFICES ASSUME NEW i \in 1..Len(s), i # k PROVE s[i] \in Range(r) BY <1>1, <1>2 DEF Range
  <2>1. PICK j \in 1..(Len(s) - 1) : r[j] = s[i]
    <3>1. CASE i < k BY <3>1, <1>1, <1>2, <1>10
    <3>2. CASE i > k
      <4>1. i - 1 \in 1..(Len(s) - 1) /\ ~(i - 1 < k) /\ (i - 1) + 1 = i BY <3>2, <1>1, <1>2
      <4> QED BY <4>1, <1>10
    <3> QED BY <3>1, <3>2, <1>1, <1>2
  <2> QED BY <2>1, <1>10 DEF Range
<1> QED BY <1>7, <1>10, <1>11, <1>12, <1>13

-----------------------------------------------------------------------------
(* The invariant in terms of sets of timers.                               *)

Registered == Range(timers)
Left == Range(scan[dispatch])
Pooled == Range(pool)

LEMMA ConstantsAre ==
  ASSUME ReactorAssumption
  PROVE  /\ NG \in Nat /\ NG >= 1 /\ MaxTime \in Nat /\ MaxCalls \in Nat /\ Never \in Nat /\ Never = MaxTime + 1
         /\ G \subseteq Timer /\ User \subseteq Timer /\ User \cap G = {} /\ Fd \notin Timer /\ 1 \in G
BY DEF ReactorAssumption, Never, G, Timer, Fd

WakersAre == \A g \in G : /\ g \in Registered <=> (pc[g] = "paused" \/ (pc[g] = "run" /\ g # dispatch))
                          /\ pc[g] = "idle" <=> g \in Pooled
NextIsAhead == \A t \in Registered : nextTimer <= wake[t] \/ t \in Left
WakersSleep == \A g \in G : g \notin Registered => wake[g] = Never
EventsAre == \A g \in G : ev[g] <= now
WaitersAre == \A g \in waiting : pc[g] = "paused"
PollIsRight == pc[cur] = "poll" => \A t \in Registered : until[cur] <= now \/ until[cur] <= wake[t]

Inv ==
  /\ TimersTypeOK /\ GreenletsTypeOK /\ RestTypeOK /\ OneDispatches /\ CurIsRight /\ WakersAre /\ ScanIsRight
  /\ NextIsAhead /\ WakersSleep /\ EventsAre /\ WaitersAre /\ PollIsRight

LEMMA InvIsIInv == Inv <=> IInv
<1>1. ASSUME timers \in Seq(Timer), pool \in Seq(G)
      PROVE  WakersMatch <=> WakersAre
  BY <1>1, ContainsIsIn DEF WakersMatch, WakersAre, Registered, Pooled
<1>2. ASSUME timers \in Seq(Timer)
      PROVE  RestIsQuiet <=> WakersSleep /\ EventsAre /\ WaitersAre
  BY <1>2, ContainsIsIn DEF RestIsQuiet, WakersSleep, EventsAre, WaitersAre, Registered
<1>3. NextIsSoon <=> NextIsAhead BY DEF NextIsSoon, NextIsAhead, Registered, Left
<1>4. NoOversleep <=> PollIsRight BY DEF NoOversleep, PollIsRight, Registered
<1>5. TypeOK <=> TimersTypeOK /\ GreenletsTypeOK /\ RestTypeOK BY DEF TypeOK
<1>6. TimersTypeOK => timers \in Seq(Timer) BY DEF TimersTypeOK
<1>7. RestTypeOK => pool \in Seq(G) BY DEF RestTypeOK
<1> QED BY <1>1, <1>2, <1>3, <1>4, <1>5, <1>6, <1>7 DEF Inv, IInv

-----------------------------------------------------------------------------
(* Each action keeps the invariant.                                        *)

LEMMA Min2Is ==
  ASSUME ReactorAssumption, NEW a \in 0..Never, NEW b \in 0..Never
  PROVE  /\ Min2(a, b) \in 0..Never /\ Min2(a, b) <= a /\ Min2(a, b) <= b
         /\ Min2(a, b) = a \/ Min2(a, b) = b
<1>1. Never \in Nat BY ConstantsAre
<1> QED BY <1>1 DEF Min2

LEMMA TypesAre ==
  ASSUME ReactorAssumption, Inv
  PROVE  /\ timers \in Seq(Timer) /\ wake \in [Timer -> 0..Never] /\ nextTimer \in 0..Never
         /\ cur \in G /\ dispatch \in G /\ call \in [G -> User \cup {Fd}]
         /\ pc \in [G -> {"top", "scan", "poll", "run", "switched", "paused", "idle", "unused"}]
         /\ ev \in [G -> 0..Never] /\ until \in [G -> 0..Never] /\ scan \in [G -> Seq(Timer)]
BY DEF Inv, TimersTypeOK, GreenletsTypeOK

LEMMA NumbersAre ==
  ASSUME ReactorAssumption, Inv
  PROVE  /\ now \in Nat /\ now < Never /\ now \in 0..Never /\ Never \in 0..Never /\ 0 \in 0..Never
         /\ Never \in Nat /\ nextTimer \in Nat /\ nextTimer <= Never /\ Registered \subseteq Timer
         /\ \A t \in Timer : wake[t] \in Nat /\ wake[t] <= Never
         /\ \A g \in G : until[g] \in Nat /\ ev[g] \in Nat
<1>1. now \in 0..MaxTime BY DEF Inv, TimersTypeOK
<1>2. Never \in Nat /\ now \in Nat /\ now < Never BY <1>1, ConstantsAre
<1>3. Registered \subseteq Timer BY TypesAre, RangeOfSeq DEF Registered
<1> QED BY <1>2, <1>3, TypesAre

LEMMA CheckTimersWaits ==
  ASSUME ReactorAssumption, Inv, CheckTimers, ev[cur] < nextTimer
  PROVE  Inv'
<1>1. /\ pc' = [pc EXCEPT ![cur] = "poll"]
      /\ until' = [until EXCEPT ![cur] = nextTimer]
      /\ UNCHANGED <<now, timers, wake, nextTimer, cur, dispatch, call, ev, scan, pool, done, waiting, calls>>
  BY DEF CheckTimers, cVars
<1>2. pc[cur] = "top" /\ cur = dispatch /\ scan[cur] = <<>>
  BY TypesAre DEF CheckTimers, Inv, OneDispatches, ScanIsRight
<1>3. Left = {} BY <1>2 DEF Left, Range
<1>4. Registered' = Registered /\ Left' = Left /\ Pooled' = Pooled
  BY <1>1 DEF Registered, Left, Pooled
<1>5. TimersTypeOK' BY <1>1 DEF Inv, TimersTypeOK
<1>6. GreenletsTypeOK' BY TypesAre, <1>1 DEF Inv, GreenletsTypeOK
<1>7. RestTypeOK' BY <1>1 DEF Inv, RestTypeOK
<1>8. OneDispatches' BY <1>1, <1>2 DEF Inv, OneDispatches, CurIsRight
<1>9. CurIsRight' BY <1>1, <1>2 DEF Inv, CurIsRight
<1>10. WakersAre' BY <1>1, <1>2, <1>4 DEF Inv, WakersAre, CurIsRight, OneDispatches
<1>11. ScanIsRight' BY <1>1, <1>2 DEF Inv, ScanIsRight, CurIsRight, OneDispatches
<1>12. NextIsAhead' BY <1>1, <1>4 DEF Inv, NextIsAhead
<1>13. WakersSleep' BY <1>1, <1>4 DEF Inv, WakersSleep
<1>14. EventsAre' BY <1>1 DEF Inv, EventsAre
<1>15. WaitersAre' BY <1>1, <1>2 DEF Inv, WaitersAre, RestTypeOK
<1>16. PollIsRight'
  BY TypesAre, <1>1, <1>3, <1>4, NumbersAre, ConstantsAre DEF Inv, PollIsRight, NextIsAhead
<1> QED BY <1>5, <1>6, <1>7, <1>8, <1>9, <1>10, <1>11, <1>12, <1>13, <1>14, <1>15, <1>16 DEF Inv

LEMMA CheckTimersScans ==
  ASSUME ReactorAssumption, Inv, CheckTimers, ~(ev[cur] < nextTimer)
  PROVE  Inv'
<1>1. /\ pc' = [pc EXCEPT ![cur] = "scan"]
      /\ nextTimer' = Never
      /\ scan' = [scan EXCEPT ![cur] = timers]
      /\ UNCHANGED <<now, timers, wake, cur, dispatch, call, ev, until, pool, done, waiting, calls>>
  BY DEF CheckTimers, ScanStarts, cVars
<1>2. pc[cur] = "top" /\ cur = dispatch BY TypesAre DEF CheckTimers, Inv, OneDispatches
<1>3. Registered' = Registered /\ Left' = Registered /\ Pooled' = Pooled
  BY TypesAre, <1>1, <1>2 DEF Registered, Left, Pooled
<1>4. TimersTypeOK'
  <2>1. wake' \in [Timer -> 0..Never] /\ nextTimer' \in 0..Never BY TypesAre, <1>1, NumbersAre
  <2>2. now' \in 0..MaxTime BY <1>1 DEF Inv, TimersTypeOK
  <2>3. timers' \in Seq(Timer) /\ IsInjective(timers') BY <1>1 DEF Inv, TimersTypeOK
  <2> QED BY <2>1, <2>2, <2>3 DEF TimersTypeOK
<1>5. GreenletsTypeOK' BY TypesAre, <1>1 DEF Inv, GreenletsTypeOK
<1>6. RestTypeOK' BY <1>1 DEF Inv, RestTypeOK
<1>7. OneDispatches' BY <1>1, <1>2 DEF Inv, OneDispatches, CurIsRight
<1>8. CurIsRight' BY <1>1, <1>2 DEF CurIsRight
<1>9. WakersAre' BY <1>1, <1>2, <1>3 DEF Inv, WakersAre, CurIsRight, OneDispatches
<1>10. ScanIsRight'
  BY TypesAre, <1>1, <1>2, NumbersAre, ConstantsAre DEF Inv, ScanIsRight, CurIsRight, OneDispatches
<1>11. NextIsAhead' BY <1>3 DEF NextIsAhead
<1>12. WakersSleep' BY <1>1, <1>3 DEF Inv, WakersSleep
<1>13. EventsAre' BY <1>1 DEF Inv, EventsAre
<1>14. WaitersAre' BY <1>1, <1>2 DEF Inv, WaitersAre, RestTypeOK
<1>15. PollIsRight' BY <1>1, <1>3 DEF Inv, PollIsRight
<1> QED BY <1>4, <1>5, <1>6, <1>7, <1>8, <1>9, <1>10, <1>11, <1>12, <1>13, <1>14, <1>15 DEF Inv

LEMMA ScanEndsKeeps ==
  ASSUME ReactorAssumption, Inv, ScanEnds
  PROVE  Inv'
<1>1. /\ pc' = [pc EXCEPT ![cur] = "poll"]
      /\ until' = [until EXCEPT ![cur] = now]
      /\ UNCHANGED <<now, timers, wake, nextTimer, cur, dispatch, call, ev, scan, pool, done, waiting, calls>>
  BY DEF ScanEnds, cVars
<1>2. pc[cur] = "scan" /\ cur = dispatch /\ scan[cur] = <<>>
  BY TypesAre DEF ScanEnds, Inv, OneDispatches
<1>3. Registered' = Registered /\ Left' = Left /\ Pooled' = Pooled
  BY <1>1 DEF Registered, Left, Pooled
<1>4. TimersTypeOK' BY <1>1 DEF Inv, TimersTypeOK
<1>5. GreenletsTypeOK' BY <1>1, NumbersAre DEF Inv, GreenletsTypeOK
<1>6. RestTypeOK' BY <1>1 DEF Inv, RestTypeOK
<1>7. OneDispatches' BY <1>1, <1>2 DEF Inv, OneDispatches, CurIsRight
<1>8. CurIsRight' BY <1>1, <1>2 DEF CurIsRight
<1>9. WakersAre' BY <1>1, <1>2, <1>3 DEF Inv, WakersAre, CurIsRight, OneDispatches
<1>10. ScanIsRight' BY <1>1, <1>2 DEF Inv, ScanIsRight, CurIsRight, OneDispatches
<1>11. NextIsAhead' BY <1>1, <1>3 DEF Inv, NextIsAhead
<1>12. WakersSleep' BY <1>1, <1>3 DEF Inv, WakersSleep
<1>13. EventsAre' BY <1>1 DEF Inv, EventsAre
<1>14. WaitersAre' BY <1>1, <1>2 DEF Inv, WaitersAre, RestTypeOK
<1>15. PollIsRight' BY TypesAre, <1>1, NumbersAre DEF Inv, PollIsRight
<1> QED BY <1>4, <1>5, <1>6, <1>7, <1>8, <1>9, <1>10, <1>11, <1>12, <1>13, <1>14, <1>15 DEF Inv

LEMMA ScanTimerLater ==
  ASSUME ReactorAssumption, Inv, ScanTimer, ev[cur] < wake[Head(scan[cur])]
  PROVE  Inv'
<1>1. /\ nextTimer' = Min2(nextTimer, wake[Head(scan[cur])])
      /\ scan' = [scan EXCEPT ![cur] = Tail(@)]
      /\ UNCHANGED <<now, timers, wake, cur, dispatch, pc, call, ev, until, pool, done, waiting, calls>>
  BY DEF ScanTimer
<1>2. pc[cur] = "scan" /\ cur = dispatch /\ scan[cur] # <<>>
  BY TypesAre DEF ScanTimer, Inv, OneDispatches
<1>3. PICK t \in Timer : t = Head(scan[cur]) /\ Left = Range(Tail(scan[cur])) \cup {t} /\ Tail(scan[cur]) \in Seq(Timer)
  BY TypesAre, <1>2, TailIs DEF Left
<1>4. nextTimer' \in 0..Never /\ nextTimer' <= nextTimer /\ nextTimer' <= wake[t] /\ nextTimer' \in {nextTimer, wake[t]}
  BY TypesAre, <1>1, <1>3, Min2Is
<1>5. Registered' = Registered /\ Left = Left' \cup {t} /\ Pooled' = Pooled
  BY <1>1, <1>3 DEF Registered, Left, Pooled
<1>6. TimersTypeOK'
  <2>1. wake' \in [Timer -> 0..Never] /\ nextTimer' \in 0..Never
    BY TypesAre, <1>1, <1>3, <1>4, <1>5, NumbersAre
  <2>2. now' \in 0..MaxTime BY <1>1 DEF Inv, TimersTypeOK
  <2>3. timers' \in Seq(Timer) /\ IsInjective(timers') BY <1>1 DEF Inv, TimersTypeOK
  <2> QED BY <2>1, <2>2, <2>3 DEF TimersTypeOK
<1>7. GreenletsTypeOK' BY <1>1, <1>2 DEF Inv, GreenletsTypeOK
<1>8. RestTypeOK' BY <1>1 DEF Inv, RestTypeOK
<1>9. OneDispatches' BY <1>1 DEF Inv, OneDispatches
<1>10. CurIsRight' BY <1>1 DEF Inv, CurIsRight
<1>11. WakersAre' BY <1>1, <1>5 DEF Inv, WakersAre
<1>12. ScanIsRight' BY <1>1, <1>2 DEF Inv, ScanIsRight, CurIsRight, OneDispatches
<1>13. NextIsAhead'
  <2> SUFFICES ASSUME NEW x \in Registered' PROVE nextTimer' <= wake'[x] \/ x \in Left'
    BY DEF NextIsAhead
  <2>1. x \in Registered /\ x \in Timer /\ wake'[x] = wake[x] /\ wake[x] \in Nat
    BY <1>1, <1>5, NumbersAre
  <2>2. nextTimer \in Nat /\ nextTimer' \in Nat BY <1>4, NumbersAre
  <2>3. nextTimer <= wake[x] \/ x \in Left BY <2>1 DEF Inv, NextIsAhead
  <2>4. CASE x = t BY <2>4, <2>1, <1>4
  <2>5. CASE x # t /\ x \in Left BY <2>5, <1>5
  <2>6. CASE nextTimer <= wake[x] BY <2>6, <2>1, <1>4
  <2> QED BY <2>3, <2>4, <2>5, <2>6
<1>14. WakersSleep' BY <1>1, <1>5 DEF Inv, WakersSleep
<1>15. EventsAre' BY <1>1 DEF Inv, EventsAre
<1>16. WaitersAre' BY <1>1 DEF Inv, WaitersAre
<1>17. PollIsRight' BY <1>1, <1>2 DEF PollIsRight
<1> QED BY <1>6, <1>7, <1>8, <1>9, <1>10, <1>11, <1>12, <1>13, <1>14, <1>15, <1>16, <1>17 DEF Inv

LEMMA ScanTimerCalls ==
  ASSUME ReactorAssumption, Inv, ScanTimer, ~(ev[cur] < wake[Head(scan[cur])]), Head(scan[cur]) \in User
  PROVE  Inv'
<1>1. /\ wake' = [wake EXCEPT ![Head(scan[cur])] = Never]
      /\ call' = [call EXCEPT ![cur] = Head(scan[cur])]
      /\ pc' = [pc EXCEPT ![cur] = "run"]
      /\ UNCHANGED <<now, timers, nextTimer, cur, dispatch, ev, scan, until, pool, done, waiting, calls>>
  BY DEF ScanTimer
<1>2. pc[cur] = "scan" /\ cur = dispatch /\ scan[cur] # <<>>
  BY TypesAre DEF ScanTimer, Inv, OneDispatches
<1>3. PICK t \in Timer : t = Head(scan[cur]) /\ Left = Range(Tail(scan[cur])) \cup {t} /\ Tail(scan[cur]) \in Seq(Timer)
  BY TypesAre, <1>2, TailIs DEF Left
<1>4. Registered' = Registered /\ Left' = Left /\ Pooled' = Pooled
  BY <1>1 DEF Registered, Left, Pooled
<1>5. TimersTypeOK'
  <2>1. wake' \in [Timer -> 0..Never] /\ nextTimer' \in 0..Never BY TypesAre, <1>1, NumbersAre
  <2>2. now' \in 0..MaxTime BY <1>1 DEF Inv, TimersTypeOK
  <2>3. timers' \in Seq(Timer) /\ IsInjective(timers') BY <1>1 DEF Inv, TimersTypeOK
  <2> QED BY <2>1, <2>2, <2>3 DEF TimersTypeOK
<1>6. GreenletsTypeOK' BY <1>1 DEF Inv, GreenletsTypeOK
<1>7. RestTypeOK' BY <1>1 DEF Inv, RestTypeOK
<1>8. OneDispatches' BY <1>1 DEF Inv, OneDispatches
<1>9. CurIsRight' BY <1>1 DEF Inv, CurIsRight
<1>10. WakersAre' BY <1>1, <1>4 DEF Inv, WakersAre, CurIsRight, OneDispatches
<1>11. ScanIsRight'
  BY TypesAre, <1>1, <1>2, <1>4, NumbersAre, ConstantsAre DEF Inv, ScanIsRight, CurIsRight, OneDispatches
<1>12. NextIsAhead' BY <1>1, <1>3, <1>4 DEF Inv, NextIsAhead
<1>13. WakersSleep' BY <1>1, <1>4 DEF Inv, WakersSleep
<1>14. EventsAre' BY <1>1 DEF Inv, EventsAre
<1>15. WaitersAre' BY <1>1, <1>2 DEF Inv, WaitersAre, RestTypeOK
<1>16. PollIsRight' BY <1>1, <1>2 DEF Inv, PollIsRight
<1> QED BY <1>5, <1>6, <1>7, <1>8, <1>9, <1>10, <1>11, <1>12, <1>13, <1>14, <1>15, <1>16 DEF Inv

LEMMA ScanTimerWakes ==
  ASSUME ReactorAssumption, Inv, ScanTimer, ~(ev[cur] < wake[Head(scan[cur])]), Head(scan[cur]) \notin User
  PROVE  Inv'
<1>1. /\ wake' = [wake EXCEPT ![Head(scan[cur])] = Never]
      /\ pc' = [pc EXCEPT ![cur] = "switched", ![Head(scan[cur])] = "run"]
      /\ cur' = Head(scan[cur])
      /\ waiting' = waiting \ {Head(scan[cur])}
      /\ UNCHANGED <<now, timers, nextTimer, dispatch, call, ev, scan, until, pool, done, calls>>
  BY DEF ScanTimer
<1>2. pc[cur] = "scan" /\ cur = dispatch /\ scan[cur] # <<>>
  BY TypesAre DEF ScanTimer, Inv, OneDispatches
<1>3. PICK t \in Timer : t = Head(scan[cur]) /\ Left = Range(Tail(scan[cur])) \cup {t} /\ Tail(scan[cur]) \in Seq(Timer)
  BY TypesAre, <1>2, TailIs DEF Left
<1>4. Registered' = Registered /\ Left' = Left /\ Pooled' = Pooled
  BY <1>1 DEF Registered, Left, Pooled
<1>5. t \in G BY <1>3 DEF Timer
<1>6. t \in Registered
  <2>1. wake[t] <= now /\ wake[t] # Never
    <3>1. ev[cur] <= now /\ wake[t] <= ev[cur] BY TypesAre, <1>3 DEF Inv, EventsAre
    <3> QED BY <3>1, TypesAre, NumbersAre
  <2> QED BY <2>1, <1>5 DEF Inv, WakersSleep
<1>7. pc[t] = "paused" /\ t # cur BY <1>2, <1>5, <1>6 DEF Inv, WakersAre, OneDispatches
<1>8. TimersTypeOK'
  <2>1. wake' \in [Timer -> 0..Never] /\ nextTimer' \in 0..Never BY TypesAre, <1>1, NumbersAre
  <2>2. now' \in 0..MaxTime BY <1>1 DEF Inv, TimersTypeOK
  <2>3. timers' \in Seq(Timer) /\ IsInjective(timers') BY <1>1 DEF Inv, TimersTypeOK
  <2> QED BY <2>1, <2>2, <2>3 DEF TimersTypeOK
<1>9. GreenletsTypeOK' BY <1>1, <1>3, <1>4, <1>5, <1>6, <1>7 DEF Inv, GreenletsTypeOK
<1>10. RestTypeOK' BY <1>1 DEF Inv, RestTypeOK
<1>11. OneDispatches'
  BY TypesAre, <1>1, <1>2, NumbersAre, ConstantsAre DEF Inv, OneDispatches, CurIsRight
<1>12. CurIsRight'
  BY TypesAre, <1>1, <1>3, <1>4, <1>5, <1>6, <1>7, NumbersAre, ConstantsAre DEF Inv, CurIsRight
<1>13. WakersAre'
  BY TypesAre, <1>1, <1>2, <1>3, <1>4, <1>5, <1>6, <1>7, NumbersAre, ConstantsAre
     DEF Inv, WakersAre, CurIsRight, OneDispatches
<1>14. ScanIsRight'
  BY TypesAre, <1>1, <1>2, <1>3, <1>4, <1>5, <1>6, <1>7, NumbersAre, ConstantsAre
     DEF Inv, ScanIsRight, CurIsRight, OneDispatches
<1>15. NextIsAhead' BY <1>1, <1>3, <1>4, <1>5, <1>6, <1>7 DEF Inv, NextIsAhead
<1>16. WakersSleep' BY <1>1, <1>4, <1>5, <1>6, <1>7 DEF Inv, WakersSleep
<1>17. EventsAre' BY <1>1 DEF Inv, EventsAre
<1>18. WaitersAre' BY TypesAre, <1>1, <1>2, NumbersAre, ConstantsAre DEF Inv, WaitersAre, RestTypeOK
<1>19. PollIsRight'
  BY TypesAre, <1>1, <1>3, <1>4, <1>5, <1>6, <1>7, NumbersAre, ConstantsAre DEF Inv, PollIsRight
<1> QED BY <1>8, <1>9, <1>10, <1>11, <1>12, <1>13, <1>14, <1>15, <1>16, <1>17, <1>18, <1>19 DEF Inv

LEMMA PollEnds ==
  ASSUME ReactorAssumption, Inv, Poll, pc' = [pc EXCEPT ![cur] = "top"], UNCHANGED <<call, calls>>
  PROVE  Inv'
<1>1. /\ pc' = [pc EXCEPT ![cur] = "top"]
      /\ ev' = [ev EXCEPT ![cur] = now]
      /\ until' = [until EXCEPT ![cur] = 0]
      /\ UNCHANGED <<now, timers, wake, nextTimer, cur, dispatch, call, scan, pool, done, waiting, calls>>
  BY DEF Poll
<1>2. pc[cur] = "poll" /\ cur = dispatch BY TypesAre DEF Poll, Inv, OneDispatches
<1>3. Registered' = Registered /\ Left' = Left /\ Pooled' = Pooled
  BY <1>1 DEF Registered, Left, Pooled
<1>4. TimersTypeOK' BY <1>1 DEF Inv, TimersTypeOK
<1>5. GreenletsTypeOK' BY <1>1, NumbersAre DEF Inv, GreenletsTypeOK
<1>6. RestTypeOK' BY <1>1 DEF Inv, RestTypeOK
<1>7. OneDispatches' BY <1>1, <1>2 DEF Inv, OneDispatches, CurIsRight
<1>8. CurIsRight' BY <1>1, <1>2 DEF CurIsRight
<1>9. WakersAre' BY <1>2, <1>3 DEF Inv, WakersAre, CurIsRight, OneDispatches
<1>10. ScanIsRight' BY <1>1, <1>2 DEF Inv, ScanIsRight, CurIsRight, OneDispatches
<1>11. NextIsAhead' BY <1>1, <1>3 DEF Inv, NextIsAhead
<1>12. WakersSleep' BY <1>1, <1>3 DEF Inv, WakersSleep
<1>13. EventsAre' BY <1>1, NumbersAre DEF Inv, EventsAre
<1>14. WaitersAre' BY <1>1, <1>2 DEF Inv, WaitersAre, RestTypeOK
<1>15. PollIsRight' BY TypesAre, <1>1 DEF Inv, PollIsRight
<1> QED BY <1>4, <1>5, <1>6, <1>7, <1>8, <1>9, <1>10, <1>11, <1>12, <1>13, <1>14, <1>15 DEF Inv

LEMMA PollCalls ==
  ASSUME ReactorAssumption, Inv, Poll, calls < MaxCalls, calls' = calls + 1, pc' = [pc EXCEPT ![cur] = "run"], call' = [call EXCEPT ![cur] = Fd]
  PROVE  Inv'
<1>1. /\ pc' = [pc EXCEPT ![cur] = "run"]
      /\ call' = [call EXCEPT ![cur] = Fd]
      /\ calls' = calls + 1
      /\ ev' = [ev EXCEPT ![cur] = now]
      /\ until' = [until EXCEPT ![cur] = 0]
      /\ UNCHANGED <<now, timers, wake, nextTimer, cur, dispatch, scan, pool, done, waiting>>
  BY DEF Poll
<1>2. pc[cur] = "poll" /\ cur = dispatch BY TypesAre DEF Poll, Inv, OneDispatches
<1>3. Registered' = Registered /\ Left' = Left /\ Pooled' = Pooled
  BY <1>1 DEF Registered, Left, Pooled
<1>4. TimersTypeOK' BY <1>1 DEF Inv, TimersTypeOK
<1>5. GreenletsTypeOK' BY <1>1, NumbersAre DEF Inv, GreenletsTypeOK
<1>6. RestTypeOK'
  <2>1. calls' \in 0..MaxCalls BY ConstantsAre DEF Inv, RestTypeOK
  <2> QED BY <2>1, <1>1 DEF Inv, RestTypeOK
<1>7. OneDispatches' BY <1>1 DEF Inv, OneDispatches
<1>8. CurIsRight' BY <1>1 DEF Inv, CurIsRight
<1>9. WakersAre' BY <1>1, <1>3 DEF Inv, WakersAre, CurIsRight, OneDispatches
<1>10. ScanIsRight'
  BY TypesAre, <1>1, <1>2, NumbersAre, ConstantsAre DEF Inv, ScanIsRight, CurIsRight, OneDispatches
<1>11. NextIsAhead' BY <1>1, <1>3 DEF Inv, NextIsAhead
<1>12. WakersSleep' BY <1>1, <1>3 DEF Inv, WakersSleep
<1>13. EventsAre' BY <1>1, NumbersAre DEF Inv, EventsAre
<1>14. WaitersAre' BY <1>1, <1>2 DEF Inv, WaitersAre, RestTypeOK
<1>15. PollIsRight' BY TypesAre, <1>1 DEF Inv, PollIsRight
<1> QED BY <1>4, <1>5, <1>6, <1>7, <1>8, <1>9, <1>10, <1>11, <1>12, <1>13, <1>14, <1>15 DEF Inv

LEMMA update_timerKeeps ==
  ASSUME ReactorAssumption, Inv, NEW u \in User, NEW w \in Wakes, update_timer(u, w)
  PROVE  Inv'
<1>1. /\ wake' = [wake EXCEPT ![u] = w]
      /\ nextTimer' = Min2(nextTimer, w)
      /\ calls' = calls + 1
      /\ UNCHANGED <<now, timers, cur, dispatch, pc, call, ev, scan, until, pool, done, waiting>>
  BY DEF update_timer, NextAfter, gVars
<1>2. pc[cur] = "run" /\ calls < MaxCalls BY DEF update_timer
<1>3. w \in 0..Never BY DEF Wakes
<1>4. u \in Timer /\ u \notin G BY ConstantsAre
<1>5. nextTimer' \in 0..Never /\ nextTimer' <= nextTimer /\ nextTimer' <= w /\ nextTimer' \in {nextTimer, w}
  BY TypesAre, <1>1, <1>3, Min2Is
<1>6. Registered' = Registered /\ Left' = Left /\ Pooled' = Pooled
  BY <1>1 DEF Registered, Left, Pooled
<1>7. TimersTypeOK'
  <2>1. wake' \in [Timer -> 0..Never] /\ nextTimer' \in 0..Never
    BY TypesAre, <1>1, <1>3, <1>4, <1>5, <1>6, NumbersAre
  <2>2. now' \in 0..MaxTime BY <1>1 DEF Inv, TimersTypeOK
  <2>3. timers' \in Seq(Timer) /\ IsInjective(timers') BY <1>1 DEF Inv, TimersTypeOK
  <2> QED BY <2>1, <2>2, <2>3 DEF TimersTypeOK
<1>8. GreenletsTypeOK' BY <1>1 DEF Inv, GreenletsTypeOK
<1>9. RestTypeOK'
  <2>1. calls' \in 0..MaxCalls BY <1>1, <1>2, ConstantsAre DEF Inv, RestTypeOK
  <2> QED BY <2>1, <1>1 DEF Inv, RestTypeOK
<1>10. OneDispatches' BY <1>1 DEF Inv, OneDispatches
<1>11. CurIsRight' BY <1>1 DEF Inv, CurIsRight
<1>12. WakersAre' BY <1>1, <1>5, <1>6 DEF Inv, WakersAre
<1>13. ScanIsRight' BY <1>1 DEF Inv, ScanIsRight
<1>14. NextIsAhead'
  <2> SUFFICES ASSUME NEW x \in Registered' PROVE nextTimer' <= wake'[x] \/ x \in Left'
    BY DEF NextIsAhead
  <2>1. x \in Timer /\ wake[x] \in Nat /\ w \in Nat BY <1>6, <1>3, NumbersAre
  <2>2. nextTimer \in Nat /\ nextTimer' \in Nat BY <1>5, NumbersAre
  <2>3. CASE x = u
    <3>1. wake'[x] = w BY <2>3, <1>1, <2>1, TypesAre
    <3> QED BY <3>1, <1>5
  <2>4. CASE x # u
    <3>1. x \in Registered /\ wake'[x] = wake[x] BY <2>4, <1>1, <1>6
    <3>2. nextTimer <= wake[x] \/ x \in Left BY <3>1 DEF Inv, NextIsAhead
    <3>3. CASE x \in Left BY <3>3, <1>6
    <3>4. CASE nextTimer <= wake[x]
      <4>1. nextTimer' <= nextTimer BY <1>5
      <4>2. wake'[x] = wake[x] BY <3>1
      <4>3. nextTimer' <= wake[x] BY <4>1, <3>4, <2>1, <2>2
      <4> QED BY <4>2, <4>3
    <3> QED BY <3>2, <3>3, <3>4
  <2> QED BY <2>3, <2>4
<1>15. WakersSleep' BY <1>1, <1>4, <1>5, <1>6 DEF Inv, WakersSleep
<1>16. EventsAre' BY <1>1 DEF Inv, EventsAre
<1>17. WaitersAre' BY <1>1 DEF Inv, WaitersAre
<1>18. PollIsRight' BY <1>1, <1>2 DEF PollIsRight
<1> QED BY <1>7, <1>8, <1>9, <1>10, <1>11, <1>12, <1>13, <1>14, <1>15, <1>16, <1>17, <1>18 DEF Inv

LEMMA register_timerKeeps ==
  ASSUME ReactorAssumption, Inv, NEW u \in User, NEW w \in Wakes, register_timer(u, w)
  PROVE  Inv'
<1>1. /\ timers' = Append(timers, u)
      /\ wake' = [wake EXCEPT ![u] = w]
      /\ nextTimer' = Min2(nextTimer, w)
      /\ calls' = calls + 1
      /\ UNCHANGED <<now, cur, dispatch, pc, call, ev, scan, until, pool, done, waiting>>
  BY DEF register_timer, NextAfter, gVars
<1>2. pc[cur] = "run" /\ calls < MaxCalls BY DEF register_timer
<1>3. w \in 0..Never BY DEF Wakes
<1>4. u \in Timer /\ u \notin G BY ConstantsAre
<1>5. nextTimer' \in 0..Never /\ nextTimer' <= nextTimer /\ nextTimer' <= w /\ nextTimer' \in {nextTimer, w}
  BY TypesAre, <1>1, <1>3, Min2Is
<1>6. IsInjective(timers) BY DEF Inv, TimersTypeOK
<1>7. u \notin Registered BY TypesAre, ContainsIsIn DEF register_timer, Registered
<1>8. timers' \in Seq(Timer) /\ IsInjective(timers') /\ Registered' = Registered \cup {u}
  BY TypesAre, <1>1, <1>4, <1>6, <1>7, AppendIs DEF Registered
<1>9. Left' = Left /\ Pooled' = Pooled BY <1>1 DEF Left, Pooled
<1>10. TimersTypeOK'
  <2>1. wake' \in [Timer -> 0..Never] /\ nextTimer' \in 0..Never
    BY TypesAre, <1>1, <1>3, <1>4, <1>5, <1>6, <1>7, <1>8, <1>9, NumbersAre
  <2>2. now' \in 0..MaxTime BY <1>1 DEF Inv, TimersTypeOK
  <2>3. timers' \in Seq(Timer) /\ IsInjective(timers')
    BY <1>4, <1>5, <1>6, <1>7, <1>8, <1>9 DEF Inv, TimersTypeOK
  <2> QED BY <2>1, <2>2, <2>3 DEF TimersTypeOK
<1>11. GreenletsTypeOK' BY <1>1 DEF Inv, GreenletsTypeOK
<1>12. RestTypeOK'
  <2>1. calls' \in 0..MaxCalls BY <1>1, <1>2, ConstantsAre DEF Inv, RestTypeOK
  <2> QED BY <2>1, <1>1 DEF Inv, RestTypeOK
<1>13. OneDispatches' BY <1>1 DEF Inv, OneDispatches
<1>14. CurIsRight' BY <1>1 DEF Inv, CurIsRight
<1>15. WakersAre'
  BY <1>1, <1>4, <1>5, <1>6, <1>7, <1>8, <1>9 DEF Inv, WakersAre, CurIsRight, OneDispatches
<1>16. ScanIsRight' BY <1>1 DEF Inv, ScanIsRight
<1>17. NextIsAhead'
  <2> SUFFICES ASSUME NEW x \in Registered' PROVE nextTimer' <= wake'[x] \/ x \in Left'
    BY DEF NextIsAhead
  <2>1. x \in Timer /\ wake[x] \in Nat /\ w \in Nat BY <1>4, <1>8, <1>3, NumbersAre
  <2>2. nextTimer \in Nat /\ nextTimer' \in Nat BY <1>5, NumbersAre
  <2>3. CASE x = u
    <3>1. wake'[x] = w BY <2>3, <1>1, <2>1, TypesAre
    <3> QED BY <3>1, <1>5
  <2>4. CASE x # u
    <3>1. x \in Registered /\ wake'[x] = wake[x] BY <2>4, <1>1, <1>8
    <3>2. nextTimer <= wake[x] \/ x \in Left BY <3>1 DEF Inv, NextIsAhead
    <3>3. CASE x \in Left BY <3>3, <1>9
    <3>4. CASE nextTimer <= wake[x] BY <3>4, <3>1, <2>1, <1>5
    <3> QED BY <3>2, <3>3, <3>4
  <2> QED BY <2>3, <2>4
<1>18. WakersSleep' BY <1>1, <1>4, <1>5, <1>6, <1>7, <1>8, <1>9 DEF Inv, WakersSleep
<1>19. EventsAre' BY <1>1 DEF Inv, EventsAre
<1>20. WaitersAre' BY <1>1 DEF Inv, WaitersAre
<1>21. PollIsRight' BY <1>1, <1>2 DEF PollIsRight
<1> QED
  BY <1>10, <1>11, <1>12, <1>13, <1>14, <1>15, <1>16, <1>17, <1>18, <1>19, <1>20, <1>21 DEF Inv

LEMMA unregister_timerKeeps ==
  ASSUME ReactorAssumption, Inv, NEW u \in User, unregister_timer(u)
  PROVE  Inv'
<1>1. /\ timers' = RemoveFirst(timers, u)
      /\ wake' = [wake EXCEPT ![u] = Never]
      /\ calls' = calls + 1
      /\ UNCHANGED <<now, nextTimer, cur, dispatch, pc, call, ev, scan, until, pool, done, waiting>>
  BY DEF unregister_timer, gVars
<1>2. pc[cur] = "run" /\ calls < MaxCalls BY DEF unregister_timer
<1>3. u \in Timer /\ u \notin G BY ConstantsAre
<1>4. IsInjective(timers) BY DEF Inv, TimersTypeOK
<1>5. u \in Registered BY TypesAre, ContainsIsIn DEF unregister_timer, Registered
<1>6. timers' \in Seq(Timer) /\ IsInjective(timers') /\ Registered' = Registered \ {u}
  BY TypesAre, <1>1, <1>4, <1>5, RemoveFirstIs DEF Registered
<1>7. Left' = Left /\ Pooled' = Pooled BY <1>1 DEF Left, Pooled
<1>8. TimersTypeOK'
  <2>1. wake' \in [Timer -> 0..Never] /\ nextTimer' \in 0..Never BY TypesAre, <1>1, NumbersAre
  <2>2. now' \in 0..MaxTime BY <1>1 DEF Inv, TimersTypeOK
  <2>3. timers' \in Seq(Timer) /\ IsInjective(timers')
    BY <1>4, <1>5, <1>6, <1>7 DEF Inv, TimersTypeOK
  <2> QED BY <2>1, <2>2, <2>3 DEF TimersTypeOK
<1>9. GreenletsTypeOK' BY <1>1 DEF Inv, GreenletsTypeOK
<1>10. RestTypeOK'
  <2>1. calls' \in 0..MaxCalls BY <1>1, <1>2, ConstantsAre DEF Inv, RestTypeOK
  <2> QED BY <2>1, <1>1 DEF Inv, RestTypeOK
<1>11. OneDispatches' BY <1>1 DEF Inv, OneDispatches
<1>12. CurIsRight' BY <1>1 DEF Inv, CurIsRight
<1>13. WakersAre'
  BY <1>1, <1>3, <1>4, <1>5, <1>6, <1>7 DEF Inv, WakersAre, CurIsRight, OneDispatches
<1>14. ScanIsRight' BY <1>1 DEF Inv, ScanIsRight
<1>15. NextIsAhead' BY <1>1, <1>4, <1>5, <1>6, <1>7 DEF Inv, NextIsAhead
<1>16. WakersSleep' BY <1>1, <1>3, <1>4, <1>5, <1>6, <1>7 DEF Inv, WakersSleep
<1>17. EventsAre' BY <1>1 DEF Inv, EventsAre
<1>18. WaitersAre' BY <1>1 DEF Inv, WaitersAre
<1>19. PollIsRight' BY <1>1, <1>2 DEF PollIsRight
<1> QED BY <1>8, <1>9, <1>10, <1>11, <1>12, <1>13, <1>14, <1>15, <1>16, <1>17, <1>18, <1>19 DEF Inv

LEMMA completeKeeps ==
  ASSUME ReactorAssumption, Inv, complete
  PROVE  Inv'
<1>1. /\ done' = TRUE
      /\ wake' = [t \in Timer |-> IF t \in waiting THEN 0 ELSE wake[t]]
      /\ nextTimer' = IF waiting = {} THEN nextTimer ELSE Min2(nextTimer, 0)
      /\ UNCHANGED <<now, timers, cur, dispatch, pc, call, ev, scan, until, pool, waiting, calls>>
  BY DEF complete, Woken, NextAfter, gVars
<1>2. pc[cur] = "run" BY DEF complete
<1>3. \A g \in waiting : g \in Registered BY DEF Inv, WaitersAre, WakersAre, RestTypeOK
<1>4. nextTimer' = IF waiting = {} THEN nextTimer ELSE 0
  <2>1. Min2(nextTimer, 0) = 0 BY NumbersAre DEF Min2
  <2> QED BY <2>1, <1>1
<1>5. \A t \in Timer : wake'[t] = (IF t \in waiting THEN 0 ELSE wake[t]) /\ wake'[t] \in 0..Never
  BY <1>1, NumbersAre
<1>6. Registered' = Registered /\ Left' = Left /\ Pooled' = Pooled
  BY <1>1 DEF Registered, Left, Pooled
<1>7. TimersTypeOK'
  <2>1. wake' \in [Timer -> 0..Never] /\ nextTimer' \in 0..Never
    BY <1>1, <1>3, <1>4, <1>5, <1>6, NumbersAre
  <2>2. now' \in 0..MaxTime BY <1>1 DEF Inv, TimersTypeOK
  <2>3. timers' \in Seq(Timer) /\ IsInjective(timers') BY <1>1 DEF Inv, TimersTypeOK
  <2> QED BY <2>1, <2>2, <2>3 DEF TimersTypeOK
<1>8. GreenletsTypeOK' BY <1>1 DEF Inv, GreenletsTypeOK
<1>9. RestTypeOK' BY <1>1 DEF Inv, RestTypeOK
<1>10. OneDispatches' BY <1>1 DEF Inv, OneDispatches
<1>11. CurIsRight' BY <1>1 DEF Inv, CurIsRight
<1>12. WakersAre' BY <1>1, <1>5, <1>6 DEF Inv, WakersAre
<1>13. ScanIsRight' BY <1>1 DEF Inv, ScanIsRight
<1>14. NextIsAhead'
  <2> SUFFICES ASSUME NEW x \in Registered' PROVE nextTimer' <= wake'[x] \/ x \in Left'
    BY DEF NextIsAhead
  <2>1. x \in Registered /\ x \in Timer /\ wake[x] \in Nat /\ nextTimer \in Nat BY <1>6, NumbersAre
  <2>2. CASE waiting = {}
    <3>1. wake'[x] = wake[x] /\ nextTimer' = nextTimer BY <2>1, <2>2, <1>4, <1>5
    <3> QED BY <3>1, <2>1, <1>6 DEF Inv, NextIsAhead
  <2>3. CASE waiting # {}
    <3>1. nextTimer' = 0 /\ wake'[x] \in 0..Never BY <2>1, <2>3, <1>4, <1>5
    <3> QED BY <3>1, NumbersAre
  <2> QED BY <2>2, <2>3
<1>15. WakersSleep' BY <1>3, <1>4, <1>5, <1>6, NumbersAre, ConstantsAre DEF Inv, WakersSleep
<1>16. EventsAre' BY <1>1 DEF Inv, EventsAre
<1>17. WaitersAre' BY <1>1 DEF Inv, WaitersAre
<1>18. PollIsRight' BY <1>1, <1>2 DEF PollIsRight
<1> QED BY <1>7, <1>8, <1>9, <1>10, <1>11, <1>12, <1>13, <1>14, <1>15, <1>16, <1>17, <1>18 DEF Inv

LEMMA TickKeeps ==
  ASSUME ReactorAssumption, Inv, Tick
  PROVE  Inv'
<1>1. /\ now' = now + 1
      /\ UNCHANGED <<timers, wake, nextTimer, cur, dispatch, pc, call, ev, scan, until, pool, done, waiting, calls>>
  BY DEF Tick, gVars, cVars
<1>2. now < MaxTime /\ (pc[cur] = "run" \/ (pc[cur] = "poll" /\ now < until[cur])) BY DEF Tick
<1>3. Registered' = Registered /\ Left' = Left /\ Pooled' = Pooled
  BY <1>1 DEF Registered, Left, Pooled
<1>4. TimersTypeOK'
  <2>1. wake' \in [Timer -> 0..Never] /\ nextTimer' \in 0..Never BY TypesAre, <1>1
  <2>2. now' \in 0..MaxTime BY <1>1, <1>2, ConstantsAre DEF Inv, TimersTypeOK
  <2>3. timers' \in Seq(Timer) /\ IsInjective(timers') BY <1>1 DEF Inv, TimersTypeOK
  <2> QED BY <2>1, <2>2, <2>3 DEF TimersTypeOK
<1>5. GreenletsTypeOK' BY <1>1 DEF Inv, GreenletsTypeOK
<1>6. RestTypeOK' BY <1>1 DEF Inv, RestTypeOK
<1>7. OneDispatches' BY <1>1 DEF Inv, OneDispatches
<1>8. CurIsRight' BY <1>1 DEF Inv, CurIsRight
<1>9. WakersAre' BY <1>1, <1>3 DEF Inv, WakersAre
<1>10. ScanIsRight' BY <1>1 DEF Inv, ScanIsRight
<1>11. NextIsAhead' BY <1>1, <1>3 DEF Inv, NextIsAhead
<1>12. WakersSleep' BY <1>1, <1>3 DEF Inv, WakersSleep
<1>13. EventsAre'
  <2> SUFFICES ASSUME NEW g \in G PROVE ev'[g] <= now' BY DEF EventsAre
  <2>1. ev'[g] = ev[g] /\ now' = now + 1 /\ ev[g] \in Nat /\ now \in Nat BY <1>1, NumbersAre
  <2>2. ev[g] <= now BY DEF Inv, EventsAre
  <2> QED BY <2>1, <2>2
<1>14. WaitersAre' BY <1>1 DEF Inv, WaitersAre
<1>15. PollIsRight'
  <2> SUFFICES ASSUME pc[cur] = "poll", NEW t \in Registered PROVE until[cur] <= now + 1 \/ until[cur] <= wake[t]
    BY <1>1, <1>3 DEF PollIsRight
  <2>1. until[cur] \in Nat /\ now \in Nat BY TypesAre, NumbersAre
  <2>2. until[cur] <= now \/ until[cur] <= wake[t] BY DEF Inv, PollIsRight
  <2> QED BY <2>1, <2>2
<1> QED BY <1>4, <1>5, <1>6, <1>7, <1>8, <1>9, <1>10, <1>11, <1>12, <1>13, <1>14, <1>15 DEF Inv

\* The greenlet that takes over comes from the pool or is a new one.
LEMMA TakesOver ==
  ASSUME ReactorAssumption, Inv, pc[cur] = "run", cur = dispatch, NEW h, NEW left,
         h = IF pool # <<>> THEN Last(pool) ELSE CHOOSE g \in Fresh : TRUE,
         left = IF pool # <<>> THEN Front(pool) ELSE pool,
         pool # <<>> \/ Fresh # {}
  PROVE  /\ h \in G /\ h # cur /\ pc[h] \in {"idle", "unused"}
         /\ left \in Seq(G) /\ IsInjective(left)
         /\ \A g \in G : g \in Range(left) <=> pc[g] = "idle" /\ g # h
<1>1. pool \in Seq(G) /\ IsInjective(pool) BY DEF Inv, RestTypeOK
<1>2. \A g \in G : pc[g] = "idle" <=> g \in Range(pool) BY DEF Inv, WakersAre, Pooled
<1>3. CASE pool # <<>>
  <2>1. h = Last(pool) /\ left = Front(pool) BY <1>3
  <2>2. h \in G /\ left \in Seq(G) /\ Range(left) = Range(pool) \ {h} /\ h \in Range(pool) /\ IsInjective(left)
    BY <1>1, <1>3, FrontIs
  <2> QED BY <1>2, <2>2
<1>4. CASE pool = <<>>
  <2>1. h \in Fresh /\ left = pool BY <1>4
  <2>2. h \in G /\ pc[h] = "unused" BY <2>1 DEF Fresh
  <2>3. \A g \in G : pc[g] # "idle" BY <1>2, <1>4 DEF Range
  <2> QED BY <1>1, <1>2, <2>1, <2>2, <2>3
<1> QED BY <1>3, <1>4

LEMMA PauseDispatchKeeps ==
  ASSUME ReactorAssumption, Inv, NEW w \in Wakes, pc[cur] = "run", PauseDispatch(w), UNCHANGED <<now, done, calls>>,
         waiting' = waiting \/ waiting' = waiting \cup {cur}
  PROVE  Inv'
<1>1. PICK h \in G :
        /\ h # cur /\ pc[h] \in {"idle", "unused"}
        /\ pool' \in Seq(G) /\ IsInjective(pool') /\ \A g \in G : g \in Pooled' <=> pc[g] = "idle" /\ g # h
        /\ cur' = h /\ dispatch' = h /\ timers' = Append(timers, cur) /\ wake' = [wake EXCEPT ![cur] = w]
        /\ nextTimer' = 0 /\ \E p \in {"top", "poll"} : pc' = [pc EXCEPT ![cur] = "paused", ![h] = p]
        /\ ev' = [ev EXCEPT ![h] = now, ![cur] = 0] /\ until' = [until EXCEPT ![h] = now]
        /\ call' = [call EXCEPT ![h] = Fd] /\ scan' = [scan EXCEPT ![cur] = <<>>]
        /\ UNCHANGED <<now, done, calls>>
  <2> DEFINE h == IF pool # <<>> THEN Last(pool) ELSE CHOOSE g \in Fresh : TRUE
             left == IF pool # <<>> THEN Front(pool) ELSE pool
  <2>1. cur = dispatch /\ (pool # <<>> \/ Fresh # {}) BY DEF PauseDispatch
  <2>2. /\ h \in G /\ h # cur /\ pc[h] \in {"idle", "unused"} /\ left \in Seq(G) /\ IsInjective(left)
        /\ \A g \in G : g \in Range(left) <=> pc[g] = "idle" /\ g # h
    BY <2>1, TakesOver
  <2>3. /\ cur' = h /\ dispatch' = h /\ pool' = left /\ timers' = Append(timers, cur)
        /\ wake' = [wake EXCEPT ![cur] = w] /\ nextTimer' = 0
        /\ pc' = [pc EXCEPT ![cur] = "paused", ![h] = IF pc[h] = "unused" \/ call[h] = Fd THEN "top" ELSE "poll"]
        /\ ev' = [ev EXCEPT ![h] = now, ![cur] = 0] /\ until' = [until EXCEPT ![h] = now]
        /\ call' = [call EXCEPT ![h] = Fd] /\ scan' = [scan EXCEPT ![cur] = <<>>]
    BY DEF PauseDispatch, Dispatcher, NextAfterSwitch
  <2> HIDE DEF h, left
  <2>4. \E p \in {"top", "poll"} : pc' = [pc EXCEPT ![cur] = "paused", ![h] = p] BY <2>3
  <2> QED BY <2>2, <2>3, <2>4 DEF Pooled
<1>2. cur = dispatch /\ cur \in G BY TypesAre DEF PauseDispatch
<1>3. w \in 0..Never BY DEF Wakes
<1>4. IsInjective(timers) /\ cur \in Timer BY <1>2, ConstantsAre DEF Inv, TimersTypeOK
<1>5. cur \notin Registered BY <1>2 DEF Inv, WakersAre
<1>6. timers' \in Seq(Timer) /\ IsInjective(timers') /\ Registered' = Registered \cup {cur}
  BY TypesAre, <1>1, <1>4, <1>5, AppendIs DEF Registered
<1>7. scan[h] = <<>> /\ scan' = [g \in G |-> <<>>] BY TypesAre, <1>1, <1>2 DEF Inv, ScanIsRight
<1>8. Left' = {} BY <1>1, <1>7 DEF Left, Range
<1>9. PICK p \in {"top", "poll"} : pc' = [pc EXCEPT ![cur] = "paused", ![h] = p] BY <1>1
<1>10. TimersTypeOK'
  <2>1. wake' \in [Timer -> 0..Never] /\ nextTimer' \in 0..Never
    BY TypesAre, <1>1, <1>3, <1>4, <1>5, <1>6, <1>7, <1>8, <1>9, NumbersAre
  <2>2. now' \in 0..MaxTime BY DEF Inv, TimersTypeOK
  <2>3. timers' \in Seq(Timer) /\ IsInjective(timers')
    BY <1>4, <1>5, <1>6, <1>7, <1>8, <1>9 DEF Inv, TimersTypeOK
  <2> QED BY <2>1, <2>2, <2>3 DEF TimersTypeOK
<1>11. GreenletsTypeOK'
  <2>1. cur' \in G /\ dispatch' \in G BY <1>1
  <2>2. call' \in [G -> User \cup {Fd}] BY <1>1, TypesAre
  <2>3. pc' \in [G -> {"top", "scan", "poll", "run", "switched", "paused", "idle", "unused"}]
    BY <1>9, TypesAre
  <2>4. ev' \in [G -> 0..Never] /\ until' \in [G -> 0..Never] BY <1>1, NumbersAre, TypesAre
  <2>5. scan' \in [G -> Seq(Timer)] BY <1>7
  <2> QED BY <2>1, <2>2, <2>3, <2>4, <2>5 DEF GreenletsTypeOK
<1>12. RestTypeOK' BY <1>1, <1>2 DEF Inv, RestTypeOK
<1>13. OneDispatches'
  BY TypesAre, <1>1, <1>2, NumbersAre, ConstantsAre DEF Inv, OneDispatches, CurIsRight
<1>14. CurIsRight' BY TypesAre, <1>1 DEF Inv, CurIsRight
<1>15. WakersAre'
  BY TypesAre, <1>1, <1>3, <1>4, <1>5, <1>6, <1>7, <1>8, <1>9, NumbersAre, ConstantsAre
     DEF Inv, WakersAre, CurIsRight, OneDispatches
<1>16. ScanIsRight'
  BY TypesAre, <1>1, <1>2, NumbersAre, ConstantsAre DEF Inv, ScanIsRight, CurIsRight, OneDispatches
<1>17. NextIsAhead'
  <2> SUFFICES ASSUME NEW x \in Registered' PROVE 0 <= wake'[x] BY <1>1 DEF NextIsAhead
  <2>1. x \in Timer BY <1>4, <1>6, NumbersAre
  <2>2. wake'[x] \in 0..Never BY <2>1, <1>1, <1>3, TypesAre
  <2> QED BY <2>2, NumbersAre
<1>18. WakersSleep' BY <1>1, <1>4, <1>5, <1>6, <1>7, <1>8, <1>9 DEF Inv, WakersSleep
<1>19. EventsAre'
  <2> SUFFICES ASSUME NEW g \in G PROVE ev'[g] <= now BY <1>1 DEF EventsAre
  <2>1. ev'[g] \in {now, 0, ev[g]} BY <1>1, TypesAre
  <2>2. ev[g] <= now /\ ev[g] \in Nat BY NumbersAre DEF Inv, EventsAre
  <2> QED BY <2>1, <2>2, NumbersAre
<1>20. WaitersAre'
  <2> SUFFICES ASSUME NEW g \in waiting', g # cur PROVE pc'[g] = "paused"
    <3>1. pc'[cur] = "paused" BY <1>1, TypesAre
    <3> QED BY <3>1 DEF WaitersAre
  <2>1. g \in waiting /\ g \in G BY DEF Inv, RestTypeOK
  <2>2. pc[g] = "paused" BY DEF Inv, WaitersAre
  <2>3. g # h BY <2>2, <1>1
  <2> QED BY <2>1, <2>2, <2>3, <1>1, <1>9, TypesAre
<1>21. PollIsRight' BY TypesAre, <1>1, NumbersAre DEF Inv, PollIsRight
<1> QED
  BY <1>10, <1>11, <1>12, <1>13, <1>14, <1>15, <1>16, <1>17, <1>18, <1>19, <1>20, <1>21 DEF Inv

LEMMA PauseAgainKeeps ==
  ASSUME ReactorAssumption, Inv, NEW w \in Wakes, pc[cur] = "run", PauseAgain(w), UNCHANGED <<now, done, calls>>,
         waiting' = waiting \/ waiting' = waiting \cup {cur}
  PROVE  Inv'
<1>1. /\ wake' = [wake EXCEPT ![cur] = w]
      /\ nextTimer' = Min2(nextTimer, w)
      /\ scan' = [scan EXCEPT ![dispatch] = Tail(@)]
      /\ pc' = [pc EXCEPT ![cur] = "paused", ![dispatch] = "scan"]
      /\ cur' = dispatch
      /\ (waiting' = waiting \/ waiting' = waiting \cup {cur})
      /\ UNCHANGED <<now, timers, dispatch, call, ev, until, pool, done, calls>>
  BY DEF PauseAgain, Called
<1>2. cur # dispatch /\ cur \in G /\ pc[dispatch] = "switched"
  BY TypesAre DEF PauseAgain, Inv, CurIsRight
<1>3. w \in 0..Never BY DEF Wakes
<1>4. scan[dispatch] # <<>> /\ Head(scan[dispatch]) = cur BY <1>2 DEF Inv, ScanIsRight
<1>5. Tail(scan[dispatch]) \in Seq(Timer) /\ Left = Range(Tail(scan[dispatch])) \cup {cur}
  BY TypesAre, <1>4, TailIs DEF Left
<1>6. Registered' = Registered /\ Left = Left' \cup {cur} /\ Pooled' = Pooled
  BY <1>1, <1>5 DEF Registered, Left, Pooled
<1>7. nextTimer' \in 0..Never /\ nextTimer' <= nextTimer /\ nextTimer' <= w /\ nextTimer' \in {nextTimer, w}
  BY TypesAre, <1>1, <1>3, Min2Is
<1>8. TimersTypeOK'
  <2>1. wake' \in [Timer -> 0..Never] /\ nextTimer' \in 0..Never
    BY TypesAre, <1>1, <1>3, <1>4, <1>5, <1>6, <1>7, NumbersAre
  <2>2. now' \in 0..MaxTime BY DEF Inv, TimersTypeOK
  <2>3. timers' \in Seq(Timer) /\ IsInjective(timers') BY <1>1 DEF Inv, TimersTypeOK
  <2> QED BY <2>1, <2>2, <2>3 DEF TimersTypeOK
<1>9. GreenletsTypeOK' BY <1>1, <1>4, <1>5, <1>6, <1>7 DEF Inv, GreenletsTypeOK
<1>10. RestTypeOK' BY <1>1, <1>2 DEF Inv, RestTypeOK
<1>11. OneDispatches' BY TypesAre, <1>1 DEF Inv, OneDispatches, CurIsRight
<1>12. CurIsRight' BY TypesAre, <1>1 DEF Inv, CurIsRight
<1>13. WakersAre'
  BY TypesAre, <1>1, <1>3, <1>4, <1>5, <1>6, <1>7, NumbersAre, ConstantsAre
     DEF Inv, WakersAre, CurIsRight, OneDispatches
<1>14. ScanIsRight' BY TypesAre, <1>1 DEF Inv, ScanIsRight, CurIsRight, OneDispatches
<1>15. NextIsAhead'
  <2> SUFFICES ASSUME NEW x \in Registered PROVE nextTimer' <= wake'[x] \/ x \in Left'
    BY <1>6 DEF NextIsAhead
  <2>1. x \in Timer /\ wake[x] \in Nat /\ w \in Nat /\ nextTimer \in Nat /\ nextTimer' \in Nat
    BY <1>3, <1>7, NumbersAre
  <2>2. CASE x = cur BY <2>1, <2>2, <1>1, <1>7, TypesAre
  <2>3. CASE x # cur
    <3>1. wake'[x] = wake[x] BY <2>3, <1>1
    <3>2. nextTimer <= wake[x] \/ x \in Left BY DEF Inv, NextIsAhead
    <3>3. CASE x \in Left BY <2>3, <3>3, <1>6
    <3>4. CASE nextTimer <= wake[x] BY <3>1, <3>4, <2>1, <1>7
    <3> QED BY <3>2, <3>3, <3>4
  <2> QED BY <2>2, <2>3
<1>16. WakersSleep'
  <2> SUFFICES ASSUME NEW g \in G, g \notin Registered PROVE wake'[g] = Never
    BY <1>6 DEF WakersSleep
  <2>1. cur \in Registered BY <1>2 DEF Inv, WakersAre
  <2>2. wake'[g] = wake[g] BY <2>1, <1>1
  <2> QED BY <2>2 DEF Inv, WakersSleep
<1>17. EventsAre' BY <1>1 DEF Inv, EventsAre
<1>18. WaitersAre'
  <2> SUFFICES ASSUME NEW g \in waiting', g # cur PROVE pc'[g] = "paused"
    <3>1. pc'[cur] = "paused" BY <1>1, TypesAre
    <3> QED BY <3>1 DEF WaitersAre
  <2>1. g \in waiting /\ g \in G BY DEF Inv, RestTypeOK
  <2>2. pc[g] = "paused" BY DEF Inv, WaitersAre
  <2>3. g # dispatch BY <2>2, <1>2
  <2> QED BY <2>1, <2>2, <2>3, <1>1, TypesAre
<1>19. PollIsRight' BY TypesAre, <1>1 DEF Inv, PollIsRight
<1> QED BY <1>8, <1>9, <1>10, <1>11, <1>12, <1>13, <1>14, <1>15, <1>16, <1>17, <1>18, <1>19 DEF Inv

LEMMA ReturnOfFd ==
  ASSUME ReactorAssumption, Inv, NEW w \in Wakes, Return(w), cur = dispatch, call[cur] = Fd
  PROVE  Inv'
<1>1. /\ pc' = [pc EXCEPT ![cur] = "top"]
      /\ call' = [call EXCEPT ![cur] = Fd]
      /\ UNCHANGED <<now, timers, wake, nextTimer, cur, dispatch, ev, scan, until, pool, done, waiting, calls>>
  BY DEF Return, cVars
<1>2. pc[cur] = "run" /\ cur = dispatch /\ call[cur] = Fd BY DEF Return
<1>3. Registered' = Registered /\ Left' = Left /\ Pooled' = Pooled
  BY <1>1 DEF Registered, Left, Pooled
<1>4. TimersTypeOK' BY <1>1 DEF Inv, TimersTypeOK
<1>5. GreenletsTypeOK' BY <1>1 DEF Inv, GreenletsTypeOK
<1>6. RestTypeOK' BY <1>1 DEF Inv, RestTypeOK
<1>7. OneDispatches' BY <1>1 DEF Inv, OneDispatches
<1>8. CurIsRight' BY <1>1 DEF Inv, CurIsRight
<1>9. WakersAre' BY <1>1, <1>3 DEF Inv, WakersAre, CurIsRight, OneDispatches
<1>10. ScanIsRight' BY <1>1, <1>2 DEF Inv, ScanIsRight, CurIsRight, OneDispatches
<1>11. NextIsAhead' BY <1>1, <1>3 DEF Inv, NextIsAhead
<1>12. WakersSleep' BY <1>1, <1>3 DEF Inv, WakersSleep
<1>13. EventsAre' BY <1>1 DEF Inv, EventsAre
<1>14. WaitersAre' BY <1>1, <1>2 DEF Inv, WaitersAre, RestTypeOK
<1>15. PollIsRight' BY <1>1, <1>3 DEF Inv, PollIsRight
<1> QED BY <1>4, <1>5, <1>6, <1>7, <1>8, <1>9, <1>10, <1>11, <1>12, <1>13, <1>14, <1>15 DEF Inv

LEMMA ReturnOfTimer ==
  ASSUME ReactorAssumption, Inv, NEW w \in Wakes, Return(w), cur = dispatch, call[cur] # Fd
  PROVE  Inv'
<1>1. /\ pc' = [pc EXCEPT ![cur] = "scan"]
      /\ call' = [call EXCEPT ![cur] = Fd]
      /\ wake' = [wake EXCEPT ![call[cur]] = w]
      /\ nextTimer' = Min2(nextTimer, w)
      /\ scan' = [scan EXCEPT ![cur] = Tail(@)]
      /\ UNCHANGED <<now, timers, cur, dispatch, ev, until, pool, done, waiting, calls>>
  BY DEF Return, Called, cVars
<1>2. pc[cur] = "run" /\ cur = dispatch /\ call[cur] # Fd BY DEF Return
<1>3. w \in 0..Never BY DEF Wakes
<1>4. PICK t \in User : t = call[cur] BY TypesAre, <1>2
<1>5. scan[cur] # <<>> /\ Head(scan[cur]) = t /\ t \in Timer /\ t \notin G
  BY <1>2, <1>4, ConstantsAre DEF Inv, ScanIsRight
<1>6. Tail(scan[cur]) \in Seq(Timer) /\ Left = Range(Tail(scan[cur])) \cup {t}
  BY TypesAre, <1>5, TailIs DEF Left
<1>7. Registered' = Registered /\ Left = Left' \cup {t} /\ Pooled' = Pooled
  BY <1>1, <1>6 DEF Registered, Left, Pooled
<1>8. nextTimer' \in 0..Never /\ nextTimer' <= nextTimer /\ nextTimer' <= w /\ nextTimer' \in {nextTimer, w}
  BY TypesAre, <1>1, <1>3, Min2Is
<1>9. TimersTypeOK'
  <2>1. wake' \in [Timer -> 0..Never] /\ nextTimer' \in 0..Never
    BY TypesAre, <1>1, <1>3, <1>4, <1>5, <1>6, <1>7, <1>8, NumbersAre
  <2>2. now' \in 0..MaxTime BY <1>1 DEF Inv, TimersTypeOK
  <2>3. timers' \in Seq(Timer) /\ IsInjective(timers') BY <1>1 DEF Inv, TimersTypeOK
  <2> QED BY <2>1, <2>2, <2>3 DEF TimersTypeOK
<1>10. GreenletsTypeOK' BY <1>1, <1>4, <1>5, <1>6, <1>7, <1>8 DEF Inv, GreenletsTypeOK
<1>11. RestTypeOK' BY <1>1 DEF Inv, RestTypeOK
<1>12. OneDispatches' BY <1>1 DEF Inv, OneDispatches
<1>13. CurIsRight' BY <1>1 DEF Inv, CurIsRight
<1>14. WakersAre'
  BY <1>1, <1>4, <1>5, <1>6, <1>7, <1>8 DEF Inv, WakersAre, CurIsRight, OneDispatches
<1>15. ScanIsRight' BY TypesAre, <1>1 DEF Inv, ScanIsRight, CurIsRight, OneDispatches
<1>16. NextIsAhead'
  <2> SUFFICES ASSUME NEW x \in Registered PROVE nextTimer' <= wake'[x] \/ x \in Left'
    BY <1>7 DEF NextIsAhead
  <2>1. x \in Timer /\ wake[x] \in Nat /\ w \in Nat /\ nextTimer \in Nat /\ nextTimer' \in Nat
    BY <1>3, <1>8, NumbersAre
  <2>2. CASE x = t BY <2>1, <2>2, <1>1, <1>4, <1>8, TypesAre
  <2>3. CASE x # t
    <3>1. wake'[x] = wake[x] BY <2>3, <1>1, <1>4
    <3>2. nextTimer <= wake[x] \/ x \in Left BY DEF Inv, NextIsAhead
    <3>3. CASE x \in Left BY <2>3, <3>3, <1>7
    <3>4. CASE nextTimer <= wake[x] BY <3>1, <3>4, <2>1, <1>8
    <3> QED BY <3>2, <3>3, <3>4
  <2> QED BY <2>2, <2>3
<1>17. WakersSleep' BY <1>1, <1>4, <1>5, <1>6, <1>7, <1>8 DEF Inv, WakersSleep
<1>18. EventsAre' BY <1>1 DEF Inv, EventsAre
<1>19. WaitersAre' BY <1>1, <1>2 DEF Inv, WaitersAre, RestTypeOK
<1>20. PollIsRight' BY <1>1, <1>2 DEF PollIsRight
<1> QED BY <1>9, <1>10, <1>11, <1>12, <1>13, <1>14, <1>15, <1>16, <1>17, <1>18, <1>19, <1>20 DEF Inv

LEMMA ReturnToPool ==
  ASSUME ReactorAssumption, Inv, NEW w \in Wakes, Return(w), cur # dispatch
  PROVE  Inv'
<1>1. /\ timers' = RemoveFirst(timers, cur)
      /\ pool' = Append(pool, cur)
      /\ wake' = [t \in Timer |-> IF t = cur THEN Never ELSE IF t = call[cur] THEN w ELSE wake[t]]
      /\ nextTimer' = Min2(nextTimer, w)
      /\ scan' = [scan EXCEPT ![dispatch] = Tail(@)]
      /\ pc' = [pc EXCEPT ![cur] = "idle", ![dispatch] = "scan"]
      /\ cur' = dispatch
      /\ UNCHANGED <<now, dispatch, call, ev, until, done, waiting, calls>>
  BY DEF Return, WithoutWaker, cVars
<1>2. pc[cur] = "run" /\ cur # dispatch /\ cur \in G /\ pc[dispatch] = "switched"
  BY TypesAre DEF Inv, CurIsRight
<1>3. w \in 0..Never BY DEF Wakes
<1>4. scan[dispatch] # <<>> /\ Head(scan[dispatch]) = cur BY <1>2 DEF Inv, ScanIsRight
<1>5. Tail(scan[dispatch]) \in Seq(Timer) /\ Left = Range(Tail(scan[dispatch])) \cup {cur}
  BY TypesAre, <1>4, TailIs DEF Left
<1>6. IsInjective(timers) /\ pool \in Seq(G) /\ IsInjective(pool)
  BY DEF Inv, TimersTypeOK, RestTypeOK
<1>7. cur \in Registered /\ cur \notin Pooled /\ call[cur] \notin G
  BY TypesAre, <1>2, ConstantsAre DEF Inv, WakersAre, G, Fd
<1>8. timers' \in Seq(Timer) /\ IsInjective(timers') /\ Registered' = Registered \ {cur}
  BY TypesAre, <1>1, <1>6, <1>7, RemoveFirstIs DEF Registered
<1>9. pool' \in Seq(G) /\ IsInjective(pool') /\ Pooled' = Pooled \cup {cur}
  BY <1>1, <1>2, <1>6, <1>7, AppendIs DEF Pooled
<1>10. Left = Left' \cup {cur} BY <1>1, <1>5 DEF Left
<1>11. nextTimer' \in 0..Never /\ nextTimer' <= nextTimer /\ nextTimer' <= w /\ nextTimer' \in {nextTimer, w}
  BY TypesAre, <1>1, <1>3, Min2Is
<1>12. \A t \in Timer : wake'[t] = IF t = cur THEN Never ELSE IF t = call[cur] THEN w ELSE wake[t]
  BY <1>1
<1>13. TimersTypeOK'
  <2>1. wake' \in [Timer -> 0..Never] /\ nextTimer' \in 0..Never
    BY <1>1, <1>3, <1>4, <1>5, <1>6, <1>7, <1>8, <1>9, <1>10, <1>11, <1>12, NumbersAre
  <2>2. now' \in 0..MaxTime BY <1>1 DEF Inv, TimersTypeOK
  <2>3. timers' \in Seq(Timer) /\ IsInjective(timers')
    BY <1>4, <1>5, <1>6, <1>7, <1>8, <1>9, <1>10, <1>11, <1>12 DEF Inv, TimersTypeOK
  <2> QED BY <2>1, <2>2, <2>3 DEF TimersTypeOK
<1>14. GreenletsTypeOK'
  BY <1>1, <1>4, <1>5, <1>6, <1>7, <1>8, <1>9, <1>10, <1>11, <1>12 DEF Inv, GreenletsTypeOK
<1>15. RestTypeOK'
  BY <1>1, <1>4, <1>5, <1>6, <1>7, <1>8, <1>9, <1>10, <1>11, <1>12 DEF Inv, RestTypeOK
<1>16. OneDispatches' BY TypesAre, <1>1 DEF Inv, OneDispatches, CurIsRight
<1>17. CurIsRight' BY TypesAre, <1>1 DEF Inv, CurIsRight
<1>18. WakersAre'
  BY TypesAre, <1>1, <1>3, <1>4, <1>5, <1>6, <1>7, <1>8, <1>9, <1>10, <1>11, <1>12, NumbersAre, ConstantsAre
     DEF Inv, WakersAre, CurIsRight, OneDispatches
<1>19. ScanIsRight' BY TypesAre, <1>1 DEF Inv, ScanIsRight, CurIsRight, OneDispatches
<1>20. NextIsAhead'
  <2> SUFFICES ASSUME NEW x \in Registered, x # cur PROVE nextTimer' <= wake'[x] \/ x \in Left'
    BY <1>8 DEF NextIsAhead
  <2>1. x \in Timer /\ wake[x] \in Nat /\ w \in Nat /\ nextTimer \in Nat /\ nextTimer' \in Nat
    BY <1>3, <1>11, NumbersAre
  <2>2. CASE x = call[cur] BY <2>1, <2>2, <1>11, <1>12
  <2>3. CASE x # call[cur]
    <3>1. wake'[x] = wake[x] BY <2>1, <2>3, <1>12
    <3>2. nextTimer <= wake[x] \/ x \in Left BY DEF Inv, NextIsAhead
    <3>3. CASE x \in Left BY <3>3, <1>10
    <3>4. CASE nextTimer <= wake[x]
      <4>1. nextTimer' <= nextTimer BY <1>11
      <4>2. nextTimer' <= wake[x] BY <4>1, <3>4, <2>1
      <4> QED BY <4>2, <3>1
    <3> QED BY <3>2, <3>3, <3>4
  <2> QED BY <2>2, <2>3
<1>21. WakersSleep'
  BY <1>3, <1>4, <1>5, <1>6, <1>7, <1>8, <1>9, <1>10, <1>11, <1>12, NumbersAre, ConstantsAre DEF Inv, WakersSleep
<1>22. EventsAre' BY <1>1 DEF Inv, EventsAre
<1>23. WaitersAre' BY TypesAre, <1>1, <1>2, NumbersAre, ConstantsAre DEF Inv, WaitersAre, RestTypeOK
<1>24. PollIsRight' BY TypesAre, <1>1 DEF Inv, PollIsRight
<1> QED
  BY <1>13, <1>14, <1>15, <1>16, <1>17, <1>18, <1>19, <1>20, <1>21, <1>22, <1>23, <1>24 DEF Inv

-----------------------------------------------------------------------------
\* The timers of the program in some order.
LEMMA SetToSeqIs ==
  ASSUME NEW S, IsFiniteSet(S)
  PROVE  /\ SetToSeq(S) \in Seq(S) /\ IsInjective(SetToSeq(S)) /\ Range(SetToSeq(S)) \subseteq S
<1>1. Cardinality(S) \in Nat /\ ExistsBijection(1..Cardinality(S), S) BY FS_CardinalityType
<1>2. \E f \in [1..Cardinality(S) -> S] : IsInjective(f)
  BY <1>1 DEF ExistsBijection, Bijection, Injection
<1>3. SetToSeq(S) \in [1..Cardinality(S) -> S] /\ IsInjective(SetToSeq(S)) BY <1>2 DEF SetToSeq
<1>4. SetToSeq(S) \in Seq(S) BY <1>1, <1>3
<1> QED BY <1>3, <1>4, RangeOfSeq

LEMMA InitIsInv ==
  ASSUME ReactorAssumption, Init
  PROVE  Inv
<1>1. PICK registered \in SUBSET User :
        timers = SetToSeq(registered) /\ \A t \in Timer \ registered : wake[t] = Never
  BY DEF Init
<1>2. /\ now = 0 /\ wake \in [Timer -> {0, Never}] /\ nextTimer = Min(Range(wake)) /\ cur = 1 /\ dispatch = 1
      /\ pc = [g \in G |-> IF g = 1 THEN "top" ELSE "unused"] /\ call = [g \in G |-> Fd] /\ ev = [g \in G |-> 0]
      /\ scan = [g \in G |-> <<>>] /\ until = [g \in G |-> 0]
      /\ pool = <<>> /\ done = FALSE /\ waiting = {} /\ calls = 0
  BY DEF Init
<1>3. timers \in Seq(registered) /\ IsInjective(timers) /\ Registered \subseteq registered
  <2>1. IsFiniteSet(registered) BY FS_Subset DEF ReactorAssumption
  <2> QED BY <1>1, <2>1, SetToSeqIs DEF Registered
<1>4. nextTimer \in {0, Never} /\ \A t \in Timer : nextTimer <= wake[t]
  <2>1. Range(wake) \subseteq {0, Never} /\ Range(wake) # {} BY <1>2, ConstantsAre DEF Range
  <2>2. 0 <= 0 /\ 0 <= Never /\ Never <= Never BY ConstantsAre
  <2>3. \E m \in Range(wake) : \A x \in Range(wake) : m <= x
    <3>1. CASE 0 \in Range(wake) BY <2>1, <2>2
    <3>2. CASE 0 \notin Range(wake) BY <2>1, <2>2
    <3> QED BY <3>1, <3>2
  <2>4. nextTimer \in Range(wake) /\ \A x \in Range(wake) : nextTimer <= x BY <1>2, <2>3 DEF Min
  <2> QED BY <1>2, <2>1, <2>4 DEF Range
<1>5. 0 \in 0..Never /\ Never \in 0..Never /\ 0 \in 0..MaxTime /\ 0 \in 0..MaxCalls BY ConstantsAre
<1>6. TimersTypeOK
  <2>1. timers \in Seq(Timer) BY <1>3, ConstantsAre
  <2>2. wake \in [Timer -> 0..Never] /\ nextTimer \in 0..Never BY <1>2, <1>4, <1>5
  <2> QED BY <1>2, <1>3, <1>5, <2>1, <2>2 DEF TimersTypeOK
<1>7. GreenletsTypeOK BY <1>2, ConstantsAre DEF GreenletsTypeOK
<1>8. RestTypeOK
  <2>1. pool \in Seq(G) /\ IsInjective(pool) BY <1>2 DEF IsInjective
  <2> QED BY <1>2, <1>5, <2>1 DEF RestTypeOK
<1>9. OneDispatches /\ CurIsRight /\ ScanIsRight
  BY <1>2, ConstantsAre DEF OneDispatches, CurIsRight, ScanIsRight
<1>10. WakersAre /\ WakersSleep
  <2>1. \A g \in G : g \notin Registered /\ g \notin registered BY <1>3, ConstantsAre
  <2>2. Pooled = {} BY <1>2 DEF Pooled, Range
  <2> QED BY <1>1, <1>2, <2>1, <2>2, ConstantsAre DEF WakersAre, WakersSleep
<1>11. NextIsAhead BY <1>3, <1>4, ConstantsAre DEF NextIsAhead
<1>12. EventsAre /\ WaitersAre /\ PollIsRight
  BY <1>2, ConstantsAre DEF EventsAre, WaitersAre, PollIsRight
<1> QED BY <1>6, <1>7, <1>8, <1>9, <1>10, <1>11, <1>12 DEF Inv

LEMMA LeaveKeeps ==
  ASSUME ReactorAssumption, Inv, Leave
  PROVE  Inv'
<1>1. PICK w \in Wakes : pause(w) \/ wait(w) \/ Return(w) BY DEF Leave
<1>2. CASE pause(w) \/ wait(w)
  <2>1. /\ pc[cur] = "run" /\ (PauseDispatch(w) \/ PauseAgain(w)) /\ UNCHANGED <<now, done, calls>>
        /\ (waiting' = waiting \/ waiting' = waiting \cup {cur})
    BY <1>2 DEF pause, wait, cVars
  <2> QED BY <2>1, PauseDispatchKeeps, PauseAgainKeeps
<1>3. CASE Return(w) BY <1>3, ReturnOfFd, ReturnOfTimer, ReturnToPool
<1> QED BY <1>1, <1>2, <1>3

LEMMA NextKeepsInv ==
  ASSUME ReactorAssumption, Inv, [Next]_vars
  PROVE  Inv'
<1>1. CASE CheckTimers BY <1>1, CheckTimersWaits, CheckTimersScans
<1>2. CASE ScanEnds BY <1>2, ScanEndsKeeps
<1>3. CASE ScanTimer BY <1>3, ScanTimerLater, ScanTimerCalls, ScanTimerWakes
<1>4. CASE Poll
  <2>1. \/ pc' = [pc EXCEPT ![cur] = "top"] /\ UNCHANGED <<call, calls>>
        \/ /\ calls < MaxCalls /\ calls' = calls + 1
           /\ pc' = [pc EXCEPT ![cur] = "run"] /\ call' = [call EXCEPT ![cur] = Fd]
    BY <1>4 DEF Poll
  <2> QED BY <1>4, <2>1, PollEnds, PollCalls
<1>5. CASE Leave BY <1>5, LeaveKeeps
<1>6. CASE complete BY <1>6, completeKeeps
<1>7. CASE Tick BY <1>7, TickKeeps
<1>8. CASE \E u \in User : unregister_timer(u) \/ \E w \in Wakes : update_timer(u, w) \/ register_timer(u, w)
  BY <1>8, unregister_timerKeeps, update_timerKeeps, register_timerKeeps
<1>9. CASE UNCHANGED vars
  <2>1. UNCHANGED <<now, timers, wake, nextTimer, cur, dispatch, pc, call, ev, scan, until, pool, done, waiting, calls>>
    BY <1>9 DEF vars, gVars, cVars
  <2>2. TimersTypeOK' /\ GreenletsTypeOK' /\ RestTypeOK'
    BY <2>1 DEF Inv, TimersTypeOK, GreenletsTypeOK, RestTypeOK
  <2>3. OneDispatches' /\ CurIsRight' /\ ScanIsRight'
    BY <2>1 DEF Inv, OneDispatches, CurIsRight, ScanIsRight
  <2>4. WakersAre' /\ NextIsAhead' /\ WakersSleep'
    BY <2>1 DEF Inv, WakersAre, NextIsAhead, WakersSleep, Registered, Pooled, Left
  <2>5. EventsAre' /\ WaitersAre' /\ PollIsRight'
    BY <2>1 DEF Inv, EventsAre, WaitersAre, PollIsRight, Registered
  <2> QED BY <2>2, <2>3, <2>4, <2>5 DEF Inv
<1> QED BY <1>1, <1>2, <1>3, <1>4, <1>5, <1>6, <1>7, <1>8, <1>9 DEF Next, Loop

LEMMA InitIsIInv ==
  ASSUME ReactorAssumption, Init
  PROVE  IInv
BY InitIsInv, InvIsIInv

LEMMA NextKeepsIInv ==
  ASSUME ReactorAssumption, IInv, [Next]_vars
  PROVE  IInv'
<1>1. Inv BY InvIsIInv
<1>2. Inv' BY <1>1, NextKeepsInv
<1>3. (Inv <=> IInv)' BY InvIsIInv, PTL
<1> QED BY <1>2, <1>3

\* The bookkeeping of reactor.py is consistent in every state: places, wake timers, the pool, what is left of a
\* scan and the time of the next check.
THEOREM ReactorInvariant ==
  ASSUME ReactorAssumption
  PROVE  Spec => []IInv
<1>1. Init => IInv BY InitIsIInv
<1>2. IInv /\ [Next]_vars => IInv' BY NextKeepsIInv
<1> QED BY <1>1, <1>2, PTL DEF Spec

\* SelectReactor never sleeps past a timer, whichever scans were cut off by pauses and whatever callbacks do to
\* timers; each greenlet that is in a pause has one wake timer; one greenlet dispatches.
THEOREM NothingIsSleptThrough ==
  ASSUME ReactorAssumption
  PROVE  Spec => [](NoOversleep /\ WakersMatch /\ OneDispatches)
<1>1. IInv => NoOversleep /\ WakersMatch /\ OneDispatches BY DEF IInv
<1> QED BY <1>1, ReactorInvariant, PTL

-----------------------------------------------------------------------------
(* The G-code input, whose greenlet the reactor runs: IInv is inductive,   *)
(* for any limit on the lines that wait, any size of a read and any number *)
(* of lines.                                                               *)

LEMMA InputConstants ==
  ASSUME GI!GCodeInputAssumption
  PROVE  /\ Limit \in Nat /\ Limit >= 1 /\ MaxLines \in Nat /\ MaxChunk \in Nat /\ MaxOthers \in Nat
BY DEF GI!GCodeInputAssumption

\* A read brings complete lines, numbered on from those that were read.
LEMMA ChunkIsNumbered ==
  ASSUME GI!GCodeInputAssumption, received \in Nat, NEW lines \in GI!Chunks
  PROVE  /\ lines \in Seq(GI!Line) /\ Len(lines) <= MaxChunk /\ Len(lines) \in Nat
         /\ \A i \in 1..Len(lines) : lines[i].n = received + i
<1>0. MaxChunk \in Nat BY InputConstants
<1>1. PICK k \in 0..MaxChunk :
         /\ lines \in [1..k -> [n : (received + 1)..(received + k), kind : Kinds]]
         /\ \A i \in 1..k : lines[i].n = received + i
  BY DEF GI!Chunks
<1>2. k \in Nat /\ k <= MaxChunk BY <1>0
<1>3. \A i \in 1..k : lines[i] \in GI!Line
  <2> SUFFICES ASSUME NEW i \in 1..k PROVE lines[i] \in GI!Line
    OBVIOUS
  <2>1. lines[i] \in [n : (received + 1)..(received + k), kind : Kinds] BY <1>1
  <2>2. (received + 1)..(received + k) \subseteq Nat BY <1>2
  <2> QED BY <2>1, <2>2 DEF GI!Line
<1>4. lines \in [1..k -> GI!Line] BY <1>1, <1>3
<1>5. lines \in Seq(GI!Line) /\ Len(lines) = k BY <1>2, <1>4
<1> QED BY <1>1, <1>2, <1>5

\* Lines b, and lines p after them, of which the last is line r.
Numbered(b, p, r) ==
  /\ \A i \in 1..Len(b) : b[i].n = r - Len(p) - Len(b) + i
  /\ \A i \in 1..Len(p) : p[i].n = r - Len(p) + i

LEMMA RestIsNumbered ==
  ASSUME NEW b \in Seq(GI!Line), NEW p \in Seq(GI!Line), NEW r \in Nat
  PROVE  /\ Len(b \o p) = Len(b) + Len(p)
         /\ Numbered(b, p, r) <=> \A i \in DOMAIN (b \o p) : (b \o p)[i].n = r - Len(b \o p) + i
<1> DEFINE s == b \o p
<1>1. /\ Len(s) = Len(b) + Len(p) /\ Len(b) \in Nat /\ Len(p) \in Nat
      /\ DOMAIN s = 1..(Len(b) + Len(p))
      /\ \A i \in 1..(Len(b) + Len(p)) : s[i] = IF i <= Len(b) THEN b[i] ELSE p[i - Len(b)]
  BY ConcatProperties
<1> HIDE DEF s
<1>2. ASSUME Numbered(b, p, r), NEW i \in DOMAIN s PROVE s[i].n = r - Len(s) + i
  <2>1. CASE i <= Len(b)
    <3>1. i \in 1..Len(b) /\ s[i] = b[i] BY <1>1, <2>1
    <3>2. b[i].n = r - Len(p) - Len(b) + i BY <1>2, <3>1 DEF Numbered
    <3> QED BY <1>1, <3>1, <3>2
  <2>2. CASE ~ (i <= Len(b))
    <3>1. i - Len(b) \in 1..Len(p) /\ s[i] = p[i - Len(b)] BY <1>1, <2>2
    <3>2. p[i - Len(b)].n = r - Len(p) + (i - Len(b)) BY <1>2, <3>1 DEF Numbered
    <3> QED BY <1>1, <3>1, <3>2
  <2> QED BY <2>1, <2>2
<1>3. ASSUME \A i \in DOMAIN s : s[i].n = r - Len(s) + i PROVE Numbered(b, p, r)
  <2>1. ASSUME NEW i \in 1..Len(b) PROVE b[i].n = r - Len(p) - Len(b) + i
    <3>1. i \in DOMAIN s /\ s[i] = b[i] BY <1>1
    <3>2. s[i].n = r - Len(s) + i BY <1>3, <3>1
    <3> QED BY <1>1, <3>1, <3>2
  <2>2. ASSUME NEW i \in 1..Len(p) PROVE p[i].n = r - Len(p) + i
    <3>1. i + Len(b) \in DOMAIN s /\ s[i + Len(b)] = p[(i + Len(b)) - Len(b)] BY <1>1
    <3>2. (i + Len(b)) - Len(b) = i BY <1>1
    <3>3. s[i + Len(b)].n = r - Len(s) + (i + Len(b)) BY <1>3, <3>1
    <3> QED BY <1>1, <3>1, <3>2, <3>3
  <2> QED BY <2>1, <2>2 DEF Numbered
<1> QED BY <1>1, <1>2, <1>3 DEF s

\* LinesInOrder of what runs and what waits, without joining the two.
Ordered ==
  /\ received = ran + lost + Len(batch) + Len(pending) /\ acks = ran
  /\ Numbered(batch, pending, received)

LEMMA OrderedIsLinesInOrder ==
  ASSUME GI!LinesTypeOK, received \in Nat, ran \in Nat, lost \in Nat
  PROVE  GI!LinesInOrder <=> Ordered
<1>1. batch \in Seq(GI!Line) /\ pending \in Seq(GI!Line) BY DEF GI!LinesTypeOK
<1>2. Len(batch) \in Nat /\ Len(pending) \in Nat BY <1>1
<1>3. Len(batch \o pending) = Len(batch) + Len(pending) BY <1>1, RestIsNumbered
<1>4. (received = ran + lost + Len(batch \o pending)) <=> (received = ran + lost + Len(batch) + Len(pending))
  BY <1>2, <1>3
<1>5. Numbered(batch, pending, received)
      <=> \A i \in DOMAIN (batch \o pending) : (batch \o pending)[i].n = received - Len(batch \o pending) + i
  BY <1>1, RestIsNumbered
<1> QED BY <1>4, <1>5 DEF GI!LinesInOrder, Ordered

-----------------------------------------------------------------------------
(* What is done with the lines.                                            *)

DataOK == GI!LinesTypeOK /\ GI!CountTypeOK /\ Ordered

\* Lines that are read while others run wait after those that wait.
LEMMA ReadWhileBusy ==
  ASSUME GI!GCodeInputAssumption, DataOK, Len(pending) < Limit,
         NEW lines \in GI!Chunks, received + Len(lines) <= MaxLines,
         received' = received + Len(lines), pending' = pending \o lines,
         UNCHANGED <<batch, ran, acks, lost, others>>
  PROVE  DataOK'
<1>1. received \in Nat /\ received \in 0..MaxLines BY InputConstants DEF DataOK, GI!CountTypeOK
<1>2. /\ lines \in Seq(GI!Line) /\ Len(lines) <= MaxChunk /\ Len(lines) \in Nat
      /\ \A i \in 1..Len(lines) : lines[i].n = received + i
  BY <1>1, ChunkIsNumbered
<1>3. batch \in Seq(GI!Line) /\ pending \in Seq(GI!Line) BY DEF DataOK, GI!LinesTypeOK
<1>4. /\ pending' \in Seq(GI!Line) /\ Len(pending') = Len(pending) + Len(lines)
      /\ Len(pending) \in Nat /\ Len(batch) \in Nat
      /\ \A i \in 1..(Len(pending) + Len(lines)) :
            pending'[i] = IF i <= Len(pending) THEN pending[i] ELSE lines[i - Len(pending)]
  BY <1>2, <1>3, ConcatProperties
<1>5. GI!LinesTypeOK' BY <1>3, <1>4 DEF GI!LinesTypeOK
<1>6. GI!CountTypeOK'
  <2>1. ran \in Nat /\ acks \in Nat /\ lost \in Nat /\ others \in 0..MaxOthers BY DEF DataOK, GI!CountTypeOK
  <2>2. received' \in 0..MaxLines BY <1>1, <1>2, InputConstants
  <2>3. Len(pending') <= Limit + MaxChunk BY <1>2, <1>4, InputConstants
  <2> QED BY <2>1, <2>2, <2>3 DEF GI!CountTypeOK
<1>7. Ordered'
  <2>1. /\ received = ran + lost + Len(batch) + Len(pending) /\ acks = ran /\ ran \in Nat /\ lost \in Nat
        /\ Numbered(batch, pending, received)
    BY DEF DataOK, Ordered, GI!CountTypeOK
  <2>2. received' = ran' + lost' + Len(batch') + Len(pending') BY <1>1, <1>2, <1>4, <2>1
  <2>3. ASSUME NEW i \in 1..Len(batch) PROVE batch[i].n = received' - Len(pending') - Len(batch) + i
    <3>1. batch[i].n = received - Len(pending) - Len(batch) + i BY <2>1 DEF Numbered
    <3> QED BY <1>1, <1>2, <1>4, <3>1
  <2>4. ASSUME NEW i \in 1..Len(pending') PROVE pending'[i].n = received' - Len(pending') + i
    <3>1. CASE i <= Len(pending)
      <4>1. i \in 1..Len(pending) /\ pending'[i] = pending[i] BY <1>2, <1>4, <3>1
      <4>2. pending[i].n = received - Len(pending) + i BY <2>1, <4>1 DEF Numbered
      <4> QED BY <1>1, <1>2, <1>4, <4>1, <4>2
    <3>2. CASE ~ (i <= Len(pending))
      <4>1. i - Len(pending) \in 1..Len(lines) /\ pending'[i] = lines[i - Len(pending)] BY <1>2, <1>4, <3>2
      <4>2. lines[i - Len(pending)].n = received + (i - Len(pending)) BY <1>2, <4>1
      <4> QED BY <1>1, <1>2, <1>4, <4>1, <4>2
    <3> QED BY <3>1, <3>2
  <2>5. Numbered(batch, pending, received)' BY <2>3, <2>4 DEF Numbered
  <2> QED BY <2>1, <2>2, <2>5 DEF Ordered
<1> QED BY <1>5, <1>6, <1>7 DEF DataOK

\* When nothing runs, the lines that are read are the next batch.
LEMMA ReadWhileIdle ==
  ASSUME GI!GCodeInputAssumption, DataOK, batch = <<>>, pending = <<>>,
         NEW lines \in GI!Chunks, received + Len(lines) <= MaxLines,
         received' = received + Len(lines), pending' = <<>>, batch' = pending \o lines,
         UNCHANGED <<ran, acks, lost, others>>
  PROVE  DataOK'
<1>1. received \in Nat /\ received \in 0..MaxLines BY InputConstants DEF DataOK, GI!CountTypeOK
<1>2. /\ lines \in Seq(GI!Line) /\ Len(lines) <= MaxChunk /\ Len(lines) \in Nat
      /\ \A i \in 1..Len(lines) : lines[i].n = received + i
  BY <1>1, ChunkIsNumbered
<1>3. batch' = lines BY <1>2
<1>4. pending' \in Seq(GI!Line) /\ Len(pending') = 0 /\ Len(batch) = 0 /\ Len(pending) = 0 BY EmptySeq
<1>5. GI!LinesTypeOK' BY <1>2, <1>3, <1>4 DEF GI!LinesTypeOK
<1>6. GI!CountTypeOK'
  <2>1. ran \in Nat /\ acks \in Nat /\ lost \in Nat /\ others \in 0..MaxOthers BY DEF DataOK, GI!CountTypeOK
  <2>2. received' \in 0..MaxLines BY <1>1, <1>2, InputConstants
  <2>3. Len(pending') <= Limit + MaxChunk BY <1>4, InputConstants
  <2> QED BY <2>1, <2>2, <2>3 DEF GI!CountTypeOK
<1>7. Ordered'
  <2>1. received = ran + lost /\ acks = ran /\ ran \in Nat /\ lost \in Nat
    BY <1>4 DEF DataOK, Ordered, GI!CountTypeOK
  <2>2. received' = ran' + lost' + Len(batch') + Len(pending') BY <1>1, <1>2, <1>3, <1>4, <2>1
  <2>3. \A i \in 1..Len(batch') : batch'[i].n = received' - Len(pending') - Len(batch') + i
    BY <1>1, <1>2, <1>3, <1>4
  <2>4. \A i \in 1..Len(pending') : pending'[i].n = received' - Len(pending') + i
    BY <1>4
  <2>5. Numbered(batch, pending, received)' BY <2>3, <2>4 DEF Numbered
  <2> QED BY <2>1, <2>2, <2>5 DEF Ordered
<1> QED BY <1>5, <1>6, <1>7 DEF DataOK

\* The first line of the batch runs and is answered.
LEMMA LineIsAnswered ==
  ASSUME GI!GCodeInputAssumption, DataOK, batch # <<>>,
         ran' = ran + 1, acks' = acks + 1, batch' = Tail(batch),
         UNCHANGED <<received, pending, lost, others>>
  PROVE  DataOK'
<1>1. received \in Nat /\ received \in 0..MaxLines BY InputConstants DEF DataOK, GI!CountTypeOK
<1>2. batch \in Seq(GI!Line) /\ pending \in Seq(GI!Line) BY DEF DataOK, GI!LinesTypeOK
<1>3. /\ batch' \in Seq(GI!Line) /\ Len(batch') = Len(batch) - 1 /\ Len(batch) \in Nat /\ Len(batch) >= 1
      /\ Len(pending) \in Nat /\ \A i \in 1..Len(batch') : batch'[i] = batch[i + 1]
  BY <1>2
<1>4. GI!LinesTypeOK' BY <1>2, <1>3 DEF GI!LinesTypeOK
<1>5. GI!CountTypeOK'
  <2>1. ran \in Nat /\ acks \in Nat /\ lost \in Nat /\ others \in 0..MaxOthers /\ Len(pending) <= Limit + MaxChunk
    BY DEF DataOK, GI!CountTypeOK
  <2>2. ran' \in Nat /\ acks' \in Nat BY <2>1
  <2> QED BY <1>1, <2>1, <2>2 DEF GI!CountTypeOK
<1>6. Ordered'
  <2>1. /\ received = ran + lost + Len(batch) + Len(pending) /\ acks = ran /\ ran \in Nat /\ lost \in Nat
        /\ Numbered(batch, pending, received)
    BY DEF DataOK, Ordered, GI!CountTypeOK
  <2>2. received' = ran' + lost' + Len(batch') + Len(pending') /\ acks' = ran' BY <1>1, <1>3, <2>1
  <2>3. ASSUME NEW i \in 1..Len(batch') PROVE batch'[i].n = received' - Len(pending') - Len(batch') + i
    <3>1. i + 1 \in 1..Len(batch) /\ batch'[i] = batch[i + 1] BY <1>3
    <3>2. batch[i + 1].n = received - Len(pending) - Len(batch) + (i + 1) BY <2>1, <3>1 DEF Numbered
    <3> QED BY <1>1, <1>3, <3>1, <3>2
  <2>4. \A i \in 1..Len(pending') : pending'[i].n = received' - Len(pending') + i
    BY <2>1 DEF Numbered
  <2>5. Numbered(batch, pending, received)' BY <2>3, <2>4 DEF Numbered
  <2> QED BY <2>2, <2>5 DEF Ordered
<1> QED BY <1>4, <1>5, <1>6 DEF DataOK

\* The batch ends, or is dropped, and those that wait are the next one.
LEMMA NextBatchIsOrdered ==
  ASSUME GI!GCodeInputAssumption, DataOK,
         lost' = lost + Len(batch), batch' = pending, pending' = <<>>,
         UNCHANGED <<received, ran, acks, others>>
  PROVE  DataOK'
<1>1. received \in Nat /\ received \in 0..MaxLines BY InputConstants DEF DataOK, GI!CountTypeOK
<1>2. batch \in Seq(GI!Line) /\ pending \in Seq(GI!Line) BY DEF DataOK, GI!LinesTypeOK
<1>3. Len(batch) \in Nat /\ Len(pending) \in Nat /\ pending' \in Seq(GI!Line) /\ Len(pending') = 0 BY <1>2, EmptySeq
<1>4. GI!LinesTypeOK' BY <1>2, <1>3 DEF GI!LinesTypeOK
<1>5. GI!CountTypeOK'
  <2>1. ran \in Nat /\ acks \in Nat /\ lost \in Nat /\ others \in 0..MaxOthers BY DEF DataOK, GI!CountTypeOK
  <2>2. lost' \in Nat BY <1>3, <2>1
  <2>3. Len(pending') <= Limit + MaxChunk BY <1>3, InputConstants
  <2> QED BY <1>1, <2>1, <2>2, <2>3 DEF GI!CountTypeOK
<1>6. Ordered'
  <2>1. /\ received = ran + lost + Len(batch) + Len(pending) /\ acks = ran /\ ran \in Nat /\ lost \in Nat
        /\ Numbered(batch, pending, received)
    BY DEF DataOK, Ordered, GI!CountTypeOK
  <2>2. received' = ran' + lost' + Len(batch') + Len(pending') BY <1>1, <1>3, <2>1
  <2>3. \A i \in 1..Len(batch') : batch'[i].n = received' - Len(pending') - Len(batch') + i
    <3>1. ASSUME NEW i \in 1..Len(pending) PROVE pending[i].n = received - 0 - Len(pending) + i
      <4>1. pending[i].n = received - Len(pending) + i BY <2>1 DEF Numbered
      <4> QED BY <1>1, <1>3, <4>1
    <3> QED BY <3>1, <1>3
  <2>4. \A i \in 1..Len(pending') : pending'[i].n = received' - Len(pending') + i BY <1>3
  <2>5. Numbered(batch, pending, received)' BY <2>3, <2>4 DEF Numbered
  <2> QED BY <2>1, <2>2, <2>5 DEF Ordered
<1> QED BY <1>4, <1>5, <1>6 DEF DataOK

\* No line moves, and the count of scripts of others stays within its bound.
LEMMA LinesStay ==
  ASSUME DataOK, UNCHANGED <<received, pending, batch, ran, acks, lost>>, others' \in 0..MaxOthers
  PROVE  DataOK'
<1>1. GI!LinesTypeOK' BY DEF DataOK, GI!LinesTypeOK
<1>2. GI!CountTypeOK' BY DEF DataOK, GI!CountTypeOK
<1>3. Ordered' BY DEF DataOK, Ordered, Numbered
<1> QED BY <1>1, <1>2, <1>3 DEF DataOK

-----------------------------------------------------------------------------
(* The invariant.                                                          *)

LEMMA InputStarts ==
  ASSUME GI!GCodeInputAssumption, GI!Init
  PROVE  GI!IInv
<1>1. GI!StateTypeOK BY DEF GI!Init, GI!StateTypeOK
<1>2. GI!LinesTypeOK BY EmptySeq DEF GI!Init, GI!LinesTypeOK
<1>3. Len(batch) = 0 /\ Len(pending) = 0 BY DEF GI!Init
<1>4. GI!CountTypeOK
  <2>1. received = 0 /\ ran = 0 /\ acks = 0 /\ lost = 0 /\ others = 0 BY DEF GI!Init
  <2> QED BY <1>3, <2>1, InputConstants DEF GI!CountTypeOK
<1>5. Ordered
  <2>1. received = 0 /\ ran = 0 /\ acks = 0 /\ lost = 0 BY DEF GI!Init
  <2>2. Numbered(batch, pending, received) BY <1>3 DEF Numbered
  <2> QED BY <1>3, <2>1, <2>2 DEF Ordered
<1>6. GI!LinesInOrder
  <2>1. received = 0 /\ ran = 0 /\ acks = 0 /\ lost = 0 BY DEF GI!Init
  <2> QED BY <1>2, <1>5, <2>1, OrderedIsLinesInOrder
<1>7. GI!ReadsAgain /\ GI!BatchIsRight BY DEF GI!Init, GI!ReadsAgain, GI!BatchIsRight
<1>8. GI!FdIsRight BY <1>3, InputConstants DEF GI!FdIsRight
<1> QED BY <1>1, <1>2, <1>4, <1>6, <1>7, <1>8 DEF GI!IInv, GI!TypeOK

LEMMA InputDataStep ==
  ASSUME GI!GCodeInputAssumption, GI!IInv, [GI!Next]_(GI!vars)
  PROVE  DataOK' /\ GI!FdIsRight'
<1>0. DataOK
  <2>1. GI!LinesTypeOK /\ GI!CountTypeOK /\ GI!LinesInOrder BY DEF GI!IInv, GI!TypeOK
  <2>2. received \in Nat /\ ran \in Nat /\ lost \in Nat BY <2>1, InputConstants DEF GI!CountTypeOK
  <2> QED BY <2>1, <2>2, OrderedIsLinesInOrder DEF DataOK
<1>a. others \in 0..MaxOthers /\ MaxOthers \in Nat BY <1>0, InputConstants DEF DataOK, GI!CountTypeOK
<1>b. pending \in Seq(GI!Line) /\ Len(pending) \in Nat BY <1>0 DEF DataOK, GI!LinesTypeOK
<1>c. Limit \in Nat /\ 0 < Limit BY InputConstants
<1>1. ASSUME UNCHANGED <<received, pending, fd, batch, ran, acks, lost>>, others' = others
      PROVE  DataOK' /\ GI!FdIsRight'
  BY <1>0, <1>a, <1>1, LinesStay DEF GI!IInv, GI!FdIsRight
<1>2. ASSUME UNCHANGED <<received, pending, fd, batch, ran, acks, lost>>, others < MaxOthers, others' = others + 1
      PROVE  DataOK' /\ GI!FdIsRight'
  <2>1. others' \in 0..MaxOthers BY <1>a, <1>2
  <2> QED BY <1>0, <1>2, <2>1, LinesStay DEF GI!IInv, GI!FdIsRight
<1>3. ASSUME GI!_process_data PROVE DataOK' /\ GI!FdIsRight'
  <2>0. fd /\ Len(pending) < Limit /\ UNCHANGED <<ran, acks, lost, others>>
    BY <1>3 DEF GI!_process_data, GI!IInv, GI!FdIsRight, GI!history
  <2>1. PICK lines \in GI!Chunks :
          /\ received + Len(lines) <= MaxLines /\ received' = received + Len(lines)
          /\ IF inputPc # "idle" THEN pending' = pending \o lines /\ fd' = (Len(pending \o lines) < Limit) /\ UNCHANGED <<inputPc, batch>>
             ELSE pending' = <<>> /\ batch' = pending \o lines /\ UNCHANGED fd
    BY <1>3 DEF GI!_process_data
  <2>2. CASE inputPc # "idle"
    <3>1. DataOK' BY <1>0, <2>0, <2>1, <2>2, ReadWhileBusy
    <3>2. GI!FdIsRight' BY <2>1, <2>2 DEF GI!FdIsRight
    <3> QED BY <3>1, <3>2
  <2>3. CASE inputPc = "idle"
    <3>1. batch = <<>> /\ pending = <<>> BY <2>3 DEF GI!IInv, GI!BatchIsRight, GI!ReadsAgain
    <3>2. DataOK' BY <1>0, <2>0, <2>1, <2>3, <3>1, ReadWhileIdle
    <3>3. Len(pending') = 0 BY <2>1, <2>3
    <3> QED BY <1>c, <3>2, <3>3 DEF GI!FdIsRight
  <2> QED BY <2>2, <2>3
<1>4. ASSUME GI!Answered, batch # <<>>, UNCHANGED <<received, pending, fd, lost, others>> PROVE DataOK' /\ GI!FdIsRight'
  <2>1. DataOK' BY <1>0, <1>4, LineIsAnswered DEF GI!Answered
  <2> QED BY <1>4, <2>1 DEF GI!IInv, GI!FdIsRight
<1>5. ASSUME GI!Runs PROVE DataOK' /\ GI!FdIsRight'
  <2>1. batch # <<>> /\ UNCHANGED <<received, pending, fd, lost, others>> BY <1>5 DEF GI!Runs, GI!buffers
  <2>2. GI!Answered \/ UNCHANGED <<ran, acks, batch>> BY <1>5 DEF GI!Runs
  <2> QED BY <1>1, <1>4, <2>1, <2>2
<1>6. ASSUME GI!SlowEnds PROVE DataOK' /\ GI!FdIsRight'
  <2>1. GI!Answered /\ UNCHANGED <<received, pending, fd, lost, others>> BY <1>6 DEF GI!SlowEnds, GI!buffers
  <2>2. batch # <<>> BY <1>6 DEF GI!SlowEnds, GI!IInv, GI!BatchIsRight
  <2> QED BY <1>4, <2>1, <2>2
<1>7. ASSUME GI!BatchEnds PROVE DataOK' /\ GI!FdIsRight'
  <2>1. /\ lost' = lost + Len(batch) /\ batch' = pending /\ pending' = <<>>
        /\ UNCHANGED <<received, ran, acks, others>>
    BY <1>7 DEF GI!BatchEnds, GI!NextBatch
  <2>2. DataOK' BY <1>0, <2>1, NextBatchIsOrdered
  <2>3. Len(pending') = 0 BY <2>1
  <2> QED BY <1>c, <2>2, <2>3 DEF GI!FdIsRight
<1>8. ASSUME GI!_handle_ready \/ GI!Locks \/ GI!ScriptEnds \/ UNCHANGED GI!vars PROVE DataOK' /\ GI!FdIsRight'
  BY <1>1, <1>8 DEF GI!_handle_ready, GI!Locks, GI!ScriptEnds, GI!vars, GI!buffers, GI!history
<1>9. ASSUME GI!RunScript \/ GI!abort_waits PROVE DataOK' /\ GI!FdIsRight'
  BY <1>2, <1>9 DEF GI!RunScript, GI!abort_waits, GI!buffers, GI!history
<1> QED BY <1>3, <1>5, <1>6, <1>7, <1>8, <1>9 DEF GI!Next

LEMMA InputStateStep ==
  ASSUME GI!IInv, [GI!Next]_(GI!vars)
  PROVE  GI!StateTypeOK' /\ GI!ReadsAgain' /\ GI!BatchIsRight'
<1> USE DEF GI!IInv, GI!TypeOK, GI!StateTypeOK, GI!ReadsAgain, GI!BatchIsRight
<1>1. ASSUME GI!_process_data PROVE GI!StateTypeOK' /\ GI!ReadsAgain' /\ GI!BatchIsRight'
  <2>1. fd /\ partial' \in BOOLEAN /\ UNCHANGED <<held, aborted>>
    BY <1>1 DEF GI!_process_data
  <2>2. ready' \in BOOLEAN /\ down' \in BOOLEAN
    BY <1>1 DEF GI!_process_data, GI!Shutdown
  <2>3. PICK lines \in GI!Chunks :
          IF inputPc # "idle" THEN fd' = (Len(pending \o lines) < Limit) /\ UNCHANGED <<inputPc, batch>>
          ELSE /\ pending' = <<>> /\ batch' = pending \o lines /\ UNCHANGED fd
               /\ inputPc' = IF pending \o lines = <<>> THEN "idle" ELSE "lock"
    BY <1>1 DEF GI!_process_data
  <2>4. CASE inputPc # "idle" BY <2>1, <2>2, <2>3, <2>4
  <2>5. CASE inputPc = "idle"
    <3> DEFINE all == pending \o lines
    <3>1. /\ pending' = <<>> /\ batch' = all /\ UNCHANGED fd /\ inputPc' = IF all = <<>> THEN "idle" ELSE "lock"
      BY <2>3, <2>5
    <3> HIDE DEF all
    <3> QED BY <2>1, <2>2, <3>1
  <2> QED BY <2>4, <2>5
<1>2. ASSUME GI!Runs \/ GI!SlowEnds PROVE GI!StateTypeOK' /\ GI!ReadsAgain' /\ GI!BatchIsRight'
  BY <1>2 DEF GI!Runs, GI!SlowEnds, GI!Answered, GI!Shutdown, GI!buffers
<1>3. ASSUME GI!BatchEnds PROVE GI!StateTypeOK' /\ GI!ReadsAgain' /\ GI!BatchIsRight'
  BY <1>3 DEF GI!BatchEnds, GI!NextBatch
<1>4. ASSUME GI!_handle_ready \/ GI!Locks PROVE GI!StateTypeOK' /\ GI!ReadsAgain' /\ GI!BatchIsRight'
  BY <1>4 DEF GI!_handle_ready, GI!Locks, GI!buffers, GI!history
<1>5. ASSUME GI!RunScript \/ GI!ScriptEnds \/ GI!abort_waits PROVE GI!StateTypeOK' /\ GI!ReadsAgain' /\ GI!BatchIsRight'
  BY <1>5 DEF GI!RunScript, GI!ScriptEnds, GI!abort_waits, GI!buffers, GI!history
<1>6. CASE UNCHANGED GI!vars
  BY <1>6 DEF GI!vars, GI!buffers, GI!history
<1> QED BY <1>1, <1>2, <1>3, <1>4, <1>5, <1>6 DEF GI!Next

LEMMA InputKeepsIInv ==
  ASSUME GI!GCodeInputAssumption, GI!IInv, [GI!Next]_(GI!vars)
  PROVE  GI!IInv'
<1>1. GI!LinesTypeOK' /\ GI!CountTypeOK' /\ Ordered' /\ GI!FdIsRight' BY InputDataStep DEF DataOK
<1>2. GI!StateTypeOK' /\ GI!ReadsAgain' /\ GI!BatchIsRight' BY InputStateStep
<1>3. GI!LinesInOrder'
  <2>1. received' \in Nat /\ ran' \in Nat /\ lost' \in Nat BY <1>1, InputConstants DEF GI!CountTypeOK
  <2>2. (GI!LinesTypeOK /\ received \in Nat /\ ran \in Nat /\ lost \in Nat => (GI!LinesInOrder <=> Ordered))'
    BY OrderedIsLinesInOrder, PTL
  <2> QED BY <1>1, <2>1, <2>2
<1> QED BY <1>1, <1>2, <1>3 DEF GI!IInv, GI!TypeOK

\* Lines of the pseudo-tty (GCodeIO._process_data, GCodeDispatch._process_commands)
\* are run once, answered once and in their order, or dropped by an abort; the
\* input is read again when nothing runs: whatever comes and whoever aborts.
THEOREM LinesAreTaken ==
  ASSUME GI!GCodeInputAssumption
  PROVE  GI!Spec => []GI!IInv
<1>1. GI!Init => GI!IInv BY InputStarts
<1>2. GI!IInv /\ [GI!Next]_(GI!vars) => GI!IInv' BY InputKeepsIInv
<1> QED BY <1>1, <1>2, PTL DEF GI!Spec
===============================================================================
