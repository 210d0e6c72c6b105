-------------------------- MODULE SerialWindowProofs --------------------------
(***************************************************************************)
(* Proofs about SerialWindow for any number of sequence numbers, messages, *)
(* losses and time-outs: the inductive invariant IInv, the window's        *)
(* invariants, and what a step may not do.                                 *)
(***************************************************************************)
EXTENDS SerialWindow, TLAPS, SequenceTheorems

(* Numbers of a few bits.                                                  *)

LEMMA ModRange ==
    ASSUME NEW S \in Nat \ {0}, NEW n \in Int
    PROVE  n % S \in 0 .. S - 1
OBVIOUS

\* Numbers with the same last bits are the same if they are close.
LEMMA SameBits ==
    ASSUME NEW S \in Nat \ {0}, NEW a \in Int, NEW b \in Int,
           a < b + S, b < a + S, a % S = b % S
    PROVE  a = b
<1>1. a = S * (a \div S) + (a % S)
  OBVIOUS
<1>2. b = S * (b \div S) + (b % S)
  OBVIOUS
<1> DEFINE q == (b \div S) - (a \div S)
<1>3. b - a = S * q /\ q \in Int
  BY <1>1, <1>2
<1> HIDE DEF q
<1>4. q < 1
  BY <1>3
<1>5. q > -1
  BY <1>3
<1> QED
  BY <1>3, <1>4, <1>5

LEMMA FromBits ==
    ASSUME NEW S \in Nat \ {0}, NEW r \in Int, NEW n \in Int, r <= n, n < r + S
    PROVE  r + (((n % S) - r) % S) = n
<1> DEFINE d == ((n % S) - r) % S
<1>1. n % S \in Int /\ n = S * (n \div S) + (n % S) /\ n \div S \in Int
  OBVIOUS
<1>2. d \in 0 .. S - 1 /\ (n % S) - r = S * (((n % S) - r) \div S) + d /\ ((n % S) - r) \div S \in Int
  BY <1>1
<1> HIDE DEF d
<1> DEFINE q == (n \div S) + (((n % S) - r) \div S)
<1>3. q \in Int /\ n - r - d = S * q
  BY <1>1, <1>2
<1> HIDE DEF q
<1>4. q < 1
  BY <1>2, <1>3
<1>5. q > -1
  BY <1>2, <1>3
<1>6. n - r - d = 0
  BY <1>3, <1>4, <1>5
<1> QED
  BY <1>2, <1>6 DEF d

\* The host decodes every number within its window rightly.
LEMMA DecodeIs ==
    ASSUME receive_seq \in Int, NEW n \in Int, receive_seq <= n, n < receive_seq + SeqValues
    PROVE  Decode(n % SeqValues) = n
BY FromBits, SeqAssumption DEF Decode
-----------------------------------------------------------------------------
(* Sequences.                                                              *)

LEMMA ToSetFacts ==
    ASSUME NEW S, NEW s \in Seq(S)
    PROVE  /\ Len(s) \in Nat
           /\ DOMAIN s = 1 .. Len(s)
           /\ \A i \in 1 .. Len(s) : s[i] \in S /\ s[i] \in ToSet(s)
           /\ \A e \in ToSet(s) : e \in S /\ \E i \in 1 .. Len(s) : e = s[i]
           /\ ToSet(<<>>) = {}
<1>1. Len(s) \in Nat /\ DOMAIN s = 1 .. Len(s)
  OBVIOUS
<1>2. \A i \in 1 .. Len(s) : s[i] \in S
  OBVIOUS
<1> QED
  BY <1>1, <1>2 DEF ToSet

LEMMA AppendFacts ==
    ASSUME NEW S, NEW s \in Seq(S), NEW e \in S
    PROVE  /\ Append(s, e) \in Seq(S)
           /\ Len(Append(s, e)) = Len(s) + 1
           /\ DOMAIN Append(s, e) = 1 .. Len(s) + 1
           /\ \A i \in 1 .. Len(s) : Append(s, e)[i] = s[i]
           /\ Append(s, e)[Len(s) + 1] = e
           /\ ToSet(Append(s, e)) = ToSet(s) \cup {e}
<1>1. /\ Append(s, e) \in Seq(S)
      /\ Len(Append(s, e)) = Len(s) + 1
      /\ DOMAIN Append(s, e) = 1 .. Len(s) + 1
      /\ \A i \in 1 .. Len(s) : Append(s, e)[i] = s[i]
      /\ Append(s, e)[Len(s) + 1] = e
  OBVIOUS
<1>2. DOMAIN s = 1 .. Len(s) /\ Len(s) \in Nat
  OBVIOUS
<1>3. DOMAIN Append(s, e) = DOMAIN s \cup {Len(s) + 1}
  BY <1>1, <1>2
<1>4. ToSet(Append(s, e)) = ToSet(s) \cup {e}
  BY <1>1, <1>2, <1>3 DEF ToSet
<1> QED
  BY <1>1, <1>4

\* What is left of a sequence behind place k.
LEMMA RestFacts ==
    ASSUME NEW S, NEW s \in Seq(S), NEW k \in 0 .. Len(s)
    PROVE  /\ SubSeq(s, k + 1, Len(s)) \in Seq(S)
           /\ Len(SubSeq(s, k + 1, Len(s))) = Len(s) - k
           /\ \A i \in 1 .. Len(s) - k : SubSeq(s, k + 1, Len(s))[i] = s[k + i]
           /\ \A e \in ToSet(SubSeq(s, k + 1, Len(s))) : \E i \in k + 1 .. Len(s) : e = s[i]
<1> DEFINE t == SubSeq(s, k + 1, Len(s))
<1>1. /\ t \in Seq(S)
      /\ Len(t) = Len(s) - k
      /\ \A i \in 1 .. Len(s) - k : t[i] = s[k + i]
  OBVIOUS
<1> HIDE DEF t
<1>2. ASSUME NEW e \in ToSet(t)
      PROVE  \E i \in k + 1 .. Len(s) : e = s[i]
  <2>1. PICK i \in 1 .. Len(t) : e = t[i]
    BY <1>1, ToSetFacts
  <2>2. k + i \in k + 1 .. Len(s) /\ e = s[k + i]
    BY <1>1, <2>1
  <2> QED
    BY <2>2
<1> QED
  BY <1>1, <1>2 DEF t

\* The first k elements.
LEMMA FirstFacts ==
    ASSUME NEW S, NEW s \in Seq(S), NEW k \in 0 .. Len(s)
    PROVE  /\ SubSeq(s, 1, k) \in Seq(S)
           /\ Len(SubSeq(s, 1, k)) = k
           /\ \A i \in 1 .. k : SubSeq(s, 1, k)[i] = s[i]
           /\ \A e \in ToSet(SubSeq(s, 1, k)) : \E i \in 1 .. k : e = s[i]
<1> DEFINE t == SubSeq(s, 1, k)
<1>1. /\ t \in Seq(S)
      /\ Len(t) = k
      /\ \A i \in 1 .. k : t[i] = s[i]
  OBVIOUS
<1> HIDE DEF t
<1>2. \A e \in ToSet(t) : \E i \in 1 .. Len(t) : e = t[i]
  BY <1>1, ToSetFacts
<1>3. \A e \in ToSet(t) : \E i \in 1 .. k : e = s[i]
  BY <1>1, <1>2
<1> QED
  BY <1>1, <1>3 DEF t

LEMMA ConcatFacts ==
    ASSUME NEW S, NEW s \in Seq(S), NEW t \in Seq(S)
    PROVE  /\ s \o t \in Seq(S)
           /\ Len(s \o t) = Len(s) + Len(t)
           /\ \A i \in 1 .. Len(s) : (s \o t)[i] = s[i]
           /\ \A i \in Len(s) + 1 .. Len(s) + Len(t) : (s \o t)[i] = t[i - Len(s)]
           /\ \A i \in 1 .. Len(t) : (s \o t)[Len(s) + i] = t[i]
           /\ ToSet(s \o t) = ToSet(s) \cup ToSet(t)
<1> DEFINE u == s \o t
<1>1. /\ u \in Seq(S)
      /\ Len(u) = Len(s) + Len(t)
      /\ \A i \in 1 .. Len(s) : u[i] = s[i]
      /\ \A i \in Len(s) + 1 .. Len(s) + Len(t) : u[i] = t[i - Len(s)]
      /\ \A i \in 1 .. Len(t) : u[Len(s) + i] = t[i]
  OBVIOUS
<1> HIDE DEF u
<1>2. DOMAIN s = 1 .. Len(s) /\ DOMAIN t = 1 .. Len(t) /\ Len(s) \in Nat /\ Len(t) \in Nat
  OBVIOUS
<1>3. DOMAIN u = 1 .. Len(s) + Len(t)
  BY <1>1
<1>4. ASSUME NEW i \in 1 .. Len(s) + Len(t)
      PROVE  u[i] \in ToSet(s) \cup ToSet(t)
  <2>1. CASE i \in 1 .. Len(s)
    BY <1>1, <1>2, <2>1 DEF ToSet
  <2>2. CASE i \in Len(s) + 1 .. Len(s) + Len(t)
    <3>1. i - Len(s) \in 1 .. Len(t) /\ u[i] = t[i - Len(s)]
      BY <1>1, <1>2, <2>2
    <3> QED
      BY <1>2, <3>1 DEF ToSet
  <2> QED
    BY <1>2, <2>1, <2>2
<1>8. ToSet(u) \subseteq ToSet(s) \cup ToSet(t)
  BY <1>3, <1>4 DEF ToSet
<1>5. ToSet(s) \subseteq ToSet(u)
  BY <1>1, <1>2, <1>3 DEF ToSet
<1>6. ASSUME NEW i \in 1 .. Len(t)
      PROVE  t[i] \in ToSet(u)
  <2>1. Len(s) + i \in 1 .. Len(s) + Len(t) /\ u[Len(s) + i] = t[i]
    BY <1>1, <1>2
  <2> QED
    BY <1>2, <1>3, <2>1 DEF ToSet
<1>7. ToSet(t) \subseteq ToSet(u)
  BY <1>2, <1>6 DEF ToSet
<1> QED
  BY <1>1, <1>5, <1>7, <1>8 DEF u

LEMMA TailFacts ==
    ASSUME NEW S, NEW s \in Seq(S), s # <<>>
    PROVE  /\ Len(s) \in Nat \ {0}
           /\ Head(s) = s[1] /\ s[1] \in S
           /\ Tail(s) \in Seq(S)
           /\ Len(Tail(s)) = Len(s) - 1
           /\ \A i \in 1 .. Len(s) - 1 : Tail(s)[i] = s[i + 1]
OBVIOUS

\* Dropping an element keeps the others in their order.
LEMMA RemoveAtFacts ==
    ASSUME NEW S, NEW s \in Seq(S), NEW k \in 1 .. Len(s)
    PROVE  /\ RemoveAt(s, k) \in Seq(S)
           /\ Len(RemoveAt(s, k)) = Len(s) - 1
           /\ \A i \in 1 .. Len(s) - 1 : RemoveAt(s, k)[i] = s[IF i < k THEN i ELSE i + 1]
<1> DEFINE a == SubSeq(s, 1, k - 1)
           b == SubSeq(s, k + 1, Len(s))
<1>1. a \in Seq(S) /\ Len(a) = k - 1 /\ \A i \in 1 .. k - 1 : a[i] = s[i]
  BY FirstFacts
<1>2. b \in Seq(S) /\ Len(b) = Len(s) - k /\ \A i \in 1 .. Len(s) - k : b[i] = s[k + i]
  BY RestFacts
<1>3. RemoveAt(s, k) = a \o b
  BY DEF RemoveAt
<1> HIDE DEF a, b
<1>4. /\ a \o b \in Seq(S)
      /\ Len(a \o b) = Len(s) - 1
      /\ \A i \in 1 .. k - 1 : (a \o b)[i] = s[i]
      /\ \A i \in k .. Len(s) - 1 : (a \o b)[i] = b[i - (k - 1)]
  <2>1. Len(s) \in Nat /\ Len(a) + Len(b) = Len(s) - 1 /\ Len(a) + 1 = k
    BY <1>1, <1>2
  <2> QED
    <3>1. a \o b \in Seq(S)
      BY <1>1, <1>2, ConcatFacts
    <3>2. Len(a \o b) = Len(a) + Len(b)
      BY <1>1, <1>2, ConcatFacts
    <3>3. \A i \in 1 .. Len(a) : (a \o b)[i] = a[i]
      BY <1>1, <1>2, ConcatFacts
    <3>4. \A i \in Len(a) + 1 .. Len(a) + Len(b) : (a \o b)[i] = b[i - Len(a)]
      BY <1>1, <1>2, ConcatFacts
    <3> QED
      BY <1>1, <2>1, <3>1, <3>2, <3>3, <3>4
<1>5. \A i \in k .. Len(s) - 1 : b[i - (k - 1)] = s[i + 1]
  BY <1>2
<1> QED
  BY <1>3, <1>4, <1>5

\* What comes later goes to the end.
LEMMA IncreasingConcat ==
    ASSUME NEW s \in Seq(Nat), NEW t \in Seq(Nat), Increasing(s), Increasing(t),
           Below(ToSet(s), ToSet(t))
    PROVE  Increasing(s \o t)
<1> DEFINE u == s \o t
<1>1. /\ Len(u) = Len(s) + Len(t) /\ Len(s) \in Nat /\ Len(t) \in Nat
      /\ DOMAIN u = 1 .. Len(s) + Len(t) /\ DOMAIN s = 1 .. Len(s) /\ DOMAIN t = 1 .. Len(t)
      /\ \A i \in 1 .. Len(s) : u[i] = s[i] /\ s[i] \in ToSet(s)
      /\ \A i \in 1 .. Len(t) : t[i] \in ToSet(t)
      /\ \A i \in Len(s) + 1 .. Len(s) + Len(t) : u[i] = t[i - Len(s)] /\ i - Len(s) \in 1 .. Len(t)
  BY ConcatFacts, ToSetFacts
<1> HIDE DEF u
<1>2. ASSUME NEW i \in DOMAIN u, NEW j \in DOMAIN u, i < j
      PROVE  u[i] < u[j]
  <2>1. CASE j <= Len(s)
    BY <1>1, <1>2, <2>1 DEF Increasing
  <2>2. CASE i <= Len(s) /\ j > Len(s)
    <3>1. u[i] \in ToSet(s)
      BY <1>1, <2>2
    <3>2. u[j] \in ToSet(t)
      BY <1>1, <2>2
    <3> QED
      BY <3>1, <3>2 DEF Below
  <2>3. CASE i > Len(s)
    <3>1. i \in Len(s) + 1 .. Len(s) + Len(t) /\ j \in Len(s) + 1 .. Len(s) + Len(t)
      BY <1>1, <1>2, <2>3
    <3>2. u[i] = t[i - Len(s)] /\ i - Len(s) \in 1 .. Len(t)
      BY <1>1, <3>1
    <3>3. u[j] = t[j - Len(s)] /\ j - Len(s) \in 1 .. Len(t)
      BY <1>1, <3>1
    <3>4. i - Len(s) < j - Len(s)
      BY <1>1, <1>2, <3>1
    <3> QED
      BY <1>1, <3>2, <3>3, <3>4 DEF Increasing
  <2> QED
    BY <1>1, <2>1, <2>2, <2>3
<1> QED
  BY <1>2 DEF Increasing, u

LEMMA IncreasingAppend ==
    ASSUME NEW s \in Seq(Nat), NEW e \in Nat, Increasing(s), \A x \in ToSet(s) : x < e
    PROVE  Increasing(Append(s, e))
<1>1. /\ Len(s) \in Nat /\ DOMAIN s = 1 .. Len(s) /\ DOMAIN Append(s, e) = 1 .. Len(s) + 1
      /\ \A i \in 1 .. Len(s) : Append(s, e)[i] = s[i] /\ s[i] \in ToSet(s)
      /\ Append(s, e)[Len(s) + 1] = e
  BY AppendFacts, ToSetFacts
<1> QED
  BY <1>1 DEF Increasing

LEMMA IncreasingRest ==
    ASSUME NEW s \in Seq(Nat), NEW k \in 0 .. Len(s), Increasing(s)
    PROVE  /\ Increasing(SubSeq(s, 1, k)) /\ Increasing(SubSeq(s, k + 1, Len(s)))
           /\ Below(ToSet(SubSeq(s, 1, k)), ToSet(SubSeq(s, k + 1, Len(s))))
           /\ ToSet(s) = ToSet(SubSeq(s, 1, k)) \cup ToSet(SubSeq(s, k + 1, Len(s)))
<1> DEFINE a == SubSeq(s, 1, k)
           b == SubSeq(s, k + 1, Len(s))
<1>1. PICK n \in Nat : n = Len(s)
  BY ToSetFacts
<1>2. k \in Nat /\ k <= n /\ DOMAIN s = 1 .. n
  BY <1>1
<1>3. DOMAIN a = 1 .. k /\ \A i \in 1 .. k : a[i] = s[i]
  BY FirstFacts
<1>4. b \in Seq(Nat) /\ Len(b) = n - k /\ \A i \in 1 .. n - k : b[i] = s[k + i]
  BY <1>1, RestFacts
<1>5. DOMAIN b = 1 .. n - k
  BY <1>2, <1>4
<1> HIDE DEF a, b
<1>6. Increasing(a)
  BY <1>2, <1>3 DEF Increasing
<1>7. Increasing(b)
  <2> SUFFICES ASSUME NEW i \in 1 .. n - k, NEW j \in 1 .. n - k, i < j
               PROVE  b[i] < b[j]
    BY <1>5 DEF Increasing
  <2>1. k + i \in DOMAIN s /\ k + j \in DOMAIN s /\ k + i < k + j
    BY <1>2
  <2> QED
    BY <1>4, <2>1 DEF Increasing
<1>8. ASSUME NEW i \in 1 .. k, NEW j \in 1 .. n - k
      PROVE  a[i] < b[j]
  <2>1. i \in DOMAIN s /\ k + j \in DOMAIN s /\ i < k + j
    BY <1>2
  <2> QED
    BY <1>3, <1>4, <2>1 DEF Increasing
<1>9. Below(ToSet(a), ToSet(b))
  BY <1>3, <1>5, <1>8 DEF ToSet, Below
<1>10. ToSet(a) \subseteq ToSet(s)
  BY <1>2, <1>3 DEF ToSet
<1>11. ASSUME NEW i \in 1 .. n - k
       PROVE  b[i] \in ToSet(s)
  <2>1. k + i \in 1 .. n
    BY <1>2
  <2> QED
    BY <1>2, <1>4, <2>1 DEF ToSet
<1>12. ASSUME NEW i \in 1 .. n
       PROVE  s[i] \in ToSet(a) \cup ToSet(b)
  <2>1. CASE i <= k
    BY <1>3, <2>1 DEF ToSet
  <2>2. CASE i > k
    <3>1. i - k \in 1 .. n - k /\ k + (i - k) = i
      BY <1>2, <2>2
    <3>2. b[i - k] = s[i]
      BY <1>4, <3>1
    <3> QED
      BY <1>5, <3>1, <3>2 DEF ToSet
  <2> QED
    BY <1>2, <2>1, <2>2
<1>13. ToSet(s) = ToSet(a) \cup ToSet(b)
  <2>1. ToSet(s) \subseteq ToSet(a) \cup ToSet(b)
    BY <1>2, <1>12 DEF ToSet
  <2>2. ToSet(b) \subseteq ToSet(s)
    BY <1>5, <1>11 DEF ToSet
  <2> QED
    BY <1>10, <2>1, <2>2
<1> QED
  BY <1>6, <1>7, <1>9, <1>13 DEF a, b
-----------------------------------------------------------------------------
(* IInv is inductive: one lemma for each action.                           *)

Message == 1 .. MaxMessages

BlockType == [seq : 0 .. SeqValues, number : Nat \ {0}, messages : Seq(Message)]

ReplyType == [seq : 0 .. SeqValues - 1, number : Nat \ {0}, data : BOOLEAN, answers : 0 .. MaxMessages]

LEMMA Constants ==
    /\ SeqValues \in Nat \ {0} /\ MaxPending \in Nat /\ MaxPending < SeqValues
    /\ McuStarts \subseteq 1 .. SeqValues
    /\ RxWindow \in Nat \ {0, 1} /\ BlockSize \in Nat \ {0}
    /\ MaxMessages \in Nat /\ MaxFaults \in Nat /\ MaxWire \in Nat
BY SeqAssumption, McuAssumption, SizeAssumption, BoundAssumption

LEMMA Types ==
    ASSUME TypeOK
    PROVE  /\ ready \in Seq(Message) /\ executed \in Seq(Message) /\ sent_queue \in Seq(Seq(Message))
           /\ to_mcu \in Seq(BlockType) /\ to_host \in Seq(ReplyType)
           /\ send_seq \in Nat /\ receive_seq \in Nat /\ mcu_next \in Nat /\ last_ack_seq \in Nat
           /\ 1 <= send_seq /\ 1 <= receive_seq /\ 1 <= mcu_next
           /\ submitted \in Nat
BY Constants DEF TypeOK, Message, BlockType, ReplyType

LEMMA BlockFields ==
    ASSUME NEW block \in BlockType
    PROVE  /\ block.number \in Nat \ {0} /\ block.seq \in Nat /\ block.messages \in Seq(Message)
           /\ ToSet(block.messages) \subseteq Message
<1>1. block.number \in Nat \ {0} /\ block.seq \in Nat /\ block.messages \in Seq(Message)
  BY Constants DEF BlockType
<1> QED
  BY <1>1, ToSetFacts

LEMMA ReplyFields ==
    ASSUME NEW reply \in ReplyType
    PROVE  /\ reply.number \in Nat \ {0} /\ reply.seq \in Nat /\ reply.data \in BOOLEAN
           /\ reply.answers \in Nat
BY Constants DEF ReplyType

\* What blocks and the MCU hold are messages.
LEMMA SetsOfMessages ==
    ASSUME TypeOK
    PROVE  /\ ToSet(ready) \subseteq Message /\ ToSet(executed) \subseteq Message
           /\ \A k \in DOMAIN sent_queue : sent_queue[k] \in Seq(Message) /\ Sent(k) \subseteq Message
<1>1. ToSet(ready) \subseteq Message /\ ToSet(executed) \subseteq Message
  BY Types, ToSetFacts
<1>2. \A k \in DOMAIN sent_queue : sent_queue[k] \in Seq(Message)
  BY Types
<1>3. \A k \in DOMAIN sent_queue : Sent(k) \subseteq Message
  BY <1>2, ToSetFacts DEF Sent
<1> QED
  BY <1>1, <1>2, <1>3

\* A block on the line, when r, s, m and q are the numbers of the host and of
\* the MCU and the blocks in flight.
RightBlock(b, r, s, m, q) ==
    /\ b.number < s
    /\ m < b.number + SeqValues
    /\ b.seq \in {b.number % SeqValues, SeqValues}
    /\ b.seq # SeqValues /\ b.number >= m => b.messages = q[1 + b.number - r]

\* Two blocks on the line, the first before the second.
NotWrapped(a, b) == a.number + 1 < b.number + SeqValues

LEMMA LineExpanded ==
    LineIsNumbered <=>
      /\ \A i \in DOMAIN to_mcu : RightBlock(to_mcu[i], receive_seq, send_seq, mcu_next, sent_queue)
      /\ \A i, j \in DOMAIN to_mcu : i < j => NotWrapped(to_mcu[i], to_mcu[j])
BY DEF LineIsNumbered, RightBlock, NotWrapped

LEMMA LineExpandedNext ==
    LineIsNumbered' <=>
      /\ \A i \in DOMAIN to_mcu' : RightBlock(to_mcu'[i], receive_seq', send_seq', mcu_next', sent_queue')
      /\ \A i, j \in DOMAIN to_mcu' : i < j => NotWrapped(to_mcu'[i], to_mcu'[j])
BY DEF LineIsNumbered, RightBlock, NotWrapped

\* A block stays right when another one is sent.
LEMMA RightBlockAfterSend ==
    ASSUME NEW b \in BlockType, NEW r \in Nat, NEW s \in Nat, NEW m \in Nat, r <= m,
           NEW q \in Seq(Seq(Message)), s = r + Len(q), NEW x \in Seq(Message),
           RightBlock(b, r, s, m, q)
    PROVE  RightBlock(b, r, s + 1, m, Append(q, x))
<1>1. b.number \in Nat
  BY BlockFields
<1>2. ASSUME b.number >= m
      PROVE  Append(q, x)[1 + b.number - r] = q[1 + b.number - r]
  <2>1. 1 + b.number - r \in 1 .. Len(q)
    BY <1>1, <1>2 DEF RightBlock
  <2> QED
    BY <2>1, AppendFacts
<1> QED
  BY <1>1, <1>2 DEF RightBlock

\* A block that has just been sent is right.
LEMMA RightNewBlock ==
    ASSUME NEW b \in BlockType, NEW r \in Nat, NEW s \in Nat, NEW m \in Nat,
           r <= s, m < r + SeqValues,
           NEW q, b.number = s, b.seq = s % SeqValues, b.messages = q[1 + s - r]
    PROVE  RightBlock(b, r, s + 1, m, q)
BY Constants DEF RightBlock

\* Messages in flight, those executed and those to come, in order.
InOrder(q, r, m, done, later) ==
    /\ \A k \in DOMAIN q : Increasing(q[k]) /\ Below(ToSet(q[k]), later)
    /\ \A k, l \in DOMAIN q : k < l => Below(ToSet(q[k]), ToSet(q[l]))
    /\ Increasing(done)
    /\ Below(ToSet(done), later)
    /\ \A k \in DOMAIN q : r + k > m => Below(ToSet(done), ToSet(q[k]))

LEMMA OrderExpanded ==
    MessagesAreInOrder <=>
      /\ Increasing(ready)
      /\ \A m \in ToSet(ready) : m <= submitted
      /\ InOrder(sent_queue, receive_seq, mcu_next, executed, Unsent)
BY DEF MessagesAreInOrder, InOrder, Sent

LEMMA OrderExpandedNext ==
    MessagesAreInOrder' <=>
      /\ Increasing(ready')
      /\ \A m \in ToSet(ready') : m <= submitted'
      /\ InOrder(sent_queue', receive_seq', mcu_next', executed', Unsent')
BY DEF MessagesAreInOrder, InOrder, Sent

LEMMA OrderAfterSend ==
    ASSUME NEW q \in Seq(Seq(Message)), NEW r \in Nat, NEW m \in Nat, NEW done \in Seq(Message),
           NEW later, NEW less, NEW x \in Seq(Message),
           InOrder(q, r, m, done, later), less \subseteq later, ToSet(x) \subseteq later,
           Increasing(x), Below(ToSet(x), less)
    PROVE  InOrder(Append(q, x), r, m, done, less)
<1>1. PICK n \in Nat : n = Len(q) /\ DOMAIN q = 1 .. n
  BY ToSetFacts
<1> DEFINE p == Append(q, x)
<1>2. DOMAIN p = 1 .. n + 1 /\ (\A k \in 1 .. n : p[k] = q[k]) /\ p[n + 1] = x
  BY <1>1, AppendFacts
<1> HIDE DEF p
<1>3. \A S : Below(S, later) => Below(S, less) /\ Below(S, ToSet(x))
  BY DEF Below
<1>4. \A k \in 1 .. n + 1 : Increasing(p[k]) /\ Below(ToSet(p[k]), less)
  <2> SUFFICES ASSUME NEW k \in 1 .. n + 1
               PROVE  Increasing(p[k]) /\ Below(ToSet(p[k]), less)
    OBVIOUS
  <2>1. CASE k \in 1 .. n
    BY <1>1, <1>2, <1>3, <2>1 DEF InOrder
  <2>2. CASE k = n + 1
    BY <1>2, <2>2
  <2> QED
    BY <2>1, <2>2
<1>5. ASSUME NEW k \in 1 .. n + 1, NEW l \in 1 .. n + 1, k < l
      PROVE  Below(ToSet(p[k]), ToSet(p[l]))
  <2>1. k \in 1 .. n
    BY <1>5
  <2>2. CASE l \in 1 .. n
    BY <1>1, <1>2, <1>5, <2>1, <2>2 DEF InOrder
  <2>3. CASE l = n + 1
    BY <1>1, <1>2, <1>3, <2>1, <2>3 DEF InOrder
  <2> QED
    BY <2>2, <2>3
<1>6. Below(ToSet(done), less) /\ Below(ToSet(done), ToSet(x)) /\ Increasing(done)
  BY <1>3 DEF InOrder
<1>7. ASSUME NEW k \in 1 .. n + 1, r + k > m
      PROVE  Below(ToSet(done), ToSet(p[k]))
  <2>1. CASE k \in 1 .. n
    BY <1>1, <1>2, <1>7, <2>1 DEF InOrder
  <2>2. CASE k = n + 1
    BY <1>2, <1>6, <2>2
  <2> QED
    BY <2>1, <2>2
<1>8. InOrder(p, r, m, done, less)
  BY <1>2, <1>4, <1>5, <1>6, <1>7 DEF InOrder
<1> QED
  BY <1>8 DEF p

\* A notification that is due when its block, of number x.block, is executed.
TrueNote(x, r, s, m, q, done) ==
    /\ x.block < s
    /\ x.block < m => x.message \in done
    /\ x.block >= m => x.message \in ToSet(q[1 + x.block - r])

NoteType == [message : Message, block : Nat, early : BOOLEAN]

LEMMA NotesExpanded ==
    NotificationsAreTrue <=>
      \A x \in notify_queue : ~x.early =>
        /\ Connected
        /\ TrueNote(x, receive_seq, send_seq, mcu_next, sent_queue, ToSet(executed))
        /\ \A i \in DOMAIN to_host : to_host[i].answers = x.message => x.block = to_host[i].number - 1
        /\ Running /\ x.message \in ToSet(to_mcu[1].messages) => x.block = mcu_next - 1
BY DEF NotificationsAreTrue, TrueNote, Sent

LEMMA NotesExpandedNext ==
    NotificationsAreTrue' <=>
      \A x \in notify_queue' : ~x.early =>
        /\ Connected'
        /\ TrueNote(x, receive_seq', send_seq', mcu_next', sent_queue', ToSet(executed'))
        /\ \A i \in DOMAIN to_host' : to_host'[i].answers = x.message => x.block = to_host'[i].number - 1
        /\ Running' /\ x.message \in ToSet(to_mcu'[1].messages) => x.block = mcu_next' - 1
BY DEF NotificationsAreTrue, TrueNote, Sent

LEMMA TrueNoteAfterSend ==
    ASSUME NEW x \in NoteType, NEW r \in Nat, NEW s \in Nat, NEW m \in Nat, r <= m,
           NEW q \in Seq(Seq(Message)), s = r + Len(q), NEW y \in Seq(Message), NEW done,
           TrueNote(x, r, s, m, q, done)
    PROVE  TrueNote(x, r, s + 1, m, Append(q, y), done)
<1>1. x.block \in Nat
  BY DEF NoteType
<1>2. ASSUME x.block >= m
      PROVE  Append(q, y)[1 + x.block - r] = q[1 + x.block - r]
  <2>1. 1 + x.block - r \in 1 .. Len(q)
    BY <1>1, <1>2 DEF TrueNote
  <2> QED
    BY <2>1, AppendFacts
<1> QED
  BY <1>1, <1>2 DEF TrueNote

LEMMA InitEstablishesIInv == Init => IInv
<1> SUFFICES ASSUME Init
             PROVE  IInv
  OBVIOUS
<1> USE DEF Init
<1>1. \A S : <<>> \in Seq(S) /\ Len(<<>>) = 0 /\ DOMAIN <<>> = {}
  OBVIOUS
<1>2. ToSet(<<>>) = {}
  BY <1>1 DEF ToSet
<1>3. mcu_next \in Nat /\ 1 <= mcu_next /\ mcu_next <= SeqValues
  BY Constants
<1>4. TypeOK
  BY <1>1, <1>3, Constants DEF TypeOK
<1>5. WindowMatches /\ UnackedHasTimer /\ NotifiedByNextBlock /\ StampsArePast
  BY <1>1, Constants DEF WindowMatches, UnackedHasTimer, NotifiedByNextBlock, StampsArePast
<1>6. McuIsNear /\ LineIsNumbered /\ HeadIsRunning /\ RepliesAreInOrder
  BY <1>1, <1>3, Constants
     DEF McuIsNear, LineIsNumbered, HeadIsRunning, RepliesAreInOrder, Connected, Agreed, Running
<1>7. MessagesAreInOrder
  BY <1>1, <1>2 DEF MessagesAreInOrder, Increasing, Below, Unsent
<1>8. NotificationsAreTrue /\ BufferIsCounted
  BY <1>1, <1>2 DEF NotificationsAreTrue, BufferIsCounted, Running
<1> QED
  BY <1>4, <1>5, <1>6, <1>7, <1>8 DEF IInv

LEMMA StutterKeepsIInv == IInv /\ UNCHANGED vars => IInv'
<1> SUFFICES ASSUME IInv, UNCHANGED vars
             PROVE  IInv'
  OBVIOUS
<1> USE DEF vars, hostVars, mcuVars, IInv
<1>1. TypeOK' /\ WindowMatches' /\ UnackedHasTimer' /\ NotifiedByNextBlock' /\ StampsArePast'
  BY DEF TypeOK, WindowMatches, UnackedHasTimer, NotifiedByNextBlock, StampsArePast
<1>2. McuIsNear' /\ HeadIsRunning'
  BY DEF McuIsNear, HeadIsRunning, Connected, Agreed, Running
<1>3. LineIsNumbered'
  BY DEF LineIsNumbered
<1>4. RepliesAreInOrder'
  BY DEF RepliesAreInOrder, Agreed
<1>5. MessagesAreInOrder'
  BY DEF MessagesAreInOrder, Sent, Unsent
<1>6. NotificationsAreTrue' /\ BufferIsCounted'
  BY DEF NotificationsAreTrue, BufferIsCounted, Running, Connected, Sent
<1> QED
  BY <1>1, <1>2, <1>3, <1>4, <1>5, <1>6

LEMMA SubmitKeepsIInv == IInv /\ Submit => IInv'
<1> SUFFICES ASSUME IInv, Submit
             PROVE  IInv'
  OBVIOUS
<1>1. /\ submitted < MaxMessages /\ submitted' = submitted + 1
      /\ ready' = Append(ready, submitted + 1)
      /\ UNCHANGED <<hostVars, receive_window, to_mcu, to_host, mcuVars, faults, resent>>
  BY DEF Submit
<1>2. /\ TypeOK /\ WindowMatches /\ UnackedHasTimer /\ NotifiedByNextBlock
      /\ StampsArePast /\ McuIsNear /\ LineIsNumbered /\ HeadIsRunning /\ RepliesAreInOrder
      /\ MessagesAreInOrder /\ NotificationsAreTrue /\ BufferIsCounted
  BY DEF IInv
<1>3. submitted \in Nat /\ submitted + 1 \in Message /\ ready \in Seq(Message)
  BY <1>1, <1>2, Types, Constants DEF Message
<1>4. /\ ready' \in Seq(Message)
      /\ DOMAIN ready = 1 .. Len(ready) /\ Len(ready) \in Nat
      /\ DOMAIN ready' = 1 .. Len(ready) + 1
      /\ \A i \in 1 .. Len(ready) : ready'[i] = ready[i] /\ ready[i] \in ToSet(ready) /\ ready[i] \in Message
      /\ ready'[Len(ready) + 1] = submitted + 1
      /\ ToSet(ready') = ToSet(ready) \cup {submitted + 1}
  BY <1>1, <1>3, AppendFacts, ToSetFacts
<1>5. TypeOK' /\ WindowMatches' /\ UnackedHasTimer' /\ NotifiedByNextBlock' /\ StampsArePast'
  <2> USE <1>1, <1>2 DEF hostVars, mcuVars
  <2>1. TypeOK'
    BY <1>3, <1>4, Constants DEF TypeOK, Message
  <2> QED
    BY <2>1 DEF WindowMatches, UnackedHasTimer, NotifiedByNextBlock, StampsArePast
<1>6. McuIsNear' /\ HeadIsRunning' /\ LineIsNumbered' /\ RepliesAreInOrder'
  <2> USE <1>1, <1>2 DEF hostVars, mcuVars
  <2>1. McuIsNear' /\ HeadIsRunning'
    BY DEF McuIsNear, HeadIsRunning, Connected, Agreed, Running
  <2>2. LineIsNumbered'
    BY DEF LineIsNumbered
  <2> QED
    BY <2>1, <2>2 DEF RepliesAreInOrder, Agreed
<1>7. MessagesAreInOrder'
  <2>1. sent_queue' = sent_queue /\ executed' = executed /\ mcu_next' = mcu_next /\ receive_seq' = receive_seq
    BY <1>1 DEF hostVars, mcuVars
  <2>2. \A m \in ToSet(ready) : m \in Message /\ m <= submitted
    BY <1>2, SetsOfMessages DEF MessagesAreInOrder
  <2>3. Increasing(ready')
    <3>1. Increasing(ready) /\ \A m \in ToSet(ready) : m < submitted + 1
      BY <1>2, <1>3, <2>2 DEF MessagesAreInOrder, Message
    <3>2. ready \in Seq(Nat)
      BY <1>3, Constants, SeqMonotonic DEF Message
    <3> QED
      BY <1>1, <1>3, <3>1, <3>2, IncreasingAppend
  <2>4. \A m \in ToSet(ready') : m <= submitted'
    BY <1>1, <1>3, <1>4, <2>2 DEF Message
  <2>5. Unsent' = Unsent \cup {submitted + 2}
    BY <1>1, <1>3, <1>4 DEF Unsent
  <2>6. ASSUME NEW S \in SUBSET Message, Below(S, Unsent)
        PROVE  Below(S, Unsent')
    <3>1. \A m \in S : m < submitted + 1 /\ m \in Nat
      BY <2>6 DEF Below, Unsent, Message
    <3> QED
      BY <1>3, <2>5, <2>6, <3>1 DEF Below
  <2>7. ToSet(executed) \subseteq Message /\ \A k \in DOMAIN sent_queue : Sent(k) \subseteq Message
    BY <1>2, SetsOfMessages
  <2>8. Below(ToSet(executed'), Unsent')
    BY <1>2, <2>1, <2>6, <2>7 DEF MessagesAreInOrder
  <2>9. \A k \in DOMAIN sent_queue : Below(Sent(k), Unsent') /\ Sent(k)' = Sent(k)
    BY <1>2, <2>1, <2>6, <2>7 DEF MessagesAreInOrder, Sent
  <2> QED
    BY <1>2, <2>1, <2>3, <2>4, <2>8, <2>9 DEF MessagesAreInOrder
<1>8. NotificationsAreTrue' /\ BufferIsCounted'
  BY <1>1, <1>2 DEF hostVars, mcuVars, NotificationsAreTrue, BufferIsCounted, Running, Connected, Sent
<1> QED
  BY <1>5, <1>6, <1>7, <1>8 DEF IInv
LEMMA SendBlockKeepsIInv == IInv /\ SendBlock => IInv'
<1> SUFFICES ASSUME IInv, SendBlock
             PROVE  IInv'
  OBVIOUS
<1>1. /\ TypeOK /\ WindowMatches /\ UnackedHasTimer /\ NotifiedByNextBlock
      /\ StampsArePast /\ McuIsNear /\ LineIsNumbered /\ HeadIsRunning /\ RepliesAreInOrder
      /\ MessagesAreInOrder /\ NotificationsAreTrue /\ BufferIsCounted
  BY DEF IInv
<1>2. /\ ready \in Seq(Message) /\ executed \in Seq(Message) /\ sent_queue \in Seq(Seq(Message))
      /\ to_mcu \in Seq(BlockType) /\ to_host \in Seq(ReplyType)
      /\ send_seq \in Nat /\ receive_seq \in Nat /\ mcu_next \in Nat /\ last_ack_seq \in Nat
      /\ 1 <= send_seq /\ 1 <= receive_seq /\ 1 <= mcu_next
      /\ submitted \in Nat
  BY <1>1, Types
<1>3. PICK size : size = IF Len(ready) < BlockSize THEN Len(ready) ELSE BlockSize
  OBVIOUS
<1>4. PICK messages : messages = SubSeq(ready, 1, size)
  OBVIOUS
<1>5. PICK block : block = Block(send_seq, messages)
  OBVIOUS
<1>6. /\ ready # <<>> /\ send_seq - receive_seq < MaxPending
      /\ ready' = SubSeq(ready, size + 1, Len(ready))
      /\ sent_queue' = Append(sent_queue, messages)
      /\ to_mcu' = Append(to_mcu, block)
      /\ send_seq' = send_seq + 1
      /\ retransmit_timer' = IF sent_queue = <<>> THEN "later" ELSE retransmit_timer
      /\ notify_queue' \subseteq notify_queue \cup
           {[message |-> m, block |-> send_seq, early |-> ~Connected] : m \in ToSet(messages)}
  BY <1>3, <1>4, <1>5 DEF SendBlock, MaySend
<1>7. UNCHANGED <<receive_seq, last_ack_seq, ignore_nak_seq, retransmit_seq, receive_window,
                  last_ack_bytes, last_receive_sent, stamp, answered, to_host, mcu_next, mcu_state,
                  executed, submitted, faults, resent>>
  BY DEF SendBlock, mcuVars
<1>8. size \in 0 .. Len(ready)
  BY <1>2, <1>3, <1>6, Constants
<1>9. messages \in Seq(Message) /\ ready' \in Seq(Message)
  BY <1>2, <1>4, <1>6, <1>8, FirstFacts, RestFacts
<1>10. /\ Increasing(messages) /\ Increasing(ready') /\ Below(ToSet(messages), ToSet(ready'))
       /\ ToSet(ready) = ToSet(messages) \cup ToSet(ready')
  <2>1. ready \in Seq(Nat) /\ Increasing(ready)
    BY <1>1, <1>2, Constants, SeqMonotonic DEF Message, MessagesAreInOrder
  <2> QED
    BY <1>4, <1>6, <1>8, <2>1, IncreasingRest
<1>11. /\ block \in BlockType /\ block.number = send_seq /\ block.seq = send_seq % SeqValues
       /\ block.messages = messages
  BY <1>2, <1>5, <1>9, ModRange, Constants DEF Block, BlockType
<1>12. PICK n \in Nat : n = Len(sent_queue)
  BY <1>2
<1>13. PICK L \in Nat : L = Len(to_mcu)
  BY <1>2
<1>14. /\ to_mcu' \in Seq(BlockType) /\ DOMAIN to_mcu = 1 .. L /\ DOMAIN to_mcu' = 1 .. L + 1
       /\ \A i \in 1 .. L : to_mcu'[i] = to_mcu[i]
       /\ to_mcu'[L + 1] = block
  BY <1>2, <1>6, <1>11, <1>13, AppendFacts
<1>15. /\ sent_queue' \in Seq(Seq(Message)) /\ Len(sent_queue') = n + 1
       /\ sent_queue'[n + 1] = messages
  BY <1>2, <1>6, <1>9, <1>12, AppendFacts
<1>16. send_seq = receive_seq + n /\ n <= MaxPending
  BY <1>1, <1>12 DEF WindowMatches
<1>17. mcu_next >= receive_seq /\ mcu_next < receive_seq + SeqValues
  BY <1>1 DEF McuIsNear
<1>18. Agreed => Agreed'
  BY <1>2, <1>6, <1>7 DEF Agreed
<1>19. \A i \in 1 .. L : /\ to_mcu[i] \in BlockType /\ to_mcu[i].number \in Nat
                         /\ to_mcu[i].number < send_seq
  <2>1. \A i \in 1 .. L : to_mcu[i] \in BlockType /\ to_mcu[i].number < send_seq
    BY <1>1, <1>2, <1>14 DEF LineIsNumbered
  <2> QED
    BY <2>1, BlockFields
<1>20. Running => L # 0 /\ to_mcu'[1] = to_mcu[1]
  BY <1>1, <1>2, <1>13, <1>14 DEF HeadIsRunning
<1>21. /\ ToSet(messages) \subseteq Unsent /\ Unsent' \subseteq Unsent
       /\ ToSet(messages) \subseteq Message
       /\ Below(ToSet(messages), Unsent')
  <2>1. Unsent' \subseteq Unsent /\ ToSet(messages) \subseteq Unsent
    BY <1>7, <1>10 DEF Unsent
  <2>2. \A m \in ToSet(messages) : m \in Message /\ m < submitted + 1
    BY <1>1, <1>2, <1>10, SetsOfMessages DEF MessagesAreInOrder, Message
  <2> QED
    BY <1>7, <1>10, <2>1, <2>2 DEF Below, Unsent
<1>22. TypeOK'
  <2>1. notify_queue' \subseteq NoteType
    <3>1. notify_queue \subseteq NoteType
      BY <1>1 DEF TypeOK, NoteType, Message
    <3>2. \A m \in ToSet(messages) :
             [message |-> m, block |-> send_seq, early |-> ~Connected] \in NoteType
      BY <1>2, <1>21 DEF NoteType
    <3> QED
      BY <1>6, <3>1, <3>2
  <2>2. retransmit_timer' \in {"never", "later", "now"} /\ send_seq' \in Nat \ {0}
    BY <1>1, <1>2, <1>6 DEF TypeOK
  <2> QED
    BY <1>1, <1>7, <1>9, <1>14, <1>15, <2>1, <2>2 DEF TypeOK, Message, BlockType, NoteType
<1>23. WindowMatches'
  BY <1>2, <1>6, <1>7, <1>15, <1>16, Constants DEF WindowMatches
<1>24. UnackedHasTimer'
  BY <1>1, <1>6, <1>15 DEF UnackedHasTimer
<1>25. NotifiedByNextBlock'
  BY <1>1, <1>2, <1>6, <1>7, <1>16 DEF NotifiedByNextBlock
<1>26. StampsArePast'
  <2>1. retransmit_seq <= send_seq' 
    BY <1>1, <1>2, <1>6 DEF StampsArePast, TypeOK
  <2> QED
    BY <1>1, <1>7, <2>1 DEF StampsArePast
<1>27. McuIsNear'
  BY <1>1, <1>7, <1>18 DEF McuIsNear, Connected, Running
<1>28. LineIsNumbered'
  <2>1. ASSUME NEW i \in 1 .. L + 1
        PROVE  RightBlock(to_mcu'[i], receive_seq', send_seq', mcu_next', sent_queue')
    <3>1. CASE i \in 1 .. L
      BY <1>1, <1>2, <1>6, <1>7, <1>9, <1>12, <1>14, <1>16, <1>17, <1>19, <3>1,
         LineExpanded, RightBlockAfterSend
    <3>2. CASE i = L + 1
      <4>1. 1 + send_seq - receive_seq = n + 1 /\ receive_seq <= send_seq
        BY <1>2, <1>16
      <4> QED
        BY <1>2, <1>6, <1>7, <1>11, <1>14, <1>15, <1>17, <3>2, <4>1, RightNewBlock
    <3> QED
      BY <3>1, <3>2
  <2>2. ASSUME NEW i \in 1 .. L + 1, NEW j \in 1 .. L + 1, i < j
        PROVE  NotWrapped(to_mcu'[i], to_mcu'[j])
    <3>1. i \in 1 .. L
      BY <2>2
    <3>2. CASE j \in 1 .. L
      BY <1>1, <1>14, <2>2, <3>1, <3>2, LineExpanded
    <3>3. CASE j = L + 1
      BY <1>2, <1>11, <1>14, <1>19, <3>1, <3>3, Constants DEF NotWrapped
    <3> QED
      BY <3>2, <3>3
  <2> QED
    BY <1>14, <2>1, <2>2, LineExpandedNext
<1>29. HeadIsRunning'
  <2>1. Running => to_mcu' # <<>>
    BY <1>14
  <2> QED
    BY <1>1, <1>7, <1>20, <2>1 DEF HeadIsRunning, Running
<1>30. RepliesAreInOrder'
  BY <1>1, <1>7, <1>18 DEF RepliesAreInOrder
<1>31. MessagesAreInOrder'
  <2>1. \A m \in ToSet(ready') : m <= submitted'
    BY <1>1, <1>7, <1>10 DEF MessagesAreInOrder
  <2>2. InOrder(sent_queue', receive_seq', mcu_next', executed', Unsent')
    BY <1>1, <1>2, <1>6, <1>7, <1>9, <1>10, <1>21, OrderExpanded, OrderAfterSend
  <2> QED
    BY <1>10, <2>1, <2>2, OrderExpandedNext
<1>32. NotificationsAreTrue'
  <2> DEFINE Fine(x) ==
        /\ Connected'
        /\ TrueNote(x, receive_seq', send_seq', mcu_next', sent_queue', ToSet(executed'))
        /\ \A i \in DOMAIN to_host' : to_host'[i].answers = x.message => x.block = to_host'[i].number - 1
        /\ Running' /\ x.message \in ToSet(to_mcu'[1].messages) => x.block = mcu_next' - 1
  <2>1. Connected' = Connected /\ Running' = Running
    BY <1>7 DEF Connected, Running
  <2>2. ASSUME NEW x \in notify_queue, ~x.early
        PROVE  Fine(x)
    <3>1. x \in NoteType
      BY <1>1 DEF TypeOK, NoteType, Message
    <3>2. TrueNote(x, receive_seq', send_seq', mcu_next', sent_queue', ToSet(executed'))
      BY <1>1, <1>2, <1>6, <1>7, <1>9, <1>12, <1>16, <1>17, <2>2, <3>1, NotesExpanded, TrueNoteAfterSend
    <3> QED
      BY <1>1, <1>7, <1>20, <2>1, <2>2, <3>2, NotesExpanded
  <2>3. ASSUME NEW m \in ToSet(messages), Connected
        PROVE  Fine([message |-> m, block |-> send_seq, early |-> ~Connected])
    <3> DEFINE x == [message |-> m, block |-> send_seq, early |-> ~Connected]
    <3>1. x.message = m /\ x.block = send_seq
      OBVIOUS
    <3> HIDE DEF x
    <3>2. mcu_next <= send_seq
      BY <1>1, <2>3 DEF McuIsNear, Agreed
    <3>3. 1 + send_seq - receive_seq = n + 1
      BY <1>2, <1>16
    <3>4. TrueNote(x, receive_seq', send_seq', mcu_next', sent_queue', ToSet(executed'))
      <4>1. sent_queue'[1 + x.block - receive_seq'] = messages
        BY <1>7, <1>15, <3>1, <3>3
      <4>2. x.block < send_seq' /\ ~(x.block < mcu_next')
        BY <1>2, <1>6, <1>7, <3>1, <3>2
      <4> QED
        BY <3>1, <4>1, <4>2 DEF TrueNote
    <3>5. m \notin ToSet(executed) /\ m # 0
      <4>1. m \in Unsent /\ m \in Message
        BY <1>21
      <4>2. m \notin ToSet(executed)
        BY <1>1, <4>1, Constants DEF MessagesAreInOrder, Below, Message
      <4> QED
        BY <4>1, <4>2, Constants DEF Message
    <3>6. \A i \in DOMAIN to_host : to_host[i].answers # m
      BY <1>1, <3>5 DEF RepliesAreInOrder
    <3>7. Running => m \notin ToSet(to_mcu[1].messages)
      BY <1>1, <3>5 DEF HeadIsRunning
    <3>8. Fine(x)
      BY <1>7, <1>20, <2>1, <2>3, <3>1, <3>4, <3>6, <3>7
    <3> QED
      BY <3>8 DEF x
  <2> HIDE DEF Fine
  <2>4. ASSUME NEW x \in notify_queue', ~x.early
        PROVE  Fine(x)
    <3>1. CASE x \in notify_queue
      BY <2>2, <2>4, <3>1
    <3>2. CASE x \notin notify_queue
      <4>1. PICK m \in ToSet(messages) : x = [message |-> m, block |-> send_seq, early |-> ~Connected]
        BY <1>6, <2>4, <3>2
      <4>2. Connected
        BY <2>4, <4>1
      <4> QED
        BY <2>3, <4>1, <4>2
    <3> QED
      BY <3>1, <3>2
  <2> QED
    BY <2>4, NotesExpandedNext DEF Fine
<1>33. BufferIsCounted'
  <2>1. Running' = Running
    BY <1>7 DEF Running
  <2>2. ASSUME resent = {}, NEW i \in 1 .. L + 1, NEW j \in 1 .. L + 1, i < j
        PROVE  to_mcu'[i].number + (j - i) <= to_mcu'[j].number
    <3>1. i \in 1 .. L
      BY <2>2
    <3>2. CASE j \in 1 .. L
      BY <1>1, <1>14, <2>2, <3>1, <3>2 DEF BufferIsCounted
    <3>3. CASE j = L + 1
      <4>1. to_mcu[i].number + (L - i) <= to_mcu[L].number
        <5>1. CASE i = L
          BY <1>19, <3>1, <5>1
        <5>2. CASE i # L
          <6>1. i < L /\ L \in 1 .. L
            BY <3>1, <5>2
          <6> QED
            BY <1>1, <1>14, <2>2, <3>1, <6>1 DEF BufferIsCounted
        <5> QED
          BY <5>1, <5>2
      <4>2. L \in 1 .. L
        BY <3>1
      <4>3. to_mcu[L].number < send_seq /\ to_mcu[L].number \in Nat /\ to_mcu[i].number \in Nat
        BY <1>19, <3>1, <4>2
      <4>4. to_mcu[i].number + (L + 1 - i) <= send_seq
        <5>1. PICK a \in Nat, b \in Nat : a = to_mcu[i].number /\ b = to_mcu[L].number
          BY <4>3
        <5>2. a + (L - i) <= b /\ b < send_seq /\ i \in Nat
          BY <3>1, <4>1, <4>3, <5>1
        <5>3. a + (L + 1 - i) <= send_seq
          BY <1>2, <5>2
        <5> QED
          BY <5>1, <5>3
      <4> QED
        BY <1>11, <1>14, <3>1, <3>3, <4>4
    <3> QED
      BY <3>2, <3>3
  <2>3. ASSUME resent = {}, executed # <<>>, NEW i \in 1 .. L + 1
        PROVE  to_mcu'[i].number + (IF Running THEN 1 ELSE 0) >= mcu_next
    <3>1. CASE i \in 1 .. L
      BY <1>1, <1>14, <2>3, <3>1 DEF BufferIsCounted
    <3>2. CASE i = L + 1
      <4>1. mcu_next <= send_seq
        BY <1>1, <2>3 DEF McuIsNear, Agreed
      <4> QED
        BY <1>2, <1>11, <1>14, <3>2, <4>1
    <3> QED
      BY <3>1, <3>2
  <2> QED
    BY <1>1, <1>7, <1>14, <2>1, <2>2, <2>3 DEF BufferIsCounted
<1> QED
  BY <1>22, <1>23, <1>24, <1>25, <1>26, <1>27, <1>28, <1>29, <1>30, <1>31, <1>32, <1>33 DEF IInv
-----------------------------------------------------------------------------
(* What becomes of a line that loses blocks.                               *)

\* Block b is block a, or what is left of it.
From(b, a) == b \in {a, Damaged(a)}

\* The blocks of line that are left, in the same order.
Thinned(rest, line) ==
    /\ rest \in Seq(BlockType)
    /\ \A i \in DOMAIN rest : \E k \in DOMAIN line : From(rest[i], line[k])
    /\ \A i, j \in DOMAIN rest :
         i < j => \E k, l \in DOMAIN line :
                    k + (j - i) <= l /\ From(rest[i], line[k]) /\ From(rest[j], line[l])

\* Every two blocks of the line are as far apart in number as in place.
Spaced(line) ==
    \A i, j \in DOMAIN line : i < j => line[i].number + (j - i) <= line[j].number

LEMMA DamagedFacts ==
    ASSUME NEW a \in BlockType
    PROVE  /\ Damaged(a) \in BlockType
           /\ Damaged(a).number = a.number /\ Damaged(a).seq = SeqValues
           /\ Damaged(a).messages = <<>>
<1>1. <<>> \in Seq(Message)
  OBVIOUS
<1> QED
  BY <1>1, Constants DEF Damaged, BlockType

LEMMA RightDamaged ==
    ASSUME NEW a \in BlockType, NEW r, NEW s, NEW m, NEW q, RightBlock(a, r, s, m, q),
           NEW b, From(b, a)
    PROVE  RightBlock(b, r, s, m, q)
BY DamagedFacts DEF RightBlock, From

LEMMA ThinnedLineIsRight ==
    ASSUME NEW line \in Seq(BlockType), NEW rest, Thinned(rest, line)
    PROVE  /\ \A r, s, m, q :
                (\A i \in DOMAIN line : RightBlock(line[i], r, s, m, q))
                  => \A i \in DOMAIN rest : RightBlock(rest[i], r, s, m, q)
           /\ (\A i, j \in DOMAIN line : i < j => NotWrapped(line[i], line[j]))
                => \A i, j \in DOMAIN rest : i < j => NotWrapped(rest[i], rest[j])
           /\ Spaced(line) => Spaced(rest)
           /\ \A i \in DOMAIN rest : \E k \in DOMAIN line : rest[i].number = line[k].number
<1>1. DOMAIN rest = 1 .. Len(rest) /\ DOMAIN line = 1 .. Len(line) /\ Len(line) \in Nat /\ Len(rest) \in Nat
  BY DEF Thinned
<1>2. \A k \in DOMAIN line : line[k] \in BlockType /\ line[k].number \in Nat
  BY BlockFields
<1>3. \A b : \A k \in DOMAIN line : From(b, line[k]) => b.number = line[k].number
  BY <1>2, DamagedFacts DEF From
<1>4. ASSUME NEW r, NEW s, NEW m, NEW q,
             \A i \in DOMAIN line : RightBlock(line[i], r, s, m, q)
      PROVE  \A i \in DOMAIN rest : RightBlock(rest[i], r, s, m, q)
  BY <1>2, <1>4, RightDamaged DEF Thinned
<1>5. ASSUME \A i, j \in DOMAIN line : i < j => NotWrapped(line[i], line[j]),
             NEW i \in DOMAIN rest, NEW j \in DOMAIN rest, i < j
      PROVE  NotWrapped(rest[i], rest[j])
  <2>1. PICK k \in DOMAIN line, l \in DOMAIN line :
            k + (j - i) <= l /\ From(rest[i], line[k]) /\ From(rest[j], line[l])
    BY <1>5 DEF Thinned
  <2>2. k < l
    BY <1>1, <1>5, <2>1
  <2> QED
    BY <1>3, <1>5, <2>1, <2>2 DEF NotWrapped
<1>6. ASSUME Spaced(line), NEW i \in DOMAIN rest, NEW j \in DOMAIN rest, i < j
      PROVE  rest[i].number + (j - i) <= rest[j].number
  <2>1. PICK k \in DOMAIN line, l \in DOMAIN line :
            k + (j - i) <= l /\ From(rest[i], line[k]) /\ From(rest[j], line[l])
    BY <1>6 DEF Thinned
  <2>2. k < l
    BY <1>1, <1>6, <2>1
  <2>3. line[k].number + (l - k) <= line[l].number
    BY <1>6, <2>2 DEF Spaced
  <2>4. rest[i].number = line[k].number /\ rest[j].number = line[l].number
    BY <1>3, <2>1
  <2> QED
    BY <1>1, <1>2, <2>1, <2>3, <2>4
<1>7. \A i \in DOMAIN rest : \E k \in DOMAIN line : rest[i].number = line[k].number
  BY <1>3 DEF Thinned
<1> QED
  BY <1>4, <1>5, <1>6, <1>7 DEF Spaced

\* Places stay, with or without damage.
LEMMA ThinnedInPlace ==
    ASSUME NEW line \in Seq(BlockType), NEW rest \in Seq(BlockType), Len(rest) <= Len(line),
           \A i \in 1 .. Len(rest) : From(rest[i], line[i])
    PROVE  Thinned(rest, line)
<1>1. DOMAIN rest = 1 .. Len(rest) /\ DOMAIN line = 1 .. Len(line) /\ Len(line) \in Nat /\ Len(rest) \in Nat
  OBVIOUS
<1>2. \A i \in DOMAIN rest : i \in DOMAIN line /\ From(rest[i], line[i])
  BY <1>1
<1>3. ASSUME NEW i \in DOMAIN rest, NEW j \in DOMAIN rest, i < j
      PROVE  \E k, l \in DOMAIN line :
                k + (j - i) <= l /\ From(rest[i], line[k]) /\ From(rest[j], line[l])
  <2>1. i + (j - i) <= j
    BY <1>1
  <2> QED
    BY <1>2, <2>1
<1> QED
  BY <1>2, <1>3 DEF Thinned

LEMMA ThinnedByOne ==
    ASSUME NEW line \in Seq(BlockType), NEW k \in 1 .. Len(line), NEW rest \in Seq(BlockType),
           Len(rest) = Len(line) - 1,
           \A i \in 1 .. Len(line) - 1 : rest[i] = line[IF i < k THEN i ELSE i + 1]
    PROVE  Thinned(rest, line)
<1>1. PICK n \in Nat : n = Len(line) /\ DOMAIN line = 1 .. n /\ DOMAIN rest = 1 .. n - 1
  OBVIOUS
<1> DEFINE f(i) == IF i < k THEN i ELSE i + 1
<1>2. \A i \in 1 .. n - 1 : f(i) \in 1 .. n /\ From(rest[i], line[f(i)])
  BY <1>1 DEF From
<1>3. \A i, j \in 1 .. n - 1 : i < j => f(i) + (j - i) <= f(j)
  BY <1>1
<1> QED
  BY <1>1, <1>2, <1>3 DEF Thinned

LEMMA FlushedIsThinned ==
    ASSUME TypeOK, NEW line \in Flushed
    PROVE  /\ Thinned(line, to_mcu)
           /\ Running /\ to_mcu # <<>> => line # <<>> /\ line[1] = to_mcu[1]
<1>1. to_mcu \in Seq(BlockType)
  BY Types
<1>2. PICK L \in Nat : L = Len(to_mcu) /\ DOMAIN to_mcu = 1 .. L
  BY <1>1
<1>3. PICK sent \in {0, 1} : sent = IF mcu_state = "idle" THEN 0 ELSE 1
  OBVIOUS
<1>4. CASE line = to_mcu
  <2>1. \A i \in 1 .. Len(line) : From(line[i], to_mcu[i])
    BY <1>4 DEF From
  <2> QED
    BY <1>1, <1>2, <1>4, <2>1, ThinnedInPlace
<1>5. ASSUME NEW k \in sent .. L - 1, line = SubSeq(to_mcu, 1, k)
      PROVE  /\ Thinned(line, to_mcu)
             /\ Running /\ to_mcu # <<>> => line # <<>> /\ line[1] = to_mcu[1]
  <2>1. k \in 0 .. L /\ k < L
    BY <1>3, <1>5
  <2>2. line \in Seq(BlockType) /\ Len(line) = k /\ \A i \in 1 .. k : line[i] = to_mcu[i]
    BY <1>1, <1>2, <1>5, <2>1, FirstFacts
  <2>3. Thinned(line, to_mcu)
    BY <1>1, <1>2, <2>1, <2>2, ThinnedInPlace DEF From
  <2>4. Running => k >= 1
    BY <1>3, <1>5 DEF Running
  <2> QED
    BY <2>1, <2>2, <2>3, <2>4
<1>6. ASSUME NEW k \in sent .. L - 1, line = Append(SubSeq(to_mcu, 1, k), Damaged(to_mcu[k + 1]))
      PROVE  /\ Thinned(line, to_mcu)
             /\ Running /\ to_mcu # <<>> => line # <<>> /\ line[1] = to_mcu[1]
  <2>1. k \in 0 .. L /\ k < L /\ k + 1 \in 1 .. L
    BY <1>3, <1>6
  <2> DEFINE first == SubSeq(to_mcu, 1, k)
             last == Damaged(to_mcu[k + 1])
  <2>2. first \in Seq(BlockType) /\ Len(first) = k /\ \A i \in 1 .. k : first[i] = to_mcu[i]
    BY <1>1, <1>2, <2>1, FirstFacts
  <2>3. last \in BlockType
    BY <1>1, <1>2, <2>1, DamagedFacts
  <2>4. From(last, to_mcu[k + 1])
    BY DEF From
  <2> HIDE DEF first, last
  <2>5. /\ line \in Seq(BlockType) /\ Len(line) = k + 1 /\ line[k + 1] = last
        /\ \A i \in 1 .. k : line[i] = first[i]
    <3>1. line = Append(first, last)
      BY <1>6 DEF first, last
    <3> QED
      BY <2>2, <2>3, <3>1, AppendFacts
  <2>6. \A i \in 1 .. k + 1 : From(line[i], to_mcu[i])
    <3>1. \A i \in 1 .. k : From(line[i], to_mcu[i])
      BY <2>2, <2>5 DEF From
    <3> QED
      BY <2>1, <2>4, <2>5, <3>1
  <2>7. Thinned(line, to_mcu)
    BY <1>1, <1>2, <2>1, <2>5, <2>6, ThinnedInPlace
  <2>8. Running => 1 \in 1 .. k
    BY <1>3, <1>6 DEF Running
  <2> QED
    BY <2>1, <2>2, <2>5, <2>7, <2>8
<1> QED
  BY <1>2, <1>3, <1>4, <1>5, <1>6 DEF Flushed
-----------------------------------------------------------------------------
(* What becomes of the replies on the line.                                *)

\* A reply, when r and m are the numbers of the host and of the MCU.
RightReply(e, r, m, agreed, done) ==
    /\ e.seq = e.number % SeqValues
    /\ r <= e.number /\ e.number <= m
    /\ agreed \/ e.number = m
    /\ e.answers \in done \cup {0}
    /\ e.data \/ e.answers = 0

\* Two replies, the first before the second.
Before(a, b) ==
    /\ a.number <= b.number
    /\ a.data \/ b.answers = 0 \/ a.number < b.number

RightReplies(host, r, m, agreed, done) ==
    /\ \A i \in DOMAIN host : RightReply(host[i], r, m, agreed, done)
    /\ \A i, j \in DOMAIN host : i < j => Before(host[i], host[j])

LEMMA RepliesExpanded ==
    RepliesAreInOrder <=> RightReplies(to_host, receive_seq, mcu_next, Agreed, ToSet(executed))
BY DEF RepliesAreInOrder, RightReplies, RightReply, Before

LEMMA RepliesExpandedNext ==
    RepliesAreInOrder' <=>
        RightReplies(to_host', receive_seq', mcu_next', Agreed', ToSet(executed'))
BY DEF RepliesAreInOrder, RightReplies, RightReply, Before

LEMMA OneMoreReply ==
    ASSUME NEW host \in Seq(ReplyType), NEW e \in ReplyType, NEW r, NEW m, NEW agreed, NEW done,
           RightReplies(host, r, m, agreed, done), RightReply(e, r, m, agreed, done),
           \A i \in DOMAIN host : Before(host[i], e)
    PROVE  /\ RightReplies(Append(host, e), r, m, agreed, done)
           /\ Append(host, e) \in Seq(ReplyType)
           /\ \A i \in DOMAIN Append(host, e) :
                Append(host, e)[i] = e \/ \E k \in DOMAIN host : Append(host, e)[i] = host[k]
<1>1. PICK n \in Nat : n = Len(host) /\ DOMAIN host = 1 .. n
  OBVIOUS
<1> DEFINE more == Append(host, e)
<1>2. /\ more \in Seq(ReplyType) /\ DOMAIN more = 1 .. n + 1 /\ more[n + 1] = e
      /\ \A i \in 1 .. n : more[i] = host[i]
  BY <1>1, AppendFacts
<1> HIDE DEF more
<1>3. \A i \in 1 .. n + 1 : i \in 1 .. n \/ i = n + 1
  OBVIOUS
<1>4. \A i \in 1 .. n + 1 : RightReply(more[i], r, m, agreed, done)
  BY <1>1, <1>2, <1>3 DEF RightReplies
<1>5. ASSUME NEW i \in 1 .. n + 1, NEW j \in 1 .. n + 1, i < j
      PROVE  Before(more[i], more[j])
  <2>1. i \in 1 .. n
    BY <1>5
  <2>2. CASE j \in 1 .. n
    BY <1>1, <1>2, <1>5, <2>1, <2>2 DEF RightReplies
  <2>3. CASE j = n + 1
    BY <1>1, <1>2, <2>1, <2>3
  <2> QED
    BY <2>2, <2>3
<1>6. RightReplies(more, r, m, agreed, done)
  BY <1>2, <1>4, <1>5 DEF RightReplies
<1>7. \A i \in DOMAIN more : more[i] = e \/ \E k \in DOMAIN host : more[i] = host[k]
  BY <1>1, <1>2, <1>3
<1> QED
  BY <1>2, <1>6, <1>7 DEF more

LEMMA OneReplyLess ==
    ASSUME NEW host \in Seq(ReplyType), NEW k \in 1 .. Len(host), NEW less \in Seq(ReplyType),
           Len(less) = Len(host) - 1,
           \A i \in 1 .. Len(host) - 1 : less[i] = host[IF i < k THEN i ELSE i + 1],
           NEW r, NEW m, NEW agreed, NEW done, RightReplies(host, r, m, agreed, done)
    PROVE  /\ RightReplies(less, r, m, agreed, done)
           /\ \A i \in DOMAIN less : \E j \in DOMAIN host : less[i] = host[j]
<1>1. PICK n \in Nat : n = Len(host) /\ DOMAIN host = 1 .. n /\ DOMAIN less = 1 .. n - 1
  OBVIOUS
<1> DEFINE f(i) == IF i < k THEN i ELSE i + 1
<1>2. \A i \in 1 .. n - 1 : f(i) \in 1 .. n /\ less[i] = host[f(i)]
  BY <1>1
<1>3. \A i, j \in 1 .. n - 1 : i < j => f(i) < f(j)
  BY <1>1
<1> HIDE DEF f
<1> QED
  BY <1>1, <1>2, <1>3 DEF RightReplies

-----------------------------------------------------------------------------
LEMMA ReplyFacts ==
    ASSUME mcu_next \in Nat \ {0}, NEW data \in BOOLEAN, NEW answers \in 0 .. MaxMessages
    PROVE  /\ Reply(data, answers) \in ReplyType
           /\ Reply(data, answers).number = mcu_next
           /\ Reply(data, answers).seq = mcu_next % SeqValues
           /\ Reply(data, answers).data = data
           /\ Reply(data, answers).answers = answers
<1>1. PICK b : b = mcu_next % SeqValues
  OBVIOUS
<1>2. b \in 0 .. SeqValues - 1
  BY <1>1, ModRange, Constants
<1>3. Reply(data, answers) = [seq |-> b, number |-> mcu_next, data |-> data, answers |-> answers]
  BY <1>1 DEF Reply
<1> QED
  BY <1>1, <1>2, <1>3 DEF ReplyType

\* What a reply of the MCU leaves as it is.
LEMMA RightNewReply ==
    ASSUME IInv, NEW data \in BOOLEAN, NEW answers \in ToSet(executed) \cup {0},
           ~data => answers = 0,
           \A i \in DOMAIN to_host : Before(to_host[i], Reply(data, answers)),
           to_host' = Append(to_host, Reply(data, answers))
    PROVE  /\ RightReplies(to_host', receive_seq, mcu_next, Agreed, ToSet(executed))
           /\ to_host' \in Seq(ReplyType)
           /\ \A i \in DOMAIN to_host' :
                to_host'[i] = Reply(data, answers) \/ \E k \in DOMAIN to_host : to_host'[i] = to_host[k]
<1>1. PICK e : e = Reply(data, answers)
  OBVIOUS
<1>2. TypeOK /\ McuIsNear /\ RepliesAreInOrder
  BY DEF IInv
<1>3. to_host \in Seq(ReplyType) /\ mcu_next \in Nat \ {0} /\ receive_seq \in Nat
  BY <1>2, Types DEF TypeOK
<1>4. answers \in 0 .. MaxMessages
  BY <1>2, SetsOfMessages, Constants DEF Message
<1>5. /\ e \in ReplyType /\ e.number = mcu_next /\ e.seq = mcu_next % SeqValues /\ e.answers = answers
      /\ e.data = data
  BY <1>1, <1>3, <1>4, ReplyFacts
<1>6. RightReply(e, receive_seq, mcu_next, Agreed, ToSet(executed))
  BY <1>2, <1>3, <1>5 DEF RightReply, McuIsNear
<1> QED
  BY <1>1, <1>2, <1>3, <1>5, <1>6, OneMoreReply, RepliesExpanded

LEMMA SetReceiveWindowKeepsIInv == IInv /\ SetReceiveWindow => IInv'
<1> SUFFICES ASSUME IInv, SetReceiveWindow
             PROVE  IInv'
  OBVIOUS
<1>1. /\ TypeOK /\ WindowMatches /\ UnackedHasTimer /\ NotifiedByNextBlock
      /\ StampsArePast /\ McuIsNear /\ LineIsNumbered /\ HeadIsRunning /\ RepliesAreInOrder
      /\ MessagesAreInOrder /\ NotificationsAreTrue /\ BufferIsCounted
  BY DEF IInv
<1>2. /\ answered # {} /\ receive_window' = RxWindow
      /\ UNCHANGED <<ready, send_seq, receive_seq, sent_queue, last_ack_seq, ignore_nak_seq,
              retransmit_seq, retransmit_timer, notify_queue, last_ack_bytes,
              last_receive_sent, stamp, answered, to_mcu, to_host, mcu_next, mcu_state, executed,
              submitted, faults, resent>>
  BY DEF SetReceiveWindow, hostVars, mcuVars
<1>3. TypeOK' /\ WindowMatches' /\ UnackedHasTimer' /\ NotifiedByNextBlock' /\ StampsArePast'
  BY <1>1, <1>2 DEF TypeOK, WindowMatches, UnackedHasTimer, NotifiedByNextBlock, StampsArePast
<1>4. McuIsNear' /\ HeadIsRunning'
  BY <1>1, <1>2 DEF McuIsNear, HeadIsRunning, Connected, Agreed, Running
<1>5. LineIsNumbered'
  BY <1>1, <1>2 DEF LineIsNumbered
<1>6. RepliesAreInOrder'
  BY <1>1, <1>2 DEF RepliesAreInOrder, Agreed
<1>7. MessagesAreInOrder'
  BY <1>1, <1>2 DEF MessagesAreInOrder, Sent, Unsent
<1>8. NotificationsAreTrue' /\ BufferIsCounted'
  BY <1>1, <1>2 DEF NotificationsAreTrue, BufferIsCounted, Running, Connected, Sent
<1> QED
  BY <1>3, <1>4, <1>5, <1>6, <1>7, <1>8 DEF IInv

LEMMA McuReportsKeepsIInv == IInv /\ McuReports => IInv'
<1> SUFFICES ASSUME IInv, McuReports
             PROVE  IInv'
  OBVIOUS
<1>1. /\ TypeOK /\ WindowMatches /\ UnackedHasTimer /\ NotifiedByNextBlock
      /\ StampsArePast /\ McuIsNear /\ LineIsNumbered /\ HeadIsRunning /\ RepliesAreInOrder
      /\ MessagesAreInOrder /\ NotificationsAreTrue /\ BufferIsCounted
  BY DEF IInv
<1>2. PICK e : e = Reply(TRUE, 0)
  OBVIOUS
<1>3. /\ faults < MaxFaults /\ faults' = faults + 1 /\ to_host' = Append(to_host, e)
      /\ UNCHANGED <<ready, send_seq, receive_seq, sent_queue, last_ack_seq, ignore_nak_seq,
              retransmit_seq, retransmit_timer, notify_queue, receive_window, last_ack_bytes,
              last_receive_sent, stamp, answered, to_mcu, mcu_next, mcu_state, executed,
              submitted, resent>>
  BY <1>2 DEF McuReports, hostVars, mcuVars
<1>4. to_host \in Seq(ReplyType) /\ mcu_next \in Nat \ {0} /\ receive_seq \in Nat
  BY <1>1, Types DEF TypeOK
<1>5. e \in ReplyType /\ e.number = mcu_next /\ e.answers = 0 /\ e.data
  <2>1. 0 \in 0 .. MaxMessages /\ TRUE \in BOOLEAN
    BY Constants
  <2>2. e \in ReplyType /\ e.number = mcu_next /\ e.answers = 0 /\ e.data = TRUE
    BY <1>2, <1>4, <2>1, ReplyFacts
  <2> QED
    BY <2>2
<1>6. /\ RightReplies(to_host', receive_seq, mcu_next, Agreed, ToSet(executed))
      /\ to_host' \in Seq(ReplyType)
      /\ \A i \in DOMAIN to_host' : to_host'[i] = e \/ \E k \in DOMAIN to_host : to_host'[i] = to_host[k]
  <2>1. \A i \in DOMAIN to_host : Before(to_host[i], e)
    BY <1>1, <1>5 DEF Before, RepliesAreInOrder
  <2> QED
    BY <1>2, <1>3, <2>1, RightNewReply
<1>7. TypeOK' /\ WindowMatches' /\ UnackedHasTimer' /\ NotifiedByNextBlock' /\ StampsArePast'
  <2>1. faults' \in 0 .. MaxFaults
    BY <1>1, <1>3, Constants DEF TypeOK
  <2>2. TypeOK'
    BY <1>1, <1>3, <1>6, <2>1 DEF TypeOK, ReplyType
  <2> QED
    BY <1>1, <1>3, <2>2 DEF WindowMatches, UnackedHasTimer, NotifiedByNextBlock, StampsArePast
<1>8. McuIsNear' /\ LineIsNumbered' /\ MessagesAreInOrder' /\ BufferIsCounted'
  <2>1. McuIsNear'
    BY <1>1, <1>3 DEF McuIsNear, Connected, Agreed, Running
  <2>2. LineIsNumbered'
    BY <1>1, <1>3 DEF LineIsNumbered
  <2>3. MessagesAreInOrder'
    BY <1>1, <1>3 DEF MessagesAreInOrder, Sent, Unsent
  <2>4. BufferIsCounted'
    BY <1>1, <1>3 DEF BufferIsCounted, Running
  <2> QED
    BY <2>1, <2>2, <2>3, <2>4
<1>9. HeadIsRunning'
  BY <1>1, <1>3, <1>5, <1>6 DEF HeadIsRunning, Running
<1>10. RepliesAreInOrder'
  BY <1>3, <1>6, RepliesExpandedNext DEF Agreed
<1>11. NotificationsAreTrue'
  <2> SUFFICES ASSUME NEW x \in notify_queue', ~x.early
               PROVE  /\ Connected'
                      /\ TrueNote(x, receive_seq', send_seq', mcu_next', sent_queue', ToSet(executed'))
                      /\ \A i \in DOMAIN to_host' :
                           to_host'[i].answers = x.message => x.block = to_host'[i].number - 1
                      /\ Running' /\ x.message \in ToSet(to_mcu'[1].messages) => x.block = mcu_next' - 1
    BY NotesExpandedNext
  <2>1. x \in notify_queue /\ x.message # 0
    BY <1>1, <1>3 DEF TypeOK
  <2> QED
    BY <1>1, <1>3, <1>5, <1>6, <2>1, NotesExpanded DEF Connected, Running
<1> QED
  BY <1>7, <1>8, <1>9, <1>10, <1>11 DEF IInv
LEMMA McuRepliesKeepsIInv == IInv /\ McuReplies => IInv'
<1> SUFFICES ASSUME IInv, McuReplies
             PROVE  IInv'
  OBVIOUS
<1>1. /\ TypeOK /\ WindowMatches /\ UnackedHasTimer /\ NotifiedByNextBlock
      /\ StampsArePast /\ McuIsNear /\ LineIsNumbered /\ HeadIsRunning /\ RepliesAreInOrder
      /\ MessagesAreInOrder /\ NotificationsAreTrue /\ BufferIsCounted
  BY DEF IInv
<1>2. PICK m \in ToSet(Head(to_mcu).messages) : to_host' = Append(to_host, Reply(TRUE, m))
  BY DEF McuReplies
<1>3. PICK e : e = Reply(TRUE, m)
  OBVIOUS
<1>4. /\ mcu_state = "run" /\ mcu_state' = "replied"
      /\ UNCHANGED <<ready, send_seq, receive_seq, sent_queue, last_ack_seq, ignore_nak_seq,
              retransmit_seq, retransmit_timer, notify_queue, receive_window, last_ack_bytes,
              last_receive_sent, stamp, answered, to_mcu, mcu_next, executed,
              submitted, faults, resent>>
  BY DEF McuReplies, hostVars
<1>5. Running /\ Running' = Running
  BY <1>4 DEF Running
<1>6. m \in ToSet(to_mcu[1].messages) /\ m \in ToSet(executed)
  <2>1. to_mcu \in Seq(BlockType) /\ to_mcu # <<>>
    BY <1>1, <1>5, Types DEF HeadIsRunning
  <2>2. Head(to_mcu) = to_mcu[1]
    BY <2>1, TailFacts
  <2> QED
    BY <1>1, <1>2, <1>5, <2>2 DEF HeadIsRunning
<1>7. e.number = mcu_next /\ e.answers = m /\ e.data
  <2>1. m \in 0 .. MaxMessages /\ TRUE \in BOOLEAN /\ mcu_next \in Nat \ {0}
    BY <1>1, <1>6, SetsOfMessages, Constants DEF Message, TypeOK
  <2>2. e.number = mcu_next /\ e.answers = m /\ e.data = TRUE
    BY <1>3, <2>1, ReplyFacts
  <2> QED
    BY <2>2
<1>8. /\ RightReplies(to_host', receive_seq, mcu_next, Agreed, ToSet(executed))
      /\ to_host' \in Seq(ReplyType)
      /\ \A i \in DOMAIN to_host' : to_host'[i] = e \/ \E k \in DOMAIN to_host : to_host'[i] = to_host[k]
  <2>1. \A i \in DOMAIN to_host : Before(to_host[i], e)
    BY <1>1, <1>5, <1>7 DEF Before, RepliesAreInOrder, HeadIsRunning
  <2> QED
    BY <1>2, <1>3, <1>6, <2>1, RightNewReply
<1>9. TypeOK' /\ WindowMatches' /\ UnackedHasTimer' /\ NotifiedByNextBlock' /\ StampsArePast'
  <2>1. TypeOK'
    BY <1>1, <1>4, <1>8 DEF TypeOK, ReplyType
  <2> QED
    BY <1>1, <1>4, <2>1 DEF WindowMatches, UnackedHasTimer, NotifiedByNextBlock, StampsArePast
<1>10. McuIsNear' /\ LineIsNumbered' /\ MessagesAreInOrder' /\ BufferIsCounted'
  <2>1. McuIsNear'
    BY <1>1, <1>4, <1>5 DEF McuIsNear, Connected, Agreed
  <2>2. LineIsNumbered'
    BY <1>1, <1>4 DEF LineIsNumbered
  <2>3. MessagesAreInOrder'
    BY <1>1, <1>4 DEF MessagesAreInOrder, Sent, Unsent
  <2>4. BufferIsCounted'
    BY <1>1, <1>4, <1>5 DEF BufferIsCounted
  <2> QED
    BY <2>1, <2>2, <2>3, <2>4
<1>11. HeadIsRunning'
  BY <1>1, <1>4, <1>5, <1>7, <1>8 DEF HeadIsRunning
<1>12. RepliesAreInOrder'
  BY <1>4, <1>8, RepliesExpandedNext DEF Agreed
<1>13. NotificationsAreTrue'
  <2> SUFFICES ASSUME NEW x \in notify_queue', ~x.early
               PROVE  /\ Connected'
                      /\ TrueNote(x, receive_seq', send_seq', mcu_next', sent_queue', ToSet(executed'))
                      /\ \A i \in DOMAIN to_host' :
                           to_host'[i].answers = x.message => x.block = to_host'[i].number - 1
                      /\ Running' /\ x.message \in ToSet(to_mcu'[1].messages) => x.block = mcu_next' - 1
    BY NotesExpandedNext
  <2>1. /\ Connected
        /\ TrueNote(x, receive_seq, send_seq, mcu_next, sent_queue, ToSet(executed))
        /\ \A i \in DOMAIN to_host : to_host[i].answers = x.message => x.block = to_host[i].number - 1
        /\ x.message \in ToSet(to_mcu[1].messages) => x.block = mcu_next - 1
    BY <1>1, <1>4, <1>5, NotesExpanded
  <2>2. e.answers = x.message => x.block = e.number - 1
    BY <1>6, <1>7, <2>1
  <2>3. \A i \in DOMAIN to_host' : to_host'[i].answers = x.message => x.block = to_host'[i].number - 1
    BY <1>8, <2>1, <2>2
  <2> QED
    BY <1>4, <1>5, <2>1, <2>3 DEF Connected
<1> QED
  BY <1>9, <1>10, <1>11, <1>12, <1>13 DEF IInv

\* What a thinner line leaves as it is.
LEMMA ThinnerLine ==
    ASSUME IInv, Thinned(to_mcu', to_mcu),
           UNCHANGED <<receive_seq, send_seq, mcu_next, sent_queue>>
    PROVE  /\ to_mcu' \in Seq(BlockType)
           /\ LineIsNumbered'
           /\ resent = {} => Spaced(to_mcu')
           /\ \A i \in DOMAIN to_mcu' : \E k \in DOMAIN to_mcu : to_mcu'[i].number = to_mcu[k].number
<1>1. TypeOK /\ LineIsNumbered /\ BufferIsCounted
  BY DEF IInv
<1>2. to_mcu \in Seq(BlockType)
  BY <1>1, Types
<1>3. resent = {} => Spaced(to_mcu)
  BY <1>1 DEF BufferIsCounted, Spaced
<1>4. /\ \A i \in DOMAIN to_mcu : RightBlock(to_mcu[i], receive_seq, send_seq, mcu_next, sent_queue)
      /\ \A i, j \in DOMAIN to_mcu : i < j => NotWrapped(to_mcu[i], to_mcu[j])
  BY <1>1, LineExpanded
<1>5. /\ \A i \in DOMAIN to_mcu' : RightBlock(to_mcu'[i], receive_seq, send_seq, mcu_next, sent_queue)
      /\ \A i, j \in DOMAIN to_mcu' : i < j => NotWrapped(to_mcu'[i], to_mcu'[j])
      /\ Spaced(to_mcu) => Spaced(to_mcu')
      /\ \A i \in DOMAIN to_mcu' : \E k \in DOMAIN to_mcu : to_mcu'[i].number = to_mcu[k].number
  BY <1>2, <1>4, ThinnedLineIsRight
<1>6. to_mcu' \in Seq(BlockType)
  BY DEF Thinned
<1> QED
  BY <1>3, <1>5, <1>6, LineExpandedNext

LEMMA AnswerKeepsIInv ==
    ASSUME IInv, to_mcu # <<>>, to_mcu' = Tail(to_mcu), mcu_state' = "idle",
           to_host' = Append(to_host, Reply(FALSE, 0)),
           UNCHANGED <<ready, send_seq, receive_seq, sent_queue, last_ack_seq, ignore_nak_seq,
              retransmit_seq, retransmit_timer, notify_queue, receive_window, last_ack_bytes,
              last_receive_sent, stamp, answered, mcu_next, executed, submitted, faults, resent>>
    PROVE  IInv'
<1>1. /\ TypeOK /\ WindowMatches /\ UnackedHasTimer /\ NotifiedByNextBlock
      /\ StampsArePast /\ McuIsNear /\ LineIsNumbered /\ HeadIsRunning /\ RepliesAreInOrder
      /\ MessagesAreInOrder /\ NotificationsAreTrue /\ BufferIsCounted
  BY DEF IInv
<1>2. PICK e : e = Reply(FALSE, 0)
  OBVIOUS
<1>3. ~Running'
  BY DEF Running
<1>4. to_mcu \in Seq(BlockType) /\ mcu_next \in Nat \ {0}
  BY <1>1, Types DEF TypeOK
<1>5. e.number = mcu_next /\ e.answers = 0
  <2>1. 0 \in 0 .. MaxMessages /\ FALSE \in BOOLEAN
    BY Constants
  <2> QED
    BY <1>2, <1>4, <2>1, ReplyFacts
<1>6. /\ RightReplies(to_host', receive_seq, mcu_next, Agreed, ToSet(executed))
      /\ to_host' \in Seq(ReplyType)
      /\ \A i \in DOMAIN to_host' : to_host'[i] = e \/ \E k \in DOMAIN to_host : to_host'[i] = to_host[k]
  <2>1. \A i \in DOMAIN to_host : Before(to_host[i], e)
    BY <1>1, <1>5 DEF Before, RepliesAreInOrder
  <2> QED
    BY <1>2, <2>1, RightNewReply
<1>7. PICK L \in Nat \ {0} : L = Len(to_mcu) /\ DOMAIN to_mcu = 1 .. L
  BY <1>4, TailFacts
<1>8. /\ to_mcu' \in Seq(BlockType) /\ Len(to_mcu') = L - 1 /\ DOMAIN to_mcu' = 1 .. L - 1
      /\ \A i \in 1 .. L - 1 : to_mcu'[i] = to_mcu[i + 1]
  BY <1>4, <1>7, TailFacts
<1>9. Thinned(to_mcu', to_mcu)
  <2>1. 1 \in 1 .. Len(to_mcu) /\ \A i \in 1 .. L - 1 : ~(i < 1)
    BY <1>7
  <2> QED
    BY <1>4, <1>7, <1>8, <2>1, ThinnedByOne
<1>10. /\ LineIsNumbered'
       /\ resent = {} => Spaced(to_mcu')
  BY <1>9, ThinnerLine
<1>11. TypeOK' /\ WindowMatches' /\ UnackedHasTimer' /\ NotifiedByNextBlock' /\ StampsArePast'
  <2>1. TypeOK'
    BY <1>1, <1>6, <1>8 DEF TypeOK, ReplyType, BlockType, Message
  <2> QED
    BY <1>1, <2>1 DEF WindowMatches, UnackedHasTimer, NotifiedByNextBlock, StampsArePast
<1>12. McuIsNear' /\ HeadIsRunning' /\ MessagesAreInOrder'
  <2>1. McuIsNear'
    BY <1>1, <1>3 DEF McuIsNear, Connected, Agreed
  <2>2. MessagesAreInOrder'
    BY <1>1 DEF MessagesAreInOrder, Sent, Unsent
  <2> QED
    BY <1>3, <2>1, <2>2 DEF HeadIsRunning
<1>13. RepliesAreInOrder'
  BY <1>6, RepliesExpandedNext DEF Agreed
<1>14. NotificationsAreTrue'
  <2> SUFFICES ASSUME NEW x \in notify_queue', ~x.early
               PROVE  /\ Connected'
                      /\ TrueNote(x, receive_seq', send_seq', mcu_next', sent_queue', ToSet(executed'))
                      /\ \A i \in DOMAIN to_host' :
                           to_host'[i].answers = x.message => x.block = to_host'[i].number - 1
    BY <1>3, NotesExpandedNext
  <2>1. x \in notify_queue /\ x.message # 0
    BY <1>1 DEF TypeOK
  <2>2. /\ Connected
        /\ TrueNote(x, receive_seq, send_seq, mcu_next, sent_queue, ToSet(executed))
        /\ \A i \in DOMAIN to_host : to_host[i].answers = x.message => x.block = to_host[i].number - 1
    BY <1>1, <2>1, NotesExpanded
  <2>3. e.answers # x.message
    BY <1>5, <2>1
  <2>4. \A i \in DOMAIN to_host' : to_host'[i].answers = x.message => x.block = to_host'[i].number - 1
    BY <1>6, <2>2, <2>3
  <2> QED
    BY <2>2, <2>4 DEF Connected
<1>15. BufferIsCounted'
  <2>1. ASSUME resent = {}, executed # <<>>, NEW i \in 1 .. L - 1
        PROVE  to_mcu'[i].number >= mcu_next
    <3>1. i + 1 \in 1 .. L /\ 1 \in 1 .. L /\ 1 < i + 1 /\ to_mcu'[i] = to_mcu[i + 1]
      BY <1>7, <1>8
    <3>2. PICK a \in Nat, b \in Nat : a = to_mcu[1].number /\ b = to_mcu[i + 1].number
      BY <1>4, <1>7, <3>1, BlockFields
    <3>3. a + ((i + 1) - 1) <= b
      BY <1>1, <1>7, <2>1, <3>1, <3>2 DEF BufferIsCounted
    <3>4. Running => a = mcu_next - 1
      BY <1>1, <3>2 DEF HeadIsRunning
    <3>5. ~Running => b >= mcu_next
      BY <1>1, <1>4, <1>7, <2>1, <3>1, <3>2 DEF BufferIsCounted
    <3>6. b >= mcu_next
      BY <1>4, <3>2, <3>3, <3>4, <3>5
    <3> QED
      BY <3>1, <3>2, <3>6
  <2>2. \A i \in 1 .. L - 1 : to_mcu'[i].number \in Nat
    BY <1>8, BlockFields
  <2>3. resent = {} /\ executed # <<>> => \A i \in DOMAIN to_mcu' : to_mcu'[i].number + 0 >= mcu_next
    BY <1>8, <2>1, <2>2
  <2>4. resent = {} => \A i, j \in DOMAIN to_mcu' : i < j => to_mcu'[i].number + (j - i) <= to_mcu'[j].number
    BY <1>10 DEF Spaced
  <2> QED
    BY <1>1, <1>3, <2>3, <2>4 DEF BufferIsCounted
<1> QED
  BY <1>10, <1>11, <1>12, <1>13, <1>14, <1>15 DEF IInv

LEMMA McuAcksKeepsIInv == IInv /\ McuAcks => IInv'
<1> SUFFICES ASSUME IInv, McuAcks
             PROVE  IInv'
  OBVIOUS
<1>1. to_mcu # <<>>
  BY DEF IInv, HeadIsRunning, Running, McuAcks
<1> QED
  BY <1>1, AnswerKeepsIInv DEF McuAcks, hostVars

LEMMA McuNaksKeepsIInv == IInv /\ McuNaks => IInv'
BY AnswerKeepsIInv DEF McuNaks, hostVars, mcuVars

\* The block that the MCU accepts is the one that the host counts as mcu_next.
LEMMA AcceptedBlock ==
    ASSUME IInv, McuAccepts
    PROVE  /\ Head(to_mcu) = to_mcu[1] /\ Head(to_mcu) \in BlockType
           /\ Head(to_mcu).number = mcu_next /\ mcu_next < send_seq
           /\ Head(to_mcu).messages = sent_queue[1 + mcu_next - receive_seq]
<1>1. TypeOK /\ WindowMatches /\ McuIsNear /\ LineIsNumbered
  BY DEF IInv
<1>2. /\ sent_queue \in Seq(Seq(Message)) /\ to_mcu \in Seq(BlockType)
      /\ send_seq \in Nat /\ receive_seq \in Nat /\ mcu_next \in Nat
  BY <1>1, Types
<1>3. PICK h \in BlockType : h = to_mcu[1] /\ h = Head(to_mcu)
  BY <1>2, TailFacts DEF McuAccepts
<1>4. to_mcu # <<>> /\ h.seq = mcu_next % SeqValues
  BY <1>3 DEF McuAccepts
<1>5. 1 \in DOMAIN to_mcu
  BY <1>2, <1>4, TailFacts
<1>6. PICK n \in Nat : n = Len(sent_queue)
  BY <1>2
<1>7. /\ send_seq = receive_seq + n /\ n <= MaxPending /\ receive_seq <= mcu_next
      /\ mcu_next < receive_seq + SeqValues
  BY <1>1, <1>6 DEF WindowMatches, McuIsNear
<1>8. h.number = mcu_next /\ h.number < send_seq /\ h.messages = sent_queue[1 + mcu_next - receive_seq]
  <2>1. RightBlock(h, receive_seq, send_seq, mcu_next, sent_queue)
    BY <1>1, <1>3, <1>5, LineExpanded
  <2>2. PICK number \in Nat : number = h.number
    BY BlockFields
  <2>3. /\ number < send_seq /\ mcu_next < number + SeqValues
        /\ h.seq = number % SeqValues \/ h.seq = SeqValues
        /\ h.seq # SeqValues /\ number >= mcu_next => h.messages = sent_queue[1 + number - receive_seq]
    BY <2>1, <2>2 DEF RightBlock
  <2>4. mcu_next % SeqValues < SeqValues
    BY <1>2, ModRange, Constants
  <2>5. h.seq # SeqValues /\ number % SeqValues = mcu_next % SeqValues
    BY <1>4, <2>3, <2>4, Constants
  <2>6. number < mcu_next + SeqValues
    BY <1>2, <1>7, <2>3, Constants
  <2>7. number = mcu_next
    <3>1. /\ number \in Int /\ mcu_next \in Int /\ number < mcu_next + SeqValues
          /\ mcu_next < number + SeqValues /\ number % SeqValues = mcu_next % SeqValues
      BY <1>2, <2>3, <2>5, <2>6
    <3> QED
      BY <3>1, SameBits, SeqAssumption
  <2> QED
    BY <1>2, <2>2, <2>3, <2>5, <2>7
<1> QED
  BY <1>3, <1>8

LEMMA McuAcceptsKeepsIInv == IInv /\ McuAccepts => IInv'
<1> SUFFICES ASSUME IInv, McuAccepts
             PROVE  IInv'
  OBVIOUS
<1>1. /\ TypeOK /\ WindowMatches /\ UnackedHasTimer /\ NotifiedByNextBlock
      /\ StampsArePast /\ McuIsNear /\ LineIsNumbered /\ HeadIsRunning /\ RepliesAreInOrder
      /\ MessagesAreInOrder /\ NotificationsAreTrue /\ BufferIsCounted
  BY DEF IInv
<1>2. /\ ready \in Seq(Message) /\ executed \in Seq(Message) /\ sent_queue \in Seq(Seq(Message))
      /\ to_mcu \in Seq(BlockType) /\ to_host \in Seq(ReplyType)
      /\ send_seq \in Nat /\ receive_seq \in Nat /\ mcu_next \in Nat /\ last_ack_seq \in Nat
  BY <1>1, Types
<1>3. PICK h \in BlockType : h = to_mcu[1] /\ h = Head(to_mcu)
  BY <1>2, TailFacts DEF McuAccepts
<1>4. /\ to_mcu # <<>> /\ h.seq = mcu_next % SeqValues
      /\ mcu_next' = mcu_next + 1 /\ executed' = executed \o h.messages /\ mcu_state' = "run"
      /\ UNCHANGED <<ready, send_seq, receive_seq, sent_queue, last_ack_seq, ignore_nak_seq,
              retransmit_seq, retransmit_timer, notify_queue, receive_window, last_ack_bytes,
              last_receive_sent, stamp, answered, to_mcu, to_host, submitted, faults, resent>>
  BY <1>3 DEF McuAccepts, hostVars
<1>5. PICK L \in Nat \ {0} : L = Len(to_mcu) /\ DOMAIN to_mcu = 1 .. L /\ 1 \in 1 .. L
  BY <1>2, <1>4, TailFacts
<1>6. PICK n \in Nat : n = Len(sent_queue) /\ DOMAIN sent_queue = 1 .. n
  BY <1>2
<1>7. /\ send_seq = receive_seq + n /\ n <= MaxPending /\ receive_seq <= mcu_next
      /\ mcu_next < receive_seq + SeqValues
  BY <1>1, <1>6 DEF WindowMatches, McuIsNear
<1>8. h.number = mcu_next /\ mcu_next < send_seq /\ h.messages = sent_queue[1 + mcu_next - receive_seq]
  BY <1>3, AcceptedBlock
<1>9. PICK k \in 1 .. n : k = 1 + mcu_next - receive_seq
  BY <1>2, <1>7, <1>8
<1>10. h.messages = sent_queue[k] /\ h.messages \in Seq(Message)
  BY <1>8, <1>9, BlockFields
<1>11. PICK done : done = ToSet(executed)
  OBVIOUS
<1>12. executed' \in Seq(Message) /\ ToSet(executed') = done \cup Sent(k)
  BY <1>2, <1>4, <1>10, <1>11, ConcatFacts DEF Sent
<1>13. Agreed' /\ Running' /\ ~Running /\ Connected' = Connected
  BY <1>2, <1>4, <1>8 DEF Agreed, Running, Connected, McuAccepts
<1>14. \A i \in 1 .. L : to_mcu[i] \in BlockType /\ to_mcu[i].number \in Nat
  BY <1>2, <1>5, BlockFields
<1>15. \A x \in notify_queue : x.block \in Nat /\ x.message \in Message
  BY <1>1 DEF TypeOK, Message
<1>16. /\ Below(done, Sent(k))
       /\ \A l \in 1 .. n : k < l => Below(Sent(k), Sent(l))
  <2>1. receive_seq + k > mcu_next
    BY <1>2, <1>9
  <2> QED
    BY <1>1, <1>6, <1>11, <2>1 DEF MessagesAreInOrder
<1>17. TypeOK' /\ WindowMatches' /\ UnackedHasTimer' /\ NotifiedByNextBlock' /\ StampsArePast'
  <2>1. TypeOK'
    BY <1>1, <1>2, <1>4, <1>12 DEF TypeOK, Message
  <2> QED
    BY <1>1, <1>4, <2>1 DEF WindowMatches, UnackedHasTimer, NotifiedByNextBlock, StampsArePast
<1>18. McuIsNear'
  <2>1. receive_seq <= mcu_next + 1 /\ mcu_next + 1 < receive_seq + SeqValues
    BY <1>2, <1>7, <1>8, Constants
  <2> QED
    BY <1>1, <1>4, <1>13, <2>1 DEF McuIsNear
<1>19. LineIsNumbered'
  <2>1. ASSUME NEW i \in 1 .. L
        PROVE  RightBlock(to_mcu[i], receive_seq, send_seq, mcu_next + 1, sent_queue)
    <3>1. RightBlock(to_mcu[i], receive_seq, send_seq, mcu_next, sent_queue)
      BY <1>1, <1>5, LineExpanded
    <3>2. PICK number \in Nat : number = to_mcu[i].number
      BY <1>14
    <3>3. mcu_next + 1 < number + SeqValues
      <4>1. CASE i = 1
        <5>1. number = mcu_next
          BY <1>3, <1>8, <3>2, <4>1
        <5>2. SeqValues > 1
          BY <1>2, <1>7, <1>8, Constants
        <5> QED
          BY <1>2, <5>1, <5>2, Constants
      <4>2. CASE i # 1
        <5>1. NotWrapped(to_mcu[1], to_mcu[i])
          BY <1>1, <1>5, <4>2, LineExpanded
        <5> QED
          BY <1>3, <1>8, <3>2, <5>1 DEF NotWrapped
      <4> QED
        BY <4>1, <4>2
    <3>4. number >= mcu_next + 1 => number >= mcu_next
      BY <1>2
    <3> QED
      BY <3>1, <3>2, <3>3, <3>4 DEF RightBlock
  <2> QED
    BY <1>1, <1>4, <1>5, <2>1, LineExpanded, LineExpandedNext
<1>20. HeadIsRunning'
  <2>1. to_mcu[1].number = mcu_next' - 1 /\ ToSet(to_mcu[1].messages) \subseteq ToSet(executed')
    BY <1>2, <1>3, <1>4, <1>8, <1>10, <1>12 DEF Sent
  <2>2. \A i \in DOMAIN to_host : to_host[i].number < mcu_next'
    <3> SUFFICES ASSUME NEW i \in DOMAIN to_host
                 PROVE  to_host[i].number < mcu_next'
      OBVIOUS
    <3>1. to_host[i].number \in Nat /\ to_host[i].number <= mcu_next
      BY <1>1, <1>2, ReplyFields DEF RepliesAreInOrder
    <3> QED
      BY <1>2, <1>4, <3>1
  <2>3. last_ack_seq < mcu_next'
    BY <1>1, <1>2, <1>4, <1>7 DEF McuIsNear
  <2> QED
    BY <1>4, <2>1, <2>2, <2>3 DEF HeadIsRunning
<1>21. RepliesAreInOrder'
  <2>1. \A i \in DOMAIN to_host : to_host[i].number \in Nat
    BY <1>2, ReplyFields
  <2>2. \A i \in DOMAIN to_host : RightReply(to_host[i], receive_seq, mcu_next + 1, Agreed', ToSet(executed'))
    BY <1>1, <1>2, <1>11, <1>12, <1>13, <2>1 DEF RepliesAreInOrder, RightReply
  <2>3. \A i, j \in DOMAIN to_host : i < j => Before(to_host[i], to_host[j])
    BY <1>1, RepliesExpanded DEF RightReplies
  <2> QED
    BY <1>4, <2>2, <2>3, RepliesExpandedNext DEF RightReplies
<1>22. MessagesAreInOrder'
  <2>1. Unsent' = Unsent /\ \A l \in 1 .. n : Sent(l)' = Sent(l)
    BY <1>4 DEF Unsent, Sent
  <2>2. Increasing(executed')
    <3>1. executed \in Seq(Nat) /\ h.messages \in Seq(Nat)
      BY <1>2, <1>10, Constants, SeqMonotonic DEF Message
    <3>2. Increasing(executed) /\ Increasing(h.messages) /\ Below(ToSet(executed), ToSet(h.messages))
      BY <1>1, <1>6, <1>10, <1>11, <1>16 DEF MessagesAreInOrder, Sent
    <3> QED
      BY <1>4, <3>1, <3>2, IncreasingConcat
  <2>3. Below(ToSet(executed'), Unsent)
    BY <1>1, <1>6, <1>11, <1>12 DEF MessagesAreInOrder, Below
  <2>4. ASSUME NEW l \in 1 .. n, receive_seq + l > mcu_next + 1
        PROVE  Below(ToSet(executed'), Sent(l))
    <3>1. k < l /\ receive_seq + l > mcu_next
      BY <1>2, <1>9, <2>4
    <3>2. Below(done, Sent(l))
      BY <1>1, <1>6, <1>11, <3>1 DEF MessagesAreInOrder
    <3> QED
      BY <1>12, <1>16, <3>1, <3>2 DEF Below
  <2> QED
    BY <1>1, <1>4, <1>6, <2>1, <2>2, <2>3, <2>4 DEF MessagesAreInOrder
<1>23. NotificationsAreTrue'
  <2> SUFFICES ASSUME NEW x \in notify_queue', ~x.early
               PROVE  /\ Connected'
                      /\ TrueNote(x, receive_seq', send_seq', mcu_next', sent_queue', ToSet(executed'))
                      /\ \A i \in DOMAIN to_host' :
                           to_host'[i].answers = x.message => x.block = to_host'[i].number - 1
                      /\ x.message \in ToSet(to_mcu'[1].messages) => x.block = mcu_next' - 1
    BY NotesExpandedNext
  <2>1. /\ Connected
        /\ TrueNote(x, receive_seq, send_seq, mcu_next, sent_queue, done)
        /\ \A i \in DOMAIN to_host : to_host[i].answers = x.message => x.block = to_host[i].number - 1
    BY <1>1, <1>4, <1>11, NotesExpanded
  <2>2. PICK b \in Nat : b = x.block
    BY <1>4, <1>15
  <2>3. /\ b < send_seq
        /\ b < mcu_next => x.message \in done
        /\ b >= mcu_next => x.message \in Sent(1 + b - receive_seq)
    BY <2>1, <2>2 DEF TrueNote, Sent
  <2>4. TrueNote(x, receive_seq, send_seq, mcu_next + 1, sent_queue, ToSet(executed'))
    <3>1. CASE b = mcu_next
      BY <1>2, <1>9, <1>12, <2>2, <2>3, <3>1 DEF TrueNote
    <3>2. CASE b # mcu_next
      BY <1>2, <1>12, <2>2, <2>3, <3>2 DEF TrueNote, Sent
    <3> QED
      BY <3>1, <3>2
  <2>5. ASSUME x.message \in Sent(k)
        PROVE  b = mcu_next
    <3>1. x.message \in Nat /\ ~(x.message < x.message)
      BY <1>4, <1>15, Constants DEF Message
    <3>2. ~(b < mcu_next)
      BY <1>16, <2>3, <2>5, <3>1 DEF Below
    <3>3. ASSUME b > mcu_next
          PROVE  FALSE
      <4>1. PICK l \in 1 .. n : l = 1 + b - receive_seq /\ k < l
        BY <1>2, <1>7, <1>9, <2>3, <3>3
      <4>2. x.message \in Sent(l) /\ Below(Sent(k), Sent(l))
        BY <1>2, <1>16, <2>3, <3>3, <4>1
      <4> QED
        BY <2>5, <3>1, <4>2 DEF Below
    <3> QED
      BY <1>2, <3>2, <3>3
  <2>6. x.message \in ToSet(to_mcu[1].messages) => x.block = mcu_next' - 1
    BY <1>2, <1>3, <1>4, <1>10, <2>2, <2>5 DEF Sent
  <2> QED
    BY <1>4, <1>13, <2>1, <2>4, <2>6
<1>24. BufferIsCounted'
  <2>1. receive_seq # mcu_next'
    BY <1>2, <1>4, <1>7
  <2>2. ASSUME resent = {}, NEW i \in 1 .. L
        PROVE  to_mcu[i].number + 1 >= mcu_next + 1
    <3>1. CASE i = 1
      BY <1>2, <1>3, <1>8, <3>1
    <3>2. CASE i # 1
      <4>1. PICK number \in Nat : number = to_mcu[i].number
        BY <1>14
      <4>2. mcu_next + (i - 1) <= number
        BY <1>1, <1>3, <1>5, <1>8, <2>2, <3>2, <4>1 DEF BufferIsCounted
      <4>3. number + 1 >= mcu_next + 1
        BY <1>2, <4>2
      <4> QED
        BY <4>1, <4>3
    <3> QED
      BY <3>1, <3>2
  <2>3. answered \subseteq ToSet(executed')
    BY <1>1, <1>11, <1>12 DEF BufferIsCounted
  <2> QED
    BY <1>1, <1>4, <1>5, <1>13, <2>1, <2>2, <2>3 DEF BufferIsCounted
<1> QED
  BY <1>17, <1>18, <1>19, <1>20, <1>21, <1>22, <1>23, <1>24 DEF IInv

LEMMA FaultKeepsIInv == IInv /\ Fault => IInv'
<1> SUFFICES ASSUME IInv, Fault
             PROVE  IInv'
  OBVIOUS
<1>1. /\ TypeOK /\ WindowMatches /\ UnackedHasTimer /\ NotifiedByNextBlock
      /\ StampsArePast /\ McuIsNear /\ LineIsNumbered /\ HeadIsRunning /\ RepliesAreInOrder
      /\ MessagesAreInOrder /\ NotificationsAreTrue /\ BufferIsCounted
  BY DEF IInv
<1>2. /\ faults < MaxFaults /\ faults' = faults + 1
      /\ UNCHANGED <<ready, send_seq, receive_seq, sent_queue, last_ack_seq, ignore_nak_seq,
              retransmit_seq, retransmit_timer, notify_queue, receive_window, last_ack_bytes,
              last_receive_sent, stamp, answered, mcu_next, mcu_state, executed, submitted, resent>>
  BY DEF Fault, hostVars, mcuVars
<1>3. to_mcu \in Seq(BlockType) /\ to_host \in Seq(ReplyType)
  BY <1>1, Types
<1>4. PICK L \in Nat : L = Len(to_mcu) /\ DOMAIN to_mcu = 1 .. L
  BY <1>3
<1>5. Running' = Running /\ Connected' = Connected /\ Agreed' = Agreed
  BY <1>2 DEF Running, Connected, Agreed
<1>6. /\ Thinned(to_mcu', to_mcu)
      /\ Running => to_mcu' # <<>> /\ to_mcu'[1] = to_mcu[1]
  <2>1. CASE to_mcu' = to_mcu
    BY <1>1, <1>3, <2>1, ThinnedInPlace DEF From, HeadIsRunning
  <2>2. ASSUME NEW i \in 1 .. L, Running => i # 1, to_mcu' = RemoveAt(to_mcu, i)
        PROVE  /\ Thinned(to_mcu', to_mcu)
               /\ Running => to_mcu' # <<>> /\ to_mcu'[1] = to_mcu[1]
    <3>1. /\ to_mcu' \in Seq(BlockType) /\ Len(to_mcu') = L - 1
          /\ \A j \in 1 .. L - 1 : to_mcu'[j] = to_mcu[IF j < i THEN j ELSE j + 1]
      BY <1>3, <1>4, <2>2, RemoveAtFacts
    <3>2. Running => 1 < i /\ 1 \in 1 .. L - 1
      BY <2>2
    <3>3. Thinned(to_mcu', to_mcu)
      BY <1>3, <1>4, <3>1, ThinnedByOne
    <3> QED
      BY <3>1, <3>2, <3>3
  <2>3. ASSUME NEW i \in 1 .. L, Running => i # 1, to_mcu' = [to_mcu EXCEPT ![i] = Damaged(@)]
        PROVE  /\ Thinned(to_mcu', to_mcu)
               /\ Running => to_mcu' # <<>> /\ to_mcu'[1] = to_mcu[1]
    <3>1. Damaged(to_mcu[i]) \in BlockType
      BY <1>3, <1>4, DamagedFacts
    <3>2. /\ to_mcu' \in Seq(BlockType) /\ Len(to_mcu') = L
          /\ \A j \in 1 .. L : to_mcu'[j] = IF j = i THEN Damaged(to_mcu[j]) ELSE to_mcu[j]
      BY <1>3, <1>4, <2>3, <3>1
    <3>3. \A j \in 1 .. L : From(to_mcu'[j], to_mcu[j])
      BY <3>2 DEF From
    <3>4. Running => 1 \in 1 .. L
      BY <2>3
    <3>5. Thinned(to_mcu', to_mcu)
      BY <1>3, <1>4, <3>2, <3>3, ThinnedInPlace
    <3> QED
      BY <2>3, <3>2, <3>4, <3>5
  <2>4. CASE \E i \in (IF mcu_state = "idle" THEN 1 ELSE 2) .. Len(to_mcu) :
               to_mcu' \in {RemoveAt(to_mcu, i), [to_mcu EXCEPT ![i] = Damaged(@)]}
    <3>1. PICK i \in (IF mcu_state = "idle" THEN 1 ELSE 2) .. L :
               to_mcu' = RemoveAt(to_mcu, i) \/ to_mcu' = [to_mcu EXCEPT ![i] = Damaged(@)]
      BY <1>4, <2>4
    <3>2. i \in 1 .. L /\ (Running => i # 1)
      BY <3>1 DEF Running
    <3> QED
      BY <2>2, <2>3, <3>1, <3>2
  <2> QED
    BY <2>1, <2>4 DEF Fault
<1>7. /\ to_mcu' \in Seq(BlockType) /\ LineIsNumbered'
      /\ resent = {} => Spaced(to_mcu')
      /\ \A i \in DOMAIN to_mcu' : \E k \in DOMAIN to_mcu : to_mcu'[i].number = to_mcu[k].number
  BY <1>2, <1>6, ThinnerLine
<1>8. /\ to_host' \in Seq(ReplyType)
      /\ RightReplies(to_host', receive_seq, mcu_next, Agreed, ToSet(executed))
      /\ \A i \in DOMAIN to_host' : \E j \in DOMAIN to_host : to_host'[i] = to_host[j]
  <2>1. CASE to_host' = to_host
    BY <1>1, <1>3, <2>1, RepliesExpanded
  <2>2. ASSUME NEW k \in 1 .. Len(to_host), to_host' = RemoveAt(to_host, k)
        PROVE  /\ to_host' \in Seq(ReplyType)
               /\ RightReplies(to_host', receive_seq, mcu_next, Agreed, ToSet(executed))
               /\ \A i \in DOMAIN to_host' : \E j \in DOMAIN to_host : to_host'[i] = to_host[j]
    <3>1. /\ to_host' \in Seq(ReplyType) /\ Len(to_host') = Len(to_host) - 1
          /\ \A i \in 1 .. Len(to_host) - 1 : to_host'[i] = to_host[IF i < k THEN i ELSE i + 1]
      BY <1>3, <2>2, RemoveAtFacts
    <3> QED
      BY <1>1, <1>3, <3>1, OneReplyLess, RepliesExpanded
  <2> QED
    BY <1>3, <2>1, <2>2 DEF Fault
<1>9. TypeOK' /\ WindowMatches' /\ UnackedHasTimer' /\ NotifiedByNextBlock' /\ StampsArePast'
  <2>1. faults' \in 0 .. MaxFaults
    BY <1>1, <1>2, Constants DEF TypeOK
  <2>2. TypeOK'
    BY <1>1, <1>2, <1>7, <1>8, <2>1 DEF TypeOK, ReplyType, BlockType, Message
  <2> QED
    BY <1>1, <1>2, <2>2 DEF WindowMatches, UnackedHasTimer, NotifiedByNextBlock, StampsArePast
<1>10. McuIsNear' /\ MessagesAreInOrder'
  <2>1. McuIsNear'
    BY <1>1, <1>2, <1>5 DEF McuIsNear
  <2>2. MessagesAreInOrder'
    BY <1>1, <1>2 DEF MessagesAreInOrder, Sent, Unsent
  <2> QED
    BY <2>1, <2>2
<1>11. HeadIsRunning'
  BY <1>1, <1>2, <1>5, <1>6, <1>8 DEF HeadIsRunning
<1>12. RepliesAreInOrder'
  BY <1>2, <1>5, <1>8, RepliesExpandedNext
<1>13. NotificationsAreTrue'
  <2> SUFFICES ASSUME NEW x \in notify_queue', ~x.early
               PROVE  /\ Connected'
                      /\ TrueNote(x, receive_seq', send_seq', mcu_next', sent_queue', ToSet(executed'))
                      /\ \A i \in DOMAIN to_host' :
                           to_host'[i].answers = x.message => x.block = to_host'[i].number - 1
                      /\ Running' /\ x.message \in ToSet(to_mcu'[1].messages) => x.block = mcu_next' - 1
    BY NotesExpandedNext
  <2>1. /\ Connected
        /\ TrueNote(x, receive_seq, send_seq, mcu_next, sent_queue, ToSet(executed))
        /\ \A i \in DOMAIN to_host : to_host[i].answers = x.message => x.block = to_host[i].number - 1
        /\ Running /\ x.message \in ToSet(to_mcu[1].messages) => x.block = mcu_next - 1
    BY <1>1, <1>2, NotesExpanded
  <2>2. \A i \in DOMAIN to_host' : to_host'[i].answers = x.message => x.block = to_host'[i].number - 1
    BY <1>8, <2>1
  <2> QED
    BY <1>2, <1>5, <1>6, <2>1, <2>2
<1>14. BufferIsCounted'
  <2>1. resent = {} => \A i, j \in DOMAIN to_mcu' : i < j => to_mcu'[i].number + (j - i) <= to_mcu'[j].number
    BY <1>7 DEF Spaced
  <2>2. resent = {} /\ executed # <<>> =>
           \A i \in DOMAIN to_mcu' : to_mcu'[i].number + (IF Running THEN 1 ELSE 0) >= mcu_next
    BY <1>1, <1>7 DEF BufferIsCounted
  <2> QED
    BY <1>1, <1>2, <1>5, <2>1, <2>2 DEF BufferIsCounted
<1> QED
  BY <1>7, <1>9, <1>10, <1>11, <1>12, <1>13, <1>14 DEF IInv

\* The blocks in flight, as they are sent again.
Again(q, r) == [i \in DOMAIN q |-> Block(r + (i - 1), q[i])]

LEMMA ResentBlocks ==
    ASSUME NEW q \in Seq(Seq(Message)), NEW r \in Nat \ {0}
    PROVE  /\ Again(q, r) \in Seq(BlockType) /\ Len(Again(q, r)) = Len(q)
           /\ \A i \in 1 .. Len(q) : /\ Again(q, r)[i].number = r + (i - 1)
                                     /\ Again(q, r)[i].seq = (r + (i - 1)) % SeqValues
                                     /\ Again(q, r)[i].messages = q[i]
<1>1. PICK n \in Nat : n = Len(q) /\ DOMAIN q = 1 .. n
  OBVIOUS
<1>2. ASSUME NEW i \in 1 .. n
      PROVE  /\ Block(r + (i - 1), q[i]) \in BlockType
             /\ Block(r + (i - 1), q[i]).number = r + (i - 1)
             /\ Block(r + (i - 1), q[i]).seq = (r + (i - 1)) % SeqValues
             /\ Block(r + (i - 1), q[i]).messages = q[i]
  <2>1. PICK number \in Nat \ {0} : number = r + (i - 1)
    OBVIOUS
  <2>2. PICK b : b = number % SeqValues
    OBVIOUS
  <2>3. b \in 0 .. SeqValues
    BY <2>2, ModRange, Constants
  <2>4. q[i] \in Seq(Message)
    BY <1>1
  <2>5. Block(number, q[i]) = [seq |-> b, number |-> number, messages |-> q[i]]
    BY <2>2 DEF Block
  <2> QED
    BY <2>1, <2>2, <2>3, <2>4, <2>5 DEF BlockType
<1>3. /\ Again(q, r) \in Seq(BlockType) /\ Len(Again(q, r)) = n
      /\ \A i \in 1 .. n : Again(q, r)[i] = Block(r + (i - 1), q[i])
  BY <1>1, <1>2 DEF Again
<1> QED
  BY <1>1, <1>2, <1>3

LEMMA RetransmitKeepsIInv == IInv /\ Retransmit => IInv'
<1> SUFFICES ASSUME IInv, Retransmit
             PROVE  IInv'
  OBVIOUS
<1>1. /\ TypeOK /\ WindowMatches /\ UnackedHasTimer /\ NotifiedByNextBlock
      /\ StampsArePast /\ McuIsNear /\ LineIsNumbered /\ HeadIsRunning /\ RepliesAreInOrder
      /\ MessagesAreInOrder /\ NotificationsAreTrue /\ BufferIsCounted
  BY DEF IInv
<1>2. /\ sent_queue \in Seq(Seq(Message)) /\ to_mcu \in Seq(BlockType)
      /\ send_seq \in Nat /\ receive_seq \in Nat \ {0} /\ mcu_next \in Nat
  BY <1>1, Types DEF TypeOK
<1>3. /\ retransmit_timer # "never"
      /\ ignore_nak_seq' \in {send_seq, retransmit_seq, receive_seq}
      /\ retransmit_seq' = send_seq /\ retransmit_timer' = "later"
      /\ resent' = resent \cup (receive_seq .. send_seq - 1)
      /\ UNCHANGED <<ready, send_seq, receive_seq, sent_queue, last_ack_seq, notify_queue,
              receive_window, last_ack_bytes, last_receive_sent, stamp, answered, to_host,
              mcu_next, mcu_state, executed, submitted, faults>>
  BY DEF Retransmit, mcuVars
<1>4. PICK t : t = Again(sent_queue, receive_seq)
  OBVIOUS
<1>5. PICK line \in Flushed : to_mcu' = line \o t
  BY <1>4 DEF Retransmit, Again
<1>6. PICK n \in Nat : n = Len(sent_queue)
  BY <1>2
<1>7. /\ send_seq = receive_seq + n /\ n <= MaxPending /\ n # 0
      /\ receive_seq <= mcu_next /\ mcu_next < receive_seq + SeqValues
  BY <1>1, <1>2, <1>3, <1>6 DEF WindowMatches, McuIsNear, UnackedHasTimer
<1>8. /\ t \in Seq(BlockType) /\ Len(t) = n
      /\ \A i \in 1 .. n : /\ t[i].number = receive_seq + (i - 1)
                           /\ t[i].seq = (receive_seq + (i - 1)) % SeqValues
                           /\ t[i].messages = sent_queue[i]
  BY <1>2, <1>4, <1>6, ResentBlocks
<1>9. /\ Thinned(line, to_mcu)
      /\ Running /\ to_mcu # <<>> => line # <<>> /\ line[1] = to_mcu[1]
  BY <1>1, FlushedIsThinned
<1>10. line \in Seq(BlockType)
  BY <1>9 DEF Thinned
<1>11. PICK L \in Nat : L = Len(line) /\ DOMAIN line = 1 .. L
  BY <1>10
<1>12. /\ to_mcu' \in Seq(BlockType) /\ DOMAIN to_mcu' = 1 .. L + n
       /\ \A i \in 1 .. L : to_mcu'[i] = line[i]
       /\ \A i \in L + 1 .. L + n : to_mcu'[i] = t[i - L] /\ i - L \in 1 .. n
  <2>1. /\ to_mcu' \in Seq(BlockType) /\ Len(to_mcu') = L + n
        /\ \A i \in 1 .. L : to_mcu'[i] = line[i]
        /\ \A i \in L + 1 .. L + n : to_mcu'[i] = t[i - L]
    BY <1>5, <1>8, <1>10, <1>11, ConcatFacts
  <2> QED
    BY <2>1
<1>13. Running' = Running /\ Connected' = Connected /\ Agreed' = Agreed
  BY <1>3 DEF Running, Connected, Agreed
<1>14. /\ \A i \in 1 .. L : RightBlock(line[i], receive_seq, send_seq, mcu_next, sent_queue)
       /\ \A i, j \in 1 .. L : i < j => NotWrapped(line[i], line[j])
  <2>1. /\ \A i \in DOMAIN to_mcu : RightBlock(to_mcu[i], receive_seq, send_seq, mcu_next, sent_queue)
        /\ \A i, j \in DOMAIN to_mcu : i < j => NotWrapped(to_mcu[i], to_mcu[j])
    BY <1>1, LineExpanded
  <2> QED
    BY <1>2, <1>9, <1>11, <2>1, ThinnedLineIsRight
<1>15. Running => to_mcu' # <<>> /\ to_mcu'[1] = to_mcu[1]
  <2>1. ASSUME Running
        PROVE  to_mcu' # <<>> /\ to_mcu'[1] = to_mcu[1]
    <3>1. line # <<>> /\ line[1] = to_mcu[1]
      BY <1>1, <1>9, <2>1 DEF HeadIsRunning
    <3>2. 1 \in 1 .. L
      BY <1>10, <1>11, <3>1
    <3> QED
      BY <1>12, <3>1, <3>2
  <2> QED
    BY <2>1
<1>16. resent' # {}
  <2>1. receive_seq \in receive_seq .. send_seq - 1
    BY <1>2, <1>7
  <2> QED
    BY <1>3, <2>1
<1>17. TypeOK' /\ WindowMatches' /\ UnackedHasTimer' /\ NotifiedByNextBlock' /\ StampsArePast'
  <2>1. TypeOK'
    <3>1. to_mcu' \in Seq([seq : 0 .. SeqValues, number : Nat \ {0}, messages : Seq(1 .. MaxMessages)])
      BY <1>12 DEF BlockType, Message
    <3>2. resent' \in SUBSET Nat
      BY <1>1, <1>2, <1>3 DEF TypeOK
    <3>3. ignore_nak_seq' \in Nat /\ retransmit_seq' \in Nat
      BY <1>1, <1>2, <1>3 DEF TypeOK
    <3> QED
      BY <1>1, <1>3, <3>1, <3>2, <3>3 DEF TypeOK
  <2>2. WindowMatches' /\ NotifiedByNextBlock'
    BY <1>1, <1>3 DEF WindowMatches, NotifiedByNextBlock
  <2>3. UnackedHasTimer'
    BY <1>1, <1>3 DEF UnackedHasTimer
  <2>4. StampsArePast'
    <3>1. stamp \in Nat /\ retransmit_seq \in Nat /\ resent \subseteq Nat
      BY <1>1 DEF TypeOK
    <3>2. stamp \notin resent'
      BY <1>1, <1>2, <1>3, <3>1 DEF StampsArePast
    <3>3. \A m \in resent' : 0 < m /\ m < send_seq
      BY <1>1, <1>2, <1>3, <3>1 DEF StampsArePast
    <3> QED
      BY <1>1, <1>2, <1>3, <3>2, <3>3 DEF StampsArePast
  <2> QED
    BY <2>1, <2>2, <2>3, <2>4
<1>18. McuIsNear' /\ RepliesAreInOrder' /\ MessagesAreInOrder'
  <2>1. McuIsNear'
    BY <1>1, <1>3, <1>13 DEF McuIsNear
  <2>2. RepliesAreInOrder'
    BY <1>1, <1>3, <1>13 DEF RepliesAreInOrder
  <2>3. MessagesAreInOrder'
    BY <1>1, <1>3 DEF MessagesAreInOrder, Sent, Unsent
  <2> QED
    BY <2>1, <2>2, <2>3
<1>19. LineIsNumbered'
  <2>1. ASSUME NEW i \in 1 .. n
        PROVE  RightBlock(t[i], receive_seq, send_seq, mcu_next, sent_queue)
    <3>1. PICK number \in Nat : number = receive_seq + (i - 1)
      BY <1>2
    <3>2. t[i].number = number /\ t[i].seq = number % SeqValues /\ t[i].messages = sent_queue[i]
      BY <1>8, <3>1
    <3>3. number < send_seq /\ mcu_next < number + SeqValues /\ 1 + number - receive_seq = i
      BY <1>2, <1>7, <3>1, Constants
    <3> QED
      BY <3>2, <3>3 DEF RightBlock
  <2>2. ASSUME NEW i \in 1 .. L + n
        PROVE  RightBlock(to_mcu'[i], receive_seq, send_seq, mcu_next, sent_queue)
    <3>1. i \in 1 .. L \/ i \in L + 1 .. L + n
      OBVIOUS
    <3> QED
      BY <1>12, <1>14, <2>1, <3>1
  <2>3. \A i \in 1 .. n : t[i].number >= receive_seq /\ t[i].number \in Nat
    BY <1>2, <1>8
  <2>4. \A i \in 1 .. L : line[i].number < send_seq /\ line[i].number \in Nat
    BY <1>10, <1>11, <1>14, BlockFields DEF RightBlock
  <2>5. ASSUME NEW i \in 1 .. L + n, NEW j \in 1 .. L + n, i < j
        PROVE  NotWrapped(to_mcu'[i], to_mcu'[j])
    <3>1. CASE i \in 1 .. L /\ j \in 1 .. L
      BY <1>12, <1>14, <2>5, <3>1
    <3>2. CASE i \in 1 .. L /\ j \in L + 1 .. L + n
      <4>1. to_mcu'[i] = line[i] /\ to_mcu'[j] = t[j - L] /\ j - L \in 1 .. n
        BY <1>12, <3>2
      <4>2. PICK a \in Nat, b \in Nat : a = line[i].number /\ b = t[j - L].number
        BY <2>3, <2>4, <3>2, <4>1
      <4>3. a < send_seq /\ b >= receive_seq
        BY <2>3, <2>4, <3>2, <4>1, <4>2
      <4>4. a + 1 < b + SeqValues
        BY <1>2, <1>7, <4>3, Constants
      <4> QED
        BY <4>1, <4>2, <4>4 DEF NotWrapped
    <3>3. CASE i \in L + 1 .. L + n /\ j \in L + 1 .. L + n
      <4>1. to_mcu'[i].number = receive_seq + (i - L - 1) /\ to_mcu'[j].number = receive_seq + (j - L - 1)
        BY <1>8, <1>12, <3>3
      <4>2. receive_seq + (i - L - 1) + 1 < receive_seq + (j - L - 1) + SeqValues
        BY <1>2, <2>5, Constants
      <4> QED
        BY <4>1, <4>2 DEF NotWrapped
    <3> QED
      BY <2>5, <3>1, <3>2, <3>3
  <2> QED
    BY <1>3, <1>12, <2>2, <2>5, LineExpandedNext
<1>20. HeadIsRunning'
  BY <1>1, <1>3, <1>13, <1>15 DEF HeadIsRunning
<1>21. NotificationsAreTrue'
  <2> SUFFICES ASSUME NEW x \in notify_queue', ~x.early
               PROVE  /\ Connected'
                      /\ TrueNote(x, receive_seq', send_seq', mcu_next', sent_queue', ToSet(executed'))
                      /\ \A i \in DOMAIN to_host' :
                           to_host'[i].answers = x.message => x.block = to_host'[i].number - 1
                      /\ Running' /\ x.message \in ToSet(to_mcu'[1].messages) => x.block = mcu_next' - 1
    BY NotesExpandedNext
  <2>1. /\ Connected
        /\ TrueNote(x, receive_seq, send_seq, mcu_next, sent_queue, ToSet(executed))
        /\ \A i \in DOMAIN to_host : to_host[i].answers = x.message => x.block = to_host[i].number - 1
        /\ Running /\ x.message \in ToSet(to_mcu[1].messages) => x.block = mcu_next - 1
    BY <1>1, <1>3, NotesExpanded
  <2> QED
    BY <1>3, <1>13, <1>15, <2>1
<1>22. BufferIsCounted'
  BY <1>1, <1>3, <1>13, <1>16 DEF BufferIsCounted
<1> QED
  BY <1>17, <1>18, <1>19, <1>20, <1>21, <1>22 DEF IInv

-----------------------------------------------------------------------------
(* A reply reaches the host.                                               *)

\* What follows the first reply.
LEMMA LaterReplies ==
    ASSUME IInv, to_host # <<>>, to_host' = Tail(to_host)
    PROVE  /\ Head(to_host) = to_host[1] /\ to_host[1] \in ReplyType /\ 1 \in DOMAIN to_host
           /\ to_host' \in Seq(ReplyType)
           /\ \A i \in DOMAIN to_host' :
                /\ \E j \in DOMAIN to_host : j # 1 /\ to_host'[i] = to_host[j]
                /\ to_host[1].number <= to_host'[i].number
           /\ \A i, j \in DOMAIN to_host' : i < j => Before(to_host'[i], to_host'[j])
<1>1. TypeOK /\ RepliesAreInOrder
  BY DEF IInv
<1>2. to_host \in Seq(ReplyType)
  BY <1>1, Types
<1>3. PICK n \in Nat \ {0} : n = Len(to_host) /\ DOMAIN to_host = 1 .. n
  BY <1>2, TailFacts
<1>4. /\ Head(to_host) = to_host[1] /\ to_host[1] \in ReplyType /\ 1 \in DOMAIN to_host
      /\ to_host' \in Seq(ReplyType) /\ DOMAIN to_host' = 1 .. n - 1
      /\ \A i \in 1 .. n - 1 : to_host'[i] = to_host[i + 1]
  <2>1. Len(to_host') = n - 1 /\ to_host' \in Seq(ReplyType) /\ \A i \in 1 .. n - 1 : to_host'[i] = to_host[i + 1]
    BY <1>2, <1>3, TailFacts
  <2> QED
    BY <1>2, <1>3, <2>1, TailFacts
<1>5. \A i, j \in 1 .. n : i < j => Before(to_host[i], to_host[j])
  BY <1>1, <1>3, RepliesExpanded DEF RightReplies
<1>6. \A i \in 1 .. n - 1 : i + 1 \in 1 .. n /\ i + 1 # 1 /\ 1 < i + 1
  OBVIOUS
<1>7. \A i \in 1 .. n - 1 : Before(to_host[1], to_host[i + 1])
  BY <1>3, <1>5, <1>6
<1>8. \A i, j \in 1 .. n - 1 : i < j => Before(to_host[i + 1], to_host[j + 1])
  BY <1>5, <1>6
<1> QED
  BY <1>3, <1>4, <1>6, <1>7, <1>8 DEF Before

\* Which block a reply tells of.
LEMMA ReplyIsDecoded ==
    ASSUME IInv, to_host # <<>>
    PROVE  /\ Decode(Head(to_host).seq) = to_host[1].number
           /\ receive_seq <= to_host[1].number /\ to_host[1].number <= mcu_next
           /\ to_host[1].number \in Nat
<1>1. TypeOK /\ RepliesAreInOrder /\ McuIsNear
  BY DEF IInv
<1>2. to_host \in Seq(ReplyType) /\ receive_seq \in Nat /\ mcu_next \in Nat
  BY <1>1, Types
<1>3. Head(to_host) = to_host[1] /\ to_host[1] \in ReplyType /\ 1 \in DOMAIN to_host
  BY <1>2, TailFacts
<1>4. PICK number \in Nat : number = to_host[1].number
  BY <1>3, ReplyFields
<1>5. /\ to_host[1].seq = number % SeqValues /\ receive_seq <= number /\ number <= mcu_next
      /\ mcu_next < receive_seq + SeqValues
  BY <1>1, <1>3, <1>4 DEF RepliesAreInOrder, McuIsNear
<1>6. number < receive_seq + SeqValues
  BY <1>2, <1>5, Constants
<1>7. Decode(number % SeqValues) = number
  BY <1>2, <1>5, <1>6, DecodeIs
<1> QED
  BY <1>3, <1>4, <1>5, <1>7

\* The reply that HostReceives takes up, and what changes whatever it says.
LEMMA WhatAReplyDoes ==
    ASSUME IInv, HostReceives, NEW e, e = to_host[1], NEW N, N = e.number
    PROVE  /\ e \in ReplyType /\ N \in Nat /\ receive_seq <= N /\ N <= mcu_next
           /\ IF N # receive_seq
                THEN UpdateReceiveSeq(N)
                ELSE UNCHANGED <<receive_seq, sent_queue, last_receive_sent, last_ack_bytes, send_seq>>
           /\ retransmit_timer' = IF ~e.data /\ IsNak(N) THEN "now"
                                  ELSE IF N = receive_seq THEN retransmit_timer
                                  ELSE IF sent_queue' = <<>> THEN "never"
                                  ELSE "later"
           /\ last_ack_seq' = IF ~e.data /\ last_ack_seq < N THEN N ELSE last_ack_seq
           /\ stamp' = IF e.data THEN SentTime(N) ELSE stamp
           /\ notify_queue' = {x \in notify_queue : (N - (IF e.data THEN 2 ELSE 1)) \in 0 .. x.block - 1}
           /\ answered' = answered \cup ({e.answers} \ {0})
           /\ UNCHANGED <<ignore_nak_seq, retransmit_seq, ready, receive_window, to_mcu, mcu_next,
                          mcu_state, executed, submitted, faults, resent>>
<1>1. to_host # <<>> /\ HandleMessage(Head(to_host)) /\ to_host' = Tail(to_host)
  BY DEF HostReceives
<1>2. Decode(Head(to_host).seq) = N /\ receive_seq <= N /\ N <= mcu_next /\ N \in Nat
  BY <1>1, ReplyIsDecoded
<1>3. Head(to_host) = e /\ e \in ReplyType
  BY <1>1, LaterReplies
<1>4. ~(N > send_seq /\ Connected)
  <2>1. Connected => mcu_next <= send_seq
    BY DEF IInv, McuIsNear, Agreed
  <2>2. mcu_next \in Nat /\ send_seq \in Nat
    BY Types DEF IInv
  <2> QED
    BY <1>2, <2>1, <2>2
<1>5. HandleMessage(e)
  BY <1>1, <1>3
<1>6. /\ IF N # receive_seq
           THEN UpdateReceiveSeq(N)
           ELSE UNCHANGED <<receive_seq, sent_queue, last_receive_sent, last_ack_bytes, send_seq>>
      /\ retransmit_timer' = NextTimer(e)
      /\ last_ack_seq' = IF ~e.data /\ last_ack_seq < N THEN N ELSE last_ack_seq
      /\ stamp' = IF e.data THEN SentTime(N) ELSE stamp
      /\ Notify(e)
      /\ answered' = answered \cup ({e.answers} \ {0})
      /\ UNCHANGED <<ignore_nak_seq, retransmit_seq>>
  BY <1>2, <1>3, <1>4, <1>5 DEF HandleMessage
<1>7. UNCHANGED <<ready, receive_window, to_mcu, mcu_next, mcu_state, executed, submitted, faults, resent>>
  BY DEF HostReceives, mcuVars
<1> QED
  BY <1>2, <1>3, <1>6, <1>7 DEF NextTimer, Notify, WakeSeq

\* What follows of the common part.
LEMMA ReplyIsTaken ==
    ASSUME IInv, HostReceives, NEW e, e = to_host[1], NEW N, N = e.number
    PROVE  /\ receive_seq' = N /\ send_seq' \in {send_seq, N} /\ send_seq' >= send_seq
           /\ TypeOK' /\ NotifiedByNextBlock' /\ StampsArePast' /\ RepliesAreInOrder'
           /\ UnackedHasTimer'
           /\ last_ack_seq' <= N
           /\ answered' \subseteq ToSet(executed) /\ answered \subseteq answered'
           /\ notify_queue' \subseteq notify_queue
<1>1. /\ TypeOK /\ WindowMatches /\ UnackedHasTimer /\ StampsArePast /\ McuIsNear
      /\ RepliesAreInOrder /\ BufferIsCounted
  BY DEF IInv
<1>2. /\ e \in ReplyType /\ N \in Nat /\ receive_seq <= N /\ N <= mcu_next
      /\ IF N # receive_seq
           THEN UpdateReceiveSeq(N)
           ELSE UNCHANGED <<receive_seq, sent_queue, last_receive_sent, last_ack_bytes, send_seq>>
      /\ retransmit_timer' = IF ~e.data /\ IsNak(N) THEN "now"
                             ELSE IF N = receive_seq THEN retransmit_timer
                             ELSE IF sent_queue' = <<>> THEN "never"
                             ELSE "later"
      /\ last_ack_seq' = IF ~e.data /\ last_ack_seq < N THEN N ELSE last_ack_seq
      /\ stamp' = IF e.data THEN SentTime(N) ELSE stamp
      /\ notify_queue' = {x \in notify_queue : (N - (IF e.data THEN 2 ELSE 1)) \in 0 .. x.block - 1}
      /\ answered' = answered \cup ({e.answers} \ {0})
      /\ UNCHANGED <<ignore_nak_seq, retransmit_seq, ready, receive_window, to_mcu, mcu_next,
                     mcu_state, executed, submitted, faults, resent>>
  BY WhatAReplyDoes
<1>3. /\ send_seq \in Nat /\ receive_seq \in Nat /\ mcu_next \in Nat /\ last_ack_seq \in Nat
      /\ 1 <= send_seq /\ 1 <= receive_seq /\ sent_queue \in Seq(Seq(Message)) /\ retransmit_seq \in Nat
      /\ last_receive_sent \in Nat /\ stamp \in Nat /\ last_ack_bytes \in {0, 1}
  BY <1>1, Types DEF TypeOK
<1>4. PICK n \in Nat : n = Len(sent_queue) /\ send_seq = receive_seq + n
  BY <1>1, <1>3 DEF WindowMatches
<1>5. /\ receive_seq' = N /\ send_seq' \in {send_seq, N} /\ send_seq' >= send_seq
      /\ last_receive_sent' \in {0, N - 1} /\ last_ack_bytes' \in {0, 1}
      /\ sent_queue' \in Seq(Seq(Message))
  <2>1. CASE N = receive_seq
    BY <1>1, <1>2, <1>3, <2>1 DEF StampsArePast
  <2>2. CASE N # receive_seq /\ N - receive_seq <= n
    <3>1. /\ sent_queue' = SubSeq(sent_queue, 1 + N - receive_seq, n)
          /\ receive_seq' = N /\ send_seq' = send_seq /\ last_receive_sent' = N - 1 /\ last_ack_bytes' = 1
      BY <1>2, <1>4, <2>2 DEF UpdateReceiveSeq
    <3>2. PICK d \in 0 .. n : d = N - receive_seq
      BY <1>2, <1>3, <2>2
    <3>3. 1 + N - receive_seq = d + 1
      BY <1>2, <1>3, <3>2
    <3>4. sent_queue' \in Seq(Seq(Message))
      BY <1>3, <1>4, <3>1, <3>2, <3>3, RestFacts
    <3> QED
      BY <1>3, <3>1, <3>4
  <2>3. CASE N # receive_seq /\ ~(N - receive_seq <= n)
    <3>1. /\ sent_queue' = <<>> /\ receive_seq' = N /\ send_seq' = N /\ last_receive_sent' = 0
          /\ last_ack_bytes' = last_ack_bytes
      BY <1>2, <1>4, <2>3 DEF UpdateReceiveSeq
    <3>2. N >= send_seq
      BY <1>2, <1>3, <1>4, <2>3
    <3> QED
      BY <1>3, <3>1, <3>2
  <2> QED
    BY <2>1, <2>2, <2>3
<1>6. N \in Nat \ {0} /\ send_seq' \in Nat \ {0}
  <2>1. N \in Nat \ {0} /\ send_seq \in Nat \ {0}
    BY <1>2, <1>3
  <2> QED
    BY <1>5, <2>1
<1>7. /\ stamp' < N /\ stamp' \notin resent /\ stamp' \in Nat
  <2>1. CASE e.data
    <3>1. stamp' = IF N > retransmit_seq THEN last_receive_sent' ELSE 0
      BY <1>2, <2>1 DEF SentTime
    <3>2. \A m \in resent : m \in Nat /\ 0 < m /\ m < retransmit_seq
      BY <1>1 DEF StampsArePast, TypeOK
    <3> QED
      BY <1>3, <1>5, <1>6, <3>1, <3>2
  <2>2. CASE ~e.data
    BY <1>1, <1>2, <1>3, <2>2 DEF StampsArePast
  <2> QED
    BY <2>1, <2>2
<1>8. e.answers \in ToSet(executed) \cup {0} /\ to_host # <<>> /\ to_host' = Tail(to_host)
  <2>1. to_host # <<>> /\ to_host' = Tail(to_host)
    BY DEF HostReceives
  <2>2. 1 \in DOMAIN to_host
    BY <2>1, LaterReplies
  <2> QED
    BY <1>1, <2>1, <2>2 DEF RepliesAreInOrder
<1>9. answered' \subseteq ToSet(executed) /\ answered \subseteq answered'
  BY <1>1, <1>2, <1>8 DEF BufferIsCounted
<1>10. last_ack_seq' <= N /\ last_ack_seq' \in Nat
  BY <1>1, <1>2, <1>3 DEF McuIsNear
<1>11. /\ to_host' \in Seq(ReplyType)
       /\ \A i \in DOMAIN to_host' :
            /\ \E j \in DOMAIN to_host : to_host'[i] = to_host[j]
            /\ N <= to_host'[i].number
       /\ \A i, j \in DOMAIN to_host' : i < j => Before(to_host'[i], to_host'[j])
  BY <1>8, LaterReplies
<1>12. TypeOK'
  <2>1. answered' \subseteq 1 .. MaxMessages
    BY <1>1, <1>9, SetsOfMessages DEF Message
  <2>2. retransmit_timer' \in {"never", "later", "now"}
    BY <1>1, <1>2 DEF TypeOK
  <2>3. notify_queue' \subseteq [message : 1 .. MaxMessages, block : Nat, early : BOOLEAN]
    BY <1>1, <1>2 DEF TypeOK
  <2>4. last_receive_sent' \in Nat
    BY <1>5, <1>6
  <2> QED
    BY <1>1, <1>2, <1>5, <1>6, <1>7, <1>10, <1>11, <2>1, <2>2, <2>3, <2>4 DEF TypeOK, ReplyType, Message
<1>13. NotifiedByNextBlock'
  <2>1. \A x \in notify_queue : x.block \in Nat
    BY <1>1 DEF TypeOK
  <2>2. \A x \in notify_queue' : x.block >= N - 1
    BY <1>2, <2>1
  <2> QED
    BY <1>5, <2>2 DEF NotifiedByNextBlock
<1>14. StampsArePast'
  <2>1. retransmit_seq' <= send_seq'
    BY <1>1, <1>2, <1>3, <1>5, <1>6 DEF StampsArePast
  <2> QED
    BY <1>1, <1>2, <1>5, <1>7, <2>1 DEF StampsArePast
<1>15. RepliesAreInOrder'
  <2>1. Agreed => Agreed'
    BY <1>2, <1>3, <1>5, <1>6 DEF Agreed
  <2>2. ASSUME NEW i \in DOMAIN to_host'
        PROVE  RightReply(to_host'[i], N, mcu_next, Agreed', ToSet(executed))
    <3>1. PICK j \in DOMAIN to_host : to_host'[i] = to_host[j]
      BY <1>11, <2>2
    <3>2. RightReply(to_host[j], receive_seq, mcu_next, Agreed, ToSet(executed))
      BY <1>1, RepliesExpanded DEF RightReplies
    <3> QED
      BY <1>11, <2>1, <3>1, <3>2 DEF RightReply
  <2> QED
    BY <1>2, <1>5, <1>11, <2>2, RepliesExpandedNext DEF RightReplies
<1>16. UnackedHasTimer'
  <2>1. N = receive_seq => sent_queue' = sent_queue
    BY <1>2
  <2>2. IsNak(N) => sent_queue' # <<>>
    BY DEF IsNak
  <2> QED
    BY <1>1, <1>2, <2>1, <2>2 DEF UnackedHasTimer
<1> QED
  BY <1>2, <1>5, <1>9, <1>10, <1>12, <1>13, <1>14, <1>15, <1>16

\* A notification that is left.
LEMMA TrueNoteShifted ==
    ASSUME NEW x \in NoteType, NEW r \in Nat, NEW s \in Nat, NEW m \in Nat, NEW N \in Nat,
           r <= N, N <= m, NEW q \in Seq(Seq(Message)), s = r + Len(q), N <= s,
           NEW p, \A k \in 1 .. s - N : p[k] = q[(N - r) + k],
           NEW done, TrueNote(x, r, s, m, q, done)
    PROVE  TrueNote(x, N, s, m, p, done)
<1>1. PICK b \in Nat : b = x.block
  BY DEF NoteType
<1>2. ASSUME b >= m
      PROVE  p[1 + b - N] = q[1 + b - r]
  <2>1. b < s
    BY <1>1 DEF TrueNote
  <2>2. 1 + b - N \in 1 .. s - N /\ (N - r) + (1 + b - N) = 1 + b - r
    BY <1>2, <2>1
  <2>3. p[1 + b - N] = q[(N - r) + (1 + b - N)]
    BY <2>2
  <2> QED
    BY <2>2, <2>3
<1> QED
  BY <1>1, <1>2 DEF TrueNote

LEMMA RightBlockShifted ==
    ASSUME NEW b \in BlockType, NEW r \in Nat, NEW s \in Nat, NEW m \in Nat, NEW N \in Nat,
           r <= N, N <= m, NEW q \in Seq(Seq(Message)), s = r + Len(q), N <= s,
           NEW p, \A k \in 1 .. s - N : p[k] = q[(N - r) + k],
           RightBlock(b, r, s, m, q)
    PROVE  RightBlock(b, N, s, m, p)
<1>1. PICK number \in Nat : number = b.number
  BY BlockFields
<1>2. ASSUME number >= m
      PROVE  p[1 + number - N] = q[1 + number - r]
  <2>1. number < s
    BY <1>1 DEF RightBlock
  <2>2. 1 + number - N \in 1 .. s - N /\ (N - r) + (1 + number - N) = 1 + number - r
    BY <1>2, <2>1
  <2>3. p[1 + number - N] = q[(N - r) + (1 + number - N)]
    BY <2>2
  <2> QED
    BY <2>2, <2>3
<1> QED
  BY <1>1, <1>2 DEF RightBlock

LEMMA OrderShifted ==
    ASSUME NEW q \in Seq(Seq(Message)), NEW r \in Nat, NEW m \in Nat, NEW d \in 0 .. Len(q),
           NEW p, DOMAIN p = 1 .. Len(q) - d, \A k \in 1 .. Len(q) - d : p[k] = q[d + k],
           NEW done, NEW later, InOrder(q, r, m, done, later)
    PROVE  InOrder(p, r + d, m, done, later)
<1>1. PICK n \in Nat : n = Len(q) /\ DOMAIN q = 1 .. n
  OBVIOUS
<1>2. \A k \in 1 .. n - d : d + k \in 1 .. n /\ p[k] = q[d + k]
  BY <1>1
<1>3. \A k, l \in 1 .. n - d : k < l => d + k < d + l
  BY <1>1
<1>4. \A k \in 1 .. n - d : (r + d) + k > m => r + (d + k) > m
  BY <1>1
<1>5. \A k \in DOMAIN p : Increasing(p[k]) /\ Below(ToSet(p[k]), later)
  BY <1>1, <1>2 DEF InOrder
<1>6. \A k, l \in DOMAIN p : k < l => Below(ToSet(p[k]), ToSet(p[l]))
  BY <1>1, <1>2, <1>3 DEF InOrder
<1>7. \A k \in DOMAIN p : (r + d) + k > m => Below(ToSet(done), ToSet(p[k]))
  BY <1>1, <1>2, <1>4 DEF InOrder
<1> QED
  BY <1>5, <1>6, <1>7 DEF InOrder

\* An acknowledgement of what was sent.
LEMMA HostForgetsKeepsIInv ==
    ASSUME IInv, HostReceives, NEW e, e = to_host[1], NEW N, N = e.number,
           N - receive_seq <= Len(sent_queue)
    PROVE  IInv'
<1>1. /\ TypeOK /\ WindowMatches /\ McuIsNear /\ LineIsNumbered /\ HeadIsRunning /\ RepliesAreInOrder
      /\ MessagesAreInOrder /\ NotificationsAreTrue /\ BufferIsCounted
  BY DEF IInv
<1>2. /\ e \in ReplyType /\ N \in Nat /\ receive_seq <= N /\ N <= mcu_next
      /\ IF N # receive_seq
           THEN UpdateReceiveSeq(N)
           ELSE UNCHANGED <<receive_seq, sent_queue, last_receive_sent, last_ack_bytes, send_seq>>
      /\ last_ack_seq' = IF ~e.data /\ last_ack_seq < N THEN N ELSE last_ack_seq
      /\ UNCHANGED <<ready, receive_window, to_mcu, mcu_next, mcu_state, executed, submitted,
                     faults, resent>>
  BY WhatAReplyDoes
<1>3. /\ receive_seq' = N
      /\ TypeOK' /\ NotifiedByNextBlock' /\ StampsArePast' /\ RepliesAreInOrder' /\ UnackedHasTimer'
      /\ last_ack_seq' <= N
      /\ answered' \subseteq ToSet(executed) /\ answered \subseteq answered'
      /\ notify_queue' \subseteq notify_queue
  BY ReplyIsTaken
<1>4. /\ executed \in Seq(Message) /\ sent_queue \in Seq(Seq(Message))
      /\ to_mcu \in Seq(BlockType) /\ to_host \in Seq(ReplyType)
      /\ send_seq \in Nat /\ receive_seq \in Nat /\ mcu_next \in Nat /\ last_ack_seq \in Nat
      /\ 1 <= receive_seq /\ last_ack_bytes \in {0, 1}
  BY <1>1, Types DEF TypeOK
<1>5. PICK n \in Nat : n = Len(sent_queue) /\ send_seq = receive_seq + n /\ n <= MaxPending
  BY <1>1, <1>4 DEF WindowMatches
<1>6. PICK d \in 0 .. n : d = N - receive_seq
  BY <1>2, <1>4, <1>5
<1>7. PICK q : q = sent_queue'
  OBVIOUS
<1>8. /\ send_seq' = send_seq
      /\ Len(q) = n - d /\ DOMAIN q = 1 .. n - d
      /\ \A k \in 1 .. n - d : q[k] = sent_queue[d + k]
      /\ N # receive_seq => last_ack_bytes' = 1
      /\ N = receive_seq => last_ack_bytes' = last_ack_bytes
  <2>1. CASE N = receive_seq
    BY <1>2, <1>4, <1>5, <1>6, <1>7, <2>1
  <2>2. CASE N # receive_seq
    <3>1. 1 + N - receive_seq = d + 1
      BY <1>2, <1>4, <1>6
    <3>2. q = SubSeq(sent_queue, d + 1, n) /\ send_seq' = send_seq /\ last_ack_bytes' = 1
      BY <1>2, <1>5, <1>7, <2>2, <3>1 DEF UpdateReceiveSeq
    <3>3. /\ q \in Seq(Seq(Message)) /\ Len(q) = n - d
          /\ \A k \in 1 .. n - d : q[k] = sent_queue[d + k]
      BY <1>4, <1>5, <3>2, RestFacts
    <3> QED
      BY <2>2, <3>2, <3>3
  <2> QED
    BY <2>1, <2>2
<1>9. N <= send_seq /\ send_seq = N + (n - d) /\ send_seq - N = n - d
  <2>1. N = receive_seq + d /\ N \in Nat
    BY <1>2, <1>4, <1>6
  <2>2. d \in Nat /\ d <= n /\ receive_seq \in Nat /\ send_seq = receive_seq + n
    BY <1>4, <1>5
  <2> HIDE <1>6
  <2>3. send_seq = N + (n - d)
    BY <2>1, <2>2
  <2> QED
    BY <2>1, <2>2, <2>3
<1>10. to_host # <<>> /\ to_host' = Tail(to_host)
  BY DEF HostReceives
<1>11. /\ \A i \in DOMAIN to_host' : \E j \in DOMAIN to_host : to_host'[i] = to_host[j]
       /\ 1 \in DOMAIN to_host
  BY <1>10, LaterReplies
<1>12. Running' = Running /\ (Connected => Connected') /\ (Connected' => Agreed')
  <2>1. Running' = Running
    BY <1>2 DEF Running
  <2>2. Connected => N # 1
    BY <1>2, <1>4 DEF Connected
  <2>3. ASSUME N # 1
        PROVE  mcu_next <= send_seq
    <3>1. CASE N = receive_seq
      BY <1>1, <2>3, <3>1 DEF McuIsNear, Connected, Agreed
    <3>2. CASE ~Agreed
      <4>1. N = mcu_next
        BY <1>1, <1>11, <3>2 DEF RepliesAreInOrder
      <4> QED
        BY <1>9, <4>1
    <3>3. CASE Agreed
      BY <3>3 DEF Agreed
    <3> QED
      BY <3>2, <3>3
  <2> QED
    BY <1>2, <1>3, <1>8, <2>1, <2>2, <2>3 DEF Connected, Agreed
<1>13. WindowMatches'
  BY <1>3, <1>5, <1>7, <1>8, <1>9, Constants DEF WindowMatches
<1>14. McuIsNear'
  <2>1. Agreed' <=> Agreed
    BY <1>2, <1>8 DEF Agreed
  <2>2. mcu_next < N + SeqValues
    BY <1>1, <1>2, <1>4, Constants DEF McuIsNear
  <2> QED
    BY <1>1, <1>2, <1>3, <1>12, <2>1, <2>2 DEF McuIsNear
<1>15. LineIsNumbered'
  <2>1. ASSUME NEW i \in DOMAIN to_mcu
        PROVE  RightBlock(to_mcu[i], N, send_seq, mcu_next, q)
    <3>1. RightBlock(to_mcu[i], receive_seq, send_seq, mcu_next, sent_queue) /\ to_mcu[i] \in BlockType
      BY <1>1, <1>4, LineExpanded
    <3>2. \A k \in 1 .. send_seq - N : q[k] = sent_queue[(N - receive_seq) + k]
      BY <1>6, <1>8, <1>9
    <3> QED
      BY <1>2, <1>4, <1>5, <1>9, <3>1, <3>2, RightBlockShifted
  <2> QED
    BY <1>1, <1>2, <1>3, <1>7, <1>8, <2>1, LineExpanded, LineExpandedNext
<1>16. HeadIsRunning'
  <2>1. Running => last_ack_seq' < mcu_next
    <3>1. Running => last_ack_seq < mcu_next /\ (e.data \/ N < mcu_next)
      BY <1>1, <1>11 DEF HeadIsRunning
    <3> QED
      BY <1>2, <3>1
  <2> QED
    BY <1>1, <1>2, <1>11, <1>12, <2>1 DEF HeadIsRunning
<1>17. MessagesAreInOrder'
  <2>1. /\ Increasing(ready') /\ \A m \in ToSet(ready') : m <= submitted'
        /\ Unsent' = Unsent
    BY <1>1, <1>2 DEF MessagesAreInOrder, Unsent
  <2>2. InOrder(sent_queue, receive_seq, mcu_next, executed, Unsent)
    BY <1>1, OrderExpanded
  <2>3. InOrder(q, receive_seq + d, mcu_next, executed, Unsent)
    BY <1>4, <1>5, <1>8, <2>2, OrderShifted
  <2>4. receive_seq + d = N
    BY <1>2, <1>4, <1>6
  <2> QED
    BY <1>2, <1>3, <1>7, <2>1, <2>3, <2>4, OrderExpandedNext
<1>18. NotificationsAreTrue'
  <2> SUFFICES ASSUME NEW x \in notify_queue', ~x.early
               PROVE  /\ Connected'
                      /\ TrueNote(x, receive_seq', send_seq', mcu_next', sent_queue', ToSet(executed'))
                      /\ \A i \in DOMAIN to_host' :
                           to_host'[i].answers = x.message => x.block = to_host'[i].number - 1
                      /\ Running' /\ x.message \in ToSet(to_mcu'[1].messages) => x.block = mcu_next' - 1
    BY NotesExpandedNext
  <2>1. /\ Connected
        /\ TrueNote(x, receive_seq, send_seq, mcu_next, sent_queue, ToSet(executed))
        /\ \A i \in DOMAIN to_host : to_host[i].answers = x.message => x.block = to_host[i].number - 1
        /\ Running /\ x.message \in ToSet(to_mcu[1].messages) => x.block = mcu_next - 1
    BY <1>1, <1>3, NotesExpanded
  <2>2. x \in NoteType
    BY <1>1, <1>3 DEF TypeOK, NoteType, Message
  <2>3. TrueNote(x, N, send_seq, mcu_next, q, ToSet(executed))
    <3>1. \A k \in 1 .. send_seq - N : q[k] = sent_queue[(N - receive_seq) + k]
      BY <1>6, <1>8, <1>9
    <3> QED
      BY <1>2, <1>4, <1>5, <1>9, <2>1, <2>2, <3>1, TrueNoteShifted
  <2>4. \A i \in DOMAIN to_host' : to_host'[i].answers = x.message => x.block = to_host'[i].number - 1
    BY <1>11, <2>1
  <2> QED
    BY <1>2, <1>3, <1>7, <1>8, <1>12, <2>1, <2>3, <2>4
<1>19. BufferIsCounted'
  <2>1. Running /\ N = mcu_next => last_ack_bytes' = 1
    BY <1>1, <1>8 DEF BufferIsCounted
  <2>2. answered # {} => answered' # {}
    BY <1>3
  <2> QED
    BY <1>1, <1>2, <1>3, <1>12, <2>1, <2>2 DEF BufferIsCounted
<1> QED
  BY <1>3, <1>13, <1>14, <1>15, <1>16, <1>17, <1>18, <1>19 DEF IInv

\* The first acknowledgement of a connection.
LEMMA HostConnectsKeepsIInv ==
    ASSUME IInv, HostReceives, NEW e, e = to_host[1], NEW N, N = e.number,
           ~(N - receive_seq <= Len(sent_queue))
    PROVE  IInv'
<1>1. /\ TypeOK /\ WindowMatches /\ McuIsNear /\ LineIsNumbered /\ HeadIsRunning /\ RepliesAreInOrder
      /\ MessagesAreInOrder /\ NotificationsAreTrue /\ BufferIsCounted
  BY DEF IInv
<1>2. /\ N \in Nat /\ receive_seq <= N /\ N <= mcu_next
      /\ IF N # receive_seq
           THEN UpdateReceiveSeq(N)
           ELSE UNCHANGED <<receive_seq, sent_queue, last_receive_sent, last_ack_bytes, send_seq>>
      /\ UNCHANGED <<ready, receive_window, to_mcu, mcu_next, mcu_state, executed, submitted,
                     faults, resent>>
  BY WhatAReplyDoes
<1>3. /\ receive_seq' = N
      /\ TypeOK' /\ NotifiedByNextBlock' /\ StampsArePast' /\ RepliesAreInOrder' /\ UnackedHasTimer'
      /\ last_ack_seq' <= N
      /\ answered' \subseteq ToSet(executed) /\ answered \subseteq answered'
      /\ notify_queue' \subseteq notify_queue
  BY ReplyIsTaken
<1>4. /\ executed \in Seq(Message) /\ sent_queue \in Seq(Seq(Message))
      /\ to_mcu \in Seq(BlockType) /\ to_host \in Seq(ReplyType)
      /\ send_seq \in Nat /\ receive_seq \in Nat /\ mcu_next \in Nat
  BY <1>1, Types
<1>5. PICK n \in Nat : n = Len(sent_queue) /\ send_seq = receive_seq + n
  BY <1>1, <1>4 DEF WindowMatches
<1>6. N > send_seq /\ N # receive_seq
  BY <1>2, <1>4, <1>5
<1>7. sent_queue' = <<>> /\ send_seq' = N
  BY <1>2, <1>6 DEF UpdateReceiveSeq
<1>8. ~Agreed
  BY <1>2, <1>4, <1>6 DEF Agreed
<1>9. ~Connected /\ executed = <<>> /\ ~Running
  BY <1>1, <1>8 DEF McuIsNear
<1>10. N = mcu_next
  <2>1. 1 \in DOMAIN to_host
    BY LaterReplies DEF HostReceives
  <2> QED
    BY <1>1, <1>8, <2>1 DEF RepliesAreInOrder
<1>11. ~Running' /\ Agreed'
  BY <1>2, <1>4, <1>7, <1>9, <1>10 DEF Running, Agreed
<1>12. Len(<<>>) = 0 /\ DOMAIN <<>> = {}
  OBVIOUS
<1>13. WindowMatches'
  BY <1>2, <1>3, <1>7, <1>12, Constants DEF WindowMatches
<1>14. McuIsNear' /\ HeadIsRunning'
  BY <1>2, <1>3, <1>4, <1>10, <1>11, Constants DEF McuIsNear, HeadIsRunning
<1>15. LineIsNumbered'
  <2>1. ASSUME NEW i \in DOMAIN to_mcu
        PROVE  RightBlock(to_mcu[i], N, N, mcu_next, sent_queue')
    <3>1. RightBlock(to_mcu[i], receive_seq, send_seq, mcu_next, sent_queue) /\ to_mcu[i] \in BlockType
      BY <1>1, <1>4, LineExpanded
    <3>2. PICK number \in Nat : number = to_mcu[i].number
      BY <3>1, BlockFields
    <3>3. number < N /\ ~(number >= mcu_next)
      BY <1>2, <1>4, <1>6, <1>10, <3>1, <3>2 DEF RightBlock
    <3> QED
      BY <3>1, <3>2, <3>3 DEF RightBlock
  <2> QED
    BY <1>1, <1>2, <1>3, <1>7, <2>1, LineExpanded, LineExpandedNext
<1>16. MessagesAreInOrder'
  BY <1>1, <1>2, <1>7, <1>12 DEF MessagesAreInOrder, Unsent
<1>17. NotificationsAreTrue'
  <2>1. \A x \in notify_queue : x.early
    BY <1>1, <1>9 DEF NotificationsAreTrue
  <2> QED
    BY <1>3, <2>1 DEF NotificationsAreTrue
<1>18. BufferIsCounted'
  <2>1. answered # {} => answered' # {}
    BY <1>3
  <2> QED
    BY <1>1, <1>2, <1>3, <1>9, <1>11, <2>1 DEF BufferIsCounted
<1> QED
  BY <1>3, <1>13, <1>14, <1>15, <1>16, <1>17, <1>18 DEF IInv

LEMMA HostReceivesKeepsIInv == IInv /\ HostReceives => IInv'
<1> SUFFICES ASSUME IInv, HostReceives
             PROVE  IInv'
  OBVIOUS
<1>1. PICK e : e = to_host[1]
  OBVIOUS
<1>2. PICK N : N = e.number
  OBVIOUS
<1> QED
  BY <1>1, <1>2, HostForgetsKeepsIInv, HostConnectsKeepsIInv

-----------------------------------------------------------------------------
(* The theorems.                                                           *)

LEMMA StepKeepsIInv == IInv /\ [Next]_vars => IInv'
<1> SUFFICES ASSUME IInv, [Next]_vars
             PROVE  IInv'
  OBVIOUS
<1>1. CASE Submit
  BY <1>1, SubmitKeepsIInv
<1>2. CASE SetReceiveWindow
  BY <1>2, SetReceiveWindowKeepsIInv
<1>3. CASE SendBlock
  BY <1>3, SendBlockKeepsIInv
<1>4. CASE Retransmit
  BY <1>4, RetransmitKeepsIInv
<1>5. CASE HostReceives
  BY <1>5, HostReceivesKeepsIInv
<1>6. CASE McuAccepts
  BY <1>6, McuAcceptsKeepsIInv
<1>7. CASE McuReplies
  BY <1>7, McuRepliesKeepsIInv
<1>8. CASE McuAcks
  BY <1>8, McuAcksKeepsIInv
<1>9. CASE McuNaks
  BY <1>9, McuNaksKeepsIInv
<1>10. CASE McuReports
  BY <1>10, McuReportsKeepsIInv
<1>11. CASE Fault
  BY <1>11, FaultKeepsIInv
<1>12. CASE UNCHANGED vars
  BY <1>12, StutterKeepsIInv
<1> QED
  BY <1>1, <1>2, <1>3, <1>4, <1>5, <1>6, <1>7, <1>8, <1>9, <1>10, <1>11, <1>12 DEF Next, Mcu, Rest

\* The inductive invariant of the protocol: the numbers, the line, the order of
\* replies and of messages, what waits for a notification, and what is in the
\* buffer of the MCU.
THEOREM IInvHolds == Spec => []IInv
<1>1. Init => IInv
  BY InitEstablishesIInv
<1>2. IInv /\ [Next]_vars => IInv'
  BY StepKeepsIInv
<1> QED
  BY <1>1, <1>2, PTL DEF Spec

LEMMA IInvImpliesAnswersAreInWindow == IInv => AnswersAreInWindow
<1> SUFFICES ASSUME IInv, Connected, NEW i \in DOMAIN to_host
             PROVE  Decode(to_host[i].seq) <= send_seq
  BY DEF AnswersAreInWindow
<1>1. TypeOK /\ McuIsNear /\ RepliesAreInOrder
  BY DEF IInv
<1>2. to_host \in Seq(ReplyType) /\ receive_seq \in Nat /\ mcu_next \in Nat /\ send_seq \in Nat
  BY <1>1, Types
<1>3. PICK number \in Nat : number = to_host[i].number
  BY <1>2, ReplyFields
<1>4. /\ to_host[i].seq = number % SeqValues /\ receive_seq <= number /\ number <= mcu_next
      /\ mcu_next < receive_seq + SeqValues /\ mcu_next <= send_seq
  BY <1>1, <1>3 DEF RepliesAreInOrder, McuIsNear, Agreed
<1>5. Decode(number % SeqValues) = number
  <2>1. number < receive_seq + SeqValues
    BY <1>2, <1>4, Constants
  <2> QED
    BY <1>2, <1>4, <2>1, DecodeIs
<1> QED
  BY <1>2, <1>4, <1>5

\* The window agrees with the blocks that wait, what is not acknowledged has a
\* timer, answers are decoded rightly, round trips are measured of blocks sent
\* once, a notification is at most a block late, and messages are executed once
\* and in order: with any number of losses, garbled blocks and time-outs.
THEOREM WindowIsAlwaysRight == Spec => []WindowIsRight
<1>1. IInv => WindowIsRight
  BY IInvImpliesAnswersAreInWindow
     DEF WindowIsRight, IInv, StampsArePast, RoundTripIsTrue, MessagesAreInOrder, ExecutedInOrder
<1> QED
  BY <1>1, IInvHolds, PTL

\* Only a reply lets callers go.
LEMMA OnlyRepliesNotify ==
    ASSUME [Next]_vars, ~HostReceives
    PROVE  notify_queue \subseteq notify_queue'
<1>1. CASE SendBlock
  BY <1>1 DEF SendBlock
<1>2. CASE Submit \/ SetReceiveWindow \/ McuReports \/ Fault \/ Mcu
  BY <1>2 DEF Submit, SetReceiveWindow, McuReports, Fault, Mcu, McuAccepts, McuReplies, McuAcks,
              McuNaks, hostVars
<1>3. CASE Retransmit
  BY <1>3 DEF Retransmit
<1>4. CASE UNCHANGED vars
  BY <1>4 DEF vars, hostVars
<1> QED
  BY <1>1, <1>2, <1>3, <1>4 DEF Next, Rest

\* Whom it lets go.
LEMMA WhoIsNotified ==
    ASSUME IInv, HostReceives, NEW x \in notify_queue \ notify_queue', ~x.early,
           NEW e, e = to_host[1], NEW N, N = e.number
    PROVE  /\ e \in ReplyType /\ N \in Nat /\ N <= mcu_next
           /\ x.block \in Nat /\ x.block < N
           /\ e.data => x.block + 1 < N
<1>1. TypeOK /\ NotificationsAreTrue
  BY DEF IInv
<1>2. /\ e \in ReplyType /\ N \in Nat /\ receive_seq <= N /\ N <= mcu_next
      /\ notify_queue' = {y \in notify_queue : (N - (IF e.data THEN 2 ELSE 1)) \in 0 .. y.block - 1}
  BY WhatAReplyDoes
<1>3. receive_seq \in Nat /\ receive_seq >= 2
  BY <1>1, Types DEF NotificationsAreTrue, Connected
<1>4. x.block \in Nat
  BY <1>1 DEF TypeOK
<1>5. (N - (IF e.data THEN 2 ELSE 1)) \notin 0 .. x.block - 1
  BY <1>2
<1> QED
  BY <1>2, <1>3, <1>4, <1>5

LEMMA StepNotifiesExecuted == IInv /\ [Next]_vars => Notified \subseteq ToSet(executed)
<1> SUFFICES ASSUME IInv, [Next]_vars, NEW x \in notify_queue \ notify_queue', ~x.early
             PROVE  x.message \in ToSet(executed)
  BY DEF Notified
<1>1. HostReceives
  BY OnlyRepliesNotify
<1>2. PICK e : e = to_host[1]
  OBVIOUS
<1>3. PICK N : N = e.number
  OBVIOUS
<1>4. N \in Nat /\ N <= mcu_next /\ x.block \in Nat /\ x.block < N
  BY <1>1, <1>2, <1>3, WhoIsNotified
<1>5. mcu_next \in Nat
  BY Types DEF IInv
<1> QED
  BY <1>4, <1>5 DEF IInv, NotificationsAreTrue

LEMMA StepDeliversResponseFirst ==
    IInv /\ [Next]_vars => \A m \in Notified : \A i \in DOMAIN to_host : to_host[i].answers # m
<1> SUFFICES ASSUME IInv, [Next]_vars, NEW x \in notify_queue \ notify_queue', ~x.early,
                    NEW i \in DOMAIN to_host, to_host[i].answers = x.message
             PROVE  FALSE
  BY DEF Notified
<1>1. HostReceives
  BY OnlyRepliesNotify
<1>2. PICK e : e = to_host[1]
  OBVIOUS
<1>3. PICK N : N = e.number
  OBVIOUS
<1>4. N \in Nat /\ x.block \in Nat /\ x.block < N /\ (e.data => x.block + 1 < N)
  BY <1>1, <1>2, <1>3, WhoIsNotified
<1>5. TypeOK /\ RepliesAreInOrder /\ NotificationsAreTrue
  BY DEF IInv
<1>6. to_host \in Seq(ReplyType)
  BY <1>5, Types
<1>7. PICK number \in Nat : number = to_host[i].number
  BY <1>6, ReplyFields
<1>8. x.block = number - 1 /\ x.message # 0
  <2>1. x.block = number - 1
    BY <1>5, <1>7 DEF NotificationsAreTrue
  <2>2. x.message # 0
    BY <1>5 DEF TypeOK
  <2> QED
    BY <2>1, <2>2
<1>9. 1 \in DOMAIN to_host /\ i \in Nat /\ i >= 1
  BY <1>6
<1>10. CASE i = 1
  <2>1. number = N /\ e.answers # 0 /\ e.data
    BY <1>2, <1>3, <1>5, <1>7, <1>8, <1>10 DEF RepliesAreInOrder
  <2> QED
    BY <1>4, <1>8, <2>1
<1>11. CASE i # 1
  <2>1. Before(to_host[1], to_host[i])
    BY <1>5, <1>9, <1>11, RepliesExpanded DEF RightReplies
  <2>2. N <= number /\ (e.data \/ N < number)
    BY <1>2, <1>3, <1>7, <1>8, <2>1 DEF Before
  <2> QED
    BY <1>4, <1>8, <2>2
<1> QED
  BY <1>10, <1>11

\* As long as nothing is sent twice, the blocks on the line are few.
LEMMA LineIsShort ==
    ASSUME IInv, resent = {}, executed # <<>>
    PROVE  Len(to_mcu) <= send_seq - mcu_next + (IF Running THEN 1 ELSE 0)
<1>1. TypeOK /\ McuIsNear /\ LineIsNumbered /\ BufferIsCounted
  BY DEF IInv
<1>2. to_mcu \in Seq(BlockType) /\ mcu_next \in Nat /\ send_seq \in Nat
  BY <1>1, Types
<1>3. PICK L \in Nat : L = Len(to_mcu) /\ DOMAIN to_mcu = 1 .. L
  BY <1>2
<1>4. PICK run \in {0, 1} : run = IF Running THEN 1 ELSE 0
  OBVIOUS
<1>5. mcu_next <= send_seq
  BY <1>1 DEF McuIsNear, Agreed
<1>6. CASE L = 0
  BY <1>2, <1>3, <1>4, <1>5, <1>6
<1>7. CASE L # 0
  <2>1. 1 \in 1 .. L /\ L \in 1 .. L
    BY <1>7
  <2>2. PICK a \in Nat, b \in Nat : a = to_mcu[1].number /\ b = to_mcu[L].number
    BY <1>2, <1>3, <2>1, BlockFields
  <2>3. a + run >= mcu_next /\ b < send_seq
    BY <1>1, <1>3, <1>4, <2>1, <2>2 DEF BufferIsCounted, LineIsNumbered
  <2>4. a + (L - 1) <= b
    <3>1. CASE L = 1
      BY <2>2, <3>1
    <3>2. CASE L # 1
      <4>1. 1 < L
        BY <1>7, <3>2
      <4> QED
        BY <1>1, <1>3, <2>1, <2>2, <4>1 DEF BufferIsCounted
    <3> QED
      BY <3>1, <3>2
  <2>5. L <= send_seq - mcu_next + run
    BY <1>2, <2>2, <2>3, <2>4
  <2> QED
    BY <1>3, <1>4, <2>5
<1> QED
  BY <1>6, <1>7

LEMMA SendFits ==
    IInv /\ SendBlock /\ receive_window # 0 /\ resent = {} => Len(to_mcu') <= RxWindow
<1> SUFFICES ASSUME IInv, SendBlock, receive_window # 0, resent = {}
             PROVE  Len(to_mcu') <= RxWindow
  OBVIOUS
<1>1. TypeOK /\ WindowMatches /\ McuIsNear /\ HeadIsRunning /\ BufferIsCounted
  BY DEF IInv
<1>2. /\ to_mcu \in Seq(BlockType) /\ mcu_next \in Nat /\ send_seq \in Nat /\ receive_seq \in Nat
      /\ last_ack_seq \in Nat /\ receive_window = RxWindow /\ RxWindow \in Nat \ {0, 1}
      /\ last_ack_bytes \in {0, 1} /\ sent_queue \in Seq(Seq(Message))
  BY <1>1, Types, Constants DEF TypeOK
<1>3. PICK L \in Nat : L = Len(to_mcu)
  BY <1>2
<1>4. PICK n \in Nat : n = Len(sent_queue) /\ send_seq = receive_seq + n
  BY <1>1, <1>2 DEF WindowMatches
<1>5. PICK run \in {0, 1} : run = IF Running THEN 1 ELSE 0
  OBVIOUS
<1>6. PICK more \in {0, 1} : more = IF last_ack_seq < receive_seq THEN last_ack_bytes ELSE 0
  BY <1>2
<1>7. executed # <<>>
  <2>1. ToSet(<<>>) = {}
    <3>1. <<>> \in Seq(Message)
      OBVIOUS
    <3> QED
      BY <3>1, ToSetFacts
  <2> QED
    BY <1>1, <2>1 DEF BufferIsCounted
<1>8. L <= send_seq - mcu_next + run
  BY <1>3, <1>5, <1>7, LineIsShort
<1>9. receive_seq <= mcu_next /\ mcu_next <= send_seq
  BY <1>1, <1>7 DEF McuIsNear, Agreed
<1>10. Len(to_mcu') = L + 1
  <2>1. \E block : to_mcu' = Append(to_mcu, block)
    BY DEF SendBlock
  <2> QED
    BY <1>2, <1>3, <2>1
<1>11. n # 0 => n + 1 + more <= RxWindow
  BY <1>2, <1>4, <1>6 DEF SendBlock, MaySend
<1>12. run = 1 /\ receive_seq = mcu_next => more = 1
  BY <1>1, <1>5, <1>6 DEF BufferIsCounted, HeadIsRunning
<1>13. L + 1 <= RxWindow
  BY <1>2, <1>4, <1>8, <1>9, <1>11, <1>12
<1> QED
  BY <1>10, <1>13

LEMMA StepLosesNothing ==
    IInv /\ [Next]_vars => (Connected => Undelivered \subseteq Undelivered' \cup ToSet(executed'))
<1> SUFFICES ASSUME IInv, [Next]_vars, Connected
             PROVE  Undelivered \subseteq Undelivered' \cup ToSet(executed')
  OBVIOUS
<1>1. TypeOK /\ WindowMatches /\ McuIsNear /\ LineIsNumbered
  BY DEF IInv
<1>2. /\ ready \in Seq(Message) /\ executed \in Seq(Message) /\ sent_queue \in Seq(Seq(Message))
      /\ mcu_next \in Nat /\ send_seq \in Nat /\ receive_seq \in Nat /\ submitted \in Nat
  BY <1>1, Types
<1>3. PICK n \in Nat : n = Len(sent_queue) /\ DOMAIN sent_queue = 1 .. n /\ send_seq = receive_seq + n
  BY <1>1, <1>2 DEF WindowMatches
<1>4. mcu_next <= send_seq
  BY <1>1 DEF McuIsNear, Agreed
<1>5. CASE UNCHANGED <<sent_queue, receive_seq, mcu_next>> /\ ToSet(ready) \subseteq ToSet(ready')
  BY <1>5 DEF Undelivered, Sent
<1>6. CASE Submit
  <2>1. /\ ready' = Append(ready, submitted + 1)
        /\ UNCHANGED <<sent_queue, receive_seq, mcu_next, executed>>
    BY <1>6 DEF Submit, hostVars, mcuVars
  <2>2. submitted + 1 \in Message
    BY <1>2, <1>6, Constants DEF Submit, Message
  <2>3. ToSet(ready) \subseteq ToSet(ready')
    BY <1>2, <2>1, <2>2, AppendFacts
  <2> QED
    BY <1>5, <2>1, <2>3
<1>7. CASE SetReceiveWindow \/ McuReports \/ Fault \/ McuReplies \/ McuAcks \/ McuNaks \/ Retransmit
           \/ UNCHANGED vars
  <2>1. UNCHANGED <<ready, sent_queue, receive_seq, mcu_next>>
    BY <1>7 DEF SetReceiveWindow, McuReports, Fault, McuReplies, McuAcks, McuNaks, Retransmit,
                vars, hostVars, mcuVars
  <2> QED
    BY <1>5, <2>1
<1>8. CASE SendBlock
  <2>1. PICK size : size = IF Len(ready) < BlockSize THEN Len(ready) ELSE BlockSize
    OBVIOUS
  <2>2. PICK messages : messages = SubSeq(ready, 1, size)
    OBVIOUS
  <2>3. /\ ready' = SubSeq(ready, size + 1, Len(ready))
        /\ sent_queue' = Append(sent_queue, messages)
        /\ UNCHANGED <<receive_seq, mcu_next, executed>>
    BY <1>8, <2>1, <2>2 DEF SendBlock, mcuVars
  <2>4. size \in 0 .. Len(ready) /\ messages \in Seq(Message)
    <3>1. size \in 0 .. Len(ready)
      BY <1>2, <2>1, Constants
    <3> QED
      BY <1>2, <2>2, <3>1, FirstFacts
  <2>5. ToSet(ready) = ToSet(messages) \cup ToSet(ready')
    <3>1. ready \in Seq(Nat) /\ Increasing(ready)
      BY <1>2, Constants, SeqMonotonic DEF Message, IInv, MessagesAreInOrder
    <3> QED
      BY <2>2, <2>3, <2>4, <3>1, IncreasingRest
  <2>6. /\ DOMAIN sent_queue' = 1 .. n + 1 /\ sent_queue'[n + 1] = messages
        /\ \A k \in 1 .. n : sent_queue'[k] = sent_queue[k]
    BY <1>2, <1>3, <2>3, <2>4, AppendFacts
  <2>7. ToSet(messages) \subseteq Undelivered'
    <3>1. receive_seq' + (n + 1) > mcu_next' /\ n + 1 \in DOMAIN sent_queue'
      BY <1>2, <1>3, <1>4, <2>3, <2>6
    <3> QED
      BY <2>6, <3>1 DEF Undelivered, Sent
  <2>8. ASSUME NEW k \in DOMAIN sent_queue, receive_seq + k > mcu_next
        PROVE  Sent(k) \subseteq Undelivered'
    <3>1. k \in DOMAIN sent_queue' /\ sent_queue'[k] = sent_queue[k]
      BY <1>3, <2>6
    <3> QED
      BY <2>3, <2>8, <3>1 DEF Undelivered, Sent
  <2> QED
    BY <2>5, <2>7, <2>8 DEF Undelivered
<1>9. CASE McuAccepts
  <2>1. /\ UNCHANGED <<ready, receive_seq, sent_queue>>
        /\ mcu_next' = mcu_next + 1 /\ executed' = executed \o Head(to_mcu).messages
    BY <1>9 DEF McuAccepts, hostVars
  <2>2. ASSUME NEW k \in DOMAIN sent_queue, receive_seq + k > mcu_next
        PROVE  Sent(k) \subseteq Undelivered' \cup ToSet(executed')
    <3>1. CASE receive_seq + k = mcu_next + 1
      <4>1. Head(to_mcu).messages = sent_queue[1 + mcu_next - receive_seq]
        BY <1>9, AcceptedBlock
      <4>2. 1 + mcu_next - receive_seq = k /\ sent_queue[k] \in Seq(Message)
        BY <1>2, <1>3, <3>1
      <4> QED
        BY <1>2, <2>1, <4>1, <4>2, ConcatFacts DEF Sent
    <3>2. CASE receive_seq + k # mcu_next + 1
      <4>1. receive_seq' + k > mcu_next' /\ sent_queue'[k] = sent_queue[k] /\ k \in DOMAIN sent_queue'
        <5>1. PICK i \in 1 .. n : i = k
          BY <1>3
        <5>2. receive_seq + i > mcu_next + 1
          <6>1. receive_seq + i > mcu_next /\ receive_seq + i # mcu_next + 1
            BY <2>2, <3>2, <5>1
          <6>2. receive_seq \in Nat /\ mcu_next \in Nat /\ i \in Nat
            BY <1>2
          <6> QED
            BY <6>1, <6>2
        <5> QED
          BY <2>1, <5>1, <5>2
      <4> QED
        BY <4>1 DEF Undelivered, Sent
    <3> QED
      BY <3>1, <3>2
  <2> QED
    BY <2>1, <2>2 DEF Undelivered
<1>10. CASE HostReceives
  <2>1. PICK e : e = to_host[1]
    OBVIOUS
  <2>2. PICK N : N = e.number
    OBVIOUS
  <2>3. /\ N \in Nat /\ receive_seq <= N /\ N <= mcu_next
        /\ IF N # receive_seq
             THEN UpdateReceiveSeq(N)
             ELSE UNCHANGED <<receive_seq, sent_queue, last_receive_sent, last_ack_bytes, send_seq>>
        /\ UNCHANGED <<ready, mcu_next>>
    BY <1>10, <2>1, <2>2, WhatAReplyDoes
  <2>4. CASE N = receive_seq
    BY <1>5, <2>3, <2>4
  <2>5. CASE N # receive_seq
    <3>1. PICK d \in 0 .. n : d = N - receive_seq /\ 1 + N - receive_seq = d + 1
      BY <1>2, <1>3, <1>4, <2>3
    <3>2. sent_queue' = SubSeq(sent_queue, d + 1, n) /\ receive_seq' = N
      BY <1>3, <2>3, <2>5, <3>1 DEF UpdateReceiveSeq
    <3>3. /\ sent_queue' \in Seq(Seq(Message)) /\ Len(sent_queue') = n - d
          /\ \A k \in 1 .. n - d : sent_queue'[k] = sent_queue[d + k]
      BY <1>2, <1>3, <3>2, RestFacts
    <3>4. DOMAIN sent_queue' = 1 .. n - d
      BY <3>3
    <3>5. ASSUME NEW k \in 1 .. n, receive_seq + k > mcu_next
          PROVE  Sent(k) \subseteq Undelivered'
      <4>1. k - d \in 1 .. n - d /\ d + (k - d) = k /\ N + (k - d) > mcu_next
        BY <1>2, <2>3, <3>1, <3>5
      <4>2. sent_queue'[k - d] = sent_queue[k]
        BY <3>3, <4>1
      <4>3. k - d \in {l \in DOMAIN sent_queue' : receive_seq' + l > mcu_next'}
        BY <2>3, <3>2, <3>4, <4>1
      <4> QED
        BY <4>2, <4>3 DEF Undelivered, Sent
    <3> QED
      BY <1>3, <2>3, <3>5 DEF Undelivered
  <2> QED
    BY <2>4, <2>5
<1> QED
  BY <1>6, <1>7, <1>8, <1>9, <1>10 DEF Next, Mcu, Rest

\* What the transport promises its callers, at every step: who is notified can
\* rely on the execution of the message, and has its response first; a block finds
\* room in the receive buffer as long as nothing is sent twice; and once the ends
\* agree no message is dropped.
THEOREM PromisesAreAlwaysKept == Spec => PromisesAreKept
<1>1. IInv /\ [Next]_vars =>
        /\ [Notified \subseteq ToSet(executed)]_vars
        /\ [\A m \in Notified : \A i \in DOMAIN to_host : to_host[i].answers # m]_vars
        /\ [SendBlock /\ receive_window # 0 /\ resent = {} => Len(to_mcu') <= RxWindow]_vars
        /\ [Connected => Undelivered \subseteq Undelivered' \cup ToSet(executed')]_vars
  BY StepNotifiesExecuted, StepDeliversResponseFirst, SendFits, StepLosesNothing
<1> QED
  BY <1>1, IInvHolds, PTL
     DEF Spec, PromisesAreKept, NotifiedIsExecuted, ResponseBeforeNotify, SentBlockFits, NothingVanishes

=============================================================================
