--------------------------- MODULE SocketsProofs ---------------------------
(***************************************************************************)
(* What an asyncio socket has taken goes out once and in order, for every  *)
(* length of its queue: NothingOvertakes of Sockets.                       *)
(***************************************************************************)
EXTENDS Sockets, TLAPS

\* Numbers are taken in order from a to b, with q between them.
InOrder(a, q, b) ==
  /\ q = <<>> => b = After(a)
  /\ q # <<>> => /\ q[1] = After(a)
                 /\ b = After(q[Len(q)])
                 /\ \A j \in 1 .. Len(q) - 1 : q[j + 1] = After(q[j])

\* Only asyncio has a queue and a transport, and what is sent later is behind it.
QInv ==
  /\ TypeOK
  /\ InOrder(lastSent, queue, next)
  /\ transport => queue = <<>>
  /\ opening \/ transport \/ queue # <<>> => library = "asyncio"

LEMMA AfterType == ASSUME NEW k \in 0 .. Cycle - 1 PROVE After(k) \in 0 .. Cycle - 1
  BY SocketsAssumption DEF After

LEMMA Bounds == 0 \in 0 .. Cycle - 1 /\ 1 \in 0 .. Cycle - 1 /\ After(0) = 1
  BY SocketsAssumption DEF After

LEMMA EmptyQueue == <<>> \in Seq(0 .. Cycle - 1) /\ Len(<<>>) <= MaxQueue
<1>1. <<>> \in Seq(0 .. Cycle - 1) /\ Len(<<>>) = 0
  OBVIOUS
<1> QED BY <1>1, SocketsAssumption

LEMMA LastIn == ASSUME NEW S, NEW q \in Seq(S), q # <<>> PROVE q[Len(q)] \in S
<1>1. Len(q) \in Nat /\ Len(q) # 0
  OBVIOUS
<1>2. Len(q) \in 1 .. Len(q)
  BY <1>1
<1>3. q \in [1 .. Len(q) -> S]
  OBVIOUS
<1> QED BY <1>2, <1>3

\* A sequence between two numbers, item by item.
LEMMA TakenAt ==
  ASSUME NEW a \in 0 .. Cycle - 1, NEW b \in 0 .. Cycle - 1, NEW q \in Seq(0 .. Cycle - 1)
  PROVE  /\ (<<a>> \o q \o <<b>>)[1] = a
         /\ \A j \in 1 .. Len(q) : (<<a>> \o q \o <<b>>)[j + 1] = q[j]
         /\ (<<a>> \o q \o <<b>>)[Len(q) + 2] = b
  OBVIOUS

\* InOrder is what NothingOvertakes says of the whole line.
LEMMA InOrderOvertakes ==
  ASSUME TypeOK, InOrder(lastSent, queue, next), transport => queue = <<>>
  PROVE  NothingOvertakes
<1> DEFINE taken == <<lastSent>> \o queue \o <<next>>
<1> SUFFICES ASSUME NEW j \in 1 .. Len(queue) + 1 PROVE taken[j + 1] = After(taken[j])
  BY DEF NothingOvertakes
<1>1. /\ lastSent \in 0 .. Cycle - 1 /\ next \in 0 .. Cycle - 1 /\ queue \in Seq(0 .. Cycle - 1)
      /\ Len(queue) \in Nat /\ (queue = <<>> <=> Len(queue) = 0)
  BY DEF TypeOK
<1>2. /\ taken[1] = lastSent
      /\ \A i \in 1 .. Len(queue) : taken[i + 1] = queue[i]
      /\ taken[Len(queue) + 2] = next
  BY <1>1, TakenAt
<1> HIDE DEF taken
<1>3. CASE Len(queue) = 0
  BY <1>1, <1>2, <1>3 DEF InOrder
<1>4. CASE Len(queue) # 0 /\ j = 1
  BY <1>1, <1>2, <1>4 DEF InOrder
<1>5. CASE j \in 2 .. Len(queue)
  <2>1. j - 1 \in 1 .. Len(queue) - 1 /\ (j - 1) + 1 = j
    BY <1>1, <1>5
  <2>2. taken[j + 1] = queue[j] /\ taken[(j - 1) + 1] = queue[j - 1]
    BY <1>1, <1>2, <1>5, <2>1
  <2>3. queue[(j - 1) + 1] = After(queue[j - 1])
    BY <1>1, <2>1 DEF InOrder
  <2> QED BY <2>1, <2>2, <2>3
<1>6. CASE Len(queue) # 0 /\ j = Len(queue) + 1
  BY <1>1, <1>2, <1>6 DEF InOrder
<1> QED BY <1>1, <1>3, <1>4, <1>5, <1>6

\* One more message waits behind the others.
LEMMA AppendInOrder ==
  ASSUME NEW a \in 0 .. Cycle - 1, NEW b \in 0 .. Cycle - 1, NEW q \in Seq(0 .. Cycle - 1),
         InOrder(a, q, b)
  PROVE  InOrder(a, Append(q, b), After(b))
<1>1. /\ Len(q) \in Nat /\ Len(Append(q, b)) = Len(q) + 1 /\ Append(q, b) # <<>>
      /\ Append(q, b)[Len(q) + 1] = b
      /\ \A j \in 1 .. Len(q) : Append(q, b)[j] = q[j]
      /\ (q = <<>> <=> Len(q) = 0)
  OBVIOUS
<1>2. Append(q, b)[1] = After(a)
  BY <1>1 DEF InOrder
<1>3. ASSUME NEW j \in 1 .. Len(q) PROVE Append(q, b)[j + 1] = After(Append(q, b)[j])
  <2>1. CASE j = Len(q)
    BY <1>1, <2>1 DEF InOrder
  <2>2. CASE j \in 1 .. Len(q) - 1
    BY <1>1, <2>2 DEF InOrder
  <2> QED BY <1>1, <2>1, <2>2
<1> QED BY <1>1, <1>2, <1>3 DEF InOrder

-----------------------------------------------------------------------------

LEMMA InitQ == Init => QInv
<1> SUFFICES ASSUME Init PROVE QInv
  OBVIOUS
<1>1. TypeOK
  <2>1. listener \in {"bound", "opening", "waiting", "deaf"}
    BY DEF Init, Listening, Rebind
  <2> QED BY <2>1, Bounds, EmptyQueue DEF Init, TypeOK
<1> QED BY <1>1, Bounds DEF Init, QInv, InOrder

\* What a step does to the numbers, the queue and the rest of the types.
LEMMA BeatQ == QInv /\ Beat => QInv'
<1> SUFFICES ASSUME QInv, Beat PROVE QInv'
  OBVIOUS
<1>0. After(next) \in 0 .. Cycle - 1
  BY AfterType DEF QInv, TypeOK
<1>1. CASE BeatAsio
  <2>1. queue = <<>> /\ ~transport /\ ~opening
    BY <1>1 DEF BeatAsio, QInv
  <2>2. TypeOK'
    BY <1>0, <1>1 DEF BeatAsio, Goes, QInv, TypeOK
  <2>3. InOrder(lastSent', queue', next')
    BY <1>1, <2>1 DEF BeatAsio, Goes, QInv, InOrder
  <2> QED BY <1>1, <2>1, <2>2, <2>3 DEF BeatAsio, QInv
<1>2. CASE BeatQt
  <2>1. queue = <<>> /\ ~transport /\ ~opening
    BY <1>2 DEF BeatQt, QInv
  <2>2. TypeOK'
    BY <1>0, <1>2 DEF BeatQt, Goes, Restarted, QInv, TypeOK
  <2>3. InOrder(lastSent', queue', next')
    BY <1>2, <2>1 DEF BeatQt, Goes, QInv, InOrder
  <2> QED BY <1>2, <2>1, <2>2, <2>3 DEF BeatQt, QInv
<1>3. CASE BeatAsyncio
  <2>1. CASE transport
    <3>1. TypeOK'
      BY <1>0, <1>3, <2>1 DEF BeatAsyncio, Goes, Restarted, QInv, TypeOK
    <3>2. InOrder(lastSent', queue', next')
      BY <1>3, <2>1 DEF BeatAsyncio, Goes, QInv, InOrder
    <3> QED BY <1>3, <2>1, <3>1, <3>2 DEF BeatAsyncio, QInv
  <2>2. CASE ~transport
    <3>1. queue' = Append(queue, next) /\ Len(queue) < MaxQueue /\ lastSent' = lastSent
          /\ next' = After(next)
      BY <1>3, <2>2 DEF BeatAsyncio
    <3>2. queue' \in Seq(0 .. Cycle - 1) /\ Len(queue') <= MaxQueue
      BY <3>1, SocketsAssumption DEF QInv, TypeOK
    <3>3. TypeOK'
      BY <1>0, <1>3, <3>1, <3>2 DEF BeatAsyncio, Restarted, QInv, TypeOK
    <3>4. InOrder(lastSent', queue', next')
      BY <3>1, AppendInOrder DEF QInv, TypeOK
    <3> QED BY <1>3, <2>2, <3>3, <3>4 DEF BeatAsyncio, QInv
  <2> QED BY <2>1, <2>2
<1> QED BY <1>1, <1>2, <1>3 DEF Beat

LEMMA LoopQ == QInv /\ Loop => QInv'
<1> SUFFICES ASSUME QInv, Loop PROVE QInv'
  OBVIOUS
<1>1. CASE TryAgain
  BY <1>1 DEF TryAgain, Listening, Rebind, sender, QInv, TypeOK
<1>2. CASE ListenerOpened
  BY <1>2 DEF ListenerOpened, sender, QInv, TypeOK
<1>3. CASE SenderOpened
  <2>1. CASE up /\ queue # <<>>
    <3>1. queue' = <<>> /\ lastSent' = queue[Len(queue)] /\ next' = next
      BY <1>3, <2>1 DEF SenderOpened, Flushed
    <3>2. lastSent' \in 0 .. Cycle - 1
      BY <2>1, <3>1, LastIn DEF QInv, TypeOK
    <3>3. TypeOK'
      BY <1>3, <2>1, <3>1, <3>2, EmptyQueue DEF SenderOpened, QInv, TypeOK
    <3>4. InOrder(lastSent', queue', next')
      BY <2>1, <3>1 DEF QInv, InOrder
    <3> QED BY <1>3, <3>1, <3>3, <3>4 DEF SenderOpened, QInv
  <2>2. CASE ~(up /\ queue # <<>>)
    BY <1>3, <2>2 DEF SenderOpened, Flushed, QInv, TypeOK
  <2> QED BY <2>1, <2>2
<1> QED BY <1>1, <1>2, <1>3 DEF Loop

LEMMA OthersQ == QInv /\ Others => QInv'
<1> SUFFICES ASSUME QInv, Others PROVE QInv'
  OBVIOUS
<1>1. CASE ReceiveError
  BY <1>1 DEF ReceiveError, sender, QInv, TypeOK
<1>2. CASE ConnectionLost
  BY <1>2 DEF ConnectionLost, QInv, TypeOK
<1>3. CASE ListenerLost
  BY <1>3 DEF ListenerLost, sender, QInv, TypeOK
<1>4. CASE SetAddress
  <2>1. queue = <<>> /\ queue' = <<>>
    BY <1>4 DEF SetAddress, FreshSender, QInv
  <2> QED BY <1>4, <2>1 DEF SetAddress, FreshSender, Listening, Rebind, QInv, TypeOK
<1>5. CASE Interface
  BY <1>5 DEF Interface, sender, QInv, TypeOK
<1> QED BY <1>1, <1>2, <1>3, <1>4, <1>5 DEF Others

LEMMA NextQ == QInv /\ [Next]_vars => QInv'
<1>1. CASE UNCHANGED vars
  BY <1>1 DEF vars, sender, QInv, TypeOK
<1> QED BY <1>1, BeatQ, LoopQ, OthersQ DEF Next

LEMMA QAlways == Spec => []QInv
  BY InitQ, NextQ, PTL DEF Spec

\* The variables of the sockets keep their types, and no more than MaxQueue messages
\* wait, on each of the three libraries.
THEOREM TypeCorrect == Spec => []TypeOK
<1>1. QInv => TypeOK
  BY DEF QInv
<1> QED BY QAlways, <1>1, PTL

\* What an asyncio socket has taken goes out once and in order (cyphalypp.cpp:113-152).
THEOREM InOrderAlways == Spec => []NothingOvertakes
<1>1. QInv => NothingOvertakes
  BY InOrderOvertakes DEF QInv
<1> QED BY QAlways, <1>1, PTL
=============================================================================
