------------------------ MODULE NodeRegistersProofs ------------------------
(***************************************************************************)
(* The rows of NodeRegisters follow the remote list, and what is under way *)
(* is the front of the queue, for every set of names and values and any    *)
(* number of edits and timeouts.                                           *)
(***************************************************************************)
EXTENDS NodeRegisters, FiniteSetTheorems, TLAPS

Rows == [name : Names, value : Values \union {Unread}]

\* While an answer is awaited, it is the one for the row that comes next.
AskedIsNext == walk = "asking" => asked = Len(rows)

NInv == TypeOK /\ IsFiniteSet(air) /\ AskedIsNext /\ RowsFollowList /\ OneAccessUnderWay

\* The part of it that the walk is about, and the part about reads and edits.
WalkTyped ==
  /\ list \in Seq(Names) /\ rows \in Seq(Rows)
  /\ walk \in {"asking", "waiting", "ended", "dead"} /\ asked \in 0 .. Len(list)

WInv == WalkTyped /\ AskedIsNext /\ RowsFollowList

QueueTyped ==
  /\ queue \in Seq(Accesses)
  /\ \A i \in DOMAIN queue : queue[i].row \in DOMAIN rows

AccessTyped ==
  /\ accessInProgress \in BOOLEAN /\ unsent \in BOOLEAN
  /\ call = NoCall \/ call \in air
  /\ air \subseteq [id : Nat \ {0}, rq : Accesses]
  /\ IsFiniteSet(air)

AInv == AccessTyped /\ OneAccessUnderWay

RemoteTyped ==
  /\ remote \in [Names -> Values]
  /\ answers \subseteq [id : Nat \ {0}, value : Values]
  /\ outlived \in BOOLEAN

LEMMA Parts == NInv <=> WInv /\ QueueTyped /\ AInv /\ RemoteTyped
BY DEF NInv, WInv, WalkTyped, QueueTyped, AInv, AccessTyped, RemoteTyped, TypeOK, Rows

LEMMA PartsNext == WInv' /\ QueueTyped' /\ AInv' /\ RemoteTyped' => NInv'
BY DEF NInv, WInv, WalkTyped, QueueTyped, AInv, AccessTyped, RemoteTyped, TypeOK, Rows

-----------------------------------------------------------------------------
(* restartAccesses *)

LEMMA RequestIsACall == \A i, r : [id |-> i, rq |-> r] # NoCall /\ [id |-> i, rq |-> r].rq = r
<1> SUFFICES ASSUME NEW i, NEW r PROVE [id |-> i, rq |-> r] # NoCall
  OBVIOUS
<1>1. "rq" \in DOMAIN [id |-> i, rq |-> r]
  OBVIOUS
<1>2. "rq" \notin DOMAIN NoCall
  BY DEF NoCall
<1> QED
  BY <1>1, <1>2

\* It leaves the front of the queue under way, nothing, or a call that was not sent.
LEMMA RestartKeeps ==
  ASSUME AccessTyped, NEW q \in Seq(Accesses), queue' = q, RestartAccesses(FALSE, q)
  PROVE  AInv'
<1>1. CASE q = <<>>
  BY <1>1 DEF RestartAccesses, AInv, AccessTyped, OneAccessUnderWay
<1>2. CASE q # <<>>
  <2>1. PICK r : r = Head(q)
    OBVIOUS
  <2>2. r \in Accesses
    BY <1>2, <2>1
  <2>3. PICK x : x = [id |-> Cardinality(air) + 1, rq |-> r]
    OBVIOUS
  <2>4. x \in [id : Nat \ {0}, rq : Accesses] /\ x # NoCall /\ x.rq = r
    <3>1. Cardinality(air) \in Nat
      BY FS_CardinalityType DEF AccessTyped
    <3> QED
      BY <2>2, <2>3, <3>1, RequestIsACall
  <2>5. accessInProgress' = TRUE
    BY <1>2 DEF RestartAccesses
  <2>6. CASE call' = x /\ air' = air \union {x} /\ unsent' = unsent
    <3>1. IsFiniteSet(air')
      BY <2>6, FS_AddElement DEF AccessTyped
    <3> QED
      BY <1>2, <2>1, <2>4, <2>5, <2>6, <3>1 DEF AInv, AccessTyped, OneAccessUnderWay
  <2>7. CASE call' = NoCall /\ air' = air /\ unsent' = TRUE
    BY <2>5, <2>7 DEF AInv, AccessTyped, OneAccessUnderWay
  <2> QED
    BY <1>2, <2>1, <2>3, <2>6, <2>7 DEF RestartAccesses
<1> QED
  BY <1>1, <1>2

\* A longer queue has the same front.
LEMMA FrontStays ==
  ASSUME NEW q \in Seq(Accesses), NEW a \in Accesses
  PROVE  /\ Append(q, a) \in Seq(Accesses) /\ Append(q, a) # <<>>
         /\ q # <<>> => Head(Append(q, a)) = Head(q)
         /\ DOMAIN Append(q, a) = DOMAIN q \union {Len(q) + 1}
         /\ \A i \in DOMAIN q : Append(q, a)[i] = q[i]
         /\ Append(q, a)[Len(q) + 1] = a
OBVIOUS

LEMMA QueueGrows ==
  ASSUME AInv, QueueTyped, NEW a \in Accesses, queue' = Append(queue, a),
         UNCHANGED <<accessInProgress, call, air>>, unsent' \in {unsent, TRUE}
  PROVE  AInv'
<1>1. queue # <<>> => queue' # <<>> /\ Head(queue') = Head(queue)
  BY FrontStays DEF QueueTyped
<1> QED
  BY <1>1 DEF AInv, AccessTyped, OneAccessUnderWay

-----------------------------------------------------------------------------
(* The walk *)

LEMMA ListAnsweredKeeps ==
  ASSUME NInv, ListAnswered
  PROVE  NInv'
<1>1. WInv /\ QueueTyped /\ AInv /\ RemoteTyped
  BY Parts
<1>2. /\ list \in Seq(Names) /\ rows \in Seq(Rows) /\ asked \in Nat
      /\ asked = Len(rows) /\ asked < Len(list) /\ Len(list) \in Nat
      /\ queue \in Seq(Accesses)
  BY <1>1 DEF WInv, WalkTyped, AskedIsNext, QueueTyped, ListAnswered
<1>3. PICK n : n = list[Len(rows) + 1]
  OBVIOUS
<1>4. n \in Names
  BY <1>2, <1>3
<1>5. PICK row : row = [name |-> n, value |-> Unread]
  OBVIOUS
<1>6. row \in Rows /\ row.name = n
  BY <1>4, <1>5 DEF Rows
<1>7. /\ rows' = Append(rows, row) /\ list' = list
      /\ rows' \in Seq(Rows) /\ Len(rows') = Len(rows) + 1
      /\ DOMAIN rows' = DOMAIN rows \union {Len(rows) + 1}
      /\ \A i \in DOMAIN rows : rows'[i] = rows[i]
      /\ rows'[Len(rows) + 1] = row
  BY <1>2, <1>3, <1>5, <1>6 DEF ListAnswered, node
<1>8. PICK a : a = Access(Len(rows) + 1, n, Unread)
  OBVIOUS
<1>9. a \in Accesses /\ a.row = Len(rows) + 1
  BY <1>2, <1>4, <1>8 DEF Access, Accesses
<1>10. queue' = Append(queue, a)
  BY <1>2, <1>3, <1>8 DEF ListAnswered
<1>11. WInv'
  <2>1. RowsFollowList'
    BY <1>1, <1>2, <1>3, <1>6, <1>7 DEF WInv, RowsFollowList
  <2>2. AskedIsNext' /\ walk' \in {"asking", "dead"} /\ asked' \in 0 .. Len(list)
    BY <1>2, <1>7 DEF ListAnswered, Ask, NextIndex, AskedIsNext
  <2> QED
    BY <1>2, <1>7, <2>1, <2>2 DEF WInv, WalkTyped
<1>12. QueueTyped'
  <2>1. /\ queue' \in Seq(Accesses)
        /\ DOMAIN queue' = DOMAIN queue \union {Len(queue) + 1}
        /\ \A i \in DOMAIN queue : queue'[i] = queue[i]
        /\ queue'[Len(queue) + 1] = a
    BY <1>2, <1>9, <1>10, FrontStays
  <2>2. \A i \in DOMAIN queue : queue[i].row \in DOMAIN rows'
    BY <1>1, <1>7 DEF QueueTyped
  <2> QED
    BY <1>7, <1>9, <2>1, <2>2 DEF QueueTyped
<1>13. AInv'
  <2>1. UNCHANGED <<accessInProgress, call, air>> /\ unsent' \in {unsent, TRUE}
    BY DEF ListAnswered, Ask
  <2> QED
    BY <1>1, <1>9, <1>10, <2>1, QueueGrows
<1>14. RemoteTyped'
  BY <1>1 DEF RemoteTyped, ListAnswered, node
<1> QED
  BY <1>11, <1>12, <1>13, <1>14, PartsNext

LEMMA ListEndedKeeps ==
  ASSUME NInv, ListEnded
  PROVE  NInv'
<1>1. WInv /\ QueueTyped /\ AInv /\ RemoteTyped
  BY Parts
<1>2. WInv' /\ QueueTyped' /\ RemoteTyped'
  BY <1>1 DEF ListEnded, node, WInv, WalkTyped, AskedIsNext, RowsFollowList, QueueTyped, RemoteTyped
<1>3. AInv'
  <2>1. queue' = queue /\ queue \in Seq(Accesses) /\ AccessTyped
    BY <1>1 DEF ListEnded, QueueTyped, AInv
  <2>2. CASE accessInProgress
    BY <1>1, <2>1, <2>2 DEF ListEnded, RestartAccesses, accesses, AInv, AccessTyped, OneAccessUnderWay
  <2>3. CASE ~accessInProgress
    <3>1. accessInProgress = FALSE
      BY <2>1, <2>3 DEF AccessTyped
    <3>2. RestartAccesses(FALSE, queue)
      BY <3>1 DEF ListEnded
    <3> QED
      BY <2>1, <3>2, RestartKeeps
  <2> QED
    BY <2>2, <2>3
<1> QED
  BY <1>2, <1>3, PartsNext

\* A retry asks for the row that comes next, whatever index timed out.
LEMMA ListRetriedKeeps ==
  ASSUME NInv, ListTimedOut \/ ListRetried
  PROVE  NInv'
<1>1. WInv /\ QueueTyped /\ AInv /\ RemoteTyped
  BY Parts
<1>2. /\ UNCHANGED <<node, rows, queue, accessInProgress, call, air>>
      /\ unsent' \in {unsent, TRUE}
  BY DEF ListTimedOut, ListRetried, Ask, accesses
<1>3. QueueTyped' /\ AInv' /\ RemoteTyped'
  BY <1>1, <1>2 DEF node, QueueTyped, AInv, AccessTyped, OneAccessUnderWay, RemoteTyped
<1>4. WInv'
  <2>1. list' = list /\ rows' = rows
    BY <1>2 DEF node
  <2>2. RowsFollowList'
    BY <1>1, <2>1 DEF WInv, RowsFollowList
  <2>3. CASE ListTimedOut
    BY <1>1, <2>1, <2>2, <2>3 DEF ListTimedOut, WInv, WalkTyped, AskedIsNext
  <2>4. CASE ListRetried
    <3>1. Len(rows) \in Nat /\ Len(rows) <= Len(list) /\ Len(list) \in Nat
      BY <1>1 DEF WInv, WalkTyped, RowsFollowList
    <3>2. \/ walk' = "asking" /\ asked' = Len(rows)
          \/ walk' = "dead" /\ asked' = asked
      BY <2>4 DEF ListRetried, Ask, RetryIndex
    <3> QED
      BY <1>1, <2>1, <2>2, <3>1, <3>2 DEF WInv, WalkTyped, AskedIsNext
  <2> QED
    BY <2>3, <2>4
<1> QED
  BY <1>3, <1>4, PartsNext

-----------------------------------------------------------------------------
(* Reads and edits *)

LEMMA AccessAnsweredKeeps ==
  ASSUME NInv, AccessAnswered
  PROVE  NInv'
<1>1. WInv /\ QueueTyped /\ AInv /\ RemoteTyped
  BY Parts
<1>2. /\ rows \in Seq(Rows) /\ queue \in Seq(Accesses) /\ queue # <<>> /\ AccessTyped
  BY <1>1 DEF WInv, WalkTyped, QueueTyped, AInv, AccessAnswered
<1>3. PICK v : v \in Values /\ rows' = [rows EXCEPT ![FrontRow].value = v]
  BY <1>1 DEF AccessAnswered, RemoteTyped
<1>4. /\ rows' \in Seq(Rows) /\ Len(rows') = Len(rows) /\ DOMAIN rows' = DOMAIN rows
      /\ \A i \in DOMAIN rows : rows'[i].name = rows[i].name
  <2>1. PICK f : f = FrontRow
    OBVIOUS
  <2>2. f \in DOMAIN rows
    <3>1. 1 \in DOMAIN queue /\ f = queue[1].row
      BY <1>2, <2>1 DEF FrontRow
    <3> QED
      BY <1>1, <3>1 DEF QueueTyped
  <2>3. rows[f] \in Rows
    BY <1>2, <2>2
  <2>4. PICK row : row = [rows[f] EXCEPT !.value = v]
    OBVIOUS
  <2>5. row \in Rows /\ row.name = rows[f].name
    BY <1>3, <2>3, <2>4 DEF Rows
  <2>6. rows' = [rows EXCEPT ![f] = row]
    BY <1>3, <2>1, <2>4
  <2> QED
    BY <1>2, <2>2, <2>5, <2>6
<1>5. WInv'
  <2>1. UNCHANGED <<list, walk, asked>>
    BY DEF AccessAnswered, node
  <2>2. Len(rows) \in Nat /\ Len(list) \in Nat /\ list' = list /\ Len(rows') = Len(rows)
    BY <1>1, <1>2, <1>4, <2>1 DEF WInv, WalkTyped
  <2>3. RowsFollowList'
    <3>1. Len(rows') <= Len(list')
      BY <1>1, <2>2 DEF WInv, RowsFollowList
    <3>2. \A i \in DOMAIN rows' : rows'[i].name = list'[i]
      BY <1>1, <1>4, <2>2 DEF WInv, RowsFollowList
    <3> QED
      BY <3>1, <3>2 DEF RowsFollowList
  <2> QED
    BY <1>1, <1>4, <2>1, <2>2, <2>3 DEF WInv, WalkTyped, AskedIsNext
<1>6. /\ queue' = Tail(queue) /\ Tail(queue) \in Seq(Accesses)
      /\ \A i \in DOMAIN Tail(queue) : Tail(queue)[i] = queue[i + 1] /\ i + 1 \in DOMAIN queue
  BY <1>2 DEF AccessAnswered, Popped
<1>7. QueueTyped'
  BY <1>1, <1>4, <1>6 DEF QueueTyped
<1>8. AInv'
  BY <1>2, <1>6, RestartKeeps DEF AccessAnswered, Popped
<1>9. RemoteTyped'
  BY <1>1 DEF AccessAnswered, node, RemoteTyped
<1> QED
  BY <1>5, <1>7, <1>8, <1>9, PartsNext

LEMMA RetriesKeep ==
  ASSUME NInv, AccessTimedOut \/ Tick
  PROVE  NInv'
<1>1. WInv /\ QueueTyped /\ AInv /\ RemoteTyped
  BY Parts
<1>2. UNCHANGED <<node, rows, walk, asked, queue>> /\ RestartAccesses(FALSE, queue)
  BY DEF AccessTimedOut, Retried, Tick
<1>3. WInv' /\ QueueTyped' /\ RemoteTyped'
  BY <1>1, <1>2 DEF node, WInv, WalkTyped, AskedIsNext, RowsFollowList, QueueTyped, RemoteTyped
<1>4. AInv'
  BY <1>1, <1>2, RestartKeeps DEF AInv, QueueTyped
<1> QED
  BY <1>3, <1>4, PartsNext

LEMMA EditKeeps ==
  ASSUME NInv, NEW r \in DOMAIN rows, NEW v \in Values, Edit(r, v)
  PROVE  NInv'
<1>1. WInv /\ QueueTyped /\ AInv /\ RemoteTyped
  BY Parts
<1>2. rows \in Seq(Rows) /\ queue \in Seq(Accesses) /\ r \in Nat \ {0}
  BY <1>1 DEF WInv, WalkTyped, QueueTyped
<1>3. PICK a : a = Access(r, rows[r].name, v)
  OBVIOUS
<1>4. a \in Accesses /\ a.row = r
  <2>1. rows[r] \in Rows
    BY <1>2
  <2>2. rows[r].name \in Names
    BY <2>1 DEF Rows
  <2> QED
    BY <1>2, <1>3, <2>2 DEF Access, Accesses
<1>5. /\ queue' = Append(queue, a) /\ RestartAccesses(accessInProgress, queue')
      /\ UNCHANGED <<node, rows, walk, asked>>
  BY <1>3 DEF Edit, Queued
<1>6. WInv' /\ RemoteTyped'
  BY <1>1, <1>5 DEF node, WInv, WalkTyped, AskedIsNext, RowsFollowList, RemoteTyped
<1>7. QueueTyped'
  <2>1. /\ queue' \in Seq(Accesses)
        /\ DOMAIN queue' = DOMAIN queue \union {Len(queue) + 1}
        /\ \A i \in DOMAIN queue : queue'[i] = queue[i]
        /\ queue'[Len(queue) + 1] = a
    BY <1>2, <1>4, <1>5, FrontStays
  <2> QED
    BY <1>1, <1>4, <1>5, <2>1 DEF QueueTyped
<1>8. AInv'
  <2>1. AccessTyped /\ queue' \in Seq(Accesses)
    BY <1>1, <1>7 DEF AInv, QueueTyped
  <2>2. CASE accessInProgress
    BY <1>1, <1>4, <1>5, <2>2, QueueGrows DEF RestartAccesses, accesses
  <2>3. CASE ~accessInProgress
    <3>1. RestartAccesses(FALSE, queue')
      BY <1>5, <2>1, <2>3 DEF AccessTyped
    <3> QED
      BY <2>1, <3>1, RestartKeeps
  <2> QED
    BY <2>2, <2>3
<1> QED
  BY <1>6, <1>7, <1>8, PartsNext

-----------------------------------------------------------------------------
(* The remote node *)

LEMMA CreateKeeps ==
  ASSUME NInv, NEW n \in Names, Create(n)
  PROVE  NInv'
<1>1. WInv /\ QueueTyped /\ AInv /\ RemoteTyped
  BY Parts
<1>2. /\ list' \in Seq(Names) /\ Len(list') = Len(list) + 1 /\ Len(list) \in Nat
      /\ \A i \in DOMAIN list : list'[i] = list[i]
      /\ DOMAIN list = 1 .. Len(list)
  BY <1>1 DEF Create, WInv, WalkTyped
<1>3. Len(rows) \in Nat /\ DOMAIN rows = 1 .. Len(rows)
  BY <1>1 DEF WInv, WalkTyped
<1>4. UNCHANGED <<rows, walk, asked, queue, accesses, remote, answers, outlived>>
  BY DEF Create
<1>5. WInv'
  <2>1. RowsFollowList'
    BY <1>1, <1>2, <1>3, <1>4 DEF WInv, RowsFollowList
  <2> QED
    BY <1>1, <1>2, <1>4, <2>1 DEF WInv, WalkTyped, AskedIsNext
<1>6. QueueTyped' /\ AInv' /\ RemoteTyped'
  BY <1>1, <1>4 DEF accesses, QueueTyped, AInv, AccessTyped, OneAccessUnderWay, RemoteTyped
<1> QED
  BY <1>5, <1>6, PartsNext

LEMMA HandleKeeps ==
  ASSUME NInv, NEW q \in air, Handle(q), RegistersAssumption
  PROVE  NInv'
<1>1. WInv /\ QueueTyped /\ AInv /\ RemoteTyped
  BY Parts
<1>2. UNCHANGED <<list, rows, walk, asked, queue, accesses>>
  BY DEF Handle
<1>3. WInv' /\ QueueTyped' /\ AInv'
  BY <1>1, <1>2 DEF accesses, WInv, WalkTyped, AskedIsNext, RowsFollowList, QueueTyped, AInv,
                    AccessTyped, OneAccessUnderWay
<1>4. RemoteTyped'
  <2>1. q \in [id : Nat \ {0}, rq : Accesses]
    BY <1>1 DEF AInv, AccessTyped
  <2>2. q.id \in Nat \ {0} /\ q.rq \in Accesses
    BY <2>1
  <2>3. PICK n, v : n = q.rq.name /\ v = q.rq.value
    OBVIOUS
  <2>4. n \in Names /\ v \in Values \union {Unread}
    BY <2>2, <2>3 DEF Accesses
  <2>5. remote' \in [Names -> Values]
    BY <1>1, <2>3, <2>4 DEF Handle, RemoteTyped
  <2>6. PICK a : a = [id |-> q.id, value |-> remote'[n]]
    OBVIOUS
  <2>7. a \in [id : Nat \ {0}, value : Values]
    BY <2>2, <2>4, <2>5, <2>6
  <2>8. answers' = answers \union {a}
    BY <2>3, <2>6 DEF Handle
  <2>9. outlived' \in BOOLEAN
    BY <1>1 DEF Handle, RemoteTyped
  <2> QED
    BY <1>1, <2>5, <2>7, <2>8, <2>9 DEF RemoteTyped
<1> QED
  BY <1>3, <1>4, PartsNext

-----------------------------------------------------------------------------
(* The theorems *)

LEMMA NInvInit == Init => NInv
<1> SUFFICES ASSUME Init PROVE NInv
  OBVIOUS
<1>1. IsFiniteSet(air)
  BY FS_EmptySet DEF Init
<1>2. WInv
  BY DEF Init, WInv, WalkTyped, AskedIsNext, RowsFollowList
<1>3. QueueTyped
  BY DEF Init, QueueTyped
<1>4. AInv
  BY <1>1 DEF Init, AInv, AccessTyped, OneAccessUnderWay
<1>5. RemoteTyped
  BY DEF Init, RemoteTyped
<1> QED
  BY <1>2, <1>3, <1>4, <1>5, Parts

LEMMA NInvStep == NInv /\ [Next]_vars => NInv'
<1> SUFFICES ASSUME NInv, [Next]_vars PROVE NInv'
  OBVIOUS
<1>1. CASE ListAnswered
  BY <1>1, ListAnsweredKeeps
<1>2. CASE ListEnded
  BY <1>2, ListEndedKeeps
<1>3. CASE ListTimedOut \/ ListRetried
  BY <1>3, ListRetriedKeeps
<1>4. CASE AccessAnswered
  BY <1>4, AccessAnsweredKeeps
<1>5. CASE AccessTimedOut \/ Tick
  BY <1>5, RetriesKeep
<1>6. ASSUME NEW r \in DOMAIN rows, NEW v \in Values, Edit(r, v)
      PROVE  NInv'
  BY <1>6, EditKeeps
<1>7. ASSUME NEW n \in Names, Create(n)
      PROVE  NInv'
  BY <1>7, CreateKeeps
<1>8. ASSUME NEW q \in air, Handle(q)
      PROVE  NInv'
  BY <1>8, HandleKeeps, RegistersAssumption
<1>9. CASE UNCHANGED vars
  <2>1. UNCHANGED <<list, rows, walk, asked, queue, accesses, remote, answers, outlived>>
    BY <1>9 DEF vars, node
  <2>2. WInv /\ QueueTyped /\ AInv /\ RemoteTyped
    BY Parts
  <2>3. WInv'
    BY <2>1, <2>2 DEF WInv, WalkTyped, AskedIsNext, RowsFollowList
  <2>4. QueueTyped' /\ AInv' /\ RemoteTyped'
    BY <2>1, <2>2 DEF accesses, QueueTyped, AInv, AccessTyped, OneAccessUnderWay, RemoteTyped
  <2> QED
    BY <2>3, <2>4, PartsNext
<1> QED
  BY <1>1, <1>2, <1>3, <1>4, <1>5, <1>6, <1>7, <1>8, <1>9 DEF Next

LEMMA AlwaysNInv == Spec => []NInv
BY NInvInit, NInvStep, PTL DEF Spec

\* The variables keep their types: a queued request always names a row that exists,
\* so that values.at() never throws (noderegisters.cpp:86-97).
THEOREM TypeCorrect == Spec => []TypeOK
<1>1. NInv => TypeOK
  BY DEF NInv
<1> QED
  BY <1>1, AlwaysNInv, PTL

\* Whatever times out and however often, the walk neither skips a register nor shows
\* one twice: row i is the remote register i (noderegisters.cpp:54-85).
THEOREM WalkInOrder == Spec => []RowsFollowList
<1>1. NInv => RowsFollowList
  BY DEF NInv
<1> QED
  BY <1>1, AlwaysNInv, PTL

\* The front of the queue is what is under way, for any interleaving of edits, reads,
\* retries and failed sends (noderegisters.cpp:86-112, 208).
THEOREM FrontUnderWay == Spec => []OneAccessUnderWay
<1>1. NInv => OneAccessUnderWay
  BY DEF NInv
<1> QED
  BY <1>1, AlwaysNInv, PTL
-----------------------------------------------------------------------------
(* What the rows show *)

\* Requests have numbers of their own, and no answer has one that is not given yet.
Numbered ==
  /\ \A q \in air : q.id <= Cardinality(air)
  /\ \A p, q \in air : p.id = q.id => p = q
  /\ \A a \in answers : a.id <= Cardinality(air)

NamesOnce  == \A i, j \in DOMAIN list : list[i] = list[j] => i = j
QueueNames == \A i \in DOMAIN queue : queue[i].name = rows[queue[i].row].name

\* While a request is under way its register keeps the value it was answered with,
\* which is the one that was asked for where that is possible.
AnswersTrue ==
  ~outlived /\ call # NoCall =>
    \A a \in answers : a.id = call.id =>
      /\ a.value = remote[call.rq.name]
      /\ call.rq.value # Unread /\ call.rq.name \in Mutable => a.value = call.rq.value

CInv == NamesOnce /\ QueueNames /\ Numbered /\ AnswersTrue /\ RowsAreCurrent

\* A request that is sent has a new number.
LEMMA RequestNumbered ==
  ASSUME AccessTyped, RemoteTyped, Numbered, NEW q \in Seq(Accesses), RestartAccesses(FALSE, q),
         UNCHANGED <<answers, remote, outlived>>
  PROVE  Numbered' /\ AnswersTrue'
<1>1. CASE call' = NoCall /\ air' = air
  BY <1>1 DEF Numbered, AnswersTrue
<1>2. CASE q # <<>> /\ call' = [id |-> Cardinality(air) + 1, rq |-> Head(q)] /\ air' = air \union {call'}
  <2>1. PICK c \in Nat : c = Cardinality(air)
    BY FS_CardinalityType DEF AccessTyped
  <2>2. call'.id = c + 1
    BY <1>2, <2>1
  <2>3. \A p \in air : p.id \in Nat /\ p.id <= c
    BY <2>1 DEF Numbered, AccessTyped
  <2>4. call' \notin air
    BY <2>1, <2>2, <2>3
  <2>5. Cardinality(air') = c + 1
    BY <1>2, <2>1, <2>4, FS_AddElement DEF AccessTyped
  <2>6. \A a \in answers : a.id \in Nat /\ a.id <= c
    BY <2>1 DEF Numbered, RemoteTyped
  <2>7. \A a \in answers : a.id # call'.id /\ a.id <= c + 1
    BY <2>1, <2>2, <2>6
  <2>8. air' = air \union {call'} /\ answers' = answers
    BY <1>2
  <2>9. \A p \in air' : p.id <= Cardinality(air')
    BY <2>1, <2>2, <2>3, <2>5, <2>8
  <2>10. \A p, r \in air' : p.id = r.id => p = r
    BY <2>1, <2>2, <2>3, <2>8 DEF Numbered
  <2>11. Numbered'
    BY <2>5, <2>7, <2>8, <2>9, <2>10 DEF Numbered
  <2> QED BY <2>7, <2>8, <2>11 DEF AnswersTrue
<1> QED BY <1>1, <1>2 DEF RestartAccesses
\* A row that is looked at is a row, and so is the request at the front.
LEMMA QueueAt ==
  ASSUME NInv, NEW j \in DOMAIN queue
  PROVE  /\ queue[j].row \in DOMAIN rows /\ queue[j].name \in Names
         /\ queue[j].value \in Values \union {Unread}
<1>1. queue[j] \in Accesses /\ queue[j].row \in DOMAIN rows
  BY DEF NInv, TypeOK
<1> QED BY <1>1 DEF Accesses

LEMMA RowNames ==
  ASSUME NInv, NamesOnce
  PROVE  \A i, j \in DOMAIN rows : rows[i].name = rows[j].name => i = j
<1>1. rows \in Seq(Rows) /\ list \in Seq(Names) /\ Len(rows) <= Len(list)
      /\ \A i \in DOMAIN rows : rows[i].name = list[i]
  BY DEF NInv, TypeOK, RowsFollowList, Rows
<1>2. DOMAIN rows \subseteq DOMAIN list
  BY <1>1
<1> QED BY <1>1, <1>2 DEF NamesOnce

\* The rows show what they showed while they, the queue's edits and the remote node
\* stay as they are.
LEMMA ShownStays ==
  ASSUME RowsAreCurrent, outlived' = outlived, remote' = remote,
         \A i \in DOMAIN rows' : rows'[i].value = Unread \/ (i \in DOMAIN rows /\ rows'[i] = rows[i]),
         \A j \in DOMAIN queue : j \in DOMAIN queue' /\ queue'[j] = queue[j]
  PROVE  RowsAreCurrent'
<1> SUFFICES ASSUME ~outlived, NEW i \in DOMAIN rows'
             PROVE  \/ rows'[i].value \in {Unread, remote[rows'[i].name]}
                    \/ \E j \in DOMAIN queue' : queue'[j].row = i /\ queue'[j].value # Unread
  BY DEF RowsAreCurrent
<1> QED BY DEF RowsAreCurrent

LEMMA WalkShown ==
  ASSUME NInv, CInv, ListAnswered
  PROVE  CInv'
<1>1. /\ rows \in Seq(Rows) /\ queue \in Seq(Accesses) /\ list \in Seq(Names)
      /\ asked = Len(rows) /\ asked < Len(list)
  BY DEF NInv, TypeOK, Rows, AskedIsNext, ListAnswered
<1>2. PICK n \in Names : n = list[Len(rows) + 1]
  BY <1>1
<1>3. PICK row : row = [name |-> n, value |-> Unread]
  OBVIOUS
<1>4. row \in Rows /\ row.name = n /\ row.value = Unread
  BY <1>3 DEF Rows
<1>5. PICK a : a = Access(Len(rows) + 1, n, Unread)
  OBVIOUS
<1>6. a \in Accesses /\ a.row = Len(rows) + 1 /\ a.name = n
  BY <1>1, <1>5 DEF Access, Accesses
<1>7. rows' = Append(rows, row) /\ queue' = Append(queue, a)
  BY <1>1, <1>2, <1>3, <1>5 DEF ListAnswered
<1>8. /\ DOMAIN rows' = DOMAIN rows \union {Len(rows) + 1} /\ rows'[Len(rows) + 1] = row
      /\ \A i \in DOMAIN rows : rows'[i] = rows[i]
  BY <1>1, <1>4, <1>7
<1>9. /\ DOMAIN queue' = DOMAIN queue \union {Len(queue) + 1} /\ queue'[Len(queue) + 1] = a
      /\ \A i \in DOMAIN queue : queue'[i] = queue[i]
  BY <1>1, <1>6, <1>7, FrontStays
<1>10. UNCHANGED <<list, remote, answers, outlived, call, air>>
  BY DEF ListAnswered, node
<1>11. NamesOnce' /\ Numbered' /\ AnswersTrue'
  BY <1>10 DEF CInv, NamesOnce, Numbered, AnswersTrue
<1>12. QueueNames'
  BY <1>4, <1>6, <1>8, <1>9, QueueAt DEF CInv, QueueNames
<1>13. RowsAreCurrent'
  BY <1>4, <1>8, <1>9, <1>10, ShownStays DEF CInv
<1> QED BY <1>11, <1>12, <1>13 DEF CInv

\* Requests that are sent again, and a queue that grows, change no row.
LEMMA RestartShown ==
  ASSUME NInv, CInv, UNCHANGED <<node, rows>>, queue' \in Seq(Accesses),
         \A j \in DOMAIN queue : j \in DOMAIN queue' /\ queue'[j] = queue[j],
         \A j \in DOMAIN queue' : queue'[j].name = rows[queue'[j].row].name,
         RestartAccesses(FALSE, queue') \/ UNCHANGED <<call, air>>
  PROVE  CInv'
<1>1. UNCHANGED <<list, remote, answers, outlived>>
  BY DEF node
<1>2. AccessTyped /\ RemoteTyped
  BY Parts DEF AInv
<1>3. Numbered' /\ AnswersTrue'
  <2>1. CASE RestartAccesses(FALSE, queue')
    BY <1>1, <1>2, <2>1, RequestNumbered DEF CInv
  <2>2. CASE UNCHANGED <<call, air>>
    BY <1>1, <2>2 DEF CInv, Numbered, AnswersTrue
  <2> QED BY <2>1, <2>2
<1>4. NamesOnce' /\ QueueNames'
  BY <1>1 DEF CInv, NamesOnce, QueueNames
<1>5. RowsAreCurrent'
  BY <1>1, ShownStays DEF CInv
<1> QED BY <1>3, <1>4, <1>5 DEF CInv

LEMMA EditShown ==
  ASSUME NInv, CInv, NEW r \in DOMAIN rows, NEW v \in Values, Edit(r, v)
  PROVE  CInv'
<1>1. queue \in Seq(Accesses) /\ rows \in Seq(Rows) /\ accessInProgress \in BOOLEAN
  BY DEF NInv, TypeOK, Rows
<1>2. PICK a : a = Access(r, rows[r].name, v)
  OBVIOUS
<1>3. r \in Nat \ {0} /\ rows[r] \in Rows
  BY <1>1
<1>4. a \in Accesses /\ a.row = r /\ a.name = rows[r].name
  BY <1>2, <1>3 DEF Access, Accesses, Rows
<1>5. queue' = Append(queue, a) /\ UNCHANGED <<node, rows>> /\ RestartAccesses(accessInProgress, queue')
  BY <1>2 DEF Edit, Queued
<1>6. /\ queue' \in Seq(Accesses)
      /\ DOMAIN queue' = DOMAIN queue \union {Len(queue) + 1} /\ queue'[Len(queue) + 1] = a
      /\ \A i \in DOMAIN queue : queue'[i] = queue[i]
  BY <1>1, <1>4, <1>5, FrontStays
<1>7. \A j \in DOMAIN queue' : queue'[j].name = rows[queue'[j].row].name
  BY <1>4, <1>6 DEF CInv, QueueNames
<1>8. RestartAccesses(FALSE, queue') \/ UNCHANGED <<call, air>>
  BY <1>1, <1>5 DEF RestartAccesses, accesses
<1> QED BY <1>5, <1>6, <1>7, <1>8, RestartShown

LEMMA RetryShown ==
  ASSUME NInv, CInv, ListEnded \/ ListTimedOut \/ ListRetried \/ AccessTimedOut \/ Tick
  PROVE  CInv'
<1>1. queue' = queue /\ UNCHANGED <<node, rows>>
  BY DEF ListEnded, ListTimedOut, ListRetried, AccessTimedOut, Tick
<1>2. queue \in Seq(Accesses) /\ accessInProgress \in BOOLEAN
  BY DEF NInv, TypeOK
<1>3. RestartAccesses(FALSE, queue) \/ UNCHANGED <<call, air>>
  BY <1>2 DEF ListEnded, ListTimedOut, ListRetried, AccessTimedOut, Tick, Retried, RestartAccesses,
              accesses
<1>4. \A j \in DOMAIN queue : queue[j].name = rows[queue[j].row].name
  BY DEF CInv, QueueNames
<1> QED BY <1>1, <1>2, <1>3, <1>4, RestartShown

LEMMA CreateShown ==
  ASSUME NInv, CInv, NEW n \in Names, Create(n)
  PROVE  CInv'
<1>1. list \in Seq(Names)
  BY DEF NInv, TypeOK
<1>2. UNCHANGED <<remote, answers, outlived, rows, queue, call, air>>
  BY DEF Create, accesses
<1>3. /\ DOMAIN list' = DOMAIN list \union {Len(list) + 1} /\ list'[Len(list) + 1] = n
      /\ \A i \in DOMAIN list : list'[i] = list[i] /\ list[i] # n
  BY <1>1 DEF Create
<1>4. NamesOnce'
  BY <1>3 DEF CInv, NamesOnce
<1> QED BY <1>2, <1>4 DEF CInv, QueueNames, Numbered, AnswersTrue, RowsAreCurrent
\* The answer that is shown is what the register still holds, and the rows of the
\* requests behind it are other rows or have edits of their own.
LEMMA AnsweredShown ==
  ASSUME NInv, CInv, AccessAnswered
  PROVE  CInv'
<1>1. rows \in Seq(Rows) /\ queue \in Seq(Accesses) /\ queue # <<>> /\ call # NoCall
  BY DEF NInv, TypeOK, Rows, AccessAnswered
<1>2. PICK f : f = queue[1]
  OBVIOUS
<1>3. 1 \in DOMAIN queue /\ f = Head(queue) /\ call.rq = f
  BY <1>1, <1>2 DEF NInv, OneAccessUnderWay
<1>4. f.row \in DOMAIN rows /\ f.name = rows[f.row].name
  BY <1>2, <1>3, QueueAt DEF CInv, QueueNames
<1>5. PICK a \in answers : a.id = call.id /\ rows' = [rows EXCEPT ![f.row].value = a.value]
  BY <1>3 DEF AccessAnswered, FrontRow
<1>6. a.value \in Values
  BY DEF NInv, TypeOK
<1>7. PICK row : row = [rows[f.row] EXCEPT !.value = a.value]
  OBVIOUS
<1>8. row.name = f.name /\ row.value = a.value
  <2>1. rows[f.row] \in Rows
    BY <1>1, <1>4
  <2> QED BY <1>4, <1>6, <1>7, <2>1 DEF Rows
<1>9. rows' = [rows EXCEPT ![f.row] = row]
  BY <1>5, <1>7
<1>10. /\ DOMAIN rows' = DOMAIN rows /\ rows'[f.row] = row
       /\ \A i \in DOMAIN rows : i # f.row => rows'[i] = rows[i]
  BY <1>1, <1>4, <1>9
<1>11. UNCHANGED <<list, remote, answers, outlived>>
  BY DEF AccessAnswered, node
<1>12. /\ queue' = Tail(queue) /\ Tail(queue) \in Seq(Accesses)
       /\ \A j \in DOMAIN queue' : j + 1 \in DOMAIN queue /\ queue'[j] = queue[j + 1]
       /\ \A j \in DOMAIN queue : j # 1 => j - 1 \in DOMAIN queue' /\ queue'[j - 1] = queue[j]
  BY <1>1 DEF AccessAnswered, Popped
<1>13. Numbered' /\ AnswersTrue'
  <2>1. AccessTyped /\ RemoteTyped /\ RestartAccesses(FALSE, Tail(queue))
    BY Parts DEF AInv, AccessAnswered, Popped
  <2> QED BY <1>11, <1>12, <2>1, RequestNumbered DEF CInv
<1>14. NamesOnce'
  BY <1>11 DEF CInv, NamesOnce
<1>15. QueueNames'
  <2> SUFFICES ASSUME NEW j \in DOMAIN queue' PROVE queue'[j].name = rows'[queue'[j].row].name
    BY DEF QueueNames
  <2>1. j + 1 \in DOMAIN queue /\ queue'[j] = queue[j + 1]
    BY <1>12
  <2>2. queue'[j].row \in DOMAIN rows /\ queue'[j].name = rows[queue'[j].row].name
    BY <2>1, QueueAt DEF CInv, QueueNames
  <2> QED BY <1>4, <1>8, <1>10, <2>2
<1>16. RowsAreCurrent'
  <2> SUFFICES ASSUME ~outlived, NEW i \in DOMAIN rows
               PROVE  \/ rows'[i].value \in {Unread, remote[rows'[i].name]}
                      \/ \E j \in DOMAIN queue' : queue'[j].row = i /\ queue'[j].value # Unread
    BY <1>10, <1>11 DEF RowsAreCurrent
  <2>1. CASE i = f.row
    <3>1. a.value = remote[f.name]
      BY <1>1, <1>3, <1>5 DEF CInv, AnswersTrue
    <3> QED BY <1>8, <1>10, <2>1, <3>1
  <2>2. CASE i # f.row
    <3>1. rows'[i] = rows[i]
      BY <1>10, <2>2
    <3>2. ASSUME NEW j \in DOMAIN queue, queue[j].row = i, queue[j].value # Unread
          PROVE  \E k \in DOMAIN queue' : queue'[k].row = i /\ queue'[k].value # Unread
      <4>1. j # 1
        BY <1>2, <2>2, <3>2
      <4>2. PICK k : k = j - 1
        OBVIOUS
      <4>3. k \in DOMAIN queue' /\ queue'[k] = queue[j]
        BY <1>12, <4>1, <4>2
      <4> QED BY <3>2, <4>3
    <3> QED BY <3>1, <3>2 DEF CInv, RowsAreCurrent
  <2> QED BY <2>1, <2>2
<1> QED BY <1>13, <1>14, <1>15, <1>16 DEF CInv

\* The remote node changes a register only for the request under way, unless that
\* request was given up, and then its edit is at the front of the queue.
LEMMA HandleShown ==
  ASSUME NInv, CInv, NEW q \in air, Handle(q)
  PROVE  CInv'
<1>1. UNCHANGED <<list, rows, queue, call, air>>
  BY DEF Handle, accesses
<1>2. PICK n, v : n = q.rq.name /\ v = q.rq.value
  OBVIOUS
<1>3. n \in Names /\ remote \in [Names -> Values] /\ air \subseteq [id : Nat \ {0}, rq : Accesses]
  <2>1. air \subseteq [id : Nat \ {0}, rq : Accesses] /\ remote \in [Names -> Values]
    BY DEF NInv, TypeOK
  <2>2. q.rq \in Accesses
    BY <2>1
  <2> QED BY <1>2, <2>1, <2>2 DEF Accesses
<1>4. PICK a : a = [id |-> q.id, value |-> remote'[n]]
  OBVIOUS
<1>5. answers' = answers \union {a} /\ a.id = q.id /\ a.value = remote'[n]
  BY <1>2, <1>4 DEF Handle
<1>6. remote' = IF v # Unread /\ n \in Mutable THEN [remote EXCEPT ![n] = v] ELSE remote
  BY <1>2 DEF Handle
<1>7. outlived' = (outlived \/ (v # Unread /\ q # call))
  BY <1>2 DEF Handle
<1>8. NamesOnce' /\ QueueNames'
  BY <1>1 DEF CInv, NamesOnce, QueueNames
<1>9. Numbered'
  BY <1>1, <1>5 DEF CInv, Numbered
<1>10. AnswersTrue'
  <2> SUFFICES ASSUME ~outlived', call # NoCall, NEW b \in answers', b.id = call.id
               PROVE  /\ b.value = remote'[call.rq.name]
                      /\ call.rq.value # Unread /\ call.rq.name \in Mutable => b.value = call.rq.value
    BY <1>1 DEF AnswersTrue
  <2>1. ~outlived /\ (q = call \/ v = Unread) /\ call \in air
    BY <1>7 DEF NInv, TypeOK
  <2>2. CASE q = call
    <3>1. CASE v # Unread /\ n \in Mutable
      <4>1. remote'[n] = v
        BY <1>3, <1>6, <3>1
      <4>2. CASE b = a
        BY <1>2, <1>5, <2>2, <4>1, <4>2
      <4>3. CASE b \in answers
        BY <1>2, <2>1, <2>2, <3>1, <4>1, <4>3 DEF CInv, AnswersTrue
      <4> QED BY <1>5, <4>2, <4>3
    <3>2. CASE ~(v # Unread /\ n \in Mutable)
      <4>1. remote' = remote
        BY <1>6, <3>2
      <4> QED BY <1>2, <1>5, <2>1, <2>2, <3>2, <4>1 DEF CInv, AnswersTrue
    <3> QED BY <3>1, <3>2
  <2>3. CASE q # call
    <3>1. remote' = remote
      BY <1>6, <2>1, <2>3
    <3>2. b \in answers
      BY <1>5, <2>1, <2>3 DEF CInv, Numbered
    <3> QED BY <2>1, <3>1, <3>2 DEF CInv, AnswersTrue
  <2> QED BY <2>2, <2>3
<1>11. RowsAreCurrent'
  <2> SUFFICES ASSUME ~outlived', NEW i \in DOMAIN rows
               PROVE  \/ rows[i].value \in {Unread, remote'[rows[i].name]}
                      \/ \E j \in DOMAIN queue : queue[j].row = i /\ queue[j].value # Unread
    BY <1>1 DEF RowsAreCurrent
  <2>1. ~outlived /\ (q = call \/ v = Unread)
    BY <1>7
  <2>2. \/ rows[i].value \in {Unread, remote[rows[i].name]}
        \/ \E j \in DOMAIN queue : queue[j].row = i /\ queue[j].value # Unread
    BY <2>1 DEF CInv, RowsAreCurrent
  <2>3. CASE remote'[rows[i].name] = remote[rows[i].name]
    BY <2>2, <2>3
  <2>4. CASE remote'[rows[i].name] # remote[rows[i].name]
    <3>1. rows[i].name \in Names
      <4>1. rows \in Seq(Rows)
        BY DEF NInv, TypeOK, Rows
      <4>2. rows[i] \in Rows
        BY <4>1
      <4> QED BY <4>2 DEF Rows
    <3>2. rows[i].name = n /\ v # Unread
      BY <1>3, <1>6, <2>4, <3>1
    <3>3. q = call /\ call # NoCall
      <4>1. "rq" \in DOMAIN q
        BY <1>3
      <4>2. "rq" \notin DOMAIN NoCall
        BY DEF NoCall
      <4> QED BY <2>1, <3>2, <4>1, <4>2
    <3>4. queue \in Seq(Accesses) /\ queue # <<>> /\ call.rq = Head(queue)
      BY <3>3 DEF NInv, TypeOK, OneAccessUnderWay
    <3>5. 1 \in DOMAIN queue /\ queue[1] = call.rq
      BY <3>4
    <3>6. queue[1].name = n /\ queue[1].value = v
      BY <1>2, <3>3, <3>5
    <3>7. queue[1].row \in DOMAIN rows /\ rows[queue[1].row].name = n
      BY <3>5, <3>6, QueueAt DEF CInv, QueueNames
    <3>8. queue[1].row = i
      BY <3>2, <3>7, RowNames DEF CInv
    <3> QED BY <3>2, <3>5, <3>6, <3>8
  <2> QED BY <2>3, <2>4
<1> QED BY <1>8, <1>9, <1>10, <1>11 DEF CInv

\* A row shows the value its register has, for any loss, repetition and delay of the
\* requests, unless an edit is queued or the remote node handled one that had been
\* given up (noderegisters.cpp:86-101, 194-211).
THEOREM ShownIsCurrent == Spec => []RowsAreCurrent
<1>1. Init => CInv
  <2> SUFFICES ASSUME Init PROVE CInv
    OBVIOUS
  <2>1. /\ list = <<>> /\ rows = <<>> /\ queue = <<>> /\ air = {} /\ answers = {} /\ call = NoCall
    BY DEF Init
  <2> QED BY <2>1 DEF CInv, NamesOnce, QueueNames, Numbered, AnswersTrue, RowsAreCurrent
<1>2. NInv /\ CInv /\ [Next]_vars => CInv'
  <2> SUFFICES ASSUME NInv, CInv, [Next]_vars PROVE CInv'
    OBVIOUS
  <2>1. CASE ListAnswered
    BY <2>1, WalkShown
  <2>2. CASE ListEnded \/ ListTimedOut \/ ListRetried \/ AccessTimedOut \/ Tick
    BY <2>2, RetryShown
  <2>3. CASE AccessAnswered
    BY <2>3, AnsweredShown
  <2>4. ASSUME NEW r \in DOMAIN rows, NEW v \in Values, Edit(r, v) PROVE CInv'
    BY <2>4, EditShown
  <2>5. ASSUME NEW n \in Names, Create(n) PROVE CInv'
    BY <2>5, CreateShown
  <2>6. ASSUME NEW q \in air, Handle(q) PROVE CInv'
    BY <2>6, HandleShown
  <2>7. CASE UNCHANGED vars
    <3>1. UNCHANGED <<list, remote, rows, queue, call, air, answers, outlived>>
      BY <2>7 DEF vars, node, accesses
    <3> QED
      BY <3>1 DEF CInv, NamesOnce, QueueNames, Numbered, AnswersTrue, RowsAreCurrent
  <2> QED BY <2>1, <2>2, <2>3, <2>4, <2>5, <2>6, <2>7 DEF Next
<1>3. CInv => RowsAreCurrent
  BY DEF CInv
<1> QED BY <1>1, <1>2, <1>3, AlwaysNInv, NInvInit, NInvStep, PTL DEF Spec
=============================================================================
