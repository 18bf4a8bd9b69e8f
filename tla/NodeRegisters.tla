--------------------------- MODULE NodeRegisters ---------------------------
(***************************************************************************)
(* NodeRegisters (qt/noderegisters.cpp): a table of a remote node's        *)
(* registers.  One service caller walks the remote list, the other works   *)
(* off a queue of reads and edits, one at a time, retrying until each is   *)
(* answered.                                                               *)
(*                                                                         *)
(* The callers are taken as ServiceCalls shows them: a call that was sent  *)
(* ends once, with its own answer or an error.  Requests are datagrams: one*)
(* may be lost, handled more than once, or handled after its call ended.   *)
(* The remote node is a Registry whose list only grows.                    *)
(***************************************************************************)
EXTENDS Naturals, Sequences, FiniteSets

CONSTANTS
  Names, Values,
  Mutable,      \* the registers that may be changed
  Unread,       \* no value: in a row a default response, in a request a read
  SendsFail,    \* a caller's call() may return false
  MaxTimeouts,  \* bound: calls that time out, so also what the network loses
  MaxEdits      \* bound: edits by the user

ASSUME RegistersAssumption ==
  /\ Mutable \subseteq Names /\ Unread \notin Values
  /\ SendsFail \in BOOLEAN
  /\ MaxTimeouts \in Nat /\ MaxEdits \in Nat

VARIABLES
  list, remote,      \* the remote node: its registers in order, and their values
  rows,              \* values: the rows of the table
  walk,              \* "asking", "waiting" to ask again, "ended" or "dead"
  asked,             \* the index of the List request under way
  queue,             \* accessQueue
  accessInProgress,
  call,              \* the Access request under way, or NoCall
  air, answers,      \* the Access requests and responses sent
  timeouts, edits,
  unsent,            \* history: a call() has returned false
  outlived           \* history: the remote node handled an edit after its call ended

accesses == <<accessInProgress, call, air, unsent>>
node     == <<list, remote, answers, outlived>>
vars     == <<node, rows, walk, asked, queue, accesses, timeouts, edits>>

NoCall == [id |-> 0]
Access(row, name, value) == [row |-> row, name |-> name, value |-> value]

-----------------------------------------------------------------------------

\* The constructor asks for the first name.
Init ==
  /\ list = <<>> /\ remote \in [Names -> Values]
  /\ rows = <<>>
  /\ asked = 0
  /\ \/ walk = "asking" /\ unsent = FALSE
     \/ SendsFail /\ walk = "dead" /\ unsent = TRUE
  /\ queue = <<>>
  /\ accessInProgress = FALSE
  /\ call = NoCall /\ air = {} /\ answers = {}
  /\ timeouts = 0 /\ edits = 0
  /\ outlived = FALSE

\* restartAccesses, with queue q: nothing while a request is under way or none is
\* queued.  Nobody looks whether the call could be sent.
RestartAccesses(inProgress, q) ==
  IF inProgress
  THEN UNCHANGED accesses
  ELSE IF q = <<>>
  THEN /\ accessInProgress' = FALSE /\ call' = NoCall
       /\ UNCHANGED <<air, unsent>>
  ELSE /\ accessInProgress' = TRUE
       /\ \/ LET request == [id |-> Cardinality(air) + 1, rq |-> Head(q)]
             IN  call' = request /\ air' = air \union {request} /\ unsent' = unsent
          \/ SendsFail /\ call' = NoCall /\ air' = air /\ unsent' = TRUE

-----------------------------------------------------------------------------
(* The walk *)

\* list->call(index)
Ask(index) ==
  \/ walk' = "asking" /\ asked' = index /\ unsent' = unsent
  \/ SendsFail /\ walk' = "dead" /\ asked' = asked /\ unsent' = TRUE

\* rq.index = newIndex + 1
NextIndex == Len(rows) + 1

\* A name: a row for it, a read of it, and the next index.
ListAnswered ==
  /\ walk = "asking" /\ asked < Len(list)
  /\ rows' = Append(rows, [name |-> list[asked + 1], value |-> Unread])
  /\ queue' = Append(queue, Access(Len(rows) + 1, list[asked + 1], Unread))
  /\ Ask(NextIndex)
  /\ UNCHANGED <<node, accessInProgress, call, air, timeouts, edits>>

\* An empty name: the end of the list.
ListEnded ==
  /\ walk = "asking" /\ asked >= Len(list)
  /\ walk' = "ended"
  /\ RestartAccesses(accessInProgress, queue)
  /\ UNCHANGED <<node, rows, asked, queue, timeouts, edits>>

ListTimedOut ==
  /\ walk = "asking"
  /\ timeouts < MaxTimeouts /\ timeouts' = timeouts + 1
  /\ walk' = "waiting"
  /\ UNCHANGED <<node, rows, asked, queue, accesses, edits>>

\* Mutant: the walk begins again.
RestartIndex == 0

\* rq.index = values.size()
RetryIndex == Len(rows)

\* 100 ms later: the same index again.
ListRetried ==
  /\ walk = "waiting"
  /\ Ask(RetryIndex)
  /\ UNCHANGED <<node, rows, queue, accessInProgress, call, air, timeouts, edits>>

-----------------------------------------------------------------------------
(* Reads and edits *)

\* Mutant: the answer is shown in the row that was added last.
LastRow == Len(rows)

\* accessQueue.front().index
FrontRow == Head(queue).row

\* accessQueue.pop()
Popped == Tail(queue)

AccessAnswered ==
  /\ call # NoCall /\ queue # <<>>
  /\ \E a \in answers :
       /\ a.id = call.id
       /\ rows' = [rows EXCEPT ![FrontRow].value = a.value]
  /\ queue' = Popped
  /\ RestartAccesses(FALSE, Popped)
  /\ UNCHANGED <<node, walk, asked, timeouts, edits>>

\* Mutant: the error handler leaves accessInProgress set.
OnlyTicks == call' = NoCall /\ UNCHANGED <<accessInProgress, air, unsent>>

\* accessInProgress = false; restartAccesses()
Retried == RestartAccesses(FALSE, queue)

\* The error handler: the same request again, in a new call.
AccessTimedOut ==
  /\ call # NoCall
  /\ timeouts < MaxTimeouts /\ timeouts' = timeouts + 1
  /\ Retried
  /\ UNCHANGED <<node, rows, walk, asked, queue, edits>>

\* The timer that ticks every second.
Tick ==
  /\ ~accessInProgress /\ queue # <<>>
  /\ RestartAccesses(FALSE, queue)
  /\ UNCHANGED <<node, rows, walk, asked, queue, timeouts, edits>>

\* Mutant: the edit overtakes what is queued.
QueuedFirst(a) == <<a>> \o queue

\* accessQueue.emplace
Queued(a) == Append(queue, a)

\* setData: an edit of a row whose register is known to be mutable.
Edit(r, v) ==
  /\ edits < MaxEdits /\ edits' = edits + 1
  /\ rows[r].value # Unread /\ rows[r].name \in Mutable
  /\ queue' = Queued(Access(r, rows[r].name, v))
  /\ RestartAccesses(accessInProgress, Queued(Access(r, rows[r].name, v)))
  /\ UNCHANGED <<node, rows, walk, asked, timeouts>>

-----------------------------------------------------------------------------
(* The remote node *)

\* Its application creates a register.
Create(n) ==
  /\ n \notin {list[i] : i \in DOMAIN list}
  /\ list' = Append(list, n)
  /\ UNCHANGED <<remote, answers, outlived, rows, walk, asked, queue, accesses, timeouts, edits>>

\* The handler of Access.  The request stays in the air and may be handled again.
Handle(q) ==
  /\ q \in air
  /\ remote' = IF q.rq.value # Unread /\ q.rq.name \in Mutable
               THEN [remote EXCEPT ![q.rq.name] = q.rq.value] ELSE remote
  /\ answers' = answers \union {[id |-> q.id, value |-> remote'[q.rq.name]]}
  /\ outlived' = (outlived \/ (q.rq.value # Unread /\ q # call))
  /\ UNCHANGED <<list, rows, walk, asked, queue, accesses, timeouts, edits>>

Next ==
  \/ ListAnswered \/ ListEnded \/ ListTimedOut \/ ListRetried
  \/ AccessAnswered \/ AccessTimedOut \/ Tick
  \/ \E r \in DOMAIN rows, v \in Values : Edit(r, v)
  \/ \E n \in Names : Create(n)
  \/ \E q \in air : Handle(q)

\* The event loop runs callbacks and timers, and of a request that is sent again and
\* again one is handled, and its response received, in time.
Fairness ==
  /\ WF_vars(ListAnswered \/ ListEnded) /\ WF_vars(ListRetried)
  /\ WF_vars(Tick) /\ WF_vars(AccessAnswered)
  /\ WF_vars(call # NoCall /\ (\A a \in answers : a.id # call.id) /\ Handle(call))

Spec == Init /\ [][Next]_vars /\ Fairness

-----------------------------------------------------------------------------
(* Properties *)

Accesses == [row : Nat \ {0}, name : Names, value : Values \union {Unread}]

TypeOK ==
  /\ list \in Seq(Names) /\ remote \in [Names -> Values]
  /\ rows \in Seq([name : Names, value : Values \union {Unread}])
  /\ walk \in {"asking", "waiting", "ended", "dead"} /\ asked \in 0 .. Len(list)
  /\ queue \in Seq(Accesses)
  /\ \A i \in DOMAIN queue : queue[i].row \in DOMAIN rows
  /\ accessInProgress \in BOOLEAN
  /\ call = NoCall \/ call \in air
  /\ air \subseteq [id : Nat \ {0}, rq : Accesses]
  /\ answers \subseteq [id : Nat \ {0}, value : Values]
  /\ {unsent, outlived} \subseteq BOOLEAN

\* Row i is the remote node's register i: no timeout or retry makes the walk skip a
\* register or show one twice (noderegisters.cpp:54-85).
RowsFollowList ==
  /\ Len(rows) <= Len(list)
  /\ \A i \in DOMAIN rows : rows[i].name = list[i]

\* What is under way is the front of the queue, the only request an answer is ever
\* taken for; and the flag is not left set without a request, unless a call() has
\* failed (noderegisters.cpp:86-112).
OneAccessUnderWay ==
  /\ call # NoCall => accessInProgress /\ queue # <<>> /\ call.rq = Head(queue)
  /\ accessInProgress /\ call = NoCall => unsent

\* A row shows the value its register has, unless an edit of it is still queued, or
\* the remote node handled an edit that had been given up and sent again
\* (noderegisters.cpp:86-101, 194-211).
RowsAreCurrent ==
  ~outlived =>
    \A i \in DOMAIN rows :
      \/ rows[i].value \in {Unread, remote[rows[i].name]}
      \/ \E j \in DOMAIN queue : queue[j].row = i /\ queue[j].value # Unread

Settled ==
  walk = "ended" /\ queue = <<>> /\ \A i \in DOMAIN rows : rows[i].value # Unread

\* If no call() fails and the network does not lose everything, the table comes to
\* show every register the walk found, and every edit is answered.
TableSettles == []~unsent => <>[]Settled
=============================================================================
