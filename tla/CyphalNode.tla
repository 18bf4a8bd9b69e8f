----------------------------- MODULE CyphalNode -----------------------------
(***************************************************************************)
(* CyphalUdp (include/cyphalpp.hpp:223-470, 708-845): the subscriptions of *)
(* nodes, the objects and handles behind them, where their sockets are     *)
(* bound, and what happens to all of it when a node's address changes,     *)
(* also from inside a handler.                                             *)
(*                                                                         *)
(* A handler runs to its end before the event loop does anything else for  *)
(* its node; what user code does inside it are the operations that happen  *)
(* between its start and its Return.  A datagram in `air' may be received  *)
(* never, once or again, at any later time.  What lies between the arrival *)
(* of a datagram and its handler depends on the library of the node:       *)
(*   Boost.Asio  a completion is queued, and runs later, also when the     *)
(*               socket is gone by then;                                   *)
(*   Qt          readyRead reads all that has arrived, and handles it      *)
(*               datagram by datagram, also when the socket is gone;       *)
(*   asyncio     nothing, but a socket that is destroyed stays open.       *)
(***************************************************************************)
EXTENDS Addressing, FiniteSets

CONSTANTS
  Nodes, Handles,
  Slots,          \* memory for Subscription objects: a freed one is used again
  NodeAddrs,      \* addresses nodes may be given
  Subjects,       \* subject and service ids in use
  Loopback,       \* the nodes constructed with loopback = true
  Asio,           \* those on AsioUdpSocket
  Asyncio,        \* those on PyAsyncioUdpSocket; all others are on QCyphalUdpSocket
  MaxAir,         \* bound: datagrams sent
  MaxCopies,      \* bound: copies made of handles
  MaxMoves        \* bound: calls of setAddress after the construction

ASSUME NodeAssumption ==
  /\ NodeAddrs \subseteq {a \in Addresses : IsNodeAddress(a) /\ CarriesNode(NodeId(a))}
  /\ Subjects \subseteq {s \in U16 : s < 8192}
  /\ Loopback \subseteq Nodes
  /\ Asio \subseteq Nodes /\ Asyncio \subseteq Nodes \ Asio
  /\ MaxAir \in Nat /\ MaxCopies \in Nat /\ MaxMoves \in Nat

VARIABLES
  addr,       \* addr_ of every node
  sub,        \* the Subscription in every slot, or Free
  handle,     \* a SubscriptionHandle of user code (or of a service caller), or Empty
  air,        \* the datagrams sent
  queued,     \* Asio: what the socket in a slot received and has not handled, or NoDatagram
  batch,      \* Qt: what a readyRead has read and not finished with, or NoBatch
  running,    \* the handler that runs on every node, or Idle
  orphaned,   \* nodes of which the event loop still has to call a destroyed socket
  moves,      \* how often addresses have been changed
  copies,     \* how often a handle has been copied
  outdated,   \* history: the handles whose subscription was ended through a copy
  misused,    \* history: such a handle was used to unsubscribe
  reentered,  \* history: a handler unsubscribed itself or moved its own node
  broken      \* undefined behaviour has happened

user == <<copies, outdated, misused, reentered>>
loop == <<queued, batch, running, orphaned>>
vars == <<addr, sub, handle, air, loop, moves, user, broken>>

Qt == Nodes \ (Asio \union Asyncio)

Free   == [free |-> TRUE]
Empty  == [empty |-> TRUE]
Idle   == [idle |-> TRUE]
NoDatagram == [nothing |-> TRUE]
NoBatch == [batch |-> FALSE]
Unbound == [unbound |-> TRUE]
NotACaller == [caller |-> FALSE]

-----------------------------------------------------------------------------
(* Sockets *)

\* Where n's socket of a subscription ds is bound when n's address is a.  asyncio
\* binds to that address; the others to what ds says, if it is an address of this
\* machine.
Bound(n, a, ds) ==
  LET na == FromDataSpecifier(a, ds)
  IN  CASE ds.role = "message" -> na
        [] ds.role # "message" /\ n \in Asyncio -> [addr |-> a, port |-> na.port]
        [] OTHER -> IF na.addr = a THEN na ELSE Unbound

Subscription(n, ds) == [owner |-> n, ds |-> ds, bound |-> Bound(n, addr[n], ds)]

\* A datagram: its source and destination, and what node meant by it.
Datagram(n, from, ds) ==
  [node |-> n, from |-> from, to |-> FromDataSpecifier(addr[n], ds), ds |-> ds]

Used(s) == sub[s] # Free
SubsOf(n) == {s \in Slots : Used(s) /\ sub[s].owner = n}
IsRunning(n, s) == running[n] # Idle /\ running[n].slot = s

\* Nothing of n is under way: the event loop may begin something for it.
Quiet(n) == running[n] = Idle /\ batch[n] = NoBatch

\* User code of n runs: in a handler, or in a callback of its own.
MayAct(n) == running[n] # Idle \/ batch[n] = NoBatch

\* What the event loop still has of the socket in slot s when it is destroyed: on
\* Boost.Asio a completion that is queued, on asyncio the transport, which is closed
\* only if there is none, on Qt the timer that is to bind it again.
Outlives(s) ==
  \/ sub[s].owner \in Asio /\ queued[s] # NoDatagram
  \/ sub[s].owner \in Asyncio
  \/ sub[s].owner \in Qt /\ sub[s].bound = Unbound

\* The same of sender_udp_, which has a transport once something was sent.
SenderOutlives(n) ==
  n \in Asyncio /\ \E d \in air : d.node = n /\ d.from = addr[n] /\ d.ds.role = "message"

-----------------------------------------------------------------------------

Init ==
  /\ addr \in {f \in [Nodes -> NodeAddrs] : \A m, n \in Nodes : f[m] = f[n] => m = n}
  /\ sub = [s \in Slots |-> Free]
  /\ handle = [h \in Handles |-> Empty]
  /\ air = {}
  /\ queued = [s \in Slots |-> NoDatagram]
  /\ batch = [n \in Nodes |-> NoBatch]
  /\ running = [n \in Nodes |-> Idle]
  /\ orphaned = {}
  /\ moves = 0
  /\ copies = 0 /\ outdated = {} /\ misused = FALSE /\ reentered = FALSE
  /\ broken = FALSE

\* subscribe, subscribeRaw: a new Subscription, connected, and a handle to it.  On
\* Boost.Asio a socket that cannot be bound throws, and nothing is left of it.
Subscribe(n, h, s, ds, caller) ==
  /\ handle[h] = Empty
  /\ sub[s] = Free
  /\ n \in Asio => Bound(n, addr[n], ds) # Unbound
  /\ sub' = [sub EXCEPT ![s] = Subscription(n, ds)]
  /\ handle' = [handle EXCEPT ![h] = [slot |-> s, node |-> n, caller |-> caller,
                                       service |-> ds.subject_id]]
  /\ UNCHANGED <<addr, air, loop, moves, user, broken>>

SubscribeMessage(n, h, s, subject) ==
  Subscribe(n, h, s, [role |-> "message", node_id |-> 0, subject_id |-> subject], NotACaller)

SubscribeServiceRequest(n, h, s, service) ==
  Subscribe(n, h, s, [role |-> "request", node_id |-> NodeId(addr[n]), subject_id |-> service],
            NotACaller)

\* The raw variant leaves the node id 0 in the specifier.
SubscribeRawServiceRequest(n, h, s, service) ==
  Subscribe(n, h, s, [role |-> "request", node_id |-> 0, subject_id |-> service], NotACaller)

\* prepareServiceCalls: the caller's sender socket is prepared with the address
\* the node has now, and keeps it.
PrepareServiceCalls(n, h, s, service) ==
  Subscribe(n, h, s, [role |-> "response", node_id |-> NodeId(addr[n]), subject_id |-> service],
            addr[n])

\* SubscriptionHandle's copy constructor.
CopyHandle(h, g) ==
  /\ handle[h] # Empty /\ handle[h].caller = NotACaller
  /\ handle[g] = Empty
  /\ handle' = [handle EXCEPT ![g] = handle[h]]
  /\ copies < MaxCopies
  /\ copies' = copies + 1
  /\ outdated' = IF h \in outdated THEN outdated \union {g} ELSE outdated
  /\ UNCHANGED <<addr, sub, air, loop, moves, misused, reentered, broken>>

\* subs.erase
Removed(s) == [sub EXCEPT ![s] = Free]

\* Mutant: the handle keeps its pointer.
HandleKept(h) == handle

\* sub.value_ = nullptr
HandleCleared(h) == [handle EXCEPT ![h] = Empty]

\* The other handles to the same object.
CopiesOf(h) ==
  {g \in Handles \ {h} : handle[g] # Empty /\ g \notin outdated /\ handle[g].slot = handle[h].slot}

\* unsubscribe, and the destruction of a service caller: the object the handle
\* points to is found by its address among the node's subscriptions.
Unsubscribe(h) ==
  /\ handle[h] # Empty
  /\ handle[h].slot \in SubsOf(handle[h].node)
  /\ sub' = Removed(handle[h].slot)
  /\ handle' = HandleCleared(h)
  /\ reentered' = (reentered \/ IsRunning(handle[h].node, handle[h].slot))
  /\ running' = IF IsRunning(handle[h].node, handle[h].slot)
                THEN [running EXCEPT ![handle[h].node].gone = TRUE] ELSE running
  /\ queued' = [queued EXCEPT ![handle[h].slot] = NoDatagram]
  /\ orphaned' = IF Outlives(handle[h].slot) THEN orphaned \union {handle[h].node} ELSE orphaned
  /\ outdated' = IF h \in outdated THEN outdated \ {h} ELSE outdated \union CopiesOf(h)
  /\ misused' = (misused \/ h \in outdated)
  /\ UNCHANGED <<addr, air, batch, moves, copies, broken>>

\* ... and it is not there: subs.erase(subs.end()).
UnsubscribeStale(h) ==
  /\ handle[h] # Empty
  /\ handle[h].slot \notin SubsOf(handle[h].node)
  /\ misused' = (misused \/ h \in outdated)
  /\ broken' = TRUE
  /\ UNCHANGED <<addr, sub, handle, air, loop, moves, copies, outdated, reentered>>

\* Mutant: the specifier keeps the old node id.
NodeIdKept(s, a) == sub[s].ds

\* sub->ds.node_id = addr_.node_id()
Renamed(s, a) == [sub[s].ds EXCEPT !.node_id = NodeId(a)]

\* Mutant: the socket stays.
NotReconnected(s, a) == [sub[s] EXCEPT !.ds = Renamed(s, a)]

\* reconnect: a new socket, bound for the new address.
Reconnected(s, a) ==
  [owner |-> sub[s].owner, ds |-> Renamed(s, a), bound |-> Bound(sub[s].owner, a, Renamed(s, a))]

\* setAddress: the sender and every subscription get a new socket, bound for the new
\* address, and the old ones are destroyed.
SetAddress(n, a) ==
  /\ moves < MaxMoves
  /\ \A m \in Nodes \ {n} : addr[m] # a
  /\ moves' = moves + 1
  /\ addr' = [addr EXCEPT ![n] = a]
  /\ sub' = [s \in Slots |-> IF s \in SubsOf(n) THEN Reconnected(s, a) ELSE sub[s]]
  /\ reentered' = (reentered \/ running[n] # Idle)
  /\ running' = IF running[n] # Idle THEN [running EXCEPT ![n].moved = TRUE] ELSE running
  /\ batch' = IF batch[n] # NoBatch THEN [batch EXCEPT ![n].moved = TRUE] ELSE batch
  /\ queued' = [s \in Slots |-> IF s \in SubsOf(n) THEN NoDatagram ELSE queued[s]]
  /\ orphaned' = IF SenderOutlives(n) \/ \E s \in SubsOf(n) : Outlives(s)
                 THEN orphaned \union {n} ELSE orphaned
  /\ UNCHANGED <<handle, air, copies, outdated, misused, broken>>

-----------------------------------------------------------------------------
(* Transfers *)

Emit(d) == Cardinality(air \union {d}) <= MaxAir /\ air' = air \union {d}

\* sendMessage, through sender_udp_, which follows the node's address.
SendMessage(n, subject) ==
  /\ Emit(Datagram(n, addr[n], [role |-> "message", node_id |-> 0, subject_id |-> subject]))
  /\ UNCHANGED <<addr, sub, handle, loop, moves, user, broken>>

\* A service caller's operator(), through its own sender socket.
Request(h, target) ==
  /\ handle[h] # Empty /\ handle[h].caller # NotACaller
  /\ Emit(Datagram(handle[h].node, handle[h].caller,
        [role |-> "request", node_id |-> target, subject_id |-> handle[h].service]))
  /\ UNCHANGED <<addr, sub, handle, loop, moves, user, broken>>

\* Mutant: the subject is not compared.
OnlyRoleMatches(s, tm) == sub[s].ds.role = tm.role

\* The comparisons of the receive handler with the subscription.
Matches(s, tm) == sub[s].ds.role = tm.role /\ sub[s].ds.subject_id = tm.subject_id

\* source.addr == addr_ and not loopback_enabled
OwnDatagram(n, d) == d.from = addr[n] /\ n \notin Loopback

\* What from_packet makes of d, with the address n has now, when d came in at `at'.
Read(n, d, at) == FromPacket(addr[n], [addr |-> d.from, port |-> 0], at)

\* The checks of the receive handler.  A datagram that fails one is dropped.
Passes(n, s, d, at) ==
  /\ ~OwnDatagram(n, d)
  /\ "error" \notin DOMAIN Read(n, d, at)
  /\ Matches(s, Read(n, d, at))

\* One that passes is handed to the handler of the subscription.
Starts(n, s, d, at) ==
  running' = [running EXCEPT ![n] =
    [slot |-> s, tm |-> Read(n, d, at), datagram |-> d, gone |-> FALSE, moved |-> FALSE]]

\* asyncio: datagram_received, in the callback that reads the datagram.
DatagramReceived(n, s, d) ==
  /\ n \in Asyncio /\ Quiet(n)
  /\ sub[s].bound = d.to
  /\ Passes(n, s, d, sub[s].bound)
  /\ Starts(n, s, d, sub[s].bound)
  /\ UNCHANGED <<addr, sub, handle, air, queued, batch, orphaned, moves, user, broken>>

\* Boost.Asio: the one receive a socket has asked for completes ...
Complete(n, s, d) ==
  /\ n \in Asio /\ Quiet(n)
  /\ sub[s].bound = d.to
  /\ queued[s] = NoDatagram
  /\ queued' = [queued EXCEPT ![s] = d]
  /\ UNCHANGED <<addr, sub, handle, air, batch, running, orphaned, moves, user, broken>>

\* ... and its completion runs.
HandleReceiveFrom(n, s) ==
  /\ n \in Asio /\ Quiet(n)
  /\ queued[s] # NoDatagram
  /\ queued' = [queued EXCEPT ![s] = NoDatagram]
  /\ \/ Passes(n, s, queued[s], sub[s].bound) /\ Starts(n, s, queued[s], sub[s].bound)
     \/ ~Passes(n, s, queued[s], sub[s].bound) /\ running' = running
  /\ UNCHANGED <<addr, sub, handle, air, batch, orphaned, moves, user, broken>>

\* Qt: readyRead reads every datagram that has arrived at the socket ...
ReadyRead(n, s) ==
  /\ n \in Qt /\ Quiet(n)
  /\ \E d \in air : d.to = sub[s].bound
  /\ batch' = [batch EXCEPT ![n] = [slot |-> s, at |-> sub[s].bound, moved |-> FALSE,
                                    taken |-> {d \in air : d.to = sub[s].bound}]]
  /\ UNCHANGED <<addr, sub, handle, air, queued, running, orphaned, moves, user, broken>>

\* ... and calls the handler for each of them, with the destination it came to.
HandleNext(n, d) ==
  /\ running[n] = Idle /\ batch[n] # NoBatch
  /\ d \in batch[n].taken
  /\ Passes(n, batch[n].slot, d, batch[n].at)
  /\ Starts(n, batch[n].slot, d, batch[n].at)
  /\ UNCHANGED <<addr, sub, handle, air, queued, batch, orphaned, moves, user, broken>>

\* readyRead returns into its QUdpSocket, which may be destroyed by now.
ReadyReadEnds(n) ==
  /\ running[n] = Idle /\ batch[n] # NoBatch
  /\ batch' = [batch EXCEPT ![n] = NoBatch]
  /\ broken' \in (IF batch[n].moved THEN BOOLEAN ELSE {FALSE})
  /\ UNCHANGED <<addr, sub, handle, air, queued, running, orphaned, moves, user>>

\* The event loop calls a socket that was destroyed.
CallOrphan(n) ==
  /\ n \in orphaned /\ Quiet(n)
  /\ broken' = TRUE
  /\ UNCHANGED <<addr, sub, handle, air, loop, moves, user>>

\* What the handler returns to is destroyed: its Subscription (the std::function
\* it runs in), or on Boost.Asio the socket that will receive again.
ReturnsToFreed(n) == running[n].gone \/ (running[n].moved /\ n \in Asio)

\* Mutant: the response goes to the node id of the subscription.
ResponseToSelf(n) ==
  [role |-> "response", node_id |-> sub[running[n].slot].ds.node_id,
   subject_id |-> running[n].tm.subject_id]

\* The response is addressed to where the request came from.
Response(n) ==
  [role |-> "response", node_id |-> running[n].tm.node_id,
   subject_id |-> running[n].tm.subject_id]

\* The handler of a request returns: the response leaves through the server's
\* own socket.
ReturnResponse(n) ==
  /\ running[n] # Idle /\ ~ReturnsToFreed(n)
  /\ running[n].tm.role = "request"
  /\ Emit(Datagram(n, sub[running[n].slot].bound.addr, Response(n)))
  /\ running' = [running EXCEPT ![n] = Idle]
  /\ UNCHANGED <<addr, sub, handle, queued, batch, orphaned, moves, user, broken>>

\* Any other handler returns, or the response could not be sent.
Return(n) ==
  /\ running[n] # Idle /\ ~ReturnsToFreed(n)
  /\ running' = [running EXCEPT ![n] = Idle]
  /\ UNCHANGED <<addr, sub, handle, air, queued, batch, orphaned, moves, user, broken>>

ReturnDangling(n) ==
  /\ running[n] # Idle /\ ReturnsToFreed(n)
  /\ broken' = TRUE
  /\ UNCHANGED <<addr, sub, handle, air, loop, moves, user>>

\* What user code does.
Operate(n) ==
  \/ \E h \in Handles, s \in Slots, i \in Subjects :
       \/ SubscribeMessage(n, h, s, i) \/ SubscribeServiceRequest(n, h, s, i)
       \/ SubscribeRawServiceRequest(n, h, s, i) \/ PrepareServiceCalls(n, h, s, i)
  \/ \E h \in {g \in Handles : handle[g] # Empty /\ handle[g].node = n} :
       \/ Unsubscribe(h) \/ UnsubscribeStale(h)
       \/ \E g \in Handles : CopyHandle(h, g)
       \/ \E a \in NodeAddrs : Request(h, NodeId(a))
  \/ \E a \in NodeAddrs : SetAddress(n, a)
  \/ \E i \in Subjects : SendMessage(n, i)

\* What the event loop does.
EventLoop(n) ==
  \/ \E s \in SubsOf(n) :
       \/ \E d \in air : DatagramReceived(n, s, d) \/ Complete(n, s, d)
       \/ HandleReceiveFrom(n, s) \/ ReadyRead(n, s)
  \/ \E d \in air : HandleNext(n, d)
  \/ ReadyReadEnds(n) \/ CallOrphan(n)
  \/ ReturnResponse(n) \/ Return(n) \/ ReturnDangling(n)

\* After undefined behaviour nothing can be said.
Next == ~broken /\ \E n \in Nodes : (MayAct(n) /\ Operate(n)) \/ EventLoop(n)

Spec == Init /\ [][Next]_vars

-----------------------------------------------------------------------------
(* Properties *)

TypeOK ==
  /\ addr \in [Nodes -> NodeAddrs]
  /\ \A s \in Slots : Used(s) =>
       /\ sub[s].owner \in Nodes
       /\ sub[s].ds \in Specifiers
       /\ sub[s].ds.subject_id \in Subjects
  /\ \A h \in Handles : handle[h] # Empty =>
       /\ handle[h].slot \in Slots /\ handle[h].node \in Nodes
       /\ handle[h].service \in Subjects
       /\ handle[h].caller \in NodeAddrs \union {NotACaller}
  /\ \A d \in air : d.node \in Nodes /\ d.from \in NodeAddrs /\ d.ds \in Specifiers
  /\ \A n \in Nodes : running[n] # Idle => running[n].slot \in Slots /\ running[n].datagram \in air
  /\ \A s \in Slots : queued[s] # NoDatagram => queued[s] \in air
  /\ \A n \in Nodes : batch[n] # NoBatch =>
       batch[n].slot \in Slots /\ batch[n].taken \subseteq air
  /\ orphaned \subseteq Nodes
  /\ {misused, reentered, broken} \subseteq BOOLEAN

\* Handles and objects: as long as nobody unsubscribes with a copy of a handle that
\* was already used for that, every other handle points to a live subscription, no
\* two subscriptions are mixed up by memory that is used again, and undefined
\* behaviour comes from the sockets only: from a handler that unsubscribes itself or
\* moves its node, or from an event loop that still calls a destroyed socket
\* (cyphalpp.hpp:273-296).
HandlesOwnTheirSubscription ==
  ~misused =>
    /\ \A h \in Handles : handle[h] # Empty /\ h \notin outdated =>
         /\ handle[h].slot \in SubsOf(handle[h].node)
         /\ sub[handle[h].slot].ds.subject_id = handle[h].service
         /\ sub[handle[h].slot].ds.role = "response" <=> handle[h].caller # NotACaller
    /\ broken => reentered \/ orphaned # {}

\* Every response answers a request of the node it goes to, and comes from the
\* node the request was sent to, unless a handler moved that node between the
\* two (subscribeServiceRequest, cyphalpp.hpp:366-380).
EveryResponseAnswers ==
  \A d \in air : d.ds.role = "response" =>
    \E q \in air :
      /\ q.ds.role = "request" /\ q.ds.subject_id = d.ds.subject_id
      /\ NodeId(q.from) = d.ds.node_id
      /\ ~reentered => q.ds.node_id = NodeId(d.from)

\* What Transfers sees of it: node ids, pairs of role and subject, transfers, and
\* what a handler was given.
Id(n)        == NodeId(addr[n])
Listening(n) == {<<sub[s].ds.role, sub[s].ds.subject_id>> : s \in SubsOf(n)}
Handling(n)  == IF running[n] = Idle THEN [handling |-> FALSE] ELSE running[n].tm
Sent(d)      == [role |-> d.ds.role, source |-> NodeId(d.from), target |-> d.ds.node_id,
                 subject |-> d.ds.subject_id]
TakenIn(n)   == {queued[s] : s \in {s \in SubsOf(n) : queued[s] # NoDatagram}}
                  \union (IF batch[n] = NoBatch THEN {} ELSE batch[n].taken)

Promise == INSTANCE Transfers WITH
  Ids       <- {0} \union {NodeId(a) : a \in NodeAddrs},
  id        <- [n \in Nodes |-> Id(n)],
  listening <- [n \in Nodes |-> Listening(n)],
  sent      <- {Sent(d) : d \in air},
  inbox     <- [n \in Nodes |-> {Sent(d) : d \in TakenIn(n)}],
  handling  <- [n \in Nodes |-> Handling(n)]

\* Until behaviour is undefined, a handler runs only for what its node listens to and
\* what was meant for the id the node had when its socket took the datagram in, and is
\* told what was sent and by which node, whatever addresses, subscriptions and memory do
\* meanwhile (cyphalpp.hpp:256-270, 708-754, 803-845).
ImplementsTransfers == Promise!Spec
=============================================================================
