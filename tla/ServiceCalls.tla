---------------------------- MODULE ServiceCalls ----------------------------
(***************************************************************************)
(* The service client of a cyphalpp node: every ServiceCaller and          *)
(* RequestMappedServiceCaller of ONE service that one CyphalUdp owns       *)
(* (include/cyphalpp.hpp:471-706), its timers, the unicast port the        *)
(* callers share, the server's handler and the UDP network between them.   *)
(*                                                                         *)
(* One event loop runs every callback to its end, so a callback is one     *)
(* action.  What user code does inside a callback (another call, the       *)
(* destruction of a caller) happens after the caller's own state has been  *)
(* updated, and is therefore one of the actions that may follow.  A        *)
(* readyRead of Qt calls a handler for each datagram it has read: it is    *)
(* several actions, with only its user code and the rest of the world      *)
(* between them (EventLoopIsFree).  What destroyed sockets do on asyncio   *)
(* is in CyphalNode.                                                       *)
(*                                                                         *)
(* Datagrams are never removed from `requests' and `responses': one may    *)
(* be handled never (loss), once, or again (duplication), in any order,    *)
(* and even after the client process has been restarted.                   *)
(***************************************************************************)
EXTENDS Naturals

CONSTANTS
  Callers,        \* caller objects, all of the same service on the same node
  Mapped,         \* those that are RequestMappedServiceCaller objects
  LateCallbacks,  \* TRUE for Boost.Asio: a timer's handler that is already queued
                  \* runs although the timer was destroyed;
                  \* FALSE for Qt (and for the timers of asyncio), where
                  \* destroying the timer cancels it
  MaxTid,         \* bound: transfer ids per incarnation of the client process
  MaxRestarts     \* bound: restarts of the client process

ASSUME ServiceCallsAssumption ==
  /\ Mapped \subseteq Callers
  /\ LateCallbacks \in BOOLEAN
  /\ MaxTid \in Nat
  /\ MaxRestarts \in Nat

Tids         == 0 .. (MaxTid - 1)
Incarnations == 0 .. MaxRestarts

\* A call, by the process that made it, the transfer id in the header of its
\* datagrams, and the caller object.  Only the tid travels on the wire.
Calls == [inc : Incarnations, tid : Tids, caller : Callers]

VARIABLES
  incarnation,  \* which run of the client process this is
  transferId,   \* CyphalUdp::transfer_id_, shared by everything the node sends
  caller,       \* "none", "live" or "dead", for every caller object
  pending,      \* the transfer ids in ServiceCaller::calls, for every caller
  timer,        \* the timeout timer of every call: "off", "armed", "queued"
  requests,     \* request datagrams sent (the calls operator() accepted)
  responses,    \* response datagrams sent by the server
  rx,           \* what a caller's socket has received and not yet handled
  answered,     \* how often the response callback ran for a call
  failed,       \* how often the error callback ran for a call
  dangling      \* undefined behaviour: a handler ran on a destroyed caller

network == <<requests, responses>>
outcome == <<answered, failed>>
vars == <<incarnation, transferId, caller, pending, timer, rx, dangling, network,
          outcome>>

Init ==
  /\ incarnation = 0
  /\ transferId = 0
  /\ caller = [c \in Callers |-> "none"]
  /\ pending = [c \in Callers |-> {}]
  /\ timer = [k \in Calls |-> "off"]
  /\ requests = {}
  /\ responses = {}
  /\ rx = [c \in Callers |-> {}]
  /\ answered = [k \in Calls |-> 0]
  /\ failed = [k \in Calls |-> 0]
  /\ dangling = FALSE

\* The call with transfer id t that the running process made through c.
CallOf(c, t) == [inc |-> incarnation, tid |-> t, caller |-> c]

IsPending(k) == k.inc = incarnation /\ k.tid \in pending[k.caller]

-----------------------------------------------------------------------------
(* The pieces the callers are built from *)

\* Mutants: the id is not advanced; it is given back when the send fails.
IdNotAdvanced == transferId
IdGivenBack   == transferId - 1

\* self.transfer_id_++
NextTransferId == transferId + 1

\* calls.find / std::remove_if found the transfer id.
Found(c, t) == t \in pending[c]

\* Mutant: the call is found but not erased.
NotErased(c, t) == pending

\* calls.erase
Erased(c, t) == [pending EXCEPT ![c] = @ \ {t}]

\* Mutant: one timer for all calls of a caller; a new call restarts it.
SharedTimerStarted(k) ==
  [x \in Calls |-> IF x = k THEN "armed"
                   ELSE IF x.caller = k.caller THEN "off" ELSE timer[x]]

\* startSingleShot on the call's own timer.
Started(k) == [timer EXCEPT ![k] = "armed"]

\* Mutant: nobody destroys the timers.
NotCancelled(K) == timer

\* Destroying the timers of the calls in K.
Cancelled(K) ==
  [k \in Calls |-> IF k \in K /\ ~(LateCallbacks /\ timer[k] = "queued")
                   THEN "off" ELSE timer[k]]

-----------------------------------------------------------------------------
(* Callers *)

\* prepareServiceCalls: the constructor subscribes to the response port.
Prepare(c) ==
  /\ caller[c] = "none"
  /\ caller' = [caller EXCEPT ![c] = "live"]
  /\ UNCHANGED <<incarnation, transferId, pending, timer, rx, dangling, network, outcome>>

\* The user drops the last reference: ~ServiceCaller unsubscribes, which destroys
\* the socket, and the members' destructors destroy the calls and their timers.
\* What the socket has received and not handled stays with the event loop.
Destroy(c) ==
  /\ caller[c] = "live"
  /\ caller' = [caller EXCEPT ![c] = "dead"]
  /\ pending' = [pending EXCEPT ![c] = {}]
  /\ timer' = Cancelled({k \in Calls : k.caller = c})
  /\ UNCHANGED <<incarnation, transferId, rx, dangling, network, outcome>>

\* operator(), the request was sent: the call and its timer are stored.
Call(c) ==
  /\ caller[c] = "live"
  /\ transferId < MaxTid
  /\ requests' = requests \union {CallOf(c, transferId)}
  /\ timer' = Started(CallOf(c, transferId))
  /\ pending' = [pending EXCEPT ![c] = @ \union {transferId}]
  /\ transferId' = NextTransferId
  /\ UNCHANGED <<incarnation, caller, responses, rx, dangling, outcome>>

\* operator(), sendMessage failed: the transfer id is spent, nothing is stored.
CallNotSent(c) ==
  /\ caller[c] = "live"
  /\ transferId < MaxTid
  /\ transferId' = NextTransferId
  /\ UNCHANGED <<incarnation, caller, pending, timer, rx, dangling, network, outcome>>

-----------------------------------------------------------------------------
(* The server and the network *)

\* The server's subscription handler answers under the request's transfer id.
\* A request that is lost, or whose answer could not be sent, is never handled.
HandleRequest(k) ==
  /\ k \in requests \ responses
  /\ responses' = responses \union {k}
  /\ UNCHANGED <<incarnation, transferId, caller, pending, timer, requests, rx,
                 dangling, outcome>>

\* On Qt a readyRead handles all it has read before the event loop goes on.
EventLoopIsFree == LateCallbacks \/ \A c \in Callers : rx[c] = {}

\* All callers of a service are bound to one address and port: the system
\* hands a response to any one of their sockets, whoever made the call.  A socket
\* of Boost.Asio takes one datagram and queues its completion, a readyRead of Qt
\* takes all that have come.
Receive(c, R) ==
  /\ caller[c] = "live"
  /\ rx[c] = {}
  /\ EventLoopIsFree
  /\ R # {} /\ R \subseteq responses
  /\ LateCallbacks => \E k \in Calls : R = {k}
  /\ rx' = [rx EXCEPT ![c] = R]
  /\ UNCHANGED <<incarnation, transferId, caller, pending, timer, dangling, network,
                 outcome>>

-----------------------------------------------------------------------------
(* The response subscription's handler *)

\* findAndRemove / takeCall found the transfer id: the call leaves, its timer
\* with it, and the response callback runs.
AcceptResponse(c, r) ==
  /\ caller[c] = "live"
  /\ r \in rx[c]
  /\ Found(c, r.tid)
  /\ rx' = [rx EXCEPT ![c] = @ \ {r}]
  /\ pending' = Erased(c, r.tid)
  /\ timer' = Cancelled({CallOf(c, r.tid)})
  /\ answered' = [answered EXCEPT ![CallOf(c, r.tid)] = @ + 1]
  /\ UNCHANGED <<incarnation, transferId, caller, failed, dangling, network>>

\* No such call: TransferIdOutOfSync, the response is gone.
RejectResponse(c, r) ==
  /\ caller[c] = "live"
  /\ r \in rx[c]
  /\ ~Found(c, r.tid)
  /\ rx' = [rx EXCEPT ![c] = @ \ {r}]
  /\ UNCHANGED <<incarnation, transferId, caller, pending, timer, dangling, network,
                 outcome>>

\* A socket that was destroyed meanwhile: on Boost.Asio its queued completion runs,
\* on Qt the readyRead that called the handler goes on with the next datagram.
LateReceive(c, r) ==
  /\ caller[c] = "dead"
  /\ r \in rx[c]
  /\ rx' = [rx EXCEPT ![c] = @ \ {r}]
  /\ dangling' = TRUE
  /\ UNCHANGED <<incarnation, transferId, caller, pending, timer, network, outcome>>

HandleResponse(c, r) == AcceptResponse(c, r) \/ RejectResponse(c, r) \/ LateReceive(c, r)

-----------------------------------------------------------------------------
(* Timeouts *)

\* The timer's deadline passes: its handler is queued in the event loop.
Expire(k) ==
  /\ timer[k] = "armed"
  /\ timer' = [timer EXCEPT ![k] = "queued"]
  /\ UNCHANGED <<incarnation, transferId, caller, pending, rx, dangling, network,
                 outcome>>

\* The handler of k's timer runs.
Fires(k) == EventLoopIsFree /\ timer[k] = "queued" /\ timer' = [timer EXCEPT ![k] = "off"]

\* The error callback of k runs, and k is not among the calls any more.
ReportError(k) ==
  /\ pending' = Erased(k.caller, k.tid)
  /\ failed' = [failed EXCEPT ![k] = @ + 1]
  /\ UNCHANGED <<incarnation, transferId, caller, rx, answered, dangling, network>>

\* RequestMappedServiceCaller: takeCall finds the call and its errorHandler runs.
MappedTimeout(k) ==
  /\ k.caller \in Mapped
  /\ caller[k.caller] = "live"
  /\ Found(k.caller, k.tid)
  /\ Fires(k)
  /\ ReportError(k)

\* ... and takeCall does not find it: the handler returns.
MappedTimeoutTooLate(k) ==
  /\ k.caller \in Mapped
  /\ caller[k.caller] = "live"
  /\ ~Found(k.caller, k.tid)
  /\ Fires(k)
  /\ UNCHANGED <<incarnation, transferId, caller, pending, rx, dangling, network,
                 outcome>>

\* ServiceCaller: what findAndRemove returns is not looked at.
SharedTimeout(k) ==
  /\ k.caller \notin Mapped
  /\ caller[k.caller] = "live"
  /\ Fires(k)
  /\ ReportError(k)

\* The handler of a timer whose caller was destroyed: it captured `this'.
LateTimeout(k) ==
  /\ caller[k.caller] = "dead"
  /\ Fires(k)
  /\ dangling' = TRUE
  /\ UNCHANGED <<incarnation, transferId, caller, pending, rx, network, outcome>>

Timeout(k) ==
  MappedTimeout(k) \/ MappedTimeoutTooLate(k) \/ SharedTimeout(k) \/ LateTimeout(k)

-----------------------------------------------------------------------------
(* The client process dies and is started again: every object is gone and  *)
(* transfer ids start from 0, while its old datagrams are still under way. *)
Restart ==
  /\ incarnation < MaxRestarts
  /\ incarnation' = incarnation + 1
  /\ transferId' = 0
  /\ caller' = [c \in Callers |-> "none"]
  /\ pending' = [c \in Callers |-> {}]
  /\ timer' = [k \in Calls |-> "off"]
  /\ rx' = [c \in Callers |-> {}]
  /\ UNCHANGED <<dangling, network, outcome>>

Next ==
  \/ \E c \in Callers :
       \/ Prepare(c) \/ Destroy(c) \/ Call(c) \/ CallNotSent(c)
       \/ \E R \in SUBSET responses : Receive(c, R)
       \/ \E r \in rx[c] : HandleResponse(c, r)
  \/ \E k \in Calls : HandleRequest(k) \/ Expire(k) \/ Timeout(k)
  \/ Restart

SafetySpec == Init /\ [][Next]_vars

\* Time passes, and the event loop runs what it has queued: a handler of a timer gets
\* its turn among the datagrams, and a readyRead comes to its end.  Nothing is assumed
\* of the network or of the server.
Fairness ==
  /\ \A k \in Calls : WF_vars(Expire(k)) /\ SF_vars(Timeout(k))
  /\ \A c \in Callers : WF_vars(\E r \in rx[c] : HandleResponse(c, r))

Spec == SafetySpec /\ Fairness

-----------------------------------------------------------------------------
(* Properties *)

TypeOK ==
  /\ incarnation \in Incarnations
  /\ transferId \in 0 .. MaxTid
  /\ caller \in [Callers -> {"none", "live", "dead"}]
  /\ pending \in [Callers -> SUBSET Tids]
  /\ timer \in [Calls -> {"off", "armed", "queued"}]
  /\ requests \in SUBSET Calls
  /\ responses \in SUBSET Calls
  /\ rx \in [Callers -> SUBSET Calls]
  /\ answered \in [Calls -> Nat]
  /\ failed \in [Calls -> Nat]
  /\ dangling \in BOOLEAN

\* A call waits for its answer exactly as long as its timeout timer runs: no
\* pending call is left without a timeout, and no armed timer outlives its call
\* (operator() and findAndRemove/takeCall, cyphalpp.hpp:553-585, 633-678).
TimerGuardsPending ==
  \A k \in Calls :
    /\ IsPending(k) => timer[k] # "off"
    /\ timer[k] = "armed" => IsPending(k)

\* The calls for which the code keeps what prepareServiceCalls promises: all of
\* them where destroying a timer cancels it, those of RequestMappedServiceCaller
\* whatever the event loop does.
PromisedCalls == {k \in Calls : LateCallbacks => k.caller \in Mapped}

\* An accepted call is answered or failed, and not both or twice, however the
\* response, its duplicates and the timeout race (cyphalpp.hpp:553-585, 633-678).
AtMostOneOutcome == \A k \in PromisedCalls : answered[k] + failed[k] <= 1

\* The same for every call: "the result of a call will be delivered to callback
\* f or to ef in case of a error" (cyphalpp.hpp:683-685).
EitherAnswerOrError == \A k \in Calls : answered[k] + failed[k] <= 1

\* Only transfer ids tell responses apart.  A callback runs for a response to
\* its own call, whichever caller's socket got it; only a response left over
\* from an earlier run of the process can be mistaken for it
\* (cyphalpp.hpp:524-533, 621-629: the source of a response is not checked).
AnswerMatchesCall ==
  [][\A k \in Calls : answered'[k] # answered[k] =>
       \E r \in rx[k.caller] : r.tid = k.tid /\ (r.inc = k.inc => r = k)]_vars

\* A call that was accepted does not stay pending for ever, even if the network
\* loses everything (the timers of cyphalpp.hpp:561-566 and 671-674).
CallsSettle == \A k \in Calls : IsPending(k) ~> ~IsPending(k)

Status(k) ==
  IF k \notin requests THEN "idle"
  ELSE CASE answered[k] = 0 /\ failed[k] = 0 -> IF IsPending(k) THEN "pending" ELSE "dropped"
         [] answered[k] = 1 /\ failed[k] = 0 -> "answered"
         [] answered[k] = 0 /\ failed[k] = 1 -> "failed"
         [] OTHER -> "twice"

Promise == INSTANCE CallOutcomes
             WITH Calls <- PromisedCalls, status <- [k \in PromisedCalls |-> Status(k)]

\* Callers, timers, port sharing and the network together implement the promise
\* of prepareServiceCalls, liveness included (cyphalpp.hpp:471-706).
ImplementsPromise == Promise!Spec
=============================================================================
