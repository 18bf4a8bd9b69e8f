------------------------------ MODULE Sockets -------------------------------
(***************************************************************************)
(* The sockets of one node in the three libraries it can be built with,    *)
(* while the network interface comes and goes: the sender, which the       *)
(* heartbeat publisher writes to once a second, and the socket of one      *)
(* subscription.  What is called on a socket that is gone is undefined:    *)
(* programs are modelled that do not let it come to that.                  *)
(***************************************************************************)
EXTENDS Integers, Sequences

CONSTANTS
  MaxQueue,   \* more messages than this do not wait for an endpoint
  Cycle       \* messages are numbered modulo this

ASSUME SocketsAssumption ==
  MaxQueue \in Nat \ {0} /\ Cycle \in Nat /\ Cycle > MaxQueue + 1

VARIABLES
  library,     \* "asio", "qt" or "asyncio"
  up,          \* the interface with the node's address is there
  heartbeat,   \* the publisher's timer: "armed" or "ended"
  bound,       \* the sender: write_bound_, or Qt's state of the socket
  opening,     \* an endpoint for the sender is being created
  transport,   \* transport_ of the sender
  queue,       \* tx_queue_ of the sender
  next,        \* history: the number of the next message a socket takes
  lastSent,    \* history: the number of the last message that went out
  listener     \* the subscription's socket: "bound", "opening", "waiting" or "deaf"

sender == <<bound, opening, transport, queue>>
vars   == <<library, up, heartbeat, sender, next, lastSent, listener>>

After(k) == IF k = Cycle - 1 THEN 0 ELSE k + 1

-----------------------------------------------------------------------------
(* listenUnicast and listenMulticast *)

\* Mutant: what cannot be bound is left alone.
LeftAlone == "deaf"

\* rebindUnicast, rebindMulticast: the timer that tries again.
Rebind == "waiting"

\* Where a socket that is told to listen finds itself.  Asio's bind throws; an asyncio
\* endpoint is created by a task.
Listening ==
  CASE library = "asio" -> IF up THEN "bound" ELSE "deaf"
    [] library = "qt" -> IF up THEN "bound" ELSE Rebind
    [] library = "asyncio" -> "opening"

FreshSender ==
  /\ bound' = FALSE /\ opening' = FALSE /\ transport' = FALSE /\ queue' = <<>>

Init ==
  /\ library \in {"asio", "qt", "asyncio"} /\ up \in BOOLEAN
  /\ heartbeat = "armed"
  /\ bound = FALSE /\ opening = FALSE /\ transport = FALSE /\ queue = <<>>
  /\ next = 1 /\ lastSent = 0
  /\ listener = Listening

\* Qt's timer fires a second later.
TryAgain ==
  /\ listener = "waiting"
  /\ listener' = Listening
  /\ UNCHANGED <<library, up, heartbeat, sender, next, lastSent>>

\* connection_made, with the membership in the group, or an exception in the task that
\* nobody sees.
ListenerOpened ==
  /\ listener = "opening"
  /\ listener' \in IF up THEN {"bound"} ELSE {"deaf"}
  /\ UNCHANGED <<library, up, heartbeat, sender, next, lastSent>>

\* handle_receive_from returns on an error and receives no more; error_received and Qt
\* go on.
ReceiveError ==
  /\ library = "asio" /\ listener = "bound"
  /\ listener' = "deaf"
  /\ UNCHANGED <<library, up, heartbeat, sender, next, lastSent>>

-----------------------------------------------------------------------------
(* writeTo *)

Goes(k) == lastSent' = k /\ next' = After(k)

\* bind throws when the address is not there, and send_to may: the publisher does not
\* come to restart its timer.
BeatAsio ==
  /\ library = "asio" /\ heartbeat = "armed"
  /\ bound' = (bound \/ up)
  /\ \/ (up \/ bound) /\ Goes(next) /\ UNCHANGED heartbeat
     \/ ~up /\ heartbeat' = "ended" /\ UNCHANGED <<next, lastSent>>
  /\ UNCHANGED <<library, up, opening, transport, queue, listener>>

\* Mutant: the timer is restarted only after a success.
RestartedIf(ok) == IF ok THEN "armed" ELSE "ended"

\* restart(), after sendMessage, whose result is ignored.
Restarted(ok) == "armed"

\* The result of bind is ignored; writeDatagram binds to any address when that failed.
BeatQt ==
  /\ library = "qt" /\ heartbeat = "armed"
  /\ bound' = TRUE
  /\ \E taken \in IF up THEN {TRUE} ELSE BOOLEAN :
       /\ IF taken THEN Goes(next) ELSE UNCHANGED <<next, lastSent>>
       /\ heartbeat' = Restarted(taken)
  /\ UNCHANGED <<library, up, opening, transport, queue, listener>>

\* The endpoint is asked for once.  Without a transport the message waits.
BeatAsyncio ==
  /\ library = "asyncio" /\ heartbeat = "armed"
  /\ bound' = TRUE /\ opening' = (opening \/ ~bound)
  /\ IF transport THEN Goes(next) /\ UNCHANGED queue
     ELSE /\ Len(queue) < MaxQueue
          /\ queue' = Append(queue, next) /\ next' = After(next)
          /\ UNCHANGED lastSent
  /\ heartbeat' = Restarted(TRUE)
  /\ UNCHANGED <<library, up, transport, listener>>

\* Mutant: the transport is kept, and what waits goes on waiting.
NotFlushed == UNCHANGED <<queue, lastSent>>

\* send_all_from_queue: everything goes out in order.
Flushed ==
  /\ queue' = <<>>
  /\ lastSent' = IF queue = <<>> THEN lastSent ELSE queue[Len(queue)]

\* connection_made, or an exception in the task that nobody sees.
SenderOpened ==
  /\ opening
  /\ opening' = FALSE
  /\ IF up THEN transport' = TRUE /\ Flushed
           ELSE UNCHANGED <<transport, queue, lastSent>>
  /\ UNCHANGED <<library, up, heartbeat, bound, next, listener>>

\* connection_lost: write_bound_ stays as it is.
ConnectionLost ==
  /\ transport /\ transport' = FALSE
  /\ UNCHANGED <<library, up, heartbeat, bound, opening, queue, next, lastSent, listener>>

ListenerLost ==
  /\ library = "asyncio" /\ listener = "bound"
  /\ listener' = "deaf"
  /\ UNCHANGED <<library, up, heartbeat, sender, next, lastSent>>

-----------------------------------------------------------------------------

\* CyphalUdp::setAddress: both sockets are new.  Python does not offer it.  A Qt socket
\* must not be destroyed while its timer runs.
SetAddress ==
  /\ library # "asyncio" /\ listener # "waiting"
  /\ FreshSender
  /\ listener' = Listening
  /\ UNCHANGED <<library, up, heartbeat, next, lastSent>>

Interface ==
  /\ up' = ~up
  /\ UNCHANGED <<library, heartbeat, sender, next, lastSent, listener>>

Beat   == BeatAsio \/ BeatQt \/ BeatAsyncio
Loop   == TryAgain \/ ListenerOpened \/ SenderOpened
Others == ReceiveError \/ ConnectionLost \/ ListenerLost \/ SetAddress \/ Interface
Next   == Beat \/ Loop \/ Others

\* Timers fire and the event loop runs its tasks.
Spec == Init /\ [][Next]_vars /\ WF_vars(Beat)
             /\ WF_vars(TryAgain) /\ WF_vars(ListenerOpened) /\ WF_vars(SenderOpened)

-----------------------------------------------------------------------------
(* Properties *)

TypeOK ==
  /\ library \in {"asio", "qt", "asyncio"} /\ up \in BOOLEAN
  /\ heartbeat \in {"armed", "ended"}
  /\ bound \in BOOLEAN /\ opening \in BOOLEAN /\ transport \in BOOLEAN
  /\ queue \in Seq(0 .. Cycle - 1) /\ Len(queue) <= MaxQueue
  /\ next \in 0 .. Cycle - 1 /\ lastSent \in 0 .. Cycle - 1
  /\ listener \in {"bound", "opening", "waiting", "deaf"}

\* What an asyncio socket has taken goes out once and in order, across the wait for its
\* endpoint: what waits are the messages after the last one sent, and nothing passes
\* them (cyphalypp.cpp:113-152).  setAddress, which Python lacks, would drop them.
NothingOvertakes ==
  LET taken == <<lastSent>> \o queue \o <<next>> IN
  /\ \A j \in 1 .. Len(queue) + 1 : taken[j + 1] = After(taken[j])
  /\ transport => queue = <<>>

\* The sender waits for an endpoint nobody creates any more.
Stuck == library = "asyncio" /\ bound /\ ~opening /\ ~transport

\* Once the interface is there for good heartbeats go out again and again, unless one
\* had been thrown out of Asio's writeTo before or an asyncio endpoint was not created
\* or lost (cyphalppheartbeatpublish.hpp:43-50).
HeartbeatsReturn ==
  <>[]up => \/ \A k \in 0 .. Cycle - 1 : []<>(lastSent = k)
            \/ <>[](library = "asio" /\ heartbeat = "ended")
            \/ <>[]Stuck

\* Once the interface is there for good a Qt subscription is bound, however often that
\* failed before; those of the other libraries do not stay on the way to it, but may be
\* deaf (qt_cyphal_udp.cpp:79-112).
SubscriptionsSettle ==
  <>[]up => []<>(listener = "bound" \/ (listener = "deaf" /\ library # "qt"))
=============================================================================
