---------------------------- MODULE NodesHealth ----------------------------
(***************************************************************************)
(* NodesHealthModel (qt/nodeshealthmodel.cpp): a table of the nodes whose  *)
(* heartbeats are heard, with what they say of themselves when asked.      *)
(*                                                                         *)
(* Time passes in units.  The event loop is prompt: a timer that is due    *)
(* runs before more time passes, and a call ends within its timeout.       *)
(***************************************************************************)
EXTENDS Naturals, Sequences

CONSTANTS
  Nodes,
  OfflineTimeout,  \* Heartbeat_1_0::OFFLINE_TIMEOUT: 3 s
  CallTimeout,     \* the timeout of a service call: 1 s
  MaxRuns          \* bound: how often a node is started

ASSUME HealthAssumption ==
  /\ OfflineTimeout \in Nat \ {0} /\ CallTimeout \in 1 .. OfflineTimeout - 1
  /\ MaxRuns \in Nat

VARIABLES
  up, run,    \* of every node: whether it runs, and for which time
  nodes,      \* the rows, in the order the nodes were first heard
  nodeData,   \* what is known of them
  call,       \* the GetInfo request to a node that is under way, or NoCall
  silence,    \* history: for how long a node has not been heard
  failed,     \* history: the nodes whose GetInfo was once not answered
  replaced    \* history: a node was started anew before its row went offline

network == <<up, run>>
history == <<silence, failed, replaced>>
vars    == <<network, nodes, nodeData, call, history>>

Known  == DOMAIN nodeData
NoCall == [asked |-> FALSE]

\* What a node says of itself is told by the run it says it in; 0 is nothing yet.
NoInfo == 0
NodeData ==
  [heartbeat : BOOLEAN, info : 0 .. MaxRuns, timeout : 0 .. OfflineTimeout,
   dataFetching : BOOLEAN, dataFetched : BOOLEAN]
Calls == [asked : {TRUE}, age : 0 .. CallTimeout, answer : 0 .. MaxRuns]

-----------------------------------------------------------------------------

Init ==
  /\ up = [n \in Nodes |-> FALSE] /\ run = [n \in Nodes |-> 0]
  /\ nodes = <<>> /\ nodeData = [n \in {} |-> NoCall]
  /\ call = [n \in Nodes |-> NoCall]
  /\ silence = [n \in Nodes |-> OfflineTimeout + 1]
  /\ failed = {} /\ replaced = FALSE

\* Mutant: a node that was offline gets a new row.
IsOffline(n) == n \notin Known \/ ~nodeData[n].heartbeat

\* d->nodes.end() == nodePos
IsNew(n) == n \notin Known

\* Mutant: the timer runs on.
RunsOn(n) == IF n \in Known THEN nodeData[n].timeout ELSE 0

\* timeout->stop(); timeout->start()
Restarted(n) == 0

NewData ==
  [heartbeat |-> TRUE, info |-> NoInfo, timeout |-> 0, dataFetching |-> FALSE, dataFetched |-> FALSE]
DataOf(n) == IF n \in Known THEN nodeData[n] ELSE NewData

\* Mutant: dataFetching is not set.
Unmarked(n, asks) == DataOf(n).dataFetching

\* nd.dataFetching = true
Marked(n, asks) == DataOf(n).dataFetching \/ asks

\* The row of n after its heartbeat, if it is asked for its information or not.
Heard(n, asks) ==
  [DataOf(n) EXCEPT !.heartbeat = TRUE, !.timeout = Restarted(n), !.dataFetching = Marked(n, asks)]

\* It is asked once, until it has answered or gone offline.
Asks(n) == ~DataOf(n).dataFetched /\ ~DataOf(n).dataFetching

\* A heartbeat is handled.  Nobody looks whether the request could be sent.
Heartbeat(n) ==
  /\ up[n]
  /\ nodes' = IF IsNew(n) THEN Append(nodes, n) ELSE nodes
  /\ nodeData' = [m \in Known \union {n} |-> IF m = n THEN Heard(n, Asks(n)) ELSE nodeData[m]]
  /\ \/ ~Asks(n) /\ UNCHANGED <<call, failed>>
     \/ /\ Asks(n)
        /\ call' = [call EXCEPT ![n] = [asked |-> TRUE, age |-> 0, answer |-> NoInfo]]
        /\ failed' = failed
     \/ Asks(n) /\ failed' = failed \union {n} /\ call' = call
  /\ silence' = [silence EXCEPT ![n] = 0]
  /\ UNCHANGED <<network, replaced>>

\* Mutant: dataFetching is not reset.
StillFetching(n) == nodeData[n].dataFetching

\* nodeInfo.dataFetching = false
Fetching(n) == FALSE

\* The response of GetInfo is received.
InfoReceived(n) ==
  /\ call[n] # NoCall /\ call[n].answer # NoInfo
  /\ call' = [call EXCEPT ![n] = NoCall]
  /\ nodeData' = [nodeData EXCEPT ![n].info = call[n].answer,
                                  ![n].dataFetching = Fetching(n), ![n].dataFetched = TRUE]
  /\ UNCHANGED <<network, nodes, history>>

\* The error handler, []{}: dataFetching stays set.
InfoFailed(n) ==
  /\ call[n] # NoCall /\ call[n].age = CallTimeout
  /\ call' = [call EXCEPT ![n] = NoCall]
  /\ failed' = failed \union {n}
  /\ UNCHANGED <<network, nodes, nodeData, silence, replaced>>

\* Mutant: what was fetched is kept.
KeptFetched(n) == nodeData[n].dataFetched

\* nodeInfo.dataFetched = false
Unfetched(n) == FALSE

\* The timer of a row, which goes on.
Offline(n) ==
  /\ n \in Known /\ nodeData[n].timeout = OfflineTimeout
  /\ nodeData' = [nodeData EXCEPT ![n].heartbeat = FALSE, ![n].timeout = 0,
                                  ![n].dataFetched = Unfetched(n)]
  /\ UNCHANGED <<network, nodes, call, history>>

-----------------------------------------------------------------------------
(* The nodes, and time *)

Start(n) ==
  /\ ~up[n] /\ run[n] < MaxRuns
  /\ up' = [up EXCEPT ![n] = TRUE] /\ run' = [run EXCEPT ![n] = @ + 1]
  /\ replaced' = (replaced \/ (n \in Known /\ nodeData[n].heartbeat))
  /\ UNCHANGED <<nodes, nodeData, call, silence, failed>>

Stop(n) ==
  /\ up[n]
  /\ up' = [up EXCEPT ![n] = FALSE]
  /\ UNCHANGED <<run, nodes, nodeData, call, history>>

Answer(n) ==
  /\ up[n] /\ call[n] # NoCall /\ call[n].answer = NoInfo
  /\ call' = [call EXCEPT ![n].answer = run[n]]
  /\ UNCHANGED <<network, nodes, nodeData, history>>

Tick ==
  /\ \A n \in Known : nodeData[n].timeout < OfflineTimeout
  /\ \A n \in Nodes : call[n] # NoCall => call[n].age < CallTimeout
  /\ nodeData' = [n \in Known |-> [nodeData[n] EXCEPT !.timeout = @ + 1]]
  /\ call' = [n \in Nodes |-> IF call[n] = NoCall THEN NoCall ELSE [call[n] EXCEPT !.age = @ + 1]]
  /\ silence' = [n \in Nodes |-> IF silence[n] > OfflineTimeout THEN silence[n] ELSE silence[n] + 1]
  /\ UNCHANGED <<network, nodes, failed, replaced>>

Next ==
  \/ \E n \in Nodes :
       \/ Heartbeat(n) \/ InfoReceived(n) \/ InfoFailed(n) \/ Offline(n)
       \/ Start(n) \/ Stop(n) \/ Answer(n)
  \/ Tick

\* A running node sends heartbeats again and again, and one of them is received; the
\* event loop runs what is due, and time passes.
Fairness ==
  /\ WF_vars(Tick)
  /\ \A n \in Nodes : WF_vars(Heartbeat(n)) /\ WF_vars(InfoReceived(n) \/ InfoFailed(n))
                      /\ WF_vars(Offline(n))

Spec == Init /\ [][Next]_vars /\ Fairness

-----------------------------------------------------------------------------
(* Properties *)

TypeOK ==
  /\ up \in [Nodes -> BOOLEAN] /\ run \in [Nodes -> 0 .. MaxRuns]
  /\ nodes \in Seq(Nodes)
  /\ Known \subseteq Nodes /\ nodeData \in [Known -> NodeData]
  /\ call \in [Nodes -> Calls \union {NoCall}]
  /\ \A n \in Nodes : call[n] # NoCall => n \in Known /\ nodeData[n].dataFetching
  /\ failed \subseteq Nodes /\ replaced \in BOOLEAN

\* Every node that was ever heard has one row and keeps it, whatever comes and goes
\* (nodeshealthmodel.cpp:246-258).
OneRowForEach ==
  /\ Known = {nodes[i] : i \in DOMAIN nodes}
  /\ \A i, j \in DOMAIN nodes : nodes[i] = nodes[j] => i = j

\* A row is online as long as its node was heard within the offline timeout, and not
\* for longer, although its timer is shared by all its heartbeats and goes on after
\* it has fired (nodeshealthmodel.cpp:267-286).
OnlineWhileHeard ==
  \A n \in Known :
    /\ silence[n] < OfflineTimeout => nodeData[n].heartbeat
    /\ silence[n] > OfflineTimeout => ~nodeData[n].heartbeat

\* What a row that is online shows was said by the node that runs now, provided that
\* no node is replaced before its row has gone offline: a call that was made in time
\* ends before the row goes offline, so no late response marks old information as
\* fetched (nodeshealthmodel.cpp:231-242, 261-266, 278-279).
InfoIsCurrent ==
  ~replaced => \A n \in Known : nodeData[n].heartbeat /\ nodeData[n].dataFetched =>
                 nodeData[n].info = run[n]

\* The information on a node that goes on running is fetched, unless a request for it
\* has once remained without an answer: then it is never asked for again
\* (nodeshealthmodel.cpp:243, 261-266).
InfoArrives ==
  \A n \in Nodes : <>[](up[n] /\ n \notin failed) => []<>(n \in Known /\ nodeData[n].dataFetched)
=============================================================================
