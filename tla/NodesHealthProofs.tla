------------------------- MODULE NodesHealthProofs -------------------------
(***************************************************************************)
(* What an online row of NodesHealth shows is current, for any number of   *)
(* nodes, restarts, lost requests and any call timeout that is shorter     *)
(* than the offline timeout.                                               *)
(*                                                                         *)
(* The argument is about time.  A call is made when a heartbeat arrives,   *)
(* which starts the row's timer; so the timer is never older than the call *)
(* and cannot fire before the call has ended.                              *)
(***************************************************************************)
EXTENDS NodesHealth, TLAPS

HTyped ==
  /\ run \in [Nodes -> 0 .. MaxRuns] /\ up \in [Nodes -> BOOLEAN]
  /\ Known \subseteq Nodes /\ nodeData \in [Known -> NodeData]
  /\ call \in [Nodes -> Calls \union {NoCall}]
  /\ replaced \in BOOLEAN

\* A call under way belongs to a row that is online, and whose timer is not older;
\* what it brings was said by the run that goes on.
CallInTime(n) ==
  call[n] # NoCall =>
    /\ n \in Known /\ nodeData[n].dataFetching /\ nodeData[n].heartbeat
    /\ nodeData[n].timeout <= call[n].age
    /\ ~replaced /\ call[n].answer # NoInfo => call[n].answer = run[n]

\* What was fetched was fetched since the row is online.
Fetched(n) ==
  n \in Known /\ nodeData[n].dataFetched =>
    nodeData[n].heartbeat /\ (~replaced => nodeData[n].info = run[n])

HInv == HTyped /\ \A n \in Nodes : CallInTime(n) /\ Fetched(n)

-----------------------------------------------------------------------------

\* A node that a step does not touch.
LEMMA Untouched ==
  ASSUME NEW n \in Nodes, CallInTime(n), Fetched(n), call'[n] = call[n], run'[n] = run[n],
         n \in Known' => n \in Known, n \in Known => n \in Known',
         n \in Known => nodeData'[n] = nodeData[n], replaced => replaced'
  PROVE  CallInTime(n)' /\ Fetched(n)'
BY DEF CallInTime, Fetched

\* A call under way has a time and an answer.
LEMMA CallTyped ==
  ASSUME NEW c \in Calls
  PROVE  c.age \in 0 .. CallTimeout /\ c.answer \in 0 .. MaxRuns
BY DEF Calls

\* What the code reads of a row, field by field.
LEMMA RowTyped ==
  ASSUME NEW d \in NodeData
  PROVE  /\ d.heartbeat \in BOOLEAN /\ d.dataFetching \in BOOLEAN /\ d.dataFetched \in BOOLEAN
         /\ d.info \in 0 .. MaxRuns /\ d.timeout \in 0 .. OfflineTimeout
BY DEF NodeData

\* The row of a node after its heartbeat.
LEMMA HeardTyped ==
  ASSUME HInv, NEW n \in Nodes
  PROVE  /\ Heard(n, Asks(n)) \in NodeData
         /\ Heard(n, Asks(n)).heartbeat = TRUE /\ Heard(n, Asks(n)).timeout = 0
         /\ Heard(n, Asks(n)).info = DataOf(n).info
         /\ Heard(n, Asks(n)).dataFetched = DataOf(n).dataFetched
         /\ (DataOf(n).dataFetching \/ Asks(n)) => Heard(n, Asks(n)).dataFetching
<1>1. PICK d : d = DataOf(n)
  OBVIOUS
<1>2. NewData \in NodeData
  BY HealthAssumption DEF NewData, NodeData, NoInfo
<1>3. d \in NodeData
  BY <1>1, <1>2 DEF DataOf, HInv, HTyped
<1>4. PICK b : b = Marked(n, Asks(n))
  OBVIOUS
<1>5. b \in BOOLEAN /\ (d.dataFetching \/ Asks(n) => b)
  BY <1>1, <1>4 DEF Marked
<1>6. PICK e : e = [d EXCEPT !.heartbeat = TRUE, !.timeout = 0, !.dataFetching = b]
  OBVIOUS
<1>7. e = Heard(n, Asks(n))
  BY <1>1, <1>4, <1>6 DEF Heard, Restarted
<1>8. e \in NodeData
  <2>1. 0 \in 0 .. OfflineTimeout
    BY HealthAssumption
  <2> QED
    BY <1>3, <1>5, <1>6, <2>1 DEF NodeData
<1>9. e.heartbeat = TRUE /\ e.timeout = 0 /\ e.info = d.info /\ e.dataFetched = d.dataFetched
      /\ e.dataFetching = b
  BY <1>3, <1>6 DEF NodeData
<1> QED
  BY <1>1, <1>5, <1>7, <1>8, <1>9

-----------------------------------------------------------------------------

LEMMA HeartbeatKeeps ==
  ASSUME HInv, NEW n \in Nodes, Heartbeat(n)
  PROVE  HInv'
<1>1. HTyped /\ CallInTime(n) /\ Fetched(n)
  BY DEF HInv
<1>2. PICK e : e = Heard(n, Asks(n))
  OBVIOUS
<1>3. /\ e \in NodeData /\ e.heartbeat = TRUE /\ e.timeout = 0 /\ e.info = DataOf(n).info
      /\ e.dataFetched = DataOf(n).dataFetched
      /\ DataOf(n).dataFetching \/ Asks(n) => e.dataFetching
  BY <1>2, HeardTyped
<1>4. nodeData' = [m \in Known \union {n} |-> IF m = n THEN e ELSE nodeData[m]]
  BY <1>2 DEF Heartbeat
<1>5. Known' = Known \union {n}
  BY <1>4 DEF Known
<1>6. nodeData'[n] = e /\ \A m \in Known \ {n} : nodeData'[m] = nodeData[m]
  BY <1>4
<1>7. UNCHANGED <<up, run, replaced>>
  BY DEF Heartbeat, network
<1>8. nodeData' \in [Known' -> NodeData] /\ Known' \subseteq Nodes
  BY <1>1, <1>3, <1>4, <1>5 DEF HTyped
<1>9. PICK fresh : fresh = [asked |-> TRUE, age |-> 0, answer |-> NoInfo]
  OBVIOUS
<1>10. fresh \in Calls /\ fresh.age = 0 /\ fresh.answer = NoInfo
  BY <1>9, HealthAssumption DEF Calls, NoInfo
<1>11. call' = call \/ (Asks(n) /\ call' = [call EXCEPT ![n] = fresh])
  BY <1>9 DEF Heartbeat
<1>12. HTyped'
  BY <1>1, <1>7, <1>8, <1>10, <1>11 DEF HTyped
<1>13. CallInTime(n)'
  <2>1. CASE call' = call
    <3>1. SUFFICES ASSUME call[n] # NoCall
                   PROVE  CallInTime(n)'
      BY <2>1 DEF CallInTime
    <3>2. call[n] \in Calls
      BY <1>1, <3>1 DEF HTyped
    <3>3. call[n].age \in 0 .. CallTimeout
      BY <3>2, CallTyped
    <3>4. 0 <= call[n].age
      BY <3>3, HealthAssumption
    <3>5. e.dataFetching
      BY <1>1, <1>3, <3>1 DEF CallInTime, DataOf
    <3> QED
      BY <1>1, <1>3, <1>5, <1>6, <1>7, <2>1, <3>1, <3>4, <3>5 DEF CallInTime
  <2>2. CASE Asks(n) /\ call' = [call EXCEPT ![n] = fresh]
    <3>1. call'[n] = fresh
      BY <1>1, <2>2 DEF HTyped
    <3>2. e.dataFetching
      BY <1>3, <2>2
    <3> QED
      BY <1>3, <1>5, <1>6, <1>10, <3>1, <3>2 DEF CallInTime
  <2> QED
    BY <1>11, <2>1, <2>2
<1>14. Fetched(n)'
  <2>1. CASE n \in Known
    BY <1>1, <1>3, <1>5, <1>6, <1>7, <2>1 DEF Fetched, DataOf
  <2>2. CASE n \notin Known
    <3>1. ~DataOf(n).dataFetched
      BY <2>2 DEF DataOf, NewData
    <3> QED
      BY <1>3, <1>6, <3>1 DEF Fetched
  <2> QED
    BY <2>1, <2>2
<1>15. ASSUME NEW m \in Nodes, m # n
       PROVE  CallInTime(m)' /\ Fetched(m)'
  <2>1. call'[m] = call[m]
    BY <1>1, <1>11, <1>15 DEF HTyped
  <2>2. CallInTime(m) /\ Fetched(m)
    BY DEF HInv
  <2> QED
    BY <1>5, <1>6, <1>7, <1>15, <2>1, <2>2, Untouched
<1> QED
  BY <1>12, <1>13, <1>14, <1>15 DEF HInv

LEMMA InfoReceivedKeeps ==
  ASSUME HInv, NEW n \in Nodes, InfoReceived(n)
  PROVE  HInv'
<1>1. HTyped /\ CallInTime(n) /\ Fetched(n)
  BY DEF HInv
<1>2. n \in Known /\ nodeData[n].heartbeat
  BY <1>1 DEF CallInTime, InfoReceived
<1>3. PICK d : d = nodeData[n]
  OBVIOUS
<1>4. PICK e : e = [d EXCEPT !.info = call[n].answer, !.dataFetching = FALSE, !.dataFetched = TRUE]
  OBVIOUS
<1>5. d \in NodeData
  BY <1>1, <1>2, <1>3 DEF HTyped
<1>6. call[n] \in Calls
  BY <1>1 DEF HTyped, InfoReceived
<1>7. call[n].answer \in 0 .. MaxRuns
  BY <1>6, CallTyped
<1>8. e \in NodeData
  BY <1>4, <1>5, <1>7 DEF NodeData
<1>9. e.info = call[n].answer /\ e.heartbeat = d.heartbeat
  BY <1>4, <1>5 DEF NodeData
<1>10. nodeData' = [nodeData EXCEPT ![n] = e]
  BY <1>3, <1>4 DEF InfoReceived, Fetching
<1>11. Known' = Known /\ nodeData'[n] = e /\ \A m \in Known \ {n} : nodeData'[m] = nodeData[m]
  BY <1>1, <1>2, <1>10 DEF Known, HTyped
<1>12. call' = [call EXCEPT ![n] = NoCall] /\ UNCHANGED <<up, run, replaced>>
  BY DEF InfoReceived, network, history
<1>13. HTyped'
  <2>1. nodeData' \in [Known' -> NodeData]
    BY <1>1, <1>2, <1>8, <1>10, <1>11 DEF HTyped
  <2>2. call' \in [Nodes -> Calls \union {NoCall}]
    BY <1>1, <1>12 DEF HTyped
  <2> QED
    BY <1>1, <1>11, <1>12, <2>1, <2>2 DEF HTyped
<1>14. CallInTime(n)' /\ Fetched(n)'
  <2>1. CallInTime(n)'
    BY <1>1, <1>12 DEF CallInTime, HTyped
  <2>2. ~replaced => call[n].answer = run[n]
    BY <1>1 DEF CallInTime, InfoReceived
  <2> QED
    BY <1>2, <1>3, <1>9, <1>11, <1>12, <2>1, <2>2 DEF Fetched
<1>15. ASSUME NEW m \in Nodes, m # n
       PROVE  CallInTime(m)' /\ Fetched(m)'
  <2>1. call'[m] = call[m]
    BY <1>1, <1>12, <1>15 DEF HTyped
  <2>2. CallInTime(m) /\ Fetched(m)
    BY DEF HInv
  <2> QED
    BY <1>11, <1>12, <1>15, <2>1, <2>2, Untouched
<1> QED
  BY <1>13, <1>14, <1>15 DEF HInv

LEMMA InfoFailedKeeps ==
  ASSUME HInv, NEW n \in Nodes, InfoFailed(n)
  PROVE  HInv'
<1>1. HTyped /\ Fetched(n)
  BY DEF HInv
<1>2. call' = [call EXCEPT ![n] = NoCall] /\ UNCHANGED <<up, run, nodeData, replaced>>
  BY DEF InfoFailed, network
<1>3. Known' = Known
  BY <1>2 DEF Known
<1>4. HTyped'
  BY <1>1, <1>2, <1>3 DEF HTyped
<1>5. CallInTime(n)' /\ Fetched(n)'
  BY <1>1, <1>2, <1>3 DEF CallInTime, Fetched, HTyped
<1>6. ASSUME NEW m \in Nodes, m # n
      PROVE  CallInTime(m)' /\ Fetched(m)'
  <2>1. call'[m] = call[m]
    BY <1>1, <1>2, <1>6 DEF HTyped
  <2>2. CallInTime(m) /\ Fetched(m)
    BY DEF HInv
  <2> QED
    BY <1>2, <1>3, <2>1, <2>2, Untouched
<1> QED
  BY <1>4, <1>5, <1>6 DEF HInv

\* The timer of a row that fires finds no call under way.
LEMMA OfflineKeeps ==
  ASSUME HInv, NEW n \in Nodes, Offline(n)
  PROVE  HInv'
<1>1. HTyped /\ CallInTime(n)
  BY DEF HInv
<1>2. call[n] = NoCall
  <2>1. SUFFICES ASSUME call[n] # NoCall
                 PROVE  FALSE
    OBVIOUS
  <2>2. call[n] \in Calls
    BY <1>1, <2>1 DEF HTyped
  <2>3. call[n].age \in 0 .. CallTimeout
    BY <2>2, CallTyped
  <2>4. OfflineTimeout <= call[n].age
    BY <1>1, <2>1 DEF CallInTime, Offline
  <2> QED
    BY <2>3, <2>4, HealthAssumption
<1>3. n \in Known
  BY DEF Offline
<1>4. PICK d : d = nodeData[n]
  OBVIOUS
<1>5. PICK e : e = [d EXCEPT !.heartbeat = FALSE, !.timeout = 0, !.dataFetched = FALSE]
  OBVIOUS
<1>6. d \in NodeData
  BY <1>1, <1>3, <1>4 DEF HTyped
<1>7. e \in NodeData /\ e.dataFetched = FALSE
  <2>1. 0 \in 0 .. OfflineTimeout
    BY HealthAssumption
  <2> QED
    BY <1>5, <1>6, <2>1 DEF NodeData
<1>8. nodeData' = [nodeData EXCEPT ![n] = e]
  BY <1>4, <1>5 DEF Offline, Unfetched
<1>9. Known' = Known /\ nodeData'[n] = e /\ \A m \in Known \ {n} : nodeData'[m] = nodeData[m]
  BY <1>1, <1>3, <1>8 DEF Known, HTyped
<1>10. UNCHANGED <<up, run, call, replaced>>
  BY DEF Offline, network, history
<1>11. nodeData' \in [Known' -> NodeData]
  BY <1>1, <1>3, <1>7, <1>8, <1>9 DEF HTyped
<1>12. HTyped'
  BY <1>1, <1>9, <1>10, <1>11 DEF HTyped
<1>13. CallInTime(n)' /\ Fetched(n)'
  BY <1>2, <1>7, <1>9, <1>10 DEF CallInTime, Fetched
<1>14. ASSUME NEW m \in Nodes, m # n
       PROVE  CallInTime(m)' /\ Fetched(m)'
  <2>1. CallInTime(m) /\ Fetched(m)
    BY DEF HInv
  <2> QED
    BY <1>9, <1>10, <1>14, <2>1, Untouched
<1> QED
  BY <1>12, <1>13, <1>14 DEF HInv

\* A node that is started while its row is offline has nothing fetched and is not asked.
LEMMA StartKeeps ==
  ASSUME HInv, NEW n \in Nodes, Start(n)
  PROVE  HInv'
<1>1. HTyped /\ CallInTime(n) /\ Fetched(n)
  BY DEF HInv
<1>2. UNCHANGED <<nodeData, call>> /\ Known' = Known
  BY DEF Start, Known
<1>3. run' = [run EXCEPT ![n] = @ + 1] /\ up' = [up EXCEPT ![n] = TRUE]
  BY DEF Start
<1>4. run[n] + 1 \in 0 .. MaxRuns
  BY <1>1, HealthAssumption DEF HTyped, Start
<1>5. replaced' = (replaced \/ (n \in Known /\ nodeData[n].heartbeat))
  BY DEF Start
<1>6. HTyped'
  <2>1. run' \in [Nodes -> 0 .. MaxRuns]
    BY <1>1, <1>3, <1>4 DEF HTyped
  <2>2. up' \in [Nodes -> BOOLEAN]
    BY <1>1, <1>3 DEF HTyped
  <2>3. replaced' \in BOOLEAN
    BY <1>5
  <2> QED
    BY <1>1, <1>2, <2>1, <2>2, <2>3 DEF HTyped
<1>7. CallInTime(n)' /\ Fetched(n)'
  BY <1>1, <1>2, <1>5 DEF CallInTime, Fetched
<1>8. ASSUME NEW m \in Nodes, m # n
      PROVE  CallInTime(m)' /\ Fetched(m)'
  <2>1. run'[m] = run[m]
    BY <1>1, <1>3, <1>8 DEF HTyped
  <2>2. CallInTime(m) /\ Fetched(m)
    BY DEF HInv
  <2> QED
    BY <1>2, <1>5, <2>1, <2>2, Untouched
<1> QED
  BY <1>6, <1>7, <1>8 DEF HInv

LEMMA StopKeeps ==
  ASSUME HInv, NEW n \in Nodes, Stop(n)
  PROVE  HInv'
<1>1. UNCHANGED <<run, nodeData, call, replaced>> /\ Known' = Known
  BY DEF Stop, Known, history
<1>2. up' \in [Nodes -> BOOLEAN]
  BY DEF Stop, HInv, HTyped
<1>3. HTyped'
  BY <1>1, <1>2 DEF HInv, HTyped
<1>4. ASSUME NEW m \in Nodes
      PROVE  CallInTime(m)' /\ Fetched(m)'
  BY <1>1, Untouched DEF HInv
<1> QED
  BY <1>3, <1>4 DEF HInv

LEMMA AnswerKeeps ==
  ASSUME HInv, NEW n \in Nodes, Answer(n)
  PROVE  HInv'
<1>1. HTyped /\ CallInTime(n) /\ Fetched(n)
  BY DEF HInv
<1>2. UNCHANGED <<up, run, nodeData, replaced>> /\ Known' = Known
  BY DEF Answer, Known, network, history
<1>3. PICK c : c = call[n]
  OBVIOUS
<1>4. PICK e : e = [c EXCEPT !.answer = run[n]]
  OBVIOUS
<1>5. c \in Calls
  BY <1>1, <1>3 DEF HTyped, Answer
<1>6. run[n] \in 0 .. MaxRuns
  BY <1>1 DEF HTyped
<1>7. e \in Calls /\ e.age = c.age /\ e.answer = run[n]
  BY <1>4, <1>5, <1>6 DEF Calls
<1>8. call' = [call EXCEPT ![n] = e]
  BY <1>3, <1>4 DEF Answer
<1>9. HTyped'
  BY <1>1, <1>2, <1>7, <1>8 DEF HTyped
<1>10. CallInTime(n)' /\ Fetched(n)'
  <2>1. call'[n] = e
    BY <1>1, <1>8 DEF HTyped
  <2>2. call[n] # NoCall
    BY DEF Answer
  <2> QED
    BY <1>1, <1>2, <1>3, <1>7, <2>1, <2>2 DEF CallInTime, Fetched
<1>11. ASSUME NEW m \in Nodes, m # n
       PROVE  CallInTime(m)' /\ Fetched(m)'
  <2>1. call'[m] = call[m]
    BY <1>1, <1>8, <1>11 DEF HTyped
  <2>2. CallInTime(m) /\ Fetched(m)
    BY DEF HInv
  <2> QED
    BY <1>2, <2>1, <2>2, Untouched
<1> QED
  BY <1>9, <1>10, <1>11 DEF HInv

\* Time passes for a row and for its call alike.
LEMMA TickKeeps ==
  ASSUME HInv, Tick
  PROVE  HInv'
<1>1. HTyped
  BY DEF HInv
<1>2. UNCHANGED <<up, run, replaced>>
  BY DEF Tick, network
<1>3. Known' = Known
  BY DEF Tick, Known
<1>4. ASSUME NEW n \in Known
      PROVE  /\ nodeData'[n] \in NodeData /\ nodeData'[n].heartbeat = nodeData[n].heartbeat
             /\ nodeData'[n].timeout = nodeData[n].timeout + 1
             /\ nodeData'[n].info = nodeData[n].info
             /\ nodeData'[n].dataFetching = nodeData[n].dataFetching
             /\ nodeData'[n].dataFetched = nodeData[n].dataFetched
  <2>1. PICK d : d = nodeData[n]
    OBVIOUS
  <2>2. PICK e : e = [d EXCEPT !.timeout = d.timeout + 1]
    OBVIOUS
  <2>3. nodeData'[n] = e
    BY <2>1, <2>2 DEF Tick
  <2>4. d \in NodeData
    BY <1>1, <2>1 DEF HTyped
  <2>5. d.timeout \in 0 .. OfflineTimeout
    BY <2>4, RowTyped
  <2>6. d.timeout < OfflineTimeout
    BY <2>1 DEF Tick
  <2>7. d.timeout + 1 \in 0 .. OfflineTimeout
    BY <2>5, <2>6, HealthAssumption
  <2>8. e \in NodeData
    BY <2>2, <2>4, <2>7 DEF NodeData
  <2>9. /\ e.heartbeat = d.heartbeat /\ e.timeout = d.timeout + 1 /\ e.info = d.info
        /\ e.dataFetching = d.dataFetching /\ e.dataFetched = d.dataFetched
    BY <2>2, <2>4 DEF NodeData
  <2> QED
    BY <2>1, <2>3, <2>8, <2>9
<1>5. ASSUME NEW n \in Nodes, call[n] # NoCall
      PROVE  /\ call'[n] \in Calls /\ call'[n].age = call[n].age + 1
             /\ call'[n].answer = call[n].answer
  <2>1. PICK c : c = call[n]
    OBVIOUS
  <2>2. PICK e : e = [c EXCEPT !.age = c.age + 1]
    OBVIOUS
  <2>3. call'[n] = e
    BY <1>5, <2>1, <2>2 DEF Tick
  <2>4. c \in Calls
    BY <1>1, <1>5, <2>1 DEF HTyped
  <2>5. c.age \in 0 .. CallTimeout
    BY <2>4, CallTyped
  <2>6. c.age < CallTimeout
    BY <1>5, <2>1 DEF Tick
  <2>7. c.age + 1 \in 0 .. CallTimeout
    BY <2>5, <2>6, HealthAssumption
  <2>8. e \in Calls /\ e.age = c.age + 1 /\ e.answer = c.answer
    BY <2>2, <2>4, <2>7 DEF Calls
  <2> QED
    BY <2>1, <2>3, <2>8
<1>6. ASSUME NEW n \in Nodes, call[n] = NoCall
      PROVE  call'[n] = NoCall
  BY <1>6 DEF Tick
<1>7. HTyped'
  <2>1. nodeData' = [n \in Known |-> nodeData'[n]]
    BY DEF Tick
  <2>2. nodeData' \in [Known' -> NodeData]
    BY <1>3, <1>4, <2>1
  <2>3. call' = [n \in Nodes |-> call'[n]]
    BY DEF Tick
  <2>4. call' \in [Nodes -> Calls \union {NoCall}]
    BY <1>5, <1>6, <2>3
  <2> QED
    BY <1>1, <1>2, <1>3, <2>2, <2>4 DEF HTyped
<1>8. ASSUME NEW n \in Nodes
      PROVE  CallInTime(n)' /\ Fetched(n)'
  <2>1. CallInTime(n) /\ Fetched(n)
    BY DEF HInv
  <2>2. Fetched(n)'
    BY <1>2, <1>3, <1>4, <2>1 DEF Fetched
  <2>3. CASE call[n] = NoCall
    BY <1>6, <2>2, <2>3 DEF CallInTime
  <2>4. CASE call[n] # NoCall
    <3>1. n \in Known /\ nodeData[n].timeout <= call[n].age
      BY <2>1, <2>4 DEF CallInTime
    <3>2. nodeData[n] \in NodeData
      BY <1>1, <3>1 DEF HTyped
    <3>3. call[n] \in Calls
      BY <1>1, <2>4 DEF HTyped
    <3>4. nodeData[n].timeout + 1 <= call[n].age + 1
      <4>1. nodeData[n].timeout \in 0 .. OfflineTimeout
        BY <3>2, RowTyped
      <4>2. call[n].age \in 0 .. CallTimeout
        BY <3>3, CallTyped
      <4> QED
        BY <3>1, <4>1, <4>2, HealthAssumption
    <3>5. nodeData'[n].timeout <= call'[n].age
      BY <1>4, <1>5, <2>4, <3>1, <3>4
    <3> QED
      BY <1>2, <1>3, <1>4, <1>5, <2>1, <2>2, <2>4, <3>1, <3>5 DEF CallInTime
  <2> QED
    BY <2>3, <2>4
<1> QED
  BY <1>7, <1>8 DEF HInv

-----------------------------------------------------------------------------

\* HInv is inductive: no step of a node, of the model's handlers or of time breaks it.
THEOREM InTime == Spec => []HInv
<1>1. Init => HInv
  <2>1. SUFFICES ASSUME Init
                 PROVE  HInv
    OBVIOUS
  <2>2. Known = {}
    <3>1. nodeData = [n \in {} |-> NoCall]
      BY <2>1 DEF Init
    <3> QED
      BY <3>1 DEF Known
  <2>3. \A n \in Nodes : call[n] = NoCall
    <3>1. call = [n \in Nodes |-> NoCall]
      BY <2>1 DEF Init
    <3> QED
      BY <3>1
  <2>4. HTyped
    <3>1. nodeData \in [{} -> NodeData]
      BY <2>1 DEF Init
    <3>2. call \in [Nodes -> Calls \union {NoCall}]
      BY <2>1 DEF Init
    <3>3. run = [n \in Nodes |-> 0] /\ up = [n \in Nodes |-> FALSE] /\ replaced = FALSE
      BY <2>1 DEF Init
    <3>4. 0 \in 0 .. MaxRuns
      BY HealthAssumption
    <3>5. run \in [Nodes -> 0 .. MaxRuns]
      BY <3>3, <3>4
    <3>6. up \in [Nodes -> BOOLEAN] /\ replaced \in BOOLEAN
      BY <3>3
    <3> QED
      BY <2>2, <3>1, <3>2, <3>5, <3>6 DEF HTyped
  <2> QED
    BY <2>2, <2>3, <2>4 DEF HInv, CallInTime, Fetched
<1>2. HInv /\ [Next]_vars => HInv'
  <2>1. SUFFICES ASSUME HInv, [Next]_vars
                 PROVE  HInv'
    OBVIOUS
  <2>2. ASSUME NEW n \in Nodes, Heartbeat(n) PROVE HInv'
    BY <2>1, <2>2, HeartbeatKeeps
  <2>3. ASSUME NEW n \in Nodes, InfoReceived(n) PROVE HInv'
    BY <2>1, <2>3, InfoReceivedKeeps
  <2>4. ASSUME NEW n \in Nodes, InfoFailed(n) PROVE HInv'
    BY <2>1, <2>4, InfoFailedKeeps
  <2>5. ASSUME NEW n \in Nodes, Offline(n) PROVE HInv'
    BY <2>1, <2>5, OfflineKeeps
  <2>6. ASSUME NEW n \in Nodes, Start(n) PROVE HInv'
    BY <2>1, <2>6, StartKeeps
  <2>7. ASSUME NEW n \in Nodes, Stop(n) PROVE HInv'
    BY <2>1, <2>7, StopKeeps
  <2>8. ASSUME NEW n \in Nodes, Answer(n) PROVE HInv'
    BY <2>1, <2>8, AnswerKeeps
  <2>9. CASE Tick
    BY <2>1, <2>9, TickKeeps
  <2>10. CASE UNCHANGED vars
    BY <2>1, <2>10 DEF HInv, HTyped, CallInTime, Fetched, Known, vars, network, history
  <2> QED
    BY <2>1, <2>2, <2>3, <2>4, <2>5, <2>6, <2>7, <2>8, <2>9, <2>10 DEF Next
<1> QED
  BY <1>1, <1>2, PTL DEF Spec

\* What a row that is online shows was said by the node that runs now, provided that
\* no node is replaced before its row has gone offline
\* (nodeshealthmodel.cpp:231-242, 261-266, 278-279).
THEOREM ShownIsCurrent == Spec => []InfoIsCurrent
<1>1. HInv => InfoIsCurrent
  BY DEF HInv, HTyped, Fetched, InfoIsCurrent
<1> QED
  BY <1>1, InTime, PTL
-----------------------------------------------------------------------------
(* The rows *)

RowsInv == nodes \in Seq(Nodes) /\ failed \subseteq Nodes /\ OneRowForEach

\* Only a heartbeat adds a row.
LEMMA RowsKept ==
  ASSUME RowsInv, nodes' = nodes, Known' = Known, failed' \subseteq Nodes
  PROVE  RowsInv'
BY DEF RowsInv, OneRowForEach

LEMMA RowAdded ==
  ASSUME RowsInv, NEW n \in Nodes, Heartbeat(n)
  PROVE  RowsInv'
<1>1. Known' = Known \union {n}
  BY DEF Heartbeat, Known
<1>2. failed' \subseteq Nodes
  BY DEF Heartbeat, RowsInv
<1>3. CASE n \in Known
  <2>1. nodes' = nodes /\ Known' = Known
    BY <1>1, <1>3 DEF Heartbeat, IsNew
  <2> QED
    BY <1>2, <2>1, RowsKept
<1>4. CASE n \notin Known
  <2>1. nodes' = Append(nodes, n)
    BY <1>4 DEF Heartbeat, IsNew
  <2>2. nodes \in Seq(Nodes)
    BY DEF RowsInv
  <2>3. /\ nodes' \in Seq(Nodes) /\ Len(nodes') = Len(nodes) + 1 /\ nodes'[Len(nodes) + 1] = n
        /\ \A i \in 1 .. Len(nodes) : nodes'[i] = nodes[i]
    BY <2>1, <2>2
  <2>4. DOMAIN nodes = 1 .. Len(nodes) /\ DOMAIN nodes' = 1 .. Len(nodes) + 1 /\ Len(nodes) \in Nat
    BY <2>2, <2>3
  <2>5. /\ Known = {nodes[i] : i \in DOMAIN nodes}
        /\ \A i, j \in DOMAIN nodes : nodes[i] = nodes[j] => i = j
    BY DEF RowsInv, OneRowForEach
  <2>6. \A i \in 1 .. Len(nodes) : nodes[i] # n
    BY <1>4, <2>4, <2>5
  <2>7. Known' = {nodes'[i] : i \in DOMAIN nodes'}
    <3>1. \A i \in 1 .. Len(nodes) + 1 : i \in 1 .. Len(nodes) \/ i = Len(nodes) + 1
      BY <2>4
    <3>2. \A i \in 1 .. Len(nodes) : i \in 1 .. Len(nodes) + 1
      BY <2>4
    <3>3. Len(nodes) + 1 \in 1 .. Len(nodes) + 1
      BY <2>4
    <3> QED
      BY <1>1, <2>3, <2>4, <2>5, <3>1, <3>2, <3>3
  <2>8. ASSUME NEW i \in DOMAIN nodes', NEW j \in DOMAIN nodes', nodes'[i] = nodes'[j]
        PROVE  i = j
    <3>1. CASE i \in 1 .. Len(nodes) /\ j \in 1 .. Len(nodes)
      BY <2>3, <2>4, <2>5, <2>8, <3>1
    <3>2. CASE i = Len(nodes) + 1 \/ j = Len(nodes) + 1
      BY <2>3, <2>4, <2>6, <2>8, <3>2
    <3> QED
      BY <2>4, <3>1, <3>2
  <2> QED
    BY <1>2, <2>3, <2>7, <2>8 DEF RowsInv, OneRowForEach
<1> QED
  BY <1>3, <1>4

THEOREM RowsStay == Spec => []RowsInv
<1>1. Init => RowsInv
  BY DEF Init, RowsInv, OneRowForEach, Known
<1>2. RowsInv /\ [Next]_vars => RowsInv'
  <2>1. SUFFICES ASSUME RowsInv, [Next]_vars
                 PROVE  RowsInv'
    OBVIOUS
  <2>2. ASSUME NEW n \in Nodes, Heartbeat(n)
        PROVE  RowsInv'
    BY <2>1, <2>2, RowAdded
  <2>3. ASSUME NEW n \in Nodes,
               InfoReceived(n) \/ InfoFailed(n) \/ Offline(n) \/ Start(n) \/ Stop(n) \/ Answer(n)
        PROVE  nodes' = nodes /\ Known' = Known /\ failed' \subseteq Nodes
    <3>1. failed \subseteq Nodes
      BY <2>1 DEF RowsInv
    <3>2. CASE InfoReceived(n)
      BY <3>1, <3>2 DEF InfoReceived, Known, history
    <3>3. CASE InfoFailed(n)
      BY <3>1, <3>3 DEF InfoFailed, Known
    <3>4. CASE Offline(n)
      BY <3>1, <3>4 DEF Offline, Known, history
    <3>5. CASE Start(n) \/ Stop(n) \/ Answer(n)
      BY <3>1, <3>5 DEF Start, Stop, Answer, Known, history
    <3> QED
      BY <2>3, <3>2, <3>3, <3>4, <3>5
  <2>4. CASE Tick \/ UNCHANGED vars
    <3>1. nodes' = nodes /\ failed' = failed /\ Known' = Known
      BY <2>4 DEF Tick, Known, vars, history
    <3> QED
      BY <2>1, <3>1, RowsKept DEF RowsInv
  <2> QED
    BY <2>1, <2>2, <2>3, <2>4, RowsKept DEF Next
<1> QED
  BY <1>1, <1>2, PTL DEF Spec

\* Every node that was ever heard has one row and keeps it, whatever comes and goes
\* (nodeshealthmodel.cpp:246-258).
THEOREM OneRow == Spec => []OneRowForEach
<1>1. RowsInv => OneRowForEach
  BY DEF RowsInv
<1> QED
  BY <1>1, RowsStay, PTL

\* The state is what its comments say, and a call under way marks its row as fetching.
THEOREM TypeCorrect == Spec => []TypeOK
<1>1. HInv /\ RowsInv => TypeOK
  BY DEF HInv, HTyped, CallInTime, RowsInv, TypeOK
<1> QED
  BY <1>1, InTime, RowsStay, PTL
-----------------------------------------------------------------------------
(* Online and offline *)

\* The timer of a row that is online was started by the last heartbeat and has not
\* fired since; one that is offline has not been heard for its whole timeout.
OnTime(n) ==
  IF nodeData[n].heartbeat THEN silence[n] = nodeData[n].timeout
                           ELSE silence[n] >= OfflineTimeout

OInv == silence \in [Nodes -> Nat] /\ \A n \in Known : OnTime(n)

LEMMA HeartbeatOnTime ==
  ASSUME HInv, OInv, NEW n \in Nodes, Heartbeat(n)
  PROVE  OInv'
<1>1. PICK e : e = Heard(n, Asks(n))
  OBVIOUS
<1>2. e.heartbeat = TRUE /\ e.timeout = 0
  BY <1>1, HeardTyped
<1>3. nodeData' = [m \in Known \union {n} |-> IF m = n THEN e ELSE nodeData[m]]
  BY <1>1 DEF Heartbeat
<1>4. Known' = Known \union {n}
  BY <1>3 DEF Known
<1>5. nodeData'[n] = e /\ \A m \in Known \ {n} : nodeData'[m] = nodeData[m]
  BY <1>3
<1>6. silence' = [silence EXCEPT ![n] = 0]
  BY DEF Heartbeat
<1>7. silence' \in [Nodes -> Nat] /\ silence'[n] = 0 /\ \A m \in Nodes \ {n} : silence'[m] = silence[m]
  BY <1>6 DEF OInv
<1>8. Known \subseteq Nodes
  BY DEF HInv, HTyped
<1> QED
  BY <1>2, <1>4, <1>5, <1>7, <1>8 DEF OInv, OnTime

\* The timer of an online row fires when the node was not heard for its timeout.
LEMMA OfflineOnTime ==
  ASSUME HInv, OInv, NEW n \in Nodes, Offline(n)
  PROVE  OInv'
<1>1. n \in Known /\ nodeData[n].timeout = OfflineTimeout /\ UNCHANGED silence
  BY DEF Offline, history
<1>2. silence[n] >= OfflineTimeout
  BY <1>1, HealthAssumption DEF OInv, OnTime
<1>3. PICK d : d = nodeData[n]
  OBVIOUS
<1>4. PICK e : e = [d EXCEPT !.heartbeat = FALSE, !.timeout = 0, !.dataFetched = FALSE]
  OBVIOUS
<1>5. nodeData \in [Known -> NodeData] /\ d \in NodeData
  BY <1>1, <1>3 DEF HInv, HTyped
<1>6. e.heartbeat = FALSE
  BY <1>4, <1>5 DEF NodeData
<1>7. nodeData' = [nodeData EXCEPT ![n] = e]
  BY <1>3, <1>4 DEF Offline, Unfetched
<1>8. Known' = Known /\ nodeData'[n] = e /\ \A m \in Known \ {n} : nodeData'[m] = nodeData[m]
  BY <1>1, <1>5, <1>7 DEF Known
<1> QED
  BY <1>1, <1>2, <1>6, <1>8 DEF OInv, OnTime

LEMMA TickOnTime ==
  ASSUME HInv, OInv, Tick
  PROVE  OInv'
<1>1. Known' = Known /\ Known \subseteq Nodes
  BY DEF Tick, Known, HInv, HTyped
<1>2. silence' = [n \in Nodes |-> IF silence[n] > OfflineTimeout THEN silence[n] ELSE silence[n] + 1]
  BY DEF Tick
<1>3. silence' \in [Nodes -> Nat]
  BY <1>2 DEF OInv
<1>4. ASSUME NEW n \in Known
      PROVE  OnTime(n)'
  <2>1. PICK d : d = nodeData[n]
    OBVIOUS
  <2>2. PICK e : e = [d EXCEPT !.timeout = d.timeout + 1]
    OBVIOUS
  <2>3. nodeData'[n] = e
    BY <2>1, <2>2 DEF Tick
  <2>4. d \in NodeData
    BY <2>1 DEF HInv, HTyped
  <2>5. e.heartbeat = d.heartbeat /\ e.timeout = d.timeout + 1
    BY <2>2, <2>4 DEF NodeData
  <2>6. d.timeout \in Nat /\ d.timeout < OfflineTimeout
    BY <2>1, <2>4, RowTyped, HealthAssumption DEF Tick
  <2>7. PICK s \in Nat : s = silence[n]
    BY <1>1 DEF OInv
  <2>8. silence'[n] = IF s > OfflineTimeout THEN s ELSE s + 1
    BY <1>1, <1>2, <2>7
  <2>9. IF d.heartbeat THEN s = d.timeout ELSE s >= OfflineTimeout
    BY <2>1, <2>7 DEF OInv, OnTime
  <2> QED
    BY <2>3, <2>5, <2>6, <2>8, <2>9, HealthAssumption DEF OnTime
<1> QED
  BY <1>1, <1>3, <1>4 DEF OInv

\* Rows whose state and timer a step leaves alone.
LEMMA StaysOnTime ==
  ASSUME OInv, silence' = silence, Known' = Known,
         \A n \in Known : /\ nodeData'[n].heartbeat = nodeData[n].heartbeat
                          /\ nodeData'[n].timeout = nodeData[n].timeout
  PROVE  OInv'
BY DEF OInv, OnTime

LEMMA ReceivedOnTime ==
  ASSUME HInv, OInv, NEW n \in Nodes, InfoReceived(n)
  PROVE  OInv'
<1>1. n \in Known /\ nodeData \in [Known -> NodeData]
  BY DEF HInv, HTyped, CallInTime, InfoReceived
<1>2. PICK d : d = nodeData[n]
  OBVIOUS
<1>3. PICK e : e = [d EXCEPT !.info = call[n].answer, !.dataFetching = FALSE, !.dataFetched = TRUE]
  OBVIOUS
<1>4. nodeData' = [nodeData EXCEPT ![n] = e]
  BY <1>2, <1>3 DEF InfoReceived, Fetching
<1>5. d \in NodeData
  BY <1>1, <1>2
<1>6. e.heartbeat = d.heartbeat /\ e.timeout = d.timeout
  BY <1>3, <1>5 DEF NodeData
<1>7. Known' = Known /\ nodeData'[n] = e /\ \A m \in Known \ {n} : nodeData'[m] = nodeData[m]
  BY <1>1, <1>4 DEF Known
<1>8. silence' = silence
  BY DEF InfoReceived, history
<1> QED
  BY <1>2, <1>6, <1>7, <1>8, StaysOnTime

\* A row is online as long as its node was heard within the offline timeout, and not
\* for longer, for any timeouts and any order of heartbeats, answers and restarts
\* (nodeshealthmodel.cpp:267-286).
THEOREM HeardIsOnline == Spec => []OnlineWhileHeard
<1>1. Init => OInv
  BY HealthAssumption DEF Init, OInv, Known
<1>2. HInv /\ OInv /\ [Next]_vars => OInv'
  <2> SUFFICES ASSUME HInv, OInv, [Next]_vars PROVE OInv'
    OBVIOUS
  <2>1. ASSUME NEW n \in Nodes, Heartbeat(n) PROVE OInv'
    BY <2>1, HeartbeatOnTime
  <2>2. ASSUME NEW n \in Nodes, InfoReceived(n) PROVE OInv'
    BY <2>2, ReceivedOnTime
  <2>3. ASSUME NEW n \in Nodes, Offline(n) PROVE OInv'
    BY <2>3, OfflineOnTime
  <2>4. ASSUME NEW n \in Nodes, InfoFailed(n) \/ Start(n) \/ Stop(n) \/ Answer(n) PROVE OInv'
    <3>1. nodeData' = nodeData /\ silence' = silence /\ Known' = Known
      BY <2>4 DEF InfoFailed, Start, Stop, Answer, Known, history
    <3> QED
      BY <3>1, StaysOnTime
  <2>5. CASE Tick
    BY <2>5, TickOnTime
  <2>6. CASE UNCHANGED vars
    BY <2>6, StaysOnTime DEF vars, history, Known
  <2> QED
    BY <2>1, <2>2, <2>3, <2>4, <2>5, <2>6 DEF Next
<1>3. HInv /\ OInv => OnlineWhileHeard
  <2> SUFFICES ASSUME HInv, OInv, NEW n \in Known
               PROVE  /\ silence[n] < OfflineTimeout => nodeData[n].heartbeat
                      /\ silence[n] > OfflineTimeout => ~nodeData[n].heartbeat
    BY DEF OnlineWhileHeard
  <2>1. nodeData[n].timeout \in 0 .. OfflineTimeout /\ silence[n] \in Nat
    BY RowTyped DEF HInv, HTyped, OInv
  <2> QED
    BY <2>1, HealthAssumption DEF OInv, OnTime
<1> QED
  BY <1>1, <1>2, <1>3, InTime, PTL DEF Spec
=============================================================================
