------------------------- MODULE ServiceCallsProofs -------------------------
(***************************************************************************)
(* Theorems about ServiceCalls, for any number of callers, transfer ids    *)
(* and restarts, and for both kinds of event loop.                         *)
(***************************************************************************)
EXTENDS ServiceCalls, TLAPS

\* The transfer ids of one run of the process are all different and all below
\* transfer_id_; a response answers a request.
IdsUnique ==
  /\ \A k \in requests :
       k.inc <= incarnation /\ (k.inc = incarnation => k.tid < transferId)
  /\ \A j, k \in requests : j.inc = k.inc /\ j.tid = k.tid => j = k
  /\ responses \subseteq requests
  /\ \A c \in Callers : rx[c] \subseteq responses

\* A pending call was sent, belongs to a live caller, has a timer and has had
\* no outcome yet.
PendingCalls ==
  \A k \in Calls : IsPending(k) =>
    /\ k \in requests
    /\ caller[k.caller] = "live"
    /\ timer[k] # "off"
    /\ answered[k] = 0 /\ failed[k] = 0

\* Only calls of this run have a timer; an armed one has a pending call, and so
\* has a queued one where destroying a timer cancels it.
Timers ==
  \A k \in Calls :
    /\ timer[k] # "off" => k.inc = incarnation /\ k \in requests /\ caller[k.caller] # "none"
    /\ timer[k] = "armed" => IsPending(k)
    /\ timer[k] = "queued" /\ ~LateCallbacks => IsPending(k)

\* A call that was never sent has no outcome; a promised one has at most one.
Outcomes ==
  /\ \A k \in Calls \ requests : answered[k] = 0 /\ failed[k] = 0
  /\ AtMostOneOutcome

IInv == TypeOK /\ IdsUnique /\ PendingCalls /\ Timers /\ Outcomes

-----------------------------------------------------------------------------
(* Lemmas about the operators *)

\* A call is determined by its three fields, and CallOf builds calls of this run.
LEMMA CallFields ==
  /\ \A c \in Callers, t \in Tids : incarnation \in Incarnations =>
       /\ CallOf(c, t) \in Calls
       /\ CallOf(c, t).inc = incarnation
       /\ CallOf(c, t).tid = t
       /\ CallOf(c, t).caller = c
  /\ \A k \in Calls :
       /\ k.inc \in Incarnations /\ k.tid \in Tids /\ k.caller \in Callers
       /\ k.inc = incarnation => k = CallOf(k.caller, k.tid)
BY DEF Calls, CallOf

-----------------------------------------------------------------------------
(* Type correctness *)

LEMMA TypeInit == Init => TypeOK
<1> SUFFICES ASSUME Init PROVE TypeOK
  OBVIOUS
<1> USE ServiceCallsAssumption DEF Init
<1>1. incarnation \in Incarnations /\ transferId \in 0 .. MaxTid
  BY DEF Incarnations
<1>2. /\ caller \in [Callers -> {"none", "live", "dead"}]
      /\ pending \in [Callers -> SUBSET Tids]
      /\ rx \in [Callers -> SUBSET Calls]
  OBVIOUS
<1>3. /\ timer \in [Calls -> {"off", "armed", "queued"}]
      /\ answered \in [Calls -> Nat] /\ failed \in [Calls -> Nat]
  OBVIOUS
<1> QED
  BY <1>1, <1>2, <1>3 DEF TypeOK

LEMMA TypeStep == TypeOK /\ [Next]_vars => TypeOK'
<1> SUFFICES ASSUME TypeOK, [Next]_vars PROVE TypeOK'
  OBVIOUS
<1> USE ServiceCallsAssumption, CallFields DEF TypeOK
<1>r. \A c \in Callers : rx[c] \subseteq Calls
  OBVIOUS
<1>1. ASSUME NEW c \in Callers, Prepare(c) PROVE TypeOK'
  BY <1>1 DEF Prepare, network, outcome
<1>2. ASSUME NEW c \in Callers, Destroy(c) PROVE TypeOK'
  BY <1>2 DEF Destroy, Cancelled, network, outcome
<1>3. ASSUME NEW c \in Callers, Call(c) PROVE TypeOK'
  <2>1. transferId \in Tids /\ transferId' \in 0 .. MaxTid
    BY <1>3 DEF Call, NextTransferId, Tids
  <2> QED
    BY <1>3, <2>1 DEF Call, Started, outcome
<1>4. ASSUME NEW c \in Callers, CallNotSent(c) PROVE TypeOK'
  BY <1>4 DEF CallNotSent, NextTransferId, network, outcome
<1>5. ASSUME NEW c \in Callers, NEW r \in Calls, LateReceive(c, r) PROVE TypeOK'
  BY <1>5 DEF LateReceive, network, outcome
<1>6. ASSUME NEW c \in Callers, NEW R \in SUBSET responses, Receive(c, R) PROVE TypeOK'
  BY <1>6 DEF Receive, network, outcome
<1>7. ASSUME NEW c \in Callers, NEW k \in Calls, AcceptResponse(c, k) PROVE TypeOK'
  BY <1>7 DEF AcceptResponse, Erased, Cancelled, network
<1>8. ASSUME NEW c \in Callers, NEW k \in Calls, RejectResponse(c, k) PROVE TypeOK'
  BY <1>8 DEF RejectResponse, network, outcome
<1>9. ASSUME NEW k \in Calls, HandleRequest(k) PROVE TypeOK'
  BY <1>9 DEF HandleRequest, outcome
<1>10. ASSUME NEW k \in Calls, Expire(k) PROVE TypeOK'
  BY <1>10 DEF Expire, network, outcome
<1>11. ASSUME NEW k \in Calls, Timeout(k) PROVE TypeOK'
  <2>1. CASE MappedTimeout(k)
    BY <2>1 DEF MappedTimeout, Fires, ReportError, Erased, network
  <2>2. CASE MappedTimeoutTooLate(k)
    BY <2>2 DEF MappedTimeoutTooLate, Fires, network, outcome
  <2>3. CASE SharedTimeout(k)
    BY <2>3 DEF SharedTimeout, Fires, ReportError, Erased, network
  <2>4. CASE LateTimeout(k)
    BY <2>4 DEF LateTimeout, Fires, network, outcome
  <2> QED
    BY <1>11, <2>1, <2>2, <2>3, <2>4 DEF Timeout
<1>12. ASSUME Restart PROVE TypeOK'
  BY <1>12 DEF Restart, Incarnations, network, outcome
<1>13. CASE UNCHANGED vars
  BY <1>13 DEF vars, network, outcome
<1> QED
  BY <1>1, <1>2, <1>3, <1>4, <1>5, <1>6, <1>7, <1>8, <1>9, <1>10, <1>11, <1>12,
     <1>13, <1>r DEF Next, HandleResponse

\* The type invariant of ServiceCalls holds for every instance.
THEOREM TypeCorrect == Spec => []TypeOK
BY TypeInit, TypeStep, PTL DEF Spec, SafetySpec

-----------------------------------------------------------------------------
(* The inductive invariant *)

LEMMA InvInit == Init => IInv
<1> SUFFICES ASSUME Init PROVE IInv
  OBVIOUS
<1> USE DEF Init
<1>1. TypeOK
  BY TypeInit
<1>2. IdsUnique
  BY DEF IdsUnique
<1>3. PendingCalls /\ Timers
  BY CallFields DEF PendingCalls, Timers, IsPending
<1>4. Outcomes
  BY DEF Outcomes, AtMostOneOutcome, PromisedCalls
<1> QED
  BY <1>1, <1>2, <1>3, <1>4 DEF IInv

LEMMA InvStep == IInv /\ [Next]_vars => IInv'
<1> SUFFICES ASSUME IInv, [Next]_vars PROVE IInv'
  OBVIOUS
<1>0. TypeOK'
  BY TypeStep DEF IInv
<1> USE <1>0, ServiceCallsAssumption, CallFields DEF IInv, TypeOK, IsPending
<1>r. \A c \in Callers : rx[c] \subseteq Calls
  OBVIOUS
<1>1. ASSUME NEW c \in Callers, Prepare(c) PROVE IInv'
  <2>1. IdsUnique'
    BY <1>1 DEF Prepare, network, outcome, IdsUnique
  <2>2. PendingCalls'
    BY <1>1 DEF Prepare, network, outcome, PendingCalls, IdsUnique, Timers
  <2>3. Timers'
    BY <1>1 DEF Prepare, network, outcome, Timers, PendingCalls
  <2>4. Outcomes'
    BY <1>1 DEF Prepare, network, outcome, Outcomes, AtMostOneOutcome, PromisedCalls, PendingCalls, Timers, IdsUnique
  <2> QED
    BY <1>0, <2>1, <2>2, <2>3, <2>4
<1>2. ASSUME NEW c \in Callers, Destroy(c) PROVE IInv'
  <2>1. IdsUnique'
    BY <1>2 DEF Destroy, Cancelled, network, outcome, IdsUnique
  <2>2. PendingCalls'
    BY <1>2 DEF Destroy, Cancelled, network, outcome, PendingCalls, IdsUnique, Timers
  <2>3. Timers'
    BY <1>2 DEF Destroy, Cancelled, network, outcome, Timers, PendingCalls
  <2>4. Outcomes'
    BY <1>2 DEF Destroy, Cancelled, network, outcome, Outcomes, AtMostOneOutcome, PromisedCalls, PendingCalls, Timers, IdsUnique
  <2> QED
    BY <1>0, <2>1, <2>2, <2>3, <2>4
<1>3. ASSUME NEW c \in Callers, Call(c) PROVE IInv'
  <2> DEFINE new == CallOf(c, transferId)
  <2>a. /\ transferId \in Tids /\ new \in Calls
        /\ new.inc = incarnation /\ new.tid = transferId /\ new.caller = c
    BY <1>3 DEF Call, Tids
  <2>b. /\ incarnation' = incarnation /\ transferId' = transferId + 1
        /\ requests' = requests \union {new} /\ UNCHANGED <<responses, rx>>
    BY <1>3 DEF Call, NextTransferId
  <2>c. \A k \in requests : k.inc = incarnation => k.tid # transferId
    BY DEF IdsUnique, Tids
  <2>d. \A k \in requests' :
          k.inc <= incarnation' /\ (k.inc = incarnation' => k.tid < transferId')
    BY <2>a, <2>b DEF IdsUnique, Tids, Incarnations
  <2>e. \A j, k \in requests' : j.inc = k.inc /\ j.tid = k.tid => j = k
    <3> HIDE DEF new
    <3> QED BY <2>a, <2>b, <2>c DEF IdsUnique
  <2>1. IdsUnique'
    BY <2>b, <2>d, <2>e DEF IdsUnique
  <2>f. answered[new] = 0 /\ failed[new] = 0
    BY <2>a, <2>c DEF Outcomes
  <2>g. /\ caller[c] = "live" /\ UNCHANGED <<caller, answered, failed>>
        /\ timer' = [timer EXCEPT ![new] = "armed"]
        /\ pending' = [pending EXCEPT ![c] = @ \union {transferId}]
    BY <1>3 DEF Call, Started, outcome
  <2>2. PendingCalls'
    <3> SUFFICES ASSUME NEW k \in Calls, IsPending(k)'
                 PROVE  /\ k \in requests' /\ caller'[k.caller] = "live"
                        /\ timer'[k] # "off" /\ answered'[k] = 0 /\ failed'[k] = 0
      BY DEF PendingCalls
    <3>1. CASE k = new
      <4> HIDE DEF new
      <4> QED BY <3>1, <2>a, <2>b, <2>f, <2>g
    <3>2. CASE k # new
      <4>1. k.inc = incarnation /\ k.tid \in pending[k.caller]
        BY <3>2, <2>a, <2>b, <2>g
      <4> HIDE DEF new
      <4> QED BY <3>2, <4>1, <2>a, <2>b, <2>g DEF PendingCalls
    <3> QED BY <3>1, <3>2
  <2>3. Timers'
    BY <1>3 DEF Call, Started, NextTransferId, outcome, Timers, PendingCalls
  <2>4. Outcomes'
    BY <1>3 DEF Call, Started, NextTransferId, outcome, Outcomes, AtMostOneOutcome, PromisedCalls, PendingCalls, Timers, IdsUnique
  <2> QED
    BY <1>0, <2>1, <2>2, <2>3, <2>4
<1>4. ASSUME NEW c \in Callers, CallNotSent(c) PROVE IInv'
  <2>1. IdsUnique'
    BY <1>4 DEF CallNotSent, NextTransferId, network, IdsUnique, Tids, Incarnations
  <2>2. PendingCalls'
    BY <1>4 DEF CallNotSent, NextTransferId, network, outcome, PendingCalls, IdsUnique, Timers
  <2>3. Timers'
    BY <1>4 DEF CallNotSent, NextTransferId, network, outcome, Timers, PendingCalls
  <2>4. Outcomes'
    BY <1>4 DEF CallNotSent, NextTransferId, network, outcome, Outcomes, AtMostOneOutcome, PromisedCalls, PendingCalls, Timers, IdsUnique
  <2> QED
    BY <1>0, <2>1, <2>2, <2>3, <2>4
<1>5. ASSUME NEW c \in Callers, NEW r \in Calls, LateReceive(c, r) PROVE IInv'
  <2>1. IdsUnique'
    BY <1>5 DEF LateReceive, network, outcome, IdsUnique
  <2>2. PendingCalls'
    BY <1>5 DEF LateReceive, network, outcome, PendingCalls, IdsUnique, Timers
  <2>3. Timers'
    BY <1>5 DEF LateReceive, network, outcome, Timers, PendingCalls
  <2>4. Outcomes'
    BY <1>5 DEF LateReceive, network, outcome, Outcomes, AtMostOneOutcome, PromisedCalls, PendingCalls, Timers, IdsUnique
  <2> QED
    BY <1>0, <2>1, <2>2, <2>3, <2>4
<1>6. ASSUME NEW c \in Callers, NEW R \in SUBSET responses, Receive(c, R) PROVE IInv'
  <2>1. IdsUnique'
    BY <1>6 DEF Receive, network, outcome, IdsUnique
  <2>2. PendingCalls'
    BY <1>6 DEF Receive, network, outcome, PendingCalls, IdsUnique, Timers
  <2>3. Timers'
    BY <1>6 DEF Receive, network, outcome, Timers, PendingCalls
  <2>4. Outcomes'
    BY <1>6 DEF Receive, network, outcome, Outcomes, AtMostOneOutcome, PromisedCalls, PendingCalls, Timers, IdsUnique
  <2> QED
    BY <1>0, <2>1, <2>2, <2>3, <2>4
<1>7. ASSUME NEW c \in Callers, NEW r \in Calls, AcceptResponse(c, r) PROVE IInv'
  <2>1. IdsUnique'
    BY <1>7 DEF AcceptResponse, Found, Erased, Cancelled, network, IdsUnique
  <2>2. PendingCalls'
    BY <1>7 DEF AcceptResponse, Found, Erased, Cancelled, network, PendingCalls, IdsUnique, Timers
  <2>3. Timers'
    BY <1>7 DEF AcceptResponse, Found, Erased, Cancelled, network, Timers, PendingCalls
  <2>4. Outcomes'
    BY <1>7 DEF AcceptResponse, Found, Erased, Cancelled, network, Outcomes, AtMostOneOutcome, PromisedCalls, PendingCalls, Timers, IdsUnique
  <2> QED
    BY <1>0, <2>1, <2>2, <2>3, <2>4
<1>8. ASSUME NEW c \in Callers, NEW r \in Calls, RejectResponse(c, r) PROVE IInv'
  <2>1. IdsUnique'
    BY <1>8 DEF RejectResponse, network, outcome, IdsUnique
  <2>2. PendingCalls'
    BY <1>8 DEF RejectResponse, network, outcome, PendingCalls, IdsUnique, Timers
  <2>3. Timers'
    BY <1>8 DEF RejectResponse, network, outcome, Timers, PendingCalls
  <2>4. Outcomes'
    BY <1>8 DEF RejectResponse, network, outcome, Outcomes, AtMostOneOutcome, PromisedCalls, PendingCalls, Timers, IdsUnique
  <2> QED
    BY <1>0, <2>1, <2>2, <2>3, <2>4
<1>9. ASSUME NEW j \in Calls, HandleRequest(j) PROVE IInv'
  <2>1. IdsUnique'
    BY <1>9 DEF HandleRequest, outcome, IdsUnique
  <2>2. PendingCalls'
    BY <1>9 DEF HandleRequest, outcome, PendingCalls, IdsUnique, Timers
  <2>3. Timers'
    BY <1>9 DEF HandleRequest, outcome, Timers, PendingCalls
  <2>4. Outcomes'
    BY <1>9 DEF HandleRequest, outcome, Outcomes, AtMostOneOutcome, PromisedCalls, PendingCalls, Timers, IdsUnique
  <2> QED
    BY <1>0, <2>1, <2>2, <2>3, <2>4
<1>10. ASSUME NEW j \in Calls, Expire(j) PROVE IInv'
  <2>1. IdsUnique'
    BY <1>10 DEF Expire, network, outcome, IdsUnique
  <2>2. PendingCalls'
    BY <1>10 DEF Expire, network, outcome, PendingCalls, IdsUnique, Timers
  <2>3. Timers'
    BY <1>10 DEF Expire, network, outcome, Timers, PendingCalls
  <2>4. Outcomes'
    BY <1>10 DEF Expire, network, outcome, Outcomes, AtMostOneOutcome, PromisedCalls, PendingCalls, Timers, IdsUnique
  <2> QED
    BY <1>0, <2>1, <2>2, <2>3, <2>4
<1>11. ASSUME NEW j \in Calls, MappedTimeout(j) PROVE IInv'
  <2>1. IdsUnique'
    BY <1>11 DEF MappedTimeout, Found, Fires, ReportError, Erased, network, IdsUnique
  <2>2. PendingCalls'
    BY <1>11 DEF MappedTimeout, Found, Fires, ReportError, Erased, network, PendingCalls, IdsUnique, Timers
  <2>3. Timers'
    BY <1>11 DEF MappedTimeout, Found, Fires, ReportError, Erased, network, Timers, PendingCalls
  <2>4. Outcomes'
    BY <1>11 DEF MappedTimeout, Found, Fires, ReportError, Erased, network, Outcomes, AtMostOneOutcome, PromisedCalls, PendingCalls, Timers, IdsUnique
  <2> QED
    BY <1>0, <2>1, <2>2, <2>3, <2>4
<1>12. ASSUME NEW j \in Calls, MappedTimeoutTooLate(j) PROVE IInv'
  <2>1. IdsUnique'
    BY <1>12 DEF MappedTimeoutTooLate, Found, Fires, network, outcome, IdsUnique
  <2>2. PendingCalls'
    BY <1>12 DEF MappedTimeoutTooLate, Found, Fires, network, outcome, PendingCalls, IdsUnique, Timers
  <2>3. Timers'
    BY <1>12 DEF MappedTimeoutTooLate, Found, Fires, network, outcome, Timers, PendingCalls
  <2>4. Outcomes'
    BY <1>12 DEF MappedTimeoutTooLate, Found, Fires, network, outcome, Outcomes, AtMostOneOutcome, PromisedCalls, PendingCalls, Timers, IdsUnique
  <2> QED
    BY <1>0, <2>1, <2>2, <2>3, <2>4
<1>13. ASSUME NEW j \in Calls, SharedTimeout(j) PROVE IInv'
  <2>1. IdsUnique'
    BY <1>13 DEF SharedTimeout, Fires, ReportError, Erased, network, IdsUnique
  <2>2. PendingCalls'
    BY <1>13 DEF SharedTimeout, Fires, ReportError, Erased, network, PendingCalls, IdsUnique, Timers
  <2>3. Timers'
    BY <1>13 DEF SharedTimeout, Fires, ReportError, Erased, network, Timers, PendingCalls
  <2>4. Outcomes'
    BY <1>13 DEF SharedTimeout, Fires, ReportError, Erased, network, Outcomes, AtMostOneOutcome, PromisedCalls, PendingCalls, Timers, IdsUnique
  <2> QED
    BY <1>0, <2>1, <2>2, <2>3, <2>4
<1>14. ASSUME NEW j \in Calls, LateTimeout(j) PROVE IInv'
  <2>1. IdsUnique'
    BY <1>14 DEF LateTimeout, Fires, network, outcome, IdsUnique
  <2>2. PendingCalls'
    BY <1>14 DEF LateTimeout, Fires, network, outcome, PendingCalls, IdsUnique, Timers
  <2>3. Timers'
    BY <1>14 DEF LateTimeout, Fires, network, outcome, Timers, PendingCalls
  <2>4. Outcomes'
    BY <1>14 DEF LateTimeout, Fires, network, outcome, Outcomes, AtMostOneOutcome, PromisedCalls, PendingCalls, Timers, IdsUnique
  <2> QED
    BY <1>0, <2>1, <2>2, <2>3, <2>4
<1>15. ASSUME Restart PROVE IInv'
  <2>1. IdsUnique'
    BY <1>15 DEF Restart, network, IdsUnique, Tids, Incarnations
  <2>2. PendingCalls'
    BY <1>15 DEF Restart, network, outcome, PendingCalls, IdsUnique, Timers
  <2>3. Timers'
    BY <1>15 DEF Restart, network, outcome, Timers, PendingCalls
  <2>4. Outcomes'
    BY <1>15 DEF Restart, network, outcome, Outcomes, AtMostOneOutcome, PromisedCalls, PendingCalls, Timers, IdsUnique
  <2> QED
    BY <1>0, <2>1, <2>2, <2>3, <2>4
<1>16. CASE UNCHANGED vars
  BY <1>16 DEF vars, network, outcome, IdsUnique, PendingCalls, Timers, Outcomes,
     AtMostOneOutcome, PromisedCalls
<1> QED
  BY <1>1, <1>2, <1>3, <1>4, <1>5, <1>6, <1>7, <1>8, <1>9, <1>10, <1>11, <1>12,
     <1>13, <1>14, <1>15, <1>16, <1>r DEF Next, HandleResponse, Timeout

-----------------------------------------------------------------------------
(* Theorems *)

\* The strengthened invariant the following theorems rest on.
THEOREM Invariant == Spec => []IInv
BY InvInit, InvStep, PTL DEF Spec, SafetySpec

\* Whatever the order of response, duplicates, timeout, destruction and restart,
\* a promised call is answered or failed at most once.
THEOREM OneOutcome == Spec => []AtMostOneOutcome
<1>1. IInv => AtMostOneOutcome
  BY DEF IInv, Outcomes
<1> QED
  BY <1>1, Invariant, PTL

\* A pending call always has a timer, and an armed timer a pending call.
THEOREM TimersMatchCalls == Spec => []TimerGuardsPending
<1>1. IInv => TimerGuardsPending
  BY DEF IInv, PendingCalls, Timers, TimerGuardsPending
<1> QED
  BY <1>1, Invariant, PTL

\* A response callback is run for a response to its own call, or for one left
\* over from an earlier run of the process under the same transfer id.
THEOREM AnswersMatch == Spec => AnswerMatchesCall
<1> DEFINE Match ==
      \A k \in Calls : answered'[k] # answered[k] =>
        \E r \in rx[k.caller] : r.tid = k.tid /\ (r.inc = k.inc => r = k)
<1>1. IInv /\ [Next]_vars => Match
  <2> SUFFICES ASSUME IInv, [Next]_vars, NEW k \in Calls, answered'[k] # answered[k]
               PROVE  \E r \in rx[k.caller] : r.tid = k.tid /\ (r.inc = k.inc => r = k)
    OBVIOUS
  <2> USE CallFields DEF IInv, TypeOK
  <2>1. PICK c \in Callers, r \in Calls : AcceptResponse(c, r)
    BY DEF Next, HandleResponse, Prepare, Destroy, Call, CallNotSent, LateReceive, Receive,
       RejectResponse, HandleRequest, Expire, Timeout, MappedTimeout,
       MappedTimeoutTooLate, SharedTimeout, LateTimeout, ReportError, Restart,
       vars, outcome
  <2>2. k = CallOf(c, r.tid)
    BY <2>1 DEF AcceptResponse
  <2>3. r \in rx[c] /\ r \in requests /\ k.tid = r.tid /\ k.caller = c
    BY <2>1, <2>2 DEF AcceptResponse, IdsUnique
  <2>4. k \in requests
    BY <2>1, <2>2 DEF AcceptResponse, Found, PendingCalls, IsPending
  <2> QED
    BY <2>3, <2>4 DEF IdsUnique
<1>2. IInv /\ [Next]_vars => [Match]_vars
  BY <1>1
<1>3. Spec => []IInv /\ [][Next]_vars
  BY Invariant, PTL DEF Spec, SafetySpec
<1>4. Spec => [][Match]_vars
  BY <1>2, <1>3, PTL
<1> QED
  BY <1>4 DEF AnswerMatchesCall

-----------------------------------------------------------------------------
(* ServiceCalls implements CallOutcomes *)

\* The status of a promised call, without the CASE.
LEMMA StatusValues ==
  ASSUME IInv, NEW k \in PromisedCalls
  PROVE  /\ Status(k) \in {"idle", "pending", "answered", "failed", "dropped"}
         /\ Status(k) = "idle" <=> k \notin requests
         /\ Status(k) = "pending" <=> IsPending(k)
         /\ Status(k) = "answered" <=> k \in requests /\ answered[k] = 1
         /\ Status(k) = "failed" <=> k \in requests /\ failed[k] = 1
<1> k \in Calls
  BY DEF PromisedCalls
<1>1. /\ answered[k] \in Nat /\ failed[k] \in Nat
      /\ answered[k] + failed[k] <= 1
  BY DEF IInv, TypeOK, Outcomes, AtMostOneOutcome
<1>2. IsPending(k) => k \in requests /\ answered[k] = 0 /\ failed[k] = 0
  BY DEF IInv, PendingCalls
<1>3. \/ answered[k] = 0 /\ failed[k] = 0
      \/ answered[k] = 1 /\ failed[k] = 0
      \/ answered[k] = 0 /\ failed[k] = 1
  BY <1>1
<1>4. CASE k \notin requests
  BY <1>1, <1>2, <1>4 DEF Status
<1>5. CASE k \in requests /\ answered[k] = 0 /\ failed[k] = 0
  BY <1>5 DEF Status
<1>6. CASE k \in requests /\ answered[k] = 1 /\ failed[k] = 0
  <2>1. Status(k) = "answered"
    BY <1>6 DEF Status
  <2> QED BY <1>2, <1>6, <2>1
<1>7. CASE k \in requests /\ answered[k] = 0 /\ failed[k] = 1
  <2>1. Status(k) = "failed"
    BY <1>7 DEF Status
  <2> QED BY <1>2, <1>7, <2>1
<1> QED
  BY <1>3, <1>4, <1>5, <1>6, <1>7

LEMMA RefinementInit == Init => Promise!Init
<1> SUFFICES ASSUME Init PROVE Promise!Init
  OBVIOUS
<1>1. \A k \in PromisedCalls : Status(k) = "idle"
  BY DEF Init, Status
<1> QED
  BY <1>1 DEF Promise!Init

\* A status depends only on whether the call was sent, is pending, was answered
\* or failed.
LEMMA SameStatus ==
  ASSUME NEW k, k \in requests' <=> k \in requests, IsPending(k)' <=> IsPending(k),
         answered'[k] = answered[k], failed'[k] = failed[k]
  PROVE  Status(k)' = Status(k)
BY DEF Status

\* Every step of ServiceCalls is a step of CallOutcomes or leaves it unchanged.
LEMMA RefinementStep ==
  IInv /\ [Next]_vars => [Promise!Next]_([k \in PromisedCalls |-> Status(k)])
<1> SUFFICES ASSUME IInv, [Next]_vars
             PROVE  Promise!Next \/ UNCHANGED [k \in PromisedCalls |-> Status(k)]
  OBVIOUS
<1> DEFINE st == [k \in PromisedCalls |-> Status(k)]
<1>0. IInv'
  BY InvStep
<1> USE CallFields DEF IInv, TypeOK, IsPending
<1>r. \A c \in Callers : rx[c] \subseteq Calls
  OBVIOUS
<1>p. PromisedCalls \subseteq Calls
  BY DEF PromisedCalls
<1>e. ASSUME NEW x \in PromisedCalls, NEW v, Status(x)' = v,
             \A j \in PromisedCalls : j # x => Status(j)' = st[j]
      PROVE  st' = [st EXCEPT ![x] = v]
  BY <1>e
<1>1. ASSUME NEW c \in Callers, Prepare(c) PROVE UNCHANGED st
  BY <1>1, <1>p, SameStatus DEF Prepare, network, outcome
<1>2. ASSUME NEW c \in Callers, Destroy(c) PROVE Promise!Next
  <2> DEFINE K == {k \in PromisedCalls : IsPending(k) /\ k.caller = c}
  <2>1. ASSUME NEW k \in K PROVE st[k] = "pending" /\ Status(k)' = "dropped"
    <3>1. ~IsPending(k)' /\ k \in requests' /\ answered'[k] = 0 /\ failed'[k] = 0
      BY <1>2, <1>p DEF Destroy, network, outcome, PendingCalls
    <3> QED
      BY <3>1, StatusValues DEF Status
  <2>2. ASSUME NEW k \in PromisedCalls \ K PROVE Status(k)' = st[k]
    BY <1>2, <1>p, SameStatus DEF Destroy, network, outcome
  <2>3. st' = [k \in PromisedCalls |-> IF k \in K THEN "dropped" ELSE st[k]]
    BY <2>1, <2>2
  <2>4. Promise!Drop(K)
    BY <2>1, <2>3 DEF Promise!Drop
  <2> QED
    BY <2>4 DEF Promise!Next
<1>3. ASSUME NEW c \in Callers, Call(c) PROVE Promise!Next \/ UNCHANGED st
  <2>0. PICK new \in Calls : new = CallOf(c, transferId)
    BY <1>3, ServiceCallsAssumption DEF Call, Tids
  <2>1. /\ transferId \in Tids /\ new \in Calls
        /\ new.inc = incarnation /\ new.tid = transferId /\ new.caller = c
    BY <1>3, <2>0, ServiceCallsAssumption DEF Call, Tids
  <2>2. /\ requests' = requests \union {new}
        /\ incarnation' = incarnation /\ UNCHANGED <<answered, failed>>
        /\ pending' = [pending EXCEPT ![c] = @ \union {transferId}]
    BY <1>3, <2>0 DEF Call, outcome
  <2>3. new \notin requests
    BY <2>1 DEF IdsUnique, Tids
  <2>4. ASSUME NEW k \in PromisedCalls, k # new PROVE Status(k)' = st[k]
    <3>1. /\ k \in requests' <=> k \in requests
          /\ IsPending(k)' <=> IsPending(k)
          /\ answered'[k] = answered[k] /\ failed'[k] = failed[k]
      <4>1. k.inc = incarnation /\ k.caller = c => k.tid # transferId
        BY <2>0, <2>4, <1>p, <2>1
      <4> QED BY <2>4, <4>1, <1>p, <2>1, <2>2
    <3> QED BY <3>1, SameStatus
  <2>5. new \in PromisedCalls => st[new] = "idle" /\ Status(new)' = "pending"
    <3>1. new \in requests' /\ answered'[new] = 0 /\ failed'[new] = 0
      BY <2>1, <2>2, <2>3 DEF Outcomes
    <3>2. IsPending(new)'
      BY <2>1, <2>2
    <3> QED BY <2>3, <3>1, <3>2 DEF Status
  <2>6. CASE new \in PromisedCalls
    <3>1. st' = [st EXCEPT ![new] = "pending"]
      BY <2>4, <2>5, <2>6, <1>e
    <3>2. Promise!Accept(new)
      BY <2>5, <2>6, <3>1 DEF Promise!Accept
    <3> QED BY <2>6, <3>2 DEF Promise!Next
  <2>7. CASE new \notin PromisedCalls
    BY <2>4, <2>7
  <2> QED BY <2>6, <2>7
<1>4. ASSUME NEW c \in Callers, CallNotSent(c) PROVE UNCHANGED st
  BY <1>4, <1>p, SameStatus DEF CallNotSent, network, outcome
<1>5. ASSUME NEW c \in Callers, NEW r \in Calls, LateReceive(c, r) PROVE UNCHANGED st
  BY <1>5, <1>p, SameStatus DEF LateReceive, network, outcome
<1>6. ASSUME NEW c \in Callers, NEW R \in SUBSET responses, Receive(c, R) PROVE UNCHANGED st
  BY <1>6, <1>p, SameStatus DEF Receive, network, outcome
<1>7. ASSUME NEW c \in Callers, NEW r \in Calls, AcceptResponse(c, r)
      PROVE  Promise!Next \/ UNCHANGED st
  <2>0. PICK k \in Calls : k = CallOf(c, r.tid)
    OBVIOUS
  <2>1. /\ k \in Calls /\ IsPending(k) /\ answered' = [answered EXCEPT ![k] = @ + 1]
        /\ UNCHANGED <<incarnation, requests, failed>>
        /\ pending' = [pending EXCEPT ![c] = @ \ {r.tid}]
    BY <1>7, <2>0 DEF AcceptResponse, Found, Erased, network
  <2>2. ASSUME NEW j \in PromisedCalls, j # k PROVE Status(j)' = st[j]
    <3>1. j.inc = incarnation /\ j.caller = c => j.tid # r.tid
      BY <2>0, <2>2, <1>p
    <3>2. /\ IsPending(j)' <=> IsPending(j)
          /\ answered'[j] = answered[j]
      BY <2>1, <2>2, <3>1, <1>p
    <3> QED BY <2>1, <3>2, SameStatus
  <2>3. k \in PromisedCalls => st[k] = "pending" /\ Status(k)' = "answered"
    <3>1. k \in requests' /\ answered'[k] = 1 /\ failed'[k] = 0
      BY <2>1 DEF PendingCalls
    <3> QED BY <2>1, <3>1, StatusValues DEF Status
  <2>4. CASE k \in PromisedCalls
    <3>1. st' = [st EXCEPT ![k] = "answered"]
      BY <2>2, <2>3, <2>4, <1>e
    <3>2. Promise!Answer(k)
      BY <2>3, <2>4, <3>1 DEF Promise!Answer
    <3> QED BY <2>4, <3>2 DEF Promise!Next
  <2>5. CASE k \notin PromisedCalls
    BY <2>2, <2>5
  <2> QED BY <2>4, <2>5
<1>8. ASSUME NEW c \in Callers, NEW r \in Calls, RejectResponse(c, r) PROVE UNCHANGED st
  BY <1>8, <1>p, SameStatus DEF RejectResponse, network, outcome
<1>9. ASSUME NEW j \in Calls, HandleRequest(j) PROVE UNCHANGED st
  BY <1>9, <1>p, SameStatus DEF HandleRequest, outcome
<1>10. ASSUME NEW j \in Calls, Expire(j) PROVE UNCHANGED st
  BY <1>10, <1>p, SameStatus DEF Expire, network, outcome
<1>11. ASSUME NEW k \in Calls, Fires(k), ReportError(k),
              k \in PromisedCalls => IsPending(k), k.inc = incarnation
       PROVE  Promise!Next \/ UNCHANGED st
  <2>1. /\ failed' = [failed EXCEPT ![k] = @ + 1]
        /\ UNCHANGED <<incarnation, requests, answered>>
        /\ pending' = [pending EXCEPT ![k.caller] = @ \ {k.tid}]
    BY <1>11 DEF ReportError, Erased, network
  <2>2. ASSUME NEW j \in PromisedCalls, j # k PROVE Status(j)' = st[j]
    <3>1. j.inc = incarnation /\ j.caller = k.caller => j.tid # k.tid
      BY <1>11, <2>2, <1>p
    <3>2. /\ IsPending(j)' <=> IsPending(j)
          /\ failed'[j] = failed[j]
      BY <2>1, <2>2, <3>1, <1>p
    <3> QED BY <2>1, <3>2, SameStatus
  <2>3. k \in PromisedCalls => st[k] = "pending" /\ Status(k)' = "failed"
    <3>1. IsPending(k) => k \in requests' /\ answered'[k] = 0 /\ failed'[k] = 1
      BY <2>1 DEF PendingCalls
    <3> QED BY <1>11, <3>1, StatusValues DEF Status
  <2>4. CASE k \in PromisedCalls
    <3>1. st' = [st EXCEPT ![k] = "failed"]
      BY <2>2, <2>3, <2>4, <1>e
    <3>2. Promise!Fail(k)
      BY <2>3, <2>4, <3>1 DEF Promise!Fail
    <3> QED BY <2>4, <3>2 DEF Promise!Next
  <2>5. CASE k \notin PromisedCalls
    BY <2>2, <2>5
  <2> QED BY <2>4, <2>5
<1>12. ASSUME NEW k \in Calls, MappedTimeout(k) PROVE Promise!Next \/ UNCHANGED st
  BY <1>11, <1>12 DEF MappedTimeout, Found, Fires, Timers
<1>13. ASSUME NEW k \in Calls, MappedTimeoutTooLate(k) PROVE UNCHANGED st
  BY <1>13, <1>p, SameStatus DEF MappedTimeoutTooLate, network, outcome
<1>14. ASSUME NEW k \in Calls, SharedTimeout(k) PROVE Promise!Next \/ UNCHANGED st
  BY <1>11, <1>14 DEF SharedTimeout, Fires, Timers, PromisedCalls
<1>15. ASSUME NEW k \in Calls, LateTimeout(k) PROVE UNCHANGED st
  BY <1>15, <1>p, SameStatus DEF LateTimeout, network, outcome
<1>16. ASSUME Restart PROVE Promise!Next
  <2> DEFINE K == {k \in PromisedCalls : IsPending(k)}
  <2>1. ASSUME NEW k \in K PROVE st[k] = "pending" /\ Status(k)' = "dropped"
    <3>1. ~IsPending(k)' /\ k \in requests' /\ answered'[k] = 0 /\ failed'[k] = 0
      BY <1>16, <1>p DEF Restart, network, outcome, PendingCalls
    <3> QED
      BY <3>1, StatusValues DEF Status
  <2>2. ASSUME NEW k \in PromisedCalls \ K PROVE Status(k)' = st[k]
    BY <1>16, <1>p, SameStatus DEF Restart, network, outcome
  <2>3. st' = [k \in PromisedCalls |-> IF k \in K THEN "dropped" ELSE st[k]]
    BY <2>1, <2>2
  <2>4. Promise!Drop(K)
    BY <2>1, <2>3 DEF Promise!Drop
  <2> QED
    BY <2>4 DEF Promise!Next
<1>17. CASE UNCHANGED vars
  BY <1>17, SameStatus DEF vars, network, outcome
<1> QED
  BY <1>1, <1>2, <1>3, <1>4, <1>5, <1>6, <1>7, <1>8, <1>9, <1>10, <1>12, <1>13,
     <1>14, <1>15, <1>16, <1>17, <1>r DEF Next, HandleResponse, Timeout

\* Callers, timers, the shared port and the network together keep the promise
\* of prepareServiceCalls, as far as safety goes.
THEOREM Refinement == Spec => Promise!SafetySpec
<1>1. Spec => []IInv /\ [][Next]_vars
  BY Invariant, PTL DEF Spec, SafetySpec
<1>2. Spec => Init
  BY PTL DEF Spec, SafetySpec
<1> QED
  BY <1>1, <1>2, RefinementInit, RefinementStep, PTL DEF Promise!SafetySpec
=============================================================================
