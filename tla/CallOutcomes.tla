---------------------------- MODULE CallOutcomes ----------------------------
(***************************************************************************)
(* What a service caller promises, with no transfer ids, timers or         *)
(* datagrams: "the result of a call will be delivered to callback f or to  *)
(* ef in case of a error" (include/cyphalpp.hpp:683-685).  An accepted     *)
(* call is pending until it gets exactly one outcome, unless the caller    *)
(* object or the whole process goes away first.                            *)
(***************************************************************************)
CONSTANT Calls

VARIABLE status

Settled == {"answered", "failed", "dropped"}

TypeOK == status \in [Calls -> {"idle", "pending"} \union Settled]

Init == status = [k \in Calls |-> "idle"]

Accept(k) ==
  /\ status[k] = "idle"
  /\ status' = [status EXCEPT ![k] = "pending"]

Answer(k) ==
  /\ status[k] = "pending"
  /\ status' = [status EXCEPT ![k] = "answered"]

Fail(k) ==
  /\ status[k] = "pending"
  /\ status' = [status EXCEPT ![k] = "failed"]

\* The owner of the pending calls in K is destroyed: nobody is told.
Drop(K) ==
  /\ \A k \in K : status[k] = "pending"
  /\ status' = [k \in Calls |-> IF k \in K THEN "dropped" ELSE status[k]]

Next ==
  \/ \E k \in Calls : Accept(k) \/ Answer(k) \/ Fail(k)
  \/ \E K \in SUBSET Calls : Drop(K)

SafetySpec == Init /\ [][Next]_status

\* A pending call does not wait for ever: the timeout settles it at the latest.
Spec == SafetySpec /\ \A k \in Calls : WF_status(Fail(k))
=============================================================================
