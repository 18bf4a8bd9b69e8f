----------------------------- MODULE Transfers ------------------------------
(***************************************************************************)
(* What a network of nodes promises the handlers that run on them: a       *)
(* handler runs only for a transfer that was sent, that its node listens   *)
(* to at that moment, and that was meant for the id the node had when it   *)
(* took the transfer in; and it is told what was sent, and by whom.  A     *)
(* transfer may wait between the two, and its node may be given another id *)
(* meanwhile.  No addresses, ports, sockets, subscription objects, handles *)
(* or event loops.                                                         *)
(***************************************************************************)
CONSTANTS Nodes, Ids, Subjects

VARIABLES
  id,         \* the node id of every node
  listening,  \* the pairs <<role, subject>> every node listens to
  sent,       \* the transfers sent: [role, source, target, subject]
  inbox,      \* those a node has taken in and may still handle
  handling    \* what the handler that runs on a node was given, or NotHandling

vars == <<id, listening, sent, inbox, handling>>

NotHandling == [handling |-> FALSE]
Given(t) == [role |-> t.role, node_id |-> t.source, subject_id |-> t.subject]

Roles     == {"message", "request", "response"}
Transfers == [role : Roles, source : Ids, target : Ids, subject : Subjects]

Init ==
  /\ id \in [Nodes -> Ids]
  /\ sent = {}
  /\ inbox = [n \in Nodes |-> {}]
  /\ handling = [n \in Nodes |-> NotHandling]
  /\ listening = [n \in Nodes |-> {}]

Send ==
  /\ UNCHANGED <<id, listening, inbox, handling>>
  /\ \E t \in sent' : t \in Transfers /\ sent' = sent \union {t}

\* What was sent to n as it is now.
Meant(n) ==
  {t \in sent : <<t.role, t.subject>> \in listening[n] /\ (t.role # "message" => t.target = id[n])}

TakeIn(n) ==
  /\ UNCHANGED <<id, listening, sent, handling>>
  /\ \E T \in SUBSET Meant(n) : inbox' = [inbox EXCEPT ![n] = @ \union T]

\* There is no promise that what waits is handled.
Forget(n) == \E I \in SUBSET inbox[n] : inbox' = [inbox EXCEPT ![n] = I]

Handle(n) ==
  /\ UNCHANGED <<id, listening, sent>>
  /\ handling[n] = NotHandling
  /\ \E t \in inbox[n] \union Meant(n) :
       /\ <<t.role, t.subject>> \in listening[n]
       /\ handling' = [handling EXCEPT ![n] = Given(t)]
  /\ Forget(n)

\* A handler returns; a request's handler may send the response, to the node
\* the request came from.
Return(n) ==
  /\ UNCHANGED <<id, listening, inbox>>
  /\ handling[n] # NotHandling
  /\ handling' = [handling EXCEPT ![n] = NotHandling]
  /\ \/ sent' = sent
     \/ /\ handling[n].role = "request"
        /\ sent' = sent \union {[role |-> "response", source |-> id[n],
                                 target |-> handling[n].node_id,
                                 subject |-> handling[n].subject_id]}

Listen(n) ==
  /\ UNCHANGED <<id, sent, handling>>
  /\ \E L \in SUBSET (Roles \X Subjects) : listening' = [listening EXCEPT ![n] = L]
  /\ Forget(n)

Move(n) ==
  /\ UNCHANGED <<listening, sent, handling>>
  /\ \E i \in Ids : id' = [id EXCEPT ![n] = i]
  /\ Forget(n)

Next ==
  \/ Send
  \/ \E n \in Nodes : TakeIn(n) \/ Handle(n) \/ Return(n) \/ Listen(n) \/ Move(n)

Spec == Init /\ [][Next]_vars
=============================================================================
