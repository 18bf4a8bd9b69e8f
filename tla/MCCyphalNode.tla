---------------------------- MODULE MCCyphalNode ----------------------------
(* Three nodes of one subnet, one on each library, and a free address, two   *)
(* slots, one subject id that is both a message and a service.  The bounds   *)
(* keep the run within minutes; each is named for what it leaves out.        *)
EXTENDS CyphalNode, TLC

CONSTANTS asio, qt, asyncio, s1, s2, h1, h2, h3

Unicast(i) == [prefix |-> 20, subnet |-> 3, low |-> i]
Home       == asio :> Unicast(1) @@ qt :> Unicast(2) @@ asyncio :> Unicast(3)
MCAddrs    == {Home[n] : n \in Nodes} \union {Unicast(8191)}
MCSubjects == {5}

\* One assignment of addresses: any other differs from it by names only, and a node
\* comes to 8191 by moving there.
MCInit == Init /\ addr = Home

\* Two of the three nodes do something in one behaviour, one of them the one on Qt:
\* what happens to a node takes its own sockets and one node that sends to it.
Involved ==
  {n \in Nodes : SubsOf(n) # {} \/ addr[n] # Home[n]} \union {d.node : d \in air} \union orphaned
Pair == Cardinality(Involved) <= 1 \/ (Cardinality(Involved) = 2 /\ qt \in Involved)

\* A third handle and copies of handles are there only while one node is involved
\* and one datagram was sent.
InUse   == {h \in Handles : handle[h] # Empty}
Few ==
  \/ (Cardinality(Involved) <= 1 /\ Cardinality(air) <= 1)
  \/ (copies = 0 /\ Cardinality(InUse) <= 2)

\* Two datagrams are requests or responses, and a request goes to an address that a node
\* has or had which does something.
Aimed ==
  /\ Cardinality(air) <= 1 \/ \A d \in air : d.ds.role # "message"
  /\ \A d \in air : d.ds.node_id \in
       {0} \union {NodeId(addr[n]) : n \in Involved} \union {NodeId(Home[n]) : n \in Involved}

\* Nothing is subscribed or sent, but responses, once the event loop has a destroyed
\* socket or a handle was misused.
Spoilt == orphaned # {} \/ misused
Restrained ==
  Spoilt => /\ Cardinality(InUse') <= Cardinality(InUse)
            /\ \A d \in air' \ air : d.ds.role = "response"

MCNext  == Next /\ Pair' /\ Few' /\ Aimed' /\ Restrained
MCSpec  == MCInit /\ [][MCNext]_vars

SlotsAndHandles == Permutations(Slots) \union Permutations(Handles)
=============================================================================
