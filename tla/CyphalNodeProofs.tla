-------------------------- MODULE CyphalNodeProofs --------------------------
(***************************************************************************)
(* First the address arithmetic of cyphalpp, for every address, node id,   *)
(* subject and service id of their types, and what it means for one        *)
(* datagram (Datagram).  Then nodes (CyphalNode), for any number of nodes, *)
(* handles and addresses: handles keep to their subscriptions, responses   *)
(* answer, and the whole implements Transfers.                             *)
(***************************************************************************)
EXTENDS CyphalNode, Datagram, TLAPS

RoleBit(role) == IF role = "request" THEN 0 ELSE 1

-----------------------------------------------------------------------------
(* Lemmas about numbers and ports *)

LEMMA U16Values == \A n \in U16 : n \in Nat /\ n < 65536
BY SMT DEF U16

LEMMA Interval == \A x, y \in Int : 0 <= x /\ x <= y => x \in 0 .. y
OBVIOUS

LEMMA InU16 == ASSUME NEW n \in Nat, n < 65536 PROVE n \in U16
<1>1. PICK y \in Int : y = 65535
  OBVIOUS
<1>2. U16 = 0 .. y
  BY <1>1 DEF U16
<1>3. n \in Int /\ 0 <= n /\ n <= y
  BY <1>1
<1> QED BY <1>2, <1>3, Interval

LEMMA RoleBits == \A ds : RoleBit(ds.role) \in {0, 1}
BY SMT DEF RoleBit

LEMMA PortFormula ==
  \A ds : ServicePort(ds) = (16384 + ds.subject_id * 2 + RoleBit(ds.role)) % 65536
BY SMT DEF ServicePort, UNICAST_BASE_PORT, MULTICAST_PORT, RoleBit

LEMMA PortType == ASSUME NEW ds \in Specifiers PROVE ServicePort(ds) \in Nat
<1>1. ds.subject_id \in Nat
  BY U16Values, SMT DEF Specifiers
<1>2. \A s \in Nat, b \in {0, 1} : (16384 + s * 2 + b) % 65536 \in Nat
  BY SMT
<1> QED
  BY <1>1, <1>2, RoleBits, PortFormula, SMT

\* The port of a service that fits is not cut by the cast to 16 bits.
LEMMA PortFits ==
  ASSUME NEW ds \in Specifiers, ds.subject_id < 24576
  PROVE  ServicePort(ds) = 16384 + ds.subject_id * 2 + RoleBit(ds.role)
<1>1. ds.subject_id \in Nat
  BY U16Values, SMT DEF Specifiers
<1>2. \A s \in Nat, b \in {0, 1} : s < 24576 => (16384 + s * 2 + b) % 65536 = 16384 + s * 2 + b
  BY SMT
<1> QED
  BY <1>1, <1>2, RoleBits, PortFormula, SMT

\* From such a port the role and the service can be read back.
LEMMA PortRead ==
  ASSUME NEW ds \in Specifiers, ds.subject_id < 24576
  PROVE  /\ ServicePort(ds) >= UNICAST_BASE_PORT
         /\ ServicePort(ds) % 2 = RoleBit(ds.role)
         /\ (ServicePort(ds) - UNICAST_BASE_PORT) \div 2 = ds.subject_id
<1>1. ds.subject_id \in Nat
  BY U16Values, SMT DEF Specifiers
<1>2. \A s \in Nat, b \in {0, 1} :
        /\ (16384 + s * 2 + b) % 2 = b
        /\ (16384 + s * 2 + b - 16384) \div 2 = s
        /\ 16384 + s * 2 + b >= 16384
  BY SMT
<1> QED
  BY <1>1, <1>2, PortFits, RoleBits, SMT DEF UNICAST_BASE_PORT, MULTICAST_PORT

\* Whatever its service id, the port keeps the role, and what is read from it
\* differs from the id by a multiple of 32768.
LEMMA PortWraps ==
  ASSUME NEW ds \in Specifiers
  PROVE  /\ ServicePort(ds) % 2 = RoleBit(ds.role)
         /\ ServicePort(ds) >= UNICAST_BASE_PORT =>
              ((ServicePort(ds) - UNICAST_BASE_PORT) \div 2 - ds.subject_id) % 32768 = 0
<1>1. ds.subject_id \in Nat /\ ds.subject_id < 65536
  BY U16Values, SMT DEF Specifiers
<1>2. ASSUME NEW s \in Nat, s < 65536, NEW b \in {0, 1}
      PROVE  \E k \in 0 .. 2 :
               (16384 + s * 2 + b) % 65536 = 16384 + s * 2 + b - 65536 * k
  BY <1>2, SMT
<1>3. PICK k \in 0 .. 2 :
        ServicePort(ds) = 16384 + ds.subject_id * 2 + RoleBit(ds.role) - 65536 * k
  BY <1>1, <1>2, RoleBits, PortFormula, SMT
<1>4. PICK s \in Nat, b \in {0, 1} : s = ds.subject_id /\ b = RoleBit(ds.role)
  BY <1>1, RoleBits, SMT
<1>5. PICK p \in Int : p = ServicePort(ds) /\ p = 16384 + s * 2 + b - 65536 * k
  BY <1>3, <1>4, SMT
<1>6. /\ p % 2 = b
      /\ ((p - 16384) \div 2 - s) % 32768 = 0
  <2>1. p = 2 * (8192 + s - 32768 * k) + b
    BY <1>5, SMT
  <2>2. (p - 16384) \div 2 = s - 32768 * k
    BY <1>5, SMT
  <2> QED
    BY <2>1, <2>2, SMT
<1> QED
  BY <1>4, <1>5, <1>6, SMT DEF UNICAST_BASE_PORT, MULTICAST_PORT

-----------------------------------------------------------------------------
(* Reading an address back *)

NodeAddresses == {a \in Addresses : IsNodeAddress(a)}

\* The fields of a node address, and what the constructor's masks leave of them.
LEMMA NodeFields ==
  ASSUME NEW a \in NodeAddresses
  PROVE  /\ a.subnet % 128 = a.subnet
         /\ a.prefix % 512 = a.prefix
         /\ a.prefix # MulticastPrefix
<1>1. a.subnet \in 0 .. 127 /\ a.prefix \in 0 .. 511
  BY SMT DEF NodeAddresses, Addresses
<1>2. a.prefix # MulticastPrefix
  BY DEF NodeAddresses, IsNodeAddress, IsValidMessage
<1>3. (\A n \in 0 .. 127 : n % 128 = n) /\ (\A n \in 0 .. 511 : n % 512 = n)
  BY SMT
<1> QED
  BY <1>1, <1>2, <1>3

LEMMA Masked ==
  ASSUME NEW n \in U16
  PROVE  /\ n % 8192 \in Nat /\ n % 8192 < 8192
         /\ (n % 8192) % 8192 = n % 8192
         /\ n < 8192 => n % 8192 = n
         /\ ((n % 8192) - n) % 8192 = 0
<1>1. n \in Nat
  BY U16Values
<1> QED
  BY <1>1, SMT

\* Where a message goes.
LEMMA MessageDest ==
  ASSUME NEW a \in NodeAddresses, NEW ds \in Specifiers, ds.role = "message"
  PROVE  FromDataSpecifier(a, ds) =
           [addr |-> [prefix |-> MulticastPrefix, subnet |-> a.subnet,
                      low |-> ds.subject_id % 8192],
            port |-> MULTICAST_PORT]
<1>1. MulticastPrefix % 512 = MulticastPrefix
  BY SMT DEF MulticastPrefix
<1>2. a.subnet % 128 = a.subnet
  BY NodeFields
<1> QED
  BY <1>1, <1>2, SMT DEF FromDataSpecifier, MessageAddr

\* Where a request or a response goes.
LEMMA ServiceDest ==
  ASSUME NEW a \in NodeAddresses, NEW ds \in Specifiers, ds.role # "message"
  PROVE  FromDataSpecifier(a, ds) =
           [addr |-> [prefix |-> a.prefix, subnet |-> a.subnet,
                      low |-> ds.node_id % 8192],
            port |-> ServicePort(ds)]
<1>1. a.subnet % 128 = a.subnet /\ a.prefix % 512 = a.prefix
  BY NodeFields
<1> QED
  BY <1>1, SMT DEF FromDataSpecifier, MessageAddr

\* Two sockets that are bound to the same place agree on the kind of transfer and
\* on the subnet.
LEMMA SameKind ==
  ASSUME NEW a \in NodeAddresses, NEW r \in NodeAddresses,
         NEW ds \in Specifiers, NEW hs \in Specifiers,
         FromDataSpecifier(r, hs) = FromDataSpecifier(a, ds)
  PROVE  /\ ds.role = "message" <=> hs.role = "message"
         /\ a.subnet = r.subnet
<1>1. CASE ds.role = "message" /\ hs.role = "message"
  BY <1>1, MessageDest
<1>2. CASE ds.role # "message" /\ hs.role # "message"
  BY <1>2, ServiceDest
<1>3. CASE ds.role = "message" /\ hs.role # "message"
  BY <1>3, MessageDest, ServiceDest, NodeFields
<1>4. CASE ds.role # "message" /\ hs.role = "message"
  BY <1>4, MessageDest, ServiceDest, NodeFields
<1> QED
  BY <1>1, <1>2, <1>3, <1>4

\* What FromPacket makes of a message, and of a request or response.
LEMMA ReadMessage ==
  ASSUME NEW a \in NodeAddresses, NEW r \in NodeAddresses, a.subnet = r.subnet,
         NEW f \in NodeAddresses, f.subnet = r.subnet, NEW ds \in Specifiers, ds.role = "message"
  PROVE  FromPacket(r, [addr |-> f, port |-> 0], FromDataSpecifier(a, ds)) =
           [role |-> "message", node_id |-> NodeId(f), subject_id |-> ds.subject_id % 8192]
<1>1. (ds.subject_id % 8192) % 8192 = ds.subject_id % 8192
  BY Masked DEF Specifiers
<1>2. PICK d : d = FromDataSpecifier(a, ds)
  OBVIOUS
<1>3. PICK src : src = [addr |-> f, port |-> 0]
  OBVIOUS
<1>4. PICK n : n = ds.subject_id % 8192 /\ n % 8192 = n
  BY <1>1
<1>5. /\ d.addr.prefix = MulticastPrefix /\ d.addr.subnet = a.subnet
      /\ d.addr.low = n /\ d.port = MULTICAST_PORT
      /\ src.addr = f
  BY <1>2, <1>3, <1>4, MessageDest
<1>6. FromPacket(r, src, d) =
        [role |-> "message", node_id |-> NodeId(f), subject_id |-> n]
  BY <1>4, <1>5, SMT DEF FromPacket, IsValidMessage, SubjectId, NodeId
<1> QED
  BY <1>2, <1>3, <1>4, <1>6

LEMMA ReadService ==
  ASSUME NEW a \in NodeAddresses, NEW r \in NodeAddresses, a.subnet = r.subnet,
         NEW f \in NodeAddresses, f.subnet = r.subnet, NEW ds \in Specifiers, ds.role # "message",
         ServicePort(ds) >= UNICAST_BASE_PORT
  PROVE  FromPacket(r, [addr |-> f, port |-> 0], FromDataSpecifier(a, ds)) =
           [role |-> ds.role, node_id |-> NodeId(f),
            subject_id |-> (ServicePort(ds) - UNICAST_BASE_PORT) \div 2]
<1>1. (IF ServicePort(ds) % 2 = 0 THEN "request" ELSE "response") = ds.role
  <2>1. ServicePort(ds) % 2 = RoleBit(ds.role)
    BY PortWraps
  <2>2. ds.role = "request" \/ ds.role = "response"
    BY DEF Specifiers, Roles
  <2> QED
    BY <2>1, <2>2, SMT DEF RoleBit
<1>2. PICK p \in Nat : p = ServicePort(ds) /\ p >= UNICAST_BASE_PORT
  BY PortType
<1>3. PICK d : d = FromDataSpecifier(a, ds)
  OBVIOUS
<1>4. PICK src : src = [addr |-> f, port |-> 0]
  OBVIOUS
<1>5. /\ d.addr.prefix # MulticastPrefix /\ d.addr.subnet = a.subnet /\ d.port = p
      /\ src.addr = f
  BY <1>2, <1>3, <1>4, ServiceDest, NodeFields
<1>6. FromPacket(r, src, d) =
        [role |-> IF p % 2 = 0 THEN "request" ELSE "response", node_id |-> NodeId(f),
         subject_id |-> (p - UNICAST_BASE_PORT) \div 2]
  BY <1>2, <1>5, SMT DEF FromPacket, IsValidMessage, NodeId
<1> QED
  BY <1>1, <1>2, <1>3, <1>4, <1>6

\* A port below the first unicast port is refused.
LEMMA ReadRefused ==
  ASSUME NEW a \in NodeAddresses, NEW r \in NodeAddresses, a.subnet = r.subnet,
         NEW ds \in Specifiers, ds.role # "message",
         ~(ServicePort(ds) >= UNICAST_BASE_PORT)
  PROVE  FromPacket(r, [addr |-> a, port |-> 0], FromDataSpecifier(a, ds)) =
           [error |-> "PortTooSmall"]
<1>1. PICK p \in Nat : p = ServicePort(ds) /\ ~(p >= UNICAST_BASE_PORT)
  BY PortType
<1>2. PICK d : d = FromDataSpecifier(a, ds)
  OBVIOUS
<1>3. PICK src : src = [addr |-> a, port |-> 0]
  OBVIOUS
<1>4. /\ d.addr.prefix # MulticastPrefix /\ d.addr.subnet = a.subnet /\ d.port = p
      /\ src.addr = a
  BY <1>1, <1>2, <1>3, ServiceDest, NodeFields
<1>5. FromPacket(r, src, d) = [error |-> "PortTooSmall"]
  BY <1>1, <1>4, SMT DEF FromPacket, IsValidMessage
<1> QED
  BY <1>2, <1>3, <1>5

-----------------------------------------------------------------------------
(* Who hears what *)

LEMMA SameRole ==
  ASSUME NEW a \in NodeAddresses, NEW r \in NodeAddresses,
         NEW ds \in Specifiers, NEW hs \in Specifiers,
         FromDataSpecifier(r, hs) = FromDataSpecifier(a, ds)
  PROVE  hs.role = ds.role
<1>1. CASE ds.role = "message"
  BY <1>1, SameKind
<1>2. CASE ds.role # "message"
  <2>1. hs.role # "message"
    BY <1>2, SameKind
  <2>2. ServicePort(hs) = ServicePort(ds)
    BY <1>2, <2>1, ServiceDest
  <2>3. RoleBit(hs.role) = RoleBit(ds.role)
    BY <2>2, PortWraps
  <2>4. hs.role \in {"request", "response"} /\ ds.role \in {"request", "response"}
    BY <1>2, <2>1 DEF Specifiers, Roles
  <2> QED
    BY <2>3, <2>4, SMT DEF RoleBit
<1> QED
  BY <1>1, <1>2

LEMMA SameSubject ==
  ASSUME NEW a \in NodeAddresses, NEW r \in NodeAddresses,
         NEW ds \in Specifiers, NEW hs \in Specifiers,
         FromDataSpecifier(r, hs) = FromDataSpecifier(a, ds),
         CarriesSubject(ds), CarriesSubject(hs)
  PROVE  hs.subject_id = ds.subject_id
<1>1. CASE ds.role = "message"
  <2>1. hs.role = "message"
    BY <1>1, SameRole
  <2>2. hs.subject_id % 8192 = ds.subject_id % 8192
    BY <1>1, <2>1, MessageDest
  <2>3. hs.subject_id % 8192 = hs.subject_id /\ ds.subject_id % 8192 = ds.subject_id
    BY <1>1, <2>1, Masked DEF CarriesSubject, Specifiers
  <2> QED
    BY <2>2, <2>3
<1>2. CASE ds.role # "message"
  <2>1. hs.role # "message"
    BY <1>2, SameRole
  <2>2. ServicePort(hs) = ServicePort(ds)
    BY <1>2, <2>1, ServiceDest
  <2>3. hs.subject_id < 24576 /\ ds.subject_id < 24576
    BY <1>2, <2>1 DEF CarriesSubject
  <2> QED
    BY <2>2, <2>3, PortRead
<1> QED
  BY <1>1, <1>2

LEMMA SameNode ==
  ASSUME NEW a \in NodeAddresses, NEW r \in NodeAddresses,
         NEW ds \in Specifiers, NEW hs \in Specifiers,
         FromDataSpecifier(r, hs) = FromDataSpecifier(a, ds),
         ds.role # "message", CarriesNode(ds.node_id), CarriesNode(hs.node_id)
  PROVE  hs.node_id = ds.node_id
<1>1. hs.role # "message"
  BY SameRole
<1>2. hs.node_id % 8192 = ds.node_id % 8192
  BY <1>1, ServiceDest
<1> QED
  BY <1>2, Masked DEF CarriesNode, Specifiers

-----------------------------------------------------------------------------
(* The datagram *)

\* What is known of a datagram that was sent, and of one that arrived.
DInv ==
  /\ sender # NoNode =>
       /\ sender \in NodeAddresses
       /\ meant \in Specifiers
       /\ dest = FromDataSpecifier(sender, meant)
  /\ Arrived =>
       /\ sender # NoNode
       /\ receiver \in NodeAddresses
       /\ heard \in Specifiers
       /\ FromDataSpecifier(receiver, heard) = dest
       /\ read = FromPacket(receiver, [addr |-> sender, port |-> 0], dest)

LEMMA SomeAreProper == SomeNodes \subseteq NodeAddresses /\ SomeSpecifiers \subseteq Specifiers
BY DatagramAssumption DEF NodeAddresses, SomeSpecifiers, Specifiers

\* DInv is an invariant of the datagram, for all addresses and ids of their types.
THEOREM DatagramInvariant == DatagramSpec => []DInv
<1>1. DatagramInit => DInv
  BY DEF DatagramInit, DInv, Arrived
<1>2. DInv /\ [DatagramNext]_datagramVars => DInv'
  <2> SUFFICES ASSUME DInv, [DatagramNext]_datagramVars PROVE DInv'
    OBVIOUS
  <2>1. ASSUME NEW a \in SomeNodes, NEW ds \in SomeSpecifiers, Send(a, ds) PROVE DInv'
    <3>1. receiver = NoNode
      BY <2>1 DEF DInv, Send, Arrived
    <3> QED
      BY <2>1, <3>1, SomeAreProper DEF DInv, Send, Arrived
  <2>2. ASSUME NEW a \in SomeNodes, NEW ds \in SomeSpecifiers, Arrive(a, ds) PROVE DInv'
    BY <2>2, SomeAreProper DEF DInv, Arrive, Arrived
  <2>3. CASE UNCHANGED datagramVars
    BY <2>3 DEF DInv, Arrived, datagramVars
  <2> QED
    BY <2>1, <2>2, <2>3 DEF DatagramNext
<1> QED
  BY <1>1, <1>2, PTL DEF DatagramSpec

LEMMA ReadAsMeantFollows == DInv => ReadAsMeant
<1> SUFFICES ASSUME DInv, Arrived, CarriesSubject(meant)
             PROVE  /\ read = [role |-> meant.role, node_id |-> NodeId(sender),
                               subject_id |-> meant.subject_id]
                    /\ heard.role = meant.role
                    /\ CarriesSubject(heard) => heard.subject_id = meant.subject_id
                    /\ meant.role # "message" /\ CarriesNode(meant.node_id)
                         /\ CarriesNode(heard.node_id) => heard.node_id = meant.node_id
  BY DEF ReadAsMeant
<1>1. /\ sender \in NodeAddresses /\ receiver \in NodeAddresses
      /\ meant \in Specifiers /\ heard \in Specifiers
      /\ FromDataSpecifier(receiver, heard) = FromDataSpecifier(sender, meant)
      /\ read = FromPacket(receiver, [addr |-> sender, port |-> 0],
                           FromDataSpecifier(sender, meant))
  BY DEF DInv
<1>2. sender.subnet = receiver.subnet
  BY <1>1, SameKind
<1>3. CASE meant.role = "message"
  <2>1. meant.subject_id % 8192 = meant.subject_id
    BY <1>1, <1>3, Masked DEF CarriesSubject, Specifiers
  <2> QED
    BY <1>1, <1>2, <1>3, <2>1, ReadMessage, SameRole, SameSubject, SameNode
<1>4. CASE meant.role # "message"
  <2>1. meant.subject_id < 24576
    BY <1>4 DEF CarriesSubject
  <2> QED
    BY <1>1, <1>2, <1>4, <2>1, PortRead, ReadService, SameRole, SameSubject, SameNode
<1> QED
  BY <1>3, <1>4

LEMMA MistakenFollows == DInv => MistakenOnlyByWidth
<1> SUFFICES ASSUME DInv, Arrived, "error" \notin DOMAIN read
             PROVE  /\ read.role = meant.role
                    /\ (read.subject_id - meant.subject_id)
                         % (IF meant.role = "message" THEN 8192 ELSE 32768) = 0
  BY DEF MistakenOnlyByWidth
<1>1. /\ sender \in NodeAddresses /\ receiver \in NodeAddresses
      /\ meant \in Specifiers /\ heard \in Specifiers
      /\ FromDataSpecifier(receiver, heard) = FromDataSpecifier(sender, meant)
      /\ read = FromPacket(receiver, [addr |-> sender, port |-> 0],
                           FromDataSpecifier(sender, meant))
  BY DEF DInv
<1>2. sender.subnet = receiver.subnet
  BY <1>1, SameKind
<1>3. CASE meant.role = "message"
  <2>1. ((meant.subject_id % 8192) - meant.subject_id) % 8192 = 0
    BY <1>1, Masked DEF Specifiers
  <2>2. PICK n : n = meant.subject_id % 8192
    OBVIOUS
  <2>3. read = [role |-> "message", node_id |-> NodeId(sender), subject_id |-> n]
    BY <1>1, <1>2, <1>3, <2>2, ReadMessage
  <2>4. read.role = "message" /\ read.subject_id = n
    BY <2>3
  <2> QED
    BY <1>3, <2>1, <2>2, <2>4
<1>4. CASE meant.role # "message"
  <2>1. ServicePort(meant) >= UNICAST_BASE_PORT
    <3> SUFFICES ASSUME ~(ServicePort(meant) >= UNICAST_BASE_PORT) PROVE FALSE
      OBVIOUS
    <3>1. read = [error |-> "PortTooSmall"]
      BY <1>1, <1>2, <1>4, ReadRefused
    <3> QED
      BY <3>1
  <2>2. PICK n : n = (ServicePort(meant) - UNICAST_BASE_PORT) \div 2
    OBVIOUS
  <2>3. read = [role |-> meant.role, node_id |-> NodeId(sender), subject_id |-> n]
    BY <1>1, <1>2, <1>4, <2>1, <2>2, ReadService
  <2>4. read.role = meant.role /\ read.subject_id = n
    BY <2>3
  <2>5. ((ServicePort(meant) - UNICAST_BASE_PORT) \div 2 - meant.subject_id) % 32768 = 0
    BY <1>1, <2>1, PortWraps
  <2> QED
    BY <1>4, <2>2, <2>4, <2>5
<1> QED
  BY <1>3, <1>4

\* A transfer whose ids fit their fields is read as what it was sent as, and only
\* subscriptions to its role and subject hear it.
THEOREM ReadsAsMeant == DatagramSpec => []ReadAsMeant
BY DatagramInvariant, ReadAsMeantFollows, PTL

\* A transfer whose ids do not fit keeps its role and is mistaken only for one
\* that differs by the width of the field.
THEOREM MistakesByWidth == DatagramSpec => []MistakenOnlyByWidth
BY DatagramInvariant, MistakenFollows, PTL

-----------------------------------------------------------------------------
(* Nodes: what is always true of their sockets, datagrams, handlers and handles *)

NodeSpecifiers == {ds \in Specifiers : ds.subject_id \in Subjects}
SocketAddrs    == [addr : Addresses, port : U16]
Subscribed == [owner : Nodes, ds : NodeSpecifiers, bound : SocketAddrs \union {Unbound}]
Pointers   == [slot : Slots, node : Nodes, caller : NodeAddrs \union {NotACaller},
               service : Subjects]
Datagrams  == [node : Nodes, from : NodeAddrs, to : SocketAddrs, ds : NodeSpecifiers]
Running    == [slot : Slots, tm : NodeSpecifiers, datagram : Datagrams,
               gone : BOOLEAN, moved : BOOLEAN]
Batches    == [slot : Slots, at : SocketAddrs, moved : BOOLEAN, taken : SUBSET Datagrams]

Shape ==
  /\ addr \in [Nodes -> NodeAddrs]
  /\ sub \in [Slots -> {Free} \union Subscribed]
  /\ handle \in [Handles -> {Empty} \union Pointers]
  /\ air \subseteq Datagrams
  /\ queued \in [Slots -> {NoDatagram} \union Datagrams]
  /\ batch \in [Nodes -> {NoBatch} \union Batches]
  /\ running \in [Nodes -> {Idle} \union Running]
  /\ orphaned \subseteq Nodes
  /\ {misused, reentered, broken} \subseteq BOOLEAN

\* A socket of a subscription to ds, of a node with address a, is bound where datagrams
\* for that role and subject and, if it is a service, for that node go; or nowhere.
BoundFor(b, ds, a) ==
  b # Unbound =>
    /\ ds.role # "message" => b.addr = a
    /\ \E hs \in NodeSpecifiers : /\ hs.role = ds.role /\ hs.subject_id = ds.subject_id
                                  /\ b = FromDataSpecifier(a, hs)
SocketsBound ==
  \A s \in Slots : Used(s) => BoundFor(sub[s].bound, sub[s].ds, addr[sub[s].owner])

\* Every datagram goes where its specifier says, seen from an address of a node, and
\* the ids in it are such as nodes have.
Addressed(d) ==
  /\ \E a \in NodeAddrs : d.to = FromDataSpecifier(a, d.ds)
  /\ d.ds.node_id \in {0} \union {NodeId(a) : a \in NodeAddrs}
AirAddressed == \A d \in air : Addressed(d)

\* n handles the rest of a batch that its former socket took in.
LateBatch(n) == batch[n] # NoBatch /\ batch[n].moved

\* What is known of a handler that runs: what it was told, and that its subscription
\* is still there and the datagram was for its node's address, or it interfered.
HandlersTrue ==
  \A n \in Nodes : running[n] # Idle =>
    LET r == running[n] IN
    /\ r.datagram \in air
    /\ r.tm = [role |-> r.datagram.ds.role, node_id |-> NodeId(r.datagram.from),
               subject_id |-> r.datagram.ds.subject_id]
    /\ ~r.gone => /\ r.slot \in SubsOf(n) /\ sub[r.slot].ds.role = r.tm.role
                  /\ sub[r.slot].bound # Unbound
    /\ ~r.moved /\ ~LateBatch(n) /\ r.tm.role # "message" => r.datagram.ds.node_id = NodeId(addr[n])
    /\ r.gone \/ r.moved => reentered

\* What a completion has received came to the socket it was queued for.
QueuedTrue ==
  \A s \in Slots : queued[s] # NoDatagram =>
    queued[s] \in air /\ Used(s) /\ sub[s].bound = queued[s].to

\* What a readyRead has taken came to a socket of the node, and its subscription is
\* there until a handler takes it away.
BatchTrue ==
  \A n \in Nodes : batch[n] # NoBatch =>
    LET b == batch[n] IN
    /\ b.taken \subseteq air /\ \A d \in b.taken : d.to = b.at
    /\ b.moved => reentered
    /\ ~b.moved => \A d \in b.taken : d.ds.role # "message" => d.ds.node_id = NodeId(addr[n])
    /\ running[n] # Idle => running[n].slot = b.slot
    /\ running[n] = Idle => b.slot \in SubsOf(n) /\ sub[b.slot].bound # Unbound

NodeInv ==
  Shape /\ SocketsBound /\ AirAddressed /\ HandlersTrue /\ QueuedTrue /\ BatchTrue
  /\ HandlesOwnTheirSubscription /\ EveryResponseAnswers

LEMMA Distinct ==
  /\ Free \notin Subscribed /\ Empty \notin Pointers /\ Idle \notin Running
  /\ NotACaller \notin NodeAddrs
  /\ Unbound \notin SocketAddrs /\ NoDatagram \notin Datagrams /\ NoBatch \notin Batches
<1>1. "owner" \notin DOMAIN Free /\ \A o \in Subscribed : "owner" \in DOMAIN o
  BY DEF Free, Subscribed
<1>2. "slot" \notin DOMAIN Empty /\ \A p \in Pointers : "slot" \in DOMAIN p
  BY DEF Empty, Pointers
<1>3. "slot" \notin DOMAIN Idle /\ \A r \in Running : "slot" \in DOMAIN r
  BY DEF Idle, Running
<1>4. "low" \notin DOMAIN NotACaller /\ \A a \in NodeAddrs : "low" \in DOMAIN a
  BY NodeAssumption DEF NotACaller, Addresses
<1>5. "port" \notin DOMAIN Unbound /\ \A b \in SocketAddrs : "port" \in DOMAIN b
  BY DEF Unbound, SocketAddrs
<1>6. "from" \notin DOMAIN NoDatagram /\ \A d \in Datagrams : "from" \in DOMAIN d
  BY DEF NoDatagram, Datagrams
<1>7. "slot" \notin DOMAIN NoBatch /\ \A b \in Batches : "slot" \in DOMAIN b
  BY DEF NoBatch, Batches
<1> QED BY <1>1, <1>2, <1>3, <1>4, <1>5, <1>6, <1>7

LEMMA NodeAddrsProper ==
  ASSUME NEW a \in NodeAddrs
  PROVE  a \in Addresses /\ a \in NodeAddresses /\ NodeId(a) \in U16 /\ NodeId(a) < 8192
<1>1. a \in Addresses /\ IsNodeAddress(a) /\ CarriesNode(NodeId(a))
  BY NodeAssumption
<1> QED BY <1>1 DEF NodeAddresses, CarriesNode, NodeId, Addresses

LEMMA Carried ==
  ASSUME NEW ds \in NodeSpecifiers
  PROVE  ds \in Specifiers /\ CarriesSubject(ds) /\ ds.subject_id \in U16 /\ ds.subject_id < 8192
<1>1. ds \in Specifiers /\ ds.subject_id \in U16 /\ ds.subject_id < 8192
  BY NodeAssumption DEF NodeSpecifiers
<1>2. ds.subject_id \in Nat
  BY <1>1, U16Values
<1> QED BY <1>1, <1>2 DEF CarriesSubject

LEMMA DestType ==
  ASSUME NEW a \in NodeAddrs, NEW ds \in Specifiers
  PROVE  FromDataSpecifier(a, ds) \in SocketAddrs
<1>1. a \in NodeAddresses /\ a.prefix \in 0 .. 511 /\ a.subnet \in 0 .. 127
  BY NodeAddrsProper DEF Addresses
<1>2. \A i \in U16 : i % 8192 \in U16
  <2>1. \A x \in Nat : x < 8192 => x \in U16
    BY InU16
  <2> QED BY <2>1, Masked
<1>3. ds.subject_id \in U16 /\ ds.node_id \in U16
  BY DEF Specifiers
<1>4. MulticastPrefix \in 0 .. 511 /\ MULTICAST_PORT \in U16
  BY DEF MulticastPrefix, MULTICAST_PORT, U16
<1>5. ServicePort(ds) \in U16
  <2>1. ds.subject_id \in Nat
    BY <1>3, U16Values
  <2>2. \A i \in Nat, b \in {0, 1} : LET x == (16384 + i * 2 + b) % 65536 IN x \in Nat /\ x < 65536
    BY SMT
  <2>3. ServicePort(ds) \in Nat /\ ServicePort(ds) < 65536
    BY <2>1, <2>2, RoleBits, PortFormula, SMT
  <2> QED BY <2>3, InU16
<1>6. CASE ds.role = "message"
  BY <1>1, <1>2, <1>3, <1>4, <1>6, MessageDest DEF SocketAddrs, Addresses
<1>7. CASE ds.role # "message"
  BY <1>1, <1>2, <1>3, <1>5, <1>7, ServiceDest DEF SocketAddrs, Addresses
<1> QED BY <1>6, <1>7

LEMMA AddressFields ==
  ASSUME NEW a \in Addresses
  PROVE  a = [prefix |-> a.prefix, subnet |-> a.subnet, low |-> a.low]
BY DEF Addresses

\* The specifier as it is renamed when the node's address is a.
LEMMA RenamedFields ==
  ASSUME NEW ds \in NodeSpecifiers, NEW a \in NodeAddrs
  PROVE  LET rs == [ds EXCEPT !.node_id = NodeId(a)]
         IN  /\ rs \in NodeSpecifiers
             /\ rs.role = ds.role /\ rs.subject_id = ds.subject_id /\ rs.node_id = NodeId(a)
<1>1. ds \in Specifiers /\ ds.subject_id \in Subjects /\ NodeId(a) \in U16
  BY NodeAddrsProper DEF NodeSpecifiers
<1> QED BY <1>1 DEF NodeSpecifiers, Specifiers

\* Where a service is heard at the node it names.
LEMMA ServiceHere ==
  ASSUME NEW a \in NodeAddrs, NEW ds \in NodeSpecifiers, ds.role # "message", ds.node_id = NodeId(a)
  PROVE  FromDataSpecifier(a, ds) = [addr |-> a, port |-> ServicePort(ds)]
<1>1. ds \in Specifiers /\ a \in NodeAddresses /\ a \in Addresses
      /\ NodeId(a) \in U16 /\ NodeId(a) % 8192 = NodeId(a)
  BY NodeAddrsProper, Carried, Masked
<1>2. ds.node_id % 8192 = a.low
  BY <1>1 DEF NodeId
<1> QED BY <1>1, <1>2, ServiceDest, AddressFields

\* Bound binds where it should, whatever the library, and nowhere only if the
\* specifier names another node.
LEMMA BoundHere ==
  ASSUME NEW n \in Nodes, NEW a \in NodeAddrs, NEW ds \in NodeSpecifiers
  PROVE  /\ Bound(n, a, ds) \in SocketAddrs \union {Unbound}
         /\ BoundFor(Bound(n, a, ds), ds, a)
         /\ ds.role = "message" \/ ds.node_id = NodeId(a) => Bound(n, a, ds) # Unbound
<1>1. ds \in Specifiers /\ a \in NodeAddresses /\ a \in Addresses
  BY NodeAddrsProper, Carried
<1>2. FromDataSpecifier(a, ds) \in SocketAddrs /\ FromDataSpecifier(a, ds) # Unbound
  BY <1>1, DestType, Distinct
<1>3. CASE ds.role # "message" /\ n \in Asyncio
  <2>1. PICK hs \in NodeSpecifiers : /\ hs.role = ds.role /\ hs.subject_id = ds.subject_id
                                     /\ hs.node_id = NodeId(a)
    BY RenamedFields
  <2>2. ServicePort(hs) = ServicePort(ds)
    BY <2>1 DEF ServicePort
  <2>3. FromDataSpecifier(a, ds).port = ServicePort(ds)
    BY <1>1, <1>3, ServiceDest
  <2>4. Bound(n, a, ds) = FromDataSpecifier(a, hs) /\ FromDataSpecifier(a, hs).addr = a
    BY <1>3, <2>1, <2>2, <2>3, ServiceHere DEF Bound
  <2>5. FromDataSpecifier(a, hs) \in SocketAddrs
    BY <1>1, <2>1, DestType, Carried
  <2> QED BY <2>1, <2>4, <2>5, Distinct DEF BoundFor
<1>4. CASE ds.role # "message" /\ n \notin Asyncio
  <2>1. Bound(n, a, ds) = IF FromDataSpecifier(a, ds).addr = a THEN FromDataSpecifier(a, ds)
                          ELSE Unbound
    BY <1>4 DEF Bound
  <2>2. ds.node_id = NodeId(a) => FromDataSpecifier(a, ds).addr = a
    BY <1>4, ServiceHere
  <2> QED BY <1>2, <1>4, <2>1, <2>2 DEF BoundFor
<1>5. CASE ds.role = "message"
  <2>1. Bound(n, a, ds) = FromDataSpecifier(a, ds)
    BY <1>5 DEF Bound
  <2> QED BY <1>2, <1>5, <2>1 DEF BoundFor
<1> QED BY <1>3, <1>4, <1>5

\* What a datagram of a node is read as by any node that does not refuse it.
LEMMA ReadAsSent ==
  ASSUME NEW r \in NodeAddrs, NEW f \in NodeAddrs, NEW a \in NodeAddrs, NEW ds \in NodeSpecifiers,
         NEW tm, tm = FromPacket(r, [addr |-> f, port |-> 0], FromDataSpecifier(a, ds)),
         "error" \notin DOMAIN tm
  PROVE  tm = [role |-> ds.role, node_id |-> NodeId(f), subject_id |-> ds.subject_id]
<1>1. r \in NodeAddresses /\ f \in NodeAddresses /\ a \in NodeAddresses /\ ds \in Specifiers
      /\ CarriesSubject(ds) /\ ds.subject_id \in U16 /\ ds.subject_id < 8192
  BY NodeAddrsProper, Carried
<1>2. FromDataSpecifier(a, ds).addr.subnet = a.subnet
  BY <1>1, MessageDest, ServiceDest
<1>3. f.subnet = r.subnet /\ a.subnet = r.subnet
  <2> SUFFICES ASSUME ~(f.subnet = r.subnet /\ a.subnet = r.subnet) PROVE FALSE
    OBVIOUS
  <2>1. tm = [error |-> "WrongSubnet"]
    BY <1>2 DEF FromPacket
  <2> QED BY <2>1
<1>4. CASE ds.role = "message"
  <2>1. ds.subject_id % 8192 = ds.subject_id
    BY <1>1, Masked
  <2> QED BY <1>1, <1>3, <1>4, <2>1, ReadMessage
<1>5. CASE ds.role # "message"
  <2>1. ds.subject_id < 24576
    BY <1>1, <1>5 DEF CarriesSubject
  <2> QED BY <1>1, <1>3, <1>5, <2>1, PortRead, ReadService
<1> QED BY <1>4, <1>5

-----------------------------------------------------------------------------
(* Every operation keeps NodeInv *)

\* The slots of a node, by their contents.
LEMMA SubsFields ==
  ASSUME Shape
  PROVE  /\ \A s \in Slots : Used(s) => sub[s] \in Subscribed
         /\ \A n \in Nodes : \A s : s \in SubsOf(n) <=> s \in Slots /\ Used(s) /\ sub[s].owner = n
         /\ \A h \in Handles : handle[h] # Empty => handle[h] \in Pointers
         /\ \A n \in Nodes : running[n] # Idle => running[n] \in Running
BY DEF Shape, Used, SubsOf

\* The subscription a handle points to is its own.
Owned(h) ==
  /\ handle[h].slot \in SubsOf(handle[h].node)
  /\ sub[handle[h].slot].ds.subject_id = handle[h].service
  /\ sub[handle[h].slot].ds.role = "response" <=> handle[h].caller # NotACaller

LEMMA OwnedMeans ==
  HandlesOwnTheirSubscription <=>
    (~misused => /\ \A h \in Handles : handle[h] # Empty /\ h \notin outdated => Owned(h)
                 /\ broken => reentered \/ orphaned # {})
BY DEF HandlesOwnTheirSubscription, Owned

LEMMA OwnedAfter ==
  ASSUME ~misused' => /\ \A h \in Handles : handle'[h] # Empty /\ h \notin outdated' => Owned(h)'
                      /\ broken' => reentered' \/ orphaned' # {}
  PROVE  HandlesOwnTheirSubscription'
BY DEF HandlesOwnTheirSubscription, Owned

\* A response that was answered stays so: nothing leaves the air.
LEMMA AnswersStay ==
  ASSUME EveryResponseAnswers, air \subseteq air', reentered => reentered',
         NEW d \in air, d.ds.role = "response"
  PROVE  \E q \in air' :
           /\ q.ds.role = "request" /\ q.ds.subject_id = d.ds.subject_id
           /\ NodeId(q.from) = d.ds.node_id
           /\ ~reentered' => q.ds.node_id = NodeId(d.from)
BY DEF EveryResponseAnswers

LEMMA SubscribeKeeps ==
  ASSUME NodeInv, ~broken, NEW n \in Nodes, NEW h \in Handles, NEW s \in Slots,
         NEW ds \in NodeSpecifiers, NEW caller \in NodeAddrs \union {NotACaller},
         ds.role = "response" <=> caller # NotACaller,
         Subscribe(n, h, s, ds, caller)
  PROVE  NodeInv'
<1>1. PICK o : o = Subscription(n, ds)
  OBVIOUS
<1>2. o \in Subscribed /\ o.owner = n /\ o.ds = ds /\ BoundFor(o.bound, ds, addr[n])
  <2>1. addr[n] \in NodeAddrs
    BY DEF NodeInv, Shape
  <2>2. Bound(n, addr[n], ds) \in SocketAddrs \union {Unbound}
        /\ BoundFor(Bound(n, addr[n], ds), ds, addr[n])
    BY <2>1, BoundHere
  <2> QED BY <1>1, <2>2 DEF Subscription, Subscribed
<1>3. PICK p : p = [slot |-> s, node |-> n, caller |-> caller, service |-> ds.subject_id]
  OBVIOUS
<1>4. p \in Pointers /\ p.slot = s /\ p.node = n /\ p.caller = caller /\ p.service = ds.subject_id
  <2>1. ds.subject_id \in Subjects
    BY DEF NodeSpecifiers
  <2> QED BY <1>3, <2>1 DEF Pointers
<1>5. sub' = [sub EXCEPT ![s] = o] /\ handle' = [handle EXCEPT ![h] = p]
      /\ sub[s] = Free /\ handle[h] = Empty
      /\ UNCHANGED <<addr, air, queued, batch, running, orphaned, moves, copies, outdated,
                     misused, reentered, broken>>
  BY <1>1, <1>3 DEF Subscribe, user, loop
<1>6. Shape'
  BY <1>2, <1>4, <1>5 DEF NodeInv, Shape
<1>7. /\ sub'[s] = o /\ \A t \in Slots : t # s => sub'[t] = sub[t]
      /\ handle'[h] = p /\ \A g \in Handles : g # h => handle'[g] = handle[g]
  BY <1>5 DEF NodeInv, Shape
<1>8. o # Free /\ p # Empty
  BY <1>2, <1>4, Distinct
<1>9. s \in SubsOf(n)' /\ \A m \in Nodes : \A t \in SubsOf(m) : t \in SubsOf(m)' /\ t # s
  BY <1>2, <1>5, <1>7, <1>8 DEF SubsOf, Used
<1>10. SocketsBound'
  BY <1>2, <1>5, <1>7 DEF NodeInv, SocketsBound, Used
<1>11. AirAddressed' /\ EveryResponseAnswers'
  BY <1>5 DEF NodeInv, AirAddressed, Addressed, EveryResponseAnswers
<1>12. HandlersTrue'
  <2> SUFFICES ASSUME NEW m \in Nodes, running[m] # Idle, ~running[m].gone
               PROVE  /\ running[m].slot \in SubsOf(m)'
                      /\ sub'[running[m].slot].ds.role = running[m].tm.role
                      /\ sub'[running[m].slot].bound # Unbound
    BY <1>5 DEF NodeInv, HandlersTrue, LateBatch
  <2>1. running[m].slot \in SubsOf(m) /\ sub[running[m].slot].ds.role = running[m].tm.role
        /\ sub[running[m].slot].bound # Unbound
    BY DEF NodeInv, HandlersTrue
  <2> QED BY <1>7, <1>9, <2>1 DEF SubsOf
<1>14. QueuedTrue'
  BY <1>5, <1>7 DEF NodeInv, QueuedTrue, Used
<1>15. BatchTrue'
  <2> SUFFICES ASSUME NEW m \in Nodes, batch[m] # NoBatch, running[m] = Idle
               PROVE  batch[m].slot \in SubsOf(m)' /\ sub'[batch[m].slot].bound # Unbound
    BY <1>5 DEF NodeInv, BatchTrue
  <2>1. batch[m].slot \in SubsOf(m) /\ sub[batch[m].slot].bound # Unbound
    BY DEF NodeInv, BatchTrue
  <2> QED BY <1>7, <1>9, <2>1 DEF SubsOf
<1>13. HandlesOwnTheirSubscription'
  <2> SUFFICES ASSUME ~misused, NEW g \in Handles, handle'[g] # Empty, g \notin outdated
               PROVE  Owned(g)'
    BY <1>5, OwnedAfter
  <2>1. CASE g = h
    BY <1>2, <1>4, <1>7, <1>9, <2>1 DEF Owned
  <2>2. CASE g # h
    <3>1. handle'[g] = handle[g] /\ handle[g] \in Pointers
      BY <1>7, <2>2, SubsFields DEF NodeInv
    <3>2. Owned(g)
      BY <3>1, OwnedMeans DEF NodeInv
    <3>3. PICK m, t : m \in Nodes /\ m = handle[g].node /\ t = handle[g].slot
      BY <3>1 DEF Pointers
    <3>4. t \in SubsOf(m)' /\ sub'[t] = sub[t]
      BY <1>7, <1>9, <3>2, <3>3 DEF Owned, SubsOf
    <3> QED BY <3>1, <3>2, <3>3, <3>4 DEF Owned
  <2> QED BY <2>1, <2>2
<1> QED BY <1>6, <1>10, <1>11, <1>12, <1>13, <1>14, <1>15 DEF NodeInv

LEMMA CopyKeeps ==
  ASSUME NodeInv, ~broken, NEW h \in Handles, NEW g \in Handles, CopyHandle(h, g)
  PROVE  NodeInv'
<1>1. /\ handle[h] # Empty /\ handle[g] = Empty /\ g # h /\ handle[h] \in Pointers
      /\ handle' = [handle EXCEPT ![g] = handle[h]]
      /\ outdated' = IF h \in outdated THEN outdated \union {g} ELSE outdated
      /\ UNCHANGED <<addr, sub, air, queued, batch, running, orphaned, misused, reentered, broken>>
  BY SubsFields DEF NodeInv, CopyHandle, loop
<1>2. handle'[g] = handle[h] /\ \A k \in Handles : k # g => handle'[k] = handle[k]
  BY <1>1 DEF NodeInv, Shape
<1>3. Shape' /\ SocketsBound' /\ AirAddressed' /\ HandlersTrue' /\ EveryResponseAnswers'
      /\ QueuedTrue' /\ BatchTrue'
  BY <1>1 DEF NodeInv, Shape, SocketsBound, AirAddressed, Addressed, HandlersTrue, EveryResponseAnswers,
              QueuedTrue, BatchTrue, LateBatch, Used, SubsOf
<1>4. HandlesOwnTheirSubscription'
  <2> SUFFICES ASSUME ~misused, NEW k \in Handles, handle'[k] # Empty, k \notin outdated'
               PROVE  Owned(k)'
    BY <1>1, OwnedAfter
  <2>1. PICK j \in Handles : handle'[k] = handle[j] /\ handle[j] # Empty /\ j \notin outdated
    BY <1>1, <1>2
  <2>2. Owned(j)
    BY <2>1, OwnedMeans DEF NodeInv
  <2> QED BY <1>1, <2>1, <2>2 DEF Owned, SubsOf, Used
<1> QED BY <1>3, <1>4 DEF NodeInv

\* A handle that is not outdated takes its own subscription away and nobody else's.
LEMMA UnsubscribeKeeps ==
  ASSUME NodeInv, ~broken, NEW h \in Handles, MayAct(handle[h].node), Unsubscribe(h)
  PROVE  NodeInv'
<1>1. handle[h] # Empty /\ handle[h] \in Pointers
  BY SubsFields DEF NodeInv, Unsubscribe
<1>2. PICK n \in Nodes, s \in Slots : n = handle[h].node /\ s = handle[h].slot
  BY <1>1 DEF Pointers
<1>3. /\ s \in SubsOf(n)
      /\ sub' = [sub EXCEPT ![s] = Free] /\ handle' = [handle EXCEPT ![h] = Empty]
      /\ reentered' = (reentered \/ IsRunning(n, s))
      /\ running' = IF IsRunning(n, s) THEN [running EXCEPT ![n].gone = TRUE] ELSE running
      /\ outdated' = IF h \in outdated THEN outdated \ {h} ELSE outdated \union CopiesOf(h)
      /\ misused' = (misused \/ h \in outdated)
      /\ queued' = [queued EXCEPT ![s] = NoDatagram]
      /\ orphaned' \in {orphaned, orphaned \union {n}}
      /\ UNCHANGED <<addr, air, batch, broken>>
  <2>1. orphaned' \in {orphaned, orphaned \union {handle[h].node}}
    BY DEF Unsubscribe
  <2>2. /\ handle[h].slot \in SubsOf(handle[h].node) /\ UNCHANGED <<addr, air, batch, broken>>
        /\ sub' = Removed(handle[h].slot) /\ handle' = HandleCleared(h)
        /\ reentered' = (reentered \/ IsRunning(handle[h].node, handle[h].slot))
        /\ running' = IF IsRunning(handle[h].node, handle[h].slot)
                      THEN [running EXCEPT ![handle[h].node].gone = TRUE] ELSE running
        /\ queued' = [queued EXCEPT ![handle[h].slot] = NoDatagram]
        /\ outdated' = IF h \in outdated THEN outdated \ {h} ELSE outdated \union CopiesOf(h)
        /\ misused' = (misused \/ h \in outdated)
    BY DEF Unsubscribe
  <2> QED BY <1>2, <2>1, <2>2 DEF Removed, HandleCleared
<1>4. /\ sub'[s] = Free /\ \A t \in Slots : t # s => sub'[t] = sub[t]
      /\ handle'[h] = Empty /\ \A g \in Handles : g # h => handle'[g] = handle[g]
  BY <1>3 DEF NodeInv, Shape
<1>5. \A m \in Nodes : running[m] = Idle \/ running[m] \in Running
  BY DEF NodeInv, Shape
<1>6. ASSUME NEW m \in Nodes
      PROVE  /\ running'[m] = IF m = n /\ IsRunning(n, s) THEN [running[m] EXCEPT !.gone = TRUE]
                              ELSE running[m]
  BY <1>3 DEF NodeInv, Shape
<1>7. IsRunning(n, s) => [running[n] EXCEPT !.gone = TRUE] \in Running
  BY <1>5 DEF IsRunning, Running
<1>8. Shape'
  <2>1. running' \in [Nodes -> {Idle} \union Running]
    BY <1>3, <1>6, <1>7 DEF NodeInv, Shape
  <2> QED BY <1>3, <2>1 DEF NodeInv, Shape, IsRunning
<1>9. SocketsBound'
  BY <1>3, <1>4 DEF NodeInv, SocketsBound, Used
<1>10. AirAddressed' /\ EveryResponseAnswers'
  BY <1>3 DEF NodeInv, AirAddressed, Addressed, EveryResponseAnswers
<1>11. \A m \in Nodes, t \in Slots : t \in SubsOf(m) /\ t # s => t \in SubsOf(m)' /\ sub'[t] = sub[t]
  BY <1>4 DEF SubsOf, Used
<1>12. HandlersTrue'
  <2> SUFFICES ASSUME NEW m \in Nodes, running'[m] # Idle
               PROVE  LET r == running'[m] IN
                      /\ r.datagram \in air
                      /\ r.tm = [role |-> r.datagram.ds.role, node_id |-> NodeId(r.datagram.from),
                                 subject_id |-> r.datagram.ds.subject_id]
                      /\ ~r.gone => /\ r.slot \in SubsOf(m)' /\ sub'[r.slot].ds.role = r.tm.role
                                    /\ sub'[r.slot].bound # Unbound
                      /\ ~r.moved /\ ~LateBatch(m) /\ r.tm.role # "message" =>
                           r.datagram.ds.node_id = NodeId(addr[m])
                      /\ r.gone \/ r.moved => reentered'
    BY <1>3 DEF HandlersTrue, LateBatch
  <2>1. running[m] # Idle /\ running[m] \in Running
    BY <1>5, <1>6 DEF IsRunning
  <2>2. CASE m = n /\ IsRunning(n, s)
    <3>1. /\ running'[m].gone = TRUE /\ running'[m].slot = running[m].slot
          /\ running'[m].tm = running[m].tm /\ running'[m].datagram = running[m].datagram
          /\ running'[m].moved = running[m].moved
      BY <1>6, <2>1, <2>2 DEF Running
    <3> QED BY <1>3, <2>1, <2>2, <3>1 DEF NodeInv, HandlersTrue
  <2>3. CASE ~(m = n /\ IsRunning(n, s))
    <3>1. running'[m] = running[m]
      BY <1>6, <2>3
    <3>2. ~running[m].gone => running[m].slot \in SubsOf(m) /\ running[m].slot # s
      <4>1. ~running[m].gone => running[m].slot \in SubsOf(m)
        BY <2>1 DEF NodeInv, HandlersTrue
      <4>2. running[m].slot = s /\ s \in SubsOf(m) => m = n /\ IsRunning(n, s)
        BY <1>3, <2>1 DEF SubsOf, IsRunning
      <4> QED BY <2>3, <4>1, <4>2
    <3>3. ~running[m].gone => running[m].slot \in SubsOf(m)'
                              /\ sub'[running[m].slot] = sub[running[m].slot]
      BY <1>11, <3>2 DEF SubsOf
    <3> QED BY <1>3, <2>1, <3>1, <3>3 DEF NodeInv, HandlersTrue
  <2> QED BY <2>2, <2>3
<1>13. HandlesOwnTheirSubscription'
  <2> SUFFICES ASSUME ~misused', NEW g \in Handles, handle'[g] # Empty, g \notin outdated'
               PROVE  Owned(g)'
    BY <1>3, OwnedAfter
  <2>1. ~misused /\ h \notin outdated /\ g # h /\ g \notin outdated /\ g \notin CopiesOf(h)
    BY <1>3, <1>4 DEF NodeInv, Shape
  <2>2. handle'[g] = handle[g] /\ handle[g] # Empty /\ handle[g] \in Pointers
    BY <1>4, <2>1, SubsFields DEF NodeInv
  <2>3. PICK m \in Nodes, t \in Slots : m = handle[g].node /\ t = handle[g].slot
    BY <2>2 DEF Pointers
  <2>4. t # s
    BY <1>2, <2>1, <2>2, <2>3 DEF CopiesOf
  <2>5. Owned(g)
    BY <2>1, <2>2, OwnedMeans DEF NodeInv
  <2>6. t \in SubsOf(m)' /\ sub'[t] = sub[t]
    BY <1>11, <2>3, <2>4, <2>5 DEF Owned
  <2> QED BY <2>2, <2>3, <2>5, <2>6 DEF Owned
<1>14. QueuedTrue'
  BY <1>3, <1>4 DEF NodeInv, Shape, QueuedTrue, Used
<1>15. BatchTrue'
  <2> SUFFICES ASSUME NEW m \in Nodes, batch[m] # NoBatch
               PROVE  /\ running'[m] # Idle => running'[m].slot = batch[m].slot
                      /\ running'[m] = Idle => /\ batch[m].slot \in SubsOf(m)'
                                               /\ sub'[batch[m].slot].bound # Unbound
    BY <1>3 DEF NodeInv, BatchTrue
  <2>1. CASE m = n /\ IsRunning(n, s)
    <3>1. running[n] \in Running /\ running[n] # Idle
      BY <1>5, <2>1 DEF IsRunning
    <3>2. running'[m] \in Running /\ running'[m].slot = running[m].slot
      BY <1>6, <1>7, <2>1, <3>1 DEF Running
    <3> QED BY <2>1, <3>1, <3>2, Distinct DEF NodeInv, BatchTrue
  <2>2. CASE ~(m = n /\ IsRunning(n, s))
    <3>1. running'[m] = running[m]
      BY <1>6, <2>2
    <3>2. ASSUME running[m] = Idle
          PROVE  batch[m].slot \in SubsOf(m) /\ sub[batch[m].slot].bound # Unbound /\ m # n
      BY <1>2, <3>2 DEF NodeInv, BatchTrue, MayAct
    <3>3. ASSUME running[m] = Idle
          PROVE  batch[m].slot \in SubsOf(m)' /\ sub'[batch[m].slot].bound # Unbound
      <4>1. PICK t \in Slots : t = batch[m].slot /\ t \in SubsOf(m) /\ sub[t].bound # Unbound
        BY <3>2, <3>3 DEF SubsOf
      <4>2. t # s
        BY <1>3, <3>2, <3>3, <4>1 DEF SubsOf
      <4> QED BY <1>11, <4>1, <4>2
    <3> QED BY <3>1, <3>3 DEF NodeInv, BatchTrue
  <2> QED BY <2>1, <2>2
<1> QED BY <1>8, <1>9, <1>10, <1>12, <1>13, <1>14, <1>15 DEF NodeInv

\* Only a handle that was already used through a copy finds no subscription.
LEMMA StaleKeeps ==
  ASSUME NodeInv, ~broken, NEW h \in Handles, UnsubscribeStale(h)
  PROVE  NodeInv'
<1>1. /\ handle[h] # Empty /\ handle[h].slot \notin SubsOf(handle[h].node)
      /\ misused' = (misused \/ h \in outdated) /\ broken' = TRUE
      /\ UNCHANGED <<addr, sub, handle, air, queued, batch, running, orphaned, outdated, reentered>>
  BY DEF UnsubscribeStale, loop
<1>2. misused'
  BY <1>1, OwnedMeans DEF NodeInv, Owned
<1>3. Shape' /\ SocketsBound' /\ AirAddressed' /\ HandlersTrue' /\ EveryResponseAnswers'
      /\ QueuedTrue' /\ BatchTrue'
  BY <1>1 DEF NodeInv, Shape, SocketsBound, AirAddressed, Addressed, HandlersTrue, EveryResponseAnswers,
              QueuedTrue, BatchTrue, LateBatch, Used, SubsOf
<1> QED BY <1>2, <1>3, OwnedAfter DEF NodeInv

LEMMA SetAddressKeeps ==
  ASSUME NodeInv, ~broken, NEW n \in Nodes, NEW a \in NodeAddrs, MayAct(n), SetAddress(n, a)
  PROVE  NodeInv'
<1>1. /\ addr' = [addr EXCEPT ![n] = a]
      /\ sub' = [s \in Slots |-> IF s \in SubsOf(n) THEN Reconnected(s, a) ELSE sub[s]]
      /\ reentered' = (reentered \/ running[n] # Idle)
      /\ running' = IF running[n] # Idle THEN [running EXCEPT ![n].moved = TRUE] ELSE running
      /\ batch' = IF batch[n] # NoBatch THEN [batch EXCEPT ![n].moved = TRUE] ELSE batch
      /\ queued' = [s \in Slots |-> IF s \in SubsOf(n) THEN NoDatagram ELSE queued[s]]
      /\ orphaned' \in {orphaned, orphaned \union {n}}
      /\ UNCHANGED <<handle, air, outdated, misused, broken>>
  <2>1. orphaned' \in {orphaned, orphaned \union {n}}
    BY DEF SetAddress
  <2> QED BY <2>1 DEF SetAddress
<1>2. addr'[n] = a /\ \A m \in Nodes : m # n => addr'[m] = addr[m]
  BY <1>1 DEF NodeInv, Shape
<1>3. ASSUME NEW s \in SubsOf(n)
      PROVE  /\ sub'[s] \in Subscribed /\ sub'[s].owner = n
             /\ sub'[s].ds.role = sub[s].ds.role /\ sub'[s].ds.subject_id = sub[s].ds.subject_id
             /\ BoundFor(sub'[s].bound, sub'[s].ds, a) /\ sub'[s].bound # Unbound
  <2>1. s \in Slots /\ sub[s] \in Subscribed /\ sub[s].owner = n
    BY SubsFields DEF NodeInv
  <2>2. PICK ds \in NodeSpecifiers : ds = sub[s].ds
    BY <2>1 DEF Subscribed
  <2>3. PICK rs \in NodeSpecifiers : /\ rs = Renamed(s, a) /\ rs.role = ds.role
                                     /\ rs.subject_id = ds.subject_id /\ rs.node_id = NodeId(a)
    BY <2>2, RenamedFields DEF Renamed
  <2>4. Bound(n, a, rs) \in SocketAddrs \union {Unbound} /\ BoundFor(Bound(n, a, rs), rs, a)
        /\ Bound(n, a, rs) # Unbound
    BY <2>3, BoundHere
  <2>5. sub'[s] = [owner |-> n, ds |-> rs, bound |-> Bound(n, a, rs)]
    BY <1>1, <2>1, <2>3 DEF Reconnected
  <2> QED BY <2>2, <2>3, <2>4, <2>5 DEF Subscribed
<1>4. \A s \in Slots : s \notin SubsOf(n) => sub'[s] = sub[s]
  BY <1>1
<1>5. \A m \in Nodes, s \in Slots :
        /\ s \in SubsOf(m)' <=> s \in SubsOf(m)
        /\ Used(s) => /\ sub'[s].ds.role = sub[s].ds.role
                      /\ sub'[s].ds.subject_id = sub[s].ds.subject_id
  BY <1>3, <1>4, Distinct DEF SubsOf, Used
<1>6. \A m \in Nodes :
        /\ running[m] = Idle \/ running[m] \in Running
        /\ running'[m] = IF m = n /\ running[m] # Idle THEN [running[m] EXCEPT !.moved = TRUE]
                         ELSE running[m]
  BY <1>1 DEF NodeInv, Shape
<1>7. running[n] # Idle => [running[n] EXCEPT !.moved = TRUE] \in Running
  BY <1>6 DEF Running
<1>13. \A m \in Nodes :
        /\ batch[m] = NoBatch \/ batch[m] \in Batches
        /\ batch'[m] = IF m = n /\ batch[n] # NoBatch THEN [batch[m] EXCEPT !.moved = TRUE]
                       ELSE batch[m]
  BY <1>1 DEF NodeInv, Shape
<1>14. ASSUME batch[n] # NoBatch
       PROVE  /\ batch'[n] \in Batches /\ batch'[n].moved /\ batch'[n] # NoBatch
              /\ batch'[n].slot = batch[n].slot /\ batch'[n].at = batch[n].at
              /\ batch'[n].taken = batch[n].taken
  <2>1. batch[n] \in Batches /\ batch'[n] = [batch[n] EXCEPT !.moved = TRUE]
    BY <1>13, <1>14
  <2> QED BY <2>1, Distinct DEF Batches
<1>8. Shape'
  <2>1. running' \in [Nodes -> {Idle} \union Running]
    BY <1>1, <1>6, <1>7 DEF NodeInv, Shape
  <2>2. sub' \in [Slots -> {Free} \union Subscribed]
    BY <1>1, <1>3, <1>4 DEF NodeInv, Shape
  <2>3. batch' \in [Nodes -> {NoBatch} \union Batches]
    BY <1>1, <1>13, <1>14 DEF NodeInv, Shape
  <2>4. queued' \in [Slots -> {NoDatagram} \union Datagrams] /\ orphaned' \subseteq Nodes
    BY <1>1 DEF NodeInv, Shape
  <2> QED BY <1>1, <2>1, <2>2, <2>3, <2>4 DEF NodeInv, Shape
<1>9. SocketsBound'
  <2> SUFFICES ASSUME NEW s \in Slots, Used(s)'
               PROVE  BoundFor(sub'[s].bound, sub'[s].ds, addr'[sub'[s].owner])
    BY DEF SocketsBound, Used, BoundFor
  <2>1. CASE s \in SubsOf(n)
    BY <1>2, <1>3, <2>1
  <2>2. CASE s \notin SubsOf(n)
    <3>1. sub'[s] = sub[s] /\ Used(s) /\ sub[s] \in Subscribed
      BY <1>4, <2>2, SubsFields DEF NodeInv, Used
    <3>2. sub[s].owner \in Nodes \ {n}
      BY <2>2, <3>1 DEF Subscribed, SubsOf
    <3> QED BY <1>2, <3>1, <3>2 DEF NodeInv, SocketsBound
  <2> QED BY <2>1, <2>2
<1>10. AirAddressed' /\ EveryResponseAnswers'
  BY <1>1 DEF NodeInv, AirAddressed, Addressed, EveryResponseAnswers
<1>11. HandlersTrue'
  <2> SUFFICES ASSUME NEW m \in Nodes, running'[m] # Idle
               PROVE  LET r == running'[m] IN
                      /\ r.datagram \in air
                      /\ r.tm = [role |-> r.datagram.ds.role, node_id |-> NodeId(r.datagram.from),
                                 subject_id |-> r.datagram.ds.subject_id]
                      /\ ~r.gone => /\ r.slot \in SubsOf(m)' /\ sub'[r.slot].ds.role = r.tm.role
                                    /\ sub'[r.slot].bound # Unbound
                      /\ ~r.moved /\ ~LateBatch(m)' /\ r.tm.role # "message" =>
                           r.datagram.ds.node_id = NodeId(addr'[m])
                      /\ r.gone \/ r.moved => reentered'
    BY <1>1 DEF HandlersTrue
  <2>1. running[m] # Idle /\ running[m] \in Running
    BY <1>6
  <2>2. ~running[m].gone => /\ running[m].slot \in SubsOf(m)'
                            /\ sub'[running[m].slot].ds.role = running[m].tm.role
                            /\ sub'[running[m].slot].bound # Unbound
    <3> SUFFICES ASSUME ~running[m].gone
                 PROVE  /\ running[m].slot \in SubsOf(m)'
                        /\ sub'[running[m].slot].ds.role = running[m].tm.role
                        /\ sub'[running[m].slot].bound # Unbound
      OBVIOUS
    <3>1. PICK t \in Slots : t = running[m].slot
      BY <2>1 DEF Running
    <3>2. t \in SubsOf(m) /\ sub[t].ds.role = running[m].tm.role /\ sub[t].bound # Unbound
      BY <2>1, <3>1 DEF NodeInv, HandlersTrue
    <3>3. Used(t)
      BY <3>2 DEF SubsOf
    <3>4. sub'[t].bound # Unbound
      BY <1>3, <1>4, <3>2
    <3> QED BY <1>5, <3>1, <3>2, <3>3, <3>4
  <2>3. CASE m = n
    <3>1. /\ running'[m].moved = TRUE /\ running'[m].slot = running[m].slot
          /\ running'[m].tm = running[m].tm /\ running'[m].datagram = running[m].datagram
          /\ running'[m].gone = running[m].gone
      BY <1>6, <2>1, <2>3 DEF Running
    <3> QED BY <1>1, <2>1, <2>2, <2>3, <3>1 DEF NodeInv, HandlersTrue
  <2>4. CASE m # n
    <3>1. running'[m] = running[m] /\ (LateBatch(m)' <=> LateBatch(m))
      BY <1>6, <1>13, <2>4 DEF LateBatch
    <3>2. addr'[m] = addr[m] /\ (reentered => reentered')
      BY <1>1, <1>2, <2>4
    <3>3. LET r == running[m] IN
          /\ r.datagram \in air
          /\ r.tm = [role |-> r.datagram.ds.role, node_id |-> NodeId(r.datagram.from),
                     subject_id |-> r.datagram.ds.subject_id]
          /\ ~r.moved /\ ~LateBatch(m) /\ r.tm.role # "message" =>
               r.datagram.ds.node_id = NodeId(addr[m])
          /\ r.gone \/ r.moved => reentered
      BY <2>1 DEF NodeInv, HandlersTrue
    <3> QED BY <2>2, <3>1, <3>2, <3>3
  <2> QED BY <2>3, <2>4
<1>12. HandlesOwnTheirSubscription'
  <2> SUFFICES ASSUME ~misused, NEW g \in Handles, handle[g] # Empty, g \notin outdated
               PROVE  Owned(g)'
    BY <1>1, OwnedAfter
  <2>1. Owned(g) /\ handle[g] \in Pointers
    BY OwnedMeans, SubsFields DEF NodeInv
  <2>2. PICK m \in Nodes, t \in Slots : m = handle[g].node /\ t = handle[g].slot
    BY <2>1 DEF Pointers
  <2>3. Used(t) /\ t \in SubsOf(m)'
    BY <1>5, <2>1, <2>2 DEF Owned, SubsOf
  <2> QED BY <1>1, <1>5, <2>1, <2>2, <2>3 DEF Owned
<1>15. QueuedTrue'
  <2> SUFFICES ASSUME NEW s \in Slots, queued'[s] # NoDatagram
               PROVE  queued'[s] \in air /\ Used(s)' /\ sub'[s].bound = queued'[s].to
    BY <1>1 DEF QueuedTrue
  <2>1. s \notin SubsOf(n) /\ queued'[s] = queued[s] /\ sub'[s] = sub[s]
    BY <1>1
  <2> QED BY <2>1 DEF NodeInv, QueuedTrue, Used
<1>16. BatchTrue'
  <2> SUFFICES ASSUME NEW m \in Nodes, batch'[m] # NoBatch
               PROVE  LET b == batch'[m] IN
                      /\ b.taken \subseteq air /\ \A d \in b.taken : d.to = b.at
                      /\ b.moved => reentered'
                      /\ ~b.moved => \A d \in b.taken :
                           d.ds.role # "message" => d.ds.node_id = NodeId(addr'[m])
                      /\ running'[m] # Idle => running'[m].slot = b.slot
                      /\ running'[m] = Idle => b.slot \in SubsOf(m)' /\ sub'[b.slot].bound # Unbound
    BY <1>1 DEF BatchTrue
  <2>1. CASE m = n
    <3>1. batch[n] # NoBatch /\ running[n] # Idle /\ running[n] \in Running
      BY <1>6, <1>13, <2>1 DEF MayAct
    <3>2. running'[n] # Idle /\ running'[n].slot = running[n].slot
      BY <1>6, <1>7, <3>1, Distinct DEF Running
    <3> QED BY <1>1, <1>14, <2>1, <3>1, <3>2 DEF NodeInv, BatchTrue
  <2>2. CASE m # n
    <3>1. batch'[m] = batch[m] /\ running'[m] = running[m] /\ addr'[m] = addr[m]
      BY <1>2, <1>6, <1>13, <2>2
    <3>2. ASSUME running[m] = Idle
          PROVE  batch[m].slot \in SubsOf(m)' /\ sub'[batch[m].slot].bound # Unbound
      <4>1. PICK t \in Slots : t = batch[m].slot /\ t \in SubsOf(m) /\ sub[t].bound # Unbound
        BY <3>1, <3>2 DEF NodeInv, BatchTrue, SubsOf
      <4>2. sub'[t].bound # Unbound
        BY <1>3, <1>4, <4>1
      <4> QED BY <1>5, <4>1, <4>2
    <3> QED BY <1>1, <3>1, <3>2 DEF NodeInv, BatchTrue
  <2> QED BY <2>1, <2>2
<1> QED BY <1>8, <1>9, <1>10, <1>11, <1>12, <1>15, <1>16 DEF NodeInv

LEMMA NotBroken == ASSUME Shape, ~broken PROVE broken = FALSE
<1>1. broken \in {misused, reentered, broken}
  OBVIOUS
<1> QED BY <1>1 DEF Shape

\* What SendingKeeps asks of a datagram that is sent.
Proper(d) ==
  /\ Addressed(d)
  /\ d.ds.role = "response" =>
       \E q \in air : /\ q.ds.role = "request" /\ q.ds.subject_id = d.ds.subject_id
                      /\ NodeId(q.from) = d.ds.node_id
                      /\ ~reentered => q.ds.node_id = NodeId(d.from)

\* Operations that only send, or end handlers, or both.
LEMMA SendingKeeps ==
  ASSUME NodeInv, ~broken, NEW D \in SUBSET Datagrams,
         air' = air \union D,
         \A d \in D : Proper(d),
         running' \in [Nodes -> {Idle} \union Running],
         \A m \in Nodes : running'[m] # running[m] =>
           running'[m] = Idle /\ running[m] # Idle /\ ~running[m].gone,
         UNCHANGED <<addr, sub, handle, queued, batch, orphaned, outdated, misused, reentered>>,
         broken' = FALSE \/ (broken' = TRUE /\ (reentered \/ orphaned # {}))
  PROVE  NodeInv'
<1>1. Shape' /\ SocketsBound'
  BY DEF NodeInv, Shape, SocketsBound, Used
<1>2. AirAddressed'
  BY DEF NodeInv, AirAddressed, Addressed, Proper
<1>3. EveryResponseAnswers'
  <2> SUFFICES ASSUME NEW d \in air', d.ds.role = "response"
               PROVE  \E q \in air' :
                        /\ q.ds.role = "request" /\ q.ds.subject_id = d.ds.subject_id
                        /\ NodeId(q.from) = d.ds.node_id
                        /\ ~reentered => q.ds.node_id = NodeId(d.from)
    BY DEF EveryResponseAnswers
  <2>1. CASE d \in air
    BY <2>1, AnswersStay DEF NodeInv
  <2>2. CASE d \in D
    BY <2>2 DEF Proper
  <2> QED BY <2>1, <2>2
<1>4. HandlersTrue'
  <2>1. \A m \in Nodes : running'[m] # Idle => running'[m] = running[m]
    OBVIOUS
  <2> QED BY <2>1 DEF NodeInv, HandlersTrue, LateBatch, SubsOf, Used
<1>6. QueuedTrue'
  BY DEF NodeInv, QueuedTrue, Used
<1>7. BatchTrue'
  <2> SUFFICES ASSUME NEW m \in Nodes, batch[m] # NoBatch
               PROVE  /\ running'[m] # Idle => running'[m].slot = batch[m].slot
                      /\ running'[m] = Idle => /\ batch[m].slot \in SubsOf(m)
                                               /\ sub[batch[m].slot].bound # Unbound
    BY DEF NodeInv, BatchTrue, SubsOf, Used
  <2>1. CASE running'[m] = running[m]
    BY <2>1 DEF NodeInv, BatchTrue
  <2>2. CASE running'[m] # running[m]
    <3>1. running'[m] = Idle /\ running[m] # Idle /\ ~running[m].gone
      BY <2>2
    <3>2. running[m].slot = batch[m].slot
      BY <3>1 DEF NodeInv, BatchTrue
    <3> QED BY <3>1, <3>2 DEF NodeInv, HandlersTrue
  <2> QED BY <2>1, <2>2
<1>5. HandlesOwnTheirSubscription'
  <2> SUFFICES ASSUME ~misused, NEW g \in Handles, handle[g] # Empty, g \notin outdated
               PROVE  Owned(g)'
    BY OwnedAfter
  <2> QED BY OwnedMeans DEF NodeInv, Owned, SubsOf, Used
<1> QED BY <1>1, <1>2, <1>3, <1>4, <1>5, <1>6, <1>7 DEF NodeInv

\* A handler is told what was sent.
LEMMA StartTrue ==
  ASSUME NodeInv, NEW n \in Nodes, NEW s \in Slots, NEW d \in air, Passes(n, s, d, d.to)
  PROVE  /\ Read(n, d, d.to) = [role |-> d.ds.role, node_id |-> NodeId(d.from),
                                subject_id |-> d.ds.subject_id]
         /\ Read(n, d, d.to) \in NodeSpecifiers
         /\ sub[s].ds.role = d.ds.role /\ sub[s].ds.subject_id = d.ds.subject_id
<1>1. PICK tm : tm = Read(n, d, d.to)
  OBVIOUS
<1>2. /\ tm = FromPacket(addr[n], [addr |-> d.from, port |-> 0], d.to) /\ "error" \notin DOMAIN tm
      /\ sub[s].ds.role = tm.role /\ sub[s].ds.subject_id = tm.subject_id
  BY <1>1 DEF Passes, Matches, Read
<1>3. addr[n] \in NodeAddrs /\ d.from \in NodeAddrs /\ d.ds \in NodeSpecifiers
  BY DEF NodeInv, Shape, Datagrams
<1>4. PICK a \in NodeAddrs : d.to = FromDataSpecifier(a, d.ds)
  BY DEF NodeInv, AirAddressed, Addressed
<1>5. tm = [role |-> d.ds.role, node_id |-> NodeId(d.from), subject_id |-> d.ds.subject_id]
  BY <1>2, <1>3, <1>4, ReadAsSent
<1>6. tm \in NodeSpecifiers
  <2>1. d.ds \in Specifiers /\ d.ds.subject_id \in Subjects /\ NodeId(d.from) \in U16
    BY <1>3, NodeAddrsProper DEF NodeSpecifiers
  <2> QED BY <1>5, <2>1 DEF NodeSpecifiers, Specifiers
<1> QED BY <1>1, <1>2, <1>5, <1>6

\* What comes in at a socket of a node was meant for its subscription and, if it is a
\* service, for the node.
LEMMA MeantHere ==
  ASSUME NodeInv, NEW n \in Nodes, NEW s \in SubsOf(n), NEW d \in air, sub[s].bound = d.to
  PROVE  /\ sub[s].bound # Unbound
         /\ sub[s].ds.role = d.ds.role /\ sub[s].ds.subject_id = d.ds.subject_id
         /\ d.ds.role # "message" => d.ds.node_id = NodeId(addr[n])
<1>1. addr[n] \in NodeAddrs /\ d.ds \in NodeSpecifiers /\ d.to \in SocketAddrs
  BY DEF NodeInv, Shape, Datagrams
<1>2. s \in Slots /\ Used(s) /\ sub[s].owner = n /\ sub[s].bound # Unbound
  BY <1>1, Distinct DEF SubsOf
<1>3. BoundFor(d.to, sub[s].ds, addr[n]) /\ d.to # Unbound
  BY <1>2 DEF NodeInv, SocketsBound
<1>4. PICK hs \in NodeSpecifiers : /\ hs.role = sub[s].ds.role /\ hs.subject_id = sub[s].ds.subject_id
                                   /\ d.to = FromDataSpecifier(addr[n], hs)
  BY <1>3 DEF BoundFor
<1>5. PICK a \in NodeAddrs : d.to = FromDataSpecifier(a, d.ds)
  BY DEF NodeInv, AirAddressed, Addressed
<1>6. /\ addr[n] \in NodeAddresses /\ a \in NodeAddresses
      /\ hs \in Specifiers /\ d.ds \in Specifiers /\ CarriesSubject(hs) /\ CarriesSubject(d.ds)
  BY <1>1, NodeAddrsProper, Carried
<1>7. hs.role = d.ds.role /\ hs.subject_id = d.ds.subject_id
  <2>1. FromDataSpecifier(addr[n], hs) = FromDataSpecifier(a, d.ds)
    BY <1>4, <1>5
  <2>2. hs.role = d.ds.role
    BY <1>6, <2>1, SameRole
  <2>3. hs.subject_id = d.ds.subject_id
    BY <1>6, <2>1, SameSubject
  <2> QED BY <2>2, <2>3
<1>8. ASSUME d.ds.role # "message" PROVE d.ds.node_id = NodeId(addr[n])
  <2>1. d.to.addr = addr[n]
    BY <1>3, <1>4, <1>7, <1>8 DEF BoundFor
  <2>2. FromDataSpecifier(a, d.ds).addr.low = d.ds.node_id % 8192
    BY <1>6, <1>8, ServiceDest
  <2>3. d.ds.node_id % 8192 = d.ds.node_id
    <3>1. d.ds.node_id < 8192
      <4>1. CASE d.ds.node_id = 0
        BY <4>1
      <4>2. CASE \E b \in NodeAddrs : d.ds.node_id = NodeId(b)
        BY <4>2, NodeAddrsProper
      <4> QED BY <4>1, <4>2 DEF NodeInv, AirAddressed, Addressed
    <3>2. d.ds.node_id \in U16
      BY <1>6 DEF Specifiers
    <3> QED BY <3>1, <3>2, Masked
  <2> QED BY <1>5, <2>1, <2>2, <2>3 DEF NodeId
<1> QED BY <1>2, <1>4, <1>7, <1>8

\* A handler starts, whatever the library.
LEMMA StartKeeps ==
  ASSUME NodeInv, ~broken, NEW n \in Nodes, NEW s \in SubsOf(n), NEW d \in air,
         running[n] = Idle, Passes(n, s, d, d.to), Starts(n, s, d, d.to),
         sub[s].bound # Unbound,
         batch[n] # NoBatch => batch[n].slot = s,
         ~LateBatch(n) /\ d.ds.role # "message" => d.ds.node_id = NodeId(addr[n]),
         queued' \in [Slots -> {NoDatagram} \union Datagrams],
         \A t \in Slots : queued'[t] \in {queued[t], NoDatagram},
         UNCHANGED <<addr, sub, handle, air, batch, orphaned, outdated, misused, reentered, broken>>
  PROVE  NodeInv'
<1>1. s \in Slots /\ d \in Datagrams
  BY DEF SubsOf, NodeInv, Shape
<1>2. PICK tm \in NodeSpecifiers :
        /\ tm = Read(n, d, d.to)
        /\ tm = [role |-> d.ds.role, node_id |-> NodeId(d.from), subject_id |-> d.ds.subject_id]
        /\ sub[s].ds.role = tm.role
  <2>1. PICK tm : tm = Read(n, d, d.to)
    OBVIOUS
  <2>2. /\ tm = [role |-> d.ds.role, node_id |-> NodeId(d.from), subject_id |-> d.ds.subject_id]
        /\ tm \in NodeSpecifiers /\ sub[s].ds.role = d.ds.role
    BY <1>1, <2>1, StartTrue
  <2>3. tm.role = d.ds.role
    BY <2>2
  <2> QED BY <2>1, <2>2, <2>3
<1>3. PICK r : r = [slot |-> s, tm |-> tm, datagram |-> d, gone |-> FALSE, moved |-> FALSE]
  OBVIOUS
<1>4. /\ r \in Running /\ r.slot = s /\ r.tm = tm /\ r.datagram = d
      /\ r.gone = FALSE /\ r.moved = FALSE
  BY <1>1, <1>3 DEF Running
<1>5. running' = [running EXCEPT ![n] = r]
  BY <1>2, <1>3 DEF Starts
<1>6. running'[n] = r /\ \A m \in Nodes : m # n => running'[m] = running[m]
  BY <1>5 DEF NodeInv, Shape
<1>7. Shape' /\ SocketsBound'
  BY <1>4, <1>5 DEF NodeInv, Shape, SocketsBound, Used
<1>8. AirAddressed' /\ EveryResponseAnswers'
  BY DEF NodeInv, AirAddressed, Addressed, EveryResponseAnswers
<1>9. \A m \in Nodes : \A t : t \in SubsOf(m)' <=> t \in SubsOf(m)
  BY DEF SubsOf, Used
<1>10. HandlersTrue'
  <2>1. tm.role = d.ds.role /\ \A m \in Nodes : LateBatch(m)' <=> LateBatch(m)
    BY <1>2 DEF LateBatch
  <2> QED BY <1>2, <1>4, <1>6, <1>9, <2>1 DEF NodeInv, HandlersTrue
<1>11. HandlesOwnTheirSubscription'
  <2> SUFFICES ASSUME ~misused, NEW g \in Handles, handle[g] # Empty, g \notin outdated
               PROVE  Owned(g)'
    BY OwnedAfter
  <2> QED BY OwnedMeans DEF NodeInv, Owned, SubsOf, Used
<1>12. QueuedTrue'
  BY DEF NodeInv, QueuedTrue, Used
<1>13. BatchTrue'
  <2>1. r # Idle
    BY <1>4, Distinct
  <2> QED BY <1>4, <1>6, <1>9, <2>1 DEF NodeInv, BatchTrue
<1> QED BY <1>7, <1>8, <1>10, <1>11, <1>12, <1>13 DEF NodeInv

\* What the event loop does between handlers.
LEMMA LoopKeeps ==
  ASSUME NodeInv, ~broken,
         UNCHANGED <<addr, sub, handle, air, running, orphaned, outdated, misused, reentered>>,
         queued' \in [Slots -> {NoDatagram} \union Datagrams],
         batch' \in [Nodes -> {NoBatch} \union Batches],
         \A m \in Nodes : running[m] # Idle => batch'[m] = batch[m],
         QueuedTrue', BatchTrue',
         broken' = FALSE \/ (broken' = TRUE /\ (reentered \/ orphaned # {}))
  PROVE  NodeInv'
<1>1. Shape' /\ SocketsBound' /\ AirAddressed' /\ EveryResponseAnswers'
  BY DEF NodeInv, Shape, SocketsBound, Used, AirAddressed, Addressed, EveryResponseAnswers
<1>2. HandlersTrue'
  <2>1. \A m \in Nodes : running[m] # Idle => (LateBatch(m)' <=> LateBatch(m))
    BY DEF LateBatch
  <2> QED BY <2>1 DEF NodeInv, HandlersTrue, SubsOf, Used
<1>3. HandlesOwnTheirSubscription'
  <2> SUFFICES ASSUME ~misused, NEW g \in Handles, handle[g] # Empty, g \notin outdated
               PROVE  Owned(g)'
    BY OwnedAfter
  <2> QED BY OwnedMeans DEF NodeInv, Owned, SubsOf, Used
<1> QED BY <1>1, <1>2, <1>3 DEF NodeInv

LEMMA DatagramReceivedKeeps ==
  ASSUME NodeInv, ~broken, NEW n \in Nodes, NEW s \in SubsOf(n), NEW d \in air,
         DatagramReceived(n, s, d)
  PROVE  NodeInv'
<1>1. /\ sub[s].bound = d.to /\ running[n] = Idle /\ batch[n] = NoBatch
      /\ Passes(n, s, d, d.to) /\ Starts(n, s, d, d.to)
      /\ UNCHANGED <<addr, sub, handle, air, queued, batch, orphaned, outdated, misused,
                     reentered, broken>>
  BY DEF DatagramReceived, Quiet, user
<1>2. sub[s].bound # Unbound /\ (d.ds.role # "message" => d.ds.node_id = NodeId(addr[n]))
  BY <1>1, MeantHere
<1>3. queued' \in [Slots -> {NoDatagram} \union Datagrams]
  BY <1>1 DEF NodeInv, Shape
<1> QED BY <1>1, <1>2, <1>3, StartKeeps

LEMMA CompleteKeeps ==
  ASSUME NodeInv, ~broken, NEW n \in Nodes, NEW s \in SubsOf(n), NEW d \in air, Complete(n, s, d)
  PROVE  NodeInv'
<1>1. /\ sub[s].bound = d.to /\ queued' = [queued EXCEPT ![s] = d]
      /\ UNCHANGED <<addr, sub, handle, air, batch, running, orphaned, outdated, misused,
                     reentered, broken>>
  BY DEF Complete, user
<1>2. d \in Datagrams /\ s \in Slots /\ Used(s)
  BY DEF NodeInv, Shape, SubsOf
<1>3. /\ queued' \in [Slots -> {NoDatagram} \union Datagrams]
      /\ batch' \in [Nodes -> {NoBatch} \union Batches]
  BY <1>1, <1>2 DEF NodeInv, Shape
<1>4. queued'[s] = d /\ \A t \in Slots : t # s => queued'[t] = queued[t]
  BY <1>1, <1>2 DEF NodeInv, Shape
<1>5. QueuedTrue'
  BY <1>1, <1>2, <1>4 DEF NodeInv, QueuedTrue, Used
<1>6. BatchTrue'
  BY <1>1 DEF NodeInv, BatchTrue, SubsOf, Used
<1>7. broken' = FALSE
  BY <1>1, NotBroken DEF NodeInv
<1> QED BY <1>1, <1>3, <1>5, <1>6, <1>7, LoopKeeps

LEMMA HandleReceiveFromKeeps ==
  ASSUME NodeInv, ~broken, NEW n \in Nodes, NEW s \in SubsOf(n), HandleReceiveFrom(n, s)
  PROVE  NodeInv'
<1>1. /\ queued[s] # NoDatagram /\ running[n] = Idle /\ batch[n] = NoBatch
      /\ queued' = [queued EXCEPT ![s] = NoDatagram]
      /\ UNCHANGED <<addr, sub, handle, air, batch, orphaned, outdated, misused, reentered, broken>>
  BY DEF HandleReceiveFrom, Quiet, user
<1>2. s \in Slots
  BY DEF SubsOf
<1>3. PICK d \in air : d = queued[s] /\ sub[s].bound = d.to
  BY <1>1, <1>2 DEF NodeInv, QueuedTrue
<1>4. /\ queued' \in [Slots -> {NoDatagram} \union Datagrams]
      /\ \A t \in Slots : queued'[t] \in {queued[t], NoDatagram}
      /\ batch' \in [Nodes -> {NoBatch} \union Batches]
  BY <1>1 DEF NodeInv, Shape
<1>5. CASE Passes(n, s, d, d.to) /\ Starts(n, s, d, d.to)
  <2>1. sub[s].bound # Unbound /\ (d.ds.role # "message" => d.ds.node_id = NodeId(addr[n]))
    BY <1>3, MeantHere
  <2> QED BY <1>1, <1>4, <1>5, <2>1, StartKeeps
<1>6. CASE running' = running
  <2>1. QueuedTrue'
    BY <1>1, <1>4 DEF NodeInv, QueuedTrue, Used
  <2>2. BatchTrue'
    BY <1>1, <1>6 DEF NodeInv, BatchTrue, SubsOf, Used
  <2>3. broken' = FALSE
    BY <1>1, NotBroken DEF NodeInv
  <2> QED BY <1>1, <1>4, <1>6, <2>1, <2>2, <2>3, LoopKeeps
<1> QED BY <1>3, <1>5, <1>6 DEF HandleReceiveFrom

LEMMA ReadyReadKeeps ==
  ASSUME NodeInv, ~broken, NEW n \in Nodes, NEW s \in SubsOf(n), ReadyRead(n, s)
  PROVE  NodeInv'
<1>1. PICK T \in SUBSET air : T = {d \in air : d.to = sub[s].bound} /\ T # {}
  BY DEF ReadyRead
<1>2. PICK b : b = [slot |-> s, at |-> sub[s].bound, moved |-> FALSE, taken |-> T]
  OBVIOUS
<1>3. /\ running[n] = Idle /\ batch' = [batch EXCEPT ![n] = b]
      /\ UNCHANGED <<addr, sub, handle, air, queued, running, orphaned, outdated, misused,
                     reentered, broken>>
  BY <1>1, <1>2 DEF ReadyRead, Quiet, user
<1>4. PICK e \in T : e.to = sub[s].bound
  BY <1>1
<1>5. s \in Slots /\ e \in Datagrams /\ T \subseteq Datagrams /\ sub[s].bound \in SocketAddrs
  BY <1>4 DEF SubsOf, NodeInv, Shape, Datagrams
<1>6. b \in Batches /\ b.slot = s /\ b.taken = T /\ b.at = sub[s].bound /\ ~b.moved
  BY <1>2, <1>5 DEF Batches
<1>7. /\ batch' \in [Nodes -> {NoBatch} \union Batches]
      /\ batch'[n] = b /\ \A m \in Nodes : m # n => batch'[m] = batch[m]
      /\ queued' \in [Slots -> {NoDatagram} \union Datagrams]
  BY <1>3, <1>6 DEF NodeInv, Shape
<1>8. \A d \in T : d.to = b.at /\ (d.ds.role # "message" => d.ds.node_id = NodeId(addr[n]))
  BY <1>1, <1>6, MeantHere
<1>9. QueuedTrue'
  BY <1>3 DEF NodeInv, QueuedTrue, Used
<1>10. BatchTrue'
  <2>1. \A m \in Nodes : \A t : t \in SubsOf(m)' <=> t \in SubsOf(m)
    BY <1>3 DEF SubsOf, Used
  <2>2. sub[s].bound # Unbound
    BY <1>4, MeantHere
  <2> QED BY <1>3, <1>6, <1>7, <1>8, <2>1, <2>2 DEF NodeInv, BatchTrue
<1>11. broken' = FALSE
  BY <1>3, NotBroken DEF NodeInv
<1> QED BY <1>3, <1>7, <1>9, <1>10, <1>11, LoopKeeps

LEMMA HandleNextKeeps ==
  ASSUME NodeInv, ~broken, NEW n \in Nodes, NEW d \in air, HandleNext(n, d)
  PROVE  NodeInv'
<1>1. /\ running[n] = Idle /\ batch[n] # NoBatch /\ d \in batch[n].taken
      /\ Passes(n, batch[n].slot, d, batch[n].at) /\ Starts(n, batch[n].slot, d, batch[n].at)
      /\ UNCHANGED <<addr, sub, handle, air, queued, batch, orphaned, outdated, misused,
                     reentered, broken>>
  BY DEF HandleNext, user
<1>2. PICK s \in SubsOf(n) : s = batch[n].slot /\ sub[s].bound # Unbound
  BY <1>1 DEF NodeInv, BatchTrue
<1>3. /\ d.to = batch[n].at
      /\ ~LateBatch(n) /\ d.ds.role # "message" => d.ds.node_id = NodeId(addr[n])
  BY <1>1 DEF NodeInv, BatchTrue, LateBatch
<1>4. queued' \in [Slots -> {NoDatagram} \union Datagrams]
  BY <1>1 DEF NodeInv, Shape
<1> QED BY <1>1, <1>2, <1>3, <1>4, StartKeeps

LEMMA ReadyReadEndsKeeps ==
  ASSUME NodeInv, ~broken, NEW n \in Nodes, ReadyReadEnds(n)
  PROVE  NodeInv'
<1>1. /\ running[n] = Idle /\ batch[n] # NoBatch /\ batch' = [batch EXCEPT ![n] = NoBatch]
      /\ broken' \in (IF batch[n].moved THEN BOOLEAN ELSE {FALSE})
      /\ UNCHANGED <<addr, sub, handle, air, queued, running, orphaned, outdated, misused, reentered>>
  BY DEF ReadyReadEnds, user
<1>2. /\ batch' \in [Nodes -> {NoBatch} \union Batches]
      /\ batch'[n] = NoBatch /\ \A m \in Nodes : m # n => batch'[m] = batch[m]
      /\ queued' \in [Slots -> {NoDatagram} \union Datagrams]
  BY <1>1 DEF NodeInv, Shape
<1>3. QueuedTrue'
  BY <1>1 DEF NodeInv, QueuedTrue, Used
<1>4. BatchTrue'
  <2>1. \A m \in Nodes : \A t : t \in SubsOf(m)' <=> t \in SubsOf(m)
    BY <1>1 DEF SubsOf, Used
  <2> QED BY <1>1, <1>2, <2>1 DEF NodeInv, BatchTrue
<1>5. broken' = FALSE \/ (broken' = TRUE /\ (reentered \/ orphaned # {}))
  BY <1>1 DEF NodeInv, BatchTrue
<1> QED BY <1>1, <1>2, <1>3, <1>4, <1>5, LoopKeeps

LEMMA CallOrphanKeeps ==
  ASSUME NodeInv, ~broken, NEW n \in Nodes, CallOrphan(n)
  PROVE  NodeInv'
<1>1. /\ broken' = TRUE /\ orphaned # {}
      /\ UNCHANGED <<addr, sub, handle, air, queued, batch, running, orphaned, outdated, misused,
                     reentered>>
  BY DEF CallOrphan, user, loop
<1>2. QueuedTrue' /\ BatchTrue'
  BY <1>1 DEF NodeInv, QueuedTrue, BatchTrue, SubsOf, Used
<1>3. /\ queued' \in [Slots -> {NoDatagram} \union Datagrams]
      /\ batch' \in [Nodes -> {NoBatch} \union Batches]
  BY <1>1 DEF NodeInv, Shape
<1> QED BY <1>1, <1>2, <1>3, LoopKeeps

\* A datagram of a node, whatever it is for.
LEMMA DatagramProper ==
  ASSUME NodeInv, NEW n \in Nodes, NEW f \in NodeAddrs, NEW ds \in NodeSpecifiers,
         ds.node_id \in {0} \union {NodeId(a) : a \in NodeAddrs}
  PROVE  /\ Datagram(n, f, ds) \in Datagrams
         /\ Addressed(Datagram(n, f, ds))
         /\ Datagram(n, f, ds).ds = ds /\ Datagram(n, f, ds).from = f
<1>1. addr[n] \in NodeAddrs /\ ds \in Specifiers
  BY DEF NodeInv, Shape, NodeSpecifiers
<1>2. FromDataSpecifier(addr[n], ds) \in SocketAddrs
  BY <1>1, DestType
<1> QED BY <1>1, <1>2 DEF Datagram, Datagrams, Addressed

\* What a node that runs a request's handler would answer.
LEMMA ResponseProper ==
  ASSUME NodeInv, NEW n \in Nodes, ReturnResponse(n)
  PROVE  /\ sub[running[n].slot].bound.addr = addr[n]
         /\ Response(n) \in NodeSpecifiers /\ Response(n).role = "response"
         /\ Response(n).node_id \in {NodeId(a) : a \in NodeAddrs}
         /\ running[n].datagram \in air
         /\ running[n].datagram.ds.role = "request"
         /\ running[n].datagram.ds.subject_id = Response(n).subject_id
         /\ NodeId(running[n].datagram.from) = Response(n).node_id
         /\ ~reentered => running[n].datagram.ds.node_id = NodeId(addr[n])
<1>1. /\ running[n] # Idle /\ running[n] \in Running /\ ~running[n].gone
      /\ running[n].tm.role = "request"
  BY SubsFields DEF NodeInv, ReturnResponse, ReturnsToFreed
<1>2. PICK d \in air : d = running[n].datagram
  BY <1>1 DEF NodeInv, HandlersTrue
<1>3. running[n].tm = [role |-> d.ds.role, node_id |-> NodeId(d.from),
                       subject_id |-> d.ds.subject_id]
  BY <1>1, <1>2 DEF NodeInv, HandlersTrue
<1>4. d.from \in NodeAddrs /\ running[n].tm \in NodeSpecifiers
  BY <1>1 DEF NodeInv, Shape, Datagrams, Running
<1>5. PICK t \in Slots : /\ t = running[n].slot /\ t \in SubsOf(n) /\ sub[t].ds.role = "request"
                       /\ sub[t].bound # Unbound
  <2>1. PICK t \in Slots : t = running[n].slot
    BY <1>1 DEF Running
  <2>2. t \in SubsOf(n) /\ sub[t].ds.role = "request" /\ sub[t].bound # Unbound
    BY <1>1, <2>1 DEF NodeInv, HandlersTrue
  <2> QED BY <2>1, <2>2
<1>6. sub[t].bound.addr = addr[n]
  BY <1>5 DEF NodeInv, SocketsBound, BoundFor, SubsOf
<1>7. Response(n) \in NodeSpecifiers /\ Response(n).role = "response"
      /\ Response(n).node_id = NodeId(d.from) /\ Response(n).subject_id = d.ds.subject_id
  <2>1. NodeId(d.from) \in U16 /\ d.ds.subject_id \in Subjects /\ d.ds.subject_id \in U16
    BY <1>3, <1>4, NodeAddrsProper, Carried DEF NodeSpecifiers
  <2>2. Response(n) = [role |-> "response", node_id |-> NodeId(d.from),
                       subject_id |-> d.ds.subject_id]
    BY <1>3 DEF Response
  <2> QED BY <2>1, <2>2 DEF NodeSpecifiers, Specifiers, Roles
<1>8. ~reentered => d.ds.node_id = NodeId(addr[n])
  <2>1. ~reentered => ~running[n].moved /\ ~LateBatch(n)
    BY <1>1 DEF NodeInv, HandlersTrue, BatchTrue, LateBatch
  <2> QED BY <1>1, <1>2, <2>1 DEF NodeInv, HandlersTrue
<1> QED BY <1>1, <1>2, <1>3, <1>4, <1>5, <1>6, <1>7, <1>8

LEMMA ReturnResponseKeeps ==
  ASSUME NodeInv, ~broken, NEW n \in Nodes, ReturnResponse(n)
  PROVE  NodeInv'
<1>1. PICK d : d = Datagram(n, addr[n], Response(n))
  OBVIOUS
<1>2. addr[n] \in NodeAddrs
  BY DEF NodeInv, Shape
<1>3. d \in Datagrams /\ Addressed(d) /\ d.ds = Response(n) /\ d.from = addr[n]
  BY <1>1, <1>2, ResponseProper, DatagramProper
<1>4. /\ air' = air \union {d} /\ running' = [running EXCEPT ![n] = Idle]
      /\ running[n] # Idle /\ ~running[n].gone
      /\ UNCHANGED <<addr, sub, handle, queued, batch, orphaned, outdated, misused, reentered, broken>>
  BY <1>1, ResponseProper DEF ReturnResponse, ReturnsToFreed, Emit, user
<1>5. /\ running' \in [Nodes -> {Idle} \union Running]
      /\ \A m \in Nodes : running'[m] # running[m] =>
           running'[m] = Idle /\ running[m] # Idle /\ ~running[m].gone
  BY <1>4 DEF NodeInv, Shape
<1>6. PICK q \in air : /\ q.ds.role = "request" /\ q.ds.subject_id = d.ds.subject_id
                       /\ NodeId(q.from) = d.ds.node_id
                       /\ ~reentered => q.ds.node_id = NodeId(d.from)
  BY <1>3, ResponseProper
<1>7. Proper(d)
  BY <1>3, <1>6 DEF Proper
<1>8. PICK D \in SUBSET Datagrams : D = {d}
  BY <1>3
<1>9. air' = air \union D /\ (\A e \in D : Proper(e)) /\ broken' = FALSE
  BY <1>4, <1>7, <1>8, NotBroken DEF NodeInv
<1> QED BY <1>4, <1>5, <1>9, SendingKeeps

LEMMA ReturnKeeps ==
  ASSUME NodeInv, ~broken, NEW n \in Nodes, Return(n) \/ ReturnDangling(n)
  PROVE  NodeInv'
<1>1. /\ air' = air \union {} /\ {} \in SUBSET Datagrams
      /\ UNCHANGED <<addr, sub, handle, queued, batch, orphaned, outdated, misused, reentered>>
      /\ \/ running' = running
         \/ running' = [running EXCEPT ![n] = Idle] /\ running[n] # Idle /\ ~running[n].gone
      /\ broken' = broken \/ (broken' = TRUE /\ ReturnDangling(n))
  BY DEF Return, ReturnDangling, ReturnsToFreed, user, loop
<1>2. /\ running' \in [Nodes -> {Idle} \union Running]
      /\ \A m \in Nodes : running'[m] # running[m] =>
           running'[m] = Idle /\ running[m] # Idle /\ ~running[m].gone
  BY <1>1 DEF NodeInv, Shape
<1>3. ReturnDangling(n) => reentered
  BY DEF NodeInv, HandlersTrue, ReturnDangling, ReturnsToFreed
<1>4. broken' = FALSE \/ (broken' = TRUE /\ (reentered \/ orphaned # {}))
  BY <1>1, <1>3, NotBroken DEF NodeInv
<1> QED BY <1>1, <1>2, <1>4, SendingKeeps

LEMMA MessageProper ==
  ASSUME NodeInv, NEW n \in Nodes, NEW subject \in Subjects, SendMessage(n, subject)
  PROVE  \E d \in Datagrams : air' = air \union {d} /\ Addressed(d) /\ d.ds.role = "message"
<1>1. PICK ds : ds = [role |-> "message", node_id |-> 0, subject_id |-> subject]
  OBVIOUS
<1>2. ds \in NodeSpecifiers /\ ds.role = "message" /\ ds.node_id = 0 /\ addr[n] \in NodeAddrs
  <2>1. subject \in U16 /\ 0 \in U16
    BY NodeAssumption, InU16
  <2> QED BY <1>1, <2>1 DEF NodeSpecifiers, Specifiers, Roles, NodeInv, Shape
<1>3. PICK d : d = Datagram(n, addr[n], ds)
  OBVIOUS
<1>4. d \in Datagrams /\ Addressed(d) /\ d.ds = ds
  BY <1>2, <1>3, DatagramProper
<1>5. air' = air \union {d}
  BY <1>1, <1>3 DEF SendMessage, Emit
<1> QED BY <1>2, <1>4, <1>5

\* A service caller's request, and what it is addressed to.
LEMMA RequestProper ==
  ASSUME NodeInv, NEW h \in Handles, NEW a \in NodeAddrs, Request(h, NodeId(a))
  PROVE  \E d \in Datagrams : /\ air' = air \union {d} /\ Addressed(d)
                              /\ d.ds.role = "request" /\ d.ds.node_id = NodeId(a)
<1>1. handle[h] # Empty /\ handle[h] \in Pointers /\ handle[h].caller # NotACaller
  BY SubsFields DEF NodeInv, Request
<1>2. PICK n \in Nodes, f \in NodeAddrs, subject \in Subjects :
        n = handle[h].node /\ f = handle[h].caller /\ subject = handle[h].service
  BY <1>1 DEF Pointers
<1>3. PICK ds : ds = [role |-> "request", node_id |-> NodeId(a), subject_id |-> subject]
  OBVIOUS
<1>4. ds \in NodeSpecifiers /\ ds.node_id = NodeId(a)
  <2>1. subject \in U16 /\ NodeId(a) \in U16
    BY NodeAssumption, NodeAddrsProper
  <2> QED BY <1>3, <2>1 DEF NodeSpecifiers, Specifiers, Roles
<1>5. PICK d : d = Datagram(n, f, ds)
  OBVIOUS
<1>6. d \in Datagrams /\ Addressed(d) /\ d.ds = ds /\ d.from = f
  BY <1>4, <1>5, DatagramProper
<1>7. air' = air \union {d}
  BY <1>2, <1>3, <1>5 DEF Request, Emit
<1>8. d.ds.role = "request" /\ d.ds.node_id = NodeId(a)
  BY <1>3, <1>6
<1> QED BY <1>6, <1>7, <1>8

LEMMA SendKeeps ==
  ASSUME NodeInv, ~broken,
         \/ \E n \in Nodes, i \in Subjects : SendMessage(n, i)
         \/ \E h \in Handles, a \in NodeAddrs : Request(h, NodeId(a))
  PROVE  NodeInv'
<1>1. PICK d \in Datagrams : air' = air \union {d} /\ Addressed(d) /\ d.ds.role # "response"
  BY MessageProper, RequestProper
<1>2. UNCHANGED <<addr, sub, handle, queued, batch, running, orphaned, outdated, misused,
                  reentered, broken>>
  BY DEF SendMessage, Request, user, loop
<1>3. PICK D \in SUBSET Datagrams : D = {d}
  BY <1>1
<1>4. air' = air \union D /\ (\A e \in D : Proper(e)) /\ broken' = FALSE
  BY <1>1, <1>2, <1>3, NotBroken DEF NodeInv, Proper
<1>5. running' \in [Nodes -> {Idle} \union Running] /\ \A m \in Nodes : running'[m] = running[m]
  BY <1>2 DEF NodeInv, Shape
<1> QED BY <1>2, <1>4, <1>5, SendingKeeps

-----------------------------------------------------------------------------
(* The theorems about nodes *)

\* The subscriptions of the four operations, by what they have in common.
LEMMA SubscriptionsKeep ==
  ASSUME NodeInv, ~broken, NEW n \in Nodes, NEW h \in Handles, NEW s \in Slots, NEW i \in Subjects,
         \/ SubscribeMessage(n, h, s, i) \/ SubscribeServiceRequest(n, h, s, i)
         \/ SubscribeRawServiceRequest(n, h, s, i) \/ PrepareServiceCalls(n, h, s, i)
  PROVE  /\ NodeInv'
         /\ \E ds \in NodeSpecifiers : \E caller : Subscribe(n, h, s, ds, caller)
<1>1. addr[n] \in NodeAddrs /\ NodeId(addr[n]) \in U16 /\ addr[n] # NotACaller
  BY NodeAddrsProper, Distinct DEF NodeInv, Shape
<1>2. 0 \in U16 /\ i \in U16
  BY InU16, NodeAssumption
<1>3. \A role \in Roles, id \in U16 :
        [role |-> role, node_id |-> id, subject_id |-> i] \in NodeSpecifiers
  BY <1>2 DEF NodeSpecifiers, Specifiers
<1>4. {"message", "request", "response"} = Roles
  BY DEF Roles
<1>5. PICK ds \in NodeSpecifiers, caller \in NodeAddrs \union {NotACaller} :
        /\ ds.role = "response" <=> caller # NotACaller
        /\ Subscribe(n, h, s, ds, caller)
  <2>1. CASE SubscribeMessage(n, h, s, i)
    BY <1>2, <1>3, <1>4, <2>1 DEF SubscribeMessage
  <2>2. CASE SubscribeServiceRequest(n, h, s, i)
    BY <1>1, <1>3, <1>4, <2>2 DEF SubscribeServiceRequest
  <2>3. CASE SubscribeRawServiceRequest(n, h, s, i)
    BY <1>2, <1>3, <1>4, <2>3 DEF SubscribeRawServiceRequest
  <2>4. CASE PrepareServiceCalls(n, h, s, i)
    BY <1>1, <1>3, <1>4, <2>4 DEF PrepareServiceCalls
  <2> QED BY <2>1, <2>2, <2>3, <2>4
<1> QED BY <1>5, SubscribeKeeps

\* The steps of Next, with the cases every proof about them has.
LEMMA NodeSteps ==
  ASSUME [Next]_vars
  PROVE  \/ UNCHANGED vars
         \/ ~broken /\ \E n \in Nodes, h \in Handles, s \in Slots, i \in Subjects :
              \/ SubscribeMessage(n, h, s, i) \/ SubscribeServiceRequest(n, h, s, i)
              \/ SubscribeRawServiceRequest(n, h, s, i) \/ PrepareServiceCalls(n, h, s, i)
         \/ ~broken /\ \E n \in Nodes, a \in NodeAddrs : MayAct(n) /\ SetAddress(n, a)
         \/ ~broken /\ \E n \in Nodes, i \in Subjects : SendMessage(n, i)
         \/ ~broken /\ \E h \in Handles : MayAct(handle[h].node) /\ Unsubscribe(h)
         \/ ~broken /\ \E h \in Handles : UnsubscribeStale(h)
         \/ ~broken /\ \E h, g \in Handles : CopyHandle(h, g)
         \/ ~broken /\ \E h \in Handles, a \in NodeAddrs : Request(h, NodeId(a))
         \/ ~broken /\ \E n \in Nodes : \E s \in SubsOf(n), d \in air : DatagramReceived(n, s, d)
         \/ ~broken /\ \E n \in Nodes : \E s \in SubsOf(n), d \in air : Complete(n, s, d)
         \/ ~broken /\ \E n \in Nodes : \E s \in SubsOf(n) : HandleReceiveFrom(n, s)
         \/ ~broken /\ \E n \in Nodes : \E s \in SubsOf(n) : ReadyRead(n, s)
         \/ ~broken /\ \E n \in Nodes, d \in air : HandleNext(n, d)
         \/ ~broken /\ \E n \in Nodes : ReadyReadEnds(n)
         \/ ~broken /\ \E n \in Nodes : CallOrphan(n)
         \/ ~broken /\ \E n \in Nodes : ReturnResponse(n)
         \/ ~broken /\ \E n \in Nodes : Return(n) \/ ReturnDangling(n)
<1> SUFFICES ASSUME ~broken, NEW n \in Nodes, (MayAct(n) /\ Operate(n)) \/ EventLoop(n)
             PROVE  \/ \E m \in Nodes, h \in Handles, s \in Slots, i \in Subjects :
                         \/ SubscribeMessage(m, h, s, i) \/ SubscribeServiceRequest(m, h, s, i)
                         \/ SubscribeRawServiceRequest(m, h, s, i) \/ PrepareServiceCalls(m, h, s, i)
                    \/ \E m \in Nodes, a \in NodeAddrs : MayAct(m) /\ SetAddress(m, a)
                    \/ \E m \in Nodes, i \in Subjects : SendMessage(m, i)
                    \/ \E h \in Handles : MayAct(handle[h].node) /\ Unsubscribe(h)
                    \/ \E h \in Handles : UnsubscribeStale(h)
                    \/ \E h, g \in Handles : CopyHandle(h, g)
                    \/ \E h \in Handles, a \in NodeAddrs : Request(h, NodeId(a))
                    \/ EventLoop(n)
  BY DEF Next, EventLoop
<1> QED BY DEF Operate

LEMMA NodeInvInit == Init => NodeInv
<1> SUFFICES ASSUME Init PROVE NodeInv
  OBVIOUS
<1>1. /\ addr \in [Nodes -> NodeAddrs] /\ sub = [s \in Slots |-> Free]
      /\ handle = [h \in Handles |-> Empty] /\ air = {}
      /\ queued = [s \in Slots |-> NoDatagram] /\ batch = [n \in Nodes |-> NoBatch]
      /\ running = [n \in Nodes |-> Idle] /\ orphaned = {}
      /\ misused = FALSE /\ reentered = FALSE /\ broken = FALSE
  BY DEF Init
<1>2. Shape
  BY <1>1 DEF Shape
<1>3. SocketsBound /\ AirAddressed /\ HandlersTrue /\ QueuedTrue /\ BatchTrue
      /\ EveryResponseAnswers
  BY <1>1 DEF SocketsBound, AirAddressed, HandlersTrue, QueuedTrue, BatchTrue,
              EveryResponseAnswers, Used
<1>4. HandlesOwnTheirSubscription
  BY <1>1, OwnedMeans
<1> QED BY <1>2, <1>3, <1>4 DEF NodeInv

LEMMA NodeInvNext == NodeInv /\ [Next]_vars => NodeInv'
<1> SUFFICES ASSUME NodeInv, [Next]_vars PROVE NodeInv'
  OBVIOUS
<1>1. CASE UNCHANGED vars
  <2>1. UNCHANGED <<addr, sub, handle, air, queued, batch, running, orphaned, outdated, misused,
                    reentered, broken>>
    BY <1>1 DEF vars, user, loop
  <2>2. Shape' /\ SocketsBound' /\ AirAddressed' /\ HandlersTrue' /\ QueuedTrue' /\ BatchTrue'
        /\ EveryResponseAnswers'
    BY <2>1 DEF NodeInv, Shape, SocketsBound, AirAddressed, Addressed, HandlersTrue, QueuedTrue,
                BatchTrue, LateBatch, EveryResponseAnswers, Used, SubsOf
  <2>3. HandlesOwnTheirSubscription'
    BY <2>1 DEF NodeInv, HandlesOwnTheirSubscription, Used, SubsOf
  <2> QED BY <2>2, <2>3 DEF NodeInv
<1> QED BY <1>1, NodeSteps, SubscriptionsKeep, SetAddressKeeps, SendKeeps, DatagramReceivedKeeps,
           CompleteKeeps, HandleReceiveFromKeeps, ReadyReadKeeps, HandleNextKeeps,
           ReadyReadEndsKeeps, CallOrphanKeeps, ReturnResponseKeeps, ReturnKeeps,
           UnsubscribeKeeps, StaleKeeps, CopyKeeps

\* What is always true of nodes: sockets, datagrams, what has been received of them,
\* running handlers and handles.
THEOREM NodeInvariant == Spec => []NodeInv
BY NodeInvInit, NodeInvNext, PTL DEF Spec

\* TypeOK of CyphalNode, for all its constants.
THEOREM NodeTypes == Spec => []TypeOK
<1>1. NodeInv => TypeOK
  <2> SUFFICES ASSUME NodeInv PROVE TypeOK
    OBVIOUS
  <2>1. Shape /\ HandlersTrue /\ QueuedTrue /\ BatchTrue
    BY DEF NodeInv
  <2>2. \A s \in Slots : Used(s) =>
          sub[s].owner \in Nodes /\ sub[s].ds \in Specifiers /\ sub[s].ds.subject_id \in Subjects
    BY <2>1, SubsFields DEF Subscribed, NodeSpecifiers
  <2>3. \A h \in Handles : handle[h] # Empty =>
          /\ handle[h].slot \in Slots /\ handle[h].node \in Nodes
          /\ handle[h].service \in Subjects
          /\ handle[h].caller \in NodeAddrs \union {NotACaller}
    BY <2>1, SubsFields DEF Pointers
  <2>4. \A d \in air : d.node \in Nodes /\ d.from \in NodeAddrs /\ d.ds \in Specifiers
    BY <2>1 DEF Shape, Datagrams, NodeSpecifiers
  <2>5. \A n \in Nodes : running[n] # Idle => running[n].slot \in Slots /\ running[n].datagram \in air
    BY <2>1, SubsFields DEF HandlersTrue, Running
  <2>6. /\ \A s \in Slots : queued[s] # NoDatagram => queued[s] \in air
        /\ \A n \in Nodes : batch[n] # NoBatch =>
             batch[n].slot \in Slots /\ batch[n].taken \subseteq air
    BY <2>1 DEF QueuedTrue, BatchTrue, Shape, Batches
  <2> QED BY <2>1, <2>2, <2>3, <2>4, <2>5, <2>6 DEF TypeOK, Shape
<1> QED BY <1>1, NodeInvariant, PTL

\* A handle that was not used to unsubscribe through a copy points to its own live
\* subscription, for any memory reuse, and undefined behaviour needs a handler that
\* interfered with itself or a destroyed socket that the event loop still knows.
THEOREM HandlesOwn == Spec => []HandlesOwnTheirSubscription
<1>1. NodeInv => HandlesOwnTheirSubscription
  BY DEF NodeInv
<1> QED BY <1>1, NodeInvariant, PTL

\* Every response answers a request of the node it goes to.
THEOREM ResponsesAnswer == Spec => []EveryResponseAnswers
<1>1. NodeInv => EveryResponseAnswers
  BY DEF NodeInv
<1> QED BY <1>1, NodeInvariant, PTL

-----------------------------------------------------------------------------
(* Nodes implement Transfers *)

Ids        == {0} \union {NodeId(a) : a \in NodeAddrs}
ids        == [n \in Nodes |-> Id(n)]
listenings == [n \in Nodes |-> Listening(n)]
sents      == {Sent(d) : d \in air}
inboxes    == [n \in Nodes |-> {Sent(d) : d \in TakenIn(n)}]
handlings  == [n \in Nodes |-> Handling(n)]

TransferStep == [Promise!Next]_(Promise!vars)

LEMMA SentType ==
  ASSUME NEW d \in Datagrams, Addressed(d)
  PROVE  Sent(d) \in Promise!Transfers
<1>1. d.from \in NodeAddrs /\ d.ds \in Specifiers /\ d.ds.subject_id \in Subjects
  BY DEF Datagrams, NodeSpecifiers
<1>2. d.ds.role \in Roles /\ d.ds.node_id \in Ids /\ NodeId(d.from) \in Ids
  BY <1>1 DEF Specifiers, Addressed, Ids
<1> QED BY <1>1, <1>2 DEF Sent, Promise!Transfers, Promise!Roles, Roles, Ids

LEMMA ListeningType ==
  ASSUME NodeInv', NEW n \in Nodes
  PROVE  Listening(n)' \in SUBSET (Roles \X Subjects)
<1>1. ASSUME NEW s \in SubsOf(n)' PROVE sub'[s].ds.role \in Roles /\ sub'[s].ds.subject_id \in Subjects
  <2>1. sub'[s] \in Subscribed
    BY DEF NodeInv, Shape, SubsOf, Used
  <2> QED BY <2>1 DEF Subscribed, NodeSpecifiers, Specifiers
<1> QED BY <1>1 DEF Listening

\* What does not move anything Transfers sees.
LEMMA TransfersStutter ==
  ASSUME UNCHANGED <<addr, sub, air, running, queued, batch>>
  PROVE  TransferStep
BY DEF TransferStep, Promise!vars, Id, Listening, Sent, Handling, TakenIn, SubsOf, Used

LEMMA TakenInStays ==
  ASSUME UNCHANGED <<sub, queued, batch>>
  PROVE  inboxes' = inboxes /\ listenings' = listenings
BY DEF inboxes, listenings, TakenIn, Listening, SubsOf, Used

\* What a node has taken in becomes less, and no other node's.
Forgets(n) ==
  /\ TakenIn(n)' \subseteq TakenIn(n)
  /\ \A m \in Nodes : m # n => TakenIn(m)' = TakenIn(m)

LEMMA Forgotten ==
  ASSUME NEW n \in Nodes, Forgets(n)
  PROVE  \E I \in SUBSET inboxes[n] : inboxes' = [inboxes EXCEPT ![n] = I]
<1>1. PICK I : I = {Sent(d) : d \in TakenIn(n)'}
  OBVIOUS
<1>2. I \in SUBSET inboxes[n]
  BY <1>1 DEF inboxes, Forgets
<1>3. inboxes' = [inboxes EXCEPT ![n] = I]
  BY <1>1 DEF inboxes, Forgets
<1> QED BY <1>2, <1>3

\* A subscription comes or goes, or what came in is dropped.
LEMMA TransfersListen ==
  ASSUME NodeInv', NEW n \in Nodes, UNCHANGED <<addr, air>>, Forgets(n),
         \A m \in Nodes : Handling(m)' = Handling(m),
         \A m \in Nodes : m # n => Listening(m)' = Listening(m)
  PROVE  TransferStep
<1>1. PICK L : L = Listening(n)'
  OBVIOUS
<1>2. L \in SUBSET (Roles \X Subjects)
  BY <1>1, ListeningType
<1>3. listenings' = [listenings EXCEPT ![n] = L]
  BY <1>1 DEF listenings
<1>4. ids' = ids /\ sents' = sents /\ handlings' = handlings
  BY DEF ids, sents, handlings, Id, Sent
<1>5. Promise!Forget(n)
  BY Forgotten DEF Promise!Forget, inboxes
<1>6. Promise!Listen(n)
  BY <1>2, <1>3, <1>4, <1>5 DEF Promise!Listen, Promise!Roles, Roles,
     ids, listenings, sents, handlings
<1> QED BY <1>6 DEF TransferStep, Promise!Next

LEMMA TransfersSend ==
  ASSUME NEW d \in Datagrams, Addressed(d), air' = air \union {d},
         UNCHANGED <<addr, sub, running, queued, batch>>
  PROVE  TransferStep
<1>1. sents' = sents \union {Sent(d)}
  BY DEF sents, Sent
<1>2. ids' = ids /\ listenings' = listenings /\ handlings' = handlings /\ inboxes' = inboxes
  BY TakenInStays DEF ids, handlings, Id, Handling
<1>3. Sent(d) \in sents' /\ Sent(d) \in Promise!Transfers
  BY <1>1, SentType
<1>4. Promise!Send
  BY <1>1, <1>2, <1>3 DEF Promise!Send, ids, listenings, sents, handlings, inboxes
<1> QED BY <1>4 DEF TransferStep, Promise!Next

\* What was meant for a node as it is.
LEMMA MeantIs ==
  ASSUME NEW n \in Nodes, NEW d \in air, NEW s \in SubsOf(n),
         sub[s].ds.role = d.ds.role, sub[s].ds.subject_id = d.ds.subject_id
  PROVE  /\ Sent(d) \in sents /\ <<d.ds.role, d.ds.subject_id>> \in listenings[n]
         /\ (d.ds.role # "message" => d.ds.node_id = NodeId(addr[n])) => Sent(d) \in Promise!Meant(n)
<1>1. PICK t : t = Sent(d)
  OBVIOUS
<1>2. t.role = d.ds.role /\ t.subject = d.ds.subject_id /\ t.target = d.ds.node_id
  BY <1>1 DEF Sent
<1>3. t \in sents /\ <<d.ds.role, d.ds.subject_id>> \in listenings[n]
  BY <1>1 DEF sents, listenings, Listening
<1>4. ids[n] = NodeId(addr[n])
  BY DEF ids, Id
<1>5. (t.role # "message" => t.target = ids[n]) => t \in Promise!Meant(n)
  BY <1>2, <1>3 DEF Promise!Meant, sents, listenings, ids
<1> QED BY <1>1, <1>2, <1>3, <1>4, <1>5

\* Sockets take in what was meant for their node.
LEMMA TransfersTakeIn ==
  ASSUME NodeInv, NEW n \in Nodes, NEW T \in SUBSET air, UNCHANGED <<addr, sub, air, running>>,
         \A d \in T : \E s \in SubsOf(n) : sub[s].bound = d.to,
         TakenIn(n)' = TakenIn(n) \union T,
         \A m \in Nodes : m # n => TakenIn(m)' = TakenIn(m)
  PROVE  TransferStep
<1>1. PICK M : M = {Sent(d) : d \in T}
  OBVIOUS
<1>2. ASSUME NEW d \in T PROVE Sent(d) \in Promise!Meant(n)
  <2>1. PICK s \in SubsOf(n) : sub[s].bound = d.to
    OBVIOUS
  <2> QED BY <2>1, MeantHere, MeantIs
<1>3. M \in SUBSET Promise!Meant(n)
  BY <1>1, <1>2
<1>4. inboxes' = [inboxes EXCEPT ![n] = @ \union M]
  BY <1>1 DEF inboxes
<1>5. ids' = ids /\ listenings' = listenings /\ sents' = sents /\ handlings' = handlings
  BY DEF ids, listenings, sents, handlings, Id, Listening, Handling, Sent, SubsOf, Used
<1>6. Promise!TakeIn(n)
  BY <1>3, <1>4, <1>5 DEF Promise!TakeIn, ids, listenings, sents, handlings, inboxes
<1> QED BY <1>6 DEF TransferStep, Promise!Next

LEMMA TransfersHandle ==
  ASSUME NodeInv, NEW n \in Nodes, NEW s \in SubsOf(n), NEW d \in air,
         running[n] = Idle, Passes(n, s, d, d.to), Starts(n, s, d, d.to), UNCHANGED <<addr, sub, air>>,
         d \in TakenIn(n) \/ sub[s].bound = d.to,
         Forgets(n)
  PROVE  TransferStep
<1>1. PICK tm : tm = Read(n, d, d.to)
  OBVIOUS
<1>2. /\ tm = [role |-> d.ds.role, node_id |-> NodeId(d.from), subject_id |-> d.ds.subject_id]
      /\ sub[s].ds.role = d.ds.role /\ sub[s].ds.subject_id = d.ds.subject_id
  BY <1>1, StartTrue DEF SubsOf
<1>3. running'[n].tm = tm /\ running'[n] # Idle /\ \A m \in Nodes : m # n => running'[m] = running[m]
  <2>1. PICK r : r = [slot |-> s, tm |-> tm, datagram |-> d, gone |-> FALSE, moved |-> FALSE]
    OBVIOUS
  <2>2. r.tm = tm /\ "slot" \in DOMAIN r /\ "slot" \notin DOMAIN Idle
    BY <2>1 DEF Idle
  <2>3. running'[n] = r /\ \A m \in Nodes : m # n => running'[m] = running[m]
    BY <1>1, <2>1 DEF Starts, NodeInv, Shape
  <2> QED BY <2>2, <2>3
<1>4. handlings' = [handlings EXCEPT ![n] = tm] /\ handlings[n] = [handling |-> FALSE]
  BY <1>3 DEF handlings, Handling
<1>5. ids' = ids /\ listenings' = listenings /\ sents' = sents
  BY DEF ids, listenings, sents, Id, Listening, Sent, SubsOf, Used
<1>6. PICK t : t = Sent(d)
  OBVIOUS
<1>7. /\ t.role = d.ds.role /\ t.subject = d.ds.subject_id
      /\ tm = [role |-> t.role, node_id |-> t.source, subject_id |-> t.subject]
  BY <1>2, <1>6 DEF Sent
<1>8. <<t.role, t.subject>> \in listenings[n]
  BY <1>2, <1>7, MeantIs
<1>9. t \in inboxes[n] \union Promise!Meant(n)
  <2>1. CASE d \in TakenIn(n)
    BY <1>6, <2>1 DEF inboxes
  <2>2. CASE sub[s].bound = d.to
    BY <1>2, <1>6, <2>2, MeantHere, MeantIs
  <2> QED BY <2>1, <2>2
<1>10. Promise!Forget(n)
  BY Forgotten DEF Promise!Forget, inboxes
<1>11. handlings' = [handlings EXCEPT ![n] = Promise!Given(t)]
  BY <1>4, <1>7 DEF Promise!Given
<1>12. Promise!Handle(n)
  BY <1>4, <1>5, <1>8, <1>9, <1>10, <1>11 DEF Promise!Handle, Promise!NotHandling,
     ids, listenings, sents, handlings, inboxes
<1> QED BY <1>12 DEF TransferStep, Promise!Next

\* What an event loop does is to take in, to handle and to drop.
LEMMA TransfersDatagramReceived ==
  ASSUME NodeInv, NEW n \in Nodes, NEW s \in SubsOf(n), NEW d \in air, DatagramReceived(n, s, d)
  PROVE  TransferStep
<1>1. /\ sub[s].bound = d.to /\ running[n] = Idle
      /\ Passes(n, s, d, d.to) /\ Starts(n, s, d, d.to)
      /\ UNCHANGED <<addr, sub, air, queued, batch>>
  BY DEF DatagramReceived, Quiet
<1>2. Forgets(n)
  BY <1>1 DEF Forgets, TakenIn, SubsOf, Used
<1> QED BY <1>1, <1>2, TransfersHandle

LEMMA TransfersComplete ==
  ASSUME NodeInv, NEW n \in Nodes, NEW s \in SubsOf(n), NEW d \in air, Complete(n, s, d)
  PROVE  TransferStep
<1>1. /\ sub[s].bound = d.to /\ queued[s] = NoDatagram /\ queued' = [queued EXCEPT ![s] = d]
      /\ UNCHANGED <<addr, sub, air, batch, running>>
  BY DEF Complete
<1>2. s \in Slots /\ d # NoDatagram
  BY Distinct DEF NodeInv, Shape, SubsOf
<1>3. queued'[s] = d /\ \A t \in Slots : t # s => queued'[t] = queued[t]
  BY <1>1, <1>2 DEF NodeInv, Shape
<1>4. \A m \in Nodes : SubsOf(m)' = SubsOf(m)
  BY <1>1 DEF SubsOf, Used
<1>5. TakenIn(n)' = TakenIn(n) \union {d}
  BY <1>1, <1>2, <1>3, <1>4 DEF TakenIn, SubsOf
<1>6. ASSUME NEW m \in Nodes, m # n PROVE TakenIn(m)' = TakenIn(m)
  <2>1. \A t \in SubsOf(m) : queued'[t] = queued[t]
    BY <1>3, <1>6 DEF SubsOf
  <2> QED BY <1>1, <1>4, <2>1 DEF TakenIn
<1>7. PICK T \in SUBSET air : T = {d}
  OBVIOUS
<1> QED BY <1>1, <1>5, <1>6, <1>7, TransfersTakeIn

LEMMA TransfersHandleReceiveFrom ==
  ASSUME NodeInv, NodeInv', NEW n \in Nodes, NEW s \in SubsOf(n), HandleReceiveFrom(n, s)
  PROVE  TransferStep
<1>1. /\ queued[s] # NoDatagram /\ running[n] = Idle
      /\ queued' = [queued EXCEPT ![s] = NoDatagram]
      /\ UNCHANGED <<addr, sub, air, batch>>
  BY DEF HandleReceiveFrom, Quiet
<1>2. PICK d \in air : d = queued[s] /\ sub[s].bound = d.to
  BY <1>1 DEF NodeInv, QueuedTrue, SubsOf
<1>3. Forgets(n)
  <2>1. \A t \in Slots : queued'[t] = IF t = s THEN NoDatagram ELSE queued[t]
    BY <1>1 DEF NodeInv, Shape
  <2>2. \A m \in Nodes : SubsOf(m)' = SubsOf(m) /\ (m # n => s \notin SubsOf(m))
    BY <1>1 DEF SubsOf, Used
  <2>3. ASSUME NEW m \in Nodes, m # n PROVE TakenIn(m)' = TakenIn(m)
    <3>1. \A t \in SubsOf(m) : queued'[t] = queued[t]
      BY <2>1, <2>2, <2>3 DEF SubsOf
    <3> QED BY <1>1, <2>2, <3>1 DEF TakenIn
  <2>4. TakenIn(n)' \subseteq TakenIn(n)
    BY <1>1, <2>1, <2>2 DEF TakenIn, SubsOf
  <2> QED BY <2>3, <2>4 DEF Forgets
<1>4. CASE Passes(n, s, d, d.to) /\ Starts(n, s, d, d.to)
  BY <1>1, <1>2, <1>3, <1>4, TransfersHandle
<1>5. CASE running' = running
  <2>1. \A m \in Nodes : Handling(m)' = Handling(m) /\ Listening(m)' = Listening(m)
    BY <1>1, <1>5 DEF Handling, Listening, SubsOf, Used
  <2> QED BY <1>1, <1>3, <2>1, TransfersListen
<1> QED BY <1>2, <1>4, <1>5 DEF HandleReceiveFrom

LEMMA TransfersReadyRead ==
  ASSUME NodeInv, NEW n \in Nodes, NEW s \in SubsOf(n), ReadyRead(n, s)
  PROVE  TransferStep
<1>1. PICK T \in SUBSET air : T = {d \in air : d.to = sub[s].bound}
  OBVIOUS
<1>2. PICK b : b = [slot |-> s, at |-> sub[s].bound, moved |-> FALSE, taken |-> T]
  OBVIOUS
<1>3. /\ batch[n] = NoBatch /\ batch' = [batch EXCEPT ![n] = b]
      /\ UNCHANGED <<addr, sub, air, queued, running>>
  BY <1>1, <1>2 DEF ReadyRead, Quiet
<1>4. b.taken = T /\ b # NoBatch
  <2>1. "slot" \in DOMAIN b /\ "slot" \notin DOMAIN NoBatch
    BY <1>2 DEF NoBatch
  <2> QED BY <1>2, <2>1
<1>5. batch'[n] = b /\ \A m \in Nodes : m # n => batch'[m] = batch[m]
  BY <1>3 DEF NodeInv, Shape
<1>6. \A m \in Nodes : SubsOf(m)' = SubsOf(m)
  BY <1>3 DEF SubsOf, Used
<1>7. TakenIn(n)' = TakenIn(n) \union T
  BY <1>3, <1>4, <1>5, <1>6 DEF TakenIn
<1>8. \A m \in Nodes : m # n => TakenIn(m)' = TakenIn(m)
  BY <1>3, <1>5, <1>6 DEF TakenIn
<1> QED BY <1>1, <1>3, <1>7, <1>8, TransfersTakeIn

LEMMA TransfersHandleNext ==
  ASSUME NodeInv, NEW n \in Nodes, NEW d \in air, HandleNext(n, d)
  PROVE  TransferStep
<1>1. /\ running[n] = Idle /\ batch[n] # NoBatch /\ d \in batch[n].taken
      /\ Passes(n, batch[n].slot, d, batch[n].at) /\ Starts(n, batch[n].slot, d, batch[n].at)
      /\ UNCHANGED <<addr, sub, air, queued, batch>>
  BY DEF HandleNext
<1>2. PICK s \in SubsOf(n) : s = batch[n].slot
  BY <1>1 DEF NodeInv, BatchTrue
<1>3. d.to = batch[n].at
  BY <1>1 DEF NodeInv, BatchTrue
<1>4. d \in TakenIn(n) /\ Forgets(n)
  BY <1>1 DEF Forgets, TakenIn, SubsOf, Used
<1> QED BY <1>1, <1>2, <1>3, <1>4, TransfersHandle

LEMMA TransfersReadyReadEnds ==
  ASSUME NodeInv, NodeInv', NEW n \in Nodes, ReadyReadEnds(n)
  PROVE  TransferStep
<1>1. /\ batch[n] # NoBatch /\ batch' = [batch EXCEPT ![n] = NoBatch]
      /\ UNCHANGED <<addr, sub, air, queued, running>>
  BY DEF ReadyReadEnds
<1>2. batch'[n] = NoBatch /\ \A m \in Nodes : m # n => batch'[m] = batch[m]
  BY <1>1 DEF NodeInv, Shape
<1>3. \A m \in Nodes : SubsOf(m)' = SubsOf(m)
  BY <1>1 DEF SubsOf, Used
<1>4. Forgets(n)
  BY <1>1, <1>2, <1>3 DEF Forgets, TakenIn
<1>5. \A m \in Nodes : Handling(m)' = Handling(m) /\ Listening(m)' = Listening(m)
  BY <1>1 DEF Handling, Listening, SubsOf, Used
<1> QED BY <1>1, <1>4, <1>5, TransfersListen

LEMMA TransfersReturn ==
  ASSUME NodeInv, NEW n \in Nodes, Return(n) \/ ReturnResponse(n)
  PROVE  TransferStep
<1>1. /\ running[n] # Idle /\ running[n] \in Running /\ running' = [running EXCEPT ![n] = Idle]
      /\ UNCHANGED <<addr, sub, queued, batch>>
  BY SubsFields DEF NodeInv, Return, ReturnResponse
<1>2. running'[n] = Idle /\ \A m \in Nodes : m # n => running'[m] = running[m]
  BY <1>1 DEF NodeInv, Shape
<1>3. handlings' = [handlings EXCEPT ![n] = [handling |-> FALSE]]
  BY <1>2 DEF handlings, Handling
<1>4. handlings[n] = running[n].tm /\ handlings[n] # [handling |-> FALSE]
  <2>1. handlings[n] = running[n].tm /\ running[n].tm \in Specifiers
    BY <1>1 DEF handlings, Handling, Running, NodeSpecifiers
  <2>2. "role" \in DOMAIN running[n].tm /\ "role" \notin DOMAIN [handling |-> FALSE]
    BY <2>1 DEF Specifiers
  <2> QED BY <2>1, <2>2
<1>5. ids' = ids /\ listenings' = listenings /\ inboxes' = inboxes
  BY <1>1, TakenInStays DEF ids, Id
<1>6. CASE Return(n)
  <2>1. sents' = sents
    BY <1>6 DEF Return, sents, Sent
  <2>2. Promise!Return(n)
    BY <1>3, <1>4, <1>5, <2>1 DEF Promise!Return, Promise!NotHandling,
       ids, listenings, sents, handlings, inboxes
  <2> QED BY <2>2 DEF TransferStep, Promise!Next
<1>7. CASE ReturnResponse(n)
  <2>1. PICK d : d = Datagram(n, addr[n], Response(n))
    OBVIOUS
  <2>2. addr[n] \in NodeAddrs
    BY DEF NodeInv, Shape
  <2>3. d.ds = Response(n) /\ d.from = addr[n]
    BY <1>7, <2>1, <2>2, ResponseProper, DatagramProper
  <2>4. air' = air \union {d} /\ running[n].tm.role = "request"
    BY <1>7, <2>1, ResponseProper DEF ReturnResponse, Emit
  <2>5. sents' = sents \union {Sent(d)}
    BY <2>4 DEF sents, Sent
  <2>6. Sent(d) = [role |-> "response", source |-> ids[n], target |-> handlings[n].node_id,
                   subject |-> handlings[n].subject_id]
    BY <1>4, <2>3 DEF Sent, Response, ids, Id
  <2>7. Promise!Return(n)
    BY <1>3, <1>4, <1>5, <2>4, <2>5, <2>6 DEF Promise!Return, Promise!NotHandling,
       ids, listenings, sents, handlings, inboxes
  <2> QED BY <2>7 DEF TransferStep, Promise!Next
<1> QED BY <1>6, <1>7

LEMMA TransfersMove ==
  ASSUME NodeInv, NEW n \in Nodes, NEW a \in NodeAddrs, SetAddress(n, a)
  PROVE  TransferStep
<1>1. /\ addr' = [addr EXCEPT ![n] = a]
      /\ sub' = [s \in Slots |-> IF s \in SubsOf(n) THEN Reconnected(s, a) ELSE sub[s]]
      /\ running' = IF running[n] # Idle THEN [running EXCEPT ![n].moved = TRUE] ELSE running
      /\ batch' = IF batch[n] # NoBatch THEN [batch EXCEPT ![n].moved = TRUE] ELSE batch
      /\ queued' = [s \in Slots |-> IF s \in SubsOf(n) THEN NoDatagram ELSE queued[s]]
      /\ UNCHANGED air
  BY DEF SetAddress
<1>2. ids' = [ids EXCEPT ![n] = NodeId(a)] /\ sents' = sents
  BY <1>1 DEF ids, sents, Id, Sent, NodeInv, Shape
<1>3. \A s \in Slots : /\ Used(s)' <=> Used(s)
                       /\ Used(s) => /\ sub'[s].owner = sub[s].owner
                                     /\ sub'[s].ds.role = sub[s].ds.role
                                     /\ sub'[s].ds.subject_id = sub[s].ds.subject_id
  <2> SUFFICES ASSUME NEW s \in SubsOf(n)
               PROVE  /\ sub'[s] # Free /\ sub'[s].owner = sub[s].owner
                      /\ sub'[s].ds.role = sub[s].ds.role
                      /\ sub'[s].ds.subject_id = sub[s].ds.subject_id
    BY <1>1 DEF SubsOf, Used
  <2>1. s \in Slots /\ sub[s] \in Subscribed
    BY SubsFields DEF NodeInv
  <2>2. PICK ds \in NodeSpecifiers : ds = sub[s].ds
    BY <2>1 DEF Subscribed
  <2>3. PICK rs \in NodeSpecifiers : /\ rs = Renamed(s, a) /\ rs.role = ds.role
                                     /\ rs.subject_id = ds.subject_id /\ rs.node_id = NodeId(a)
    BY <2>2, RenamedFields DEF Renamed
  <2>4. PICK o : o = Reconnected(s, a)
    OBVIOUS
  <2>5. o.owner = sub[s].owner /\ o.ds = rs /\ "owner" \in DOMAIN o /\ "owner" \notin DOMAIN Free
    BY <2>3, <2>4 DEF Reconnected, Free
  <2> QED BY <1>1, <2>1, <2>2, <2>3, <2>4, <2>5
<1>4. listenings' = listenings
  <2>1. \A m \in Nodes : SubsOf(m)' = SubsOf(m)
    BY <1>3 DEF SubsOf
  <2>2. \A m \in Nodes : Listening(m)' = Listening(m)
    BY <1>3, <2>1 DEF Listening, SubsOf
  <2> QED BY <2>2 DEF listenings
<1>5. handlings' = handlings
  <2>1. \A m \in Nodes : Handling(m)' = Handling(m)
    <3> SUFFICES ASSUME NEW m \in Nodes PROVE Handling(m)' = Handling(m)
      OBVIOUS
    <3>1. CASE m = n /\ running[n] # Idle
      <4>1. running[n] \in Running
        BY <3>1, SubsFields DEF NodeInv
      <4>2. PICK r : r = [running[n] EXCEPT !.moved = TRUE]
        OBVIOUS
      <4>3. r.tm = running[n].tm /\ "slot" \in DOMAIN r /\ "slot" \notin DOMAIN Idle
        BY <4>1, <4>2 DEF Running, Idle
      <4>4. running'[n] = r
        BY <1>1, <3>1, <4>2 DEF NodeInv, Shape
      <4> QED BY <3>1, <4>3, <4>4 DEF Handling
    <3>2. CASE ~(m = n /\ running[n] # Idle)
      BY <1>1, <3>2 DEF NodeInv, Shape, Handling
    <3> QED BY <3>1, <3>2
  <2> QED BY <2>1 DEF handlings
<1>6. Forgets(n)
  <2>1. \A m \in Nodes : SubsOf(m)' = SubsOf(m)
    BY <1>3 DEF SubsOf
  <2>2. \A s \in Slots : queued'[s] = IF s \in SubsOf(n) THEN NoDatagram ELSE queued[s]
    BY <1>1
  <2>3. ASSUME NEW m \in Nodes, m # n PROVE TakenIn(m)' = TakenIn(m)
    <3>1. batch'[m] = batch[m]
      BY <1>1, <2>3 DEF NodeInv, Shape
    <3>2. \A s \in SubsOf(m) : queued'[s] = queued[s]
      BY <2>2, <2>3 DEF SubsOf
    <3> QED BY <2>1, <3>1, <3>2 DEF TakenIn
  <2>4. TakenIn(n)' \subseteq TakenIn(n)
    <3>1. \A s \in SubsOf(n) : queued'[s] = NoDatagram
      BY <2>2 DEF SubsOf
    <3>2. CASE batch[n] = NoBatch
      BY <1>1, <2>1, <3>1, <3>2 DEF TakenIn
    <3>3. CASE batch[n] # NoBatch
      <4>1. batch[n] \in Batches /\ batch'[n] = [batch[n] EXCEPT !.moved = TRUE]
        BY <1>1, <3>3 DEF NodeInv, Shape
      <4>2. batch'[n].taken = batch[n].taken
        BY <4>1 DEF Batches
      <4> QED BY <2>1, <3>1, <3>3, <4>2 DEF TakenIn
    <3> QED BY <3>2, <3>3
  <2> QED BY <2>3, <2>4 DEF Forgets
<1>7. Promise!Forget(n)
  BY <1>6, Forgotten DEF Promise!Forget, inboxes
<1>8. NodeId(a) \in Ids
  BY DEF Ids
<1>9. Promise!Move(n)
  BY <1>2, <1>4, <1>5, <1>7, <1>8 DEF Promise!Move, ids, Ids, listenings, sents, handlings, inboxes
<1> QED BY <1>9 DEF TransferStep, Promise!Next

LEMMA TransfersUnsubscribe ==
  ASSUME NodeInv, NodeInv', NEW h \in Handles, Unsubscribe(h)
  PROVE  TransferStep
<1>1. handle[h] \in Pointers
  BY SubsFields DEF NodeInv, Unsubscribe
<1>2. PICK n \in Nodes, s \in Slots : n = handle[h].node /\ s = handle[h].slot
  BY <1>1 DEF Pointers
<1>3. /\ s \in SubsOf(n) /\ sub' = [sub EXCEPT ![s] = Free]
      /\ running' = IF IsRunning(n, s) THEN [running EXCEPT ![n].gone = TRUE] ELSE running
      /\ queued' = [queued EXCEPT ![s] = NoDatagram]
      /\ UNCHANGED <<addr, air, batch>>
  BY <1>2 DEF Unsubscribe, Removed
<1>4. ASSUME NEW m \in Nodes, m # n PROVE Listening(m)' = Listening(m)
  <2>1. SubsOf(m)' = SubsOf(m) /\ \A t \in SubsOf(m) : sub'[t] = sub[t]
    BY <1>3, <1>4 DEF SubsOf, Used, NodeInv, Shape
  <2> QED BY <2>1 DEF Listening
<1>5. ASSUME NEW m \in Nodes PROVE Handling(m)' = Handling(m)
  <2>1. CASE m = n /\ IsRunning(n, s)
    <3>1. running[n] # Idle /\ running[n] \in Running
      BY <2>1, SubsFields DEF NodeInv, IsRunning
    <3>2. PICK r : r = [running[n] EXCEPT !.gone = TRUE]
      OBVIOUS
    <3>3. r.tm = running[n].tm /\ "slot" \in DOMAIN r /\ "slot" \notin DOMAIN Idle
      BY <3>1, <3>2 DEF Running, Idle
    <3>4. running'[n] = r
      BY <1>3, <2>1, <3>2 DEF NodeInv, Shape
    <3> QED BY <2>1, <3>1, <3>3, <3>4 DEF Handling
  <2>2. CASE ~(m = n /\ IsRunning(n, s))
    BY <1>3, <2>2 DEF NodeInv, Shape, Handling
  <2> QED BY <2>1, <2>2
<1>6. Forgets(n)
  <2>1. \A t \in Slots : /\ sub'[t] = IF t = s THEN Free ELSE sub[t]
                         /\ queued'[t] = IF t = s THEN NoDatagram ELSE queued[t]
    BY <1>3 DEF NodeInv, Shape
  <2>2. SubsOf(n)' \subseteq SubsOf(n)
    BY <2>1 DEF SubsOf, Used
  <2>3. ASSUME NEW m \in Nodes, m # n PROVE TakenIn(m)' = TakenIn(m)
    <3>1. SubsOf(m)' = SubsOf(m) /\ \A t \in SubsOf(m) : queued'[t] = queued[t]
      BY <1>3, <2>1, <2>3 DEF SubsOf, Used
    <3> QED BY <1>3, <3>1 DEF TakenIn
  <2>4. TakenIn(n)' \subseteq TakenIn(n)
    <3>1. \A t \in SubsOf(n)' : queued'[t] \in {queued[t], NoDatagram}
      BY <2>1 DEF SubsOf
    <3> QED BY <1>3, <2>2, <3>1 DEF TakenIn
  <2> QED BY <2>3, <2>4 DEF Forgets
<1> QED BY <1>3, <1>4, <1>5, <1>6, TransfersListen

LEMMA TransfersSubscribe ==
  ASSUME NodeInv, NodeInv', NEW n \in Nodes, NEW h \in Handles, NEW s \in Slots, NEW ds, NEW caller,
         Subscribe(n, h, s, ds, caller)
  PROVE  TransferStep
<1>1. PICK o : o = Subscription(n, ds)
  OBVIOUS
<1>2. o.owner = n
  BY <1>1 DEF Subscription
<1>3. sub[s] = Free /\ sub' = [sub EXCEPT ![s] = o]
      /\ UNCHANGED <<addr, air, running, queued, batch>>
  BY <1>1 DEF Subscribe, loop
<1>4. ASSUME NEW m \in Nodes, m # n PROVE Listening(m)' = Listening(m)
  <2>1. SubsOf(m)' = SubsOf(m) /\ \A t \in SubsOf(m) : sub'[t] = sub[t]
    BY <1>2, <1>3, <1>4 DEF SubsOf, Used, NodeInv, Shape
  <2> QED BY <2>1 DEF Listening
<1>5. Forgets(n)
  <2>1. queued[s] = NoDatagram
    BY <1>3 DEF NodeInv, QueuedTrue, Used
  <2>2. \A m \in Nodes : \A t \in Slots : t # s => (t \in SubsOf(m)' <=> t \in SubsOf(m))
    BY <1>3 DEF SubsOf, Used, NodeInv, Shape
  <2>3. \A m \in Nodes : TakenIn(m)' = TakenIn(m)
    <3> SUFFICES ASSUME NEW m \in Nodes
                 PROVE  {t \in SubsOf(m)' : queued[t] # NoDatagram} = {t \in SubsOf(m) : queued[t] # NoDatagram}
      BY <1>3 DEF TakenIn
    <3> QED BY <2>1, <2>2 DEF SubsOf
  <2> QED BY <2>3 DEF Forgets
<1> QED BY <1>3, <1>4, <1>5, TransfersListen DEF Handling

LEMMA TransfersInit == Init => Promise!Init
<1> SUFFICES ASSUME Init PROVE Promise!Init
  OBVIOUS
<1>1. /\ addr \in [Nodes -> NodeAddrs] /\ sub = [s \in Slots |-> Free] /\ air = {}
      /\ running = [n \in Nodes |-> Idle]
      /\ queued = [s \in Slots |-> NoDatagram] /\ batch = [n \in Nodes |-> NoBatch]
  BY DEF Init
<1>2. ids \in [Nodes -> Ids]
  BY <1>1 DEF ids, Ids, Id
<1>3. sents = {} /\ handlings = [n \in Nodes |-> [handling |-> FALSE]]
  BY <1>1 DEF sents, handlings, Handling
<1>4. listenings = [n \in Nodes |-> {}] /\ inboxes = [n \in Nodes |-> {}]
  BY <1>1 DEF listenings, inboxes, Listening, TakenIn, SubsOf, Used
<1> QED BY <1>2, <1>3, <1>4 DEF Promise!Init, Promise!NotHandling, ids, sents, handlings,
           listenings, inboxes, Ids

LEMMA TransfersNext == NodeInv /\ NodeInv' /\ [Next]_vars => TransferStep
<1> SUFFICES ASSUME NodeInv, NodeInv', [Next]_vars PROVE TransferStep
  OBVIOUS
<1>1. CASE UNCHANGED vars
  BY <1>1, TransfersStutter DEF vars, loop
<1>2. ASSUME ~broken, NEW n \in Nodes, NEW h \in Handles, NEW s \in Slots, NEW i \in Subjects,
             \/ SubscribeMessage(n, h, s, i) \/ SubscribeServiceRequest(n, h, s, i)
             \/ SubscribeRawServiceRequest(n, h, s, i) \/ PrepareServiceCalls(n, h, s, i)
      PROVE  TransferStep
  BY <1>2, SubscriptionsKeep, TransfersSubscribe
<1>3. ASSUME NEW n \in Nodes, NEW i \in Subjects, SendMessage(n, i) PROVE TransferStep
  <2>1. UNCHANGED <<addr, sub, running, queued, batch>>
    BY <1>3 DEF SendMessage, loop
  <2> QED BY <1>3, <2>1, MessageProper, TransfersSend
<1>4. ASSUME NEW h \in Handles, NEW a \in NodeAddrs, Request(h, NodeId(a)) PROVE TransferStep
  <2>1. UNCHANGED <<addr, sub, running, queued, batch>>
    BY <1>4 DEF Request, loop
  <2> QED BY <1>4, <2>1, RequestProper, TransfersSend
<1>5. ASSUME NEW n \in Nodes, ReturnDangling(n) PROVE TransferStep
  BY <1>5, TransfersStutter DEF ReturnDangling, loop
<1>6. ASSUME NEW h \in Handles, UnsubscribeStale(h) PROVE TransferStep
  BY <1>6, TransfersStutter DEF UnsubscribeStale, loop
<1>7. ASSUME NEW h \in Handles, NEW g \in Handles, CopyHandle(h, g) PROVE TransferStep
  BY <1>7, TransfersStutter DEF CopyHandle, loop
<1>8. ASSUME NEW n \in Nodes, CallOrphan(n) PROVE TransferStep
  BY <1>8, TransfersStutter DEF CallOrphan, loop
<1> QED BY <1>1, <1>2, <1>3, <1>4, <1>5, <1>6, <1>7, <1>8, NodeSteps, TransfersMove,
           TransfersDatagramReceived, TransfersComplete, TransfersHandleReceiveFrom,
           TransfersReadyRead, TransfersHandleNext, TransfersReadyReadEnds, TransfersReturn,
           TransfersUnsubscribe

\* Nodes with their addresses, sockets, subscription objects and handles implement
\* Transfers: a handler runs only for what was sent, for what its node listens to and
\* was meant for the id it had when its socket took it in, and is told what was sent and
\* by whom.
THEOREM NodesImplementTransfers == Spec => ImplementsTransfers
<1>1. NodeInv /\ NodeInv' /\ [Next]_vars => [Promise!Next]_(Promise!vars)
  BY TransfersNext DEF TransferStep
<1> QED BY <1>1, TransfersInit, NodeInvariant, PTL DEF Spec, ImplementsTransfers, Promise!Spec
=============================================================================
