----------------------------- MODULE Addressing -----------------------------
(***************************************************************************)
(* How a transfer is mapped to an IPv4 address and a UDP port, and back    *)
(* (include/cyphalpp.hpp:62-171).  An address is a record of the bit       *)
(* fields of its 32-bit value: 9 bits of prefix, 7 of subnet, and the low  *)
(* 16 bits, which are the node id of a unicast address.  Only 13 of them   *)
(* are ever written by the constructors.                                   *)
(***************************************************************************)
EXTENDS Integers

U16        == 0 .. 65535
Addresses  == [prefix : 0 .. 511, subnet : 0 .. 127, low : U16]
Roles      == {"message", "request", "response"}
Specifiers == [role : Roles, node_id : U16, subject_id : U16]

MulticastPrefix == 478                               \* 0b111011110
MULTICAST_PORT  == 16383
UNICAST_BASE_PORT == MULTICAST_PORT + 1

-----------------------------------------------------------------------------
(* MessageAddr *)

\* Mutant: the id is written with all its 16 bits.
MessageAddrUnmasked(prefix_9bits, subnet_id, subject_id) ==
  [prefix |-> prefix_9bits % 512, subnet |-> subnet_id % 128, low |-> subject_id]

\* The constructor from fields, which masks every field to its width.
MessageAddr(prefix_9bits, subnet_id, subject_id) ==
  [prefix |-> prefix_9bits % 512, subnet |-> subnet_id % 128, low |-> subject_id % 8192]

SubjectId(a) == a.low % 8192
NodeId(a)    == a.low
IsValidMessage(a) == a.prefix = MulticastPrefix

-----------------------------------------------------------------------------
(* NetworkAddress::from_data_specifier *)

\* Mutants: requests and responses of one service share a port; of neighbours.
OnePortPerService(ds) == (UNICAST_BASE_PORT + ds.subject_id * 2) % 65536
PortsOverlap(ds) ==
  (UNICAST_BASE_PORT + ds.subject_id + (IF ds.role = "request" THEN 0 ELSE 1)) % 65536

\* static_cast<uint16_t>: the port of a service, requests even, responses odd.
ServicePort(ds) ==
  (UNICAST_BASE_PORT + ds.subject_id * 2 + (IF ds.role = "request" THEN 0 ELSE 1)) % 65536

FromDataSpecifier(current, ds) ==
  IF ds.role = "message"
  THEN [addr |-> MessageAddr(MulticastPrefix, current.subnet, ds.subject_id),
        port |-> MULTICAST_PORT]
  ELSE [addr |-> MessageAddr(current.prefix, current.subnet, ds.node_id),
        port |-> ServicePort(ds)]

-----------------------------------------------------------------------------
(* DataSpecifier::from_packet: a specifier, or the name of an error *)

FromPacket(current, source, dest) ==
  IF ~(source.addr.subnet = current.subnet /\ dest.addr.subnet = current.subnet)
  THEN [error |-> "WrongSubnet"]
  ELSE IF IsValidMessage(dest.addr)
  THEN IF dest.port = MULTICAST_PORT
       THEN [role |-> "message", node_id |-> NodeId(source.addr),
             subject_id |-> SubjectId(dest.addr)]
       ELSE [error |-> "WrongPort"]
  ELSE IF dest.port >= UNICAST_BASE_PORT
       THEN [role |-> IF dest.port % 2 = 0 THEN "request" ELSE "response",
             node_id |-> NodeId(source.addr),
             subject_id |-> (dest.port - UNICAST_BASE_PORT) \div 2]
       ELSE [error |-> "PortTooSmall"]

-----------------------------------------------------------------------------
(* What the widths can carry *)

\* A subject travels in 13 bits of a multicast address, a service in a port.
CarriesSubject(ds) ==
  IF ds.role = "message" THEN ds.subject_id < 8192 ELSE ds.subject_id < 24576
CarriesNode(id) == id < 8192

\* The address of a node, as opposed to a multicast group.
IsNodeAddress(a) == ~IsValidMessage(a)
=============================================================================
