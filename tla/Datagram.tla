------------------------------ MODULE Datagram ------------------------------
(***************************************************************************)
(* One datagram on its way: a node addresses a transfer, and whoever       *)
(* listens where it arrives reads from the two addresses what it is.       *)
(***************************************************************************)
EXTENDS Addressing

CONSTANTS
  SomeNodes,     \* the addresses of the nodes of this instance
  SomeSubjects,  \* subject and service ids of this instance
  SomeNodeIds    \* node ids requests and responses are sent to

ASSUME DatagramAssumption ==
  /\ SomeNodes \subseteq {a \in Addresses : IsNodeAddress(a)}
  /\ SomeSubjects \subseteq U16
  /\ SomeNodeIds \subseteq U16

VARIABLES
  sender,   \* the sending node's address, or NoNode
  meant,    \* the specifier of the transfer it sent
  dest,     \* where FromDataSpecifier sent it
  receiver, \* the address of the node that got it, or NoNode
  heard,    \* the specifier of the subscription that got it
  read      \* what FromPacket read

datagramVars == <<sender, meant, dest, receiver, heard, read>>

NoNode == [prefix |-> MulticastPrefix, subnet |-> 0, low |-> 0]
Nothing == [role |-> "message", node_id |-> 0, subject_id |-> 0]
SomeSpecifiers == [role : Roles, node_id : SomeNodeIds, subject_id : SomeSubjects]

DatagramInit ==
  /\ sender = NoNode /\ receiver = NoNode
  /\ meant = Nothing /\ heard = Nothing /\ read = Nothing
  /\ dest = FromDataSpecifier(NoNode, Nothing)

Send(a, ds) ==
  /\ sender = NoNode
  /\ sender' = a
  /\ meant' = ds
  /\ dest' = FromDataSpecifier(a, ds)
  /\ UNCHANGED <<receiver, heard, read>>

\* A socket of node a, opened for the specifier ds, is bound where the datagram
\* goes; FromPacket reads it before the subscription compares role and subject.
Arrive(a, ds) ==
  /\ sender # NoNode /\ receiver = NoNode
  /\ FromDataSpecifier(a, ds) = dest
  /\ receiver' = a
  /\ heard' = ds
  /\ read' = FromPacket(a, [addr |-> sender, port |-> 0], dest)
  /\ UNCHANGED <<sender, meant, dest>>

DatagramNext ==
  \/ \E a \in SomeNodes, ds \in SomeSpecifiers : Send(a, ds)
  \/ \E a \in SomeNodes, ds \in SomeSpecifiers : Arrive(a, ds)

DatagramSpec == DatagramInit /\ [][DatagramNext]_datagramVars

-----------------------------------------------------------------------------
(* Properties *)

Arrived == receiver # NoNode

\* A transfer whose ids fit is read as what it was sent as, by the node it was
\* sent to, and only a socket opened for its role and subject can get it: two
\* subjects never share a group, two services never a port (cyphalpp.hpp:135-171).
ReadAsMeant ==
  Arrived /\ CarriesSubject(meant) =>
    /\ read = [role |-> meant.role, node_id |-> NodeId(sender), subject_id |-> meant.subject_id]
    /\ heard.role = meant.role
    /\ CarriesSubject(heard) => heard.subject_id = meant.subject_id
    /\ meant.role # "message" /\ CarriesNode(meant.node_id) /\ CarriesNode(heard.node_id)
         => heard.node_id = meant.node_id

\* A transfer whose ids do not fit is never read as one that was meant for another
\* role, and what it is mistaken for differs from it by a multiple of the width
\* that lost the bits (the masks of cyphalpp.hpp:64-74, the cast of line 141).
MistakenOnlyByWidth ==
  Arrived /\ "error" \notin DOMAIN read =>
    /\ read.role = meant.role
    /\ (read.subject_id - meant.subject_id) % (IF meant.role = "message" THEN 8192 ELSE 32768) = 0
=============================================================================
