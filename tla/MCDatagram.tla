----------------------------- MODULE MCDatagram -----------------------------
(* Two subnets and node ids and subjects at the edges of 13 and 16 bits. *)
EXTENDS Datagram

Unicast(subnet, id) == [prefix |-> 20, subnet |-> subnet, low |-> id]

MCNodes    == {Unicast(3, 1), Unicast(3, 8191), Unicast(4, 1), Unicast(3, 8193)}
MCNodeIds  == {0, 1, 8191, 8192, 8193}
MCSubjects == {0, 1, 8191, 8192, 24575, 24576, 32767, 32768, 65535}
=============================================================================
