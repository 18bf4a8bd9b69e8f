--------------------------- MODULE MCNodesHealth ---------------------------
(* NodesHealth on two nodes. *)
EXTENDS NodesHealth
=============================================================================
