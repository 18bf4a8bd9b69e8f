--------------------------- MODULE MCServiceCalls ---------------------------
(* Two callers of one service on one node, one of each kind. *)
EXTENDS ServiceCalls

CONSTANTS shared, mapped

MCCallers == {shared, mapped}
MCMapped  == {mapped}
=============================================================================
