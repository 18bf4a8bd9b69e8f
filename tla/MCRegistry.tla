----------------------------- MODULE MCRegistry -----------------------------
(* Registry on two names and values. *)
EXTENDS Registry, TLC

Symmetric == Permutations(Values) \union Permutations(Udp)
=============================================================================
