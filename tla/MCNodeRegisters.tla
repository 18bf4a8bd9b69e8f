-------------------------- MODULE MCNodeRegisters --------------------------
(* NodeRegisters on two registers and two values. *)
EXTENDS NodeRegisters, TLC

Symmetric == Permutations(Values)
=============================================================================
