----------------------------- MODULE DurableMap -----------------------------
(***************************************************************************)
(* What a register storage promises: a map in memory and one on disk.      *)
(* Starting restores what is on disk; a write that is cut short is the only*)
(* thing that can damage it; nothing is ever removed from memory.          *)
(***************************************************************************)
CONSTANTS AllNames, Values, Damaged

VARIABLES mem, disk, up

vars == <<mem, disk, up>>

Maps == UNION {[S -> Values] : S \in SUBSET AllNames}
Nothing == [n \in {} |-> Damaged]

Init == mem = Nothing /\ disk = Nothing /\ ~up

Start ==
  /\ ~up /\ up'
  /\ mem' \in Maps
  /\ disk # Damaged => mem' = disk
  /\ disk' = disk

Put(n, v) ==
  /\ up
  /\ mem' = [x \in DOMAIN mem \union {n} |-> IF x = n THEN v ELSE mem[x]]
  /\ UNCHANGED <<disk, up>>

\* A write of the whole map, after which the store may be closed.
Write ==
  /\ up
  /\ disk' \in {mem, disk, Damaged}
  /\ UNCHANGED <<mem, up>> \/ (~up' /\ mem' = Nothing)

Stop == up /\ ~up' /\ mem' = Nothing /\ disk' = disk

Next == Start \/ Write \/ Stop \/ \E n \in AllNames, v \in Values : Put(n, v)

Spec == Init /\ [][Next]_vars
=============================================================================
