------------------------- MODULE MCRegistryRouter --------------------------
(* RegistryRouter with two storages, one of which is called "a" and the other *)
(* "ab", a router "c" beside them, and names that fit neither or both.          *)
EXTENDS RegistryRouter, TLC

CONSTANTS s1, s2, root, sub

MCNameOf == (s1 :> "a") @@ (s2 :> "ab") @@ (root :> "root") @@ (sub :> "c")
MCParts  == {"a", "ab", "c", "root", "x"}
MCBegins == {<<p, p>> : p \in MCParts} \union {<<"ab", "a">>}
MCRank   == [a |-> 0, ab |-> 1, c |-> 2, root |-> 3, x |-> 4]
MCKeys   == {<<"ab", "x">>, <<"x">>}

Symmetric == Permutations(Acquirers) \union Permutations(Nodes)
=============================================================================
