------------------------------ MODULE Registry ------------------------------
(***************************************************************************)
(* Registry (cyphalppregistry.hpp): the storage, its two services on a     *)
(* node, and the NodeResetters that end them.  Nodes and resetters are     *)
(* variables of the user's nested scopes, left in reverse order.           *)
(***************************************************************************)
EXTENDS RegistryStore

CONSTANTS
  Udp,        \* the CyphalUdp objects
  NoNode,
  MaxScopes   \* bound: variables alive at a time

Resetter == "resetter"

ASSUME ServingAssumption ==
  NoNode \notin Udp /\ Resetter \notin Udp \union {NoNode} /\ MaxScopes \in Nat

VARIABLES
  scopes,    \* the nodes and resetters alive, the innermost last
  serving    \* state_->uc_, or NoNode

service == <<scopes, serving>>
vars == <<store, service>>

Alive == {scopes[i] : i \in DOMAIN scopes} \ {Resetter}

-----------------------------------------------------------------------------

Init ==
  /\ InitStore
  /\ scopes = <<>>
  /\ serving = NoNode

EnterNode(u) ==
  /\ u \notin Alive
  /\ Len(scopes) < MaxScopes
  /\ scopes' = Append(scopes, u)
  /\ UNCHANGED <<store, serving>>

\* auto r = registry.setNode(u): the old services end before the new ones begin.
SetNode(u) ==
  /\ u \in Alive
  /\ Len(scopes) < MaxScopes
  /\ scopes' = Append(scopes, Resetter)
  /\ serving' = u
  /\ UNCHANGED store

\* registry.setNode(u); the resetter it returns is destroyed at once.
SetNodeDropped(u) ==
  /\ u \in Alive
  /\ serving' = NoNode
  /\ UNCHANGED <<store, scopes>>

RemoveNode ==
  /\ serving' = NoNode
  /\ UNCHANGED <<store, scopes>>

\* Mutant: a resetter that is destroyed leaves the services.
Kept(variable) == serving

\* ~NodeResetter
Reset(variable) == IF variable = Resetter THEN NoNode ELSE serving

LeaveScope ==
  /\ scopes # <<>>
  /\ scopes' = SubSeq(scopes, 1, Len(scopes) - 1)
  /\ serving' = Reset(scopes[Len(scopes)])
  /\ UNCHANGED store

\* Mutant: a register that is not there may be set as well.
AnyIsMutable(n) == TRUE

\* get answers a response with _mutable for a register that is there, and a
\* default one, without it, for any other.
IsMutable(n) == n \in DOMAIN names

\* uavcan.register.Access with a value, and uavcan.register.List or Access without
\* one, which change nothing.
Access(n, v) ==
  /\ serving # NoNode
  /\ IsMutable(n)
  /\ Change(n, v)
  /\ UNCHANGED <<format, created, service>>

Next ==
  \/ NextStore /\ UNCHANGED service
  \/ \E n \in AllNames, v \in Values : Access(n, v)
  \/ \E u \in Udp : EnterNode(u) \/ SetNode(u) \/ SetNodeDropped(u)
  \/ RemoveNode \/ LeaveScope

Spec == Init /\ [][Next]_vars

-----------------------------------------------------------------------------
(* Properties *)

TypeOK ==
  /\ format \in Formats
  /\ values \in Seq(Registers)
  /\ names \in [DOMAIN names -> DOMAIN values]
  /\ autosave \in BOOLEAN
  /\ phase \in {"stopped", "constructed", "loading", "running"}
  /\ saving \in {NotSaving, "change", "save", "replace"}
  /\ file.regs \in Seq(Registers) /\ file.count \in Nat
  /\ phase = "loading" => reader.pos \in 0 .. reader.expected /\ reader.regs \in Seq(Registers)
  /\ unsaved \subseteq AllNames /\ created \subseteq Names /\ damaged \in BOOLEAN
  /\ serving \in Udp \union {NoNode}
  /\ scopes \in Seq(Udp \union {Resetter})

\* What List names under an index is what Access reads under that name, and no name
\* is listed twice, whatever was loaded, also from a damaged file
\* (stdstorage_impl.hpp:53-119).
ListAndAccessAgree ==
  /\ DOMAIN names = {values[i].name : i \in DOMAIN values}
  /\ \A i \in DOMAIN values : names[values[i].name] = i

\* As long as a storage lives, the names keep their indexes: a remote node that
\* walks the list neither misses a register nor sees one twice
\* (stdstorage_impl.hpp:53-61, 94-110).
IndexesAreStable ==
  [][phase' \in {"loading", "running"} =>
       \A i \in DOMAIN values : i \in DOMAIN values' /\ values'[i].name = values[i].name]_vars

\* Whatever is loaded, saved and asked for by remote nodes, there is no register that
\* the application did not create, but for what a load makes of a binary file whose
\* write was cut short (cyphalppregistry.hpp:136-142, binaryregistry_impl.hpp:15-33).
OnlyCreatedNames ==
  DOMAIN names \subseteq created \union (IF damaged /\ format = "binary" THEN {Garbage} ELSE {})

\* A file that was written to its end holds every value, except those changed
\* while autosave was off and those of a save that could not open the file
\* (stdstorage_impl.hpp:81-119).
WritesReachTheFile ==
  phase = "running" /\ saving = NotSaving /\ ~IsTorn(file) =>
    \A i \in DOMAIN values : values[i].name \notin unsaved =>
      \E j \in DOMAIN file.regs : file.regs[j] = values[i]

\* "load should load values from persistent store" (cyphalppregistry.hpp:119): when
\* it is done, memory holds what the file held when it was opened.
LoadRestores ==
  [][phase = "loading" /\ phase' = "running" /\ ~IsTorn(reader.original) =>
       MapOf(values') = MapOf(reader.original.regs)]_vars

Promise == INSTANCE DurableMap WITH
  Damaged <- NoValue,
  up   <- phase = "running",
  mem  <- IF phase = "running" THEN MapOf(values) ELSE EmptyMap,
  disk <- IF IsTorn(file) THEN NoValue ELSE MapOf(file.regs)

\* The storage is a durable map: loading register by register, saving, replacing the
\* storage and the end of the process at any moment come to what DurableMap says
\* (binaryregistry_impl.hpp:15-49, boostjsonregistry_impl.hpp:318-365).
ImplementsDurableMap == Promise!Spec

\* The node whose services a Registry holds has not been destroyed before it lets go
\* of them, as long as what setNode returns is kept in a scope of the node's, or
\* not at all (cyphalppregistry.hpp:150-153, 172-186).
ServedNodeIsAlive == serving # NoNode => serving \in Alive
=============================================================================
