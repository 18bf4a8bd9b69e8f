--------------------------- MODULE RegistryRouter ---------------------------
(***************************************************************************)
(* The registers of v2_0 as the network sees them: a server that an        *)
(* acquirer ties to a node, a router behind it, and storages or one more   *)
(* level of routers behind that (qt/Registry/Network).  Handlers come and  *)
(* go, programs and remote nodes make registers, and a remote node walks   *)
(* the list by index at the same time.                                     *)
(*                                                                         *)
(* A name is the sequence of the parts between its dots.  Names of         *)
(* handlers have no dot; one may begin like another.                       *)
(***************************************************************************)
EXTENDS Integers, Sequences, FiniteSetsExt

CONSTANTS
  Storages, Routers, Root,  \* the handlers there may be, and the outermost router
  Acquirers, Nodes, None,
  NameOf,                   \* name() of every handler
  Parts, Begins,            \* <<p, q>> is in Begins when the text of p begins with q's
  Rank,                     \* the order of std::map<QString, ...>
  Keys,                     \* names of registers as storages know them
  MaxKeys                   \* no storage has more registers

Handlers == Storages \union Routers
Nested   == Routers \ {Root}

ASSUME RouterAssumption ==
  /\ Root \in Routers /\ Storages \intersect Routers = {}
  /\ NameOf \in [Handlers -> Parts]
  /\ Begins \subseteq Parts \X Parts
  /\ \A p \in Parts : <<p, p>> \in Begins
  /\ \A p, q, s \in Parts : <<s, p>> \in Begins /\ <<s, q>> \in Begins =>
       <<p, q>> \in Begins \/ <<q, p>> \in Begins
  /\ Rank \in [Parts -> Nat] /\ \A p, q \in Parts : Rank[p] = Rank[q] => p = q
  /\ Keys \subseteq Seq(Parts) \ {<<>>}
  /\ None \notin Nodes /\ MaxKeys \in Nat

VARIABLES
  store,      \* the names of every storage's registers, in order
  handlers,   \* m_handlers of every router
  served,     \* the server's m_state: the node its services are subscribed on
  acquirers,  \* the node every living RegistryNodeAcquirer was made with
  walking, index, \* a remote node asks for the names one after the other
  unseen,     \* history: what was listed when the walk began and has not come yet
  disturbed   \* history: a handler was taken away or replaced since

tree == <<store, handlers>>
walk == <<walking, index, unseen, disturbed>>
vars == <<tree, served, acquirers, walk>>

Init ==
  /\ store = [s \in Storages |-> <<>>]
  /\ handlers = [r \in Routers |-> {}]
  /\ served = None
  /\ acquirers = [a \in Acquirers |-> None]
  /\ walking = FALSE /\ index = 0 /\ unseen = {} /\ disturbed = FALSE

KeysOf(s) == {store[s][j] : j \in DOMAIN store[s]}

-----------------------------------------------------------------------------
(* access *)

Matching(r, part) == {h \in handlers[r] : <<part, NameOf[h]>> \in Begins}

\* The map is in the order of the names.
FirstOf(H) == CHOOSE h \in H : \A g \in H : Rank[NameOf[h]] <= Rank[NameOf[g]]

\* Mutant: the handler's name is taken away, too.
InnerName(n) == Tail(Tail(n))

HandlerName(n) == Tail(n)

\* RegistryRouter::access: the handler that is asked, and for which name.
Route(r, n) ==
  IF Len(n) > 1 /\ Head(n) = NameOf[r] /\ Matching(r, n[2]) # {}
  THEN {<<FirstOf(Matching(r, n[2])), HandlerName(n)>>}
  ELSE {}

\* One router is passed.
Pass(X) == UNION {IF x[1] \in Storages THEN {x} ELSE Route(x[1], x[2]) : x \in X}

\* The storage that is asked in the end, and for which name.
Reached(n) == {x \in Pass(Route(Root, n)) : x[1] \in Storages}

-----------------------------------------------------------------------------
(* list *)

\* Mutant: only what is a storage has registers.
StoragesCount(h) == IF h \in Storages THEN Len(store[h]) ELSE 0

\* registersCount
Count(h) ==
  IF h \in Storages THEN Len(store[h])
  ELSE MapThenSumSet(LAMBDA s : Len(store[s]), handlers[h])

Before(r, h) == {g \in handlers[r] : Rank[NameOf[g]] < Rank[NameOf[h]]}

\* Mutant: the index goes down by one for a handler.
HandlersBefore(r, h) == Cardinality(Before(r, h))

\* What is taken off the index until h is reached.
Offset(r, h) == MapThenSumSet(Count, Before(r, h))

\* The handler that knows the name with index i, and its own index for it.
Position(r, i) ==
  {x \in {<<h, i - Offset(r, h)>> : h \in handlers[r]} : x[2] \in 0 .. Count(x[1]) - 1}

\* A name in the list, with the storage and the key it comes from.
Entry(s, k, n) == [storage |-> s, key |-> k, name |-> n]
Under(r, e)    == [e EXCEPT !.name = <<NameOf[r]>> \o @]

ListStorage(s, i) == IF i < Len(store[s]) THEN {Entry(s, store[s][i + 1], store[s][i + 1])} ELSE {}

\* RegistryRouter::list, of a router that has no router below it.
ListNested(h, i) ==
  IF h \in Storages THEN ListStorage(h, i)
  ELSE {Under(h, e) : e \in UNION {ListStorage(x[1], x[2]) : x \in Position(h, i)}}

\* The same of the outermost router.
ListAt(i) == {Under(Root, e) : e \in UNION {ListNested(x[1], x[2]) : x \in Position(Root, i)}}

RootCount == MapThenSumSet(Count, handlers[Root])
Listed    == UNION {ListAt(i) : i \in 0 .. RootCount - 1}
NamesIn(E) == {e.name : e \in E}

-----------------------------------------------------------------------------
(* Actions *)

\* A storage is given a value for a name it may not know.
Write(s, k) ==
  /\ k \in KeysOf(s) \/ Len(store[s]) < MaxKeys
  /\ store' = IF k \in KeysOf(s) THEN store ELSE [store EXCEPT ![s] = Append(@, k)]
  /\ UNCHANGED <<handlers, served, acquirers, walk>>

\* The program's own Register handles do not go through the router.
LocalWrite(s, k) == Write(s, k)

\* Access with a value, from a remote node.
RemoteWrite(n) ==
  /\ served # None
  /\ \E x \in Reached(n) : Write(x[1], x[2])

Replaced(r, name) == {h \in handlers[r] : NameOf[h] = name}

\* Programs nest routers one level deep.
ResetHandler(r, h) ==
  /\ IF r = Root THEN h # Root ELSE h \in Storages
  /\ handlers' = [handlers EXCEPT ![r] = (@ \ Replaced(r, NameOf[h])) \union {h}]
  /\ disturbed' = (disturbed \/ (walking /\ Replaced(r, NameOf[h]) \ {h} # {}))
  /\ UNCHANGED <<store, served, acquirers, walking, index, unseen>>

RemoveHandler(r, path) ==
  /\ handlers' = [handlers EXCEPT ![r] = @ \ Replaced(r, path)]
  /\ disturbed' = (disturbed \/ (walking /\ Replaced(r, path) # {}))
  /\ UNCHANGED <<store, served, acquirers, walking, index, unseen>>

\* RegistryNodeAcquirer's constructor: setNode ends what was served before.
Acquire(a, n) ==
  /\ acquirers[a] = None
  /\ acquirers' = [acquirers EXCEPT ![a] = n]
  /\ served' = n
  /\ UNCHANGED <<tree, walk>>

\* Mutant: the node is left as it is.
NodeKept == served

\* removeNode
NodeRemoved == None

\* The destructor, which does not ask whose node it is that is served.
Release(a) ==
  /\ acquirers[a] # None
  /\ acquirers' = [acquirers EXCEPT ![a] = None]
  /\ served' = NodeRemoved
  /\ UNCHANGED <<tree, walk>>

StartWalk ==
  /\ served # None /\ ~walking
  /\ walking' = TRUE /\ index' = 0 /\ disturbed' = FALSE
  /\ unseen' = NamesIn(Listed)
  /\ UNCHANGED <<tree, served, acquirers>>

\* The next name, or the empty one that ends the walk.
WalkOn ==
  /\ served # None /\ walking
  /\ IF ListAt(index) # {}
     THEN /\ index' = index + 1
          /\ unseen' = unseen \ NamesIn(ListAt(index))
          /\ UNCHANGED walking
     ELSE /\ walking' = FALSE /\ index' = 0 /\ unseen' = {}
  /\ UNCHANGED <<tree, served, acquirers, disturbed>>

Next ==
  \/ \E s \in Storages, k \in Keys : LocalWrite(s, k)
  \/ \E k \in Keys, r \in Nested :
       RemoteWrite(<<NameOf[Root]>> \o k) \/ RemoteWrite(<<NameOf[Root], NameOf[r]>> \o k)
  \/ \E r \in Routers : \/ \E h \in Handlers : ResetHandler(r, h)
                        \/ \E p \in Parts : RemoveHandler(r, p)
  \/ \E a \in Acquirers : Release(a) \/ \E n \in Nodes : Acquire(a, n)
  \/ StartWalk \/ WalkOn

Spec == Init /\ [][Next]_vars

-----------------------------------------------------------------------------
(* Properties *)

\* No handler of r has a name that begins like another's.
PrefixFree(r) ==
  \A h, g \in handlers[r] : <<NameOf[h], NameOf[g]>> \in Begins => h = g

\* Where a name is listed, access finds the same register under it: as long as no two
\* handlers begin alike and the register's own name begins with its storage's, which
\* nothing in the program's own writes makes sure of (RegistryRouter.cpp:14-42).
ListedIsReached ==
  (\A r \in Routers : PrefixFree(r)) =>
    \A i \in 0 .. RootCount - 1 : \A e \in ListAt(i) :
      <<e.key[1], NameOf[e.storage]>> \in Begins => Reached(e.name) = {<<e.storage, e.key>>}

\* What access finds under a name is in the list, whatever the handlers are called
\* (RegistryRouter.cpp:20-27, 30-49).
ReachedIsListed ==
  \A k \in Keys, r \in Nested :
    \A n \in {<<NameOf[Root]>> \o k, <<NameOf[Root], NameOf[r]>> \o k} :
      \A x \in Reached(n) : x[2] \in KeysOf(x[1]) =>
        \E e \in Listed : e.storage = x[1] /\ e.key = x[2]

\* A walk that ends has come by every name that was listed when it began, unless a
\* handler was taken away or replaced: registers that are made meanwhile, and handlers
\* that are added, only make names come twice (RegistryRouter.cpp:31-39).
WalkMissesNothing ==
  [][walking /\ ~walking' /\ ~disturbed => unseen = {}]_vars

\* No service outlives the acquirers of its node, however they overlap: an acquirer
\* that goes may end another's service, never leave its own behind
\* (RegistryNodeAcquirer.cpp:4-10).
ServedHasAcquirer ==
  served # None => \E a \in Acquirers : acquirers[a] = served
=============================================================================
