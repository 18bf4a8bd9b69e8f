------------------------ MODULE RegistryRouterProofs -----------------------
(***************************************************************************)
(* For any handlers, names and order of names: what a router lists is what *)
(* it reaches, where names do not begin alike; what it reaches is listed;  *)
(* a remote walk over the list misses nothing while handlers only come;    *)
(* and no service is left without an acquirer.                             *)
(*                                                                         *)
(* The sums that registersCount and list compute are folds over sets.      *)
(* What they amount to is proved by induction on the number of things,     *)
(* with the well-foundedness of the natural numbers.                       *)
(***************************************************************************)
EXTENDS RegistryRouter, FiniteSetTheorems, WellFoundedInduction, TLAPS

Names == Seq(Parts) \ {<<>>}

\* Programs nest routers one level deep, and every register has a name.
Tree ==
  /\ store \in [Storages -> Seq(Names)]
  /\ handlers \in [Routers -> SUBSET Handlers]
  /\ Root \notin handlers[Root]
  /\ \A r \in Nested : handlers[r] \subseteq Storages

-----------------------------------------------------------------------------
(* Sequences of parts *)

LEMMA NotEmpty == ASSUME NEW S, NEW q \in Seq(S), Len(q) # 0 PROVE q # <<>>
  OBVIOUS

LEMMA TailIsName == ASSUME NEW n \in Seq(Parts), Len(n) > 1 PROVE Tail(n) \in Names
<1>1. PICK l \in Nat : l = Len(n)
  OBVIOUS
<1>2. Tail(n) \in Seq(Parts)
  OBVIOUS
<1>3. Len(Tail(n)) = l - 1
  BY <1>1
<1>4. l - 1 # 0
  BY <1>1
<1>5. Len(Tail(n)) # 0
  BY <1>3, <1>4, Zenon
<1>6. Tail(n) # <<>>
  BY <1>2, <1>5, NotEmpty
<1> QED BY <1>2, <1>6 DEF Names

LEMMA PrefixedName ==
  ASSUME NEW p \in Parts, NEW k \in Names
  PROVE  /\ <<p>> \o k \in Names /\ Len(<<p>> \o k) > 1
         /\ Head(<<p>> \o k) = p /\ (<<p>> \o k)[2] = k[1]
         /\ Tail(<<p>> \o k) = k
<1> DEFINE n == <<p>> \o k
<1>1. k \in Seq(Parts) /\ Len(k) \in Nat /\ Len(k) # 0
  BY DEF Names
<1>2. /\ n \in Seq(Parts) /\ Len(n) = Len(k) + 1 /\ n[1] = p
      /\ \A j \in 1 .. Len(k) : n[j + 1] = k[j]
  BY <1>1
<1>3. n[2] = k[1]
  BY <1>1, <1>2
<1> HIDE DEF n
<1>4. /\ Head(n) = n[1] /\ Len(Tail(n)) = Len(k) /\ Tail(n) \in Seq(Parts)
      /\ \A j \in 1 .. Len(k) : Tail(n)[j] = n[j + 1]
  BY <1>1, <1>2
<1>5. Tail(n) = k
  BY <1>1, <1>2, <1>4
<1>6. n # <<>>
  BY <1>1, <1>2
<1> QED BY <1>1, <1>2, <1>3, <1>4, <1>5, <1>6 DEF n, Names

-----------------------------------------------------------------------------
(* One step of the way *)

\* Among handlers that do not begin alike the one whose name a part begins with is the
\* only one it begins with.
LEMMA OneMatches ==
  ASSUME Tree, NEW r \in Routers, PrefixFree(r), NEW h \in handlers[r], NEW p \in Parts,
         <<p, NameOf[h]>> \in Begins
  PROVE  Matching(r, p) = {h} /\ FirstOf(Matching(r, p)) = h
<1>1. handlers[r] \subseteq Handlers /\ \A g \in handlers[r] : NameOf[g] \in Parts
  BY RouterAssumption DEF Tree
<1>2. ASSUME NEW g \in Matching(r, p) PROVE g = h
  <2>1. g \in handlers[r] /\ <<p, NameOf[g]>> \in Begins
    BY <1>2 DEF Matching
  <2>2. <<NameOf[h], NameOf[g]>> \in Begins \/ <<NameOf[g], NameOf[h]>> \in Begins
    BY <1>1, <2>1, RouterAssumption
  <2> QED BY <2>1, <2>2 DEF PrefixFree
<1>3. Matching(r, p) = {h}
  BY <1>2 DEF Matching
<1>4. Rank[NameOf[h]] <= Rank[NameOf[h]]
  BY <1>1, RouterAssumption
<1>5. FirstOf({h}) = h
  BY <1>4 DEF FirstOf
<1> QED BY <1>3, <1>5

\* A router passes on what is asked of one of its handlers.
LEMMA RouteTo ==
  ASSUME Tree, NEW r \in Routers, PrefixFree(r), NEW h \in handlers[r], NEW k \in Names,
         <<k[1], NameOf[h]>> \in Begins
  PROVE  Route(r, <<NameOf[r]>> \o k) = {<<h, k>>}
<1> DEFINE n == <<NameOf[r]>> \o k
<1>1. NameOf[r] \in Parts /\ k[1] \in Parts
  <2>1. k \in Seq(Parts) /\ Len(k) \in Nat /\ Len(k) # 0
    BY DEF Names
  <2>2. 1 \in 1 .. Len(k)
    BY <2>1
  <2> QED BY <2>1, <2>2, RouterAssumption DEF Handlers
<1>2. Len(n) > 1 /\ Head(n) = NameOf[r] /\ n[2] = k[1] /\ Tail(n) = k
  BY <1>1, PrefixedName
<1>3. Matching(r, k[1]) = {h} /\ FirstOf(Matching(r, k[1])) = h
  BY <1>1, OneMatches
<1> HIDE DEF n
<1>4. Route(r, n) = {<<FirstOf(Matching(r, n[2])), Tail(n)>>}
  BY <1>2, <1>3 DEF Route, HandlerName
<1> QED BY <1>2, <1>3, <1>4 DEF n

-----------------------------------------------------------------------------
(* The list *)

\* A storage lists its keys.
LEMMA StorageLists ==
  ASSUME Tree, NEW s \in Storages, NEW i \in Int, i >= 0, NEW e \in ListStorage(s, i)
  PROVE  /\ e.storage = s /\ e.key \in Names /\ e.name = e.key
         /\ e = [storage |-> s, key |-> e.key, name |-> e.key]
<1>1. store[s] \in Seq(Names)
  BY DEF Tree
<1>2. i < Len(store[s]) /\ e = [storage |-> s, key |-> store[s][i + 1], name |-> store[s][i + 1]]
  BY DEF ListStorage, Entry
<1>3. i + 1 \in 1 .. Len(store[s])
  BY <1>1, <1>2
<1>4. store[s][i + 1] \in Names
  BY <1>1, <1>3
<1> QED BY <1>2, <1>4

\* Where a router finds an index its handler's own is a natural number.
LEMMA PositionIsIndex ==
  ASSUME NEW r, NEW i, NEW x \in Position(r, i)
  PROVE  x = <<x[1], x[2]>> /\ x[1] \in handlers[r] /\ x[2] \in Int /\ x[2] >= 0
<1>1. PICK h \in handlers[r] : x = <<h, i - Offset(r, h)>>
  BY DEF Position
<1>2. x[2] \in 0 .. Count(x[1]) - 1
  BY DEF Position
<1> QED BY <1>1, <1>2

\* What is listed is an entry of a storage of the root's, or of one of a router's of its.
LEMMA ListedComesFrom ==
  ASSUME Tree, NEW i, NEW e \in ListAt(i)
  PROVE  \/ \E s \in handlers[Root] \intersect Storages :
              \E k \in Names :
                e = [storage |-> s, key |-> k, name |-> <<NameOf[Root]>> \o k]
         \/ \E r \in handlers[Root] \intersect Nested : \E s \in handlers[r] :
              \E k \in Names :
                e = [storage |-> s, key |-> k,
                     name |-> <<NameOf[Root]>> \o (<<NameOf[r]>> \o k)]
<1>0. Root \in Routers
  BY RouterAssumption
<1>1. e \in {Under(Root, d) : d \in UNION {ListNested(x[1], x[2]) : x \in Position(Root, i)}}
  BY DEF ListAt
<1>2. PICK x \in Position(Root, i) : \E d \in ListNested(x[1], x[2]) : e = Under(Root, d)
  BY <1>1
<1>3. PICK d \in ListNested(x[1], x[2]) : e = Under(Root, d)
  BY <1>2
<1>4. PICK h, j : h = x[1] /\ j = x[2]
  OBVIOUS
<1>5. h \in handlers[Root] /\ j \in Int /\ j >= 0 /\ d \in ListNested(h, j)
  BY <1>3, <1>4, PositionIsIndex
<1>6. h \in Storages \/ h \in Nested
  BY <1>0, <1>5 DEF Tree, Handlers, Nested
<1>7. CASE h \in Storages
  <2>1. d \in ListStorage(h, j)
    BY <1>5, <1>7 DEF ListNested
  <2>2. d.key \in Names /\ d = [storage |-> h, key |-> d.key, name |-> d.key]
    BY <1>5, <1>7, <2>1, StorageLists
  <2>3. PICK k \in Names : d = [storage |-> h, key |-> k, name |-> k]
    BY <2>2
  <2>4. e = [storage |-> h, key |-> k, name |-> <<NameOf[Root]>> \o k]
    BY <1>3, <2>3 DEF Under
  <2> QED BY <1>5, <1>7, <2>4
<1>8. CASE h \in Nested
  <2>1. h \notin Storages /\ h \in Routers
    BY <1>8, RouterAssumption DEF Nested
  <2>2. d \in {Under(h, c) : c \in UNION {ListStorage(y[1], y[2]) : y \in Position(h, j)}}
    BY <1>5, <2>1 DEF ListNested
  <2>3. PICK y \in Position(h, j) : \E c \in ListStorage(y[1], y[2]) : d = Under(h, c)
    BY <2>2
  <2>4. PICK c \in ListStorage(y[1], y[2]) : d = Under(h, c)
    BY <2>3
  <2>5. PICK s, l : s = y[1] /\ l = y[2]
    OBVIOUS
  <2>6. s \in handlers[h] /\ l \in Int /\ l >= 0 /\ c \in ListStorage(s, l)
    BY <2>4, <2>5, PositionIsIndex
  <2>7. s \in Storages
    BY <1>8, <2>6 DEF Tree
  <2>8. c.key \in Names /\ c = [storage |-> s, key |-> c.key, name |-> c.key]
    BY <2>6, <2>7, StorageLists
  <2>9. PICK k \in Names : c = [storage |-> s, key |-> k, name |-> k]
    BY <2>8
  <2>10. d = [storage |-> s, key |-> k, name |-> <<NameOf[h]>> \o k]
    BY <2>4, <2>9 DEF Under
  <2>11. e = [storage |-> s, key |-> k, name |-> <<NameOf[Root]>> \o (<<NameOf[h]>> \o k)]
    BY <1>3, <2>10 DEF Under
  <2> QED BY <1>5, <1>8, <2>6, <2>11
<1> QED BY <1>6, <1>7, <1>8

\* A storage that is asked is the end of the way.
LEMMA StorageIsPassed ==
  ASSUME NEW s \in Storages, NEW k PROVE Pass({<<s, k>>}) = {<<s, k>>}
  BY DEF Pass

LEMMA RouterPasses ==
  ASSUME NEW r \in Routers, NEW n PROVE Pass({<<r, n>>}) = Route(r, n)
<1>1. r \notin Storages
  BY RouterAssumption
<1> QED BY <1>1 DEF Pass

LEMMA EndOfWay ==
  ASSUME NEW s \in Storages, NEW k, NEW n, Pass(Route(Root, n)) = {<<s, k>>}
  PROVE  Reached(n) = {<<s, k>>}
<1>1. \A x : x \in Reached(n) <=> x = <<s, k>>
  BY DEF Reached
<1> QED BY <1>1

LEMMA TreeReaches == Tree => ListedIsReached
<1> SUFFICES ASSUME Tree, \A r \in Routers : PrefixFree(r), NEW i, NEW e \in ListAt(i),
                    <<e.key[1], NameOf[e.storage]>> \in Begins
             PROVE  Reached(e.name) = {<<e.storage, e.key>>}
  BY DEF ListedIsReached
<1>0. Root \in Routers
  BY RouterAssumption
<1>1. ASSUME NEW s \in handlers[Root] \intersect Storages, NEW k \in Names,
             e = [storage |-> s, key |-> k, name |-> <<NameOf[Root]>> \o k]
      PROVE  Reached(e.name) = {<<e.storage, e.key>>}
  <2>1. e.name = <<NameOf[Root]>> \o k /\ e.storage = s /\ e.key = k
    BY <1>1
  <2>2. Route(Root, <<NameOf[Root]>> \o k) = {<<s, k>>}
    BY <1>0, <2>1, RouteTo
  <2>3. Pass({<<s, k>>}) = {<<s, k>>}
    BY StorageIsPassed
  <2>4. Pass(Route(Root, e.name)) = {<<s, k>>}
    BY <2>1, <2>2, <2>3
  <2> QED BY <2>1, <2>4, EndOfWay
<1>2. ASSUME NEW r \in handlers[Root] \intersect Nested, NEW s \in handlers[r], NEW k \in Names,
             e = [storage |-> s, key |-> k, name |-> <<NameOf[Root]>> \o (<<NameOf[r]>> \o k)]
      PROVE  Reached(e.name) = {<<e.storage, e.key>>}
  <2> DEFINE inner == <<NameOf[r]>> \o k
  <2>1. e.name = <<NameOf[Root]>> \o inner /\ e.storage = s /\ e.key = k
    BY <1>2
  <2>2. r \in Routers /\ NameOf[r] \in Parts /\ s \in Storages
    BY RouterAssumption DEF Tree, Nested, Handlers
  <2>3. Route(r, inner) = {<<s, k>>}
    BY <2>1, <2>2, RouteTo
  <2>4. inner \in Names /\ Len(inner) > 1 /\ Head(inner) = NameOf[r]
    BY <2>2, PrefixedName
  <2>5. inner[1] = NameOf[r]
    BY <2>2 DEF Names
  <2>6. <<inner[1], NameOf[r]>> \in Begins
    BY <2>2, <2>5, RouterAssumption
  <2> HIDE DEF inner
  <2>7. Route(Root, <<NameOf[Root]>> \o inner) = {<<r, inner>>}
    BY <1>0, <2>4, <2>6, RouteTo
  <2>8. Pass({<<r, inner>>}) = Route(r, inner)
    BY <2>2, RouterPasses
  <2>9. Pass(Route(Root, e.name)) = {<<s, k>>}
    BY <2>1, <2>3, <2>7, <2>8
  <2> QED BY <2>1, <2>2, <2>9, EndOfWay
<1>3. CASE \E s \in handlers[Root] \intersect Storages : \E k \in Names :
             e = [storage |-> s, key |-> k, name |-> <<NameOf[Root]>> \o k]
  BY <1>1, <1>3
<1>4. CASE \E r \in handlers[Root] \intersect Nested : \E s \in handlers[r] : \E k \in Names :
             e = [storage |-> s, key |-> k,
                  name |-> <<NameOf[Root]>> \o (<<NameOf[r]>> \o k)]
  BY <1>2, <1>4
<1> QED BY <1>3, <1>4, ListedComesFrom

-----------------------------------------------------------------------------
(* The tree keeps its shape *)

\* What is passed on has a name.
LEMMA RoutedName ==
  ASSUME NEW r, NEW n \in Seq(Parts), NEW x \in Route(r, n) PROVE x[2] \in Names
<1>1. x = <<FirstOf(Matching(r, n[2])), Tail(n)>> /\ Len(n) > 1
  BY DEF Route, HandlerName
<1>2. x[2] = Tail(n)
  BY <1>1
<1> QED BY <1>1, <1>2, TailIsName

LEMMA ReachedName ==
  ASSUME NEW n \in Seq(Parts), NEW x \in Reached(n)
  PROVE  x[1] \in Storages /\ x[2] \in Names
<1>1. x \in Pass(Route(Root, n)) /\ x[1] \in Storages
  BY DEF Reached
<1>2. PICK y \in Route(Root, n) : x \in IF y[1] \in Storages THEN {y} ELSE Route(y[1], y[2])
  BY <1>1 DEF Pass
<1>3. y[2] \in Names
  BY RoutedName
<1>4. CASE y[1] \in Storages
  BY <1>1, <1>2, <1>3, <1>4
<1>5. CASE y[1] \notin Storages
  <2>1. PICK r, k : r = y[1] /\ k = y[2]
    OBVIOUS
  <2>2. k \in Seq(Parts) /\ x \in Route(r, k)
    BY <1>2, <1>3, <1>5, <2>1 DEF Names
  <2> QED BY <1>1, <2>2, RoutedName
<1> QED BY <1>4, <1>5

LEMMA WriteKeepsTree ==
  ASSUME Tree, NEW s \in Storages, NEW k \in Names, Write(s, k) PROVE Tree'
<1>1. store[s] \in Seq(Names)
  BY DEF Tree
<1>2. Append(store[s], k) \in Seq(Names)
  BY <1>1
<1>3. store' = store \/ store' = [store EXCEPT ![s] = Append(store[s], k)]
  BY DEF Write
<1>4. store' \in [Storages -> Seq(Names)]
  BY <1>2, <1>3 DEF Tree
<1> QED BY <1>4 DEF Tree, Write

LEMMA RemoteWriteKeepsTree ==
  ASSUME Tree, NEW n \in Seq(Parts), RemoteWrite(n) PROVE Tree'
<1>1. PICK x \in Reached(n) : Write(x[1], x[2])
  BY DEF RemoteWrite
<1>2. PICK s, k : s = x[1] /\ k = x[2]
  OBVIOUS
<1>3. s \in Storages /\ k \in Names
  BY <1>2, ReachedName
<1>4. Write(s, k)
  BY <1>1, <1>2
<1> QED BY <1>3, <1>4, WriteKeepsTree

LEMMA ResetKeepsTree ==
  ASSUME Tree, NEW r \in Routers, NEW h \in Handlers, ResetHandler(r, h) PROVE Tree'
<1>1. handlers' = [handlers EXCEPT ![r] = (handlers[r] \ Replaced(r, NameOf[h])) \union {h}]
      /\ store' = store
  BY DEF ResetHandler
<1>2. IF r = Root THEN h # Root ELSE h \in Storages
  BY DEF ResetHandler
<1> DEFINE kept == handlers[r] \ Replaced(r, NameOf[h])
<1>3. kept \subseteq handlers[r]
  OBVIOUS
<1> HIDE DEF kept
<1>4. handlers' = [handlers EXCEPT ![r] = kept \union {h}]
  BY <1>1 DEF kept
<1>5. kept \union {h} \in SUBSET Handlers
  BY <1>3 DEF Tree
<1>6. handlers' \in [Routers -> SUBSET Handlers]
  BY <1>4, <1>5 DEF Tree
<1>7. Root \notin handlers'[Root]
  BY <1>2, <1>3, <1>4, RouterAssumption DEF Tree
<1>8. ASSUME NEW q \in Nested PROVE handlers'[q] \subseteq Storages
  BY <1>2, <1>3, <1>4 DEF Tree, Nested
<1> QED BY <1>1, <1>6, <1>7, <1>8 DEF Tree

LEMMA RemoveKeepsTree ==
  ASSUME Tree, NEW r \in Routers, NEW p, RemoveHandler(r, p) PROVE Tree'
<1> DEFINE kept == handlers[r] \ Replaced(r, p)
<1>1. kept \subseteq handlers[r]
  OBVIOUS
<1>2. handlers' = [handlers EXCEPT ![r] = kept] /\ store' = store
  BY DEF RemoveHandler
<1> HIDE DEF kept
<1>3. handlers' \in [Routers -> SUBSET Handlers] /\ Root \notin handlers'[Root]
  BY <1>1, <1>2, RouterAssumption DEF Tree
<1>4. ASSUME NEW q \in Nested PROVE handlers'[q] \subseteq Storages
  BY <1>1, <1>2 DEF Tree, Nested
<1> QED BY <1>2, <1>3, <1>4 DEF Tree

LEMMA TreeInit == Init => Tree
<1> SUFFICES ASSUME Init PROVE Tree
  OBVIOUS
<1>1. <<>> \in Seq(Names)
  OBVIOUS
<1> QED BY <1>1, RouterAssumption DEF Init, Tree, Nested

LEMMA TreeNext == Tree /\ [Next]_vars => Tree'
<1> SUFFICES ASSUME Tree, [Next]_vars PROVE Tree'
  OBVIOUS
<1>0. Root \in Routers /\ \A h \in Handlers : NameOf[h] \in Parts
  BY RouterAssumption
<1>1. ASSUME NEW s \in Storages, NEW k \in Keys, LocalWrite(s, k) PROVE Tree'
  <2>1. k \in Names
    BY RouterAssumption DEF Names
  <2> QED BY <1>1, <2>1, WriteKeepsTree DEF LocalWrite
<1>2. ASSUME NEW k \in Keys, NEW r \in Nested,
             RemoteWrite(<<NameOf[Root]>> \o k) \/ RemoteWrite(<<NameOf[Root], NameOf[r]>> \o k)
      PROVE  Tree'
  <2>1. k \in Seq(Parts) /\ NameOf[Root] \in Parts /\ NameOf[r] \in Parts
    BY <1>0, RouterAssumption DEF Nested, Handlers
  <2>2. <<NameOf[Root]>> \o k \in Seq(Parts)
    BY <2>1
  <2>3. <<NameOf[Root], NameOf[r]>> \o k \in Seq(Parts)
    BY <2>1
  <2> QED BY <1>2, <2>2, <2>3, RemoteWriteKeepsTree
<1>3. ASSUME NEW r \in Routers, NEW h \in Handlers, ResetHandler(r, h) PROVE Tree'
  BY <1>3, ResetKeepsTree
<1>4. ASSUME NEW r \in Routers, NEW p \in Parts, RemoveHandler(r, p) PROVE Tree'
  BY <1>4, RemoveKeepsTree
<1>5. ASSUME NEW a \in Acquirers, Release(a) \/ \E n \in Nodes : Acquire(a, n) PROVE Tree'
  BY <1>5 DEF Release, Acquire, tree, Tree
<1>6. CASE StartWalk \/ WalkOn \/ UNCHANGED vars
  BY <1>6 DEF StartWalk, WalkOn, vars, tree, Tree
<1> QED BY <1>1, <1>2, <1>3, <1>4, <1>5, <1>6 DEF Next

\* Whatever is registered with routers and written to storages, a listed register is
\* the one access finds under its name, where no two handlers begin alike and the
\* register's name begins with its storage's (RegistryRouter.cpp:14-42).
THEOREM ListedReached == Spec => []ListedIsReached
<1>1. Spec => []Tree
  BY TreeInit, TreeNext, PTL DEF Spec
<1> QED BY <1>1, TreeReaches, PTL

-----------------------------------------------------------------------------
(* Acquirers *)

AInv == acquirers \in [Acquirers -> Nodes \union {None}] /\ ServedHasAcquirer

LEMMA AcquirersNext == AInv /\ [Next]_vars => AInv'
<1> SUFFICES ASSUME AInv, [Next]_vars PROVE AInv'
  OBVIOUS
<1>1. ASSUME NEW a \in Acquirers, NEW n \in Nodes, Acquire(a, n) PROVE AInv'
  BY <1>1 DEF Acquire, AInv, ServedHasAcquirer
<1>2. ASSUME NEW a \in Acquirers, Release(a) PROVE AInv'
  BY <1>2 DEF Release, NodeRemoved, AInv, ServedHasAcquirer
<1>3. CASE UNCHANGED <<served, acquirers>>
  BY <1>3 DEF AInv, ServedHasAcquirer
<1>4. ASSUME NEW s, NEW k, Write(s, k) PROVE UNCHANGED <<served, acquirers>>
  BY <1>4 DEF Write
<1>5. ASSUME NEW n, RemoteWrite(n) PROVE UNCHANGED <<served, acquirers>>
  BY <1>5, <1>4 DEF RemoteWrite
<1>6. ASSUME NEW r, NEW h, ResetHandler(r, h) \/ RemoveHandler(r, h)
      PROVE  UNCHANGED <<served, acquirers>>
  BY <1>6 DEF ResetHandler, RemoveHandler
<1>7. CASE StartWalk \/ WalkOn \/ UNCHANGED vars
  BY <1>3, <1>7 DEF StartWalk, WalkOn, vars
<1> QED BY <1>1, <1>2, <1>3, <1>4, <1>5, <1>6, <1>7 DEF Next, LocalWrite

\* The services of a node never outlive every RegistryNodeAcquirer of it, however
\* acquirers overlap (RegistryNodeAcquirer.cpp:4-10).
THEOREM NoServiceLeft == Spec => []ServedHasAcquirer
<1>1. Init => AInv
  BY DEF Init, AInv, ServedHasAcquirer
<1>2. AInv => ServedHasAcquirer
  BY DEF AInv
<1> QED BY <1>1, <1>2, AcquirersNext, PTL DEF Spec

-----------------------------------------------------------------------------
(* Numbers *)

Less == {ss \in Nat \X Nat : ss[1] < ss[2]}

\* Every set of numbers has a least.
LEMMA LeastOf == ASSUME NEW T, T \subseteq Nat, T # {} PROVE \E m \in T : \A k \in T : m <= k
<1>1. IsWellFoundedOn(Less, Nat)
  BY NatLessThanWellFounded DEF OpToRel, Less
<1>2. PICK m \in T : \A k \in T : ~(<<k, m>> \in Less)
  BY <1>1, WFMin, Zenon
<1>3. \A k \in Nat, l \in Nat : <<k, l>> \in Less <=> k < l
  BY DEF Less
<1>4. ASSUME NEW k \in T PROVE m <= k
  <2>1. m \in Nat /\ k \in Nat
    OBVIOUS
  <2>2. ~(k < m)
    BY <1>2, <1>3, <2>1
  <2> QED BY <2>1, <2>2
<1> QED BY <1>4

\* Induction on numbers, for a set of them.
LEMMA AllNumbers ==
  ASSUME NEW T \in SUBSET Nat, 0 \in T, \A n \in T : n + 1 \in T PROVE T = Nat
<1> DEFINE U == Nat \ T
<1> SUFFICES ASSUME U # {} PROVE FALSE
  OBVIOUS
<1>1. U \subseteq Nat
  OBVIOUS
<1>2. PICK m \in U : \A k \in U : m <= k
  BY <1>1, LeastOf
<1>3. m # 0 /\ m - 1 \in Nat
  BY <1>2
<1>4. m - 1 \in T
  BY <1>2, <1>3
<1> QED BY <1>2, <1>3, <1>4

\* The least of the numbers that some things have.
LEMMA LeastIs ==
  ASSUME NEW S, NEW f, \A x \in S : f[x] \in Nat, S # {}
  PROVE  \E m \in S : \A x \in S : f[m] <= f[x]
<1> DEFINE T == {f[x] : x \in S}
<1>1. T \subseteq Nat /\ T # {}
  OBVIOUS
<1> HIDE DEF T
<1>2. PICK n \in T : \A k \in T : n <= k
  BY <1>1, LeastOf
<1> QED BY <1>2 DEF T

\* Of finitely many numbers one is the greatest.
LEMMA GreatestIs ==
  ASSUME NEW S, IsFiniteSet(S), NEW f, \A x \in S : f[x] \in Nat, S # {}
  PROVE  \E m \in S : \A x \in S : f[x] <= f[m]
<1> DEFINE T == {n \in Nat : \A U \in SUBSET S : U # {} /\ Cardinality(U) <= n =>
                   \E m \in U : \A x \in U : f[x] <= f[m]}
<1>1. 0 \in T
  BY FS_Subset, FS_EmptySet, FS_CardinalityType
<1>2. ASSUME NEW n \in T PROVE n + 1 \in T
  <2> SUFFICES ASSUME NEW U \in SUBSET S, U # {}, Cardinality(U) <= n + 1
               PROVE  \E m \in U : \A x \in U : f[x] <= f[m]
    OBVIOUS
  <2>1. IsFiniteSet(U) /\ Cardinality(U) \in Nat
    BY FS_Subset, FS_CardinalityType
  <2>2. PICK u \in U : TRUE
    OBVIOUS
  <2>3. Cardinality(U \ {u}) = Cardinality(U) - 1 /\ n \in Nat
    BY <2>1, FS_RemoveElement
  <2>4. CASE U \ {u} = {}
    BY <2>2, <2>4
  <2>5. CASE U \ {u} # {}
    <3> DEFINE V == U \ {u}
    <3>1. V \in SUBSET S /\ V # {} /\ Cardinality(V) <= n
      BY <2>1, <2>3, <2>5
    <3> HIDE DEF V
    <3>2. PICK m \in V : \A x \in V : f[x] <= f[m]
      BY <3>1
    <3>3. f[u] \in Nat /\ f[m] \in Nat /\ m \in U /\ \A x \in U : f[x] \in Nat /\ (x = u \/ x \in V)
      BY DEF V
    <3>4. CASE f[u] <= f[m]
      BY <3>2, <3>3, <3>4
    <3>5. CASE f[m] <= f[u]
      <4>1. \A x \in U : f[x] <= f[u]
        BY <3>2, <3>3, <3>5
      <4> QED BY <4>1
    <3> QED BY <3>3, <3>4, <3>5
  <2> QED BY <2>4, <2>5
<1> HIDE DEF T
<1>3. T = Nat
  BY <1>1, <1>2, AllNumbers DEF T
<1>4. Cardinality(S) \in T
  BY <1>3, FS_CardinalityType
<1> QED BY <1>4, FS_CardinalityType DEF T

-----------------------------------------------------------------------------
(* Sums *)

First(s) == CHOOSE x \in s : TRUE

\* g holds the sums of the numbers of c over the subsets of S.
SumsOf(g, c, S) ==
  g = [s \in SUBSET S |-> IF s = {} THEN 0 ELSE c[First(s)] + g[s \ {First(s)}]]

Sums(c, S)  == CHOOSE g : SumsOf(g, c, S)
Total(c, S) == Sums(c, S)[S]

LEMMA FirstIsIn == ASSUME NEW s, s # {} PROVE First(s) \in s
  BY DEF First

LEMMA Smaller ==
  ASSUME NEW S, IsFiniteSet(S), NEW s \in SUBSET S, NEW x \in s
  PROVE  /\ s \ {x} \in SUBSET S
         /\ Cardinality(s) \in Nat /\ Cardinality(s \ {x}) \in Nat
         /\ Cardinality(s \ {x}) = Cardinality(s) - 1
  BY FS_Subset, FS_RemoveElement, FS_CardinalityType

\* There are such sums for a finite set.
LEMMA SumsExist == ASSUME NEW S, IsFiniteSet(S), NEW c PROVE SumsOf(Sums(c, S), c, S)
<1> DEFINE Sum(g, s) == IF s = {} THEN 0 ELSE c[First(s)] + g[s \ {First(s)}]
           T == {n \in Nat : \E g : \A s \in SUBSET S : Cardinality(s) <= n => g[s] = Sum(g, s)}
<1>1. 0 \in T
  <2>1. PICK g : g = [s \in SUBSET S |-> 0]
    OBVIOUS
  <2>2. \A s \in SUBSET S : Cardinality(s) <= 0 => s = {}
    BY FS_Subset, FS_EmptySet, FS_CardinalityType
  <2>3. \A s \in SUBSET S : Cardinality(s) <= 0 => g[s] = Sum(g, s)
    BY <2>1, <2>2
  <2> QED BY <2>3
<1>2. ASSUME NEW n \in T PROVE n + 1 \in T
  <2>1. PICK g : \A s \in SUBSET S : Cardinality(s) <= n => g[s] = Sum(g, s)
    OBVIOUS
  <2>2. PICK G : G = [s \in SUBSET S |-> Sum(g, s)]
    OBVIOUS
  <2>3. ASSUME NEW s \in SUBSET S, Cardinality(s) <= n + 1 PROVE G[s] = Sum(G, s)
    <3>1. CASE s = {}
      BY <2>2, <3>1
    <3>2. CASE s # {}
      <4>1. PICK u : u = s \ {First(s)}
        OBVIOUS
      <4>2. u \in SUBSET S /\ Cardinality(u) <= n
        BY <2>3, <3>2, <4>1, FirstIsIn, Smaller
      <4>3. g[u] = G[u]
        BY <2>1, <2>2, <4>2
      <4> QED BY <2>2, <3>2, <4>1, <4>3
    <3> QED BY <3>1, <3>2
  <2>4. \A s \in SUBSET S : Cardinality(s) <= n + 1 => G[s] = Sum(G, s)
    BY <2>3
  <2>5. \E f : \A s \in SUBSET S : Cardinality(s) <= n + 1 => f[s] = Sum(f, s)
    <3> HIDE DEF Sum
    <3> QED BY <2>4
  <2>6. n + 1 \in Nat
    OBVIOUS
  <2> HIDE DEF Sum
  <2> QED BY <2>5, <2>6
<1> HIDE DEF T
<1>3. T = Nat
  BY <1>1, <1>2, AllNumbers DEF T
<1>4. Cardinality(S) \in T
  BY <1>3, FS_CardinalityType
<1>5. PICK g : \A s \in SUBSET S : Cardinality(s) <= Cardinality(S) => g[s] = Sum(g, s)
  BY <1>4 DEF T
<1>6. \A s \in SUBSET S : g[s] = Sum(g, s)
  BY <1>5, FS_Subset
<1>7. PICK G : G = [s \in SUBSET S |-> g[s]]
  OBVIOUS
<1>8. ASSUME NEW s \in SUBSET S PROVE G[s] = Sum(G, s)
  <2>1. CASE s = {}
    BY <1>6, <1>7, <2>1
  <2>2. CASE s # {}
    <3>1. PICK u : u = s \ {First(s)}
      OBVIOUS
    <3>2. u \in SUBSET S
      BY <3>1
    <3> QED BY <1>6, <1>7, <2>2, <3>1, <3>2
  <2> QED BY <2>1, <2>2
<1>9. G = [s \in SUBSET S |-> Sum(G, s)]
  BY <1>7, <1>8
<1>10. SumsOf(G, c, S)
  BY <1>9 DEF SumsOf
<1> QED BY <1>10 DEF Sums

\* Sums over the same things are the same.
LEMMA SumsAgree ==
  ASSUME NEW S, IsFiniteSet(S), NEW U \in SUBSET S, NEW c, NEW d, \A x \in U : c[x] = d[x],
         NEW g, SumsOf(g, c, S), NEW k, SumsOf(k, d, U)
  PROVE  \A s \in SUBSET U : g[s] = k[s]
<1> DEFINE T == {n \in Nat : \A s \in SUBSET U : Cardinality(s) <= n => g[s] = k[s]}
<1>0. IsFiniteSet(U)
  BY FS_Subset
<1>1. /\ g[{}] = 0 /\ k[{}] = 0
      /\ \A s \in SUBSET U : s # {} =>
           /\ g[s] = c[First(s)] + g[s \ {First(s)}]
           /\ k[s] = d[First(s)] + k[s \ {First(s)}]
  BY DEF SumsOf
<1>2. 0 \in T
  <2>1. \A s \in SUBSET U : Cardinality(s) <= 0 => s = {}
    BY <1>0, FS_Subset, FS_EmptySet, FS_CardinalityType
  <2> QED BY <1>1, <2>1
<1>3. ASSUME NEW n \in T PROVE n + 1 \in T
  <2>1. ASSUME NEW s \in SUBSET U, Cardinality(s) <= n + 1 PROVE g[s] = k[s]
    <3>1. CASE s = {}
      BY <1>1, <3>1
    <3>2. CASE s # {}
      <4>1. PICK u : u = s \ {First(s)}
        OBVIOUS
      <4>2. u \in SUBSET U /\ Cardinality(u) <= n
        BY <1>0, <2>1, <3>2, <4>1, FirstIsIn, Smaller
      <4>3. g[u] = k[u]
        BY <4>2
      <4>4. First(s) \in U
        BY <3>2, FirstIsIn
      <4> QED BY <1>1, <3>2, <4>1, <4>3, <4>4
    <3> QED BY <3>1, <3>2
  <2> QED BY <2>1
<1> HIDE DEF T
<1>4. T = Nat
  BY <1>2, <1>3, AllNumbers DEF T
<1>5. Cardinality(U) \in T
  BY <1>0, <1>4, FS_CardinalityType
<1> QED BY <1>0, <1>5, FS_Subset DEF T

\* Any of the things may be taken away first.
TakeAny(g, c, S) ==
  /\ g[{}] = 0
  /\ \A s \in SUBSET S : g[s] \in Nat /\ \A x \in s : g[s] = c[x] + g[s \ {x}]

Numbers(c, S) == \A x \in S : c[x] \in Nat

LEMMA SumsTake ==
  ASSUME NEW S, IsFiniteSet(S), NEW c, Numbers(c, S), NEW g, SumsOf(g, c, S)
  PROVE  TakeAny(g, c, S)
<1> DEFINE Good(s) == g[s] \in Nat /\ \A x \in s : g[s] = c[x] + g[s \ {x}]
           T == {n \in Nat : \A s \in SUBSET S : Cardinality(s) <= n => Good(s)}
<1>1. /\ g[{}] = 0
      /\ \A s \in SUBSET S : s # {} => g[s] = c[First(s)] + g[s \ {First(s)}]
  BY DEF SumsOf
<1>2. 0 \in T
  <2>1. \A s \in SUBSET S : Cardinality(s) <= 0 => s = {}
    BY FS_Subset, FS_EmptySet, FS_CardinalityType
  <2>2. Good({})
    BY <1>1
  <2>3. \A s \in SUBSET S : Cardinality(s) <= 0 => Good(s)
    BY <2>1, <2>2
  <2> QED BY <2>3
<1>3. ASSUME NEW n \in T PROVE n + 1 \in T
  <2>1. ASSUME NEW s \in SUBSET S, Cardinality(s) <= n + 1 PROVE Good(s)
    <3>1. CASE s = {}
      BY <1>1, <3>1
    <3>2. CASE s # {}
      <4>1. PICK f : f = First(s)
        OBVIOUS
      <4>2. f \in s /\ g[s] = c[f] + g[s \ {f}]
        BY <1>1, <3>2, <4>1, FirstIsIn
      <4>3. ASSUME NEW x \in s
            PROVE  s \ {x} \in SUBSET S /\ Cardinality(s \ {x}) <= n /\ g[s \ {x}] \in Nat
        <5>1. s \ {x} \in SUBSET S /\ Cardinality(s \ {x}) <= n
          BY <2>1, Smaller
        <5> QED BY <5>1
      <4>4. g[s] \in Nat
        BY <4>2, <4>3 DEF Numbers
      <4>5. ASSUME NEW x \in s, x # f PROVE g[s] = c[x] + g[s \ {x}]
        <5>1. PICK u, v, w : u = s \ {f} /\ v = s \ {x} /\ w = u \ {x}
          OBVIOUS
        <5>2. u \in SUBSET S /\ v \in SUBSET S /\ Good(u) /\ Good(v)
          BY <4>2, <4>3, <5>1
        <5>3. x \in u /\ f \in v /\ w = v \ {f}
          BY <4>2, <4>5, <5>1
        <5>4. g[u] = c[x] + g[w] /\ g[v] = c[f] + g[w]
          BY <5>1, <5>2, <5>3
        <5>5. g[s] = c[f] + g[u] /\ c[f] \in Nat /\ c[x] \in Nat
          BY <4>2, <5>1 DEF Numbers
        <5>6. w \in SUBSET S /\ g[w] \in Nat
          <6>1. Cardinality(w) <= Cardinality(u) /\ Cardinality(u) <= n
            BY <4>2, <4>3, <5>1, <5>2, <5>3, Smaller
          <6>2. w \in SUBSET S /\ Cardinality(w) <= n
            BY <6>1, <5>1, <5>2, <5>3, Smaller
          <6> QED BY <6>2
        <5> QED BY <5>1, <5>4, <5>5, <5>6
      <4> QED BY <4>2, <4>4, <4>5
    <3> QED BY <3>1, <3>2
  <2> QED BY <2>1
<1> HIDE DEF T
<1>4. T = Nat
  BY <1>2, <1>3, AllNumbers DEF T
<1>5. Cardinality(S) \in T
  BY <1>4, FS_CardinalityType
<1> QED BY <1>1, <1>5, FS_Subset DEF T, TakeAny

LEMMA TotalIs ==
  ASSUME NEW S, IsFiniteSet(S), NEW c, Numbers(c, S)
  PROVE  /\ Total(c, S) \in Nat
         /\ S = {} => Total(c, S) = 0
         /\ \A x \in S : Total(c, S) = c[x] + Total(c, S \ {x})
<1>1. PICK g : g = Sums(c, S) /\ SumsOf(g, c, S)
  BY SumsExist
<1>2. ASSUME NEW x \in S PROVE Total(c, S \ {x}) = g[S \ {x}]
  <2>1. PICK U : U = S \ {x}
    OBVIOUS
  <2>2. U \in SUBSET S /\ IsFiniteSet(U)
    BY <2>1, FS_Subset
  <2>3. PICK k : k = Sums(c, U) /\ SumsOf(k, c, U)
    BY <2>2, SumsExist
  <2>4. g[U] = k[U]
    BY <1>1, <2>2, <2>3, SumsAgree
  <2> QED BY <2>1, <2>3, <2>4 DEF Total
<1>3. TakeAny(g, c, S)
  BY <1>1, SumsTake
<1> QED BY <1>1, <1>2, <1>3 DEF Total, TakeAny

\* What is summed over a part is no more than what is summed over the whole.
LEMMA TotalGrows ==
  ASSUME NEW S, IsFiniteSet(S), NEW U \in SUBSET S, NEW c, NEW d, Numbers(c, U), Numbers(d, S),
         \A x \in U : c[x] <= d[x]
  PROVE  Total(c, U) <= Total(d, S)
<1> DEFINE T == {n \in Nat : \A V \in SUBSET S : Cardinality(V) <= n =>
                   Total(c, V \intersect U) <= Total(d, V)}
<1>0. ASSUME NEW V \in SUBSET S
      PROVE  /\ IsFiniteSet(V) /\ IsFiniteSet(V \intersect U) /\ Cardinality(V) \in Nat
             /\ Numbers(d, V) /\ Numbers(c, V \intersect U)
             /\ Total(c, V \intersect U) \in Nat /\ Total(d, V) \in Nat
  <2>1. IsFiniteSet(V) /\ IsFiniteSet(V \intersect U) /\ Cardinality(V) \in Nat
    BY FS_Subset, FS_CardinalityType
  <2>2. Numbers(d, V) /\ Numbers(c, V \intersect U)
    BY DEF Numbers
  <2> QED BY <2>1, <2>2, TotalIs
<1>1. 0 \in T
  <2>1. ASSUME NEW V \in SUBSET S, Cardinality(V) <= 0
        PROVE  Total(c, V \intersect U) <= Total(d, V)
    <3>1. V = {}
      <4>1. IsFiniteSet(V) /\ Cardinality(V) \in Nat
        BY <1>0
      <4>2. Cardinality(V) = 0
        BY <2>1, <4>1
      <4> QED BY <4>1, <4>2, FS_EmptySet
    <3>2. V \intersect U = {}
      BY <3>1
    <3>3. Total(c, V \intersect U) = 0 /\ Total(d, V) = 0
      BY <1>0, <3>1, <3>2, TotalIs
    <3> QED BY <3>3
  <2> QED BY <2>1
<1>2. ASSUME NEW n \in T PROVE n + 1 \in T
  <2>1. ASSUME NEW V \in SUBSET S, Cardinality(V) <= n + 1
        PROVE  Total(c, V \intersect U) <= Total(d, V)
    <3>1. CASE V = {}
      <4>1. V \intersect U = {}
        BY <3>1
      <4>2. Total(c, V \intersect U) = 0 /\ Total(d, V) = 0
        BY <1>0, <3>1, <4>1, TotalIs
      <4> QED BY <4>2
    <3>2. CASE V # {}
      <4>1. PICK x \in V : TRUE
        BY <3>2
      <4>2. PICK W : W = V \ {x}
        OBVIOUS
      <4>3. W \in SUBSET S /\ Cardinality(W) <= n
        <5>1. Cardinality(W) = Cardinality(V) - 1 /\ W \in SUBSET S
          BY <4>2, Smaller
        <5>2. Cardinality(V) \in Nat
          BY <1>0
        <5> QED BY <2>1, <5>1, <5>2
      <4>4. Total(c, W \intersect U) <= Total(d, W)
        BY <4>3
      <4>5. Total(d, V) = d[x] + Total(d, W)
        BY <1>0, <4>2, TotalIs
      <4>6. CASE x \in U
        <5>1. PICK X : X = V \intersect U
          OBVIOUS
        <5>2. X \ {x} = W \intersect U /\ x \in X /\ IsFiniteSet(X) /\ Numbers(c, X)
          BY <1>0, <4>2, <4>6, <5>1
        <5>3. Total(c, X) = c[x] + Total(c, W \intersect U)
          BY <5>2, TotalIs
        <5>4. c[x] \in Nat /\ d[x] \in Nat /\ c[x] <= d[x]
          BY <4>6 DEF Numbers
        <5> QED BY <1>0, <4>3, <4>4, <4>5, <5>1, <5>3, <5>4
      <4>7. CASE x \notin U
        <5>1. V \intersect U = W \intersect U
          BY <4>2, <4>7
        <5>2. d[x] \in Nat
          BY DEF Numbers
        <5> QED BY <1>0, <4>3, <4>4, <4>5, <5>1, <5>2
      <4> QED BY <4>6, <4>7
    <3> QED BY <3>1, <3>2
  <2> QED BY <2>1
<1> HIDE DEF T
<1>3. T = Nat
  BY <1>1, <1>2, AllNumbers DEF T
<1>4. Cardinality(S) \in T
  BY <1>0, <1>3
<1>5. Total(c, S \intersect U) <= Total(d, S)
  BY <1>0, <1>4 DEF T
<1>6. S \intersect U = U
  OBVIOUS
<1> QED BY <1>5, <1>6

Lower(rank, S, h) == {g \in S : rank[g] < rank[h]}

\* Things in a row, each of some length: every number up to the whole length falls on one.
LEMMA FallsOnOne ==
  ASSUME NEW S, IsFiniteSet(S), NEW c, Numbers(c, S), NEW rank, Numbers(rank, S),
         \A h, g \in S : rank[h] = rank[g] => h = g,
         NEW i \in Nat, i < Total(c, S)
  PROVE  \E h \in S : i - Total(c, Lower(rank, S, h)) \in 0 .. c[h] - 1
<1> DEFINE T == {n \in Nat : \A V \in SUBSET S : Cardinality(V) <= n /\ i < Total(c, V) =>
                   \E h \in V : i - Total(c, Lower(rank, V, h)) \in 0 .. c[h] - 1}
<1>0. ASSUME NEW V \in SUBSET S
      PROVE  /\ IsFiniteSet(V) /\ Cardinality(V) \in Nat /\ Numbers(c, V) /\ Numbers(rank, V)
             /\ Total(c, V) \in Nat
  <2>1. IsFiniteSet(V) /\ Cardinality(V) \in Nat
    BY FS_Subset, FS_CardinalityType
  <2>2. Numbers(c, V) /\ Numbers(rank, V)
    BY DEF Numbers
  <2> QED BY <2>1, <2>2, TotalIs
<1>1. 0 \in T
  <2>1. ASSUME NEW V \in SUBSET S, Cardinality(V) <= 0, i < Total(c, V) PROVE FALSE
    <3>1. V = {}
      BY <1>0, <2>1, FS_EmptySet
    <3> QED BY <1>0, <2>1, <3>1, TotalIs
  <2> QED BY <2>1
<1>2. ASSUME NEW n \in T PROVE n + 1 \in T
  <2>1. ASSUME NEW V \in SUBSET S, Cardinality(V) <= n + 1, i < Total(c, V)
        PROVE  \E h \in V : i - Total(c, Lower(rank, V, h)) \in 0 .. c[h] - 1
    <3>1. V # {}
      BY <1>0, <2>1, TotalIs
    <3>2. PICK m \in V : \A x \in V : rank[x] <= rank[m]
      BY <1>0, <3>1, GreatestIs DEF Numbers
    <3>3. PICK W : W = V \ {m}
      OBVIOUS
    <3>4. W \in SUBSET S /\ Cardinality(W) <= n
      BY <1>0, <2>1, <3>3, FS_RemoveElement
    <3>5. Total(c, V) = c[m] + Total(c, W) /\ c[m] \in Nat
      BY <1>0, <3>3, TotalIs DEF Numbers
    <3>6. \A x \in V : rank[x] \in Nat
      BY DEF Numbers
    <3>7. CASE i < Total(c, W)
      <4>1. PICK h \in W : i - Total(c, Lower(rank, W, h)) \in 0 .. c[h] - 1
        BY <3>4, <3>7
      <4>2. Lower(rank, W, h) = Lower(rank, V, h)
        BY <3>2, <3>3, <3>6 DEF Lower
      <4> QED BY <3>3, <4>1, <4>2
    <3>8. CASE i >= Total(c, W)
      <4>1. ASSUME NEW g \in V, rank[g] = rank[m] PROVE g = m
        BY <4>1
      <4>2. \A g \in V : rank[g] < rank[m] <=> g # m
        BY <3>2, <3>6, <4>1
      <4>3. Lower(rank, V, m) = W
        BY <3>3, <4>2 DEF Lower
      <4>4. i - Total(c, W) \in 0 .. c[m] - 1
        BY <1>0, <2>1, <3>4, <3>5, <3>8
      <4> QED BY <4>3, <4>4
    <3> QED BY <1>0, <3>4, <3>7, <3>8
  <2> QED BY <2>1
<1> HIDE DEF T
<1>3. T = Nat
  BY <1>1, <1>2, AllNumbers DEF T
<1>4. Cardinality(S) \in T
  BY <1>0, <1>3
<1> QED BY <1>0, <1>4 DEF T

-----------------------------------------------------------------------------
(* Sizes *)

\* A router's handlers have different names.
Apart ==
  \A r \in Routers :
    /\ IsFiniteSet(handlers[r])
    /\ \A h, g \in handlers[r] : NameOf[h] = NameOf[g] => h = g

Inner  == Storages \union Nested
Weight == [h \in Inner |-> Count(h)]
Order  == [h \in Inner |-> Rank[NameOf[h]]]

\* How many names a router lists.
Room(r) == Total(Weight, handlers[r])

LEMMA InnerHandlers ==
  ASSUME Tree, NEW r \in Routers
  PROVE  handlers[r] \subseteq Inner /\ (r \in Nested => handlers[r] \subseteq Storages)
<1>1. Root \in Routers /\ handlers[r] \subseteq Handlers
  BY RouterAssumption DEF Tree
<1> QED BY <1>1 DEF Tree, Inner, Handlers, Nested

LEMMA SumOfCounts ==
  ASSUME NEW S \in SUBSET Inner, IsFiniteSet(S)
  PROVE  MapThenSumSet(Count, S) = Total(Weight, S)
<1> DEFINE Is(k) == k = [s \in SUBSET S |->
                           IF s = {} THEN 0 ELSE Count(First(s)) + k[s \ {First(s)}]]
<1>1. \A k : Is(k) <=> SumsOf(k, Weight, S)
  <2>1. ASSUME NEW s \in SUBSET S, s # {} PROVE Count(First(s)) = Weight[First(s)]
    BY <2>1, FirstIsIn DEF Weight
  <2> SUFFICES ASSUME NEW k PROVE Is(k) <=> SumsOf(k, Weight, S)
    OBVIOUS
  <2>2. [s \in SUBSET S |-> IF s = {} THEN 0 ELSE Count(First(s)) + k[s \ {First(s)}]] =
        [s \in SUBSET S |-> IF s = {} THEN 0 ELSE Weight[First(s)] + k[s \ {First(s)}]]
    BY <2>1
  <2> QED BY <2>2 DEF SumsOf
<1>2. MapThenSumSet(Count, S) = (CHOOSE k : Is(k))[S]
  BY DEF MapThenSumSet, MapThenFoldSet, First
<1> HIDE DEF Is
<1>3. PICK g : g = Sums(Weight, S) /\ SumsOf(g, Weight, S)
  BY SumsExist
<1>4. PICK k : k = (CHOOSE f : Is(f)) /\ Is(k)
  BY <1>1, <1>3
<1>5. k[S] = g[S]
  BY <1>1, <1>3, <1>4, SumsAgree
<1> QED BY <1>2, <1>3, <1>4, <1>5 DEF Total

\* Of a router that has only storages.
LEMMA SumOfLengths ==
  ASSUME NEW S \in SUBSET Storages, IsFiniteSet(S)
  PROVE  MapThenSumSet(LAMBDA s : Len(store[s]), S) = Total(Weight, S)
<1> DEFINE Is(k) == k = [s \in SUBSET S |->
                           IF s = {} THEN 0 ELSE Len(store[First(s)]) + k[s \ {First(s)}]]
<1>1. \A k : Is(k) <=> SumsOf(k, Weight, S)
  <2>1. ASSUME NEW s \in SUBSET S, s # {} PROVE Len(store[First(s)]) = Weight[First(s)]
    BY <2>1, FirstIsIn DEF Weight, Count, Inner
  <2> SUFFICES ASSUME NEW k PROVE Is(k) <=> SumsOf(k, Weight, S)
    OBVIOUS
  <2>2. [s \in SUBSET S |-> IF s = {} THEN 0 ELSE Len(store[First(s)]) + k[s \ {First(s)}]] =
        [s \in SUBSET S |-> IF s = {} THEN 0 ELSE Weight[First(s)] + k[s \ {First(s)}]]
    BY <2>1
  <2> QED BY <2>2 DEF SumsOf
<1>2. MapThenSumSet(LAMBDA s : Len(store[s]), S) = (CHOOSE k : Is(k))[S]
  BY DEF MapThenSumSet, MapThenFoldSet, First
<1> HIDE DEF Is
<1>3. PICK g : g = Sums(Weight, S) /\ SumsOf(g, Weight, S)
  BY SumsExist
<1>4. PICK k : k = (CHOOSE f : Is(f)) /\ Is(k)
  BY <1>1, <1>3
<1>5. k[S] = g[S]
  BY <1>1, <1>3, <1>4, SumsAgree
<1> QED BY <1>2, <1>3, <1>4, <1>5 DEF Total

\* The sizes of everything, and that every index below a router's size falls on one of its
\* handlers.
Sizes ==
  /\ Tree
  /\ \A h \in Inner : Count(h) \in Nat
  /\ RootCount = Room(Root) /\ \A r \in Nested : Count(r) = Room(r)
  /\ \A r \in Routers :
       /\ Room(r) \in Nat /\ IsFiniteSet(handlers[r])
       /\ \A h \in handlers[r] :
            /\ Offset(r, h) = Total(Weight, Before(r, h)) /\ Offset(r, h) \in Nat
            /\ Offset(r, h) + Count(h) <= Room(r)
       /\ \A i \in Nat : i < Room(r) => \E h \in handlers[r] : i - Offset(r, h) \in 0 .. Count(h) - 1

LEMMA SizesAre == Tree /\ Apart => Sizes
<1> SUFFICES ASSUME Tree, Apart PROVE Sizes
  OBVIOUS
<1>0. Root \in Routers /\ Nested \subseteq Routers /\ Storages \subseteq Inner
  BY RouterAssumption DEF Nested, Inner
<1>1. ASSUME NEW s \in Storages PROVE Count(s) \in Nat
  <2>1. store[s] \in Seq(Names)
    BY DEF Tree
  <2>2. Len(store[s]) \in Nat
    BY <2>1
  <2> QED BY <2>2 DEF Count
<1>2. \A s \in Storages : Weight[s] \in Nat
  BY <1>0, <1>1 DEF Weight
<1>3. ASSUME NEW r \in Nested PROVE Count(r) = Room(r) /\ Count(r) \in Nat
  <2>1. handlers[r] \in SUBSET Storages /\ IsFiniteSet(handlers[r])
    BY <1>0, InnerHandlers DEF Apart
  <2>2. r \notin Storages
    BY <1>0, RouterAssumption
  <2>3. Count(r) = Total(Weight, handlers[r])
    BY <2>1, <2>2, SumOfLengths DEF Count
  <2>4. Numbers(Weight, handlers[r])
    BY <1>2, <2>1 DEF Numbers
  <2> QED BY <2>1, <2>3, <2>4, TotalIs DEF Room
<1>4. \A h \in Inner : Count(h) \in Nat
  BY <1>1, <1>3 DEF Inner
<1>5. \A h \in Inner : Weight[h] = Count(h) /\ Weight[h] \in Nat
  BY <1>4 DEF Weight
<1>6. RootCount = Room(Root)
  BY <1>0, InnerHandlers, SumOfCounts DEF RootCount, Room, Apart
<1>7. ASSUME NEW r \in Routers
      PROVE  /\ Room(r) \in Nat /\ IsFiniteSet(handlers[r])
             /\ \A h \in handlers[r] :
                  /\ Offset(r, h) = Total(Weight, Before(r, h)) /\ Offset(r, h) \in Nat
                  /\ Offset(r, h) + Count(h) <= Room(r)
             /\ \A i \in Nat : i < Room(r) =>
                  \E h \in handlers[r] : i - Offset(r, h) \in 0 .. Count(h) - 1
  <2>1. PICK H : H = handlers[r]
    OBVIOUS
  <2>2. H \in SUBSET Inner /\ IsFiniteSet(H) /\ Numbers(Weight, H)
    BY <1>5, <2>1, InnerHandlers DEF Apart, Numbers
  <2>3. Room(r) \in Nat
    BY <2>1, <2>2, TotalIs DEF Room
  <2>4. \A h \in H : NameOf[h] \in Parts /\ Order[h] = Rank[NameOf[h]] /\ Order[h] \in Nat
    BY <2>2, RouterAssumption DEF Order, Inner, Handlers, Nested
  <2>5. \A h \in H : Before(r, h) = Lower(Order, H, h)
    BY <2>1, <2>4 DEF Before, Lower
  <2>6. ASSUME NEW h \in H
        PROVE  /\ Offset(r, h) = Total(Weight, Before(r, h)) /\ Offset(r, h) \in Nat
               /\ Offset(r, h) + Count(h) <= Room(r)
    <3>1. PICK B : B = Before(r, h)
      OBVIOUS
    <3>2. B \in SUBSET H /\ h \notin B
      BY <2>1, <2>4, <3>1 DEF Before
    <3>3. IsFiniteSet(B) /\ B \in SUBSET Inner /\ Numbers(Weight, B)
      BY <2>2, <3>2, FS_Subset DEF Numbers
    <3>4. Offset(r, h) = Total(Weight, B) /\ Total(Weight, B) \in Nat
      BY <3>1, <3>3, SumOfCounts, TotalIs DEF Offset
    <3>5. PICK C : C = B \union {h}
      OBVIOUS
    <3>6. C \in SUBSET H /\ IsFiniteSet(C) /\ Numbers(Weight, C) /\ C \ {h} = B
      BY <2>2, <3>2, <3>5, FS_Subset DEF Numbers
    <3>7. Total(Weight, C) = Weight[h] + Total(Weight, B)
      BY <3>5, <3>6, TotalIs
    <3>8. Total(Weight, C) <= Total(Weight, H)
      <4>1. \A x \in C : Weight[x] <= Weight[x]
        BY <3>6 DEF Numbers
      <4> QED BY <2>2, <3>6, <4>1, TotalGrows
    <3>9. Weight[h] = Count(h) /\ Count(h) \in Nat
      BY <1>5, <2>2
    <3> QED BY <2>1, <3>1, <3>4, <3>7, <3>8, <3>9 DEF Room
  <2>7. ASSUME NEW i \in Nat, i < Room(r)
        PROVE  \E h \in H : i - Offset(r, h) \in 0 .. Count(h) - 1
    <3>1. \A h, g \in H : Order[h] = Order[g] => h = g
      <4>1. \A h, g \in H : Order[h] = Order[g] => NameOf[h] = NameOf[g]
        BY <2>4, RouterAssumption
      <4> QED BY <2>1, <4>1 DEF Apart
    <3>2. Numbers(Order, H)
      BY <2>4 DEF Numbers
    <3>3. \E h \in H : i - Total(Weight, Lower(Order, H, h)) \in 0 .. Weight[h] - 1
      BY <2>1, <2>2, <2>7, <3>1, <3>2, FallsOnOne DEF Room
    <3>4. PICK h \in H : i - Total(Weight, Lower(Order, H, h)) \in 0 .. Weight[h] - 1
      BY <3>3
    <3>5. Offset(r, h) = Total(Weight, Lower(Order, H, h)) /\ Weight[h] = Count(h)
      BY <1>5, <2>2, <2>5, <2>6
    <3> QED BY <3>4, <3>5
  <2> QED BY <2>1, <2>2, <2>3, <2>6, <2>7
<1> QED BY <1>3, <1>4, <1>6, <1>7 DEF Sizes

-----------------------------------------------------------------------------
(* Where a name is listed *)

InStorage(s, j, e) ==
  s \in Storages /\ j \in Nat /\ j < Len(store[s]) /\ e = Entry(s, store[s][j + 1], store[s][j + 1])

InRouter(r, l, e) ==
  \E s \in handlers[r], j \in Nat : l = Offset(r, s) + j /\ \E d : InStorage(s, j, d) /\ e = Under(r, d)

InHandler(h, l, e) == IF h \in Storages THEN InStorage(h, l, e) ELSE InRouter(h, l, e)

InRoot(i, e) ==
  \E h \in handlers[Root], l \in Nat :
    i = Offset(Root, h) + l /\ \E d : InHandler(h, l, d) /\ e = Under(Root, d)

LEMMA StorageHas ==
  ASSUME NEW s \in Storages, NEW j \in Nat, NEW e
  PROVE  e \in ListStorage(s, j) <=> InStorage(s, j, e)
  BY DEF ListStorage, InStorage

\* What a handler lists is what is in it.
LEMMA HandlerHas ==
  ASSUME Sizes, NEW h \in Inner, NEW l \in Nat, NEW e
  PROVE  e \in ListNested(h, l) <=> InHandler(h, l, e)
<1>1. CASE h \in Storages
  BY <1>1, StorageHas DEF ListNested, InHandler
<1>2. CASE h \notin Storages
  <2>0. h \in Nested /\ h \in Routers /\ handlers[h] \subseteq Storages /\ Storages \subseteq Inner
    BY <1>2 DEF Sizes, Tree, Inner, Nested
  <2>1. e \in ListNested(h, l) <=>
          \E x \in Position(h, l) : \E d \in ListStorage(x[1], x[2]) : e = Under(h, d)
    BY <1>2 DEF ListNested
  <2>2. ASSUME NEW x \in Position(h, l), NEW d \in ListStorage(x[1], x[2]), e = Under(h, d)
        PROVE  InRouter(h, l, e)
    <3>1. PICK s, j : s = x[1] /\ j = x[2]
      OBVIOUS
    <3>2. PICK g \in handlers[h] : x = <<g, l - Offset(h, g)>>
      BY DEF Position
    <3>3. s \in handlers[h] /\ j = l - Offset(h, s) /\ j \in Int /\ j >= 0
      BY <3>1, <3>2, PositionIsIndex
    <3>4. Offset(h, s) \in Nat
      BY <2>0, <3>3 DEF Sizes
    <3>5. j \in Nat /\ l = Offset(h, s) + j
      BY <3>3, <3>4
    <3>6. InStorage(s, j, d)
      BY <2>0, <3>1, <3>3, <3>5, StorageHas
    <3> QED BY <2>2, <3>3, <3>5, <3>6 DEF InRouter
  <2>3. ASSUME InRouter(h, l, e)
        PROVE  \E x \in Position(h, l) : \E d \in ListStorage(x[1], x[2]) : e = Under(h, d)
    <3>1. PICK s \in handlers[h], j \in Nat :
            l = Offset(h, s) + j /\ \E d : InStorage(s, j, d) /\ e = Under(h, d)
      BY <2>3 DEF InRouter
    <3>2. PICK d : InStorage(s, j, d) /\ e = Under(h, d)
      BY <3>1
    <3>3. Offset(h, s) \in Nat
      BY <2>0 DEF Sizes
    <3>4. j = l - Offset(h, s)
      BY <3>1, <3>3
    <3>5. PICK x : x = <<s, l - Offset(h, s)>>
      OBVIOUS
    <3>6. x[1] = s /\ x[2] = j
      BY <3>4, <3>5
    <3>7. j \in 0 .. Count(s) - 1
      <4>1. Count(s) = Len(store[s]) /\ Count(s) \in Nat
        BY <2>0 DEF Count, Sizes
      <4> QED BY <3>2, <4>1 DEF InStorage
    <3>8. x \in Position(h, l)
      BY <3>5, <3>6, <3>7 DEF Position
    <3>9. d \in ListStorage(s, j)
      BY <2>0, <3>2, StorageHas
    <3> QED BY <3>2, <3>6, <3>8, <3>9
  <2> QED BY <1>2, <2>1, <2>2, <2>3 DEF InHandler
<1> QED BY <1>1, <1>2

\* What is in a handler is below its size.
LEMMA HandlerFits ==
  ASSUME Sizes, NEW h \in Inner, NEW l \in Nat, NEW e, InHandler(h, l, e) PROVE l < Count(h)
<1>1. CASE h \in Storages
  BY <1>1 DEF InHandler, InStorage, Count
<1>2. CASE h \notin Storages
  <2>1. h \in Nested /\ h \in Routers /\ handlers[h] \subseteq Storages /\ Storages \subseteq Inner
    BY <1>2 DEF Sizes, Tree, Inner, Nested
  <2>2. PICK s \in handlers[h], j \in Nat :
          l = Offset(h, s) + j /\ \E d : InStorage(s, j, d) /\ e = Under(h, d)
    BY <1>2 DEF InHandler, InRouter
  <2>3. j < Count(s) /\ Count(s) \in Nat
    BY <2>1, <2>2 DEF InStorage, Count, Sizes
  <2>4. Offset(h, s) \in Nat /\ Offset(h, s) + Count(s) <= Room(h) /\ Count(h) = Room(h)
        /\ Room(h) \in Nat
    BY <2>1 DEF Sizes
  <2> QED BY <2>2, <2>3, <2>4
<1> QED BY <1>1, <1>2

LEMMA RootHas ==
  ASSUME Sizes, NEW i \in Nat, NEW e
  PROVE  /\ e \in ListAt(i) <=> InRoot(i, e)
         /\ InRoot(i, e) => i < RootCount
<1>0. Root \in Routers /\ handlers[Root] \subseteq Inner
  BY RouterAssumption, InnerHandlers DEF Sizes
<1>1. e \in ListAt(i) <=>
        \E x \in Position(Root, i) : \E d \in ListNested(x[1], x[2]) : e = Under(Root, d)
  BY DEF ListAt
<1>2. ASSUME NEW x \in Position(Root, i), NEW d \in ListNested(x[1], x[2]), e = Under(Root, d)
      PROVE  InRoot(i, e)
  <2>1. PICK h, l : h = x[1] /\ l = x[2]
    OBVIOUS
  <2>2. PICK g \in handlers[Root] : x = <<g, i - Offset(Root, g)>>
    BY DEF Position
  <2>3. h \in handlers[Root] /\ l = i - Offset(Root, h) /\ l \in Int /\ l >= 0
    BY <2>1, <2>2, PositionIsIndex
  <2>4. Offset(Root, h) \in Nat
    BY <1>0, <2>3 DEF Sizes
  <2>5. l \in Nat /\ i = Offset(Root, h) + l
    BY <2>3, <2>4
  <2>6. InHandler(h, l, d)
    BY <1>0, <2>1, <2>3, <2>5, HandlerHas
  <2> QED BY <1>2, <2>3, <2>5, <2>6 DEF InRoot
<1>3. ASSUME InRoot(i, e)
      PROVE  /\ \E x \in Position(Root, i) : \E d \in ListNested(x[1], x[2]) : e = Under(Root, d)
             /\ i < RootCount
  <2>1. PICK h \in handlers[Root], l \in Nat :
          i = Offset(Root, h) + l /\ \E d : InHandler(h, l, d) /\ e = Under(Root, d)
    BY <1>3 DEF InRoot
  <2>2. PICK d : InHandler(h, l, d) /\ e = Under(Root, d)
    BY <2>1
  <2>3. /\ Offset(Root, h) \in Nat /\ Offset(Root, h) + Count(h) <= RootCount
        /\ Count(h) \in Nat /\ RootCount \in Nat
    BY <1>0 DEF Sizes
  <2>4. l = i - Offset(Root, h) /\ l < Count(h)
    BY <1>0, <2>1, <2>2, <2>3, HandlerFits
  <2>5. PICK x : x = <<h, i - Offset(Root, h)>>
    OBVIOUS
  <2>6. x[1] = h /\ x[2] = l
    BY <2>4, <2>5
  <2>7. x \in Position(Root, i)
    BY <2>3, <2>4, <2>5, <2>6 DEF Position
  <2>8. d \in ListNested(h, l)
    BY <1>0, <2>2, HandlerHas
  <2> QED BY <2>1, <2>2, <2>3, <2>4, <2>6, <2>7, <2>8
<1> QED BY <1>1, <1>2, <1>3

\* Every index below the size of the whole has a name.
LEMMA NothingMissing == ASSUME Sizes, NEW i \in Nat, i < RootCount PROVE ListAt(i) # {}
<1>0. Root \in Routers /\ handlers[Root] \subseteq Inner
  BY RouterAssumption, InnerHandlers DEF Sizes
<1>1. PICK h \in handlers[Root] : i - Offset(Root, h) \in 0 .. Count(h) - 1
  BY <1>0 DEF Sizes
<1>2. PICK l : l = i - Offset(Root, h)
  OBVIOUS
<1>3. Offset(Root, h) \in Nat /\ Count(h) \in Nat
  BY <1>0 DEF Sizes
<1>4. l \in Nat /\ l < Count(h) /\ i = Offset(Root, h) + l
  BY <1>1, <1>2, <1>3
<1>5. \E d : InHandler(h, l, d)
  <2>1. CASE h \in Storages
    BY <1>4, <2>1 DEF InHandler, InStorage, Count
  <2>2. CASE h \notin Storages
    <3>1. h \in Nested /\ h \in Routers /\ handlers[h] \subseteq Storages /\ Storages \subseteq Inner
      BY <1>0, <2>2 DEF Sizes, Tree, Inner, Nested
    <3>2. Count(h) = Room(h)
      BY <3>1 DEF Sizes
    <3>3. PICK s \in handlers[h] : l - Offset(h, s) \in 0 .. Count(s) - 1
      BY <1>4, <3>1, <3>2 DEF Sizes
    <3>4. PICK j : j = l - Offset(h, s)
      OBVIOUS
    <3>5. Offset(h, s) \in Nat /\ Count(s) \in Nat /\ Count(s) = Len(store[s])
      BY <3>1 DEF Sizes, Count
    <3>6. j \in Nat /\ j < Len(store[s]) /\ l = Offset(h, s) + j
      BY <1>4, <3>3, <3>4, <3>5
    <3>7. InStorage(s, j, Entry(s, store[s][j + 1], store[s][j + 1]))
      BY <3>1, <3>6 DEF InStorage
    <3>8. InRouter(h, l, Under(h, Entry(s, store[s][j + 1], store[s][j + 1])))
      BY <3>6, <3>7 DEF InRouter
    <3> QED BY <2>2, <3>8 DEF InHandler
  <2> QED BY <2>1, <2>2
<1>6. PICK d : InHandler(h, l, d)
  BY <1>5
<1>7. InRoot(i, Under(Root, d))
  BY <1>4, <1>6 DEF InRoot
<1> QED BY <1>7, RootHas

-----------------------------------------------------------------------------
(* What access finds is listed *)

LEMMA InRootListed ==
  ASSUME Sizes, NEW i \in Nat, NEW e, InRoot(i, e) PROVE e \in Listed
<1>1. e \in ListAt(i) /\ i < RootCount
  BY RootHas
<1>2. RootCount \in Nat
  BY RouterAssumption DEF Sizes
<1>3. i \in 0 .. RootCount - 1
  BY <1>1, <1>2
<1> QED BY <1>1, <1>3 DEF Listed

\* A router asks one of its handlers.
LEMMA RoutedToHandler ==
  ASSUME Tree, NEW r \in Routers, NEW n, NEW x \in Route(r, n) PROVE x[1] \in handlers[r]
<1>1. PICK M : M = Matching(r, n[2])
  OBVIOUS
<1>2. M # {} /\ x = <<FirstOf(M), HandlerName(n)>>
  BY <1>1 DEF Route
<1>3. M \subseteq handlers[r]
  BY <1>1 DEF Matching
<1>4. \A h \in M : Order[h] = Rank[NameOf[h]] /\ Order[h] \in Nat
  BY <1>3, InnerHandlers, RouterAssumption DEF Order, Inner, Handlers, Nested
<1>5. \E h \in M : \A g \in M : Order[h] <= Order[g]
  BY <1>2, <1>4, LeastIs
<1>6. \E h \in M : \A g \in M : Rank[NameOf[h]] <= Rank[NameOf[g]]
  BY <1>4, <1>5
<1>7. FirstOf(M) \in M
  BY <1>6 DEF FirstOf
<1> QED BY <1>2, <1>3, <1>7

LEMMA SizesList == Sizes => ReachedIsListed
<1> SUFFICES ASSUME Sizes, NEW n, NEW x \in Reached(n), x[2] \in KeysOf(x[1])
             PROVE  \E e \in Listed : e.storage = x[1] /\ e.key = x[2]
  BY DEF ReachedIsListed
<1>0. Root \in Routers /\ Tree /\ handlers[Root] \subseteq Inner
  BY RouterAssumption, InnerHandlers DEF Sizes
<1>1. PICK s, k : s = x[1] /\ k = x[2]
  OBVIOUS
<1>2. s \in Storages /\ x \in Pass(Route(Root, n))
  BY <1>1 DEF Reached
<1>3. store[s] \in Seq(Names)
  BY <1>0, <1>2 DEF Tree
<1>4. PICK m \in DOMAIN store[s] : k = store[s][m]
  BY <1>1 DEF KeysOf
<1>5. PICK j : j = m - 1
  OBVIOUS
<1>6. j \in Nat /\ j < Len(store[s]) /\ store[s][j + 1] = k
  BY <1>3, <1>4, <1>5
<1>7. PICK d : d = Entry(s, k, k)
  OBVIOUS
<1>8. InStorage(s, j, d) /\ d.storage = s /\ d.key = k
  BY <1>2, <1>6, <1>7 DEF InStorage, Entry
<1>9. PICK y \in Route(Root, n) : x \in IF y[1] \in Storages THEN {y} ELSE Route(y[1], y[2])
  BY <1>2 DEF Pass
<1>10. PICK h, p : h = y[1] /\ p = y[2]
  OBVIOUS
<1>11. h \in handlers[Root] /\ Offset(Root, h) \in Nat
  BY <1>0, <1>9, <1>10, RoutedToHandler DEF Sizes
<1>12. \E l \in Nat : \E c : InHandler(h, l, c) /\ c = [storage |-> s, key |-> k, name |-> c.name]
  <2>1. CASE h \in Storages
    <3>1. h = s
      BY <1>1, <1>9, <1>10, <2>1
    <3>2. InHandler(h, j, d)
      BY <1>8, <2>1, <3>1 DEF InHandler
    <3>3. d = [storage |-> s, key |-> k, name |-> d.name]
      BY <1>7 DEF Entry
    <3> QED BY <1>6, <3>2, <3>3
  <2>2. CASE h \notin Storages
    <3>1. h \in Nested /\ h \in Routers
      BY <1>0, <1>11, <2>2 DEF Inner, Nested
    <3>2. x \in Route(h, p)
      BY <1>9, <1>10, <2>2
    <3>3. s \in handlers[h]
      BY <1>0, <1>1, <3>1, <3>2, RoutedToHandler
    <3>4. Offset(h, s) \in Nat
      BY <3>1, <3>3 DEF Sizes
    <3>5. PICK c : c = Under(h, d)
      OBVIOUS
    <3>6. InHandler(h, Offset(h, s) + j, c) /\ Offset(h, s) + j \in Nat
      BY <1>6, <1>8, <2>2, <3>3, <3>4, <3>5 DEF InHandler, InRouter
    <3>7. c = [storage |-> s, key |-> k, name |-> c.name]
      BY <1>7, <3>5 DEF Under, Entry
    <3> QED BY <3>6, <3>7
  <2> QED BY <2>1, <2>2
<1>13. PICK l, c : l \in Nat /\ InHandler(h, l, c) /\ c = [storage |-> s, key |-> k, name |-> c.name]
  BY <1>12
<1>14. PICK e : e = Under(Root, c)
  OBVIOUS
<1>15. e.storage = s /\ e.key = k
  <2>1. PICK q : q = c.name
    OBVIOUS
  <2>2. c = [storage |-> s, key |-> k, name |-> q]
    BY <1>13, <2>1
  <2>3. e = [storage |-> s, key |-> k, name |-> <<NameOf[Root]>> \o q]
    BY <1>14, <2>2 DEF Under
  <2> QED BY <2>3
<1>16. InRoot(Offset(Root, h) + l, e) /\ Offset(Root, h) + l \in Nat
  BY <1>11, <1>13, <1>14 DEF InRoot
<1> QED BY <1>1, <1>15, <1>16, InRootListed

LEMMA ApartInit == Init => Apart
  BY FS_EmptySet DEF Init, Apart

LEMMA ApartNext == ASSUME Tree, Apart, [Next]_vars PROVE Apart'
<1>1. ASSUME NEW r \in Routers, NEW h \in Handlers, ResetHandler(r, h) PROVE Apart'
  <2>1. PICK K : K = handlers[r] \ Replaced(r, NameOf[h])
    OBVIOUS
  <2>2. handlers' = [handlers EXCEPT ![r] = K \union {h}]
    BY <1>1, <2>1 DEF ResetHandler
  <2>3. K \subseteq handlers[r] /\ \A g \in K : NameOf[g] # NameOf[h]
    BY <2>1 DEF Replaced
  <2>4. IsFiniteSet(K \union {h})
    BY <2>3, FS_Subset, FS_AddElement DEF Apart
  <2>5. handlers'[r] = K \union {h} /\ \A q \in Routers \ {r} : handlers'[q] = handlers[q]
    BY <2>2 DEF Tree
  <2>6. \A f, g \in K \union {h} : NameOf[f] = NameOf[g] => f = g
    BY <2>3 DEF Apart
  <2> QED BY <2>4, <2>5, <2>6 DEF Apart
<1>2. ASSUME NEW r \in Routers, NEW p, RemoveHandler(r, p) PROVE Apart'
  <2>1. PICK K : K = handlers[r] \ Replaced(r, p)
    OBVIOUS
  <2>2. handlers' = [handlers EXCEPT ![r] = K]
    BY <1>2, <2>1 DEF RemoveHandler
  <2>3. K \in SUBSET handlers[r] /\ IsFiniteSet(K)
    BY <2>1, FS_Subset DEF Apart
  <2>4. handlers'[r] = K /\ \A q \in Routers \ {r} : handlers'[q] = handlers[q]
    BY <2>2 DEF Tree
  <2> QED BY <2>3, <2>4 DEF Apart
<1>3. CASE UNCHANGED handlers
  BY <1>3 DEF Apart
<1>4. ASSUME NEW s, NEW k, Write(s, k) PROVE UNCHANGED handlers
  BY <1>4 DEF Write
<1>5. ASSUME NEW n, RemoteWrite(n) PROVE UNCHANGED handlers
  BY <1>5, <1>4 DEF RemoteWrite
<1>6. ASSUME NEW a, Release(a) \/ \E n \in Nodes : Acquire(a, n) PROVE UNCHANGED handlers
  BY <1>6 DEF Release, Acquire, tree
<1>7. CASE StartWalk \/ WalkOn \/ UNCHANGED vars
  BY <1>3, <1>7 DEF StartWalk, WalkOn, vars, tree
<1> QED BY <1>1, <1>2, <1>3, <1>4, <1>5, <1>6, <1>7 DEF Next, LocalWrite

LEMMA SizesAlways == Spec => []Sizes
<1>1. Tree /\ Apart /\ [Next]_vars => Tree' /\ Apart'
  BY TreeNext, ApartNext
<1> QED BY TreeInit, ApartInit, SizesAre, <1>1, PTL DEF Spec

\* For all handlers, names and registers: what access finds under a name is in the list
\* (RegistryRouter.cpp:20-27, 30-49).
THEOREM ReachedListed == Spec => []ReachedIsListed
  BY SizesAlways, SizesList, PTL

-----------------------------------------------------------------------------
(* A walk *)

\* Nothing was taken away.
Grown ==
  /\ \A r \in Routers : handlers[r] \subseteq handlers'[r]
  /\ \A s \in Storages :
       /\ Len(store[s]) <= Len(store'[s])
       /\ \A j \in 1 .. Len(store[s]) : store'[s][j] = store[s][j]

LEMMA StorageGrows ==
  ASSUME Tree, Grown, NEW s \in Storages, NEW j \in Nat, NEW e, InStorage(s, j, e)
  PROVE  InStorage(s, j, e)'
<1>1. store[s] \in Seq(Names)
  BY DEF Tree
<1>2. j + 1 \in 1 .. Len(store[s])
  BY <1>1 DEF InStorage
<1>3. store'[s][j + 1] = store[s][j + 1] /\ Len(store[s]) <= Len(store'[s])
  BY <1>2 DEF Grown
<1> QED BY <1>3 DEF InStorage, Entry

LEMMA WeightGrows ==
  ASSUME Sizes, Sizes', Grown PROVE \A h \in Inner : Weight[h] <= Weight'[h]
<1>1. \A h \in Inner : /\ Weight[h] = Count(h) /\ Count(h) \in Nat
                       /\ Weight'[h] = Count(h)' /\ Count(h)' \in Nat
  BY DEF Weight, Sizes
<1>2. \A s \in Storages : Count(s) <= Count(s)'
  BY DEF Grown, Count
<1>3. ASSUME NEW r \in Nested PROVE Count(r) <= Count(r)'
  <2>1. r \in Routers /\ Storages \subseteq Inner
    BY DEF Nested, Inner
  <2>2. PICK H, G, w, v : H = handlers[r] /\ G = handlers'[r] /\ w = Weight /\ v = Weight'
    OBVIOUS
  <2>3. H \subseteq Storages /\ G \subseteq Storages /\ H \in SUBSET G /\ IsFiniteSet(G)
    BY <2>1, <2>2 DEF Sizes, Tree, Grown
  <2>4. Numbers(w, H) /\ Numbers(v, G) /\ \A x \in H : w[x] <= v[x]
    BY <1>1, <1>2, <2>1, <2>2, <2>3 DEF Numbers
  <2>5. Total(w, H) <= Total(v, G)
    BY <2>3, <2>4, TotalGrows
  <2>6. Count(r) = Total(w, H) /\ Count(r)' = Total(v, G)
    BY <2>2 DEF Sizes, Room
  <2> QED BY <2>5, <2>6
<1> QED BY <1>1, <1>2, <1>3 DEF Inner

LEMMA OffsetGrows ==
  ASSUME Sizes, Sizes', Grown, NEW r \in Routers, NEW h \in handlers[r]
  PROVE  /\ h \in handlers'[r] /\ Offset(r, h) \in Nat /\ Offset(r, h)' \in Nat
         /\ Offset(r, h) <= Offset(r, h)'
<1>1. h \in handlers'[r]
  BY DEF Grown
<1>2. PICK B, C, w, v : B = Before(r, h) /\ C = Before(r, h)' /\ w = Weight /\ v = Weight'
  OBVIOUS
<1>3. B \subseteq handlers[r] /\ C \subseteq handlers'[r] /\ B \in SUBSET C
  BY <1>2 DEF Before, Grown
<1>4. handlers[r] \subseteq Inner /\ handlers'[r] \subseteq Inner
  <2>1. Root \in Routers
    BY RouterAssumption
  <2> QED BY <2>1 DEF Sizes, Tree, Inner, Handlers, Nested
<1>5. IsFiniteSet(C)
  BY <1>3, FS_Subset DEF Sizes
<1>6. \A x \in Inner : w[x] \in Nat /\ v[x] \in Nat /\ w[x] <= v[x]
  BY <1>2, WeightGrows DEF Sizes, Weight
<1>7. Numbers(w, B) /\ Numbers(v, C) /\ \A x \in B : w[x] <= v[x]
  BY <1>3, <1>4, <1>6 DEF Numbers
<1>8. Total(w, B) <= Total(v, C)
  BY <1>3, <1>5, <1>7, TotalGrows
<1>9. Offset(r, h) = Total(w, B) /\ Offset(r, h)' = Total(v, C)
  BY <1>1, <1>2 DEF Sizes
<1>10. Offset(r, h) \in Nat /\ Offset(r, h)' \in Nat
  BY <1>1 DEF Sizes
<1> QED BY <1>1, <1>8, <1>9, <1>10

\* What is listed stays listed, at the same index or further down.
LEMMA Persists ==
  ASSUME Sizes, Sizes', Grown, NEW i \in Nat, NEW e, InRoot(i, e)
  PROVE  \E j \in Nat : i <= j /\ InRoot(j, e)'
<1>0. Root \in Routers /\ handlers[Root] \subseteq Inner /\ Tree
  BY RouterAssumption, InnerHandlers DEF Sizes
<1>1. PICK h \in handlers[Root], l \in Nat :
        i = Offset(Root, h) + l /\ \E d : InHandler(h, l, d) /\ e = Under(Root, d)
  BY DEF InRoot
<1>2. PICK d : InHandler(h, l, d) /\ e = Under(Root, d)
  BY <1>1
<1>3. \E m \in Nat : l <= m /\ InHandler(h, m, d)'
  <2>1. CASE h \in Storages
    BY <1>0, <1>2, <2>1, StorageGrows DEF InHandler
  <2>2. CASE h \notin Storages
    <3>1. h \in Routers
      BY <1>0, <2>2 DEF Inner, Nested
    <3>2. PICK s \in handlers[h], j \in Nat :
            l = Offset(h, s) + j /\ \E c : InStorage(s, j, c) /\ d = Under(h, c)
      BY <1>2, <2>2 DEF InHandler, InRouter
    <3>3. PICK c : InStorage(s, j, c) /\ d = Under(h, c)
      BY <3>2
    <3>4. InStorage(s, j, c)'
      BY <1>0, <3>3, StorageGrows DEF InStorage
    <3>5. /\ s \in handlers'[h] /\ Offset(h, s) \in Nat /\ Offset(h, s)' \in Nat
          /\ Offset(h, s) <= Offset(h, s)'
      BY <3>1, OffsetGrows
    <3>6. PICK m : m = Offset(h, s)' + j
      OBVIOUS
    <3>7. m \in Nat /\ l <= m
      BY <3>2, <3>5, <3>6
    <3>8. InHandler(h, m, d)'
      BY <2>2, <3>3, <3>4, <3>5, <3>6 DEF InHandler, InRouter, Under
    <3> QED BY <3>7, <3>8
  <2> QED BY <2>1, <2>2
<1>4. PICK m \in Nat : l <= m /\ InHandler(h, m, d)'
  BY <1>3
<1>5. /\ h \in handlers'[Root] /\ Offset(Root, h) \in Nat /\ Offset(Root, h)' \in Nat
      /\ Offset(Root, h) <= Offset(Root, h)'
  BY <1>0, OffsetGrows
<1>6. PICK j : j = Offset(Root, h)' + m
  OBVIOUS
<1>7. j \in Nat /\ i <= j
  BY <1>1, <1>4, <1>5, <1>6
<1>8. InRoot(j, e)'
  BY <1>2, <1>4, <1>5, <1>6 DEF InRoot, Under
<1> QED BY <1>7, <1>8

\* A name that is listed at i or further down.
Ahead(n, i) == \E j \in Nat : i <= j /\ \E e : InRoot(j, e) /\ e.name = n

\* What the walk has not come by is still ahead of it.
WalkInv == index \in Nat /\ (walking /\ ~disturbed => \A n \in unseen : Ahead(n, index))

LEMMA StaysAhead ==
  ASSUME Sizes, Sizes', Grown, NEW i \in Nat, NEW n, Ahead(n, i) PROVE Ahead(n, i)'
<1>1. PICK j \in Nat : i <= j /\ \E e : InRoot(j, e) /\ e.name = n
  BY DEF Ahead
<1>2. PICK e : InRoot(j, e) /\ e.name = n
  BY <1>1
<1>3. PICK k \in Nat : j <= k /\ InRoot(k, e)'
  BY <1>2, Persists
<1> QED BY <1>1, <1>2, <1>3 DEF Ahead

LEMMA SameGrown == ASSUME Tree, UNCHANGED tree PROVE Grown
<1>1. \A s \in Storages : Len(store[s]) \in Nat
  BY DEF Tree
<1> QED BY <1>1 DEF tree, Grown

LEMMA WriteGrows == ASSUME Tree, NEW s \in Storages, NEW k, Write(s, k) PROVE Grown
<1>1. \A q \in Storages : Len(store[q]) \in Nat
  BY DEF Tree
<1>2. CASE store' = store
  BY <1>1, <1>2, SameGrown DEF Write, tree
<1>3. CASE store' = [store EXCEPT ![s] = Append(store[s], k)]
  <2>1. PICK q : q = store[s]
    OBVIOUS
  <2>2. q \in Seq(Names)
    BY <2>1 DEF Tree
  <2>3. Len(Append(q, k)) = Len(q) + 1 /\ \A j \in 1 .. Len(q) : Append(q, k)[j] = q[j]
    BY <2>2
  <2>4. store'[s] = Append(q, k) /\ \A p \in Storages \ {s} : store'[p] = store[p]
    BY <1>3, <2>1 DEF Tree
  <2>5. handlers' = handlers
    BY DEF Write
  <2> QED BY <1>1, <2>1, <2>2, <2>3, <2>4, <2>5 DEF Grown
<1> QED BY <1>2, <1>3 DEF Write

\* As long as no handler is taken away or replaced the tree grows.
LEMMA HandlersGrow ==
  ASSUME Tree, NEW r \in Routers, walking, ~disturbed',
         (\E h \in Handlers : ResetHandler(r, h)) \/ (\E p : RemoveHandler(r, p))
  PROVE  Grown
<1>1. \A s \in Storages : Len(store[s]) \in Nat
  BY DEF Tree
<1>2. store' = store
  BY DEF ResetHandler, RemoveHandler
<1>3. ASSUME NEW h \in Handlers, ResetHandler(r, h) PROVE handlers[r] \subseteq handlers'[r]
  <2>1. handlers'[r] = (handlers[r] \ Replaced(r, NameOf[h])) \union {h}
    BY <1>3 DEF ResetHandler, Tree
  <2>2. Replaced(r, NameOf[h]) \ {h} = {}
    BY <1>3 DEF ResetHandler
  <2> QED BY <2>1, <2>2
<1>4. ASSUME NEW p, RemoveHandler(r, p) PROVE handlers[r] \subseteq handlers'[r]
  <2>1. handlers'[r] = handlers[r] \ Replaced(r, p)
    BY <1>4 DEF RemoveHandler, Tree
  <2>2. Replaced(r, p) = {}
    BY <1>4 DEF RemoveHandler
  <2> QED BY <2>1, <2>2
<1>5. \A q \in Routers \ {r} : handlers'[q] = handlers[q]
  BY DEF ResetHandler, RemoveHandler, Tree
<1> QED BY <1>1, <1>2, <1>3, <1>4, <1>5 DEF Grown

LEMMA AheadKept ==
  ASSUME Sizes, Sizes', WalkInv, Grown, UNCHANGED walk \/ (UNCHANGED <<walking, index, unseen>> /\ ~disturbed)
  PROVE  WalkInv'
<1>1. index' = index /\ unseen' = unseen /\ walking' = walking /\ index \in Nat
  BY DEF walk, WalkInv
<1>2. ASSUME walking', ~disturbed', NEW n \in unseen' PROVE Ahead(n, index)'
  <2>1. PICK i : i = index
    OBVIOUS
  <2>2. Ahead(n, i) /\ i \in Nat
    BY <1>1, <1>2, <2>1 DEF WalkInv, walk
  <2>3. Ahead(n, i)'
    BY <2>2, StaysAhead
  <2> QED BY <1>1, <2>1, <2>3 DEF Ahead
<1> QED BY <1>1, <1>2 DEF WalkInv

LEMMA WalkNext ==
  ASSUME Sizes, Sizes', WalkInv, [Next]_vars PROVE WalkInv'
<1>0. Tree /\ index \in Nat
  BY DEF Sizes, WalkInv
<1>1. CASE StartWalk
  <2>1. Grown /\ index' = 0 /\ unseen' = NamesIn(Listed)
    BY <1>0, <1>1, SameGrown DEF StartWalk
  <2>2. ASSUME NEW n \in unseen' PROVE Ahead(n, index)'
    <3>1. PICK e \in Listed : n = e.name
      BY <2>1, <2>2 DEF NamesIn
    <3>2. PICK i \in 0 .. RootCount - 1 : e \in ListAt(i)
      BY <3>1 DEF Listed
    <3>3. i \in Nat
      OBVIOUS
    <3>4. InRoot(i, e)
      BY <3>2, <3>3, RootHas
    <3>5. Ahead(n, 0)
      BY <3>1, <3>3, <3>4 DEF Ahead
    <3>6. Ahead(n, 0)'
      BY <2>1, <3>5, StaysAhead
    <3> QED BY <2>1, <3>6 DEF Ahead
  <2> QED BY <2>1, <2>2 DEF WalkInv
<1>2. CASE WalkOn
  <2>1. Grown
    BY <1>0, <1>2, SameGrown DEF WalkOn
  <2>2. CASE ListAt(index) = {}
    BY <1>2, <2>2 DEF WalkOn, WalkInv
  <2>3. CASE ListAt(index) # {}
    <3>1. /\ walking /\ walking' = walking /\ disturbed' = disturbed /\ index' = index + 1
          /\ unseen' = unseen \ NamesIn(ListAt(index))
      BY <1>2, <2>3 DEF WalkOn
    <3>2. ASSUME ~disturbed', NEW n \in unseen' PROVE Ahead(n, index)'
      <4>1. n \in unseen /\ n \notin NamesIn(ListAt(index)) /\ Ahead(n, index)
        BY <3>1, <3>2 DEF WalkInv
      <4>2. PICK j \in Nat : index <= j /\ \E e : InRoot(j, e) /\ e.name = n
        BY <4>1 DEF Ahead
      <4>3. PICK e : InRoot(j, e) /\ e.name = n
        BY <4>2
      <4>4. e \in ListAt(j)
        BY <4>3, RootHas
      <4>5. j # index
        BY <4>1, <4>3, <4>4 DEF NamesIn
      <4>6. PICK i : i = index + 1
        OBVIOUS
      <4>7. i \in Nat /\ i <= j
        BY <1>0, <4>2, <4>5, <4>6
      <4>8. Ahead(n, i)
        BY <4>3, <4>7 DEF Ahead
      <4>9. Ahead(n, i)'
        BY <2>1, <4>7, <4>8, StaysAhead
      <4> QED BY <3>1, <4>6, <4>9 DEF Ahead
    <3> QED BY <1>0, <3>1, <3>2 DEF WalkInv
  <2> QED BY <2>2, <2>3
<1>3. ASSUME NEW s \in Storages, NEW k, Write(s, k) PROVE WalkInv'
  BY <1>0, <1>3, WriteGrows, AheadKept DEF Write
<1>4. ASSUME NEW n, RemoteWrite(n) PROVE WalkInv'
  <2>1. PICK x \in Reached(n) : Write(x[1], x[2])
    BY <1>4 DEF RemoteWrite
  <2>2. PICK s, k : s = x[1] /\ k = x[2]
    OBVIOUS
  <2>3. s \in Storages
    BY <2>2 DEF Reached
  <2> QED BY <1>3, <2>1, <2>2, <2>3
<1>5. ASSUME NEW r \in Routers,
             (\E h \in Handlers : ResetHandler(r, h)) \/ (\E p \in Parts : RemoveHandler(r, p))
      PROVE  WalkInv'
  <2>1. UNCHANGED <<walking, index, unseen>> /\ (disturbed => disturbed')
    BY <1>5 DEF ResetHandler, RemoveHandler
  <2>2. CASE walking /\ ~disturbed'
    <3>1. Grown
      BY <1>0, <1>5, <2>2, HandlersGrow
    <3> QED BY <2>1, <2>2, <3>1, AheadKept
  <2>3. CASE ~(walking /\ ~disturbed')
    BY <1>0, <2>1, <2>3 DEF WalkInv
  <2> QED BY <2>2, <2>3
<1>6. ASSUME NEW a, Release(a) \/ \E n \in Nodes : Acquire(a, n) PROVE WalkInv'
  <2>1. UNCHANGED tree /\ UNCHANGED walk
    BY <1>6 DEF Release, Acquire
  <2> QED BY <1>0, <2>1, SameGrown, AheadKept
<1>7. CASE UNCHANGED vars
  BY <1>0, <1>7, SameGrown, AheadKept DEF vars
<1> QED BY <1>1, <1>2, <1>3, <1>4, <1>5, <1>6, <1>7 DEF Next, LocalWrite

\* For all handlers, names and registers, made or added while a remote node walks the
\* list: a walk that ends has come by every name that was listed when it began, unless a
\* handler was taken away or replaced meanwhile (RegistryRouter.cpp:31-39).
THEOREM WalkComplete == Spec => WalkMissesNothing
<1> DEFINE Ends == walking /\ ~walking' /\ ~disturbed => unseen = {}
<1>1. ASSUME Sizes, WalkInv, [Next]_vars PROVE [Ends]_vars
  <2> SUFFICES ASSUME walking, ~walking', ~disturbed, unseen # {} PROVE FALSE
    OBVIOUS
  <2>1. WalkOn
    <3>1. \A s, k : ~Write(s, k)
      BY DEF Write, walk
    <3>2. \A n : ~RemoteWrite(n)
      BY <3>1 DEF RemoteWrite
    <3>3. \A r, h : ~ResetHandler(r, h) /\ ~RemoveHandler(r, h)
      BY DEF ResetHandler, RemoveHandler
    <3>4. \A a, n : ~Release(a) /\ ~Acquire(a, n)
      BY DEF Release, Acquire, walk
    <3>5. ~StartWalk /\ ~UNCHANGED vars
      BY DEF StartWalk, vars, walk
    <3> QED BY <1>1, <3>1, <3>2, <3>3, <3>4, <3>5 DEF Next, LocalWrite
  <2>2. ListAt(index) = {}
    BY <2>1 DEF WalkOn
  <2>3. PICK n \in unseen : Ahead(n, index)
    BY <1>1 DEF WalkInv
  <2>4. PICK j \in Nat : index <= j /\ \E e : InRoot(j, e) /\ e.name = n
    BY <2>3 DEF Ahead
  <2>5. j < RootCount /\ index \in Nat /\ RootCount \in Nat
    BY <1>1, <2>4, RootHas, RouterAssumption DEF Sizes, WalkInv
  <2>6. index < RootCount
    BY <2>4, <2>5
  <2> QED BY <1>1, <2>2, <2>5, <2>6, NothingMissing
<1>2. Sizes /\ Sizes' /\ WalkInv /\ [Next]_vars => WalkInv'
  BY WalkNext
<1>3. Init => WalkInv
  BY DEF Init, WalkInv
<1>4. Sizes /\ WalkInv /\ [Next]_vars => [Ends]_vars
  BY <1>1
<1> QED BY SizesAlways, <1>2, <1>3, <1>4, PTL DEF Spec, WalkMissesNothing
=============================================================================
