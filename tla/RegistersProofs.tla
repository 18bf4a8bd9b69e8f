-------------------------- MODULE RegistersProofs --------------------------
(***************************************************************************)
(* For any registers, handles, values and widths: a handle that nobody has *)
(* written past holds what the storage holds, and every item of every      *)
(* value has its kind's width.                                             *)
(***************************************************************************)
EXTENDS Registers, TLAPS

\* The record of a handle that lives, and what FreshHandlesMirror says of it.
Mirrors(h) ==
  Open(h) =>
    /\ handle[h].name \in Names
    /\ handle[h] = [name |-> handle[h].name, val |-> handle[h].val,
                    mutable |-> handle[h].mutable]
    /\ h \notin edited =>
         /\ CanEdit(h)
         /\ h \notin outdated => handle[h].val = store[handle[h].name]

Copies ==
  /\ DOMAIN store = Names /\ DOMAIN handle = Handles
  /\ \A h \in Handles : Mirrors(h)

-----------------------------------------------------------------------------
(* A write *)

LEMMA StoredAt ==
  ASSUME DOMAIN store = Names, NEW n \in Names, NEW v
  PROVE  /\ DOMAIN Stored(n, v) = Names
         /\ \A m \in Names \ {n} : Stored(n, v)[m] = store[m]
  BY DEF Stored

\* A copy of what a storage holds mirrors it.
LEMMA CopyMirrors ==
  ASSUME NEW h \in Handles, NEW n \in Names, handle'[h] = Copy(store', n) PROVE Mirrors(h)'
<1>1. PICK b \in BOOLEAN : b = (store'[n] # Empty)
  OBVIOUS
<1>2. handle'[h] = [name |-> n, val |-> store'[n], mutable |-> b]
  BY <1>1 DEF Copy
<1>3. handle'[h].name = n /\ handle'[h].val = store'[n] /\ handle'[h].mutable = b
  BY <1>2
<1>4. CanEdit(h)'
  BY <1>1, <1>3 DEF CanEdit
<1> QED BY <1>2, <1>3, <1>4 DEF Mirrors

\* The handles that are left alone have been written past, or see no difference.
LEMMA WriteKeeps ==
  ASSUME Copies, NEW n \in Names, NEW v, NEW H \in SUBSET Handles,
         store' = Stored(n, v), DOMAIN handle' = Handles,
         \A g \in Handles \ H : /\ handle'[g] = handle[g]
                                /\ g \in edited => g \in edited'
                                /\ g \in PassedBy(H, n, v) => g \in outdated',
         \A h \in H : Mirrors(h)'
  PROVE  Copies'
<1>1. DOMAIN store' = Names
  BY StoredAt DEF Copies
<1>2. ASSUME NEW g \in Handles \ H, Open(g)' PROVE Mirrors(g)'
  <2>1. Open(g) /\ handle'[g] = handle[g] /\ Mirrors(g)
    BY <1>2 DEF Open, Copies
  <2>2. CanEdit(g)' <=> CanEdit(g)
    BY <2>1 DEF CanEdit
  <2>3. ASSUME g \notin edited', g \notin outdated'
        PROVE  handle[g].val = store'[handle[g].name]
    <3>1. g \notin edited /\ g \notin PassedBy(H, n, v)
      BY <2>3
    <3>2. g \notin outdated
      BY <3>1 DEF PassedBy
    <3>3. handle[g].val = store[handle[g].name] /\ handle[g].name \in Names
      BY <2>1, <3>1, <3>2 DEF Mirrors
    <3>4. CASE Stored(n, v) = store
      BY <3>3, <3>4
    <3>5. CASE Stored(n, v) # store
      <4>1. g \notin On(n)
        BY <3>1, <3>5 DEF PassedBy
      <4>2. handle[g].name # n
        BY <2>1, <4>1 DEF On
      <4> QED BY <3>3, <4>2, StoredAt DEF Copies
    <3> QED BY <3>4, <3>5
  <2> QED BY <2>1, <2>2, <2>3 DEF Mirrors
<1>3. \A g \in Handles : Mirrors(g)'
  BY <1>2 DEF Mirrors
<1> QED BY <1>1, <1>3 DEF Copies

LEMMA SetAsKeeps ==
  ASSUME Copies, NEW h \in Handles, NEW v, Open(h), SetAs(h, v) PROVE Copies'
<1>1. PICK n : n = handle[h].name
  OBVIOUS
<1>2. n \in Names
  BY <1>1 DEF Copies, Mirrors
<1>3. /\ store' = Stored(n, v) /\ handle' = [handle EXCEPT ![h] = Copy(store', n)]
      /\ edited' = edited \ {h} /\ outdated' = PassedBy({h}, n, v) \ {h}
  BY <1>1 DEF SetAs, CopyTaken
<1>4. DOMAIN handle' = Handles /\ handle'[h] = Copy(store', n)
      /\ \A g \in Handles \ {h} : handle'[g] = handle[g]
  BY <1>3 DEF Copies
<1>5. Mirrors(h)'
  BY <1>2, <1>4, CopyMirrors
<1> QED BY <1>2, <1>3, <1>4, <1>5, WriteKeeps

\* SetDefault and OpenWithDefault.
LEMMA DefaultKeeps ==
  ASSUME Copies, NEW h \in Handles, NEW n \in Names, NEW v, ~Open(h),
         store' = IF IsThere(n) THEN store ELSE Stored(n, v),
         handle' = [handle EXCEPT ![h] = Copy(store', n)],
         outdated' = IF IsThere(n) THEN outdated ELSE PassedBy({h}, n, v),
         edited' = edited
  PROVE  Copies'
<1>1. DOMAIN handle' = Handles /\ handle'[h] = Copy(store', n)
      /\ \A g \in Handles \ {h} : handle'[g] = handle[g]
  BY DEF Copies
<1>2. Mirrors(h)'
  BY <1>1, CopyMirrors
<1>3. CASE IsThere(n)
  <2>1. ASSUME NEW g \in Handles \ {h} PROVE Mirrors(g)'
    BY <1>1, <1>3 DEF Copies, Mirrors, Open, CanEdit
  <2> QED BY <1>1, <1>2, <1>3, <2>1 DEF Copies
<1>4. CASE ~IsThere(n)
  BY <1>1, <1>2, <1>4, WriteKeeps
<1> QED BY <1>3, <1>4

\* RemoteAccess and RemoteAccessV2.
LEMMA RemoteKeeps ==
  ASSUME Copies, NEW n \in Names, NEW v, store' = Stored(n, v), handle' = handle,
         edited' = edited, outdated' = PassedBy({}, n, v)
  PROVE  Copies'
  BY WriteKeeps DEF Copies

LEMMA CloseKeeps == ASSUME Copies, NEW h \in Handles, Close(h) PROVE Copies'
<1>1. PICK n, v : n = handle[h].name /\ v = handle[h].val
  OBVIOUS
<1>2. n \in Names
  BY <1>1 DEF Copies, Mirrors, Close
<1>3. /\ store' = Stored(n, v) /\ handle' = [handle EXCEPT ![h] = Closed]
      /\ edited' = edited \ {h} /\ outdated' = PassedBy({h}, n, v) \ {h}
  BY <1>1 DEF Close
<1>4. DOMAIN handle' = Handles /\ handle'[h] = Closed
      /\ \A g \in Handles \ {h} : handle'[g] = handle[g]
  BY <1>3 DEF Copies
<1>5. Mirrors(h)'
  BY <1>4 DEF Mirrors, Open
<1> QED BY <1>2, <1>3, <1>4, <1>5, WriteKeeps

-----------------------------------------------------------------------------
(* Conversions *)

\* What a file may hold, written by a storage or by people.
IsDocument(d) ==
  /\ d.type \in Kinds \union {"unknown", "empty"} /\ d.named \in BOOLEAN
  /\ d.form \in {"list", "text", "none"} /\ d.items \in Seq(Int)
  /\ d.form = "text" => d.items \in Seq(Items("string"))

LEMMA KindsAre ==
  /\ "empty" \notin Kinds /\ "string" \in Kinds /\ "bit" \in Kinds
  /\ ListKinds = Kinds \ {"string"} /\ RealKinds \subseteq ListKinds
  /\ "bit" \notin RealKinds
  BY DEF Kinds, ListKinds, NumberKinds, IntegerKinds, NaturalKinds, RealKinds

LEMMA ItemRange ==
  ASSUME NEW k \in Kinds
  PROVE  /\ Low[k] \in Int /\ High[k] \in Int /\ Low[k] <= 0 /\ 1 <= High[k]
         /\ 0 \in Items(k) /\ 1 \in Items(k) /\ Items(k) \subseteq Int
  BY ValueAssumption DEF Items

LEMMA SeqOfMore ==
  ASSUME NEW S, NEW T, S \subseteq T, NEW q \in Seq(S) PROVE q \in Seq(T)
  OBVIOUS

\* Item by item a sequence stays a sequence.
LEMMA ItemsBySeq ==
  ASSUME NEW s \in Seq(Int), NEW T, NEW F, DOMAIN F = DOMAIN s,
         F = [i \in DOMAIN s |-> F[i]], \A i \in DOMAIN s : F[i] \in T
  PROVE  F \in Seq(T)
<1>1. Len(s) \in Nat /\ DOMAIN s = 1 .. Len(s)
  OBVIOUS
<1>2. PICK n \in Nat : n = Len(s)
  BY <1>1
<1>3. F \in [1 .. n -> T]
  BY <1>1, <1>2
<1> QED BY <1>3

\* The remainder by any width.
LEMMA ModRange == ASSUME NEW a \in Int, NEW w \in Nat \ {0} PROVE a % w \in 0 .. w - 1
  OBVIOUS

LEMMA CastFits == ASSUME NEW k \in ListKinds, NEW x \in Int PROVE Cast(k, x) \in Items(k)
<1>0. k \in Kinds
  BY KindsAre
<1>1. PICK l \in Int, g \in Int : l = Low[k] /\ g = High[k]
  BY <1>0, ItemRange
<1>2. l <= 0 /\ 1 <= g /\ 0 \in Items(k) /\ 1 \in Items(k) /\ Items(k) = l .. g
  BY <1>0, <1>1, ItemRange DEF Items
<1>3. CASE k = "bit"
  BY <1>2, <1>3, KindsAre DEF Cast
<1>4. CASE k # "bit" /\ k \in RealKinds
  <2>1. Nearest(k, x) \in l .. g
    BY <1>1, <1>2 DEF Nearest
  <2> QED BY <1>2, <1>4, <2>1 DEF Cast
<1>5. CASE k # "bit" /\ k \notin RealKinds
  <2>1. (x - l) % (g - l + 1) \in 0 .. (g - l + 1) - 1
    BY <1>2, ModRange
  <2>2. PICK m \in Int : m = (x - l) % (g - l + 1)
    BY <2>1
  <2>3. l + m \in l .. g
    BY <2>1, <2>2, <1>2
  <2>4. Cast(k, x) = l + m
    BY <1>1, <1>5, <2>2 DEF Cast
  <2> QED BY <1>2, <2>3, <2>4
<1> QED BY <1>3, <1>4, <1>5

LEMMA ToNumberFits == ASSUME NEW k \in ListKinds, NEW x \in Int PROVE ToNumber(k, x) \in Items(k)
<1>0. k \in Kinds
  BY KindsAre
<1>1. PICK l \in Int, g \in Int : l = Low[k] /\ g = High[k]
  BY <1>0, ItemRange
<1>2. l <= 0 /\ 1 <= g /\ 0 \in Items(k) /\ Items(k) = l .. g
  BY <1>0, <1>1, ItemRange DEF Items
<1>3. Nearest(k, x) \in Items(k)
  BY <1>1, <1>2 DEF Nearest
<1> QED BY <1>2, <1>3 DEF ToNumber

LEMMA AsDoubleInt == ASSUME NEW k, NEW x \in Int PROVE AsDouble(k, x) \in Int
  BY DEF AsDouble

\* Whatever is read from a document is a value.
LEMMA ReadIsValue == ASSUME NEW d, IsDocument(d) PROVE IsValue(Read(d))
<1>0. d.items \in Seq(Int)
  BY DEF IsDocument
<1>1. ASSUME NEW k \in ListKinds PROVE IsValue(Value(k, CastItems(k, d.items)))
  <2>1. PICK F : F = [i \in DOMAIN d.items |-> Cast(k, d.items[i])]
    OBVIOUS
  <2>2. \A i \in DOMAIN d.items : F[i] \in Items(k)
    BY <1>0, <2>1, CastFits
  <2>3. F \in Seq(Items(k))
    BY <1>0, <2>1, <2>2, ItemsBySeq
  <2>4. CastItems(k, d.items) = F
    BY <2>1 DEF CastItems
  <2> QED BY <1>1, <2>3, <2>4, KindsAre DEF IsValue, Value
<1>2. ASSUME NEW k \in ListKinds PROVE IsValue(Value(k, ToNumbers(k, d.items)))
  <2>1. PICK F : F = [i \in DOMAIN d.items |-> ToNumber(k, d.items[i])]
    OBVIOUS
  <2>2. \A i \in DOMAIN d.items : F[i] \in Items(k)
    BY <1>0, <2>1, ToNumberFits
  <2>3. F \in Seq(Items(k))
    BY <1>0, <2>1, <2>2, ItemsBySeq
  <2>4. ToNumbers(k, d.items) = F
    BY <2>1 DEF ToNumbers
  <2> QED BY <1>2, <2>3, <2>4, KindsAre DEF IsValue, Value
<1>3. IsValue(Empty)
  BY DEF IsValue
<1>4. ASSUME NEW q \in Seq(Items("string")) PROVE IsValue(Value("string", q))
  BY KindsAre DEF IsValue, Value
<1>5. <<>> \in Seq(Items("string"))
  OBVIOUS
<1>6. IsValue(FromVariant(d))
  BY <1>1, <1>3, <1>4, <1>5 DEF FromVariant, IsDocument
<1>7. IsValue(FromBoostJson(d))
  BY <1>2, <1>3, <1>4 DEF FromBoostJson, IsDocument
<1> QED BY <1>6, <1>7 DEF Read

\* Whatever is written is a document.
LEMMA WrittenIsDocument == ASSUME NEW v, IsValue(v) PROVE IsDocument(Write(v))
<1>1. ASSUME v = Empty PROVE IsDocument(ToQtJson(v)) /\ IsDocument(ToBoostJson(v))
  <2>1. ToVariant(v) = [type |-> "empty", named |-> FALSE, form |-> "none", items |-> <<>>]
    BY <1>1 DEF ToVariant, NoDocument, Document, Empty
  <2>2. ToQtJson(v) = ToVariant(v) /\ ToBoostJson(v) = ToVariant(v)
    BY <2>1, KindsAre DEF ToQtJson, ToBoostJson
  <2>3. <<>> \in Seq(Int)
    OBVIOUS
  <2> QED BY <2>1, <2>2, <2>3 DEF IsDocument
<1>2. ASSUME v # Empty, v.kind = "string"
      PROVE  IsDocument(ToQtJson(v)) /\ IsDocument(ToBoostJson(v))
  <2>1. v.items \in Seq(Items("string"))
    BY <1>2 DEF IsValue
  <2>2. v.items \in Seq(Int)
    BY <2>1, KindsAre, ItemRange, SeqOfMore
  <2>3. ToVariant(v) = [type |-> "string", named |-> FALSE, form |-> "text", items |-> v.items]
    BY <1>2 DEF ToVariant, Document
  <2>4. ToQtJson(v) = ToVariant(v) /\ ToBoostJson(v) = ToVariant(v)
    BY <2>3, KindsAre DEF ToQtJson, ToBoostJson
  <2> QED BY <2>1, <2>2, <2>3, <2>4, KindsAre DEF IsDocument
<1>3. ASSUME v # Empty, v.kind # "string"
      PROVE  IsDocument(ToQtJson(v)) /\ IsDocument(ToBoostJson(v))
  <2>1. PICK k, s : k = v.kind /\ s = v.items
    OBVIOUS
  <2>2. k \in Kinds /\ k # "string" /\ s \in Seq(Items(k))
    BY <1>3, <2>1 DEF IsValue
  <2>3. s \in Seq(Int)
    BY <2>2, ItemRange, SeqOfMore
  <2>4. ToVariant(v) = [type |-> k, named |-> FALSE, form |-> "list", items |-> s]
    BY <1>3, <2>1 DEF ToVariant, Document
  <2>5. PICK F : F = [i \in DOMAIN s |-> AsDouble(k, s[i])]
    OBVIOUS
  <2>6. F \in Seq(Int)
    <3>1. \A i \in DOMAIN s : F[i] \in Int
      BY <2>3, <2>5, AsDoubleInt
    <3> QED BY <2>3, <2>5, <3>1, ItemsBySeq
  <2>7. PICK d : d = ToVariant(v)
    OBVIOUS
  <2>8. /\ d = [type |-> k, named |-> FALSE, form |-> "list", items |-> s]
        /\ d.type = k /\ d.items = s /\ d.form = "list"
    BY <2>4, <2>7
  <2>9. AsDoubles(d.type, d.items) = F
    BY <2>5, <2>8 DEF AsDoubles
  <2>10. ToQtJson(v) = [d EXCEPT !.items = F]
    BY <2>7, <2>8, <2>9 DEF ToQtJson
  <2>11. ToBoostJson(v) = d \/ ToBoostJson(v) = [d EXCEPT !.items = F]
    BY <2>7, <2>8, <2>9 DEF ToBoostJson
  <2> QED BY <2>2, <2>3, <2>6, <2>8, <2>10, <2>11 DEF IsDocument
<1> QED BY <1>1, <1>2, <1>3 DEF Write

-----------------------------------------------------------------------------
(* The invariant *)

RInv ==
  /\ TypeOK /\ Copies
  /\ DOMAIN file = Names /\ \A n \in Names : IsDocument(file[n])

LEMMA StoredIsValue ==
  ASSUME RInv, NEW n \in Names, NEW v, IsValue(v), NEW m \in Names
  PROVE  IsValue(Stored(n, v)[m])
  BY DEF RInv, Copies, TypeOK, Stored

\* The value of a handle.
LEMMA HandleValue ==
  ASSUME RInv, NEW h \in Handles, Open(h)
  PROVE  running /\ handle[h].name \in Names /\ IsValue(handle[h].val)
  BY DEF RInv, TypeOK

LEMMA EmptyIsValue == IsValue(Empty)
  BY DEF IsValue

LEMMA ValuesAre == \A v \in Values : v # Empty /\ IsValue(v)
  BY RegistersAssumption

\* What every step keeps of the types but for the values it writes.
LEMMA TypesKept ==
  ASSUME RInv, UNCHANGED kept, running' \in BOOLEAN,
         \A n \in Names : IsValue(store'[n]),
         \A h \in Handles : \/ handle'[h] = handle[h] /\ (running => running')
                            \/ handle'[h] = Closed
                            \/ \E n \in Names : handle'[h] = Copy(store', n) /\ running'
                            \/ \E v : /\ IsValue(v) /\ Open(h) /\ running'
                                      /\ handle'[h] = [handle[h] EXCEPT !.val = v],
         edited' \subseteq Handles, outdated' \subseteq Handles
  PROVE  TypeOK'
<1>1. ASSUME NEW h \in Handles, Open(h)'
      PROVE  /\ running' /\ handle'[h].name \in Names /\ handle'[h].mutable \in BOOLEAN
             /\ IsValue(handle'[h].val)
  <2>1. CASE handle'[h] = handle[h] /\ (running => running')
    BY <1>1, <2>1 DEF RInv, TypeOK, Open
  <2>2. CASE handle'[h] = Closed
    BY <1>1, <2>2 DEF Open
  <2>3. ASSUME NEW n \in Names, handle'[h] = Copy(store', n), running'
        PROVE  /\ handle'[h].name \in Names /\ handle'[h].mutable \in BOOLEAN
               /\ IsValue(handle'[h].val)
    BY <2>3 DEF Copy
  <2>4. ASSUME NEW v, IsValue(v), Open(h), handle'[h] = [handle[h] EXCEPT !.val = v]
        PROVE  /\ handle'[h].name \in Names /\ handle'[h].mutable \in BOOLEAN
               /\ IsValue(handle'[h].val)
    <3>1. PICK n, w, b : /\ handle[h] = [name |-> n, val |-> w, mutable |-> b]
                         /\ n = handle[h].name /\ b = handle[h].mutable
      BY <2>4 DEF RInv, Copies, Mirrors
    <3>2. handle'[h] = [name |-> n, val |-> v, mutable |-> b]
      BY <2>4, <3>1
    <3>3. n \in Names /\ b \in BOOLEAN
      BY <2>4, <3>1 DEF RInv, TypeOK
    <3> QED BY <2>4, <3>2, <3>3
  <2> QED BY <2>1, <2>2, <2>3, <2>4
<1> QED BY <1>1 DEF TypeOK, RInv, kept

LEMMA FileKept ==
  ASSUME RInv, UNCHANGED file
  PROVE  DOMAIN file' = Names /\ \A n \in Names : IsDocument(file'[n])
  BY DEF RInv

LEMMA SetAsStep ==
  ASSUME RInv, NEW h \in Handles, Open(h), NEW v, IsValue(v), SetAs(h, v) PROVE RInv'
<1>1. PICK n : n = handle[h].name
  OBVIOUS
<1>2. n \in Names /\ running
  BY <1>1, HandleValue
<1>3. /\ store' = Stored(n, v) /\ handle' = [handle EXCEPT ![h] = Copy(store', n)]
      /\ edited' = edited \ {h} /\ outdated' = PassedBy({h}, n, v) \ {h}
      /\ UNCHANGED kept /\ running' = running /\ file' = file
  BY <1>1 DEF SetAs, CopyTaken
<1>4. Copies'
  BY SetAsKeeps DEF RInv
<1>5. handle'[h] = Copy(store', n) /\ \A g \in Handles \ {h} : handle'[g] = handle[g]
  BY <1>3 DEF RInv, Copies
<1>6. edited' \subseteq Handles /\ outdated' \subseteq Handles
  BY <1>3 DEF PassedBy, On, RInv, TypeOK
<1>7. \A m \in Names : IsValue(store'[m])
  BY <1>2, <1>3, StoredIsValue
<1>8. running' \in BOOLEAN
  BY <1>3 DEF RInv, TypeOK
<1>9. TypeOK'
  BY <1>2, <1>3, <1>5, <1>6, <1>7, <1>8, TypesKept
<1> QED BY <1>3, <1>4, <1>9, FileKept DEF RInv

LEMMA DefaultStep ==
  ASSUME RInv, NEW h \in Handles, NEW n \in Names, NEW v, IsValue(v),
         SetDefault(h, n, v) \/ OpenWithDefault(h, n, v)
  PROVE  RInv'
<1>1. /\ running /\ ~Open(h)
      /\ store' = IF IsThere(n) THEN store ELSE Stored(n, v)
      /\ handle' = [handle EXCEPT ![h] = Copy(store', n)]
      /\ outdated' = IF IsThere(n) THEN outdated ELSE PassedBy({h}, n, v)
      /\ UNCHANGED kept /\ running' = running /\ file' = file /\ edited' = edited
  BY DEF SetDefault, OpenWithDefault
<1>2. Copies'
  BY <1>1, DefaultKeeps DEF RInv
<1>3. handle'[h] = Copy(store', n) /\ \A g \in Handles \ {h} : handle'[g] = handle[g]
  BY <1>1 DEF RInv, Copies
<1>4. edited' \subseteq Handles /\ outdated' \subseteq Handles
  BY <1>1 DEF PassedBy, On, RInv, TypeOK
<1>5. \A m \in Names : IsValue(store'[m])
  BY <1>1, StoredIsValue DEF RInv, TypeOK
<1>6. running' \in BOOLEAN
  BY <1>1 DEF RInv, TypeOK
<1>7. TypeOK'
  BY <1>1, <1>3, <1>4, <1>5, <1>6, TypesKept
<1> QED BY <1>1, <1>2, <1>7, FileKept DEF RInv

LEMMA RemoteStep ==
  ASSUME RInv, NEW n \in Names, NEW v, IsValue(v), RemoteAccess(n, v) \/ RemoteAccessV2(n, v)
  PROVE  RInv'
<1>1. /\ running /\ store' = Stored(n, v) /\ outdated' = PassedBy({}, n, v)
      /\ UNCHANGED kept /\ running' = running /\ file' = file /\ handle' = handle
      /\ edited' = edited
  BY DEF RemoteAccess, RemoteAccessV2
<1>2. Copies'
  BY <1>1, RemoteKeeps DEF RInv
<1>3. edited' \subseteq Handles /\ outdated' \subseteq Handles
  BY <1>1 DEF PassedBy, On, RInv, TypeOK
<1>4. \A m \in Names : IsValue(store'[m])
  BY <1>1, StoredIsValue
<1>5. running' \in BOOLEAN
  BY <1>1 DEF RInv, TypeOK
<1>6. TypeOK'
  BY <1>1, <1>3, <1>4, <1>5, TypesKept
<1> QED BY <1>1, <1>2, <1>6, FileKept DEF RInv

LEMMA CloseStep == ASSUME RInv, NEW h \in Handles, Close(h) PROVE RInv'
<1>1. PICK n, v : n = handle[h].name /\ v = handle[h].val
  OBVIOUS
<1>2. n \in Names /\ IsValue(v)
  BY <1>1, HandleValue DEF Close
<1>3. /\ store' = Stored(n, v) /\ handle' = [handle EXCEPT ![h] = Closed]
      /\ edited' = edited \ {h} /\ outdated' = PassedBy({h}, n, v) \ {h}
      /\ UNCHANGED kept /\ running' = running /\ file' = file
  BY <1>1 DEF Close
<1>4. Copies'
  BY CloseKeeps DEF RInv
<1>5. handle'[h] = Closed /\ \A g \in Handles \ {h} : handle'[g] = handle[g]
  BY <1>3 DEF RInv, Copies
<1>6. edited' \subseteq Handles /\ outdated' \subseteq Handles
  BY <1>3 DEF PassedBy, On, RInv, TypeOK
<1>7. \A m \in Names : IsValue(store'[m])
  BY <1>2, <1>3, StoredIsValue
<1>8. running' \in BOOLEAN
  BY <1>3 DEF RInv, TypeOK
<1>9. TypeOK'
  BY <1>3, <1>5, <1>6, <1>7, <1>8, TypesKept
<1> QED BY <1>3, <1>4, <1>9, FileKept DEF RInv

\* A step that changes one handle and nothing that is stored.
LEMMA HandleStep ==
  ASSUME RInv, NEW h \in Handles, NEW w, UNCHANGED <<kept, running, store, file>>,
         handle' = [handle EXCEPT ![h] = w],
         edited' \subseteq Handles, outdated' \subseteq Handles,
         \A g \in Handles \ {h} : /\ g \in edited' <=> g \in edited
                                  /\ g \in outdated' <=> g \in outdated,
         Mirrors(h)',
         \/ w = Closed
         \/ \E n \in Names : w = Copy(store', n) /\ running
         \/ \E v : IsValue(v) /\ Open(h) /\ w = [handle[h] EXCEPT !.val = v]
  PROVE  RInv'
<1>1. /\ DOMAIN handle' = Handles /\ handle'[h] = w
      /\ \A g \in Handles \ {h} : handle'[g] = handle[g]
  BY DEF RInv, Copies
<1>2. ASSUME NEW g \in Handles \ {h} PROVE Mirrors(g)'
  BY <1>1 DEF RInv, Copies, Mirrors, Open, CanEdit
<1>3. Copies'
  BY <1>1, <1>2 DEF RInv, Copies
<1>4. running' \in BOOLEAN /\ (running => running') /\ (Open(h) => running')
  BY HandleValue DEF RInv, TypeOK
<1>5. \A m \in Names : IsValue(store'[m])
  BY DEF RInv, TypeOK
<1>6. TypeOK'
  BY <1>1, <1>4, <1>5, TypesKept
<1> QED BY <1>3, <1>6, FileKept DEF RInv

LEMMA UpdateStep == ASSUME RInv, NEW h \in Handles, Update(h) PROVE RInv'
<1>1. PICK n : n = handle[h].name
  OBVIOUS
<1>2. n \in Names /\ running
  BY <1>1, HandleValue DEF Update
<1>3. /\ UNCHANGED <<kept, running, store, file>>
      /\ handle' = [handle EXCEPT ![h] = Copy(store', n)]
      /\ edited' = edited \ {h} /\ outdated' = outdated \ {h}
  BY <1>1 DEF Update, CopyTaken
<1>4. edited' \subseteq Handles /\ outdated' \subseteq Handles
  BY <1>3 DEF RInv, TypeOK
<1>5. Mirrors(h)'
  BY <1>2, <1>3, CopyMirrors DEF RInv, Copies
<1> QED BY <1>2, <1>3, <1>4, <1>5, HandleStep

LEMMA OpenStep ==
  ASSUME RInv, NEW h \in Handles, NEW n \in Names, OpenRegister(h, n) PROVE RInv'
<1>1. /\ UNCHANGED <<kept, running, store, file>> /\ running
      /\ handle' = [handle EXCEPT ![h] = Copy(store', n)]
      /\ edited' = edited /\ outdated' = outdated
  BY DEF OpenRegister
<1>2. edited' \subseteq Handles /\ outdated' \subseteq Handles
  BY <1>1 DEF RInv, TypeOK
<1>3. Mirrors(h)'
  BY <1>1, CopyMirrors DEF RInv, Copies
<1> QED BY <1>1, <1>2, <1>3, HandleStep

LEMMA ForgetStep == ASSUME RInv, NEW h \in Handles, Forget(h) PROVE RInv'
<1>1. /\ UNCHANGED <<kept, running, store, file>>
      /\ handle' = [handle EXCEPT ![h] = Closed]
      /\ edited' = edited \ {h} /\ outdated' = outdated \ {h}
  BY DEF Forget
<1>2. edited' \subseteq Handles /\ outdated' \subseteq Handles
  BY <1>1 DEF RInv, TypeOK
<1>3. Mirrors(h)'
  BY <1>1 DEF Mirrors, Open, RInv, Copies
<1> QED BY <1>1, <1>2, <1>3, HandleStep

LEMMA EditCopyStep ==
  ASSUME RInv, NEW h \in Handles, NEW v, IsValue(v), EditCopy(h, v) PROVE RInv'
<1>1. /\ Open(h) /\ UNCHANGED <<kept, running, store, file>>
      /\ handle' = [handle EXCEPT ![h] = [handle[h] EXCEPT !.val = v]]
      /\ edited' = edited \union {h} /\ outdated' = outdated
  BY DEF EditCopy
<1>2. edited' \subseteq Handles /\ outdated' \subseteq Handles
  BY <1>1 DEF RInv, TypeOK
<1>3. PICK n, u, b : handle[h] = [name |-> n, val |-> u, mutable |-> b] /\ n \in Names
  BY <1>1 DEF RInv, Copies, Mirrors
<1>4. handle'[h] = [name |-> n, val |-> v, mutable |-> b]
  BY <1>1, <1>3 DEF RInv, Copies
<1>5. Mirrors(h)'
  BY <1>1, <1>3, <1>4 DEF Mirrors
<1> QED BY <1>1, <1>2, <1>5, HandleStep

LEMMA SaveStep == ASSUME RInv, Save PROVE RInv'
<1>1. /\ UNCHANGED <<kept, running, store, handle, edited, outdated>>
      /\ file' = [n \in Names |->
                   IF IsThere(n) \/ format = "boost" THEN Write(store[n]) ELSE file[n]]
  BY DEF Save
<1>2. \A n \in Names : IsDocument(file'[n])
  <2>1. \A n \in Names : IsDocument(Write(store[n])) /\ IsDocument(file[n])
    BY WrittenIsDocument DEF RInv, TypeOK
  <2> QED BY <1>1, <2>1
<1>3. DOMAIN file' = Names
  BY <1>1
<1>4. Copies' /\ TypeOK'
  BY <1>1 DEF RInv, Copies, Mirrors, TypeOK, Open, CanEdit, kept
<1> QED BY <1>2, <1>3, <1>4 DEF RInv

\* Where no handle is open there is nothing to mirror.
LEMMA NothingToMirror ==
  ASSUME DOMAIN store' = Names, DOMAIN handle' = Handles,
         \A h \in Handles : handle'[h] = Closed
  PROVE  Copies'
  BY DEF Copies, Mirrors, Open

LEMMA StopStep == ASSUME RInv, Stop PROVE RInv'
<1>1. /\ UNCHANGED <<kept, file>> /\ running' = FALSE
      /\ store' = [n \in Names |-> Empty] /\ handle' = [h \in Handles |-> Closed]
      /\ edited' = {} /\ outdated' = {}
  BY DEF Stop
<1>2. Copies'
  BY <1>1, NothingToMirror
<1>3. TypeOK'
  BY <1>1, EmptyIsValue, TypesKept
<1> QED BY <1>1, <1>2, <1>3, FileKept DEF RInv

LEMMA StartStep == ASSUME RInv, Start PROVE RInv'
<1>1. /\ UNCHANGED <<kept, file, handle, edited, outdated>> /\ ~running /\ running' = TRUE
      /\ store' = [n \in Names |-> Read(file[n])]
  BY DEF Start
<1>2. \A h \in Handles : handle'[h] = Closed
  BY <1>1, HandleValue DEF Open
<1>3. Copies'
  BY <1>1, <1>2, NothingToMirror DEF RInv, Copies
<1>4. \A n \in Names : IsValue(store'[n])
  BY <1>1, ReadIsValue DEF RInv
<1>5. edited' \subseteq Handles /\ outdated' \subseteq Handles
  BY <1>1 DEF RInv, TypeOK
<1>6. TypeOK'
  BY <1>1, <1>2, <1>4, <1>5, TypesKept
<1> QED BY <1>1, <1>3, <1>6, FileKept DEF RInv

LEMMA EditFileStep ==
  ASSUME RInv, NEW n \in Names, NEW d \in HandMade, EditFile(n, d) PROVE RInv'
<1>1. /\ UNCHANGED <<kept, running, store, handle, edited, outdated>>
      /\ file' = [file EXCEPT ![n] = d]
  BY DEF EditFile
<1>2. IsDocument(d)
  BY RegistersAssumption DEF IsDocument
<1>3. DOMAIN file' = Names /\ \A m \in Names : IsDocument(file'[m])
  BY <1>1, <1>2 DEF RInv
<1>4. Copies' /\ TypeOK'
  BY <1>1 DEF RInv, Copies, Mirrors, TypeOK, Open, CanEdit, kept
<1> QED BY <1>3, <1>4 DEF RInv

-----------------------------------------------------------------------------
(* The program *)

LEMMA InitR == ASSUME Init PROVE RInv
<1>1. \A n \in Names : store[n] = Empty /\ file[n] = NoDocument
  BY DEF Init
<1>2. \A h \in Handles : ~Open(h)
  BY DEF Init, Open
<1>3. IsDocument(NoDocument)
  BY DEF IsDocument, NoDocument, Document
<1>4. Copies
  BY <1>2 DEF Init, Copies, Mirrors
<1>5. generation \in {"v1", "v2"} /\ format \in {"qt", "boost"}
  BY DEF Init
<1>6. TypeOK
  BY <1>1, <1>2, <1>5, EmptyIsValue DEF Init, TypeOK
<1>7. DOMAIN file = Names
  BY DEF Init
<1> QED BY <1>1, <1>3, <1>4, <1>6, <1>7 DEF RInv

\* A handle stores what it is given, or what it has.
LEMMA AssignStep ==
  ASSUME RInv, NEW h \in Handles, NEW v,
         ((Assign(h, v) \/ AssignV2(h, v)) /\ IsValue(v)) \/ SetV2(h)
  PROVE  RInv'
<1>1. CASE (Assign(h, v) \/ AssignV2(h, v)) /\ IsValue(v)
  BY <1>1, SetAsStep DEF Assign, AssignV2
<1>2. CASE SetV2(h)
  <2>1. PICK u : u = handle[h].val
    OBVIOUS
  <2>2. Open(h) /\ SetAs(h, u)
    BY <1>2, <2>1 DEF SetV2
  <2>3. IsValue(u)
    BY <2>1, <2>2, HandleValue
  <2> QED BY <2>2, <2>3, SetAsStep
<1> QED BY <1>1, <1>2

LEMMA AssignTextStep ==
  ASSUME RInv, NEW h \in Handles, NEW v \in Values, v.kind = "string", AssignText(h, v.items)
  PROVE  RInv'
<1>1. PICK s : s = v.items
  OBVIOUS
<1>2. s \in Seq(Items("string"))
  BY <1>1, ValuesAre DEF IsValue
<1>3. PICK w : w = Value("string", s)
  OBVIOUS
<1>4. IsValue(w)
  BY <1>2, <1>3, KindsAre DEF IsValue, Value
<1>5. AssignV2(h, w)
  BY <1>1, <1>3 DEF AssignText
<1> QED BY <1>4, <1>5, AssignStep

LEMMA NextR == ASSUME RInv, [Next]_vars PROVE RInv'
<1>1. CASE Save \/ Stop \/ Start
  BY <1>1, SaveStep, StopStep, StartStep
<1>2. ASSUME NEW n \in Names, NEW d \in HandMade, EditFile(n, d) PROVE RInv'
  BY <1>2, EditFileStep
<1>3. ASSUME NEW n \in Names, NEW v \in Values, RemoteAccess(n, v) \/ RemoteAccessV2(n, v)
      PROVE  RInv'
  BY <1>3, RemoteStep, ValuesAre
<1>4. ASSUME NEW h \in Handles, Update(h) \/ Forget(h) \/ Close(h) PROVE RInv'
  BY <1>4, UpdateStep, ForgetStep, CloseStep
<1>5. ASSUME NEW h \in Handles, SetV2(h) PROVE RInv'
  BY <1>5, AssignStep
<1>6. ASSUME NEW h \in Handles, NEW n \in Names, OpenRegister(h, n) PROVE RInv'
  BY <1>6, OpenStep
<1>7. ASSUME NEW h \in Handles, NEW v \in Values \union {Empty}, Assign(h, v) \/ AssignV2(h, v)
      PROVE  RInv'
  BY <1>7, AssignStep, ValuesAre, EmptyIsValue
<1>8. ASSUME NEW h \in Handles, NEW v \in Values, v.kind = "string" /\ AssignText(h, v.items)
      PROVE  RInv'
  BY <1>8, AssignTextStep
<1>9. ASSUME NEW h \in Handles, NEW v \in Values,
             EditValue(h, v) \/ EditAs(h, v) \/ EditAsV2(h, v)
      PROVE  RInv'
  BY <1>9, EditCopyStep, ValuesAre DEF EditValue, EditAs, EditAsV2
<1>10. ASSUME NEW h \in Handles, NEW v \in Values, NEW n \in Names,
              SetDefault(h, n, v) \/ OpenWithDefault(h, n, v)
       PROVE  RInv'
  BY <1>10, DefaultStep, ValuesAre
<1>11. CASE UNCHANGED vars
  BY <1>11 DEF vars, kept, RInv, TypeOK, Copies, Mirrors, Open, CanEdit
<1> QED BY <1>1, <1>2, <1>3, <1>4, <1>5, <1>6, <1>7, <1>8, <1>9, <1>10, <1>11 DEF Next

\* For all registers, handles, widths and documents people write: what is stored, and
\* every copy of it, keeps to the range of its kind (qvariant.cpp:75-85).
THEOREM TypeCorrect == Spec => []TypeOK
<1>1. RInv => TypeOK
  BY DEF RInv
<1> QED BY <1>1, InitR, NextR, PTL DEF Spec

\* For all of them: a handle whose copy nobody changed and past whose register nobody
\* has written holds what the storage holds, and can be assigned to (Register.h:37-52).
THEOREM Mirrored == Spec => []FreshHandlesMirror
<1>1. RInv => FreshHandlesMirror
  BY DEF RInv, Copies, Mirrors, FreshHandlesMirror
<1> QED BY <1>1, InitR, NextR, PTL DEF Spec
-----------------------------------------------------------------------------
(* Typed reads *)

LEMMA TypesAre ==
  /\ \A t \in Types : KindOf(t) \in Kinds
  /\ "QString" \in Types /\ "QString" \notin DOMAIN ScalarTypes /\ KindOf("QString") = "string"
  /\ \A t \in DOMAIN ScalarTypes : /\ t \in Types /\ t \notin {"QBitArray", "QString", "QByteArray"}
                                  /\ KindOf(t) # "string"
  /\ \A t \in Types \ DOMAIN ScalarTypes : t \in {"QByteArray", "QBitArray", "QString"}
<1>1. DOMAIN ScalarTypes = {"bool", "uint8", "uint16", "uint32", "uint64", "int8", "int16",
                            "int32", "int64", "float", "double"}
  BY DEF ScalarTypes
<1>2. DOMAIN ArrayTypes = {"QByteArray", "QBitArray", "QString"}
  BY DEF ArrayTypes
<1>3. \A t \in DOMAIN ScalarTypes : ScalarTypes[t] \in Kinds \ {"string"}
  BY DEF ScalarTypes, Kinds, ListKinds, NumberKinds, IntegerKinds, NaturalKinds, RealKinds
<1>4. \A t \in DOMAIN ArrayTypes : ArrayTypes[t] \in Kinds
  BY DEF ArrayTypes, Kinds, ListKinds
<1>5. ArrayTypes["QString"] = "string"
  BY DEF ArrayTypes
<1> QED BY <1>1, <1>2, <1>3, <1>4, <1>5 DEF Types, KindOf

\* A sequence of one item.
LEMMA OneItem ==
  ASSUME NEW T, NEW s \in Seq(T), Len(s) = 1
  PROVE  SubSeq(s, 1, 1) = s /\ s # <<>> /\ SubSeq(s, 1, 1)[1] = s[1]
  OBVIOUS

\* What is read where the kind and the size fit.
LEMMA ReadsItems ==
  ASSUME NEW v, IsValue(v), NEW t \in Types, NEW x \in FromValue(t, v)
  PROVE  /\ v.kind \in Kinds /\ v.items \in Seq(Items(v.kind)) /\ v = Value(v.kind, v.items)
         /\ x = v.items
         /\ v.kind = KindOf(t) \/ (t = "float" /\ v.kind = "real16")
         /\ t \in DOMAIN ScalarTypes => Len(v.items) = 1
<1>1. (v.kind = KindOf(t) \/ (t = "float" /\ v.kind = "real16")) /\ SizeFits(t, v)
  BY DEF FromValue
<1>2. v.kind # "empty"
  BY <1>1, TypesAre, KindsAre
<1>3. v # Empty
  BY <1>2 DEF Empty
<1>4. v.kind \in Kinds /\ v.items \in Seq(Items(v.kind)) /\ v = Value(v.kind, v.items)
  BY <1>3 DEF IsValue
<1>5. t \in DOMAIN ScalarTypes => Len(v.items) = 1
  BY <1>1, TypesAre DEF SizeFits
<1>6. x = v.items
  <2>1. CASE t \in DOMAIN ScalarTypes
    BY <1>1, <1>4, <1>5, <2>1, OneItem DEF FromValue
  <2>2. CASE t \notin DOMAIN ScalarTypes
    BY <1>1, <2>2 DEF FromValue
  <2> QED BY <2>1, <2>2
<1> QED BY <1>1, <1>4, <1>5, <1>6

\* For all registers, handles and widths: the converter reads what it may have written,
\* and what it reads is the value it would write; the typed reads of both generations of
\* handles give its answer (RegisterCasts.h:177-401, ValueConverter.cpp:11-158).
THEOREM ReadersAreOne == Spec => []ReadersAgree
<1>1. ASSUME TypeOK PROVE ReadersAgree
  <2> SUFFICES ASSUME NEW h \in Handles, Open(h), NEW v, v = handle[h].val
      PROVE
        /\ \A t \in Types : \A x \in FromValue(t, v) :
             ToValue(t, x) = v \/ (t = "float" /\ v.kind = "real16")
        /\ \A t \in Types \ {"QByteArray"} :
             v.kind = KindOf(t) /\ (t \in DOMAIN ScalarTypes => Len(v.items) = 1) =>
               FromValue(t, v) = {v.items}
        /\ \A t \in DOMAIN ScalarTypes : \A x \in FromValue(t, v) :
             CanEdit(h) /\ v.kind = KindOf(t) =>
               /\ AsValue(h, v.kind, Low[v.kind]) = x[1]
               /\ AsValueV2(h, v.kind, Low[v.kind]) = x[1]
        /\ CanEdit(h) /\ v.kind = "string" => FromValue("QString", v) = {AsText(h, <<>>)}
    BY DEF ReadersAgree
  <2>1. IsValue(v)
    BY <1>1 DEF TypeOK
  <2>2. ASSUME NEW t \in Types, NEW x \in FromValue(t, v)
        PROVE  ToValue(t, x) = v \/ (t = "float" /\ v.kind = "real16")
    BY <2>1, <2>2, ReadsItems DEF ToValue
  <2>3. ASSUME NEW t \in Types \ {"QByteArray"}, v.kind = KindOf(t),
               t \in DOMAIN ScalarTypes => Len(v.items) = 1
        PROVE  FromValue(t, v) = {v.items}
    <3>1. SizeFits(t, v)
      BY <2>3, TypesAre DEF SizeFits
    <3>2. FromValue(t, v) # {}
      BY <2>3, <3>1 DEF FromValue
    <3>3. \A x \in FromValue(t, v) : x = v.items
      BY <2>1, ReadsItems
    <3> QED BY <3>2, <3>3
  <2>4. ASSUME NEW t \in DOMAIN ScalarTypes, NEW x \in FromValue(t, v), CanEdit(h), v.kind = KindOf(t)
        PROVE  /\ AsValue(h, v.kind, Low[v.kind]) = x[1]
               /\ AsValueV2(h, v.kind, Low[v.kind]) = x[1]
    <3>1. x = v.items /\ v.items \in Seq(Items(v.kind)) /\ Len(v.items) = 1
      BY <2>1, <2>4, ReadsItems, TypesAre
    <3>2. v.items # <<>>
      BY <3>1, OneItem
    <3> QED BY <2>4, <3>1, <3>2
            DEF AsValue, AsValueV2, FirstOf, FirstOfV2, As, AsV2, CanEdit, CanEditV2
  <2>5. ASSUME CanEdit(h), v.kind = "string" PROVE FromValue("QString", v) = {AsText(h, <<>>)}
    <3>1. FromValue("QString", v) = {v.items}
      BY <2>3, <2>5, TypesAre
    <3> QED BY <2>5, <3>1 DEF AsText, AsV2, CanEdit, CanEditV2
  <2> QED BY <2>2, <2>3, <2>4, <2>5
<1> QED BY <1>1, TypeCorrect, PTL
-----------------------------------------------------------------------------
(* Saved and read back *)

LEMMA CastSame == ASSUME NEW k \in ListKinds, NEW x \in Items(k) PROVE Cast(k, x) = x
<1>0. k \in Kinds
  BY KindsAre
<1>1. PICK l \in Int, g \in Int : l = Low[k] /\ g = High[k]
  BY <1>0, ItemRange
<1>2. x \in Int /\ l <= x /\ x <= g
  BY <1>1 DEF Items
<1>3. CASE k = "bit"
  <2>1. x \in 0 .. 1
    BY <1>3, ValueAssumption DEF Items
  <2> QED BY <1>3, <2>1, KindsAre DEF Cast
<1>4. CASE k # "bit" /\ k \in RealKinds
  BY <1>1, <1>2, <1>4 DEF Cast, Nearest
<1>5. CASE k # "bit" /\ k \notin RealKinds
  <2>1. \A a \in Nat, w \in Nat \ {0} : a < w => a % w = a
    OBVIOUS
  <2>2. (x - l) % (g - l + 1) = x - l
    BY <1>2, <2>1
  <2> QED BY <1>1, <1>2, <1>5, <2>2 DEF Cast
<1> QED BY <1>3, <1>4, <1>5

LEMMA ToNumberSame == ASSUME NEW k \in ListKinds, NEW x \in Items(k) PROVE ToNumber(k, x) = x
<1>0. k \in Kinds
  BY KindsAre
<1>1. PICK l \in Int, g \in Int : l = Low[k] /\ g = High[k]
  BY <1>0, ItemRange
<1>2. x \in Int /\ l <= x /\ x <= g
  BY <1>1 DEF Items
<1> QED BY <1>1, <1>2 DEF ToNumber, Nearest

LEMMA SameItems ==
  ASSUME NEW T, NEW s \in Seq(T), NEW F, F = [i \in DOMAIN s |-> F[i]],
         \A i \in DOMAIN s : F[i] = s[i]
  PROVE  F = s
<1>1. s = [i \in DOMAIN s |-> s[i]]
  OBVIOUS
<1> QED BY <1>1

\* A list of items of its kind goes through both readers unchanged, and through the
\* doubles where a double holds every item.
LEMMA SameList ==
  ASSUME NEW k \in ListKinds, NEW s \in Seq(Items(k))
  PROVE  /\ CastItems(k, s) = s /\ ToNumbers(k, s) = s
         /\ (\A i \in DOMAIN s : s[i] \in (-ExactDouble) .. ExactDouble) => AsDoubles(k, s) = s
<1>0. \A i \in DOMAIN s : s[i] \in Items(k)
  OBVIOUS
<1>1. CastItems(k, s) = s
  BY <1>0, CastSame, SameItems DEF CastItems
<1>2. ToNumbers(k, s) = s
  BY <1>0, ToNumberSame, SameItems DEF ToNumbers
<1>3. ASSUME \A i \in DOMAIN s : s[i] \in (-ExactDouble) .. ExactDouble PROVE AsDoubles(k, s) = s
  <2>1. \A i \in DOMAIN s : AsDouble(k, s[i]) = s[i]
    BY <1>3, ValueAssumption DEF AsDouble
  <2> QED BY <2>1, SameItems DEF AsDoubles
<1> QED BY <1>1, <1>2, <1>3

LEMMA ListBack ==
  ASSUME NEW k \in ListKinds, NEW s \in Seq(Items(k))
  PROVE  LET d == Document(k, FALSE, "list", s) IN
         FromVariant(d) = Value(k, s) /\ FromBoostJson(d) = Value(k, s)
<1>1. PICK d : d = Document(k, FALSE, "list", s)
  OBVIOUS
<1>2. d.type = k /\ d.named = FALSE /\ d.form = "list" /\ d.items = s
  BY <1>1 DEF Document
<1>3. k # "string" /\ k \in Kinds
  BY KindsAre
<1>4. FromVariant(d) = Value(k, s)
  BY <1>2, <1>3, SameList DEF FromVariant
<1>5. FromBoostJson(d) = Value(k, s)
  BY <1>2, <1>3, SameList DEF FromBoostJson, TypeKnown
<1> QED BY <1>1, <1>4, <1>5

\* Read undoes Write on everything that a format can hold.
LEMMA RoundTrip ==
  ASSUME NEW v, IsValue(v), Survives(v), format \in {"qt", "boost"} PROVE Read(Write(v)) = v
<1>1. CASE v = Empty
  <2>1. ToVariant(v) = [type |-> "empty", named |-> FALSE, form |-> "none", items |-> <<>>]
    BY <1>1 DEF ToVariant, NoDocument, Document, Empty
  <2>2. ToQtJson(v) = ToVariant(v) /\ ToBoostJson(v) = ToVariant(v)
    BY <2>1, KindsAre DEF ToQtJson, ToBoostJson
  <2>3. FromVariant(ToVariant(v)) = Empty /\ FromBoostJson(ToVariant(v)) = Empty
    BY <2>1, KindsAre DEF FromVariant, FromBoostJson, TypeKnown
  <2> QED BY <1>1, <2>2, <2>3 DEF Read, Write
<1>2. CASE v # Empty /\ v.kind = "string"
  <2>1. v = Value("string", v.items)
    BY <1>2 DEF IsValue
  <2>2. ToVariant(v) = [type |-> "string", named |-> FALSE, form |-> "text", items |-> v.items]
    BY <1>2 DEF ToVariant, Document
  <2>3. ToQtJson(v) = ToVariant(v) /\ ToBoostJson(v) = ToVariant(v)
    BY <2>2, KindsAre DEF ToQtJson, ToBoostJson
  <2>4. FromVariant(ToVariant(v)) = v /\ FromBoostJson(ToVariant(v)) = v
    BY <2>1, <2>2, KindsAre DEF FromVariant, FromBoostJson, TypeKnown
  <2> QED BY <2>3, <2>4 DEF Read, Write
<1>3. CASE v # Empty /\ v.kind # "string"
  <2>1. PICK k, s : k = v.kind /\ s = v.items
    OBVIOUS
  <2>2. k \in ListKinds /\ s \in Seq(Items(k)) /\ v = Value(k, s)
    BY <1>3, <2>1, KindsAre DEF IsValue
  <2>3. PICK d : d = Document(k, FALSE, "list", s)
    OBVIOUS
  <2>4. d.type = k /\ d.form = "list" /\ d.items = s /\ [d EXCEPT !.items = s] = d
    <3>1. PICK e : e = [d EXCEPT !.items = s]
      OBVIOUS
    <3>2. d = [type |-> k, named |-> FALSE, form |-> "list", items |-> s]
      BY <2>3 DEF Document
    <3>3. e = [type |-> k, named |-> FALSE, form |-> "list", items |-> s]
      BY <3>1, <3>2
    <3> QED BY <3>1, <3>2, <3>3
  <2>5. ToVariant(v) = d
    BY <1>3, <2>1, <2>3 DEF ToVariant
  <2>6. (\A i \in DOMAIN s : s[i] \in (-ExactDouble) .. ExactDouble) => ToQtJson(v) = d
    BY <2>2, <2>4, <2>5, SameList DEF ToQtJson
  <2>7. k \in RealKinds /\ (\A i \in DOMAIN s : s[i] \in (-ExactDouble) .. ExactDouble)
          => ToBoostJson(v) = d
    BY <2>2, <2>4, <2>5, SameList DEF ToBoostJson
  <2>8. k \notin RealKinds => ToBoostJson(v) = d
    BY <2>4, <2>5 DEF ToBoostJson
  <2>9. Write(v) = d
    BY <2>1, <2>6, <2>7, <2>8 DEF Write, Survives
  <2>10. FromVariant(d) = v /\ FromBoostJson(d) = v
    BY <2>2, <2>3, ListBack
  <2> QED BY <2>9, <2>10 DEF Read
<1> QED BY <1>1, <1>2, <1>3

\* What was saved is in the file, as it is written, until people edit it there.
SavedTrue ==
  /\ DOMAIN file = Names /\ DOMAIN saved = Names
  /\ \A n \in Names : saved[n] # Unknown => IsValue(saved[n]) /\ file[n] = Write(saved[n])

LEMMA WriteSame == ASSUME format' = format, NEW v PROVE Write(v)' = Write(v)
  BY DEF Write

LEMMA SavedKept ==
  ASSUME SavedTrue, format' = format, file' = file, saved' = saved PROVE SavedTrue'
<1>1. ASSUME NEW n \in Names, saved'[n] # Unknown
      PROVE  IsValue(saved'[n]) /\ file'[n] = Write(saved[n])'
  <2>1. PICK w : w = saved[n]
    OBVIOUS
  <2>2. IsValue(w) /\ file[n] = Write(w)
    BY <1>1, <2>1 DEF SavedTrue
  <2>3. file'[n] = Write(w)' /\ w = saved'[n]
    BY <2>1, <2>2, WriteSame
  <2> QED BY <2>2, <2>3 DEF Write
<1> QED BY <1>1 DEF SavedTrue

LEMMA SaveSaves == ASSUME SavedTrue, TypeOK, Save PROVE SavedTrue'
<1>1. format' = format
  BY DEF Save, kept
<1>2. DOMAIN file' = Names /\ DOMAIN saved' = Names
  BY DEF Save
<1>3. ASSUME NEW n \in Names, saved'[n] # Unknown
      PROVE  IsValue(saved'[n]) /\ file'[n] = Write(saved[n])'
  <2>1. PICK w : w = saved'[n]
    OBVIOUS
  <2>2. CASE IsThere(n) \/ format = "boost"
    <3>1. w = store[n] /\ file'[n] = Write(store[n])
      BY <2>1, <2>2 DEF Save
    <3>2. IsValue(w) /\ file'[n] = Write(w)
      BY <3>1 DEF TypeOK
    <3> QED BY <2>1, <3>2, <1>1, WriteSame DEF Write
  <2>3. CASE ~(IsThere(n) \/ format = "boost")
    <3>1. w = saved[n] /\ file'[n] = file[n]
      BY <2>1, <2>3 DEF Save
    <3>2. IsValue(w) /\ file'[n] = Write(w)
      BY <1>3, <2>1, <3>1 DEF SavedTrue
    <3> QED BY <2>1, <3>2, <1>1, WriteSame DEF Write
  <2> QED BY <2>2, <2>3
<1> QED BY <1>2, <1>3 DEF SavedTrue

LEMMA EditForgets ==
  ASSUME SavedTrue, NEW n \in Names, NEW d, EditFile(n, d) PROVE SavedTrue'
<1>1. format' = format /\ DOMAIN file' = Names /\ DOMAIN saved' = Names /\ saved'[n] = Unknown
  BY DEF EditFile, kept, SavedTrue
<1>2. ASSUME NEW m \in Names, saved'[m] # Unknown
      PROVE  IsValue(saved'[m]) /\ file'[m] = Write(saved[m])'
  <2>1. PICK w : w = saved'[m]
    OBVIOUS
  <2>2. m # n
    BY <1>1, <1>2
  <2>3. w = saved[m] /\ file'[m] = file[m]
    BY <2>1, <2>2 DEF EditFile, SavedTrue
  <2>4. IsValue(w) /\ file'[m] = Write(w)
    BY <1>2, <2>1, <2>3 DEF SavedTrue
  <2> QED BY <2>1, <2>4, <1>1, WriteSame DEF Write
<1> QED BY <1>1, <1>2 DEF SavedTrue

LEMMA InitSaved == Init => SavedTrue
<1> SUFFICES ASSUME Init PROVE SavedTrue
  OBVIOUS
<1>1. \A n \in Names : saved[n] = Empty /\ file[n] = NoDocument
  BY DEF Init
<1>2. ToVariant(Empty) = [type |-> "empty", named |-> FALSE, form |-> "none", items |-> <<>>]
  BY DEF ToVariant, NoDocument, Document, Empty
<1>3. ToQtJson(Empty) = ToVariant(Empty) /\ ToBoostJson(Empty) = ToVariant(Empty)
  BY <1>2, KindsAre DEF ToQtJson, ToBoostJson
<1>4. Write(Empty) = NoDocument
  BY <1>2, <1>3 DEF Write, NoDocument, Document
<1> QED BY <1>1, <1>4, EmptyIsValue DEF Init, SavedTrue

LEMMA NextSaved == ASSUME SavedTrue, TypeOK, [Next]_vars PROVE SavedTrue'
<1>1. CASE Save
  BY <1>1, SaveSaves
<1>2. CASE \E n \in Names, d \in HandMade : EditFile(n, d)
  BY <1>2, EditForgets
<1>3. ASSUME ~Save, ~\E n \in Names, d \in HandMade : EditFile(n, d)
      PROVE  format' = format /\ file' = file /\ saved' = saved
  <2>1. CASE Stop \/ Start
    BY <2>1 DEF Stop, Start, kept
  <2>2. ASSUME NEW n \in Names, NEW v \in Values, RemoteAccess(n, v) \/ RemoteAccessV2(n, v)
        PROVE  format' = format /\ file' = file /\ saved' = saved
    BY <2>2 DEF RemoteAccess, RemoteAccessV2, kept
  <2>3. ASSUME NEW h \in Handles, Update(h) \/ Forget(h) \/ SetV2(h) \/ Close(h)
        PROVE  format' = format /\ file' = file /\ saved' = saved
    BY <2>3 DEF Update, Forget, SetV2, SetAs, Close, kept
  <2>4. ASSUME NEW h \in Handles, NEW n \in Names, OpenRegister(h, n)
        PROVE  format' = format /\ file' = file /\ saved' = saved
    BY <2>4 DEF OpenRegister, kept
  <2>5. ASSUME NEW h \in Handles, NEW v,
               \/ Assign(h, v) \/ AssignV2(h, v) \/ AssignText(h, v.items)
               \/ EditValue(h, v) \/ EditAs(h, v) \/ EditAsV2(h, v)
        PROVE  format' = format /\ file' = file /\ saved' = saved
    BY <2>5 DEF Assign, AssignV2, AssignText, SetAs, EditValue, EditAs, EditAsV2, EditCopy, kept
  <2>6. ASSUME NEW h \in Handles, NEW v, NEW n, SetDefault(h, n, v) \/ OpenWithDefault(h, n, v)
        PROVE  format' = format /\ file' = file /\ saved' = saved
    BY <2>6 DEF SetDefault, OpenWithDefault, kept
  <2>7. CASE UNCHANGED vars
    BY <2>7 DEF vars, kept
  <2> QED BY <1>3, <2>1, <2>2, <2>3, <2>4, <2>5, <2>6, <2>7 DEF Next
<1> QED BY <1>1, <1>2, <1>3, SavedKept

\* A process that was not running comes up by Start.
LEMMA OnlyStart == ASSUME TypeOK, ~running, running', [Next]_vars PROVE Start
<1>1. \A h \in Handles : ~Open(h)
  BY DEF TypeOK
<1>2. ~Save /\ ~Stop
  BY DEF Save, Stop
<1>3. ASSUME NEW n \in Names, NEW d, EditFile(n, d) PROVE FALSE
  BY <1>3 DEF EditFile
<1>4. ASSUME NEW n \in Names, NEW v \in Values, RemoteAccess(n, v) \/ RemoteAccessV2(n, v)
      PROVE  FALSE
  BY <1>4 DEF RemoteAccess, RemoteAccessV2
<1>5. ASSUME NEW h \in Handles, NEW n \in Names, OpenRegister(h, n) PROVE FALSE
  BY <1>5 DEF OpenRegister
<1>6. ASSUME NEW h \in Handles, Update(h) \/ Forget(h) \/ SetV2(h) \/ Close(h) PROVE FALSE
  BY <1>1, <1>6 DEF Update, Forget, SetV2, Close
<1>7. ASSUME NEW h \in Handles, NEW v,
             \/ Assign(h, v) \/ AssignV2(h, v) \/ AssignText(h, v.items)
             \/ EditValue(h, v) \/ EditAs(h, v) \/ EditAsV2(h, v)
      PROVE  FALSE
  BY <1>1, <1>7 DEF Assign, AssignV2, AssignText, EditValue, EditAs, EditAsV2, EditCopy
<1>8. ASSUME NEW h \in Handles, NEW v, NEW n \in Names,
             SetDefault(h, n, v) \/ OpenWithDefault(h, n, v)
      PROVE  FALSE
  BY <1>8 DEF SetDefault, OpenWithDefault
<1>9. ~UNCHANGED vars
  BY DEF vars
<1> QED BY <1>2, <1>3, <1>4, <1>5, <1>6, <1>7, <1>8, <1>9 DEF Next

\* For all registers, values, widths and formats: a value that was saved, and that the
\* format can hold, comes back with its kind and all its items when the process starts
\* again, whatever was written, edited or stopped in between ("load should load values
\* from persistent store", cyphalppregistry.hpp:119).
THEOREM SavedComesBack == Spec => ReloadRestores
<1> DEFINE Restores ==
      ~running /\ running' => \A n \in Names :
        saved[n] # Unknown /\ Survives(saved[n]) => store'[n] = saved[n]
<1>1. ASSUME SavedTrue, TypeOK, [Next]_vars PROVE [Restores]_vars
  <2> SUFFICES ASSUME ~running, running', NEW n \in Names, saved[n] # Unknown, Survives(saved[n])
      PROVE  store'[n] = saved[n]
    OBVIOUS
  <2>1. Start
    BY <1>1, OnlyStart
  <2>2. store'[n] = Read(file[n])
    BY <2>1 DEF Start
  <2>3. PICK w : w = saved[n]
    OBVIOUS
  <2>4. IsValue(w) /\ file[n] = Write(w)
    BY <1>1, <2>3 DEF SavedTrue
  <2>5. format \in {"qt", "boost"}
    BY <1>1 DEF TypeOK
  <2> QED BY <2>2, <2>3, <2>4, <2>5, RoundTrip
<1>2. Spec => [](SavedTrue /\ TypeOK)
  <2>1. SavedTrue /\ TypeOK /\ TypeOK' /\ [Next]_vars => SavedTrue'
    BY NextSaved
  <2> QED BY InitSaved, <2>1, TypeCorrect, PTL DEF Spec
<1>3. SavedTrue /\ TypeOK /\ [Next]_vars => [Restores]_vars
  BY <1>1
<1> QED BY <1>2, <1>3, PTL DEF Spec, ReloadRestores
=============================================================================
