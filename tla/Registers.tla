----------------------------- MODULE Registers ------------------------------
(***************************************************************************)
(* Register, the handle on one register, in its two generations:           *)
(* Registry::Register (include/cyphalppregistry.hpp) and v2_0's Register   *)
(* (qt/Registry/Register), which stores what it has cached once more when  *)
(* it is destroyed.  Handles share a storage with each other, with remote  *)
(* nodes and with a file that people edit; every one has its own copy.     *)
(***************************************************************************)
EXTENDS RegisterValues

CONSTANTS
  Names, Handles,
  Values,         \* the values programs and remote nodes write
  HandMade        \* the documents people write into a file

ASSUME RegistersAssumption ==
  /\ \A v \in Values : v # Empty /\ IsValue(v)
  /\ \A d \in HandMade :
       /\ d.type \in Kinds \union {"unknown"} /\ d.named \in BOOLEAN
       /\ d.form \in {"list", "text", "none"} /\ d.items \in Seq(Int)
       /\ d.form = "text" => d.items \in Seq(Items("string"))

VARIABLES
  generation,  \* "v1" or "v2": which of the classes the program uses
  format,      \* "qt" or "boost": what reads and writes its file
  running,     \* the process runs
  store,       \* the value of every register; one that is not there is Empty
  file,        \* a document for every register
  handle,      \* the handles that live: name_, val_ and mutable_, or Closed
  edited,      \* history: the handles whose copy was changed and not stored
  outdated,    \* history: those past which somebody has written the register
  saved        \* history: what every register in the file was when it was saved

kept == <<generation, format>>
vars == <<kept, running, store, file, handle, edited, outdated, saved>>

Closed  == [closed |-> TRUE]
Unknown == [kind |-> "unknown", items |-> <<>>]

Open(h)   == handle[h] # Closed
On(n)     == {h \in Handles : Open(h) /\ handle[h].name = n}
IsThere(n) == store[n] # Empty

-----------------------------------------------------------------------------

Init ==
  /\ generation \in {"v1", "v2"}
  /\ format \in IF generation = "v2" THEN {"qt"} ELSE {"qt", "boost"}
  /\ running = FALSE
  /\ store = [n \in Names |-> Empty]
  /\ file = [n \in Names |-> NoDocument]
  /\ handle = [h \in Handles |-> Closed]
  /\ edited = {} /\ outdated = {}
  /\ saved = [n \in Names |-> Empty]

\* The storage keeps what it has when it is given an empty value.
Stored(n, v) == IF v = Empty THEN store ELSE [store EXCEPT ![n] = v]

\* What get() and set() answer when the storage is st.
Copy(st, n) == [name |-> n, val |-> st[n], mutable |-> st[n] # Empty]

\* Mutant: the answer of the storage is not taken over.
CopyNotTaken(st, h) == handle[h]

\* ret.value, ret._mutable
CopyTaken(st, h) == Copy(st, handle[h].name)

\* update(): the copy is read again.
Update(h) ==
  /\ Open(h)
  /\ handle' = [handle EXCEPT ![h] = CopyTaken(store, h)]
  /\ edited' = edited \ {h} /\ outdated' = outdated \ {h}
  /\ UNCHANGED <<kept, running, store, file, saved>>

\* registry[n], or Register's constructor.
OpenRegister(h, n) ==
  /\ running /\ ~Open(h)
  /\ handle' = [handle EXCEPT ![h] = Copy(store, n)]
  /\ UNCHANGED <<kept, running, store, file, edited, outdated, saved>>

\* The others on n have not seen what is written now.
PassedBy(H, n, v) == IF Stored(n, v) = store THEN outdated ELSE outdated \union (On(n) \ H)

\* set() with v as the copy: it is stored, and what the storage answers is the copy.
SetAs(h, v) ==
  LET n == handle[h].name IN
  /\ store' = Stored(n, v)
  /\ handle' = [handle EXCEPT ![h] = CopyTaken(store', h)]
  /\ edited' = edited \ {h}
  /\ outdated' = PassedBy({h}, n, v) \ {h}
  /\ UNCHANGED <<kept, running, file, saved>>

-----------------------------------------------------------------------------
(* Registry::Register *)

CanEdit(h) == handle[h].mutable \/ handle[h].val = Empty

\* operator=
Assign(h, v) ==
  /\ generation = "v1" /\ Open(h)
  /\ CanEdit(h)
  /\ SetAs(h, v)

\* setDefault: nothing is written when the register is there.
SetDefault(h, n, v) ==
  /\ generation = "v1" /\ running /\ ~Open(h)
  /\ store' = IF IsThere(n) THEN store ELSE Stored(n, v)
  /\ handle' = [handle EXCEPT ![h] = Copy(store', n)]
  /\ outdated' = IF IsThere(n) THEN outdated ELSE PassedBy({h}, n, v)
  /\ UNCHANGED <<kept, running, file, edited, saved>>

\* as<T>() for the kind k: a pointer into the copy.
As(h, k) == CanEdit(h) /\ handle[h].val.kind = k

\* as<T>() for a number: a pointer to the first item, where there is one.
FirstOf(h, k) == As(h, k) /\ handle[h].val.items # <<>>

AsValue(h, k, default) == IF FirstOf(h, k) THEN handle[h].val.items[1] ELSE default

\* Where as<T>() leads is written to, or value(), which asks nobody.
EditCopy(h, v) ==
  /\ Open(h)
  /\ handle' = [handle EXCEPT ![h].val = v]
  /\ edited' = edited \union {h}
  /\ UNCHANGED <<kept, running, store, file, outdated, saved>>

EditValue(h, v) == EditCopy(h, v)
EditAs(h, v)    == generation = "v1" /\ Open(h) /\ As(h, v.kind) /\ EditCopy(h, v)

\* A handle of this generation goes without a word.
Forget(h) ==
  /\ generation = "v1" /\ Open(h)
  /\ handle' = [handle EXCEPT ![h] = Closed]
  /\ edited' = edited \ {h} /\ outdated' = outdated \ {h}
  /\ UNCHANGED <<kept, running, store, file, saved>>

\* uavcan.register.Access: remote nodes do not create registers.
RemoteAccess(n, v) ==
  /\ generation = "v1" /\ running
  /\ IsThere(n)
  /\ store' = Stored(n, v)
  /\ outdated' = PassedBy({}, n, v)
  /\ UNCHANGED <<kept, running, file, handle, edited, saved>>

-----------------------------------------------------------------------------
(* v2_0::storage::Register *)

CanEditV2(h) == handle[h].mutable \/ handle[h].val = Empty

AssignV2(h, v) ==
  /\ generation = "v2" /\ Open(h)
  /\ CanEditV2(h)
  /\ SetAs(h, v)

\* A text, or an address, is assigned as a string.
AssignText(h, s) == AssignV2(h, Value("string", s))

\* The constructor with a default.
OpenWithDefault(h, n, v) ==
  /\ generation = "v2" /\ running /\ ~Open(h)
  /\ store' = IF IsThere(n) THEN store ELSE Stored(n, v)
  /\ handle' = [handle EXCEPT ![h] = Copy(store', n)]
  /\ outdated' = IF IsThere(n) THEN outdated ELSE PassedBy({h}, n, v)
  /\ UNCHANGED <<kept, running, file, edited, saved>>

AsV2(h, k) == CanEditV2(h) /\ handle[h].val.kind = k

EditAsV2(h, v) == generation = "v2" /\ Open(h) /\ AsV2(h, v.kind) /\ EditCopy(h, v)

FirstOfV2(h, k) == AsV2(h, k) /\ handle[h].val.items # <<>>

AsValueV2(h, k, default) == IF FirstOfV2(h, k) THEN handle[h].val.items[1] ELSE default

\* as_value<std::string>
AsText(h, default) == IF AsV2(h, "string") THEN handle[h].val.items ELSE default

\* set(), which is public here.
SetV2(h) ==
  /\ generation = "v2" /\ Open(h)
  /\ SetAs(h, handle[h].val)

\* ~Register stores the copy.
Close(h) ==
  /\ generation = "v2" /\ Open(h)
  /\ store' = Stored(handle[h].name, handle[h].val)
  /\ handle' = [handle EXCEPT ![h] = Closed]
  /\ edited' = edited \ {h}
  /\ outdated' = PassedBy({h}, handle[h].name, handle[h].val) \ {h}
  /\ UNCHANGED <<kept, running, file, saved>>

\* The server passes everything on to the storage, which sets what is not empty.
RemoteAccessV2(n, v) ==
  /\ generation = "v2" /\ running
  /\ store' = Stored(n, v)
  /\ outdated' = PassedBy({}, n, v)
  /\ UNCHANGED <<kept, running, file, handle, edited, saved>>

-----------------------------------------------------------------------------
(* The file *)

Write(v) == IF format = "qt" THEN ToQtJson(v) ELSE ToBoostJson(v)
Read(d)  == IF format = "qt" THEN FromVariant(d) ELSE FromBoostJson(d)

\* QSettings keeps what was in the file under other names.
Save ==
  /\ running
  /\ file' = [n \in Names |->
       IF IsThere(n) \/ format = "boost" THEN Write(store[n]) ELSE file[n]]
  /\ saved' = [n \in Names |-> IF IsThere(n) \/ format = "boost" THEN store[n] ELSE saved[n]]
  /\ UNCHANGED <<kept, running, store, handle, edited, outdated>>

\* The process ends, without any destructor.
Stop ==
  /\ running /\ running' = FALSE
  /\ store' = [n \in Names |-> Empty]
  /\ handle' = [h \in Handles |-> Closed]
  /\ edited' = {} /\ outdated' = {}
  /\ UNCHANGED <<kept, file, saved>>

Start ==
  /\ ~running /\ running' = TRUE
  /\ store' = [n \in Names |-> Read(file[n])]
  /\ UNCHANGED <<kept, file, handle, edited, outdated, saved>>

EditFile(n, d) ==
  /\ ~running
  /\ file' = [file EXCEPT ![n] = d]
  /\ saved' = [saved EXCEPT ![n] = Unknown]
  /\ UNCHANGED <<kept, running, store, handle, edited, outdated>>

Next ==
  \/ Save \/ Stop \/ Start
  \/ \E n \in Names, d \in HandMade : EditFile(n, d)
  \/ \E n \in Names, v \in Values : RemoteAccess(n, v) \/ RemoteAccessV2(n, v)
  \/ \E h \in Handles :
       \/ Update(h) \/ Forget(h) \/ SetV2(h) \/ Close(h)
       \/ \E n \in Names : OpenRegister(h, n)
       \/ \E v \in Values \union {Empty} : Assign(h, v) \/ AssignV2(h, v)
       \/ \E v \in Values :
            \/ v.kind = "string" /\ AssignText(h, v.items)
            \/ EditValue(h, v) \/ EditAs(h, v) \/ EditAsV2(h, v)
            \/ \E n \in Names : SetDefault(h, n, v) \/ OpenWithDefault(h, n, v)

Spec == Init /\ [][Next]_vars

-----------------------------------------------------------------------------
(* Properties *)

\* Whatever people write into the file, every item fits the kind of its value
\* (qvariant.cpp:75-85, boostjsonregistry_impl.hpp:162-170).
TypeOK ==
  /\ generation \in {"v1", "v2"} /\ format \in {"qt", "boost"} /\ running \in BOOLEAN
  /\ \A n \in Names : IsValue(store[n])
  /\ \A h \in Handles : Open(h) =>
       /\ running
       /\ handle[h].name \in Names /\ handle[h].mutable \in BOOLEAN
       /\ IsValue(handle[h].val)
  /\ edited \subseteq Handles /\ outdated \subseteq Handles

\* A handle that nobody has written past, and whose copy was not changed in place,
\* holds what the storage holds, so destroying it changes nothing; and as long as its
\* copy was not changed in place an assignment to it is never ignored
\* (Register.h:37-52, cyphalppregistry.hpp:208-244).
FreshHandlesMirror ==
  \A h \in Handles : Open(h) /\ h \notin edited =>
    /\ CanEdit(h)
    /\ h \notin outdated => handle[h].val = store[handle[h].name]

\* JSON keeps integers in Boost, and everything else up to what a double holds.
Survives(v) ==
  (format = "boost" /\ v.kind \notin RealKinds)
    \/ \A i \in DOMAIN v.items : v.items[i] \in (-ExactDouble) .. ExactDouble

\* "load should load values from persistent store" (cyphalppregistry.hpp:119): a value
\* that was saved comes back with its kind and all its items.
ReloadRestores ==
  [][~running /\ running' => \A n \in Names :
       saved[n] # Unknown /\ Survives(saved[n]) => store'[n] = saved[n]]_vars

\* The two generations' typed reads and ValueConverter give the same answer on an
\* array of one item that can be edited, and what the converter reads it would write
\* again, but for a float that came from a real16; it reads whatever it may have
\* written, but for byte arrays of other sizes than one
\* (RegisterCasts.h:177-401, ValueConverter.cpp:11-158).
ReadersAgree ==
  \A h \in Handles : Open(h) =>
    LET v == handle[h].val IN
    /\ \A t \in Types : \A x \in FromValue(t, v) :
         \/ ToValue(t, x) = v
         \/ t = "float" /\ v.kind = "real16"
    /\ \A t \in Types \ {"QByteArray"} :
         v.kind = KindOf(t) /\ (t \in DOMAIN ScalarTypes => Len(v.items) = 1) =>
           FromValue(t, v) = {v.items}
    /\ \A t \in DOMAIN ScalarTypes : \A x \in FromValue(t, v) :
         CanEdit(h) /\ v.kind = KindOf(t) =>
           /\ AsValue(h, v.kind, Low[v.kind]) = x[1]
           /\ AsValueV2(h, v.kind, Low[v.kind]) = x[1]
    /\ CanEdit(h) /\ v.kind = "string" => FromValue("QString", v) = {AsText(h, <<>>)}
=============================================================================
