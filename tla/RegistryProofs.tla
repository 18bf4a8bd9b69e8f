--------------------------- MODULE RegistryProofs ---------------------------
(***************************************************************************)
(* List and Access agree, whatever is loaded, saved, cut short and asked   *)
(* for, for every set of names, values and nodes and every read-ahead.     *)
(*                                                                         *)
(* The agreement of values and names needs no help but types: whatever     *)
(* reaches set() must have a name, so registers are well formed wherever   *)
(* they come from, the file and the buffer of a load included.             *)
(*                                                                         *)
(* That a storage is a durable map is an argument about loads: where       *)
(* nothing rewrites the file under a load, memory is the part of the file  *)
(* that was read so far, so what is there at the end is what was saved.    *)
(* Autosave that is on before the load rewrites it, which is why the last  *)
(* three theorems assume that none is.                                     *)
(***************************************************************************)
EXTENDS Registry, FiniteSetTheorems, TLAPS

Files   == [exists : BOOLEAN, count : Nat, regs : Seq(Registers), cutName : AllNames \union {NoName}]
Readers == [original : Files, regs : Seq(Registers), expected : Nat, pos : Nat]

Typed ==
  /\ values \in Seq(Registers)
  /\ names \in [DOMAIN names -> Nat]
  /\ file \in Files

ReaderTyped == phase = "loading" => reader \in Readers

RInv == Typed /\ ReaderTyped /\ ListAndAccessAgree

-----------------------------------------------------------------------------
(* set *)

\* A register that exists keeps its place, a new one gets the last.
LEMMA SetKeeps ==
  ASSUME values \in Seq(Registers), names \in [DOMAIN names -> Nat], ListAndAccessAgree,
         NEW n \in AllNames, NEW v \in Values, Set(n, v)
  PROVE  /\ values' \in Seq(Registers)
         /\ names' \in [DOMAIN names' -> Nat]
         /\ ListAndAccessAgree'
<1>1. CASE n \in DOMAIN names /\ values' = [values EXCEPT ![names[n]].value = v] /\ names' = names
  <2>1. PICK k \in DOMAIN values : values[k].name = n
    BY <1>1 DEF ListAndAccessAgree
  <2>2. names[n] = k
    BY <2>1 DEF ListAndAccessAgree
  <2>3. values[k] \in Registers
    BY <2>1
  <2>4. values' = [values EXCEPT ![k] = [values[k] EXCEPT !.value = v]]
    BY <1>1, <2>2
  <2>5. [values[k] EXCEPT !.value = v] \in Registers
    BY <2>3 DEF Registers
  <2>6. values' \in Seq(Registers) /\ DOMAIN values' = DOMAIN values
    BY <2>1, <2>4, <2>5
  <2>7. \A i \in DOMAIN values : values'[i].name = values[i].name
    <3> SUFFICES ASSUME NEW i \in DOMAIN values PROVE values'[i].name = values[i].name
      OBVIOUS
    <3>1. CASE i = k
      BY <2>3, <2>4, <3>1 DEF Registers
    <3>2. CASE i # k
      BY <2>4, <3>2
    <3> QED
      BY <3>1, <3>2
  <2>8. ListAndAccessAgree'
    BY <1>1, <2>6, <2>7 DEF ListAndAccessAgree
  <2> QED
    BY <1>1, <2>6, <2>8
<1>2. CASE n \notin DOMAIN names /\ values' = Appended(n, v) /\ names' = Inserted(n)
  <2>1. PICK r : r = [name |-> n, value |-> v]
    OBVIOUS
  <2>2. r \in Registers /\ r.name = n
    BY <2>1 DEF Registers
  <2>3. values' = Append(values, r)
    BY <1>2, <2>1 DEF Appended
  <2>4. /\ values' \in Seq(Registers)
        /\ Len(values) \in Nat
        /\ DOMAIN values = 1 .. Len(values)
        /\ DOMAIN values' = 1 .. Len(values) + 1
        /\ \A i \in DOMAIN values : values'[i] = values[i]
        /\ values'[Len(values) + 1] = r
    BY <2>2, <2>3
  <2>5. /\ DOMAIN names' = DOMAIN names \union {n}
        /\ names'[n] = Len(values) + 1
        /\ \A x \in DOMAIN names : names'[x] = names[x]
        /\ names' \in [DOMAIN names' -> Nat]
    BY <1>2, <2>4 DEF Inserted
  <2>6. DOMAIN names' = {values'[i].name : i \in DOMAIN values'}
    <3>1. DOMAIN values' = DOMAIN values \union {Len(values) + 1}
      BY <2>4
    <3>2. DOMAIN names = {values[i].name : i \in DOMAIN values}
      BY DEF ListAndAccessAgree
    <3> QED
      BY <2>2, <2>4, <2>5, <3>1, <3>2
  <2>7. ASSUME NEW i \in DOMAIN values' PROVE names'[values'[i].name] = i
    <3>1. CASE i = Len(values) + 1
      BY <2>2, <2>4, <2>5, <3>1
    <3>2. CASE i # Len(values) + 1
      <4>1. i \in DOMAIN values
        BY <2>4, <3>2
      <4>2. values[i].name \in DOMAIN names /\ names[values[i].name] = i
        BY <4>1 DEF ListAndAccessAgree
      <4> QED
        BY <2>4, <2>5, <4>1, <4>2
    <3> QED
      BY <3>1, <3>2
  <2> QED
    BY <2>4, <2>5, <2>6, <2>7 DEF ListAndAccessAgree
<1> QED
  BY <1>1, <1>2 DEF Set

\* A storage that is emptied, or left alone.
LEMMA EmptyAgrees ==
  ASSUME values' = <<>>, names' = EmptyMap
  PROVE  /\ values' \in Seq(Registers)
         /\ names' \in [DOMAIN names' -> Nat]
         /\ ListAndAccessAgree'
BY DEF EmptyMap, ListAndAccessAgree

LEMMA Untouched ==
  ASSUME RInv, UNCHANGED <<values, names>>
  PROVE  /\ values' \in Seq(Registers)
         /\ names' \in [DOMAIN names' -> Nat]
         /\ ListAndAccessAgree'
BY DEF RInv, Typed, ListAndAccessAgree

\* What the end of a save leaves in memory.
LEMMA AfterSaveKeeps ==
  ASSUME RInv, AfterSave
  PROVE  /\ values' \in Seq(Registers)
         /\ names' \in [DOMAIN names' -> Nat]
         /\ ListAndAccessAgree'
         /\ phase' = "loading" => phase = "loading"
<1>1. CASE saving = "replace"
  BY <1>1, EmptyAgrees DEF AfterSave
<1>2. CASE saving # "replace"
  BY <1>2, Untouched DEF AfterSave
<1> QED
  BY <1>1, <1>2

\* An initial part of a sequence of registers is one.
LEMMA PrefixTyped ==
  ASSUME NEW s \in Seq(Registers), NEW k \in Nat, k <= Len(s)
  PROVE  SubSeq(s, 1, k) \in Seq(Registers)
OBVIOUS

LEMMA WholeTyped ==
  ASSUME RInv, phase = "loading"
  PROVE  Whole \in Seq(Registers)
<1>1. reader.regs \in Seq(Registers) /\ ReadAhead \in Nat
  BY StoreAssumption DEF RInv, ReaderTyped, Readers
<1>2. PICK k \in Nat : k = IF ReadAhead < Len(reader.regs) THEN ReadAhead ELSE Len(reader.regs)
  BY <1>1
<1>3. k <= Len(reader.regs)
  BY <1>1, <1>2
<1>4. SubSeq(reader.regs, 1, k) \in Seq(Registers)
  BY <1>1, <1>3, PrefixTyped
<1> QED
  BY <1>1, <1>2, <1>4 DEF Whole

-----------------------------------------------------------------------------
(* The invariant *)

LEMMA InitInv == Init => RInv
BY DEF Init, InitStore, RInv, Typed, ReaderTyped, ListAndAccessAgree, EmptyMap, NoFile, Files

\* Saving: the file gets the registers, some of them, or none.
LEMMA SavesKeep ==
  ASSUME RInv, Save \/ CutSave \/ LostSave
  PROVE  RInv'
<1>1. values \in Seq(Registers) /\ Typed /\ ReaderTyped
  BY DEF RInv, Typed
<1>2. /\ values' \in Seq(Registers)
      /\ names' \in [DOMAIN names' -> Nat]
      /\ ListAndAccessAgree'
      /\ phase' = "loading" => phase = "loading"
  BY AfterSaveKeeps DEF Save, CutSave, LostSave
<1>3. ReaderTyped'
  BY <1>1, <1>2 DEF Save, CutSave, LostSave, ReaderTyped
<1>4. file' \in Files
  <2>1. CASE Save
    BY <1>1, <2>1 DEF Save, Written, FileOf, Files
  <2>2. CASE CutSave
    <3>1. file' \in CutFiles
      BY <2>2 DEF CutSave
    <3>2. CASE file' = Headless
      BY <3>2 DEF Headless, Files
    <3>3. CASE file' # Headless
      <4>1. PICK k \in 0 .. Len(values) - 1,
                 c \in {NoName} \union {values[i].name : i \in DOMAIN values} :
              file' = [exists |-> TRUE, count |-> Len(values), regs |-> SubSeq(values, 1, k),
                       cutName |-> c]
        BY <3>1, <3>3 DEF CutFiles
      <4>2. k \in Nat /\ k <= Len(values) /\ Len(values) \in Nat
        BY <1>1
      <4>3. SubSeq(values, 1, k) \in Seq(Registers)
        BY <1>1, <4>2, PrefixTyped
      <4>4. ASSUME NEW i \in DOMAIN values PROVE values[i].name \in AllNames
        <5>1. values[i] \in Registers
          BY <1>1
        <5> QED
          BY <5>1 DEF Registers
      <4> QED
        BY <4>1, <4>2, <4>3, <4>4 DEF Files
    <3> QED
      BY <3>2, <3>3
  <2>3. CASE LostSave
    BY <1>1, <2>3 DEF LostSave, Typed
  <2> QED
    BY <2>1, <2>2, <2>3
<1> QED
  BY <1>2, <1>3, <1>4 DEF RInv, Typed

\* Loading: every register that reaches set() comes from the file, or is read behind
\* its end, and has a name.
LEMMA LoadsKeep ==
  ASSUME RInv, LoadNext \/ LoadCut \/ LoadGarbage
  PROVE  RInv'
<1>1. /\ values \in Seq(Registers) /\ names \in [DOMAIN names -> Nat] /\ ListAndAccessAgree
      /\ Typed /\ phase = "loading" /\ reader \in Readers
  BY DEF RInv, Typed, ReaderTyped, LoadNext, LoadCut, LoadGarbage, Reading
<1>0. /\ reader.regs \in Seq(Registers) /\ reader.pos \in Nat
      /\ reader.original.cutName \in AllNames \union {NoName}
  BY <1>1 DEF Readers, Files
<1>2. \/ \E n \in AllNames, v \in Values : Set(n, v)
      \/ UNCHANGED <<values, names>>
  <2>1. CASE LoadNext
    <3>1. PICK i : i = reader.pos + 1
      OBVIOUS
    <3>2. Whole \in Seq(Registers) /\ i \in 1 .. Len(Whole)
      BY <1>0, <1>1, <2>1, <3>1, WholeTyped DEF LoadNext
    <3>3. PICK r : r = Whole[i]
      OBVIOUS
    <3>4. r \in Registers
      BY <3>2, <3>3
    <3>5. r.name \in AllNames /\ r.value \in Values
      BY <3>4 DEF Registers
    <3>6. Set(r.name, r.value)
      BY <2>1, <3>1, <3>3 DEF LoadNext
    <3> QED
      BY <3>5, <3>6
  <2>2. CASE LoadCut
    <3>1. PICK n : /\ n = IF Rewritten /\ reader.pos < Len(reader.regs)
                          THEN reader.regs[reader.pos + 1].name ELSE reader.original.cutName
                   /\ n # NoName
                   /\ \E v \in Values : Set(n, v)
      BY <2>2 DEF LoadCut
    <3>2. CASE Rewritten /\ reader.pos < Len(reader.regs)
      <4>1. reader.regs[reader.pos + 1] \in Registers
        BY <1>0, <3>2
      <4>2. n \in AllNames
        BY <3>1, <3>2, <4>1 DEF Registers
      <4> QED
        BY <3>1, <4>2
    <3>3. CASE ~(Rewritten /\ reader.pos < Len(reader.regs))
      BY <1>0, <3>1, <3>3
    <3> QED
      BY <3>2, <3>3
  <2>3. CASE LoadGarbage
    BY <2>3 DEF LoadGarbage, AllNames
  <2> QED
    BY <2>1, <2>2, <2>3
<1>3. /\ values' \in Seq(Registers)
      /\ names' \in [DOMAIN names' -> Nat]
      /\ ListAndAccessAgree'
  BY <1>1, <1>2, SetKeeps, Untouched
<1>4. file' = file /\ phase' = phase
  BY DEF LoadNext, LoadCut, LoadGarbage
<1>5. reader' \in Readers
  <2>1. PICK p \in Nat : reader' = [reader EXCEPT !.pos = p]
    <3>1. reader.pos + 1 \in Nat /\ reader.expected \in Nat
      BY <1>1 DEF Readers
    <3> QED
      BY <3>1 DEF LoadNext, LoadCut, LoadGarbage
  <2> QED
    BY <1>1, <2>1 DEF Readers
<1> QED
  BY <1>1, <1>3, <1>4, <1>5 DEF RInv, Typed, ReaderTyped

\* Opening the file.
LEMMA OpenKeeps ==
  ASSUME RInv, Open
  PROVE  RInv'
<1>1. /\ Typed /\ file \in Files
      /\ values' \in Seq(Registers) /\ names' \in [DOMAIN names' -> Nat] /\ ListAndAccessAgree'
      /\ file' = file
  BY Untouched DEF RInv, Typed, Open
<1>2. ReaderTyped'
  <2>1. CASE file.exists
    <3>1. PICK regs \in Orders(Readable(file)) :
            reader' = [original |-> file, regs |-> regs, expected |-> Expected(file), pos |-> 0]
      BY <2>1 DEF Open
    <3>2. Readable(file) \in Seq(Registers)
      BY <1>1 DEF Readable, Files
    <3>3. regs \in Seq(Registers)
      <4>1. PICK f : f = Readable(file)
        OBVIOUS
      <4>2. f \in Seq(Registers) /\ regs \in [DOMAIN f -> {f[i] : i \in DOMAIN f}]
        BY <3>1, <3>2, <4>1 DEF Orders
      <4>3. {f[i] : i \in DOMAIN f} \subseteq Registers
        BY <4>2
      <4>4. Len(f) \in Nat /\ DOMAIN f = 1 .. Len(f)
        BY <4>2
      <4>5. regs \in [1 .. Len(f) -> Registers]
        BY <4>2, <4>3, <4>4
      <4> QED
        BY <4>4, <4>5
    <3>4. Expected(file) \in Nat
      BY <1>1, <3>2 DEF Expected, Files
    <3> QED
      BY <1>1, <3>1, <3>3, <3>4 DEF ReaderTyped, Readers
  <2>2. CASE ~file.exists
    BY <2>2 DEF Open, ReaderTyped
  <2> QED
    BY <2>1, <2>2
<1> QED
  BY <1>1, <1>2 DEF RInv, Typed

\* Steps that change neither memory nor file, and leave the load where it is.
LEMMA IdleKeeps ==
  ASSUME RInv, UNCHANGED <<values, names, file, reader>>, phase' = "loading" => phase = "loading"
  PROVE  RInv'
<1>1. Typed' /\ ListAndAccessAgree'
  BY Untouched DEF RInv, Typed
<1>2. ReaderTyped'
  BY DEF RInv, ReaderTyped
<1> QED
  BY <1>1, <1>2 DEF RInv

\* A change by the application or a remote node.
LEMMA ChangeKeeps ==
  ASSUME RInv, NEW n \in AllNames, NEW v \in Values, Change(n, v)
  PROVE  RInv'
<1>1. /\ values' \in Seq(Registers) /\ names' \in [DOMAIN names' -> Nat] /\ ListAndAccessAgree'
  BY SetKeeps DEF RInv, Typed, Change
<1>2. file' = file /\ phase' = phase /\ reader' = reader
  BY DEF Change
<1> QED
  BY <1>1, <1>2 DEF RInv, Typed, ReaderTyped

\* The end of the process.
LEMMA StopKeeps ==
  ASSUME RInv, Stop
  PROVE  RInv'
BY EmptyAgrees DEF Stop, RInv, Typed, ReaderTyped

LEMMA StepInv == RInv /\ [Next]_vars => RInv'
<1> SUFFICES ASSUME RInv, [Next]_vars PROVE RInv'
  OBVIOUS
<1>1. CASE NextStore
  <2>1. CASE Save \/ CutSave \/ LostSave
    BY <2>1, SavesKeep
  <2>2. CASE LoadNext \/ LoadCut \/ LoadGarbage
    BY <2>2, LoadsKeep
  <2>3. CASE Open
    BY <2>3, OpenKeeps
  <2>4. CASE Stop
    BY <2>4, StopKeeps
  <2>5. CASE LoadDone
    BY <2>5, Untouched DEF LoadDone, RInv, Typed, ReaderTyped
  <2>6. CASE StartSave \/ SetImplementation \/ Construct \/ \E on \in BOOLEAN : SetAutosave(on)
    BY <2>6, IdleKeeps DEF StartSave, SetImplementation, Construct, SetAutosave
  <2>7. ASSUME NEW n \in Names, NEW v \in Values, Assign(n, v) \/ SetDefault(n, v)
        PROVE  RInv'
    BY <2>7, ChangeKeeps DEF Assign, SetDefault, AllNames
  <2> QED
    BY <1>1, <2>1, <2>2, <2>3, <2>4, <2>5, <2>6, <2>7 DEF NextStore
<1>2. ASSUME NEW n \in AllNames, NEW v \in Values, Access(n, v)
      PROVE  RInv'
  BY <1>2, ChangeKeeps DEF Access
<1>3. ASSUME UNCHANGED store
      PROVE  RInv'
  BY <1>3, IdleKeeps DEF store
<1>4. ASSUME NEW u \in Udp, EnterNode(u) \/ SetNode(u) \/ SetNodeDropped(u)
      PROVE  RInv'
  BY <1>3, <1>4 DEF EnterNode, SetNode, SetNodeDropped
<1>5. CASE RemoveNode \/ LeaveScope
  BY <1>3, <1>5 DEF RemoveNode, LeaveScope
<1>6. CASE UNCHANGED vars
  BY <1>3, <1>6 DEF vars
<1> QED
  BY <1>1, <1>2, <1>4, <1>5, <1>6 DEF Next

\* What List names under an index is what Access reads under that name, and no name is
\* listed twice, in every storage, after any number of loads, cut writes and restarts
\* (stdstorage_impl.hpp:53-119, qt_cyphal_registry.cpp:65-109).
THEOREM AlwaysAgree == Spec => []ListAndAccessAgree
<1>1. Spec => []RInv
  BY InitInv, StepInv, PTL DEF Spec
<1>2. RInv => ListAndAccessAgree
  BY DEF RInv
<1> QED
  BY <1>1, <1>2, PTL

-----------------------------------------------------------------------------
(* The services and the scopes *)

\* Scopes are left in reverse order: a node that is served has the resetter of its
\* services above it, which must go first.
Guarded ==
  serving # NoNode =>
    \E i, j \in DOMAIN scopes : i < j /\ scopes[i] = serving /\ scopes[j] = Resetter

SInv ==
  /\ scopes \in Seq(Udp \union {Resetter})
  /\ serving \in Udp \union {NoNode}
  /\ Guarded

LEMMA GuardedIsAlive == SInv => ServedNodeIsAlive
BY ServingAssumption DEF SInv, Guarded, ServedNodeIsAlive, Alive

LEMMA ServingInit == Init => SInv
BY DEF Init, SInv, Guarded

LEMMA PushKeeps ==
  ASSUME SInv, NEW x \in Udp \union {Resetter}, scopes' = Append(scopes, x),
         serving' = serving
  PROVE  SInv'
<1>1. /\ scopes' \in Seq(Udp \union {Resetter})
      /\ DOMAIN scopes \subseteq DOMAIN scopes'
      /\ \A i \in DOMAIN scopes : scopes'[i] = scopes[i]
  BY DEF SInv
<1> QED
  BY <1>1 DEF SInv, Guarded

LEMMA ServingStep == SInv /\ [Next]_vars => SInv'
<1> SUFFICES ASSUME SInv, [Next]_vars PROVE SInv'
  OBVIOUS
<1>1. ASSUME UNCHANGED <<scopes, serving>> PROVE SInv'
  BY <1>1 DEF SInv, Guarded
<1>2. ASSUME NEW u \in Udp, EnterNode(u) PROVE SInv'
  BY <1>2, PushKeeps DEF EnterNode
<1>3. ASSUME NEW u \in Udp, SetNode(u) PROVE SInv'
  <2>1. PICK i \in DOMAIN scopes : scopes[i] = u
    BY <1>3 DEF SetNode, Alive
  <2>2. PICK l : l = Len(scopes)
    OBVIOUS
  <2>3. l \in Nat /\ i \in 1 .. l
    BY <2>1, <2>2 DEF SInv
  <2>4. /\ scopes' \in Seq(Udp \union {Resetter})
        /\ DOMAIN scopes' = 1 .. l + 1
        /\ scopes'[i] = scopes[i] /\ scopes'[l + 1] = Resetter
    BY <1>3, <2>1, <2>2 DEF SInv, SetNode
  <2> QED
    BY <1>3, <2>1, <2>3, <2>4 DEF SInv, Guarded, SetNode
<1>4. ASSUME serving' = NoNode, scopes' \in Seq(Udp \union {Resetter}) PROVE SInv'
  BY <1>4 DEF SInv, Guarded
<1>5. CASE LeaveScope
  <2>1. PICK l : l = Len(scopes)
    OBVIOUS
  <2>2. /\ l \in Nat /\ l > 0 /\ DOMAIN scopes = 1 .. l
        /\ scopes' \in Seq(Udp \union {Resetter})
        /\ DOMAIN scopes' = 1 .. l - 1
        /\ \A i \in 1 .. l - 1 : scopes'[i] = scopes[i]
    BY <1>5, <2>1 DEF SInv, LeaveScope
  <2>3. CASE scopes[l] = Resetter
    <3>1. serving' = NoNode
      BY <1>5, <2>1, <2>3 DEF LeaveScope, Reset
    <3> QED
      BY <1>4, <2>2, <3>1
  <2>4. CASE scopes[l] # Resetter
    <3>1. serving' = serving
      BY <1>5, <2>1, <2>4 DEF LeaveScope, Reset
    <3>2. CASE serving = NoNode
      BY <1>4, <2>2, <3>1, <3>2
    <3>3. CASE serving # NoNode
      <4>1. PICK i, j \in DOMAIN scopes : i < j /\ scopes[i] = serving /\ scopes[j] = Resetter
        BY <3>3 DEF SInv, Guarded
      <4>2. i \in 1 .. l - 1 /\ j \in 1 .. l - 1
        BY <2>2, <2>4, <4>1
      <4> QED
        BY <2>2, <3>1, <4>1, <4>2 DEF SInv, Guarded
    <3> QED
      BY <3>2, <3>3
  <2> QED
    BY <2>3, <2>4
<1>6. CASE RemoveNode \/ \E u \in Udp : SetNodeDropped(u)
  BY <1>4, <1>6 DEF RemoveNode, SetNodeDropped, SInv
<1>7. CASE \/ NextStore /\ UNCHANGED service
           \/ \E n \in AllNames, v \in Values : Access(n, v)
           \/ UNCHANGED vars
  BY <1>1, <1>7 DEF Access, service, vars
<1> QED
  BY <1>2, <1>3, <1>5, <1>6, <1>7 DEF Next

\* A Registry lets go of its node before the node is destroyed, for any nesting of
\* nodes and resetters (cyphalppregistry.hpp:150-153, 172-186).
THEOREM NodeOutlivesServices == Spec => []ServedNodeIsAlive
<1>1. Spec => []SInv
  BY ServingInit, ServingStep, PTL DEF Spec
<1> QED
  BY <1>1, GuardedIsAlive, PTL

-----------------------------------------------------------------------------
(* What set() does to the list, and what is saved *)

\* A register that is set keeps its name and its place, the others are as they were.
LEMMA SetAt ==
  ASSUME RInv, NEW n \in AllNames, NEW v \in Values, Set(n, v)
  PROVE  /\ DOMAIN names' = DOMAIN names \union {n}
         /\ \A i \in DOMAIN values : i \in DOMAIN values' /\ values'[i].name = values[i].name
         /\ \A i \in DOMAIN values' :
              values'[i].name = n \/ (i \in DOMAIN values /\ values'[i] = values[i])
<1>1. CASE n \in DOMAIN names /\ values' = [values EXCEPT ![names[n]].value = v] /\ names' = names
  <2>1. PICK k \in DOMAIN values : values[k].name = n /\ names[n] = k
    BY <1>1 DEF RInv, ListAndAccessAgree
  <2>2. PICK r : r = values[k]
    OBVIOUS
  <2>3. r \in Registers /\ r.name = n
    BY <2>1, <2>2 DEF RInv, Typed
  <2>4. PICK w : w = [r EXCEPT !.value = v]
    OBVIOUS
  <2>5. w.name = n
    BY <2>3, <2>4 DEF Registers
  <2>6. values' = [values EXCEPT ![k] = w]
    BY <1>1, <2>1, <2>2, <2>4
  <2>7. /\ DOMAIN values' = DOMAIN values /\ values'[k] = w
        /\ \A i \in DOMAIN values \ {k} : values'[i] = values[i]
    BY <2>1, <2>6 DEF RInv, Typed
  <2> QED BY <1>1, <2>1, <2>5, <2>7
<1>2. CASE n \notin DOMAIN names /\ values' = Appended(n, v) /\ names' = Inserted(n)
  <2>1. PICK r : r = [name |-> n, value |-> v]
    OBVIOUS
  <2>2. PICK l \in Nat : l = Len(values)
    BY DEF RInv, Typed
  <2>3. /\ DOMAIN values = 1 .. l /\ DOMAIN values' = 1 .. l + 1 /\ values'[l + 1] = r
        /\ \A i \in 1 .. l : values'[i] = values[i]
    BY <1>2, <2>1, <2>2 DEF Appended, RInv, Typed
  <2>4. DOMAIN names' = DOMAIN names \union {n}
    BY <1>2 DEF Inserted
  <2>5. \A i \in 1 .. l + 1 : i = l + 1 \/ i \in 1 .. l
    BY <2>2
  <2>6. \A i \in 1 .. l : i \in 1 .. l + 1
    BY <2>2
  <2> QED BY <2>1, <2>3, <2>4, <2>5, <2>6
<1> QED BY <1>1, <1>2 DEF Set

\* Where a load's registers come from.
LEMMA LoadSets ==
  ASSUME RInv, LoadNext \/ LoadCut \/ LoadGarbage
  PROVE  \/ \E n \in AllNames, v \in Values : Set(n, v)
         \/ UNCHANGED <<values, names, saving, unsaved>>
<1>1. phase = "loading" /\ reader \in Readers /\ reader.regs \in Seq(Registers)
      /\ reader.pos \in Nat /\ reader.original.cutName \in AllNames \union {NoName}
  BY DEF RInv, ReaderTyped, LoadNext, LoadCut, LoadGarbage, Reading, Readers, Files
<1>2. CASE LoadNext
  <2>1. PICK i : i = reader.pos + 1
    OBVIOUS
  <2>2. Whole \in Seq(Registers) /\ i \in 1 .. Len(Whole)
    BY <1>1, <1>2, <2>1, WholeTyped DEF LoadNext
  <2>3. PICK r : r = Whole[i]
    OBVIOUS
  <2>4. r \in Registers
    BY <2>2, <2>3
  <2>5. r.name \in AllNames /\ r.value \in Values /\ Set(r.name, r.value)
    BY <1>2, <2>1, <2>3, <2>4 DEF LoadNext, Registers
  <2> QED BY <2>5
<1>3. CASE LoadCut
  <2>1. PICK n : /\ n = IF Rewritten /\ reader.pos < Len(reader.regs)
                        THEN reader.regs[reader.pos + 1].name ELSE reader.original.cutName
                 /\ n # NoName
                 /\ \E v \in Values : Set(n, v)
    BY <1>3 DEF LoadCut
  <2>2. CASE Rewritten /\ reader.pos < Len(reader.regs)
    <3>1. reader.regs[reader.pos + 1] \in Registers
      BY <1>1, <2>2
    <3> QED BY <2>1, <2>2, <3>1 DEF Registers
  <2>3. CASE ~(Rewritten /\ reader.pos < Len(reader.regs))
    BY <1>1, <2>1, <2>3
  <2> QED BY <2>2, <2>3
<1>4. CASE LoadGarbage
  BY <1>4 DEF LoadGarbage, AllNames
<1> QED BY <1>2, <1>3, <1>4

\* Every step sets a register, saves, ends the process, or leaves memory and file alone.
LEMMA StepIs ==
  ASSUME RInv, [Next]_vars
  PROVE  \/ /\ \E n \in AllNames, v \in Values : Set(n, v)
            /\ file' = file /\ saving = NotSaving
         \/ Save \/ CutSave \/ LostSave \/ Stop
         \/ /\ UNCHANGED <<values, names, file, unsaved>>
            /\ saving' = saving \/ saving' # NotSaving
<1>1. CASE NextStore
  <2>1. CASE LoadNext \/ LoadCut \/ LoadGarbage
    BY <2>1, LoadSets DEF LoadNext, LoadCut, LoadGarbage, Reading
  <2>2. CASE \E n \in Names, v \in Values : Assign(n, v) \/ SetDefault(n, v)
    BY <2>2 DEF Assign, SetDefault, Change, Idle, AllNames
  <2>3. CASE StartSave \/ SetImplementation
    BY <2>3 DEF StartSave, SetImplementation, NotSaving
  <2>4. CASE Construct \/ Open \/ LoadDone \/ \E on \in BOOLEAN : SetAutosave(on)
    BY <2>4 DEF Construct, Open, LoadDone, SetAutosave
  <2> QED BY <1>1, <2>1, <2>2, <2>3, <2>4 DEF NextStore
<1>2. CASE \E n \in AllNames, v \in Values : Access(n, v)
  BY <1>2 DEF Access, Change, Idle
<1>3. CASE UNCHANGED store
  BY <1>3 DEF store
<1>4. CASE \/ \E u \in Udp : EnterNode(u) \/ SetNode(u) \/ SetNodeDropped(u)
           \/ RemoveNode \/ LeaveScope \/ UNCHANGED vars
  BY <1>3, <1>4 DEF EnterNode, SetNode, SetNodeDropped, RemoveNode, LeaveScope, vars
<1> QED BY <1>1, <1>2, <1>4 DEF Next

\* A remote node that walks the list neither misses a register nor sees one twice, in
\* every storage and whatever is loaded meanwhile (stdstorage_impl.hpp:53-61, 94-110).
THEOREM NamesKeepIndexes == Spec => IndexesAreStable
<1> DEFINE Stable == phase' \in {"loading", "running"} =>
                       \A i \in DOMAIN values :
                         i \in DOMAIN values' /\ values'[i].name = values[i].name
<1>1. ASSUME RInv, [Next]_vars PROVE Stable
  <2>1. CASE \E n \in AllNames, v \in Values : Set(n, v)
    BY <1>1, <2>1, SetAt
  <2>2. CASE Save \/ CutSave \/ LostSave
    BY <2>2 DEF Save, CutSave, LostSave, AfterSave
  <2>3. CASE Stop
    BY <2>3 DEF Stop
  <2>4. CASE UNCHANGED values
    BY <2>4
  <2> QED BY <1>1, <2>1, <2>2, <2>3, <2>4, StepIs
<1>2. Spec => []RInv
  BY InitInv, StepInv, PTL DEF Spec
<1>3. RInv /\ [Next]_vars => [Stable]_vars
  BY <1>1
<1>4. Spec => [][Stable]_vars
  BY <1>2, <1>3, PTL DEF Spec
<1> QED BY <1>4 DEF IndexesAreStable

-----------------------------------------------------------------------------
(* What reaches the file *)

\* WritesReachTheFile, at any time between two saves.
OnDisk ==
  saving = NotSaving /\ ~IsTorn(file) =>
    \A i \in DOMAIN values : values[i].name \notin unsaved =>
      \E j \in DOMAIN file.regs : file.regs[j] = values[i]

\* A write that is cut short is seen as such.
LEMMA CutIsTorn == ASSUME RInv, CutSave PROVE IsTorn(file')
<1>1. PICK l \in Nat : l = Len(values)
  BY DEF RInv, Typed
<1>2. CASE file' = Headless
  BY <1>2 DEF Headless, IsTorn
<1>3. CASE file' # Headless
  <2>1. PICK k \in 0 .. l - 1, c \in {NoName} \union {values[i].name : i \in DOMAIN values} :
          file' = [exists |-> TRUE, count |-> l, regs |-> SubSeq(values, 1, k), cutName |-> c]
    BY <1>1, <1>3 DEF CutSave, CutFiles
  <2>2. Len(SubSeq(values, 1, k)) = k
    BY <1>1 DEF RInv, Typed
  <2> QED BY <2>1, <2>2 DEF IsTorn
<1> QED BY <1>2, <1>3

LEMMA AfterSaveMemory == ASSUME AfterSave PROVE values' = values \/ values' = <<>>
  BY DEF AfterSave

LEMMA OnDiskStep == ASSUME RInv, OnDisk, [Next]_vars PROVE OnDisk'
<1>1. ASSUME NEW n \in AllNames, NEW v \in Values, Set(n, v), file' = file, saving = NotSaving
      PROVE  OnDisk'
  <2>1. SUFFICES ASSUME saving' = NotSaving, ~IsTorn(file'),
                        NEW i \in DOMAIN values', values'[i].name \notin unsaved'
                 PROVE  \E j \in DOMAIN file'.regs : file'.regs[j] = values'[i]
    BY DEF OnDisk
  <2>2. autosave = FALSE \/ autosave # TRUE
    BY <1>1, <2>1 DEF Set, Changed, NotSaving
  <2>3. unsaved' = unsaved \union {n}
    BY <1>1, <2>1, <2>2 DEF Set, Changed, NotSaving
  <2>4. i \in DOMAIN values /\ values'[i] = values[i] /\ values[i].name \notin unsaved
    BY <1>1, <2>1, <2>3, SetAt
  <2> QED BY <1>1, <2>1, <2>4 DEF OnDisk
<1>2. CASE Save
  <2>1. file' = FileOf(values) /\ (values' = values \/ values' = <<>>)
    BY <1>2, AfterSaveMemory DEF Save, Written
  <2> QED BY <2>1 DEF FileOf, OnDisk
<1>3. CASE CutSave
  BY <1>3, CutIsTorn DEF OnDisk
<1>4. CASE LostSave
  <2>1. /\ unsaved' = {values[i].name : i \in DOMAIN values}
        /\ values' = values \/ values' = <<>>
    BY <1>4, AfterSaveMemory DEF LostSave
  <2> QED BY <2>1 DEF OnDisk
<1>5. CASE Stop
  BY <1>5 DEF Stop, OnDisk
<1>6. CASE /\ UNCHANGED <<values, names, file, unsaved>>
           /\ saving' = saving \/ saving' # NotSaving
  BY <1>6 DEF OnDisk
<1> QED BY <1>1, <1>2, <1>3, <1>4, <1>5, <1>6, StepIs

\* A file that was written to its end holds every value that was stored with autosave
\* or before the last save, unless that save could not open it
\* (stdstorage_impl.hpp:81-119).
THEOREM WritesReach == Spec => []WritesReachTheFile
<1>1. Init => OnDisk
  BY DEF Init, InitStore, OnDisk
<1>2. OnDisk => WritesReachTheFile
  BY DEF OnDisk, WritesReachTheFile
<1> QED BY <1>1, <1>2, InitInv, StepInv, OnDiskStep, PTL DEF Spec

-----------------------------------------------------------------------------
(* Which names there are *)

\* The names there may be.
Known == created \union (IF damaged /\ format = "binary" THEN {Garbage} ELSE {})

NamesKnown(regs) == \A i \in DOMAIN regs : regs[i].name \in Known

\* What the file has under its header; a JSON file that is torn is not read at all.
FileKnown ==
  /\ NamesKnown(file.regs)
  /\ file.cutName = NoName \/ file.cutName \in Known
  /\ ~IsTorn(file) \/ (damaged /\ format = "binary") \/ format = "json"

\* A load that nothing rewrites ends where the file ends, unless the file is damaged.
\* Only the binary storage reads from the file as it goes.
ReaderKnown ==
  phase = "loading" =>
    /\ format = "binary" => reader.original = file
    /\ NamesKnown(reader.regs)
    /\ reader.expected = Len(reader.regs) \/ (damaged /\ format = "binary")

\* Nothing is saved before the process runs ...
Quiet == phase # "running" => autosave = FALSE /\ saving = NotSaving

\* ... but for what a load has set where autosave was switched on before it.
Calm ==
  /\ format = "binary" => Quiet
  /\ phase \in {"stopped", "constructed"} => saving = NotSaving
  /\ phase = "loading" => saving \in {NotSaving, "change"}

KInv ==
  /\ format \in {"binary", "json", "settings"}
  /\ Calm
  /\ DOMAIN names \subseteq Known
  /\ FileKnown /\ ReaderKnown

\* What is known stays known.
LEMMA KnownGrows ==
  ASSUME created \subseteq created', damaged => damaged', format' = format
  PROVE  Known \subseteq Known'
  BY DEF Known

\* Steps that leave the file and the load alone.
LEMMA FileStays ==
  ASSUME KInv, UNCHANGED <<file, format>>, created \subseteq created', damaged => damaged',
         \/ phase' # "loading"
         \/ /\ phase = "loading" /\ reader'.original = reader.original
            /\ reader'.regs = reader.regs /\ reader'.expected = reader.expected
  PROVE  FileKnown' /\ ReaderKnown'
<1>1. Known \subseteq Known'
  BY KnownGrows
<1> QED BY <1>1 DEF KInv, FileKnown, ReaderKnown, NamesKnown, IsTorn

\* What the registers are called is known.
LEMMA ValuesKnown == ASSUME RInv, KInv, NEW i \in DOMAIN values PROVE values[i].name \in Known
  BY DEF RInv, KInv, ListAndAccessAgree

LEMMA SavesKnown == ASSUME RInv, KInv, format' = format, Save \/ CutSave \/ LostSave PROVE KInv'
<1>1. /\ created' = created /\ (damaged => damaged') /\ saving' = NotSaving /\ AfterSave
      /\ reader' = reader /\ saving # NotSaving
  BY DEF Save, CutSave, LostSave
<1>2. Known \subseteq Known'
  BY <1>1, KnownGrows
<1>3. /\ DOMAIN names' \subseteq Known' /\ Calm'
      /\ phase' = "loading" => phase = "loading" /\ format # "binary"
  BY <1>1, <1>2 DEF AfterSave, EmptyMap, KInv, Calm, Quiet, NotSaving
<1>4. FileKnown'
  <2>1. CASE Save
    <3>1. file' = FileOf(values)
      BY <2>1 DEF Save, Written
    <3> QED BY <1>2, <3>1, ValuesKnown DEF FileKnown, NamesKnown, FileOf, IsTorn
  <2>2. CASE CutSave
    <3>1. PICK l \in Nat : l = Len(values)
      BY DEF RInv, Typed
    <3>2. damaged' /\ format # "settings"
      BY <2>2 DEF CutSave
    <3>3. CASE file' = Headless
      BY <3>2, <3>3 DEF KInv, FileKnown, NamesKnown, Headless
    <3>4. CASE file' # Headless
      <4>1. PICK k \in 0 .. l - 1, c \in {NoName} \union {values[i].name : i \in DOMAIN values} :
              file' = [exists |-> TRUE, count |-> l, regs |-> SubSeq(values, 1, k),
                       cutName |-> c]
        BY <2>2, <3>1, <3>4 DEF CutSave, CutFiles
      <4>2. PICK p : p = SubSeq(values, 1, k)
        OBVIOUS
      <4>3. DOMAIN p = 1 .. k /\ \A i \in 1 .. k : i \in DOMAIN values /\ p[i] = values[i]
        BY <3>1, <4>2 DEF RInv, Typed
      <4>4. \A i \in DOMAIN p : p[i].name \in Known'
        BY <1>2, <4>3, ValuesKnown
      <4>5. c = NoName \/ c \in Known'
        BY <1>2, ValuesKnown
      <4>6. file'.regs = p /\ file'.cutName = c
        BY <4>1, <4>2
      <4> QED BY <3>2, <4>4, <4>5, <4>6 DEF KInv, FileKnown, NamesKnown
    <3> QED BY <3>3, <3>4
  <2>3. CASE LostSave
    BY <1>3, <2>3, FileStays DEF LostSave
  <2> QED BY <2>1, <2>2, <2>3
<1>5. ReaderKnown'
  BY <1>1, <1>2, <1>3 DEF KInv, ReaderKnown, NamesKnown
<1> QED BY <1>3, <1>4, <1>5 DEF KInv

\* A load sets names of the file, and makes up one only when the file is damaged.
LEMMA LoadsKnown ==
  ASSUME RInv, KInv, format' = format, LoadNext \/ LoadCut \/ LoadGarbage PROVE KInv'
<1>1. /\ phase = "loading" /\ phase' = phase /\ saving = NotSaving
      /\ format = "binary" => autosave = FALSE
      /\ autosave' = autosave /\ file' = file /\ created' = created /\ damaged' = damaged
      /\ reader \in Readers /\ reader.pos < reader.expected
  BY DEF RInv, ReaderTyped, KInv, Calm, Quiet, LoadNext, LoadCut, LoadGarbage, Reading
<1>2. PICK r : r = reader
  OBVIOUS
<1>3. /\ r.regs \in Seq(Registers) /\ r.pos \in Nat /\ r.expected \in Nat
      /\ format = "binary" => r.original = file
      /\ r.pos < r.expected /\ NamesKnown(r.regs)
      /\ r.expected = Len(r.regs) \/ (damaged /\ format = "binary")
  BY <1>1, <1>2 DEF Readers, KInv, ReaderKnown
<1>4. Whole = r.regs
  BY <1>2, <1>3 DEF Whole, Rewritten
<1>5. Known' = Known
  BY <1>1 DEF Known
<1>6. (\E n \in Known, v \in Values : Set(n, v)) \/ UNCHANGED <<names, saving>>
  <2>1. CASE LoadNext
    <3>1. PICK i : i = r.pos + 1
      OBVIOUS
    <3>2. i \in DOMAIN r.regs
      BY <1>2, <1>3, <1>4, <2>1, <3>1 DEF LoadNext
    <3>3. PICK g : g = r.regs[i]
      OBVIOUS
    <3>4. g \in Registers /\ g.name \in Known
      BY <1>3, <3>2, <3>3 DEF NamesKnown
    <3>5. g.value \in Values
      BY <3>4 DEF Registers
    <3> QED BY <1>2, <1>4, <2>1, <3>1, <3>3, <3>4, <3>5 DEF LoadNext
  <2>2. CASE LoadCut
    <3>1. ~Rewritten /\ format = "binary"
      BY <1>2, <1>3, <1>4, <2>2 DEF Rewritten, LoadCut
    <3>2. file.cutName # NoName /\ \E v \in Values : Set(file.cutName, v)
      BY <1>2, <1>3, <2>2, <3>1 DEF LoadCut
    <3> QED BY <3>2 DEF KInv, FileKnown
  <2>3. CASE LoadGarbage
    <3>1. damaged /\ format = "binary"
      BY <1>2, <1>3, <1>4, <2>3 DEF LoadGarbage
    <3>2. Garbage \in Known
      BY <3>1 DEF Known
    <3> QED BY <2>3, <3>2 DEF LoadGarbage
  <2> QED BY <2>1, <2>2, <2>3
<1>7. DOMAIN names' \subseteq Known /\ Calm'
  <2>1. ASSUME NEW n \in Known, NEW v \in Values, Set(n, v)
        PROVE  /\ DOMAIN names' \subseteq Known /\ saving' \in {NotSaving, "change"}
               /\ format = "binary" => saving' = NotSaving
    BY <1>1, <2>1 DEF Set, Inserted, KInv
  <2>2. /\ DOMAIN names' \subseteq Known /\ saving' \in {NotSaving, "change"}
        /\ format = "binary" => saving' = NotSaving
    BY <1>1, <1>6, <2>1 DEF KInv
  <2> QED BY <1>1, <2>2 DEF Calm, Quiet
<1>8. /\ reader'.original = reader.original /\ reader'.regs = reader.regs
      /\ reader'.expected = reader.expected
  <2>1. PICK p : reader' = [reader EXCEPT !.pos = p]
    BY DEF LoadNext, LoadCut, LoadGarbage
  <2> QED BY <1>1, <2>1 DEF Readers
<1>9. FileKnown' /\ ReaderKnown'
  BY <1>1, <1>8, FileStays
<1> QED BY <1>1, <1>5, <1>7, <1>9 DEF KInv

\* The file is opened; what is read of it is in some order.
LEMMA OpenKnown == ASSUME RInv, KInv, format' = format, Open PROVE KInv'
<1>1. /\ file' = file /\ created' = created /\ damaged' = damaged /\ names' = names
      /\ saving' = saving /\ autosave' = autosave /\ phase = "constructed"
  BY DEF Open
<1>2. Known' = Known
  BY <1>1 DEF Known
<1>3. FileKnown'
  BY <1>1, <1>2 DEF KInv, FileKnown, NamesKnown
<1>4. ReaderKnown'
  <2>1. CASE phase' = "loading"
    <3>1. PICK regs \in Orders(Readable(file)) :
            reader' = [original |-> file, regs |-> regs, expected |-> Expected(file), pos |-> 0]
      BY <2>1 DEF Open
    <3>2. PICK f : f = Readable(file)
      OBVIOUS
    <3>3. f \in Seq(Registers) /\ NamesKnown(f)
      BY <3>2 DEF Readable, RInv, Typed, Files, KInv, FileKnown, NamesKnown
    <3>4. PICK l \in Nat : l = Len(f) /\ DOMAIN f = 1 .. l
      BY <3>3
    <3>5. regs \in [1 .. l -> {f[i] : i \in 1 .. l}]
      BY <3>1, <3>2, <3>4 DEF Orders
    <3>6. Len(regs) = l /\ DOMAIN regs = 1 .. l
      BY <3>4, <3>5
    <3>7. NamesKnown(regs)
      BY <3>3, <3>4, <3>5, <3>6 DEF NamesKnown
    <3>8. Expected(file) = l \/ (damaged /\ format = "binary")
      <4>1. CASE format = "binary"
        BY <3>2, <3>4, <4>1 DEF Expected, Readable, KInv, FileKnown, IsTorn
      <4>2. CASE format # "binary"
        BY <3>2, <3>4, <4>2 DEF Expected
      <4> QED BY <4>1, <4>2
    <3>9. NamesKnown(regs)'
      BY <1>2, <3>7 DEF NamesKnown
    <3> QED BY <1>1, <3>1, <3>6, <3>8, <3>9 DEF ReaderKnown
  <2> QED BY <2>1 DEF ReaderKnown
<1>5. Calm'
  BY <1>1 DEF Open, KInv, Calm, Quiet
<1> QED BY <1>1, <1>2, <1>3, <1>4, <1>5 DEF KInv

\* A change has a name that is there already, or that the application chose.
LEMMA ChangeKnown ==
  ASSUME RInv, KInv, format' = format, NEW n, NEW v \in Values, Change(n, v),
         created \subseteq created', n \in created' \/ n \in DOMAIN names
  PROVE  KInv'
<1>1. /\ phase = "running" /\ phase' = phase /\ file' = file /\ damaged' = damaged
      /\ Set(n, v)
  BY DEF Change, Idle
<1>2. Known \subseteq Known'
  BY <1>1, KnownGrows
<1>3. DOMAIN names' = DOMAIN names \union {n}
  BY <1>1 DEF Set, Inserted
<1>4. DOMAIN names' \subseteq Known'
  BY <1>2, <1>3 DEF KInv, Known
<1>5. FileKnown' /\ ReaderKnown'
  BY <1>1, FileStays
<1>6. Calm'
  BY <1>1 DEF Calm, Quiet
<1> QED BY <1>1, <1>4, <1>5, <1>6 DEF KInv

\* Steps that leave names, file and history as they are.
LEMMA QuietKnown ==
  ASSUME KInv, UNCHANGED <<format, names, file, reader, created, damaged>>,
         phase' = "loading" => phase = "loading",
         Calm'
  PROVE  KInv'
<1>1. Known' = Known
  BY DEF Known
<1>2. FileKnown' /\ ReaderKnown'
  BY FileStays
<1> QED BY <1>1, <1>2 DEF KInv

LEMMA KnownStep ==
  ASSUME "binary" \notin EarlyAutosave, RInv, KInv, [Next]_vars PROVE KInv'
<1>1. CASE NextStore
  <2>1. CASE Save \/ CutSave \/ LostSave
    BY <1>1, <2>1, SavesKnown DEF NextStore
  <2>2. CASE LoadNext \/ LoadCut \/ LoadGarbage
    BY <1>1, <2>2, LoadsKnown DEF NextStore
  <2>3. CASE Open
    BY <1>1, <2>3, OpenKnown DEF NextStore
  <2>4. CASE Stop
    <3>1. Known' = Known
      BY <1>1, <2>4 DEF NextStore, Stop, Known
    <3>2. FileKnown' /\ ReaderKnown'
      BY <1>1, <2>4, FileStays DEF NextStore, Stop
    <3> QED BY <1>1, <2>4, <3>1, <3>2 DEF NextStore, Stop, EmptyMap, KInv, Calm, Quiet
  <2>5. CASE LoadDone
    <3>1. Known' = Known
      BY <1>1, <2>5 DEF NextStore, LoadDone, Known
    <3>2. FileKnown' /\ ReaderKnown'
      BY <1>1, <2>5, FileStays DEF NextStore, LoadDone
    <3> QED BY <1>1, <2>5, <3>1, <3>2 DEF NextStore, LoadDone, KInv, Calm, Quiet
  <2>6. CASE StartSave \/ SetImplementation \/ Construct
    <3>1. Calm'
      BY <1>1, <2>6 DEF NextStore, StartSave, SetImplementation, Construct, Idle, KInv, Calm, Quiet
    <3> QED BY <1>1, <2>6, <3>1, QuietKnown DEF NextStore, StartSave, SetImplementation, Construct, Idle
  <2>7. ASSUME NEW on \in BOOLEAN, SetAutosave(on) PROVE KInv'
    <3>1. Calm'
      BY <1>1, <2>7 DEF NextStore, SetAutosave, Idle, KInv, Calm, Quiet
    <3> QED BY <1>1, <2>7, <3>1, QuietKnown DEF NextStore, SetAutosave
  <2>8. ASSUME NEW n \in Names, NEW v \in Values, Assign(n, v) \/ SetDefault(n, v)
        PROVE  KInv'
    BY <1>1, <2>8, ChangeKnown DEF NextStore, Assign, SetDefault
  <2> QED BY <1>1, <2>1, <2>2, <2>3, <2>4, <2>5, <2>6, <2>7, <2>8 DEF NextStore
<1>2. ASSUME NEW n \in AllNames, NEW v \in Values, Access(n, v) PROVE KInv'
  BY <1>2, ChangeKnown DEF Access, IsMutable
<1>3. CASE UNCHANGED store
  <2>1. Calm'
    BY <1>3 DEF store, KInv, Calm, Quiet
  <2> QED BY <1>3, <2>1, QuietKnown DEF store
<1>4. CASE \/ \E u \in Udp : EnterNode(u) \/ SetNode(u) \/ SetNodeDropped(u)
           \/ RemoveNode \/ LeaveScope \/ UNCHANGED vars
  BY <1>3, <1>4 DEF EnterNode, SetNode, SetNodeDropped, RemoveNode, LeaveScope, vars
<1> QED BY <1>1, <1>2, <1>4 DEF Next

LEMMA KnownInit == Init => KInv
  BY StoreAssumption DEF Init, InitStore, KInv, Calm, Quiet, FileKnown, ReaderKnown, NamesKnown, NoFile,
     IsTorn, EmptyMap

\* Where autosave is not switched on before a binary file is loaded, no name appears that
\* the application did not set, but for one read behind the end of a binary file whose
\* write was cut short (cyphalppregistry.hpp:136-142, binaryregistry_impl.hpp:15-33).
THEOREM OnlyCreated == ASSUME "binary" \notin EarlyAutosave PROVE Spec => []OnlyCreatedNames
<1>1. KInv => OnlyCreatedNames
  BY DEF KInv, Known, OnlyCreatedNames
<1>2. RInv /\ KInv /\ [Next]_vars => KInv'
  BY KnownStep
<1> QED BY <1>1, <1>2, InitInv, StepInv, KnownInit, PTL DEF Spec

-----------------------------------------------------------------------------
(* What a load brings back *)

Unique(regs) == \A i, j \in DOMAIN regs : regs[i].name = regs[j].name => i = j

SameRegs(p, q) ==
  /\ \A i \in DOMAIN p : \E j \in DOMAIN q : q[j] = p[i]
  /\ \A j \in DOMAIN q : \E i \in DOMAIN p : p[i] = q[j]

\* The registers read so far of the file as it was opened are in memory, in their order,
\* and no others.
Progress ==
  phase = "loading" /\ ~IsTorn(reader.original) =>
    /\ reader.expected = Len(reader.regs) /\ Unique(reader.original.regs)
    /\ Unique(reader.regs) /\ SameRegs(reader.regs, reader.original.regs)
    /\ Len(values) = reader.pos
    /\ \A i \in DOMAIN values : i \in DOMAIN reader.regs /\ values[i] = reader.regs[i]

LInv ==
  /\ Unique(file.regs)
  /\ phase \in {"stopped", "constructed"} => values = <<>>
  /\ Progress

LEMMA MapsAgree ==
  ASSUME NEW p, NEW q, Unique(p), Unique(q), SameRegs(p, q) PROVE MapOf(p) = MapOf(q)
<1>1. {p[i].name : i \in DOMAIN p} = {q[i].name : i \in DOMAIN q}
  BY DEF SameRegs
<1>2. ASSUME NEW n \in {p[i].name : i \in DOMAIN p}
      PROVE  p[CHOOSE i \in DOMAIN p : p[i].name = n].value
               = q[CHOOSE i \in DOMAIN q : q[i].name = n].value
  <2>1. PICK i : i = CHOOSE k \in DOMAIN p : p[k].name = n
    OBVIOUS
  <2>2. PICK j : j = CHOOSE k \in DOMAIN q : q[k].name = n
    OBVIOUS
  <2>3. i \in DOMAIN p /\ p[i].name = n
    BY <1>2, <2>1
  <2>4. j \in DOMAIN q /\ q[j].name = n
    BY <1>1, <1>2, <2>2
  <2>5. PICK k \in DOMAIN q : q[k] = p[i]
    BY <2>3 DEF SameRegs
  <2>6. q[j] = p[i]
    BY <2>3, <2>4, <2>5 DEF Unique
  <2> QED BY <2>1, <2>2, <2>6
<1> DEFINE P(n) == p[CHOOSE i \in DOMAIN p : p[i].name = n].value
           Q(n) == q[CHOOSE i \in DOMAIN q : q[i].name = n].value
<1>3. MapOf(p) = [n \in {p[i].name : i \in DOMAIN p} |-> P(n)]
  BY DEF MapOf
<1>4. MapOf(q) = [n \in {q[i].name : i \in DOMAIN q} |-> Q(n)]
  BY DEF MapOf
<1>5. \A n \in {p[i].name : i \in DOMAIN p} : P(n) = Q(n)
  BY <1>2
<1> HIDE DEF P, Q
<1> QED BY <1>1, <1>3, <1>4, <1>5

\* g has the l items of f, whose set is T, in some order.
IsOrder(l, f, T, g) ==
  /\ l \in Nat /\ DOMAIN f = 1 .. l
  /\ \A t \in T : \E i \in 1 .. l : f[i] = t
  /\ \A i \in 1 .. l : f[i] \in T
  /\ g \in [1 .. l -> T]
  /\ \A i \in 1 .. l : \E j \in 1 .. l : g[j] = f[i]

\* Registers of different names in another order are still of different names.
LEMMA OrderUnique ==
  ASSUME NEW l, NEW f, NEW T, NEW g, IsOrder(l, f, T, g), Unique(f) PROVE Unique(g)
<1>1. /\ l \in Nat /\ DOMAIN f = 1 .. l
      /\ \A t \in T : \E i \in 1 .. l : f[i] = t
      /\ \A i \in 1 .. l : f[i] \in T
      /\ g \in [1 .. l -> T]
      /\ \A i \in 1 .. l : \E j \in 1 .. l : g[j] = f[i]
  BY DEF IsOrder
<1>2. PICK F : F = [i \in 1 .. l |-> f[i]]
  OBVIOUS
<1>3. F \in Bijection(1 .. l, T)
  <2>1. \A i, j \in 1 .. l : F[i] = F[j] => i = j
    BY <1>1, <1>2 DEF Unique
  <2>2. F \in [1 .. l -> T] /\ \A t \in T : \E i \in 1 .. l : F[i] = t
    BY <1>1, <1>2
  <2> QED BY <2>1, <2>2 DEF Bijection, Injection, Surjection, IsInjective
<1>4. IsFiniteSet(1 .. l) /\ Cardinality(1 .. l) = l
  BY <1>1, FS_Interval
<1>5. Cardinality(T) = l
  <2>1. ExistsBijection(1 .. l, T)
    BY <1>3 DEF ExistsBijection
  <2> QED BY <1>4, <2>1, FS_Bijection
<1>6. g \in Surjection(1 .. l, T)
  <2>1. ASSUME NEW t \in T PROVE \E j \in 1 .. l : g[j] = t
    BY <1>1
  <2> QED BY <1>1, <2>1 DEF Surjection
<1>7. g \in Injection(1 .. l, T)
  BY <1>4, <1>5, <1>6, FS_SurjSameCardinalityImpliesInj
<1>8. \A i, j \in 1 .. l : g[i] = g[j] => i = j
  BY <1>7 DEF Injection, IsInjective
<1>9. ASSUME NEW i \in 1 .. l, NEW j \in 1 .. l, g[i].name = g[j].name PROVE i = j
  <2>1. PICK a \in 1 .. l : g[i] = f[a]
    BY <1>1
  <2>2. PICK b \in 1 .. l : g[j] = f[b]
    BY <1>1
  <2>3. f[a].name = f[b].name
    BY <1>9, <2>1, <2>2
  <2>4. a = b
    BY <1>1, <2>3 DEF Unique
  <2> QED BY <1>8, <2>1, <2>2, <2>4
<1>10. DOMAIN g = 1 .. l
  BY <1>1
<1> QED BY <1>9, <1>10 DEF Unique

\* Names in memory are unique, so those of a file are.
LEMMA ValuesUnique == ASSUME RInv PROVE Unique(values)
  BY DEF RInv, ListAndAccessAgree, Unique

LEMMA SavesLoad == ASSUME RInv, KInv, LInv, Save \/ CutSave \/ LostSave PROVE LInv'
<1>1. AfterSave /\ saving # NotSaving /\ reader' = reader
  BY DEF Save, CutSave, LostSave
<1>2. phase' \in {"stopped", "constructed"} => values' = <<>>
  BY <1>1 DEF AfterSave, KInv, Calm
<1>3. Unique(file'.regs)
  <2>1. CASE Save
    BY <2>1, ValuesUnique DEF Save, Written, FileOf
  <2>2. CASE CutSave
    <3>1. PICK l \in Nat : l = Len(values)
      BY DEF RInv, Typed
    <3>2. CASE file' = Headless
      BY <3>2 DEF Headless, Unique
    <3>3. CASE file' # Headless
      <4>1. PICK k \in 0 .. l - 1, c \in {NoName} \union {values[i].name : i \in DOMAIN values} :
              file' = [exists |-> TRUE, count |-> l, regs |-> SubSeq(values, 1, k),
                       cutName |-> c]
        BY <2>2, <3>1, <3>3 DEF CutSave, CutFiles
      <4>2. PICK p : p = SubSeq(values, 1, k)
        OBVIOUS
      <4>3. DOMAIN p = 1 .. k /\ \A i \in 1 .. k : i \in DOMAIN values /\ p[i] = values[i]
        BY <3>1, <4>2 DEF RInv, Typed
      <4>4. file'.regs = p
        BY <4>1, <4>2
      <4> QED BY <4>3, <4>4, ValuesUnique DEF Unique
    <3> QED BY <3>2, <3>3
  <2>3. CASE LostSave
    BY <2>3 DEF LostSave, LInv
  <2> QED BY <2>1, <2>2, <2>3
<1>4. Progress'
  <2>1. phase' = "loading" => phase = "loading" /\ values' = values
    BY <1>1 DEF AfterSave
  <2> QED BY <1>1, <2>1 DEF LInv, Progress
<1> QED BY <1>2, <1>3, <1>4 DEF LInv

LEMMA OpenLoad == ASSUME RInv, LInv, Open PROVE LInv'
<1>1. /\ file' = file /\ values' = values /\ values = <<>> /\ phase = "constructed"
      /\ phase' \notin {"stopped", "constructed"}
  BY DEF Open, LInv
<1>2. ASSUME phase' = "loading", ~IsTorn(file) PROVE Progress'
  <2>1. PICK regs \in Orders(Readable(file)) :
          reader' = [original |-> file, regs |-> regs, expected |-> Expected(file), pos |-> 0]
    BY <1>2 DEF Open
  <2>2. PICK f : f = file.regs
    OBVIOUS
  <2>3. Readable(file) = f /\ f \in Seq(Registers) /\ Expected(file) = Len(f)
    BY <1>2, <2>2 DEF Readable, Expected, IsTorn, RInv, Typed, Files
  <2>4. PICK l \in Nat : l = Len(f) /\ DOMAIN f = 1 .. l
    BY <2>3
  <2>5. /\ regs \in [1 .. l -> {f[i] : i \in 1 .. l}]
        /\ \A i \in 1 .. l : \E j \in DOMAIN regs : regs[j] = f[i]
    BY <2>1, <2>3, <2>4 DEF Orders
  <2>6. DOMAIN regs = 1 .. l /\ Len(regs) = l
    BY <2>4, <2>5
  <2>7. SameRegs(regs, f)
    <3>1. \A i \in 1 .. l : \E j \in 1 .. l : f[j] = regs[i]
      BY <2>5
    <3>2. \A i \in 1 .. l : \E j \in 1 .. l : regs[j] = f[i]
      BY <2>5, <2>6
    <3> QED BY <2>4, <2>6, <3>1, <3>2 DEF SameRegs
  <2>8. Unique(regs)
    <3>1. Unique(f)
      BY <2>2 DEF LInv
    <3>2. \A i \in 1 .. l : \E j \in 1 .. l : regs[j] = f[i]
      BY <2>5, <2>6
    <3>3. PICK T : T = {f[i] : i \in 1 .. l}
      OBVIOUS
    <3>4. /\ \A t \in T : \E i \in 1 .. l : f[i] = t
          /\ \A i \in 1 .. l : f[i] \in T
          /\ regs \in [1 .. l -> T]
      BY <2>5, <3>3
    <3>5. IsOrder(l, f, T, regs)
      BY <2>4, <3>2, <3>4 DEF IsOrder
    <3> QED BY <3>1, <3>5, OrderUnique
  <2>9. /\ reader'.expected = l /\ reader'.regs = regs /\ reader'.pos = 0
        /\ reader'.original.regs = f /\ Unique(f)
        /\ Len(values') = 0 /\ DOMAIN values' = {}
    BY <1>1, <2>1, <2>2, <2>3, <2>4 DEF LInv
  <2> QED BY <1>1, <2>2, <2>6, <2>7, <2>8, <2>9 DEF Progress
<1>3. phase' = "loading" => reader'.original = file
  BY DEF Open
<1> QED BY <1>1, <1>2, <1>3 DEF LInv, Progress

\* The next register of a file that nothing disturbs has a new name.
LEMMA LoadsLoad ==
  ASSUME RInv, KInv, LInv, LoadNext \/ LoadCut \/ LoadGarbage PROVE LInv'
<1>1. /\ phase = "loading" /\ phase' = phase /\ file' = file /\ reader \in Readers
      /\ reader.pos < reader.expected
      /\ format = "binary" => reader.original = file
  BY DEF RInv, ReaderTyped, KInv, ReaderKnown, LoadNext, LoadCut, LoadGarbage, Reading
<1>2. ASSUME ~IsTorn(reader.original) PROVE Progress'
  <2>1. PICK r : r = reader
    OBVIOUS
  <2>2. PICK k \in Nat : k = r.pos
    BY <1>1, <2>1 DEF Readers
  <2>3. /\ r.regs \in Seq(Registers) /\ k < Len(r.regs) /\ Unique(r.regs)
        /\ SameRegs(r.regs, r.original.regs) /\ Unique(r.original.regs)
        /\ r.expected = Len(r.regs) /\ Len(values) = k
        /\ \A i \in DOMAIN values : i \in DOMAIN r.regs /\ values[i] = r.regs[i]
    BY <1>1, <1>2, <2>1, <2>2 DEF Readers, LInv, Progress
  <2>4. Whole = r.regs
    BY <1>1, <2>1 DEF Whole, Rewritten
  <2>5. LoadNext
    BY <2>1, <2>2, <2>3, <2>4 DEF LoadCut, LoadGarbage
  <2>6. PICK g : g = r.regs[k + 1]
    OBVIOUS
  <2>7. k + 1 \in DOMAIN r.regs /\ g \in Registers
    BY <2>3, <2>6
  <2>8. Set(g.name, g.value) /\ reader' = [r EXCEPT !.pos = k + 1]
    BY <2>1, <2>2, <2>4, <2>5, <2>6 DEF LoadNext
  <2>9. DOMAIN values = 1 .. k
    BY <2>3 DEF RInv, Typed
  <2>10. g.name \notin DOMAIN names
    <3>1. SUFFICES ASSUME NEW i \in 1 .. k, values[i].name = g.name PROVE FALSE
      BY <2>9 DEF RInv, ListAndAccessAgree
    <3>2. r.regs[i].name = r.regs[k + 1].name /\ i \in DOMAIN r.regs
      BY <2>3, <2>6, <2>9, <3>1
    <3>3. i = k + 1
      BY <2>3, <2>7, <3>2 DEF Unique
    <3> QED BY <3>3
  <2>11. values' = Append(values, g)
    <3>1. g = [name |-> g.name, value |-> g.value]
      BY <2>7 DEF Registers
    <3>2. values' = Appended(g.name, g.value)
      BY <2>8, <2>10 DEF Set
    <3> QED BY <3>1, <3>2 DEF Appended
  <2>12. /\ Len(values') = k + 1 /\ DOMAIN values' = 1 .. k + 1 /\ values'[k + 1] = g
         /\ \A i \in 1 .. k : values'[i] = values[i]
    BY <2>3, <2>7, <2>9, <2>11 DEF RInv, Typed
  <2>13. ASSUME NEW i \in 1 .. k + 1 PROVE i \in DOMAIN r.regs /\ values'[i] = r.regs[i]
    <3>1. i = k + 1 \/ i \in 1 .. k
      OBVIOUS
    <3> QED BY <2>3, <2>6, <2>7, <2>9, <2>12, <3>1
  <2>14. /\ reader'.regs = r.regs /\ reader'.expected = r.expected /\ reader'.pos = k + 1
        /\ reader'.original = r.original
    BY <1>1, <2>1, <2>8 DEF Readers
  <2> QED BY <1>1, <2>3, <2>12, <2>13, <2>14 DEF Progress
<1>3. reader'.original = reader.original
  <2>1. PICK p : reader' = [reader EXCEPT !.pos = p]
    BY DEF LoadNext, LoadCut, LoadGarbage
  <2> QED BY <1>1, <2>1 DEF Readers
<1> QED BY <1>1, <1>2, <1>3 DEF LInv, Progress

LEMMA LoadStep == ASSUME "binary" \notin EarlyAutosave, RInv, KInv, LInv, [Next]_vars PROVE LInv'
<1>1. CASE NextStore
  <2>1. CASE Save \/ CutSave \/ LostSave
    BY <2>1, SavesLoad
  <2>2. CASE LoadNext \/ LoadCut \/ LoadGarbage
    BY <2>2, LoadsLoad
  <2>3. CASE Open
    BY <2>3, OpenLoad
  <2>4. CASE StartSave \/ SetImplementation \/ Construct \/ LoadDone \/ Stop
    BY <2>4 DEF StartSave, SetImplementation, Construct, LoadDone, Stop, Idle, LInv, Progress
  <2>5. ASSUME NEW on \in BOOLEAN, SetAutosave(on) PROVE LInv'
    BY <2>5 DEF SetAutosave, LInv, Progress
  <2>6. ASSUME NEW n \in Names, NEW v \in Values, Assign(n, v) \/ SetDefault(n, v)
        PROVE  LInv'
    BY <2>6 DEF Assign, SetDefault, Change, Idle, LInv, Progress
  <2> QED BY <1>1, <2>1, <2>2, <2>3, <2>4, <2>5, <2>6 DEF NextStore
<1>2. ASSUME NEW n \in AllNames, NEW v \in Values, Access(n, v) PROVE LInv'
  BY <1>2 DEF Access, Change, Idle, LInv, Progress
<1>3. CASE UNCHANGED store
  BY <1>3 DEF store, LInv, Progress
<1>4. CASE \/ \E u \in Udp : EnterNode(u) \/ SetNode(u) \/ SetNodeDropped(u)
           \/ RemoveNode \/ LeaveScope \/ UNCHANGED vars
  BY <1>3, <1>4 DEF EnterNode, SetNode, SetNodeDropped, RemoveNode, LeaveScope, vars
<1> QED BY <1>1, <1>2, <1>4 DEF Next

LEMMA LoadInit == Init => LInv
  BY DEF Init, InitStore, LInv, Progress, Unique, NoFile

\* Where autosave is not switched on before a binary file is loaded: when load() is done,
\* memory holds what the file held when it was opened, for files of any length, in every
\* order, and though a JSON file may have been rewritten, cut or lost meanwhile
\* (cyphalppregistry.hpp:119, binaryregistry_impl.hpp:15-33).
THEOREM LoadsRestore == ASSUME "binary" \notin EarlyAutosave PROVE Spec => LoadRestores
<1> DEFINE Restored == phase = "loading" /\ phase' = "running" /\ ~IsTorn(reader.original) =>
                         MapOf(values') = MapOf(reader.original.regs)
<1>1. ASSUME RInv, KInv, LInv, [Next]_vars PROVE [Restored]_vars
  <2>1. SUFFICES ASSUME phase = "loading", phase' = "running", ~IsTorn(reader.original)
                 PROVE  MapOf(values') = MapOf(reader.original.regs)
    OBVIOUS
  <2>2. LoadDone
    BY <1>1, <2>1 DEF Next, NextStore, StartSave, SetImplementation, Save, CutSave, LostSave,
       AfterSave, Construct, Open, LoadNext, LoadCut, LoadGarbage, Stop, SetAutosave, Assign,
       SetDefault, Change, Idle, Access, EnterNode, SetNode, SetNodeDropped, RemoveNode,
       LeaveScope, store, vars
  <2>3. PICK r : r = reader
    OBVIOUS
  <2>4. /\ r.pos = r.expected /\ values' = values
        /\ r.expected = Len(r.regs) /\ Unique(r.regs) /\ SameRegs(r.regs, r.original.regs)
        /\ Len(values) = r.pos /\ Unique(r.original.regs) /\ r.regs \in Seq(Registers)
        /\ \A i \in DOMAIN values : values[i] = r.regs[i]
    BY <1>1, <2>1, <2>2, <2>3
       DEF LoadDone, LInv, Progress, RInv, ReaderTyped, Readers
  <2>5. DOMAIN values = DOMAIN r.regs
    BY <1>1, <2>4 DEF RInv, Typed
  <2>6. SameRegs(values, r.original.regs)
    BY <2>4, <2>5 DEF SameRegs
  <2>7. MapOf(values) = MapOf(r.original.regs)
    BY <1>1, <2>4, <2>6, MapsAgree, ValuesUnique
  <2> QED BY <2>3, <2>4, <2>7
<1>2. RInv /\ KInv /\ LInv /\ [Next]_vars => [Restored]_vars
  BY <1>1
<1>3. RInv /\ KInv /\ LInv /\ [Next]_vars => KInv' /\ LInv'
  BY KnownStep, LoadStep
<1>4. Spec => [][Restored]_vars
  BY <1>2, <1>3, InitInv, StepInv, KnownInit, LoadInit, PTL DEF Spec
<1> QED BY <1>4 DEF LoadRestores

-----------------------------------------------------------------------------
(* The storage is a durable map *)

Mem  == IF phase = "running" THEN MapOf(values) ELSE EmptyMap
Disk == IF IsTorn(file) THEN NoValue ELSE MapOf(file.regs)

\* A file that is not there has nothing in it.
FInv == file.exists \/ file.regs = <<>>

LEMMA MapIs ==
  ASSUME NEW regs, Unique(regs)
  PROVE  /\ DOMAIN MapOf(regs) = {regs[i].name : i \in DOMAIN regs}
         /\ MapOf(regs) = [n \in DOMAIN MapOf(regs) |-> MapOf(regs)[n]]
         /\ \A i \in DOMAIN regs : MapOf(regs)[regs[i].name] = regs[i].value
<1>1. ASSUME NEW i \in DOMAIN regs PROVE MapOf(regs)[regs[i].name] = regs[i].value
  <2>1. PICK j : j = CHOOSE k \in DOMAIN regs : regs[k].name = regs[i].name
    OBVIOUS
  <2>2. j \in DOMAIN regs /\ regs[j].name = regs[i].name
    BY <2>1
  <2>3. j = i
    BY <2>2 DEF Unique
  <2>4. MapOf(regs)[regs[i].name] = regs[j].value
    BY <2>1 DEF MapOf
  <2> QED BY <2>3, <2>4
<1> QED BY <1>1 DEF MapOf

LEMMA MapOfNone == ASSUME NEW regs, DOMAIN regs = {} PROVE MapOf(regs) = EmptyMap
  BY DEF MapOf, EmptyMap

\* A map of registers is a map.
LEMMA MapTyped ==
  ASSUME NEW regs \in Seq(Registers), Unique(regs)
  PROVE  \E S \in SUBSET AllNames : MapOf(regs) \in [S -> Values]
<1>1. ASSUME NEW i \in DOMAIN regs PROVE regs[i].name \in AllNames /\ regs[i].value \in Values
  <2>1. PICK g \in Registers : g = regs[i]
    OBVIOUS
  <2> QED BY <2>1 DEF Registers
<1>2. PICK S : S = {regs[i].name : i \in DOMAIN regs}
  OBVIOUS
<1>3. S \in SUBSET AllNames
  BY <1>1, <1>2
<1>4. \A n \in S : MapOf(regs)[n] \in Values
  BY <1>1, <1>2, MapIs
<1>5. MapOf(regs) \in [S -> Values]
  BY <1>2, <1>4, MapIs
<1> QED BY <1>3, <1>5

\* The register that is set has the value.
LEMMA SetGives ==
  ASSUME RInv, NEW n \in AllNames, NEW v \in Values, Set(n, v)
  PROVE  \A i \in DOMAIN values' : values'[i].name = n => values'[i].value = v
<1>1. CASE n \in DOMAIN names /\ values' = [values EXCEPT ![names[n]].value = v]
  <2>1. PICK k \in DOMAIN values : values[k].name = n /\ names[n] = k
    BY <1>1 DEF RInv, ListAndAccessAgree
  <2>2. PICK r : r = values[k]
    OBVIOUS
  <2>3. r \in Registers
    BY <2>1, <2>2 DEF RInv, Typed
  <2>4. PICK w : w = [r EXCEPT !.value = v]
    OBVIOUS
  <2>5. w.value = v
    BY <2>3, <2>4 DEF Registers
  <2>6. values' = [values EXCEPT ![k] = w]
    BY <1>1, <2>1, <2>2, <2>4
  <2>7. /\ DOMAIN values' = DOMAIN values /\ values'[k] = w
        /\ \A i \in DOMAIN values \ {k} : values'[i] = values[i]
    BY <2>1, <2>6 DEF RInv, Typed
  <2>8. \A i \in DOMAIN values \ {k} : values[i].name # n
    BY <2>1 DEF RInv, ListAndAccessAgree
  <2> QED BY <2>5, <2>7, <2>8
<1>2. CASE n \notin DOMAIN names /\ values' = Appended(n, v)
  <2>1. PICK r : r = [name |-> n, value |-> v]
    OBVIOUS
  <2>2. PICK l \in Nat : l = Len(values)
    BY DEF RInv, Typed
  <2>3. /\ DOMAIN values = 1 .. l /\ DOMAIN values' = 1 .. l + 1 /\ values'[l + 1] = r
        /\ \A i \in 1 .. l : values'[i] = values[i]
    BY <1>2, <2>1, <2>2 DEF Appended, RInv, Typed
  <2>4. \A i \in 1 .. l : values[i].name # n
    BY <1>2, <2>3 DEF RInv, ListAndAccessAgree
  <2>5. \A i \in 1 .. l + 1 : i = l + 1 \/ i \in 1 .. l
    BY <2>2
  <2> QED BY <2>1, <2>3, <2>4, <2>5
<1> QED BY <1>1, <1>2 DEF Set

LEMMA MapSet ==
  ASSUME RInv, RInv', NEW n \in AllNames, NEW v \in Values, Set(n, v)
  PROVE  MapOf(values') = [x \in DOMAIN MapOf(values) \union {n} |->
                             IF x = n THEN v ELSE MapOf(values)[x]]
<1>1. Unique(values) /\ Unique(values')
  BY DEF RInv, ListAndAccessAgree, Unique
<1>2. PICK M : M = MapOf(values)
  OBVIOUS
<1>3. PICK N : N = MapOf(values')
  OBVIOUS
<1>4. DOMAIN M = DOMAIN names /\ DOMAIN N = DOMAIN names \union {n}
  <2>1. DOMAIN M = DOMAIN names
    BY <1>1, <1>2, MapIs DEF RInv, ListAndAccessAgree
  <2>2. DOMAIN N = DOMAIN names'
    BY <1>1, <1>3, MapIs DEF RInv, ListAndAccessAgree
  <2> QED BY <2>1, <2>2, SetAt
<1>5. ASSUME NEW x \in DOMAIN N PROVE N[x] = IF x = n THEN v ELSE M[x]
  <2>0. PICK p, q : p = values /\ q = values'
    OBVIOUS
  <2>1. /\ DOMAIN N = {q[i].name : i \in DOMAIN q}
        /\ \A i \in DOMAIN q : N[q[i].name] = q[i].value
        /\ \A i \in DOMAIN p : M[p[i].name] = p[i].value
    <3>1. Unique(p) /\ M = MapOf(p)
      BY <1>1, <1>2, <2>0
    <3>2. Unique(q) /\ N = MapOf(q)
      <4>1. Unique(q)
        BY <1>1, <2>0 DEF Unique
      <4>2. N = MapOf(q)
        BY <1>3, <2>0 DEF MapOf
      <4> QED BY <4>1, <4>2
    <3> QED BY <3>1, <3>2, MapIs
  <2>2. PICK i \in DOMAIN q : q[i].name = x
    BY <1>5, <2>1
  <2>3. N[x] = q[i].value
    BY <2>1, <2>2
  <2>4. CASE x = n
    BY <2>0, <2>2, <2>3, <2>4, SetGives
  <2>5. CASE x # n
    <3>1. i \in DOMAIN p /\ q[i] = p[i]
      BY <2>0, <2>2, <2>5, SetAt
    <3> QED BY <2>1, <2>2, <2>3, <2>5, <3>1
  <2> QED BY <2>4, <2>5
<1>6. N = [x \in DOMAIN N |-> N[x]]
  BY <1>1, <1>3, MapIs
<1> QED BY <1>2, <1>3, <1>4, <1>5, <1>6

LEMMA FileThere == ASSUME RInv, FInv, [Next]_vars PROVE FInv'
<1>1. CASE Save
  BY <1>1 DEF Save, Written, FileOf, FInv
<1>2. CASE CutSave
  BY <1>2 DEF CutSave, CutFiles, Headless, FInv
<1>3. CASE file' = file
  BY <1>3 DEF FInv
<1> QED BY <1>1, <1>2, <1>3, StepIs DEF LostSave, Stop

\* A step of the storage as DurableMap sees it.
MapStep == [Promise!Next]_(Promise!vars)

\* What DurableMap does not see.
LEMMA Unseen ==
  ASSUME Mem' = Mem, Disk' = Disk, phase' = "running" <=> phase = "running" PROVE MapStep
<1>1. UNCHANGED Promise!vars
  BY DEF Promise!vars, Mem, Disk
<1> QED BY <1>1 DEF MapStep

LEMMA PutStep ==
  ASSUME RInv, RInv', NEW n \in AllNames, NEW v \in Values, Set(n, v),
         phase = "running", phase' = "running", file' = file
  PROVE  MapStep
<1>1. Mem' = [x \in DOMAIN Mem \union {n} |-> IF x = n THEN v ELSE Mem[x]] /\ Disk' = Disk
  BY MapSet DEF Mem, Disk
<1>2. Promise!Put(n, v)
  BY <1>1 DEF Promise!Put, Mem, Disk
<1> QED BY <1>2 DEF MapStep, Promise!Next

\* Where no load saves, a load reads the file as it is.
QInv == Quiet /\ (phase = "loading" => reader.original = file)

LEMMA QuietStep == ASSUME EarlyAutosave = {}, RInv, QInv, [Next]_vars PROVE QInv'
<1>1. CASE NextStore
  <2>1. CASE Save \/ CutSave \/ LostSave
    BY <2>1 DEF Save, CutSave, LostSave, AfterSave, QInv, Quiet
  <2>2. CASE LoadNext \/ LoadCut \/ LoadGarbage
    <3>1. /\ phase = "loading" /\ phase' = phase /\ file' = file /\ autosave' = autosave
          /\ reader \in Readers /\ saving = NotSaving
      BY <2>2 DEF RInv, ReaderTyped, LoadNext, LoadCut, LoadGarbage, Reading
    <3>2. reader'.original = reader.original
      <4>1. PICK p : reader' = [reader EXCEPT !.pos = p]
        BY <2>2 DEF LoadNext, LoadCut, LoadGarbage
      <4> QED BY <3>1, <4>1 DEF Readers
    <3>3. saving' = NotSaving
      <4>1. \A n, v : Set(n, v) => saving' = NotSaving
        BY <3>1 DEF Set, QInv, Quiet
      <4> QED BY <2>2, <3>1, <4>1 DEF LoadNext, LoadCut, LoadGarbage
    <3> QED BY <3>1, <3>2, <3>3 DEF QInv, Quiet
  <2>3. CASE Open
    BY <2>3 DEF Open, QInv, Quiet
  <2>4. CASE StartSave \/ SetImplementation \/ Construct \/ LoadDone \/ Stop
    BY <2>4 DEF StartSave, SetImplementation, Construct, LoadDone, Stop, Idle, QInv, Quiet
  <2>5. ASSUME NEW on \in BOOLEAN, SetAutosave(on) PROVE QInv'
    BY <2>5 DEF SetAutosave, Idle, QInv, Quiet
  <2>6. ASSUME NEW n \in Names, NEW v \in Values, Assign(n, v) \/ SetDefault(n, v)
        PROVE  QInv'
    BY <2>6 DEF Assign, SetDefault, Change, Idle, QInv, Quiet
  <2> QED BY <1>1, <2>1, <2>2, <2>3, <2>4, <2>5, <2>6 DEF NextStore
<1>2. ASSUME NEW n \in AllNames, NEW v \in Values, Access(n, v) PROVE QInv'
  BY <1>2 DEF Access, Change, Idle, QInv, Quiet
<1>3. CASE UNCHANGED store
  BY <1>3 DEF store, QInv, Quiet
<1>4. CASE \/ \E u \in Udp : EnterNode(u) \/ SetNode(u) \/ SetNodeDropped(u)
           \/ RemoveNode \/ LeaveScope \/ UNCHANGED vars
  BY <1>3, <1>4 DEF EnterNode, SetNode, SetNodeDropped, RemoveNode, LeaveScope, vars
<1> QED BY <1>1, <1>2, <1>4 DEF Next

LEMMA WriteStep ==
  ASSUME RInv, QInv, Save \/ CutSave \/ LostSave PROVE MapStep
<1>1. phase = "running" /\ AfterSave
  BY DEF Save, CutSave, LostSave, QInv, Quiet
<1>2. \/ phase' = "running" /\ Mem' = Mem
      \/ phase' # "running" /\ Mem' = EmptyMap
  BY <1>1 DEF AfterSave, Mem
<1>3. Disk' \in {Mem, Disk, NoValue}
  <2>1. CASE Save
    <3>1. file' = FileOf(values)
      BY <2>1 DEF Save, Written
    <3>2. Disk' = MapOf(values)
      BY <3>1 DEF Disk, FileOf, IsTorn
    <3> QED BY <1>1, <3>2 DEF Mem
  <2>2. CASE CutSave
    BY <2>2, CutIsTorn DEF Disk
  <2>3. CASE LostSave
    BY <2>3 DEF LostSave, Disk
  <2> QED BY <2>1, <2>2, <2>3
<1>4. Promise!Write
  BY <1>1, <1>2, <1>3 DEF Promise!Write, Promise!Nothing, EmptyMap, Mem, Disk
<1> QED BY <1>4 DEF MapStep, Promise!Next

LEMMA StartStep ==
  ASSUME RInv, RInv', QInv, LInv, FInv, phase # "running", phase' = "running", file' = file,
         Open \/ LoadDone
  PROVE  MapStep
<1>1. values' = values /\ values' \in Seq(Registers) /\ Unique(values')
  BY ValuesUnique DEF Open, LoadDone, RInv, Typed
<1>2. Mem' \in Promise!Maps
  <2>1. PICK q : q = values'
    OBVIOUS
  <2>2. q \in Seq(Registers) /\ Unique(q)
    BY <1>1, <2>1 DEF Unique
  <2>3. Mem' = MapOf(q)
    BY <2>1 DEF Mem, MapOf
  <2>4. PICK S \in SUBSET AllNames : MapOf(q) \in [S -> Values]
    BY <2>2, MapTyped
  <2> QED BY <2>3, <2>4 DEF Promise!Maps
<1>3. ASSUME ~IsTorn(file) PROVE Mem' = Disk
  <2>1. CASE Open
    <3>1. values = <<>> /\ file.regs = <<>>
      BY <2>1 DEF Open, LInv, FInv
    <3>2. MapOf(values) = EmptyMap /\ MapOf(file.regs) = EmptyMap
      BY <3>1, MapOfNone
    <3>3. Mem' = MapOf(values)
      BY <1>1 DEF Mem, MapOf
    <3> QED BY <1>3, <3>2, <3>3 DEF Disk
  <2>2. CASE LoadDone
    <3>1. PICK r : r = reader
      OBVIOUS
    <3>2. /\ r.pos = r.expected /\ r.expected = Len(r.regs) /\ Unique(r.regs)
          /\ SameRegs(r.regs, file.regs) /\ Len(values) = r.pos /\ Unique(file.regs)
          /\ r.original = file
          /\ r.regs \in Seq(Registers) /\ \A i \in DOMAIN values : values[i] = r.regs[i]
      BY <1>3, <2>2, <3>1 DEF LoadDone, QInv, LInv, Progress, RInv, ReaderTyped, Readers
    <3>3. DOMAIN values = DOMAIN r.regs
      BY <3>2 DEF RInv, Typed
    <3>4. SameRegs(values, file.regs)
      BY <3>2, <3>3 DEF SameRegs
    <3>5. MapOf(values) = MapOf(file.regs)
      BY <3>2, <3>4, MapsAgree, ValuesUnique
    <3>6. Mem' = MapOf(values)
      BY <1>1 DEF Mem, MapOf
    <3> QED BY <1>3, <3>5, <3>6 DEF Disk
  <2> QED BY <2>1, <2>2
<1>4. Disk' = Disk
  BY DEF Disk
<1>5. Disk # NoValue => Mem' = Disk
  BY <1>3 DEF Disk
<1>6. Promise!Start
  BY <1>2, <1>4, <1>5 DEF Promise!Start, Mem, Disk
<1> QED BY <1>6 DEF MapStep, Promise!Next

LEMMA MapStepEach ==
  ASSUME RInv, RInv', QInv, LInv, FInv, [Next]_vars PROVE MapStep
<1>1. CASE NextStore
  <2>1. CASE Save \/ CutSave \/ LostSave
    BY <2>1, WriteStep
  <2>2. CASE LoadNext \/ LoadCut \/ LoadGarbage
    BY <2>2, Unseen DEF LoadNext, LoadCut, LoadGarbage, Reading, Mem, Disk
  <2>3. CASE Open \/ LoadDone
    <3>1. file' = file /\ phase # "running"
      BY <2>3 DEF Open, LoadDone
    <3>2. CASE phase' = "running"
      BY <2>3, <3>1, <3>2, StartStep
    <3>3. CASE phase' # "running"
      BY <3>1, <3>3, Unseen DEF Mem, Disk
    <3> QED BY <3>2, <3>3
  <2>4. CASE StartSave \/ SetImplementation \/ Construct \/ \E on \in BOOLEAN : SetAutosave(on)
    <3>1. /\ values' = values /\ file' = file
          /\ phase' = "running" <=> phase = "running"
      BY <2>4 DEF StartSave, SetImplementation, Construct, SetAutosave
    <3>2. Mem' = Mem /\ Disk' = Disk
      BY <3>1 DEF Mem, Disk
    <3> QED BY <3>1, <3>2, Unseen
  <2>5. CASE Stop
    <3>1. file' = file /\ phase' # "running" /\ Mem' = EmptyMap /\ Disk' = Disk
      BY <2>5 DEF Stop, Mem, Disk
    <3>2. CASE phase = "running"
      <4>1. Promise!Stop
        BY <3>1, <3>2 DEF Promise!Stop, Promise!Nothing, EmptyMap, Mem, Disk
      <4> QED BY <4>1 DEF MapStep, Promise!Next
    <3>3. CASE phase # "running"
      BY <3>1, <3>3, Unseen DEF Mem
    <3> QED BY <3>2, <3>3
  <2>6. ASSUME NEW n \in Names, NEW v \in Values, Assign(n, v) \/ SetDefault(n, v) PROVE MapStep
    BY <2>6, PutStep DEF Assign, SetDefault, Change, Idle, AllNames
  <2> QED BY <1>1, <2>1, <2>2, <2>3, <2>4, <2>5, <2>6 DEF NextStore
<1>2. ASSUME NEW n \in AllNames, NEW v \in Values, Access(n, v) PROVE MapStep
  BY <1>2, PutStep DEF Access, Change, Idle
<1>3. CASE UNCHANGED store
  BY <1>3, Unseen DEF store, Mem, Disk
<1>4. CASE \/ \E u \in Udp : EnterNode(u) \/ SetNode(u) \/ SetNodeDropped(u)
           \/ RemoveNode \/ LeaveScope \/ UNCHANGED vars
  BY <1>3, <1>4 DEF EnterNode, SetNode, SetNodeDropped, RemoveNode, LeaveScope, vars
<1> QED BY <1>1, <1>2, <1>4 DEF Next

LEMMA MapInit == Init => Promise!Init
<1> SUFFICES ASSUME Init PROVE Promise!Init
  OBVIOUS
<1>1. /\ phase # "running" /\ ~IsTorn(file) /\ MapOf(file.regs) = EmptyMap
  BY MapOfNone DEF Init, InitStore, NoFile, IsTorn
<1> QED BY <1>1 DEF Promise!Init, Promise!Nothing, EmptyMap

\* Where autosave is not switched on before the load: register by register, through
\* saves that are cut short or lost, replaced storages and the end of the process at
\* any moment, a storage is a durable map (binaryregistry_impl.hpp:15-49,
\* boostjsonregistry_impl.hpp:318-365).
THEOREM Durable == ASSUME EarlyAutosave = {} PROVE Spec => ImplementsDurableMap
<1>1. Init => FInv
  BY DEF Init, InitStore, NoFile, FInv
<1>2. RInv /\ KInv /\ QInv /\ LInv /\ FInv /\ [Next]_vars => RInv' /\ KInv' /\ QInv' /\ LInv' /\ FInv'
  BY StepInv, KnownStep, QuietStep, LoadStep, FileThere
<1>3. RInv /\ RInv' /\ QInv /\ LInv /\ FInv /\ [Next]_vars => [Promise!Next]_(Promise!vars)
  BY MapStepEach DEF MapStep
<1>4. Init => QInv
  BY DEF Init, InitStore, QInv, Quiet
<1> QED
  BY <1>1, <1>2, <1>3, <1>4, InitInv, KnownInit, LoadInit, MapInit, PTL
     DEF Spec, ImplementsDurableMap, Promise!Spec

=============================================================================
