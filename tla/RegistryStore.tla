--------------------------- MODULE RegistryStore ---------------------------
(***************************************************************************)
(* The storage behind a Registry: StdStorageRegistry with its two files,   *)
(* BinaryRegistry and BoostJsonRegistry, and QSettingsRegistry.  A load    *)
(* reads register by register and passes each to set(), which may save, so *)
(* rewrite the file that is being read; a save may be cut short by a full  *)
(* disk or the end of the process.                                         *)
(***************************************************************************)
EXTENDS Naturals, Sequences

CONSTANTS
  Names, Values,
  NoValue,        \* the empty Value
  Garbage,        \* a name nobody wrote, found behind the end of a torn file
  NoName,
  Formats,        \* the storages in use, of "binary", "json" and "settings"
  ReadAhead,      \* how many registers the buffer of an ifstream holds: 15
  EarlyAutosave,  \* those whose setAutosave may be called before they are loaded
  MaxSets,        \* bound: changes by the application and by remote nodes
  MaxStops        \* bound: how often the process ends

ASSUME StoreAssumption ==
  /\ Formats \subseteq {"binary", "json", "settings"} /\ EarlyAutosave \subseteq Formats
  /\ NoValue \notin Values /\ Garbage \notin Names /\ NoName \notin Names \union {Garbage}
  /\ ReadAhead \in Nat \ {0}
  /\ MaxSets \in Nat /\ MaxStops \in Nat

VARIABLES
  format,    \* which storage it is
  values,    \* values_: the registers, in the order they were created
  names,     \* names_: the index of every name in values_
  autosave,  \* autosave_
  phase,     \* "stopped", "constructed", "loading" or "running"
  saving,    \* whether a save is under way, and what it is for
  reader,    \* the state of load(), or NotReading
  file,      \* the file
  sets, stops,
  unsaved,   \* history: the names whose value was never meant to be in the file
  created,   \* history: the names the application has set
  damaged    \* history: a save was cut short

store == <<format, values, names, autosave, phase, saving, reader, file, sets, stops, unsaved,
           created, damaged>>

AllNames  == Names \union {Garbage}
Registers == [name : AllNames, value : Values]

NotSaving  == "no"
NotReading == [reading |-> FALSE]

\* A file holds the number of registers and, unless its write was cut short, as
\* many of them; cutName is the register whose value is cut in the middle.
NoFile   == [exists |-> FALSE, count |-> 0, regs |-> <<>>, cutName |-> NoName]
Headless == [exists |-> TRUE, count |-> 1, regs |-> <<>>, cutName |-> NoName]
FileOf(regs) == [exists |-> TRUE, count |-> Len(regs), regs |-> regs, cutName |-> NoName]

IsTorn(f) == f.count # Len(f.regs)

EmptyMap == [n \in {} |-> NoValue]
MapOf(regs) ==
  [n \in {regs[i].name : i \in DOMAIN regs} |->
     regs[CHOOSE i \in DOMAIN regs : regs[i].name = n].value]

-----------------------------------------------------------------------------

InitStore ==
  /\ format \in Formats
  /\ values = <<>> /\ names = EmptyMap
  /\ autosave = FALSE
  /\ phase = "stopped"
  /\ saving = NotSaving
  /\ reader = NotReading
  /\ file = NoFile
  /\ sets = 0 /\ stops = 0
  /\ unsaved = {} /\ created = {} /\ damaged = FALSE

\* Mutant: the index is taken before the register is appended.
InsertedBefore(n) == [x \in DOMAIN names \union {n} |-> IF x = n THEN Len(values) ELSE names[x]]

\* names_.insert({name, values_.size() - 1})
Inserted(n) == [x \in DOMAIN names \union {n} |-> IF x = n THEN Len(values) + 1 ELSE names[x]]

\* Mutant: the newest register comes first.
Prepended(n, v) == <<[name |-> n, value |-> v]>> \o values

\* values_.emplace_back
Appended(n, v) == Append(values, [name |-> n, value |-> v])

\* Mutant: a change of a register that exists does not count as one.
ChangedIfNew(n) == n \notin DOMAIN names

\* changes.changed = true, on both paths.
Changed(n) == TRUE

\* set with a value, of a register that is not there or is mutable (all are).
Set(n, v) ==
  /\ \/ /\ n \in DOMAIN names
        /\ values' = [values EXCEPT ![names[n]].value = v]
        /\ names' = names
     \/ /\ n \notin DOMAIN names
        /\ values' = Appended(n, v)
        /\ names' = Inserted(n)
  /\ saving' = IF autosave /\ Changed(n) THEN "change" ELSE NotSaving
  /\ unsaved' = IF autosave THEN unsaved ELSE unsaved \union {n}

Idle == phase = "running" /\ saving = NotSaving

-----------------------------------------------------------------------------
(* Saving *)

StartSave ==
  /\ Idle
  /\ saving' = "save"
  /\ UNCHANGED <<values, names, autosave, phase, reader, file, sets, stops, unsaved, created, damaged>>

\* setImplementation: the old storage is saved before the new one, here one for
\* the same file, is loaded.
SetImplementation ==
  /\ Idle
  /\ stops < MaxStops /\ stops' = stops + 1
  /\ saving' = "replace"
  /\ UNCHANGED <<values, names, autosave, phase, reader, file, sets, unsaved, created, damaged>>

\* What the end of a save is followed by.
AfterSave ==
  IF saving = "replace"
  THEN /\ phase' = "constructed"
       /\ values' = <<>> /\ names' = EmptyMap /\ autosave' = FALSE
  ELSE UNCHANGED <<values, names, autosave, phase>>

\* Mutant: the last register is left out.
WrittenShort == FileOf(SubSeq(values, 1, Len(values) - 1))

\* The file after a save that nothing disturbed.
Written == FileOf(values)

Save ==
  /\ saving # NotSaving
  /\ saving' = NotSaving
  /\ file' = Written
  /\ unsaved' = {}
  /\ AfterSave
  /\ UNCHANGED <<reader, sets, stops, created, damaged>>

\* The file was truncated when it was opened, and the write stops after k registers,
\* inside the next one's name or its value, or in the header.  QSettings replaces
\* its file as a whole.
CutFiles ==
  {Headless} \union
  {[exists |-> TRUE, count |-> Len(values), regs |-> SubSeq(values, 1, k), cutName |-> c] :
     k \in 0 .. Len(values) - 1, c \in {NoName} \union {values[i].name : i \in DOMAIN values}}

CutSave ==
  /\ saving # NotSaving
  /\ format # "settings"
  /\ saving' = NotSaving
  /\ file' \in {f \in CutFiles : f.cutName = NoName \/ f.cutName = values[Len(f.regs) + 1].name}
  /\ unsaved' = {}
  /\ damaged' = TRUE
  /\ AfterSave
  /\ UNCHANGED <<reader, sets, stops, created>>

\* The file could not be opened; nobody is told.
LostSave ==
  /\ saving # NotSaving
  /\ saving' = NotSaving
  /\ unsaved' = {values[i].name : i \in DOMAIN values}
  /\ AfterSave
  /\ UNCHANGED <<file, reader, sets, stops, created, damaged>>

-----------------------------------------------------------------------------
(* Starting, loading and stopping *)

Construct ==
  /\ phase = "stopped"
  /\ phase' = "constructed"
  /\ UNCHANGED <<values, names, autosave, saving, reader, file, sets, stops, unsaved, created, damaged>>

SetAutosave(on) ==
  /\ Idle \/ (format \in EarlyAutosave /\ phase = "constructed")
  /\ format # "settings"
  /\ autosave' = on
  /\ UNCHANGED <<values, names, phase, saving, reader, file, sets, stops, unsaved, created, damaged>>

\* The registers that can be read from a file: a JSON file is parsed as a whole,
\* and not at all when it is torn.
Readable(f) == IF format = "json" /\ IsTorn(f) THEN <<>> ELSE f.regs

\* Mutant: the loop ends one register early.
ExpectedShort(f) ==
  IF format = "binary" THEN f.count
  ELSE IF Readable(f) = <<>> THEN 0 ELSE Len(Readable(f)) - 1

\* The number of registers load() expects.  Without a header it is an uninitialized
\* number; all that matters is that it need not be zero.
Expected(f) == IF format = "binary" THEN f.count ELSE Len(Readable(f))

\* allKeys() of QSettings sorts by name: registers come back in another order.
Orders(regs) ==
  {o \in [DOMAIN regs -> {regs[i] : i \in DOMAIN regs}] :
     /\ \A i \in DOMAIN regs : \E j \in DOMAIN o : o[j] = regs[i]
     /\ format # "settings" => o = regs}

Open ==
  /\ phase = "constructed"
  /\ \/ /\ file.exists
        /\ phase' = "loading"
        /\ \E regs \in Orders(Readable(file)) :
             reader' = [original |-> file, regs |-> regs, expected |-> Expected(file), pos |-> 0]
     \/ /\ ~file.exists
        /\ phase' = "running"
        /\ reader' = NotReading
  /\ UNCHANGED <<values, names, autosave, saving, file, sets, stops, unsaved, created, damaged>>

\* BinaryRegistry reads as it goes.  When a save has rewritten the file meanwhile,
\* only what the stream had buffered of the old one is left: the new one ends
\* where the next read begins.
Rewritten == format = "binary" /\ file # reader.original
Whole ==
  IF Rewritten THEN SubSeq(reader.regs, 1, IF ReadAhead < Len(reader.regs) THEN ReadAhead
                                           ELSE Len(reader.regs))
  ELSE reader.regs

Reading == phase = "loading" /\ saving = NotSaving /\ reader.pos < reader.expected

LoadNext ==
  /\ Reading
  /\ reader.pos < Len(Whole)
  /\ Set(Whole[reader.pos + 1].name, Whole[reader.pos + 1].value)
  /\ reader' = [reader EXCEPT !.pos = @ + 1]
  /\ UNCHANGED <<autosave, phase, file, sets, stops, created, damaged>>

\* A read behind the end leaves in load()'s buffer what was there.  A value that
\* is cut in the middle ends in bytes of its name ...
LoadCut ==
  /\ Reading
  /\ reader.pos = Len(Whole)
  /\ LET n == IF Rewritten /\ reader.pos < Len(reader.regs) THEN reader.regs[reader.pos + 1].name
              ELSE reader.original.cutName
     IN  n # NoName /\ \E v \in Values : Set(n, v)
  /\ reader' = [reader EXCEPT !.pos = @ + 1]
  /\ UNCHANGED <<autosave, phase, file, sets, stops, created, damaged>>

\* ... and from then on every name and value is made of the same bytes.
LoadGarbage ==
  /\ Reading
  /\ reader.pos >= Len(Whole)
  /\ \/ \E v \in Values : Set(Garbage, v)
     \/ UNCHANGED <<values, names, saving, unsaved>>
  /\ reader' = [reader EXCEPT !.pos = reader.expected]
  /\ UNCHANGED <<autosave, phase, file, sets, stops, created, damaged>>

LoadDone ==
  /\ phase = "loading" /\ saving = NotSaving
  /\ reader.pos = reader.expected
  /\ phase' = "running"
  /\ reader' = NotReading
  /\ UNCHANGED <<values, names, autosave, saving, file, sets, stops, unsaved, created, damaged>>

\* The process ends, at any moment; a Registry saves nothing when it is destroyed.
Stop ==
  /\ phase # "stopped"
  /\ stops < MaxStops /\ stops' = stops + 1
  /\ phase' = "stopped"
  /\ values' = <<>> /\ names' = EmptyMap /\ autosave' = FALSE
  /\ saving' = NotSaving
  /\ reader' = NotReading
  /\ unsaved' = {}
  /\ UNCHANGED <<file, sets, created, damaged>>

-----------------------------------------------------------------------------
(* Changes *)

Change(n, v) ==
  /\ Idle
  /\ sets < MaxSets /\ sets' = sets + 1
  /\ Set(n, v)
  /\ UNCHANGED <<autosave, phase, reader, file, stops, damaged>>

\* Register::operator= through a handle: canEdit() holds for every register.
Assign(n, v) ==
  /\ Change(n, v)
  /\ created' = created \union {n}

\* setDefault: only a register that is not there gets the value.
SetDefault(n, v) ==
  /\ n \notin DOMAIN names
  /\ Assign(n, v)

\* A step of the storage, which stays of its kind.
NextStore ==
  /\ format' = format
  /\ \/ StartSave \/ SetImplementation \/ Save \/ CutSave \/ LostSave
     \/ Construct \/ Open \/ LoadNext \/ LoadCut \/ LoadGarbage \/ LoadDone \/ Stop
     \/ \E on \in BOOLEAN : SetAutosave(on)
     \/ \E n \in Names, v \in Values : Assign(n, v) \/ SetDefault(n, v)
=============================================================================
