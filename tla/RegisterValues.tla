--------------------------- MODULE RegisterValues ---------------------------
(***************************************************************************)
(* uavcan.register.Value as the code handles it: the kinds of its union,   *)
(* the C++ types that read and write them, and what is left of a value     *)
(* that goes through a QVariant or a JSON file and comes back.             *)
(*                                                                         *)
(* A value is its kind and its items.  A text is the sequence of its       *)
(* characters.  Of the reals only whole numbers are modelled: what matters *)
(* is which of them a format holds exactly.                                *)
(***************************************************************************)
EXTENDS Integers, Sequences

CONSTANTS
  Low, High,     \* the least and the greatest item of every kind
  ExactDouble    \* a double holds the whole numbers up to this one exactly

IntegerKinds == {"integer8", "integer16", "integer32", "integer64"}
NaturalKinds == {"natural8", "natural16", "natural32", "natural64"}
RealKinds    == {"real16", "real32", "real64"}
NumberKinds  == IntegerKinds \union NaturalKinds \union RealKinds
ListKinds    == NumberKinds \union {"unstructured", "bit"}
Kinds        == ListKinds \union {"string"}

ASSUME ValueAssumption ==
  /\ Low \in [Kinds -> Int] /\ High \in [Kinds -> Int]
  /\ \A k \in Kinds : Low[k] <= 0 /\ 1 <= High[k]
  /\ Low["bit"] = 0 /\ High["bit"] = 1
  /\ ExactDouble \in Nat

Items(k) == Low[k] .. High[k]
Empty    == [kind |-> "empty", items |-> <<>>]
Value(k, s) == [kind |-> k, items |-> s]
IsValue(v) ==
  \/ v = Empty
  \/ v.kind \in Kinds /\ v.items \in Seq(Items(v.kind)) /\ v = Value(v.kind, v.items)

\* types::B .. types::F16: an array of one item.
Single(k, x) == Value(k, <<x>>)

-----------------------------------------------------------------------------
(* QVariant and QSettings *)

\* A document: what "type" holds, as a number or as a name, and under "value" a list,
\* a text or nothing.
Document(type, named, form, items) ==
  [type |-> type, named |-> named, form |-> form, items |-> items]
NoDocument == Document("empty", FALSE, "none", <<>>)

\* toVariant: every item as the widest type of its sort.
ToVariant(v) ==
  CASE v = Empty -> NoDocument
    [] v.kind = "string" -> Document("string", FALSE, "text", v.items)
    [] OTHER -> Document(v.kind, FALSE, "list", v.items)

\* A number that is kept as a double; which neighbour it becomes does not matter.
AsDouble(k, x) ==
  IF k = "bit" \/ (-ExactDouble <= x /\ x <= ExactDouble) THEN x ELSE 2 * (x \div 2)
AsDoubles(k, s) == [i \in DOMAIN s |-> AsDouble(k, s[i])]

\* QJsonDocument keeps every number as a double.
ToQtJson(v) ==
  LET d == ToVariant(v)
  IN  IF d.form = "list" THEN [d EXCEPT !.items = AsDoubles(d.type, d.items)] ELSE d

\* Of the reals behind the ones modelled each stands for the last of them.
Nearest(k, x) == IF x < Low[k] THEN Low[k] ELSE IF x > High[k] THEN High[k] ELSE x

\* Mutant: the number is taken as it is.
Uncast(k, x) == x

\* static_cast to the type of the items, and toBool.
Cast(k, x) ==
  CASE k = "bit" -> IF x = 0 THEN 0 ELSE 1
    [] k \in RealKinds -> Nearest(k, x)
    [] OTHER -> Low[k] + ((x - Low[k]) % (High[k] - Low[k] + 1))
CastItems(k, s) == [i \in DOMAIN s |-> Cast(k, s[i])]

\* fromVariant.  A type that is not a number, a list that is not there and an unknown
\* type make an empty value; a text is what toString makes of it, nothing of a list.
FromVariant(d) ==
  IF d.named THEN Empty
  ELSE CASE d.type = "string" -> Value("string", IF d.form = "text" THEN d.items ELSE <<>>)
         [] d.type \in ListKinds /\ d.form = "list" -> Value(d.type, CastItems(d.type, d.items))
         [] OTHER -> Empty

-----------------------------------------------------------------------------
(* Boost.JSON *)

\* Mutant: all numbers as doubles.
AllAsDouble(v) == ToQtJson(v)

\* toJValue: integers keep their 64 bits, reals are doubles.
ToBoostJson(v) ==
  LET d == ToVariant(v)
  IN  IF d.type \in RealKinds THEN [d EXCEPT !.items = AsDoubles(d.type, d.items)] ELSE d

\* to_number<T> makes 0 of an integer that does not fit, and fromPtr FALSE of a bit that
\* is not a boolean: those are 0 and 1 here.
ToNumber(k, x) ==
  CASE k \in RealKinds -> Nearest(k, x)
    [] OTHER -> IF x \in Items(k) THEN x ELSE 0
ToNumbers(k, s) == [i \in DOMAIN s |-> ToNumber(k, s[i])]

\* A type may be given by its name.
TypeKnown(d) == d.type \in Kinds

FromBoostJson(d) ==
  CASE ~TypeKnown(d) -> Empty
    [] d.type = "string" /\ d.form = "text" -> Value("string", d.items)
    [] d.type \in ListKinds /\ d.form = "list" -> Value(d.type, ToNumbers(d.type, d.items))
    [] OTHER -> Empty

-----------------------------------------------------------------------------
(* ValueConverter *)

ScalarTypes ==
  [bool |-> "bit", uint8 |-> "natural8", uint16 |-> "natural16", uint32 |-> "natural32",
   uint64 |-> "natural64", int8 |-> "integer8", int16 |-> "integer16", int32 |-> "integer32",
   int64 |-> "integer64", float |-> "real32", double |-> "real64"]
ArrayTypes == [QByteArray |-> "unstructured", QBitArray |-> "bit", QString |-> "string"]
Types      == DOMAIN ScalarTypes \union DOMAIN ArrayTypes
KindOf(t)  == IF t \in DOMAIN ScalarTypes THEN ScalarTypes[t] ELSE ArrayTypes[t]

\* to_value: x is the sequence of the items of an object of type t.
ToValue(t, x) == Value(KindOf(t), x)

\* Mutant: what is behind the first item is ignored.
AnySize(t, v) == t \in {"QBitArray", "QString"} \/ v.items # <<>>

\* A byte array is refused like a scalar when it has not one item.
SizeFits(t, v) == t \in {"QBitArray", "QString"} \/ Len(v.items) = 1

\* from_value: the object, if any.  A float may also come from a real16.
FromValue(t, v) ==
  IF (v.kind = KindOf(t) \/ (t = "float" /\ v.kind = "real16")) /\ SizeFits(t, v)
  THEN {IF t \in DOMAIN ScalarTypes THEN SubSeq(v.items, 1, 1) ELSE v.items} ELSE {}
=============================================================================
