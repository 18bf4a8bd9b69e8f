---------------------------- MODULE MCRegisters -----------------------------
(* Registers with one register, two handles, and kinds whose widths are scaled *)
(* down: 64 bits to 5, 32 to 4, 16 and 8 to 3, and a double to 3.              *)
EXTENDS Registers, TLC

CONSTANTS h1, h2

Bits == [k \in NumberKinds |->
  CASE k \in {"integer64", "natural64"} -> 5 [] k \in {"integer32", "natural32"} -> 4
    [] k \in RealKinds \ {"real16"} -> 3 [] k = "real16" -> 2 [] OTHER -> 3]

MCLow  == [k \in Kinds |-> CASE k \in IntegerKinds -> -(2 ^ (Bits[k] - 1))
                             [] k \in RealKinds -> -(2 ^ Bits[k]) [] OTHER -> 0]
MCHigh == [k \in Kinds |-> CASE k \in IntegerKinds -> 2 ^ (Bits[k] - 1) - 1
                             [] k \in RealKinds -> 2 ^ Bits[k]
                             [] k \in NaturalKinds -> 2 ^ Bits[k] - 1
                             [] k = "bit" -> 1 [] OTHER -> 7]
\* One value of every sort at the ends of its range, arrays of none and of two items.
MCValues ==
  {Single("integer64", -16), Single("natural64", 31), Single("natural8", 7),
   Single("real32", -8), Single("real16", 3), Value("bit", <<1, 0>>),
   Value("unstructured", <<7, 0>>), Value("string", <<5>>), Value("integer8", <<>>)}

MCHandMade ==
  {Document("natural8", FALSE, "list", <<9>>), Document("integer8", TRUE, "list", <<-5>>),
   Document("bit", FALSE, "list", <<2>>), Document("string", FALSE, "none", <<>>),
   Document("unknown", FALSE, "list", <<1>>)}

Symmetric == Permutations(Handles)
=============================================================================
