------------------------------ MODULE KioWords ------------------------------
(***************************************************************************)
(* The words of the driver's structures: what C makes of a number that is  *)
(* assigned to a narrower field.  How many values a u32 has is a constant, *)
(* so that TLC can count with a small one.                                 *)
(***************************************************************************)
EXTENDS Integers

CONSTANT U32

ASSUME KioWordsAssumption == U32 \in Nat \ {0}

\* unsigned x : 1
Bit(x) == x % 2 = 1

\* uint8_t
Byte(x) == x % 256

\* uint32_t and int32_t
Word(x) == x % U32
SignedWord(x) == ((x + U32 \div 2) % U32) - U32 \div 2
=============================================================================
