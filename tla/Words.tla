------------------------------- MODULE Words -------------------------------
(***************************************************************************)
(* The integers of the program, with their width as a parameter: MaxU64 is *)
(* the largest "u64".  MaxU128 is the largest integer of twice that width, *)
(* so that, as in the code, the product of two u64 values always fits in   *)
(* u128 and that of three may not.                                         *)
(***************************************************************************)
EXTENDS Integers

CONSTANT MaxU64

ASSUME MaxU64Assumption == MaxU64 \in Nat \ {0}

U64     == 0..MaxU64
MaxU128 == (MaxU64 + 1) * (MaxU64 + 1) - 1

None == -1                     \* Option::None; Some(v) is v itself
ToU64(v) == IF v <= MaxU64 THEN v ELSE None          \* u64::try_from(v).ok()
=============================================================================
