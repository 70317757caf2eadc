---------------------------- MODULE LengthUnits ----------------------------
(***************************************************************************)
(* Type safe lengths (Raaz.Core.Types.Pointer, Raaz.Core.Primitive): a     *)
(* length is a number of bytes or a number of blocks of the primitive, and *)
(* the conversions round as stated here.                                   *)
(***************************************************************************)
EXTENDS Integers

CONSTANT BlockBytes   \* WordsPerBlock words of WordType

ASSUME LengthAssumption == BlockBytes \in Nat \ {0}

inBytes(blocks) == blocks * BlockBytes

atMost(bytes) == bytes \div BlockBytes

atLeast(bytes) ==
  IF bytes % BlockBytes = 0 THEN atMost(bytes) ELSE atMost(bytes) + 1
=============================================================================
