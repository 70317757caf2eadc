------------------------------- MODULE Words -------------------------------
(***************************************************************************)
(* The unsigned integers of Bits bits that the portable C code computes    *)
(* with (uint8_t, uint32_t, uint64_t).  A word is the set of the positions *)
(* of its one bits, position 0 being the least significant, so that & is   *)
(* \cap, | is \cup and ~x & y is y \ x; nothing here is limited by the     *)
(* integers of the model checker.                                          *)
(***************************************************************************)
EXTENDS Integers, Sequences

CONSTANT Bits

Word == SUBSET (0 .. Bits - 1)

(* x ^ y *)
Xor(x, y) == (x \ y) \cup (y \ x)

(* x << n and x >> n: what leaves the word is lost. *)
ShiftL(x, n) == {i + n : i \in {j \in x : j + n < Bits}}
ShiftR(x, n) == {i - n : i \in {j \in x : j >= n}}

(* The rotations, for 0 < n < Bits. *)
RotateL(x, n) == ShiftL(x, n) \cup ShiftR(x, Bits - n)
RotateR(x, n) == ShiftR(x, n) \cup ShiftL(x, Bits - n)

(* x + y modulo 2^Bits: carry[i] says that a carry enters position i.      *)
Add(x, y) ==
    LET carry[i \in 0 .. Bits] ==
          IF i = 0 THEN FALSE
          ELSE IF (i - 1 \in x) = (i - 1 \in y) THEN i - 1 \in x
          ELSE carry[i - 1]
    IN  {i \in 0 .. Bits - 1 : ((i \in x) = (i \in y)) = carry[i]}

(* x < y: the most significant position where they differ is in y.         *)
Less(x, y) == \E i \in y \ x : \A j \in Xor(x, y) : j <= i

(* The word of a natural number: bit i tells whether n halved i times is   *)
(* odd.                                                                    *)
OfNat(n) ==
    LET half[i \in 0 .. Bits - 1] == IF i = 0 THEN n ELSE half[i - 1] \div 2
    IN  {i \in 0 .. Bits - 1 : half[i] % 2 = 1}

(* The word written as 16-bit digits, the most significant first: a C      *)
(* literal 0x428a2f98 is OfLimbs(<<\h428a, \h2f98>>).                      *)
OfLimbs(s) ==
    UNION {{16 * (Len(s) - k) + i : i \in OfNat(s[k]) \cap (0 .. 15)} : k \in 1 .. Len(s)}
=============================================================================
