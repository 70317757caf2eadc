--------------------------- MODULE PortableProofs ---------------------------
(***************************************************************************)
(* Theorems about the modules LengthCells, PortableCompress and, for       *)
(* ChaCha20, PortableCipher.                                               *)
(*                                                                         *)
(* The two words count exactly, for words of every width: the invariant is *)
(* inductive as it stands, and the work is in two lemmas about arithmetic, *)
(* what the test for a carry does and where the bits go when a length in   *)
(* bytes becomes one in bits.                                              *)
(*                                                                         *)
(* The compression functions implement the standard.  The lemmas follow    *)
(* the ways in which the C code differs from it: sums in another order,    *)
(* counters in two words, the bytes of the host, registers that stay where *)
(* they are while the letters move, a schedule replaced in place, counters *)
(* kept twice.  Then the inductive invariant says where everything is      *)
(* between any two statements, and each action is mapped to a step of the  *)
(* standard or to none.                                                    *)
(*                                                                         *)
(* ChaCha20 implements the standard in the same way: the state of a block  *)
(* is in registers, the key, the nounce and the constants are loaded as    *)
(* words, the counter goes from a variable to a cell and back, and the key *)
(* stream is xored as words of the host.  What it encrypts it recovers.    *)
(***************************************************************************)
EXTENDS LengthCells, PortableCompress, WellFoundedInduction, TLAPS

-----------------------------------------------------------------------------
(* The length in two words.                                                *)

(* Quotient and remainder are unique.                                      *)
LEMMA DivisionUnique ==
  ASSUME NEW m \in Nat \ {0}, NEW a \in Nat,
         NEW q \in Nat, NEW r \in 0 .. m - 1, a = q * m + r
  PROVE  a % m = r /\ a \div m = q
<1>. DEFINE p == a \div m
            s == a % m
<1>1. p \in Int /\ s \in 0 .. m - 1 /\ a = m * p + s
  OBVIOUS
<1>. HIDE DEF p, s
<1>2. m * (q - p) = s - r
  BY <1>1
<1>3. CASE q < p
  <2>1. m * (q - p) <= -m
    BY <1>1, <1>3
  <2>. QED  BY <1>1, <1>2, <2>1
<1>4. CASE p < q
  <2>1. m * (q - p) >= m
    BY <1>1, <1>4
  <2>. QED  BY <1>1, <1>2, <2>1
<1>5. CASE p = q
  <2>1. s = r
    BY <1>1, <1>5
  <2>. QED  BY <2>1, <1>5 DEF p, s
<1>. QED  BY <1>1, <1>3, <1>4, <1>5

(* A small number is its own remainder.                                    *)
LEMMA SmallRemainder ==
  ASSUME NEW m \in Nat \ {0}, NEW a \in 0 .. m - 1
  PROVE  a % m = a
<1>1. a \in Nat /\ 0 \in Nat /\ a = 0 * m + a
  OBVIOUS
<1>. QED  BY <1>1, DivisionUnique, Zenon

(* One modulus more does not change the remainder.                         *)
LEMMA NextRemainder ==
  ASSUME NEW m \in Nat \ {0}, NEW a \in m .. 2 * m - 1
  PROVE  a % m = a - m
<1>1. a \in Nat /\ 1 \in Nat /\ a - m \in 0 .. m - 1 /\ a = 1 * m + (a - m)
  OBVIOUS
<1>. QED  BY <1>1, DivisionUnique, Zenon

(* The number of values of a word is positive and a multiple of eight.     *)
LEMMA LimbType == Limb \in Nat \ {0} /\ Limb = 8 * Eighth /\ Eighth \in Nat \ {0}
BY LengthCellsAssumption DEF Limb

(* Two words hold any number below the capacity.                           *)
LEMMA NumberFits ==
  ASSUME NEW u \in Word, NEW l \in Word
  PROVE  Number(u, l) \in 0 .. Capacity - 1
<1>1. u * Limb <= (Limb - 1) * Limb
  BY LimbType DEF Word
<1>2. (Limb - 1) * Limb = Limb * Limb - Limb
  BY LimbType
<1>3. u * Limb \in Nat
  BY LimbType DEF Word
<1>. QED  BY <1>1, <1>2, <1>3, LimbType DEF Word, Number, Capacity

(* So is the number of values of two words.                                *)
LEMMA CapacityType == Capacity \in Nat \ {0}
BY LimbType DEF Capacity

(* Adding n to the words adds n to the number.                             *)
LEMMA CountIsExact ==
  ASSUME NEW u \in Word, NEW l \in Word, NEW n \in Word
  PROVE  /\ Upper(u, l, n) \in Word
         /\ Lower(l, n) \in Word
         /\ Number(Upper(u, l, n), Lower(l, n)) = (Number(u, l) + n) % Capacity
<1>. DEFINE upper == Upper(u, l, n)
            lower == Lower(l, n)
<1>1. u \in 0 .. Limb - 1 /\ l \in 0 .. Limb - 1 /\ n \in 0 .. Limb - 1
  BY DEF Word
<1>2. Number(u, l) \in Nat /\ Number(u, l) = u * Limb + l
  BY NumberFits, CapacityType DEF Number
<1>3. CASE l + n < Limb
  <2>1. upper = u
    BY <1>1, <1>3, LimbType DEF Upper, Carries, maxBound
  <2>2. lower = l + n
    <3>1. l + n \in 0 .. Limb - 1
      BY <1>1, <1>3, LimbType
    <3>. QED  BY <3>1, LimbType, SmallRemainder, Zenon DEF Lower
  <2>3. lower \in Word
    BY <2>2, <1>1, <1>3, LimbType DEF Word
  <2>4. Number(upper, lower) = Number(u, l) + n
    <3>1. Number(upper, lower) = u * Limb + (l + n)
      BY <2>1, <2>2 DEF Number
    <3>2. u * Limb \in Nat
      BY <1>1, LimbType
    <3>. QED  BY <3>1, <3>2, <1>1, <1>2
  <2>5. Number(upper, lower) \in 0 .. Capacity - 1
    BY <2>1, <2>3, NumberFits
  <2>6. (Number(u, l) + n) % Capacity = Number(u, l) + n
    BY <2>4, <2>5, CapacityType, SmallRemainder
  <2>. QED  BY <2>1, <2>3, <2>4, <2>6
<1>4. CASE l + n >= Limb
  <2>1. upper = (u + 1) % Limb
    BY <1>1, <1>4, LimbType DEF Upper, Carries, maxBound
  <2>2. lower = l + n - Limb
    <3>1. l + n \in Limb .. 2 * Limb - 1
      BY <1>1, <1>4, LimbType
    <3>2. (l + n) % Limb = (l + n) - Limb
      BY <3>1, LimbType, NextRemainder
    <3>3. lower = (l + n) % Limb
      BY DEF Lower
    <3>. HIDE DEF lower
    <3>. QED  BY <1>1, <3>2, <3>3, LimbType
  <2>3. lower \in Word
    BY <2>2, <1>1, <1>4, LimbType DEF Word
  <2>4. CASE u + 1 < Limb
    <3>1. upper = u + 1
      <4>1. u + 1 \in 0 .. Limb - 1
        BY <2>4, <1>1, LimbType
      <4>. QED  BY <4>1, <2>1, LimbType, SmallRemainder, Zenon
    <3>2. upper \in Word
      BY <3>1, <2>4, <1>1, LimbType DEF Word
    <3>3. Number(upper, lower) = Number(u, l) + n
      <4>1. Number(upper, lower) = (u + 1) * Limb + (l + n - Limb)
        BY <3>1, <2>2 DEF Number
      <4>2. (u + 1) * Limb = u * Limb + Limb /\ u * Limb \in Nat
        BY <1>1, LimbType
      <4>. QED  BY <4>1, <4>2, <1>1, <1>2, LimbType
    <3>4. Number(upper, lower) \in 0 .. Capacity - 1
      BY <3>2, <2>3, NumberFits
    <3>5. (Number(u, l) + n) % Capacity = Number(u, l) + n
      BY <3>3, <3>4, CapacityType, SmallRemainder
    <3>. QED  BY <3>2, <2>3, <3>3, <3>5
  <2>5. CASE u + 1 = Limb
    <3>1. upper = 0
      BY <2>1, <2>5, <1>1, LimbType, DivisionUnique, u + 1 = 1 * Limb + 0
    <3>2. upper \in Word
      BY <3>1, LimbType DEF Word
    <3>3. Number(upper, lower) = l + n - Limb
      BY <3>1, <2>2, <1>1, LimbType DEF Number
    <3>4. Number(upper, lower) \in 0 .. Capacity - 1
      BY <3>2, <2>3, NumberFits
    <3>5. Number(u, l) + n = 1 * Capacity + (l + n - Limb)
      <4>1. u * Limb = Limb * Limb - Limb
        BY <2>5, <1>1, LimbType
      <4>. QED  BY <4>1, <1>1, <1>2, LimbType DEF Capacity
    <3>6. (Number(u, l) + n) % Capacity = l + n - Limb
      BY <3>3, <3>4, <3>5, <1>1, <1>2, CapacityType, DivisionUnique
    <3>. QED  BY <3>2, <2>3, <3>3, <3>6
  <2>. QED  BY <2>4, <2>5, <1>1, LimbType
<1>. QED  BY <1>1, <1>3, <1>4, LimbType

(* The shifted words are eight times the number.                           *)
LEMMA BitsAreExact ==
  ASSUME NEW u \in Word, NEW l \in Word
  PROVE  /\ UpperBits(u, l) \in Word
         /\ LowerBits(l) \in Word
         /\ Number(UpperBits(u, l), LowerBits(l)) = (8 * Number(u, l)) % Capacity
<1>. DEFINE p == u \div Eighth
            v == u % Eighth
            q == l \div Eighth
            s == l % Eighth
<1>1. /\ p \in Nat /\ v \in 0 .. Eighth - 1 /\ u = p * Eighth + v
      /\ q \in Nat /\ s \in 0 .. Eighth - 1 /\ l = q * Eighth + s
  BY LimbType DEF Word
<1>2. u \in Nat /\ l \in Nat /\ u < 8 * Eighth /\ l < 8 * Eighth
  BY LimbType DEF Word
<1>3. q < 8
  <2>1. q * Eighth < 8 * Eighth
    <3>. HIDE DEF q, s
    <3>. QED  BY <1>1, <1>2, LimbType
  <2>. QED  BY <2>1, <1>1, LimbType
<1>4. l \div Eighth = q
  OBVIOUS
<1>. HIDE DEF p, v, q, s
<1>5. 8 * u = p * Limb + 8 * v /\ 8 * v \in 0 .. Limb - 1
  BY <1>1, LimbType
<1>6. 8 * l = q * Limb + 8 * s /\ 8 * s \in 0 .. Limb - 1
  BY <1>1, LimbType
<1>7. (8 * u) % Limb = 8 * v
  <2>1. /\ 8 * u \in Nat /\ Limb \in Nat \ {0} /\ p \in Nat
        /\ 8 * v \in 0 .. Limb - 1 /\ 8 * u = p * Limb + 8 * v
    BY <1>1, <1>2, <1>5, LimbType
  <2>2. (8 * u) % Limb = 8 * v
    BY <2>1, DivisionUnique
  <2>. QED  BY <2>2
<1>8. LowerBits(l) = 8 * s
  <2>1. /\ 8 * l \in Nat /\ Limb \in Nat \ {0} /\ q \in Nat
        /\ 8 * s \in 0 .. Limb - 1 /\ 8 * l = q * Limb + 8 * s
    BY <1>1, <1>2, <1>6, LimbType
  <2>2. (8 * l) % Limb = 8 * s
    BY <2>1, DivisionUnique
  <2>. QED  BY <2>2 DEF LowerBits
<1>9. UpperBits(u, l) = 8 * v + q
  BY <1>4, <1>7 DEF UpperBits
<1>10. UpperBits(u, l) \in Word
  BY <1>1, <1>3, <1>9, LimbType DEF Word
<1>11. LowerBits(l) \in Word
  BY <1>6, <1>8 DEF Word
<1>12. Number(UpperBits(u, l), LowerBits(l)) = (8 * v + q) * Limb + 8 * s
  BY <1>8, <1>9 DEF Number
<1>13. 8 * Number(u, l) = p * Capacity + ((8 * v + q) * Limb + 8 * s)
  <2>1. 8 * Number(u, l) = (8 * u) * Limb + 8 * l
    <3>1. (8 * u) * Limb = 8 * (u * Limb) /\ u * Limb \in Nat
      BY <1>2, LimbType
    <3>. QED  BY <3>1, <1>2 DEF Number
  <2>2. (8 * u) * Limb = p * (Limb * Limb) + (8 * v) * Limb
    BY <1>1, <1>5, LimbType
  <2>3. (8 * v + q) * Limb = (8 * v) * Limb + q * Limb
    BY <1>1, LimbType
  <2>4. /\ p * (Limb * Limb) \in Nat /\ (8 * v) * Limb \in Nat
        /\ q * Limb \in Nat /\ 8 * s \in Nat
    BY <1>1, LimbType
  <2>. QED  BY <2>1, <2>2, <2>3, <2>4, <1>6 DEF Capacity
<1>14. (8 * v + q) * Limb + 8 * s \in 0 .. Capacity - 1
  BY <1>10, <1>11, <1>12, NumberFits
<1>15. 8 * Number(u, l) \in Nat
  BY NumberFits, CapacityType
<1>. QED
  BY <1>1, <1>10, <1>11, <1>12, <1>13, <1>14, <1>15, CapacityType, DivisionUnique

-----------------------------------------------------------------------------
(* What is counted at once fits into a word.                               *)
LEMMA ByteCounts == PositiveInt \subseteq Word /\ BlockLength \in Word
BY LimbType, LengthCellsAssumption DEF PositiveInt, Word, Limb

(* The inductive invariant: the properties as they are.                    *)
Counted == TypeOK /\ CellsCount /\ LengthWritten

(* It holds when the hash memory is initialised first.                     *)
LEMMA InitCounted == CellsInit => Counted
<1>1. 0 \in Word /\ 0 \in 0 .. Capacity - 1
  BY LimbType, CapacityType DEF Word
<1>2. Number(0, 0) = 0
  BY LimbType DEF Number
<1>. QED  BY <1>1, <1>2 DEF CellsInit, Counted, TypeOK, CellsCount, LengthWritten

(* What Count leaves behind.                                               *)
LEMMA CountKeeps ==
  ASSUME TypeOK, Number(uLength, lLength) = total, NEW n \in Word, Count(n)
  PROVE  /\ uLength' \in Word /\ lLength' \in Word
         /\ total' \in 0 .. Capacity - 1
         /\ Number(uLength', lLength') = total'
<1>1. uLength \in Word /\ lLength \in Word
  BY DEF TypeOK
<1>2. /\ uLength' \in Word /\ lLength' \in Word
      /\ Number(uLength', lLength') = (Number(uLength, lLength) + n) % Capacity
  BY <1>1, CountIsExact, ZenonT(30) DEF Count
<1>3. Number(uLength', lLength') = total'
  BY <1>2, Zenon DEF Count
<1>. QED  BY <1>2, <1>3, NumberFits

(* Every step of sha512 and of blake2b keeps it.                           *)
LEMMA NextCounted == Counted /\ [CellsNext]_cellsVars => Counted'
<1>. SUFFICES ASSUME Counted, [CellsNext]_cellsVars
             PROVE  Counted'
  OBVIOUS
<1>1. CASE Initialise
  <2>1. 0 \in Word /\ 0 \in 0 .. Capacity - 1
    BY LimbType, CapacityType DEF Word
  <2>2. Number(0, 0) = 0
    BY LimbType DEF Number
  <2>. QED  BY <1>1, <2>1, <2>2 DEF Initialise, Counted, TypeOK, CellsCount, LengthWritten
<1>2. CASE CompressBlock
  <2>1. written = Unwritten /\ Count(BlockLength) /\ written' = written /\ primitive' = primitive
    BY <1>2 DEF CompressBlock
  <2>2. TypeOK /\ Number(uLength, lLength) = total
    BY <2>1 DEF Counted, CellsCount
  <2>. QED  BY <2>1, <2>2, CountKeeps, ByteCounts
            DEF Counted, TypeOK, CellsCount, LengthWritten
<1>3. ASSUME NEW n \in PositiveInt, UpdateLength128(n)
      PROVE  Counted'
  <2>1. written = Unwritten /\ Count(n) /\ written' = written /\ primitive' = primitive
    BY <1>3 DEF UpdateLength128
  <2>2. TypeOK /\ Number(uLength, lLength) = total
    BY <2>1 DEF Counted, CellsCount
  <2>3. n \in Word
    BY ByteCounts
  <2>. QED  BY <2>1, <2>2, <2>3, CountKeeps
            DEF Counted, TypeOK, CellsCount, LengthWritten
<1>4. ASSUME NEW n \in PositiveInt, LastOfSha512(n)
      PROVE  Counted'
  <2>1. /\ primitive = "sha512" /\ written = Unwritten /\ Count(n) /\ primitive' = primitive
        /\ written' = <<UpperBits(uLength', lLength'), LowerBits(lLength')>>
    BY <1>4 DEF LastOfSha512
  <2>2. TypeOK /\ Number(uLength, lLength) = total
    BY <2>1 DEF Counted, CellsCount
  <2>3. n \in Word
    BY ByteCounts
  <2>4. /\ uLength' \in Word /\ lLength' \in Word
        /\ total' \in 0 .. Capacity - 1
        /\ Number(uLength', lLength') = total'
    BY <2>1, <2>2, <2>3, CountKeeps
  <2>5. /\ written' \in Word \X Word
        /\ Number(written'[1], written'[2]) = (8 * total') % Capacity
    BY <2>1, <2>4, BitsAreExact
  <2>. QED  BY <2>1, <2>4, <2>5 DEF Counted, TypeOK, CellsCount, LengthWritten
<1>5. ASSUME NEW n \in PositiveInt, LastOfBlake2b(n)
      PROVE  Counted'
  <2>1. /\ primitive = "blake2b" /\ written = Unwritten
        /\ written' = <<Upper(uLength, lLength, n), Lower(lLength, n)>>
        /\ total' = (total + n) % Capacity
        /\ uLength' = uLength /\ lLength' = lLength /\ primitive' = primitive
    BY <1>5 DEF LastOfBlake2b
  <2>2. uLength \in Word /\ lLength \in Word /\ Number(uLength, lLength) = total
    BY <2>1 DEF Counted, CellsCount, TypeOK
  <2>3. n \in Word
    BY ByteCounts
  <2>4. /\ written' \in Word \X Word
        /\ Number(written'[1], written'[2]) = total'
    BY <2>1, <2>2, <2>3, CountIsExact
  <2>5. total' \in 0 .. Capacity - 1
    BY <2>4, NumberFits
  <2>6. written' # Unwritten
    BY <2>4, LengthCellsAssumption DEF Word, Limb
  <2>. QED  BY <2>1, <2>2, <2>4, <2>5, <2>6 DEF Counted, TypeOK, CellsCount, LengthWritten
<1>6. CASE UNCHANGED cellsVars
  BY <1>6 DEF cellsVars, Counted, TypeOK, CellsCount, LengthWritten
<1>. QED  BY <1>1, <1>2, <1>3, <1>4, <1>5, <1>6 DEF CellsNext

(* The invariant holds of both hashes' use of HashMemory128.               *)
THEOREM SpecCounted == CellsSpec => []Counted
BY InitCounted, NextCounted, PTL DEF CellsSpec

(* The cells are words, and so is what the last block receives: the carry  *)
(* of HashMemory.hs:95 and the shifts of the sha512 padding stay in range. *)
THEOREM TypeCorrect == CellsSpec => []TypeOK
<1>1. Counted => TypeOK
  BY DEF Counted
<1>. QED  BY <1>1, SpecCounted, PTL

(* The two cells are the number of bytes, for words of every width.        *)
THEOREM CellsAreExact == CellsSpec => []CellsCount
<1>1. Counted => CellsCount
  BY DEF Counted
<1>. QED  BY <1>1, SpecCounted, PTL

(* The last block receives the length of the whole message.                *)
THEOREM WrittenLengthIsExact == CellsSpec => []LengthWritten
<1>1. Counted => LengthWritten
  BY DEF Counted
<1>. QED  BY <1>1, SpecCounted, PTL

-----------------------------------------------------------------------------
(* Words of any width: sums, and the bits of a number.                     *)

(* The words of any width, as module Words defines their operations.       *)
W(Bits) == INSTANCE Words

(* Induction over the natural numbers, for a set instead of a predicate.   *)
SmallerNat == {ss \in Nat \X Nat : ss[1] < ss[2]}

LEMMA NatSet ==
  ASSUME NEW S, 0 \in S, \A n \in Nat : n \in S => n + 1 \in S
  PROVE  \A n \in Nat : n \in S
<1>1. IsWellFoundedOn(SmallerNat, Nat)
  BY NatLessThanWellFounded DEF OpToRel, SmallerNat
<1>. DEFINE T == Nat \ S
<1>2. SUFFICES ASSUME T # {} PROVE FALSE
  OBVIOUS
<1>3. PICK x \in T : \A y \in T : ~ (<<y, x>> \in SmallerNat)
  <2>1. T \subseteq Nat
    OBVIOUS
  <2>. HIDE DEF T
  <2>. QED  BY <1>1, <1>2, <2>1, WFMin, Zenon
<1>4. x \in Nat /\ x \notin S /\ x # 0
  OBVIOUS
<1>5. x - 1 \in Nat /\ <<x - 1, x>> \in SmallerNat
  BY <1>4 DEF SmallerNat
<1>6. x - 1 \in S
  BY <1>3, <1>5
<1>7. (x - 1) + 1 \in S
  BY <1>5, <1>6
<1>. QED  BY <1>4, <1>7, (x - 1) + 1 = x

(* A carry enters position k: below it both words have a bit set and from  *)
(* there on up exactly one of them has.                                    *)
Carry(x, y, k) ==
  \E m \in 0 .. k - 1 : m \in x /\ m \in y /\ \A j \in m + 1 .. k - 1 : (j \in x) # (j \in y)

(* The carry of a position comes from the position below it.               *)
LEMMA CarryBits ==
  ASSUME NEW x, NEW y
  PROVE  /\ Carry(x, y, 0) = FALSE
         /\ \A k \in Nat : Carry(x, y, k) \in BOOLEAN
         /\ \A k \in Nat : Carry(x, y, k + 1) =
              IF (k \in x) = (k \in y) THEN k \in x ELSE Carry(x, y, k)
         /\ \A k \in Nat : Carry(x, y, k + 1) <=>
              \/ k \in x /\ k \in y
              \/ k \in x /\ Carry(x, y, k)
              \/ k \in y /\ Carry(x, y, k)
<1>1. ~ Carry(x, y, 0)
  BY DEF Carry
<1>2. \A k \in Nat : Carry(x, y, k) \in BOOLEAN
  BY DEF Carry
<1>3. ASSUME NEW k \in Nat, (k \in x) <=> (k \in y)
      PROVE  Carry(x, y, k + 1) <=> k \in x
  BY <1>3 DEF Carry
<1>4. ASSUME NEW k \in Nat, ~ ((k \in x) <=> (k \in y))
      PROVE  Carry(x, y, k + 1) <=> Carry(x, y, k)
  <2>1. ASSUME Carry(x, y, k + 1) PROVE Carry(x, y, k)
    BY <1>4, <2>1 DEF Carry
  <2>2. ASSUME Carry(x, y, k) PROVE Carry(x, y, k + 1)
    <3>1. PICK m \in 0 .. k - 1 : m \in x /\ m \in y /\ \A j \in m + 1 .. k - 1 : (j \in x) # (j \in y)
      BY <2>2 DEF Carry
    <3>2. \A j \in m + 1 .. k : (j \in x) # (j \in y)
      BY <3>1, <1>4
    <3>. QED  BY <3>1, <3>2 DEF Carry
  <2>. QED  BY <2>1, <2>2
<1>5. ASSUME NEW k \in Nat
      PROVE  Carry(x, y, k + 1) = IF (k \in x) = (k \in y) THEN k \in x ELSE Carry(x, y, k)
  <2>1. Carry(x, y, k) \in BOOLEAN /\ Carry(x, y, k + 1) \in BOOLEAN
    BY <1>2
  <2>. QED  BY <1>3, <1>4, <2>1
<1>6. ASSUME NEW k \in Nat
      PROVE  Carry(x, y, k + 1) <=> \/ k \in x /\ k \in y
                                    \/ k \in x /\ Carry(x, y, k)
                                    \/ k \in y /\ Carry(x, y, k)
  BY <1>3, <1>4
<1>7. Carry(x, y, 0) = FALSE
  BY <1>1 DEF Carry
<1>. QED  BY <1>2, <1>5, <1>6, <1>7, Zenon

(* The recursive function of Add computes that carry.                      *)
LEMMA AddBits ==
  ASSUME NEW B \in Nat, NEW x, NEW y
  PROVE  W(B)!Add(x, y) = {k \in 0 .. B - 1 : ((k \in x) <=> (k \in y)) <=> Carry(x, y, k)}
<1>. DEFINE F(c) == [k \in 0 .. B |-> IF k = 0 THEN FALSE
                      ELSE IF (k - 1 \in x) = (k - 1 \in y) THEN k - 1 \in x ELSE c[k - 1]]
            c0 == [k \in 0 .. B |-> Carry(x, y, k)]
            c1 == CHOOSE c : c = F(c)
<1>1. W(B)!Add(x, y) = {k \in 0 .. B - 1 : ((k \in x) = (k \in y)) = c1[k]}
  BY DEF W!Add
<1>2. \A k \in Nat : Carry(x, y, k) \in BOOLEAN
  BY CarryBits
<1>10. \A k \in Nat : Carry(x, y, k + 1) =
              IF (k \in x) = (k \in y) THEN k \in x ELSE Carry(x, y, k)
  BY CarryBits
<1>11. Carry(x, y, 0) = FALSE
  BY CarryBits
<1>3. c0 = F(c0)
  <2>1. ASSUME NEW k \in 0 .. B
        PROVE  Carry(x, y, k) = (IF k = 0 THEN FALSE ELSE IF (k - 1 \in x) = (k - 1 \in y)
                                   THEN k - 1 \in x ELSE c0[k - 1])
    <3>1. CASE k = 0
      BY <3>1, <1>11, Zenon
    <3>2. CASE k # 0
      <4>1. k - 1 \in Nat /\ k = (k - 1) + 1 /\ k - 1 \in 0 .. B
        BY <3>2
      <4>2. Carry(x, y, (k - 1) + 1) = IF (k - 1 \in x) = (k - 1 \in y)
                                       THEN k - 1 \in x ELSE Carry(x, y, k - 1)
        BY <4>1, <1>10, Zenon
      <4>3. c0[k - 1] = Carry(x, y, k - 1)
        BY <4>1, Zenon
      <4>. HIDE DEF c0
      <4>. QED  BY <3>2, <4>1, <4>2, <4>3, Zenon
    <3>. QED  BY <3>1, <3>2
  <2>. QED  BY <2>1, Zenon
<1>4. c1 = F(c1)
  BY <1>3
<1>. HIDE DEF c1
<1>5. \A k \in 0 .. B : c1[k] = IF k = 0 THEN FALSE
                      ELSE IF (k - 1 \in x) = (k - 1 \in y) THEN k - 1 \in x ELSE c1[k - 1]
  BY <1>4
<1>6. \A k \in 0 .. B : c1[k] = Carry(x, y, k)
  <2>. DEFINE S == {k \in Nat : k <= B => c1[k] = Carry(x, y, k)}
  <2>1. 0 \in S
    <3>1. 0 \in 0 .. B
      OBVIOUS
    <3>2. c1[0] = FALSE
      BY <1>5, <3>1, Zenon
    <3>3. c1[0] = Carry(x, y, 0)
      BY <3>2, CarryBits, Zenon
    <3>. QED  BY <3>3
  <2>2. ASSUME NEW n \in Nat, n \in S PROVE n + 1 \in S
    <3>1. CASE n + 1 <= B
      <4>1. c1[n + 1] = IF (n \in x) = (n \in y) THEN n \in x ELSE c1[n]
        BY <1>5, <3>1, n + 1 \in 0 .. B, n + 1 # 0, (n + 1) - 1 = n
      <4>2. c1[n] = Carry(x, y, n)
        BY <2>2, <3>1
      <4>3. c1[n + 1] = Carry(x, y, n + 1)
        BY <4>1, <4>2, <1>10, Zenon
      <4>. QED  BY <4>3
    <3>. QED  BY <3>1
  <2>. HIDE DEF S
  <2>3. \A n \in Nat : n \in S
    BY <2>1, <2>2, NatSet
  <2>. QED  BY <2>3 DEF S
<1>. QED  BY <1>1, <1>2, <1>6

(* A full adder: a carry leaves a position when two of three bits are set. *)
LEMMA FullAdder ==
  ASSUME NEW x, NEW y, NEW k \in Nat
  PROVE  Carry(x, y, k + 1) <=> \/ k \in x /\ k \in y
                                \/ k \in x /\ Carry(x, y, k)
                                \/ k \in y /\ Carry(x, y, k)
BY CarryBits

(* No carry enters the lowest position.                                    *)
LEMMA NoCarryIn ==
  ASSUME NEW x, NEW y
  PROVE  ~ Carry(x, y, 0)
BY CarryBits

(* A bit of a sum.                                                         *)
LEMMA SumBit ==
  ASSUME NEW B \in Nat, NEW x, NEW y, NEW k \in 0 .. B - 1
  PROVE  k \in W(B)!Add(x, y) <=> (((k \in x) <=> (k \in y)) <=> Carry(x, y, k))
BY AddBits

(* A sum fits into its word.                                               *)
LEMMA SumWord ==
  ASSUME NEW B \in Nat, NEW x, NEW y
  PROVE  W(B)!Add(x, y) \subseteq 0 .. B - 1
BY AddBits

(* Addition commutes.                                                      *)
LEMMA AddCommutes ==
  ASSUME NEW B \in Nat, NEW x, NEW y
  PROVE  W(B)!Add(x, y) = W(B)!Add(y, x)
<1>1. ASSUME NEW k \in Nat PROVE Carry(x, y, k) <=> Carry(y, x, k)
  BY DEF Carry
<1>2. ASSUME NEW k \in 0 .. B - 1
      PROVE  k \in W(B)!Add(x, y) <=> k \in W(B)!Add(y, x)
  BY <1>1, SumBit
<1>. QED  BY <1>2, SumWord

(* Three words added in either order have the same carries, counted.       *)
LEMMA AddAssociates ==
  ASSUME NEW B \in Nat, NEW x, NEW y, NEW z
  PROVE  W(B)!Add(W(B)!Add(x, y), z) = W(B)!Add(x, W(B)!Add(y, z))
<1>. DEFINE l == W(B)!Add(x, y)
            r == W(B)!Add(y, z)
            Same(k) == /\ (Carry(x, y, k) /\ Carry(l, z, k)) <=> (Carry(y, z, k) /\ Carry(x, r, k))
                       /\ (Carry(x, y, k) \/ Carry(l, z, k)) <=> (Carry(y, z, k) \/ Carry(x, r, k))
            S == {k \in Nat : k <= B => Same(k)}
<1>1. 0 \in S
  BY NoCarryIn
<1>2. ASSUME NEW k \in Nat, k \in S PROVE k + 1 \in S
  <2>1. SUFFICES ASSUME k + 1 <= B PROVE Same(k + 1)
    OBVIOUS
  <2>2. k \in 0 .. B - 1 /\ Same(k)
    BY <2>1, <1>2
  <2>3. k \in l <=> (((k \in x) <=> (k \in y)) <=> Carry(x, y, k))
    BY <2>2, SumBit
  <2>4. k \in r <=> (((k \in y) <=> (k \in z)) <=> Carry(y, z, k))
    BY <2>2, SumBit
  <2>. HIDE DEF l, r
  <2>5. Carry(x, y, k + 1) <=> \/ k \in x /\ k \in y
                               \/ k \in x /\ Carry(x, y, k)
                               \/ k \in y /\ Carry(x, y, k)
    BY FullAdder
  <2>6. Carry(y, z, k + 1) <=> \/ k \in y /\ k \in z
                               \/ k \in y /\ Carry(y, z, k)
                               \/ k \in z /\ Carry(y, z, k)
    BY FullAdder
  <2>7. Carry(l, z, k + 1) <=> \/ k \in l /\ k \in z
                               \/ k \in l /\ Carry(l, z, k)
                               \/ k \in z /\ Carry(l, z, k)
    BY FullAdder
  <2>8. Carry(x, r, k + 1) <=> \/ k \in x /\ k \in r
                               \/ k \in x /\ Carry(x, r, k)
                               \/ k \in r /\ Carry(x, r, k)
    BY FullAdder
  <2>. QED  BY <2>2, <2>3, <2>4, <2>5, <2>6, <2>7, <2>8
<1>. HIDE DEF S
<1>3. \A k \in Nat : k \in S
  BY <1>1, <1>2, NatSet
<1>4. ASSUME NEW k \in 0 .. B - 1
      PROVE  k \in W(B)!Add(l, z) <=> k \in W(B)!Add(x, r)
  <2>1. Same(k)
    BY <1>3 DEF S
  <2>2. k \in l <=> (((k \in x) <=> (k \in y)) <=> Carry(x, y, k))
    BY SumBit
  <2>3. k \in r <=> (((k \in y) <=> (k \in z)) <=> Carry(y, z, k))
    BY SumBit
  <2>. HIDE DEF l, r
  <2>4. k \in W(B)!Add(l, z) <=> (((k \in l) <=> (k \in z)) <=> Carry(l, z, k))
    BY SumBit
  <2>5. k \in W(B)!Add(x, r) <=> (((k \in x) <=> (k \in r)) <=> Carry(x, r, k))
    BY SumBit
  <2>. QED  BY <2>1, <2>2, <2>3, <2>4, <2>5
<1>5. W(B)!Add(l, z) \subseteq 0 .. B - 1 /\ W(B)!Add(x, r) \subseteq 0 .. B - 1
  BY SumWord
<1>. HIDE DEF l, r
<1>6. W(B)!Add(l, z) = W(B)!Add(x, r)
  BY <1>4, <1>5
<1>. QED  BY <1>6 DEF l, r

(* The digits of a number are the parities of its halves.                  *)
Halves(f, n, B) ==
  /\ f \in [0 .. B - 1 -> Nat]
  /\ f[0] = n
  /\ \A k \in 0 .. B - 2 : f[k + 1] = f[k] \div 2

(* OfNat takes the bits of a number by halving it.                         *)
LEMMA HalvesExist ==
  ASSUME NEW B \in Nat \ {0}, NEW n \in Nat
  PROVE  \E f : /\ Halves(f, n, B)
                /\ W(B)!OfNat(n) = {k \in 0 .. B - 1 : f[k] % 2 = 1}
<1>. DEFINE S == {b \in Nat : \E f : Halves(f, n, b + 1)}
<1>1. 0 \in S
  <2>1. Halves([k \in 0 .. 0 |-> n], n, 1)
    BY DEF Halves
  <2>. QED  BY <2>1
<1>2. ASSUME NEW b \in Nat, b \in S PROVE b + 1 \in S
  <2>1. PICK f : Halves(f, n, b + 1)
    BY <1>2
  <2>. DEFINE g == [k \in 0 .. b + 1 |-> IF k = b + 1 THEN f[b] \div 2 ELSE f[k]]
  <2>2. Halves(g, n, b + 2)
    BY <2>1 DEF Halves
  <2>. QED  BY <2>2
<1>. HIDE DEF S
<1>3. \A b \in Nat : b \in S
  BY <1>1, <1>2, NatSet
<1>4. PICK f : Halves(f, n, B)
  BY <1>3, B - 1 \in Nat, (B - 1) + 1 = B DEF S
<1>. DEFINE F(h) == [k \in 0 .. B - 1 |-> IF k = 0 THEN n ELSE h[k - 1] \div 2]
            h0 == CHOOSE h : h = F(h)
<1>5. f = F(f)
  <2>1. ASSUME NEW k \in 0 .. B - 1 PROVE f[k] = IF k = 0 THEN n ELSE f[k - 1] \div 2
    <3>1. CASE k # 0
      BY <3>1, <1>4, k - 1 \in 0 .. B - 2, (k - 1) + 1 = k DEF Halves
    <3>. QED  BY <3>1, <1>4 DEF Halves
  <2>. QED  BY <2>1, <1>4 DEF Halves
<1>6. h0 = F(h0)
  BY <1>5, Zenon
<1>7. W(B)!OfNat(n) = {k \in 0 .. B - 1 : h0[k] % 2 = 1}
  BY DEF W!OfNat
<1>. HIDE DEF h0
<1>8. \A k \in 0 .. B - 1 : h0[k] = IF k = 0 THEN n ELSE h0[k - 1] \div 2
  BY <1>6
<1>9. \A k \in 0 .. B - 1 : h0[k] = f[k]
  <2>. DEFINE T == {k \in Nat : k <= B - 1 => h0[k] = f[k]}
  <2>1. 0 \in T
    BY <1>8, <1>4 DEF Halves
  <2>2. ASSUME NEW k \in Nat, k \in T PROVE k + 1 \in T
    <3>1. CASE k + 1 <= B - 1
      <4>1. h0[k + 1] = h0[k] \div 2
        BY <1>8, <3>1, k + 1 \in 0 .. B - 1, (k + 1) - 1 = k
      <4>. QED  BY <4>1, <2>2, <3>1, <1>4 DEF Halves
    <3>. QED  BY <3>1
  <2>. HIDE DEF T
  <2>3. \A k \in Nat : k \in T
    BY <2>1, <2>2, NatSet
  <2>. QED  BY <2>3 DEF T
<1>. QED  BY <1>4, <1>7, <1>9

(* A number of B bits has no bit from B on.                                *)
LEMMA DigitsBounded ==
  ASSUME NEW B \in Nat \ {0}, NEW n \in Nat
  PROVE  W(B)!OfNat(n) \subseteq 0 .. B - 1
BY HalvesExist

(* A longer word of the same number has the same low digits.               *)
LEMMA DigitsAgree ==
  ASSUME NEW B \in Nat \ {0}, NEW C \in Nat \ {0}, B <= C, NEW n \in Nat,
         NEW k \in 0 .. B - 1
  PROVE  k \in W(B)!OfNat(n) <=> k \in W(C)!OfNat(n)
<1>1. PICK f : Halves(f, n, B) /\ W(B)!OfNat(n) = {j \in 0 .. B - 1 : f[j] % 2 = 1}
  BY HalvesExist
<1>2. PICK g : Halves(g, n, C) /\ W(C)!OfNat(n) = {j \in 0 .. C - 1 : g[j] % 2 = 1}
  BY HalvesExist
<1>. DEFINE S == {j \in Nat : j <= B - 1 => f[j] = g[j]}
<1>3. 0 \in S
  BY <1>1, <1>2 DEF Halves
<1>4. ASSUME NEW j \in Nat, j \in S PROVE j + 1 \in S
  BY <1>1, <1>2, <1>4 DEF Halves
<1>. HIDE DEF S
<1>5. \A j \in Nat : j \in S
  BY <1>3, <1>4, NatSet
<1>. QED  BY <1>1, <1>2, <1>5 DEF S

(* A number of a block's size has eight digits.                            *)
LEMMA ShortDigits ==
  ASSUME NEW B \in Nat, B > 8, NEW n \in 0 .. 255
  PROVE  W(B)!OfNat(n) \subseteq 0 .. 7
<1>1. PICK f : Halves(f, n, B) /\ W(B)!OfNat(n) = {j \in 0 .. B - 1 : f[j] % 2 = 1}
  BY HalvesExist
<1>. DEFINE S == {j \in Nat : j + 8 <= B - 1 => f[j + 8] = 0}
<1>2. 0 \in S
  <2>. DEFINE h(k) == f[k + 1] = f[k] \div 2
  <2>0. f[0] = n /\ \A k \in 0 .. 7 : h(k)
    <3>1. Halves(f, n, B)
      BY <1>1
    <3>2. \A k \in 0 .. B - 2 : f[k + 1] = f[k] \div 2
      BY <3>1 DEF Halves
    <3>3. ASSUME NEW k \in 0 .. 7 PROVE k \in 0 .. B - 2
      OBVIOUS
    <3>. QED  BY <3>1, <3>2, <3>3 DEF Halves
  <2>1. f[1] = f[0] \div 2 /\ f[2] = f[1] \div 2 /\ f[3] = f[2] \div 2 /\ f[4] = f[3] \div 2
    <3>1. h(0) /\ h(1) /\ h(2) /\ h(3)
      BY <2>0
    <3>. QED  BY <3>1
  <2>2. f[4] \in 0 .. 15
    BY <2>0, <2>1
  <2>3. f[5] = f[4] \div 2 /\ f[6] = f[5] \div 2 /\ f[7] = f[6] \div 2 /\ f[8] = f[7] \div 2
    <3>1. h(4) /\ h(5) /\ h(6) /\ h(7)
      BY <2>0
    <3>. QED  BY <3>1
  <2>4. f[8] = 0
    BY <2>2, <2>3
  <2>. QED  BY <2>4
<1>3. ASSUME NEW j \in Nat, j \in S PROVE j + 1 \in S
  <2>1. CASE j + 9 <= B - 1
    <3>1. f[(j + 8) + 1] = f[j + 8] \div 2
      BY <2>1, <1>1 DEF Halves
    <3>2. f[j + 8] = 0
      BY <2>1, <1>3
    <3>. QED  BY <3>1, <3>2
  <2>. QED  BY <2>1
<1>. HIDE DEF S
<1>4. \A j \in Nat : j \in S
  BY <1>2, <1>3, NatSet
<1>5. ASSUME NEW k \in 8 .. B - 1 PROVE f[k] = 0
  BY <1>4, k - 8 \in Nat, (k - 8) + 8 = k DEF S
<1>. QED  BY <1>1, <1>5

(* The digits of a sum are those of the sum of the words.                  *)
LEMMA AddNumbers ==
  ASSUME NEW B \in Nat \ {0}, NEW m \in Nat, NEW n \in Nat
  PROVE  W(B)!Add(W(B)!OfNat(m), W(B)!OfNat(n)) = W(B)!OfNat(m + n)
<1>1. PICK f : Halves(f, m, B) /\ W(B)!OfNat(m) = {k \in 0 .. B - 1 : f[k] % 2 = 1}
  BY HalvesExist
<1>2. PICK g : Halves(g, n, B) /\ W(B)!OfNat(n) = {k \in 0 .. B - 1 : g[k] % 2 = 1}
  BY HalvesExist
<1>3. PICK h : Halves(h, m + n, B) /\ W(B)!OfNat(m + n) = {k \in 0 .. B - 1 : h[k] % 2 = 1}
  BY HalvesExist, m + n \in Nat
<1>. DEFINE x == W(B)!OfNat(m)
            y == W(B)!OfNat(n)
            z == W(B)!OfNat(m + n)
            C(k) == IF Carry(x, y, k) THEN 1 ELSE 0
            S == {k \in Nat : k <= B - 1 => h[k] = f[k] + g[k] + C(k)}
<1>4. \A k \in 0 .. B - 1 : /\ k \in x <=> f[k] % 2 = 1
                            /\ k \in y <=> g[k] % 2 = 1
                            /\ k \in z <=> h[k] % 2 = 1
  BY <1>1, <1>2, <1>3
<1>5. z \subseteq 0 .. B - 1
  BY <1>3
<1>. HIDE DEF x, y, z
<1>6. 0 \in S
  BY NoCarryIn, <1>1, <1>2, <1>3 DEF Halves
<1>7. ASSUME NEW k \in Nat, k \in S PROVE k + 1 \in S
  <2>1. SUFFICES ASSUME k + 1 <= B - 1 PROVE h[k + 1] = f[k + 1] + g[k + 1] + C(k + 1)
    OBVIOUS
  <2>2. Carry(x, y, k + 1) <=> \/ k \in x /\ k \in y
                               \/ k \in x /\ Carry(x, y, k)
                               \/ k \in y /\ Carry(x, y, k)
    BY FullAdder
  <2>3. /\ f[k] \in Nat /\ f[k + 1] = f[k] \div 2
        /\ g[k] \in Nat /\ g[k + 1] = g[k] \div 2
        /\ h[k + 1] = h[k] \div 2
        /\ h[k] = f[k] + g[k] + C(k)
    BY <2>1, <1>1, <1>2, <1>3, <1>7 DEF Halves
  <2>4. PICK a \in Nat, b \in Nat : a = f[k] /\ b = g[k]
    BY <2>3
  <2>5. (k \in x <=> a % 2 = 1) /\ (k \in y <=> b % 2 = 1)
    BY <2>1, <2>4, <1>4
  <2>6. (a + b + C(k)) \div 2 = a \div 2 + b \div 2 + C(k + 1)
    <3>. DEFINE c == C(k)
                d == C(k + 1)
    <3>1. c \in {0, 1} /\ d \in {0, 1} /\ (c = 1 <=> Carry(x, y, k))
          /\ (d = 1 <=> Carry(x, y, k + 1))
      OBVIOUS
    <3>. HIDE DEF c, d
    <3>2. d = 1 <=> (a % 2) + (b % 2) + c >= 2
      BY <3>1, <2>2, <2>5
    <3>3. (a + b + c) \div 2 = a \div 2 + b \div 2 + d
      BY <3>1, <3>2
    <3>. QED  BY <3>3 DEF c, d
  <2>. QED  BY <2>3, <2>4, <2>6
<1>. HIDE DEF S
<1>8. \A k \in Nat : k \in S
  BY <1>6, <1>7, NatSet
<1>9. ASSUME NEW k \in 0 .. B - 1
      PROVE  k \in W(B)!Add(x, y) <=> k \in z
  <2>1. f[k] \in Nat /\ g[k] \in Nat
    BY <1>1, <1>2 DEF Halves
  <2>2. k \in W(B)!Add(x, y) <=> (((k \in x) <=> (k \in y)) <=> Carry(x, y, k))
    BY SumBit
  <2>3. h[k] = f[k] + g[k] + C(k)
    BY <1>8 DEF S
  <2>. QED  BY <2>1, <2>2, <2>3, <1>4
<1>10. W(B)!Add(x, y) \subseteq 0 .. B - 1
  BY SumWord
<1>11. W(B)!Add(x, y) = z
  BY <1>9, <1>10, <1>5
<1>. QED  BY <1>11 DEF x, y, z

-----------------------------------------------------------------------------
(* The counters of BLAKE2.                                                 *)

(* A carry comes from the digits below it.                                 *)
LEMMA CarryFromBelow ==
  ASSUME NEW B \in Nat, NEW x, NEW y, NEW u, NEW v,
         \A k \in 0 .. B - 1 : (k \in x <=> k \in u) /\ (k \in y <=> k \in v)
  PROVE  Carry(x, y, B) <=> Carry(u, v, B)
BY DEF Carry

(* A sum has the digits that the lower digits of its words make.           *)
LEMMA LowerDigits ==
  ASSUME NEW B \in Nat, NEW C \in Nat, B <= C, NEW x, NEW y, NEW u, NEW v,
         \A k \in 0 .. B - 1 : (k \in x <=> k \in u) /\ (k \in y <=> k \in v)
  PROVE  \A k \in 0 .. B - 1 : k \in W(B)!Add(x, y) <=> k \in W(C)!Add(u, v)
<1>. SUFFICES ASSUME NEW k \in 0 .. B - 1
             PROVE  k \in W(B)!Add(x, y) <=> k \in W(C)!Add(u, v)
  OBVIOUS
<1>1. Carry(x, y, k) <=> Carry(u, v, k)
  BY CarryFromBelow
<1>2. k \in W(B)!Add(x, y) <=> (((k \in x) <=> (k \in y)) <=> Carry(x, y, k))
  BY SumBit
<1>3. k \in W(C)!Add(u, v) <=> (((k \in u) <=> (k \in v)) <=> Carry(u, v, k))
  BY SumBit
<1>. QED  BY <1>1, <1>2, <1>3

(* The counter of BLAKE2s is the number of bytes in 64 bits.               *)
LEMMA CountedBlake2s ==
  ASSUME NEW c, NEW n \in Nat
  PROVE  Blake2s!Counted(c, n) = {k \in W(128)!Add(c, W(128)!OfNat(n)) : k < 64}
<1>. DEFINE x == W(64)!OfNat(n)
            y == W(128)!OfNat(n)
<1>1. Blake2s!Counted(c, n) = W(64)!Add(c, x)
  BY DEF Blake2s!Counted, Blake2s!Word2b!Add, Blake2s!Word2b!OfNat, W!Add, W!OfNat
<1>2. \A k \in 0 .. 63 : k \in x <=> k \in y
  BY DigitsAgree
<1>. HIDE DEF x, y
<1>3. \A k \in 0 .. 63 : k \in W(64)!Add(c, x) <=> k \in W(128)!Add(c, y)
  BY <1>2, LowerDigits
<1>4. W(64)!Add(c, x) \subseteq 0 .. 63 /\ W(128)!Add(c, y) \subseteq 0 .. 127
  BY SumWord
<1>5. W(64)!Add(c, x) = {k \in W(128)!Add(c, y) : k < 64}
  BY <1>3, <1>4
<1>. QED  BY <1>1, <1>5 DEF x, y

(* The counter of BLAKE2b in two words.                                    *)
Counter2b == [upper : SUBSET (0 .. 63), lower : SUBSET (0 .. 63)]

(* UINT64_MAX - n is exceeded when the lower half carries.                 *)
LEMMA RoomExceeded ==
  ASSUME NEW l \in SUBSET (0 .. 63), NEW o \in SUBSET (0 .. 63)
  PROVE  Blake2b!Less((0 .. 63) \ o, l) <=> Carry(l, o, 64)
<1>. DEFINE room == (0 .. 63) \ o
<1>1. \A j : j \in Blake2b!Xor(room, l) <=> j \in 0 .. 63 /\ (j \in l <=> j \in o)
  BY DEF Blake2b!Xor
<1>2. l \ room = l \cap o
  OBVIOUS
<1>3. Blake2b!Less(room, l) <=> \E m \in l \cap o : \A j \in 0 .. 63 : (j \in l <=> j \in o) => j <= m
  BY <1>1, <1>2 DEF Blake2b!Less
<1>4. Carry(l, o, 64) <=> \E m \in 0 .. 63 : m \in l /\ m \in o /\ \A j \in m + 1 .. 63 : (j \in l) # (j \in o)
  BY DEF Carry
<1>. QED  BY <1>3, <1>4

(* The two halves of the counter of BLAKE2b are the number of bytes.       *)
LEMMA CountedBlake2b ==
  ASSUME NEW c \in Counter2b, NEW n \in 0 .. 128
  PROVE  /\ Blake2b!Counted(c, n) \in Counter2b
         /\ Blake2b!Total(Blake2b!Counted(c, n)) = W(128)!Add(Blake2b!Total(c), W(128)!OfNat(n))
<1>. DEFINE o == W(64)!OfNat(n)
            oo == W(128)!OfNat(n)
            l == c.lower
            u == c.upper
            tot == Blake2b!Total(c)
            l1 == W(64)!Add(l, o)
            u1 == IF Carry(l, o, 64) THEN W(64)!Add(u, {0}) ELSE u
<1>1. o \in SUBSET (0 .. 63) /\ l \in SUBSET (0 .. 63) /\ u \in SUBSET (0 .. 63)
  <2>1. o \subseteq 0 .. 64 - 1
    BY DigitsBounded, n \in Nat, 64 \in Nat \ {0}
  <2>. HIDE DEF o
  <2>. QED  BY <2>1 DEF Counter2b
<1>2. Blake2b!Counted(c, n) = [upper |-> u1, lower |-> l1]
  <2>1. Blake2b!OfNat(n) = o /\ Blake2b!Add(l, o) = l1 /\ Blake2b!Add(u, {0}) = W(64)!Add(u, {0})
    BY DEF Blake2b!OfNat, Blake2b!Add, W!OfNat, W!Add
  <2>2. Blake2b!Counted(c, n) =
          [upper |-> IF Blake2b!Less((0 .. 63) \ o, l) THEN W(64)!Add(u, {0}) ELSE u, lower |-> l1]
    BY <2>1, Zenon DEF Blake2b!Counted
  <2>. HIDE DEF o, l, u, l1
  <2>. QED  BY <2>2, <1>1, RoomExceeded, Zenon
<1>3. l1 \in SUBSET (0 .. 63) /\ u1 \in SUBSET (0 .. 63)
  BY <1>1, SumWord
<1>4. \A k \in 0 .. 63 : k \in o <=> k \in oo
  BY DigitsAgree
<1>5. oo \subseteq 0 .. 7
  BY ShortDigits
<1>6. \A k \in 0 .. 63 : (k \in tot <=> k \in l) /\ (64 + k \in tot <=> k \in u)
  BY <1>1 DEF Blake2b!Total
<1>7. Blake2b!Total([upper |-> u1, lower |-> l1]) = l1 \cup {64 + k : k \in u1}
  BY DEF Blake2b!Total
<1>. HIDE DEF o, oo, l, u, tot, l1
<1>8. Carry(tot, oo, 64) <=> Carry(l, o, 64)
  <2>1. \A k \in 0 .. 63 : (k \in l <=> k \in tot) /\ (k \in o <=> k \in oo)
    BY <1>4, <1>6
  <2>. QED  BY <2>1, CarryFromBelow
<1>9. \A k \in 0 .. 63 : k \in l1 <=> k \in W(128)!Add(tot, oo)
  <2>1. \A k \in 0 .. 63 : (k \in l <=> k \in tot) /\ (k \in o <=> k \in oo)
    BY <1>4, <1>6
  <2>. QED  BY <2>1, LowerDigits DEF l1
<1>10. ASSUME NEW k \in 0 .. 63 PROVE k \in u1 <=> 64 + k \in W(128)!Add(tot, oo)
  <2>1. 64 + k \in W(128)!Add(tot, oo) <=> (((64 + k \in tot) <=> (64 + k \in oo)) <=> Carry(tot, oo, 64 + k))
    BY SumBit
  <2>2. CASE ~ Carry(l, o, 64)
    <3>. DEFINE S == {j \in Nat : ~ Carry(tot, oo, 64 + j)}
    <3>1. 0 \in S
      BY <2>2, <1>8
    <3>2. ASSUME NEW j \in Nat, j \in S PROVE j + 1 \in S
      <4>1. 64 + j \notin oo /\ 64 + j \in Nat
        BY <1>5
      <4>2. Carry(tot, oo, (64 + j) + 1) <=> \/ 64 + j \in tot /\ 64 + j \in oo
                                             \/ 64 + j \in tot /\ Carry(tot, oo, 64 + j)
                                             \/ 64 + j \in oo /\ Carry(tot, oo, 64 + j)
        BY <4>1, FullAdder
      <4>. QED  BY <4>1, <4>2, <3>2, (64 + j) + 1 = 64 + (j + 1)
    <3>. HIDE DEF S
    <3>3. \A j \in Nat : j \in S
      BY <3>1, <3>2, NatSet
    <3>4. ~ Carry(tot, oo, 64 + k)
      BY <3>3 DEF S
    <3>. QED  BY <2>1, <2>2, <3>4, <1>5, <1>6
  <2>3. CASE Carry(l, o, 64)
    <3>. DEFINE Same(j) == IF j = 0 THEN Carry(tot, oo, 64 + j)
                           ELSE Carry(tot, oo, 64 + j) <=> Carry(u, {0}, j)
                S == {j \in Nat : j <= 63 => Same(j)}
    <3>1. 0 \in S
      BY <2>3, <1>8
    <3>2. ASSUME NEW j \in Nat, j \in S PROVE j + 1 \in S
      <4>0. SUFFICES ASSUME j + 1 <= 63
                     PROVE  Carry(tot, oo, 64 + (j + 1)) <=> Carry(u, {0}, j + 1)
        OBVIOUS
      <4>1. 64 + j \notin oo /\ 64 + j \in Nat
        BY <1>5
      <4>2. Carry(tot, oo, (64 + j) + 1) <=> \/ 64 + j \in tot /\ 64 + j \in oo
                                             \/ 64 + j \in tot /\ Carry(tot, oo, 64 + j)
                                             \/ 64 + j \in oo /\ Carry(tot, oo, 64 + j)
        BY <4>1, FullAdder
      <4>3. Carry(u, {0}, j + 1) <=> \/ j \in u /\ j \in {0}
                                     \/ j \in u /\ Carry(u, {0}, j)
                                     \/ j \in {0} /\ Carry(u, {0}, j)
        BY FullAdder
      <4>4. 64 + j \in tot <=> j \in u
        BY <4>0, <1>6
      <4>5. ~ Carry(u, {0}, 0)
        BY NoCarryIn
      <4>6. (64 + j) + 1 = 64 + (j + 1)
        OBVIOUS
      <4>7. CASE j = 0
        BY <4>7, <4>1, <4>2, <4>3, <4>4, <4>5, <4>6, <3>2, <4>0
      <4>8. CASE j # 0
        BY <4>8, <4>1, <4>2, <4>3, <4>4, <4>6, <3>2, <4>0
      <4>. QED  BY <4>7, <4>8
    <3>. HIDE DEF S
    <3>3. \A j \in Nat : j \in S
      BY <3>1, <3>2, NatSet
    <3>4. /\ k = 0 => Carry(tot, oo, 64 + k)
          /\ k > 0 => (Carry(tot, oo, 64 + k) <=> Carry(u, {0}, k))
      BY <3>3 DEF S
    <3>5. k \in W(64)!Add(u, {0}) <=> (((k \in u) <=> (k \in {0})) <=> Carry(u, {0}, k))
      BY SumBit
    <3>6. ~ Carry(u, {0}, 0)
      BY NoCarryIn
    <3>7. (64 + k \in tot <=> k \in u) /\ 64 + k \notin oo
      BY <1>5, <1>6
    <3>8. u1 = W(64)!Add(u, {0})
      BY <2>3
    <3>9. CASE k = 0
      BY <3>9, <2>1, <3>4, <3>5, <3>6, <3>7, <3>8
    <3>10. CASE k # 0
      BY <3>10, <2>1, <3>4, <3>5, <3>7, <3>8
    <3>. QED  BY <3>9, <3>10
  <2>. QED  BY <2>2, <2>3
<1>11. W(128)!Add(tot, oo) \subseteq 0 .. 127
  BY SumWord
<1>. HIDE DEF u1
<1>12. l1 \cup {64 + k : k \in u1} = W(128)!Add(tot, oo)
  <2>1. ASSUME NEW k \in W(128)!Add(tot, oo) PROVE k \in l1 \cup {64 + j : j \in u1}
    <3>1. CASE k < 64
      BY <3>1, <2>1, <1>9, <1>11
    <3>2. CASE k >= 64
      <4>1. k - 64 \in 0 .. 63 /\ 64 + (k - 64) = k
        BY <3>2, <2>1, <1>11
      <4>2. k - 64 \in u1
        BY <4>1, <1>10, <2>1
      <4>. QED  BY <4>1, <4>2
    <3>. QED  BY <3>1, <3>2, <1>11
  <2>2. ASSUME NEW k \in u1 PROVE 64 + k \in W(128)!Add(tot, oo)
    BY <1>10, <1>3
  <2>3. l1 \subseteq W(128)!Add(tot, oo)
    BY <1>9, <1>3
  <2>. QED  BY <2>1, <2>2, <2>3
<1>13. Blake2b!Counted(c, n) \in Counter2b
  BY <1>2, <1>3 DEF Counter2b
<1>. QED  BY <1>2, <1>7, <1>12, <1>13 DEF tot, oo

-----------------------------------------------------------------------------
(* Bytes and words on a host.                                              *)

(* The conversions between bytes and words, and the host they depend on.   *)
E == INSTANCE Endian

Byte == SUBSET (0 .. 7)

(* The word whose byte k, counted from the least significant, is b[k].     *)
Spelled(n, b) == {q \in 0 .. 8 * n - 1 : q % 8 \in b[q \div 8]}
(* The same bytes the other way round.                                     *)
Reversed(n, b) == [k \in 0 .. n - 1 |-> b[n - 1 - k]]

(* Bit p of byte k.                                                        *)
LEMMA Positions ==
  ASSUME NEW k \in Nat, NEW p \in 0 .. 7
  PROVE  (8 * k + p) % 8 = p /\ (8 * k + p) \div 8 = k
OBVIOUS

(* Every bit is in a byte.                                                 *)
LEMMA Place ==
  ASSUME NEW n \in Nat, NEW q \in 0 .. 8 * n - 1
  PROVE  q \div 8 \in 0 .. n - 1 /\ q % 8 \in 0 .. 7 /\ q = 8 * (q \div 8) + (q % 8)
OBVIOUS

(* A spelled word has the bytes it was spelled with.                       *)
LEMMA ByteOfSpelled ==
  ASSUME NEW n \in Nat, NEW b \in [0 .. n - 1 -> Byte], NEW k \in 0 .. n - 1
  PROVE  E!ByteAt(Spelled(n, b), k) = b[k]
<1>1. ASSUME NEW p \in 0 .. 7
      PROVE  8 * k + p \in Spelled(n, b) <=> p \in b[k]
  BY Positions DEF Spelled
<1>. QED  BY <1>1 DEF E!ByteAt, Byte

(* Bytes that are shifted to their places and joined spell the word.       *)
LEMMA Joined ==
  ASSUME NEW n \in Nat, NEW b \in [0 .. n - 1 -> Byte]
  PROVE  UNION {{8 * k + p : p \in b[k]} : k \in 0 .. n - 1} = Spelled(n, b)
<1>. DEFINE U == UNION {{8 * k + p : p \in b[k]} : k \in 0 .. n - 1}
<1>1. ASSUME NEW q \in U PROVE q \in Spelled(n, b)
  <2>1. PICK k \in 0 .. n - 1 : \E p \in b[k] : q = 8 * k + p
    OBVIOUS
  <2>2. PICK p \in 0 .. 7 : p \in b[k] /\ q = 8 * k + p
    BY <2>1 DEF Byte
  <2>. QED  BY <2>2, Positions DEF Spelled
<1>2. ASSUME NEW q \in Spelled(n, b) PROVE q \in U
  <2>1. q \in 0 .. 8 * n - 1 /\ q % 8 \in b[q \div 8]
    BY DEF Spelled
  <2>2. PICK k \in 0 .. n - 1, p \in 0 .. 7 : q = 8 * k + p /\ p \in b[k]
    BY <2>1, Place
  <2>. QED  BY <2>2
<1>. QED  BY <1>1, <1>2

(* Reversed bytes are bytes.                                               *)
LEMMA ReversedType ==
  ASSUME NEW n \in Nat, NEW b \in [0 .. n - 1 -> Byte]
  PROVE  Reversed(n, b) \in [0 .. n - 1 -> Byte] /\ Reversed(n, Reversed(n, b)) = b
BY DEF Reversed

(* MK takes the most significant byte first.                               *)
LEMMA Made ==
  ASSUME NEW n \in Nat, NEW b \in [0 .. n - 1 -> Byte], NEW s \in Seq(Byte),
         Len(s) = n, \A k \in 1 .. n : s[k] = b[n - k]
  PROVE  E!MK(s) = Spelled(n, b)
<1>1. E!MK(s) = UNION {{8 * (n - k) + p : p \in s[k]} : k \in 1 .. n}
  BY DEF E!MK
<1>. DEFINE U == UNION {{8 * (n - k) + p : p \in s[k]} : k \in 1 .. n}
            V == UNION {{8 * k + p : p \in b[k]} : k \in 0 .. n - 1}
<1>2. ASSUME NEW q \in U PROVE q \in V
  <2>1. PICK k \in 1 .. n : \E p \in s[k] : q = 8 * (n - k) + p
    OBVIOUS
  <2>2. n - k \in 0 .. n - 1 /\ s[k] = b[n - k]
    BY <2>1
  <2>. QED  BY <2>1, <2>2
<1>3. ASSUME NEW q \in V PROVE q \in U
  <2>1. PICK k \in 0 .. n - 1 : \E p \in b[k] : q = 8 * k + p
    OBVIOUS
  <2>2. n - k \in 1 .. n /\ n - (n - k) = k /\ s[n - k] = b[n - (n - k)]
    OBVIOUS
  <2>3. \E p \in s[n - k] : q = 8 * (n - (n - k)) + p
    BY <2>1, <2>2
  <2>. QED  BY <2>2, <2>3
<1>4. U = V
  BY <1>2, <1>3
<1>. QED  BY <1>1, <1>4, Joined

(* bswap of the platform reverses the bytes.                               *)
LEMMA PlatformSwapped ==
  ASSUME NEW n \in Nat, NEW b \in [0 .. n - 1 -> Byte]
  PROVE  E!PlatformSwap(n, Spelled(n, b)) = Spelled(n, Reversed(n, b))
<1>. DEFINE c == Reversed(n, b)
            U == UNION {{8 * (n - 1 - k) + p : p \in b[k]} : k \in 0 .. n - 1}
            V == UNION {{8 * k + p : p \in c[k]} : k \in 0 .. n - 1}
<1>1. E!PlatformSwap(n, Spelled(n, b)) = U
  <2>1. \A k \in 0 .. n - 1 : E!ByteAt(Spelled(n, b), k) = b[k]
    BY ByteOfSpelled
  <2>. QED  BY <2>1 DEF E!PlatformSwap
<1>2. U \subseteq V
  <2>1. SUFFICES ASSUME NEW k \in 0 .. n - 1, NEW p \in b[k]
                 PROVE  8 * (n - 1 - k) + p \in V
    OBVIOUS
  <2>2. n - 1 - k \in 0 .. n - 1 /\ p \in c[n - 1 - k]
    BY DEF Reversed
  <2>. QED  BY <2>2
<1>3. V \subseteq U
  <2>1. SUFFICES ASSUME NEW k \in 0 .. n - 1, NEW p \in c[k]
                 PROVE  8 * k + p \in U
    OBVIOUS
  <2>2. n - 1 - k \in 0 .. n - 1 /\ p \in b[n - 1 - k] /\ 8 * k + p = 8 * (n - 1 - (n - 1 - k)) + p
    BY DEF Reversed
  <2>. QED  BY <2>2
<1>4. V = Spelled(n, c)
  BY ReversedType, Joined
<1>. QED  BY <1>1, <1>2, <1>3, <1>4

(* So do the portable ones, two bytes at a time.                           *)
LEMMA Swapped ==
  ASSUME NEW n \in Nat, NEW b \in [0 .. n - 1 -> Byte], NEW j \in 0 .. n - 1, NEW k \in 0 .. n - 1
  PROVE  E!SWAP(Spelled(n, b), j, k) = {8 * k + p : p \in b[j]} \cup {8 * j + p : p \in b[k]}
BY ByteOfSpelled DEF E!SWAP

(* raaz_bswap32 reverses the bytes of a word.                              *)
LEMMA Swapped32 ==
  ASSUME NEW b \in [0 .. 3 -> Byte], NEW h
  PROVE  E!raaz_bswap32(h, Spelled(4, b)) = Spelled(4, Reversed(4, b))
<1>. DEFINE c == Reversed(4, b)
            P(k) == {8 * k + p : p \in c[k]}
<1>1. 4 \in Nat /\ b \in [0 .. 4 - 1 -> Byte] /\ c \in [0 .. 4 - 1 -> Byte]
  BY DEF Reversed
<1>2. E!PlatformSwap(4, Spelled(4, b)) = Spelled(4, c)
  BY ONLY <1>1, PlatformSwapped
<1>3. UNION {P(k) : k \in 0 .. 4 - 1} = Spelled(4, c)
  BY ONLY <1>1, Joined
<1>4. UNION {P(k) : k \in 0 .. 4 - 1} = P(0) \cup P(3) \cup P(1) \cup P(2)
  <2>. HIDE DEF P
  <2>1. 0 .. 4 - 1 = {0, 1, 2, 3}
    OBVIOUS
  <2>. QED  BY <2>1
<1>5. \A j, k \in 0 .. 4 - 1 :
        E!SWAP(Spelled(4, b), j, k) = {8 * k + p : p \in b[j]} \cup {8 * j + p : p \in b[k]}
  BY ONLY <1>1, Swapped
<1>6. c[0] = b[3] /\ c[1] = b[2] /\ c[2] = b[1] /\ c[3] = b[0]
  BY DEF Reversed
<1>7. E!SWAP(Spelled(4, b), 0, 3) = P(3) \cup P(0)
  <2>1. 0 \in 0 .. 4 - 1 /\ 3 \in 0 .. 4 - 1
    OBVIOUS
  <2>. QED  BY ONLY <1>5, <1>6, <2>1, Zenon
<1>8. E!SWAP(Spelled(4, b), 1, 2) = P(2) \cup P(1)
  <2>1. 1 \in 0 .. 4 - 1 /\ 2 \in 0 .. 4 - 1
    OBVIOUS
  <2>. QED  BY ONLY <1>5, <1>6, <2>1, Zenon
<1>. HIDE DEF P
<1>9. E!SWAP(Spelled(4, b), 0, 3) \cup E!SWAP(Spelled(4, b), 1, 2) = Spelled(4, c)
  BY <1>3, <1>4, <1>7, <1>8
<1>. QED  BY <1>2, <1>9, Zenon DEF E!raaz_bswap32

(* raaz_bswap64 reverses the bytes of a word.                              *)
LEMMA Swapped64 ==
  ASSUME NEW b \in [0 .. 7 -> Byte], NEW h
  PROVE  E!raaz_bswap64(h, Spelled(8, b)) = Spelled(8, Reversed(8, b))
<1>. DEFINE c == Reversed(8, b)
            P(k) == {8 * k + p : p \in c[k]}
<1>1. 8 \in Nat /\ b \in [0 .. 8 - 1 -> Byte] /\ c \in [0 .. 8 - 1 -> Byte]
  BY DEF Reversed
<1>2. E!PlatformSwap(8, Spelled(8, b)) = Spelled(8, c)
  BY ONLY <1>1, PlatformSwapped
<1>3. UNION {P(k) : k \in 0 .. 8 - 1} = Spelled(8, c)
  BY ONLY <1>1, Joined
<1>4. UNION {P(k) : k \in 0 .. 8 - 1} =
        (P(0) \cup P(7)) \cup (P(1) \cup P(6)) \cup (P(2) \cup P(5)) \cup (P(3) \cup P(4))
  <2>. HIDE DEF P
  <2>1. 0 .. 8 - 1 = {0, 1, 2, 3, 4, 5, 6, 7}
    OBVIOUS
  <2>. QED  BY <2>1
<1>5. \A j, k \in 0 .. 8 - 1 :
        E!SWAP(Spelled(8, b), j, k) = {8 * k + p : p \in b[j]} \cup {8 * j + p : p \in b[k]}
  BY ONLY <1>1, Swapped
<1>6. \A k \in 0 .. 7 : k \in 0 .. 8 - 1 /\ c[k] = b[7 - k]
  BY DEF Reversed
<1>7. /\ E!SWAP(Spelled(8, b), 0, 7) = P(7) \cup P(0)
      /\ E!SWAP(Spelled(8, b), 1, 6) = P(6) \cup P(1)
      /\ E!SWAP(Spelled(8, b), 2, 5) = P(5) \cup P(2)
      /\ E!SWAP(Spelled(8, b), 3, 4) = P(4) \cup P(3)
  <2>1. /\ {0, 1, 2, 3, 4, 5, 6, 7} \subseteq 0 .. 8 - 1
        /\ c[0] = b[7] /\ c[1] = b[6] /\ c[2] = b[5] /\ c[3] = b[4]
        /\ c[4] = b[3] /\ c[5] = b[2] /\ c[6] = b[1] /\ c[7] = b[0]
    BY <1>6
  <2>2. 0 \in 0 .. 8 - 1 /\ 1 \in 0 .. 8 - 1 /\ 2 \in 0 .. 8 - 1 /\ 3 \in 0 .. 8 - 1
        /\ 4 \in 0 .. 8 - 1 /\ 5 \in 0 .. 8 - 1 /\ 6 \in 0 .. 8 - 1 /\ 7 \in 0 .. 8 - 1
    OBVIOUS
  <2>3. E!SWAP(Spelled(8, b), 0, 7) = P(7) \cup P(0)
    <3>1. 0 \in 0 .. 8 - 1 /\ 7 \in 0 .. 8 - 1 /\ c[0] = b[7] /\ c[7] = b[0]
      BY ONLY <2>1, <2>2
    <3>. QED  BY ONLY <1>5, <3>1, Zenon
  <2>4. E!SWAP(Spelled(8, b), 1, 6) = P(6) \cup P(1)
    <3>1. 1 \in 0 .. 8 - 1 /\ 6 \in 0 .. 8 - 1 /\ c[1] = b[6] /\ c[6] = b[1]
      BY ONLY <2>1, <2>2
    <3>. QED  BY ONLY <1>5, <3>1, Zenon
  <2>5. E!SWAP(Spelled(8, b), 2, 5) = P(5) \cup P(2)
    <3>1. 2 \in 0 .. 8 - 1 /\ 5 \in 0 .. 8 - 1 /\ c[2] = b[5] /\ c[5] = b[2]
      BY ONLY <2>1, <2>2
    <3>. QED  BY ONLY <1>5, <3>1, Zenon
  <2>6. E!SWAP(Spelled(8, b), 3, 4) = P(4) \cup P(3)
    <3>1. 3 \in 0 .. 8 - 1 /\ 4 \in 0 .. 8 - 1 /\ c[3] = b[4] /\ c[4] = b[3]
      BY ONLY <2>1, <2>2
    <3>. QED  BY ONLY <1>5, <3>1, Zenon
  <2>. QED  BY <2>3, <2>4, <2>5, <2>6, Zenon
<1>. HIDE DEF P
<1>8. E!SWAP(Spelled(8, b), 0, 7) \cup E!SWAP(Spelled(8, b), 1, 6)
        \cup E!SWAP(Spelled(8, b), 2, 5) \cup E!SWAP(Spelled(8, b), 3, 4) = Spelled(8, c)
  BY <1>3, <1>4, <1>7
<1>. QED  BY <1>2, <1>8, Zenon DEF E!raaz_bswap64

(* The bytes of a word that comes as the bytes s, the first being the      *)
(* least, or the most, significant.                                        *)
FirstLeast(n, s) == [k \in 0 .. n - 1 |-> s[k + 1]]
FirstMost(n, s)  == [k \in 0 .. n - 1 |-> s[n - k]]

(* The two orders of bytes are the reverse of one another.                 *)
LEMMA Orders ==
  ASSUME NEW n \in Nat, NEW s \in Seq(Byte), Len(s) = n
  PROVE  /\ FirstLeast(n, s) \in [0 .. n - 1 -> Byte]
         /\ FirstMost(n, s) \in [0 .. n - 1 -> Byte]
         /\ Reversed(n, FirstLeast(n, s)) = FirstMost(n, s)
         /\ Reversed(n, FirstMost(n, s)) = FirstLeast(n, s)
<1>1. \A k \in 1 .. n : s[k] \in Byte
  OBVIOUS
<1>2. \A k \in 0 .. n - 1 : s[k + 1] \in Byte /\ s[n - k] \in Byte
  BY <1>1
<1>3. /\ FirstLeast(n, s) \in [0 .. n - 1 -> Byte]
      /\ FirstMost(n, s) \in [0 .. n - 1 -> Byte]
  BY <1>2 DEF FirstLeast, FirstMost
<1>4. \A k \in 0 .. n - 1 : n - 1 - k \in 0 .. n - 1 /\ (n - 1 - k) + 1 = n - k
                            /\ n - (n - 1 - k) = k + 1
  OBVIOUS
<1>. QED  BY <1>3, <1>4 DEF FirstLeast, FirstMost, Reversed

(* What a host reads from memory depends on its own order of bytes.        *)
LEMMA Read ==
  ASSUME NEW n \in Nat, NEW s \in Seq(Byte), Len(s) = n, NEW h \in E!Hosts
  PROVE  E!ReadWord(h, s) =
           Spelled(n, IF h.order = "little" THEN FirstLeast(n, s) ELSE FirstMost(n, s))
<1>. DEFINE r == [k \in 1 .. n |-> s[n + 1 - k]]
<1>1. r \in Seq(Byte) /\ Len(r) = n
  <2>1. \A k \in 1 .. n : s[n + 1 - k] \in Byte
    OBVIOUS
  <2>. QED  BY <2>1
<1>2. E!MK(r) = Spelled(n, FirstLeast(n, s))
  <2>1. \A k \in 1 .. n : r[k] = FirstLeast(n, s)[n - k]
    BY DEF FirstLeast
  <2>2. FirstLeast(n, s) \in [0 .. n - 1 -> Byte]
    BY Orders
  <2>. HIDE DEF r
  <2>. QED  BY <1>1, <2>1, <2>2, Made
<1>3. E!MK(s) = Spelled(n, FirstMost(n, s))
  <2>1. \A k \in 1 .. n : s[k] = FirstMost(n, s)[n - k]
    BY DEF FirstMost
  <2>2. FirstMost(n, s) \in [0 .. n - 1 -> Byte]
    BY Orders
  <2>. QED  BY <2>1, <2>2, Made
<1>. QED  BY <1>2, <1>3 DEF E!ReadWord

(* The conversions that are written with shifts alone do not.              *)
LEMMA Portable ==
  ASSUME NEW n \in Nat, NEW b \in [0 .. n - 1 -> Byte], NEW h \in E!Hosts
  PROVE  /\ E!PortableBE(h, n, Spelled(n, b)) =
              Spelled(n, IF h.order = "little" THEN Reversed(n, b) ELSE b)
         /\ E!PortableLE(h, n, Spelled(n, b)) =
              Spelled(n, IF h.order = "little" THEN b ELSE Reversed(n, b))
<1>. DEFINE s == [k \in 1 .. n |-> IF h.order = "little" THEN b[k - 1] ELSE b[n - k]]
            r == [k \in 1 .. n |-> s[n + 1 - k]]
<1>1. E!BytesOf(h, n, Spelled(n, b)) = s
  <2>1. \A k \in 1 .. n : k - 1 \in 0 .. n - 1 /\ n - k \in 0 .. n - 1
    OBVIOUS
  <2>2. \A k \in 0 .. n - 1 : E!ByteAt(Spelled(n, b), k) = b[k]
    BY ByteOfSpelled
  <2>. QED  BY <2>1, <2>2 DEF E!BytesOf
<1>2. s \in Seq(Byte) /\ Len(s) = n /\ r \in Seq(Byte) /\ Len(r) = n
  <2>1. \A k \in 1 .. n : k - 1 \in 0 .. n - 1 /\ n - k \in 0 .. n - 1
                          /\ n + 1 - k \in 1 .. n
    OBVIOUS
  <2>. QED  BY <2>1
<1>3. Reversed(n, b) \in [0 .. n - 1 -> Byte]
  BY ReversedType
<1>4. CASE h.order = "little"
  <2>1. \A k \in 1 .. n : s[k] = Reversed(n, b)[n - k] /\ r[k] = b[n - k]
    BY <1>4 DEF Reversed
  <2>2. E!MK(s) = Spelled(n, Reversed(n, b)) /\ E!MK(r) = Spelled(n, b)
    <3>. HIDE DEF s, r
    <3>1. \A k \in 1 .. n : s[k] = Reversed(n, b)[n - k]
      BY <2>1
    <3>2. \A k \in 1 .. n : r[k] = b[n - k]
      BY <2>1
    <3>3. E!MK(s) = Spelled(n, Reversed(n, b))
      BY <1>2, <1>3, <3>1, Made
    <3>4. E!MK(r) = Spelled(n, b)
      BY <1>2, <3>2, Made
    <3>. QED  BY <3>3, <3>4
  <2>. QED  BY <1>1, <1>4, <2>2 DEF E!PortableBE, E!PortableLE
<1>5. CASE h.order # "little"
  <2>1. \A k \in 1 .. n : s[k] = b[n - k] /\ r[k] = Reversed(n, b)[n - k]
    BY <1>5 DEF Reversed
  <2>2. E!MK(s) = Spelled(n, b) /\ E!MK(r) = Spelled(n, Reversed(n, b))
    <3>. HIDE DEF s, r
    <3>1. \A k \in 1 .. n : r[k] = Reversed(n, b)[n - k]
      BY <2>1
    <3>2. \A k \in 1 .. n : s[k] = b[n - k]
      BY <2>1
    <3>3. E!MK(r) = Spelled(n, Reversed(n, b))
      BY <1>2, <1>3, <3>1, Made
    <3>4. E!MK(s) = Spelled(n, b)
      BY <1>2, <3>2, Made
    <3>. QED  BY <3>3, <3>4
  <2>. QED  BY <1>1, <1>5, <2>2 DEF E!PortableBE, E!PortableLE
<1>. QED  BY <1>4, <1>5

(* On every host, whichever swap is compiled, four bytes become the word   *)
(* that starts with the most, or the least, significant of them.           *)
LEMMA Loaded32 ==
  ASSUME NEW s \in Seq(Byte), Len(s) = 4, NEW h \in E!Hosts
  PROVE  /\ E!raaz_tobe32(h, E!ReadWord(h, s)) = Spelled(4, FirstMost(4, s))
         /\ E!raaz_tole32(h, E!ReadWord(h, s)) = Spelled(4, FirstLeast(4, s))
<1>. DEFINE L == FirstLeast(4, s)
            M == FirstMost(4, s)
<1>1. 4 \in Nat /\ h.order \in {"little", "big"} /\ h.gnuc \in BOOLEAN
  BY DEF E!Hosts
<1>2. /\ L \in [0 .. 4 - 1 -> Byte] /\ M \in [0 .. 4 - 1 -> Byte]
      /\ Reversed(4, L) = M /\ Reversed(4, M) = L
  BY <1>1, Orders, Zenon
<1>3. E!ReadWord(h, s) = Spelled(4, IF h.order = "little" THEN L ELSE M)
  BY <1>1, Read, Zenon
<1>4. L \in [0 .. 3 -> Byte] /\ M \in [0 .. 3 -> Byte]
  BY <1>2
<1>5. E!raaz_bswap32(h, Spelled(4, L)) = Spelled(4, M)
      /\ E!raaz_bswap32(h, Spelled(4, M)) = Spelled(4, L)
  BY <1>2, <1>4, Swapped32, Zenon
<1>6. /\ E!PortableBE(h, 4, Spelled(4, L)) = Spelled(4, IF h.order = "little" THEN M ELSE L)
      /\ E!PortableLE(h, 4, Spelled(4, L)) = Spelled(4, IF h.order = "little" THEN L ELSE M)
      /\ E!PortableBE(h, 4, Spelled(4, M)) = Spelled(4, IF h.order = "little" THEN L ELSE M)
      /\ E!PortableLE(h, 4, Spelled(4, M)) = Spelled(4, IF h.order = "little" THEN M ELSE L)
  BY <1>1, <1>2, Portable, Zenon
<1>7. /\ E!raaz_tobe32(h, E!ReadWord(h, s)) = Spelled(4, M)
      /\ E!raaz_tole32(h, E!ReadWord(h, s)) = Spelled(4, L)
  <2>. HIDE DEF L, M
  <2>1. CASE h.order = "little"
    BY <1>3, <1>5, <1>6, <2>1 DEF E!raaz_tobe32, E!raaz_tole32
  <2>2. CASE h.order = "big"
    BY <1>3, <1>5, <1>6, <2>2 DEF E!raaz_tobe32, E!raaz_tole32
  <2>. QED  BY <1>1, <2>1, <2>2
<1>. QED  BY <1>7

(* The same for words of 64 bits.                                          *)
LEMMA Loaded64 ==
  ASSUME NEW s \in Seq(Byte), Len(s) = 8, NEW h \in E!Hosts
  PROVE  /\ E!raaz_tobe64(h, E!ReadWord(h, s)) = Spelled(8, FirstMost(8, s))
         /\ E!raaz_tole64(h, E!ReadWord(h, s)) = Spelled(8, FirstLeast(8, s))
<1>. DEFINE L == FirstLeast(8, s)
            M == FirstMost(8, s)
<1>1. 8 \in Nat /\ h.order \in {"little", "big"} /\ h.gnuc \in BOOLEAN
  BY DEF E!Hosts
<1>2. /\ L \in [0 .. 8 - 1 -> Byte] /\ M \in [0 .. 8 - 1 -> Byte]
      /\ Reversed(8, L) = M /\ Reversed(8, M) = L
  BY <1>1, Orders, Zenon
<1>3. E!ReadWord(h, s) = Spelled(8, IF h.order = "little" THEN L ELSE M)
  BY <1>1, Read, Zenon
<1>4. L \in [0 .. 7 -> Byte] /\ M \in [0 .. 7 -> Byte]
  BY <1>2
<1>5. E!raaz_bswap64(h, Spelled(8, L)) = Spelled(8, M)
      /\ E!raaz_bswap64(h, Spelled(8, M)) = Spelled(8, L)
  BY <1>2, <1>4, Swapped64, Zenon
<1>6. /\ E!PortableBE(h, 8, Spelled(8, L)) = Spelled(8, IF h.order = "little" THEN M ELSE L)
      /\ E!PortableLE(h, 8, Spelled(8, L)) = Spelled(8, IF h.order = "little" THEN L ELSE M)
      /\ E!PortableBE(h, 8, Spelled(8, M)) = Spelled(8, IF h.order = "little" THEN L ELSE M)
      /\ E!PortableLE(h, 8, Spelled(8, M)) = Spelled(8, IF h.order = "little" THEN M ELSE L)
  BY <1>1, <1>2, Portable, Zenon
<1>7. /\ E!raaz_tobe64(h, E!ReadWord(h, s)) = Spelled(8, M)
      /\ E!raaz_tole64(h, E!ReadWord(h, s)) = Spelled(8, L)
  <2>. HIDE DEF L, M
  <2>1. CASE h.order = "little"
    BY <1>3, <1>5, <1>6, <2>1 DEF E!raaz_tobe64, E!raaz_tole64
  <2>2. CASE h.order = "big"
    BY <1>3, <1>5, <1>6, <2>2 DEF E!raaz_tobe64, E!raaz_tole64
  <2>. QED  BY <1>1, <2>1, <2>2
<1>. QED  BY <1>7

(* An element of a sequence over a set is in the set.                      *)
LEMMA Elements ==
  ASSUME NEW S, NEW s \in Seq(S)
  PROVE  \A k \in 1 .. Len(s) : s[k] \in S
OBVIOUS

(* The message word of BLAKE2 is spelled least significant byte first.     *)
LEMMA JoinedLeast ==
  ASSUME NEW n \in Nat, NEW s \in Seq(Byte), Len(s) = n
  PROVE  UNION {{8 * k + p : p \in s[k + 1]} : k \in 0 .. n - 1} = Spelled(n, FirstLeast(n, s))
<1>1. UNION {{8 * k + p : p \in FirstLeast(n, s)[k]} : k \in 0 .. n - 1} =
        Spelled(n, FirstLeast(n, s))
  BY Orders, Joined
<1>. DEFINE A(k) == {8 * k + p : p \in s[k + 1]}
            B(k) == {8 * k + p : p \in FirstLeast(n, s)[k]}
<1>2. \A k \in 0 .. n - 1 : A(k) = B(k)
  BY DEF FirstLeast
<1>3. UNION {B(k) : k \in 0 .. n - 1} = Spelled(n, FirstLeast(n, s))
  BY <1>1
<1>4. UNION {A(k) : k \in 0 .. n - 1} = UNION {B(k) : k \in 0 .. n - 1}
  <2>. HIDE DEF A, B
  <2>. QED  BY <1>2
<1>. QED  BY <1>3, <1>4

(* The message word of SHA is spelled most significant byte first.         *)
LEMMA JoinedMost ==
  ASSUME NEW n \in Nat, NEW s \in Seq(Byte), Len(s) = n
  PROVE  UNION {{8 * (n - 1 - k) + p : p \in s[k + 1]} : k \in 0 .. n - 1} =
           Spelled(n, FirstMost(n, s))
<1>. DEFINE c == FirstMost(n, s)
            U == UNION {{8 * (n - 1 - k) + p : p \in s[k + 1]} : k \in 0 .. n - 1}
            V == UNION {{8 * k + p : p \in c[k]} : k \in 0 .. n - 1}
<1>1. V = Spelled(n, c)
  BY Orders, Joined
<1>2. U \subseteq V
  <2>1. SUFFICES ASSUME NEW k \in 0 .. n - 1, NEW p \in s[k + 1]
                 PROVE  8 * (n - 1 - k) + p \in V
    OBVIOUS
  <2>2. n - 1 - k \in 0 .. n - 1 /\ p \in c[n - 1 - k]
    BY DEF FirstMost
  <2>. QED  BY <2>2
<1>3. V \subseteq U
  <2>1. SUFFICES ASSUME NEW k \in 0 .. n - 1, NEW p \in c[k]
                 PROVE  8 * k + p \in U
    OBVIOUS
  <2>2. n - 1 - k \in 0 .. n - 1 /\ p \in s[(n - 1 - k) + 1]
        /\ 8 * k + p = 8 * (n - 1 - (n - 1 - k)) + p
    BY DEF FirstMost
  <2>. QED  BY <2>2
<1>. QED  BY <1>1, <1>2, <1>3

(* Word q of a block of bytes, in the two orders.                          *)
WordMost(n, b, q) ==
  UNION {{8 * (n - 1 - k) + p : p \in b[n * q + k + 1]} : k \in 0 .. n - 1}
WordLeast(n, b, q) ==
  UNION {{8 * k + p : p \in b[n * q + k + 1]} : k \in 0 .. n - 1}

(* Word q of a block: the standard joins the bytes, the code reads them.   *)
LEMMA BlockWord32 ==
  ASSUME NEW b \in Seq(Byte), Len(b) = 64, NEW q \in 0 .. 15, NEW h \in E!Hosts
  PROVE  /\ E!raaz_tobe32(h, E!ReadWords(h, 4, b)[q]) = WordMost(4, b, q)
         /\ E!raaz_tole32(h, E!ReadWords(h, 4, b)[q]) = WordLeast(4, b, q)
<1>. DEFINE s == SubSeq(b, 4 * q + 1, 4 * q + 4)
<1>1. /\ s \in Seq(Byte) /\ Len(s) = 4
      /\ \A k \in 0 .. 4 - 1 : s[k + 1] = b[4 * q + k + 1]
  <2>1. 4 * q + 1 \in 1 .. 64 /\ 4 * q + 4 \in 1 .. 64
    OBVIOUS
  <2>2. s = [k \in 1 .. 4 |-> b[4 * q + k]]
    BY <2>1
  <2>. HIDE DEF s
  <2>3. \A k \in 1 .. 4 : b[4 * q + k] \in Byte
    <3>1. \A k \in 1 .. 64 : b[k] \in Byte
      <4>1. \A k \in 1 .. Len(b) : b[k] \in Byte
        BY ONLY Elements, b \in Seq(Byte), Zenon
      <4>. QED  BY ONLY <4>1, Len(b) = 64
    <3>2. \A k \in 1 .. 4 : 4 * q + k \in 1 .. 64
      OBVIOUS
    <3>. QED  BY ONLY <3>1, <3>2, Zenon
  <2>. QED  BY <2>2, <2>3
<1>2. E!ReadWords(h, 4, b)[q] = E!ReadWord(h, s)
  <2>1. q \in 0 .. (Len(b) \div 4) - 1
    OBVIOUS
  <2>. QED  BY <2>1 DEF E!ReadWords
<1>. HIDE DEF s
<1>. DEFINE A(k) == {8 * (4 - 1 - k) + p : p \in b[4 * q + k + 1]}
            B(k) == {8 * (4 - 1 - k) + p : p \in s[k + 1]}
            C(k) == {8 * k + p : p \in b[4 * q + k + 1]}
            D(k) == {8 * k + p : p \in s[k + 1]}
<1>3. \A k \in 0 .. 4 - 1 : A(k) = B(k) /\ C(k) = D(k)
  BY ONLY <1>1, Zenon
<1>4. /\ UNION {A(k) : k \in 0 .. 4 - 1} = UNION {B(k) : k \in 0 .. 4 - 1}
      /\ UNION {C(k) : k \in 0 .. 4 - 1} = UNION {D(k) : k \in 0 .. 4 - 1}
  <2>. HIDE DEF A, B, C, D
  <2>. QED  BY <1>3
<1>5. 4 \in Nat
  OBVIOUS
<1>6. UNION {{8 * (4 - 1 - k) + p : p \in s[k + 1]} : k \in 0 .. 4 - 1} = Spelled(4, FirstMost(4, s))
  BY ONLY <1>1, <1>5, JoinedMost, Zenon
<1>7. UNION {{8 * k + p : p \in s[k + 1]} : k \in 0 .. 4 - 1} = Spelled(4, FirstLeast(4, s))
  BY ONLY <1>1, <1>5, JoinedLeast, Zenon
<1>8. /\ E!raaz_tobe32(h, E!ReadWord(h, s)) = Spelled(4, FirstMost(4, s))
      /\ E!raaz_tole32(h, E!ReadWord(h, s)) = Spelled(4, FirstLeast(4, s))
  BY <1>1, Loaded32, Zenon
<1>. QED  BY ONLY <1>2, <1>4, <1>6, <1>7, <1>8, Zenon DEF WordMost, WordLeast

(* The same for words of 64 bits.                                          *)
LEMMA BlockWord64 ==
  ASSUME NEW b \in Seq(Byte), Len(b) = 128, NEW q \in 0 .. 15, NEW h \in E!Hosts
  PROVE  /\ E!raaz_tobe64(h, E!ReadWords(h, 8, b)[q]) = WordMost(8, b, q)
         /\ E!raaz_tole64(h, E!ReadWords(h, 8, b)[q]) = WordLeast(8, b, q)
<1>. DEFINE s == SubSeq(b, 8 * q + 1, 8 * q + 8)
<1>1. /\ s \in Seq(Byte) /\ Len(s) = 8
      /\ \A k \in 0 .. 8 - 1 : s[k + 1] = b[8 * q + k + 1]
  <2>1. 8 * q + 1 \in 1 .. 128 /\ 8 * q + 8 \in 1 .. 128
    OBVIOUS
  <2>2. s = [k \in 1 .. 8 |-> b[8 * q + k]]
    BY <2>1
  <2>. HIDE DEF s
  <2>3. \A k \in 1 .. 8 : b[8 * q + k] \in Byte
    <3>1. \A k \in 1 .. 128 : b[k] \in Byte
      <4>1. \A k \in 1 .. Len(b) : b[k] \in Byte
        BY ONLY Elements, b \in Seq(Byte), Zenon
      <4>. QED  BY ONLY <4>1, Len(b) = 128
    <3>2. \A k \in 1 .. 8 : 8 * q + k \in 1 .. 128
      OBVIOUS
    <3>. QED  BY ONLY <3>1, <3>2, Zenon
  <2>. QED  BY <2>2, <2>3
<1>2. E!ReadWords(h, 8, b)[q] = E!ReadWord(h, s)
  <2>1. q \in 0 .. (Len(b) \div 8) - 1
    OBVIOUS
  <2>. QED  BY <2>1 DEF E!ReadWords
<1>. HIDE DEF s
<1>. DEFINE A(k) == {8 * (8 - 1 - k) + p : p \in b[8 * q + k + 1]}
            B(k) == {8 * (8 - 1 - k) + p : p \in s[k + 1]}
            C(k) == {8 * k + p : p \in b[8 * q + k + 1]}
            D(k) == {8 * k + p : p \in s[k + 1]}
<1>3. \A k \in 0 .. 8 - 1 : A(k) = B(k) /\ C(k) = D(k)
  BY ONLY <1>1, Zenon
<1>4. /\ UNION {A(k) : k \in 0 .. 8 - 1} = UNION {B(k) : k \in 0 .. 8 - 1}
      /\ UNION {C(k) : k \in 0 .. 8 - 1} = UNION {D(k) : k \in 0 .. 8 - 1}
  <2>. HIDE DEF A, B, C, D
  <2>. QED  BY <1>3
<1>5. 8 \in Nat
  OBVIOUS
<1>6. UNION {{8 * (8 - 1 - k) + p : p \in s[k + 1]} : k \in 0 .. 8 - 1} = Spelled(8, FirstMost(8, s))
  BY ONLY <1>1, <1>5, JoinedMost, Zenon
<1>7. UNION {{8 * k + p : p \in s[k + 1]} : k \in 0 .. 8 - 1} = Spelled(8, FirstLeast(8, s))
  BY ONLY <1>1, <1>5, JoinedLeast, Zenon
<1>8. /\ E!raaz_tobe64(h, E!ReadWord(h, s)) = Spelled(8, FirstMost(8, s))
      /\ E!raaz_tole64(h, E!ReadWord(h, s)) = Spelled(8, FirstLeast(8, s))
  BY <1>1, Loaded64, Zenon
<1>. QED  BY ONLY <1>2, <1>4, <1>6, <1>7, <1>8, Zenon DEF WordMost, WordLeast

(* The five LOADs: on every host the words of the block come out as the    *)
(* standard reads them.                                                    *)
LEMMA Sha1Loads ==
  ASSUME NEW b \in Seq(Byte), Len(b) = 64, NEW q \in 0 .. 15, NEW h \in Sha1!Hosts
  PROVE  DOMAIN Sha1!Load(h, b) = 0 .. 15 /\ Sha1!Load(h, b)[q] = WordMost(4, b, q)
<1>1. \A x : Sha1!raaz_tobe32(h, x) = E!raaz_tobe32(h, x)
  BY Zenon DEF Sha1!raaz_tobe32, Sha1!raaz_bswap32, Sha1!SWAP, Sha1!ByteAt, Sha1!PlatformSwap, Sha1!MK, Sha1!BytesOf, Sha1!PortableBE,
               E!raaz_tobe32, E!raaz_bswap32, E!SWAP, E!ByteAt, E!PlatformSwap, E!MK, E!BytesOf, E!PortableBE
<1>2. Sha1!ReadWords(h, 4, b) = E!ReadWords(h, 4, b)
  BY ONLY Zenon DEF Sha1!ReadWords, Sha1!ReadWord, Sha1!MK, E!ReadWords, E!ReadWord, E!MK
<1>3. Sha1!Load(h, b)[q] = E!raaz_tobe32(h, E!ReadWords(h, 4, b)[q])
  BY ONLY <1>1, <1>2, q \in 0 .. 15, Zenon DEF Sha1!Load
<1>4. h \in E!Hosts
  BY ONLY h \in Sha1!Hosts, Zenon DEF Sha1!Hosts, E!Hosts
<1>5. E!raaz_tobe32(h, E!ReadWords(h, 4, b)[q]) = WordMost(4, b, q)
  BY <1>4, BlockWord32
<1>. QED  BY ONLY <1>3, <1>5, Zenon DEF Sha1!Load

LEMMA Sha256Loads ==
  ASSUME NEW b \in Seq(Byte), Len(b) = 64, NEW q \in 0 .. 15, NEW h \in Sha1!Hosts
  PROVE  DOMAIN Sha256!Load(h, b) = 0 .. 15 /\ Sha256!Load(h, b)[q] = WordMost(4, b, q)
<1>1. \A x : Sha256!raaz_tobe32(h, x) = E!raaz_tobe32(h, x)
  BY Zenon DEF Sha256!raaz_tobe32, Sha256!raaz_bswap32, Sha256!SWAP, Sha256!ByteAt, Sha256!PlatformSwap, Sha256!MK, Sha256!BytesOf, Sha256!PortableBE,
               E!raaz_tobe32, E!raaz_bswap32, E!SWAP, E!ByteAt, E!PlatformSwap, E!MK, E!BytesOf, E!PortableBE
<1>2. Sha256!ReadWords(h, 4, b) = E!ReadWords(h, 4, b)
  BY ONLY Zenon DEF Sha256!ReadWords, Sha256!ReadWord, Sha256!MK, E!ReadWords, E!ReadWord, E!MK
<1>3. Sha256!Load(h, b)[q] = E!raaz_tobe32(h, E!ReadWords(h, 4, b)[q])
  BY ONLY <1>1, <1>2, q \in 0 .. 15, Zenon DEF Sha256!Load
<1>4. h \in E!Hosts
  BY ONLY h \in Sha1!Hosts, Zenon DEF Sha1!Hosts, E!Hosts
<1>5. E!raaz_tobe32(h, E!ReadWords(h, 4, b)[q]) = WordMost(4, b, q)
  BY <1>4, BlockWord32
<1>. QED  BY ONLY <1>3, <1>5, Zenon DEF Sha256!Load

LEMMA Sha512Loads ==
  ASSUME NEW b \in Seq(Byte), Len(b) = 128, NEW q \in 0 .. 15, NEW h \in Sha1!Hosts
  PROVE  DOMAIN Sha512!Load(h, b) = 0 .. 15 /\ Sha512!Load(h, b)[q] = WordMost(8, b, q)
<1>1. \A x : Sha512!raaz_tobe64(h, x) = E!raaz_tobe64(h, x)
  BY Zenon DEF Sha512!raaz_tobe64, Sha512!raaz_bswap64, Sha512!SWAP, Sha512!ByteAt, Sha512!PlatformSwap, Sha512!MK, Sha512!BytesOf, Sha512!PortableBE,
               E!raaz_tobe64, E!raaz_bswap64, E!SWAP, E!ByteAt, E!PlatformSwap, E!MK, E!BytesOf, E!PortableBE
<1>2. Sha512!ReadWords(h, 8, b) = E!ReadWords(h, 8, b)
  BY ONLY Zenon DEF Sha512!ReadWords, Sha512!ReadWord, Sha512!MK, E!ReadWords, E!ReadWord, E!MK
<1>3. Sha512!Load(h, b)[q] = E!raaz_tobe64(h, E!ReadWords(h, 8, b)[q])
  BY ONLY <1>1, <1>2, q \in 0 .. 15, Zenon DEF Sha512!Load
<1>4. h \in E!Hosts
  BY ONLY h \in Sha1!Hosts, Zenon DEF Sha1!Hosts, E!Hosts
<1>5. E!raaz_tobe64(h, E!ReadWords(h, 8, b)[q]) = WordMost(8, b, q)
  BY <1>4, BlockWord64
<1>. QED  BY ONLY <1>3, <1>5, Zenon DEF Sha512!Load

LEMMA Blake2bLoads ==
  ASSUME NEW b \in Seq(Byte), Len(b) = 128, NEW q \in 0 .. 15, NEW h \in Sha1!Hosts
  PROVE  DOMAIN Blake2b!Load(h, b) = 0 .. 15 /\ Blake2b!Load(h, b)[q] = WordLeast(8, b, q)
<1>1. \A x : Blake2b!raaz_tole64(h, x) = E!raaz_tole64(h, x)
  BY Zenon DEF Blake2b!raaz_tole64, Blake2b!raaz_bswap64, Blake2b!SWAP, Blake2b!ByteAt, Blake2b!PlatformSwap, Blake2b!MK, Blake2b!BytesOf, Blake2b!PortableLE,
               E!raaz_tole64, E!raaz_bswap64, E!SWAP, E!ByteAt, E!PlatformSwap, E!MK, E!BytesOf, E!PortableLE
<1>2. Blake2b!ReadWords(h, 8, b) = E!ReadWords(h, 8, b)
  BY ONLY Zenon DEF Blake2b!ReadWords, Blake2b!ReadWord, Blake2b!MK, E!ReadWords, E!ReadWord, E!MK
<1>3. Blake2b!Load(h, b)[q] = E!raaz_tole64(h, E!ReadWords(h, 8, b)[q])
  BY ONLY <1>1, <1>2, q \in 0 .. 15, Zenon DEF Blake2b!Load
<1>4. h \in E!Hosts
  BY ONLY h \in Sha1!Hosts, Zenon DEF Sha1!Hosts, E!Hosts
<1>5. E!raaz_tole64(h, E!ReadWords(h, 8, b)[q]) = WordLeast(8, b, q)
  BY <1>4, BlockWord64
<1>. QED  BY ONLY <1>3, <1>5, Zenon DEF Blake2b!Load

LEMMA Blake2sLoads ==
  ASSUME NEW b \in Seq(Byte), Len(b) = 64, NEW q \in 0 .. 15, NEW h \in Sha1!Hosts
  PROVE  DOMAIN Blake2s!Load(h, b) = 0 .. 15 /\ Blake2s!Load(h, b)[q] = WordLeast(4, b, q)
<1>1. \A x : Blake2s!raaz_tole32(h, x) = E!raaz_tole32(h, x)
  BY Zenon DEF Blake2s!raaz_tole32, Blake2s!raaz_bswap32, Blake2s!SWAP, Blake2s!ByteAt, Blake2s!PlatformSwap, Blake2s!MK, Blake2s!BytesOf, Blake2s!PortableLE,
               E!raaz_tole32, E!raaz_bswap32, E!SWAP, E!ByteAt, E!PlatformSwap, E!MK, E!BytesOf, E!PortableLE
<1>2. Blake2s!ReadWords(h, 4, b) = E!ReadWords(h, 4, b)
  BY ONLY Zenon DEF Blake2s!ReadWords, Blake2s!ReadWord, Blake2s!MK, E!ReadWords, E!ReadWord, E!MK
<1>3. Blake2s!Load(h, b)[q] = E!raaz_tole32(h, E!ReadWords(h, 4, b)[q])
  BY ONLY <1>1, <1>2, q \in 0 .. 15, Zenon DEF Blake2s!Load
<1>4. h \in E!Hosts
  BY ONLY h \in Sha1!Hosts, Zenon DEF Sha1!Hosts, E!Hosts
<1>5. E!raaz_tole32(h, E!ReadWords(h, 4, b)[q]) = WordLeast(4, b, q)
  BY <1>4, BlockWord32
<1>. QED  BY ONLY <1>3, <1>5, Zenon DEF Blake2s!Load

-----------------------------------------------------------------------------
(* The letters of SHA in registers that do not move.                       *)

(* Where letter j of n is when s steps are done.                           *)
LEMMA Places8 ==
  ASSUME NEW s \in Nat
  PROVE  /\ \A j \in 0 .. 7 : (j - s) % 8 \in 0 .. 7
         /\ \A j, k \in 0 .. 7 : (j - s) % 8 = (k - s) % 8 => j = k
         /\ (0 - (s + 1)) % 8 = (7 - s) % 8
         /\ \A j \in 1 .. 7 : (j - (s + 1)) % 8 = ((j - 1) - s) % 8
OBVIOUS

(* The same for five registers.                                            *)
LEMMA Places5 ==
  ASSUME NEW s \in Nat
  PROVE  /\ \A j \in 0 .. 4 : (j - s) % 5 \in 0 .. 4
         /\ \A j, k \in 0 .. 4 : (j - s) % 5 = (k - s) % 5 => j = k
         /\ (0 - (s + 1)) % 5 = (4 - s) % 5
         /\ \A j \in 1 .. 4 : (j - (s + 1)) % 5 = ((j - 1) - s) % 5
OBVIOUS

(* One step of SHA-2 on registers: two are written, and every letter is    *)
(* then in the register of the letter before it.                           *)
Written8(s, g, a, d) == [g EXCEPT ![(3 - s) % 8] = d, ![(7 - s) % 8] = a]
Shifted8(s, g, a, d) ==
  [j \in 0 .. 7 |-> CASE j = 0 -> a [] j = 4 -> d [] OTHER -> g[((j - 1) - s) % 8]]

(* Two writes to registers are a shift of all letters by one place.        *)
LEMMA Moved8 ==
  ASSUME NEW s \in Nat, NEW g, DOMAIN g = 0 .. 7, NEW a, NEW d
  PROVE  [j \in 0 .. 7 |-> Written8(s, g, a, d)[(j - (s + 1)) % 8]] = Shifted8(s, g, a, d)
<1>. DEFINE h == [g EXCEPT ![(3 - s) % 8] = d, ![(7 - s) % 8] = a]
<1>1. /\ h[(7 - s) % 8] = a
      /\ h[(3 - s) % 8] = d
      /\ \A j \in 0 .. 7 : j # 3 /\ j # 7 => h[(j - s) % 8] = g[(j - s) % 8]
  <2>. DEFINE p(j) == (j - s) % 8
  <2>1. /\ \A j \in 0 .. 7 : p(j) \in DOMAIN g
        /\ \A j, k \in 0 .. 7 : p(j) = p(k) => j = k
    BY Places8
  <2>2. h = [g EXCEPT ![p(3)] = d, ![p(7)] = a]
    OBVIOUS
  <2>3. /\ h[p(7)] = a
        /\ h[p(3)] = d
        /\ \A j \in 0 .. 7 : j # 3 /\ j # 7 => h[p(j)] = g[p(j)]
    <3>. HIDE DEF p, h
    <3>. QED  BY <2>1, <2>2
  <2>. QED  BY <2>3
<1>. HIDE DEF h
<1>2. ASSUME NEW j \in 0 .. 7
      PROVE  h[(j - (s + 1)) % 8] =
               (CASE j = 0 -> a [] j = 4 -> d [] OTHER -> g[((j - 1) - s) % 8])
  <2>1. CASE j = 0
    BY <1>1, <2>1, Places8
  <2>2. CASE j = 4
    <3>1. (4 - (s + 1)) % 8 = (3 - s) % 8
      OBVIOUS
    <3>. QED  BY <1>1, <2>2, <3>1
  <2>3. CASE j # 0 /\ j # 4
    <3>1. j - 1 \in 0 .. 7 /\ j - 1 # 3 /\ j - 1 # 7 /\ (j - (s + 1)) % 8 = ((j - 1) - s) % 8
      BY <2>3, Places8
    <3>. QED  BY <1>1, <2>3, <3>1
  <2>. QED  BY <2>1, <2>2, <2>3
<1>. QED  BY <1>2 DEF h, Written8, Shifted8

Written5(s, g, a, b) == [g EXCEPT ![(4 - s) % 5] = a, ![(1 - s) % 5] = b]
Shifted5(s, g, a, b) ==
  [j \in 0 .. 4 |-> CASE j = 0 -> a [] j = 2 -> b [] OTHER -> g[((j - 1) - s) % 5]]

(* The same for the five registers of SHA-1.                               *)
LEMMA Moved5 ==
  ASSUME NEW s \in Nat, NEW g, DOMAIN g = 0 .. 4, NEW a, NEW b
  PROVE  [j \in 0 .. 4 |-> Written5(s, g, a, b)[(j - (s + 1)) % 5]] = Shifted5(s, g, a, b)
<1>. DEFINE h == [g EXCEPT ![(4 - s) % 5] = a, ![(1 - s) % 5] = b]
<1>1. /\ h[(4 - s) % 5] = a
      /\ h[(1 - s) % 5] = b
      /\ \A j \in 0 .. 4 : j # 4 /\ j # 1 => h[(j - s) % 5] = g[(j - s) % 5]
  <2>. DEFINE p(j) == (j - s) % 5
  <2>1. /\ \A j \in 0 .. 4 : p(j) \in DOMAIN g
        /\ \A j, k \in 0 .. 4 : p(j) = p(k) => j = k
    BY Places5
  <2>2. h = [g EXCEPT ![p(4)] = a, ![p(1)] = b]
    OBVIOUS
  <2>3. /\ h[p(4)] = a
        /\ h[p(1)] = b
        /\ \A j \in 0 .. 4 : j # 4 /\ j # 1 => h[p(j)] = g[p(j)]
    <3>. HIDE DEF p, h
    <3>. QED  BY <2>1, <2>2
  <2>. QED  BY <2>3
<1>. HIDE DEF h
<1>2. ASSUME NEW j \in 0 .. 4
      PROVE  h[(j - (s + 1)) % 5] =
               (CASE j = 0 -> a [] j = 2 -> b [] OTHER -> g[((j - 1) - s) % 5])
  <2>1. CASE j = 0
    BY <1>1, <2>1, Places5
  <2>2. CASE j = 2
    <3>1. (2 - (s + 1)) % 5 = (1 - s) % 5
      OBVIOUS
    <3>. QED  BY <1>1, <2>2, <3>1
  <2>3. CASE j # 0 /\ j # 2
    <3>1. j - 1 \in 0 .. 4 /\ j - 1 # 1 /\ j - 1 # 4 /\ (j - (s + 1)) % 5 = ((j - 1) - s) % 5
      BY <2>3, Places5
    <3>. QED  BY <1>1, <2>3, <3>1
  <2>. QED  BY <2>1, <2>2, <2>3
<1>. QED  BY <1>2 DEF h, Written5, Shifted5

(* The macro Step of sha256/portable.c is a round of the standard on the   *)
(* letters, the order of its sums included.                                *)
LEMMA Sha256Letters ==
  ASSUME NEW s \in Nat, NEW g, DOMAIN g = 0 .. 7, NEW m
  PROVE  LET r == Sha256!StepAt(s, g, m)
         IN  /\ DOMAIN r = 0 .. 7
             /\ [j \in 0 .. 7 |-> r[(j - (s + 1)) % 8]] =
                  Standard!Sha256Round(s, [j \in 0 .. 7 |-> g[(j - s) % 8]], m[s % 16])
<1>. DEFINE v == [j \in 0 .. 7 |-> g[(j - s) % 8]]
            P(x, y) == W(32)!Add(x, y)
            S1 == Sha256!SIGB1(v[4])
            S0 == Sha256!SIGB0(v[0])
            C == Sha256!CH(v[4], v[5], v[6])
            M == Sha256!MAJ(v[0], v[1], v[2])
            K == Sha256!K[s]
            x == m[s % 16]
            T == P(P(P(P(v[7], S1), C), K), x)
            A == P(P(T, S0), M)
            D == P(v[3], T)
<1>1. \A y, z : Sha256!Add(y, z) = P(y, z) /\ Standard!Sha256!Add(y, z) = P(y, z)
  BY Zenon DEF Sha256!Add, Standard!Sha256!Add, W!Add
<1>2. /\ Standard!Sha256!SIGB1(v[4]) = S1 /\ Standard!Sha256!SIGB0(v[0]) = S0
      /\ Standard!Sha256!CH(v[4], v[5], v[6]) = C /\ Standard!Sha256!MAJ(v[0], v[1], v[2]) = M
      /\ Standard!Sha256!K[s] = K
  <2>1. Standard!Sha256!K = Sha256!K
    <3>1. \A d : Standard!Sha256!OfLimbs(d) = Sha256!OfLimbs(d)
      BY Zenon DEF Standard!Sha256!OfLimbs, Sha256!OfLimbs, Standard!Sha256!OfNat, Sha256!OfNat
    <3>. QED  BY <3>1 DEF Standard!Sha256!K, Sha256!K, Standard!Sha256!Rounds, Sha256!Rounds
  <2>. HIDE DEF v
  <2>. QED
    BY <2>1, Zenon DEF Sha256!CH, Sha256!MAJ, Sha256!SIGB0, Sha256!SIGB1, Sha256!Xor, Sha256!RotateR, Sha256!ShiftR, Sha256!ShiftL,
       Standard!Sha256!CH, Standard!Sha256!MAJ, Standard!Sha256!SIGB0, Standard!Sha256!SIGB1, Standard!Sha256!Xor, Standard!Sha256!RotateR, Standard!Sha256!ShiftR, Standard!Sha256!ShiftL
<1>3. P(P(P(v[7], S1), C), P(K, x)) = T /\ P(T, P(S0, M)) = A
  <2>. HIDE DEF v, S1, S0, C, M, K, x
  <2>1. \A y, z, u : P(P(y, z), u) = P(y, P(z, u))
    BY AddAssociates
  <2>. HIDE DEF P
  <2>2. P(P(P(v[7], S1), C), P(K, x)) = T
    BY <2>1
  <2>. HIDE DEF T
  <2>3. P(T, P(S0, M)) = A
    BY <2>1
  <2>. QED  BY <2>2, <2>3
<1>4. Sha256!StepAt(s, g, m) = [g EXCEPT ![(3 - s) % 8] = D, ![(7 - s) % 8] = A]
  <2>. DEFINE p == [j \in 0 .. 7 |-> (j - s) % 8]
  <2>1. \A j \in 0 .. 7 : g[p[j]] = v[j] /\ p[j] = (j - s) % 8
    OBVIOUS
  <2>2. (3 - s) % 8 # (7 - s) % 8 /\ (3 - s) % 8 \in DOMAIN g /\ (7 - s) % 8 \in DOMAIN g
    BY Places8
  <2>3. Sha256!StepAt(s, g, m) = Sha256!Step(g, p, x, K)
    BY DEF Sha256!StepAt
  <2>. HIDE DEF p, v, x, K
  <2>4. g[p[0]] = v[0] /\ g[p[1]] = v[1] /\ g[p[2]] = v[2] /\ g[p[3]] = v[3]
        /\ g[p[4]] = v[4] /\ g[p[5]] = v[5] /\ g[p[6]] = v[6] /\ g[p[7]] = v[7]
        /\ p[3] = (3 - s) % 8 /\ p[7] = (7 - s) % 8
    BY <2>1
  <2>5. Sha256!Add(Sha256!Add(Sha256!Add(Sha256!Add(g[p[7]], Sha256!SIGB1(g[p[4]])), Sha256!CH(g[p[4]], g[p[5]], g[p[6]])), K), x) = T
    BY <1>1, <2>4, Zenon
  <2>6. Sha256!Add(Sha256!Add(T, Sha256!SIGB0(g[p[0]])), Sha256!MAJ(g[p[0]], g[p[1]], g[p[2]])) = A
    BY <1>1, <2>4, Zenon
  <2>7. Sha256!Add(g[p[3]], T) = D
    BY <1>1, <2>4, Zenon
  <2>8. Sha256!Step(g, p, x, K) = [g EXCEPT ![p[3]] = Sha256!Add(@, T), ![p[7]] = A]
    BY <2>5, <2>6, Zenon DEF Sha256!Step
  <2>. HIDE DEF T, A, D
  <2>. QED  BY <2>2, <2>3, <2>4, <2>7, <2>8
<1>5. Standard!Sha256Round(s, v, x) = [j \in 0 .. 7 |-> CASE j = 0 -> A [] j = 4 -> D [] OTHER -> v[j - 1]]
  <2>. HIDE DEF v, S1, S0, C, M, K, x
  <2>1. Standard!Sha256!Add(Standard!Sha256!Add(Standard!Sha256!Add(v[7], Standard!Sha256!SIGB1(v[4])),
          Standard!Sha256!CH(v[4], v[5], v[6])), Standard!Sha256!Add(Standard!Sha256!K[s], x)) = T
    BY <1>1, <1>2, <1>3, Zenon
  <2>2. Standard!Sha256!Add(T, Standard!Sha256!Add(Standard!Sha256!SIGB0(v[0]), Standard!Sha256!MAJ(v[0], v[1], v[2]))) = A
    BY <1>1, <1>2, <1>3, Zenon
  <2>3. Standard!Sha256!Add(v[3], T) = D
    BY <1>1
  <2>. HIDE DEF T, A, D
  <2>. QED  BY <2>1, <2>2, <2>3 DEF Standard!Sha256Round
<1>6. [j \in 0 .. 7 |-> CASE j = 0 -> A [] j = 4 -> D [] OTHER -> v[j - 1]] =
      [j \in 0 .. 7 |-> CASE j = 0 -> A [] j = 4 -> D [] OTHER -> g[((j - 1) - s) % 8]]
  <2>. HIDE DEF A, D
  <2>. QED  OBVIOUS
<1>. HIDE DEF A, D
<1>7. DOMAIN [g EXCEPT ![(3 - s) % 8] = D, ![(7 - s) % 8] = A] = 0 .. 7
  OBVIOUS
<1>8. [j \in 0 .. 7 |-> Written8(s, g, A, D)[(j - (s + 1)) % 8]] = Shifted8(s, g, A, D)
  BY Moved8, Zenon
<1>9. Sha256!StepAt(s, g, m) = Written8(s, g, A, D)
  BY <1>4, Zenon DEF Written8
<1>10. Standard!Sha256Round(s, v, x) = Shifted8(s, g, A, D)
  BY <1>5, <1>6, Zenon DEF Shifted8
<1>. QED  BY ONLY <1>7, <1>8, <1>9, <1>10, Zenon DEF Written8

(* The macro Step of sha512/portable.c, likewise.                          *)
LEMMA Sha512Letters ==
  ASSUME NEW s \in Nat, NEW g, DOMAIN g = 0 .. 7, NEW m
  PROVE  LET r == Sha512!StepAt(s, g, m)
         IN  /\ DOMAIN r = 0 .. 7
             /\ [j \in 0 .. 7 |-> r[(j - (s + 1)) % 8]] =
                  Standard!Sha512Round(s, [j \in 0 .. 7 |-> g[(j - s) % 8]], m[s % 16])
<1>. DEFINE v == [j \in 0 .. 7 |-> g[(j - s) % 8]]
            P(x, y) == W(64)!Add(x, y)
            S1 == Sha512!SIGB1(v[4])
            S0 == Sha512!SIGB0(v[0])
            C == Sha512!CH(v[4], v[5], v[6])
            M == Sha512!MAJ(v[0], v[1], v[2])
            K == Sha512!K[s]
            x == m[s % 16]
            T == P(P(P(P(v[7], S1), C), K), x)
            A == P(P(T, S0), M)
            D == P(v[3], T)
<1>1. \A y, z : Sha512!Add(y, z) = P(y, z) /\ Standard!Sha512!Add(y, z) = P(y, z)
  BY Zenon DEF Sha512!Add, Standard!Sha512!Add, W!Add
<1>2. /\ Standard!Sha512!SIGB1(v[4]) = S1 /\ Standard!Sha512!SIGB0(v[0]) = S0
      /\ Standard!Sha512!CH(v[4], v[5], v[6]) = C /\ Standard!Sha512!MAJ(v[0], v[1], v[2]) = M
      /\ Standard!Sha512!K[s] = K
  <2>1. Standard!Sha512!K = Sha512!K
    <3>1. \A d : Standard!Sha512!OfLimbs(d) = Sha512!OfLimbs(d)
      BY Zenon DEF Standard!Sha512!OfLimbs, Sha512!OfLimbs, Standard!Sha512!OfNat, Sha512!OfNat
    <3>. QED  BY <3>1 DEF Standard!Sha512!K, Sha512!K, Standard!Sha512!Rounds, Sha512!Rounds
  <2>. HIDE DEF v
  <2>. QED
    BY <2>1, Zenon DEF Sha512!CH, Sha512!MAJ, Sha512!SIGB0, Sha512!SIGB1, Sha512!Xor, Sha512!RotateR, Sha512!ShiftR, Sha512!ShiftL,
       Standard!Sha512!CH, Standard!Sha512!MAJ, Standard!Sha512!SIGB0, Standard!Sha512!SIGB1, Standard!Sha512!Xor, Standard!Sha512!RotateR, Standard!Sha512!ShiftR, Standard!Sha512!ShiftL
<1>3. P(P(P(v[7], S1), C), P(K, x)) = T /\ P(T, P(S0, M)) = A
  <2>. HIDE DEF v, S1, S0, C, M, K, x
  <2>1. \A y, z, u : P(P(y, z), u) = P(y, P(z, u))
    BY AddAssociates
  <2>. HIDE DEF P
  <2>2. P(P(P(v[7], S1), C), P(K, x)) = T
    BY <2>1
  <2>. HIDE DEF T
  <2>3. P(T, P(S0, M)) = A
    BY <2>1
  <2>. QED  BY <2>2, <2>3
<1>4. Sha512!StepAt(s, g, m) = [g EXCEPT ![(3 - s) % 8] = D, ![(7 - s) % 8] = A]
  <2>. DEFINE p == [j \in 0 .. 7 |-> (j - s) % 8]
  <2>1. \A j \in 0 .. 7 : g[p[j]] = v[j] /\ p[j] = (j - s) % 8
    OBVIOUS
  <2>2. (3 - s) % 8 # (7 - s) % 8 /\ (3 - s) % 8 \in DOMAIN g /\ (7 - s) % 8 \in DOMAIN g
    BY Places8
  <2>3. Sha512!StepAt(s, g, m) = Sha512!Step(g, p, x, K)
    BY DEF Sha512!StepAt
  <2>. HIDE DEF p, v, x, K
  <2>4. g[p[0]] = v[0] /\ g[p[1]] = v[1] /\ g[p[2]] = v[2] /\ g[p[3]] = v[3]
        /\ g[p[4]] = v[4] /\ g[p[5]] = v[5] /\ g[p[6]] = v[6] /\ g[p[7]] = v[7]
        /\ p[3] = (3 - s) % 8 /\ p[7] = (7 - s) % 8
    BY <2>1
  <2>5. Sha512!Add(Sha512!Add(Sha512!Add(Sha512!Add(g[p[7]], Sha512!SIGB1(g[p[4]])), Sha512!CH(g[p[4]], g[p[5]], g[p[6]])), K), x) = T
    BY <1>1, <2>4, Zenon
  <2>6. Sha512!Add(Sha512!Add(T, Sha512!SIGB0(g[p[0]])), Sha512!MAJ(g[p[0]], g[p[1]], g[p[2]])) = A
    BY <1>1, <2>4, Zenon
  <2>7. Sha512!Add(g[p[3]], T) = D
    BY <1>1, <2>4, Zenon
  <2>8. Sha512!Step(g, p, x, K) = [g EXCEPT ![p[3]] = Sha512!Add(@, T), ![p[7]] = A]
    BY <2>5, <2>6, Zenon DEF Sha512!Step
  <2>. HIDE DEF T, A, D
  <2>. QED  BY <2>2, <2>3, <2>4, <2>7, <2>8
<1>5. Standard!Sha512Round(s, v, x) = [j \in 0 .. 7 |-> CASE j = 0 -> A [] j = 4 -> D [] OTHER -> v[j - 1]]
  <2>. HIDE DEF v, S1, S0, C, M, K, x
  <2>1. Standard!Sha512!Add(Standard!Sha512!Add(Standard!Sha512!Add(v[7], Standard!Sha512!SIGB1(v[4])),
          Standard!Sha512!CH(v[4], v[5], v[6])), Standard!Sha512!Add(Standard!Sha512!K[s], x)) = T
    BY <1>1, <1>2, <1>3, Zenon
  <2>2. Standard!Sha512!Add(T, Standard!Sha512!Add(Standard!Sha512!SIGB0(v[0]), Standard!Sha512!MAJ(v[0], v[1], v[2]))) = A
    BY <1>1, <1>2, <1>3, Zenon
  <2>3. Standard!Sha512!Add(v[3], T) = D
    BY <1>1
  <2>. HIDE DEF T, A, D
  <2>. QED  BY <2>1, <2>2, <2>3 DEF Standard!Sha512Round
<1>6. [j \in 0 .. 7 |-> CASE j = 0 -> A [] j = 4 -> D [] OTHER -> v[j - 1]] =
      [j \in 0 .. 7 |-> CASE j = 0 -> A [] j = 4 -> D [] OTHER -> g[((j - 1) - s) % 8]]
  <2>. HIDE DEF A, D
  <2>. QED  OBVIOUS
<1>. HIDE DEF A, D
<1>7. DOMAIN [g EXCEPT ![(3 - s) % 8] = D, ![(7 - s) % 8] = A] = 0 .. 7
  OBVIOUS
<1>8. [j \in 0 .. 7 |-> Written8(s, g, A, D)[(j - (s + 1)) % 8]] = Shifted8(s, g, A, D)
  BY Moved8, Zenon
<1>9. Sha512!StepAt(s, g, m) = Written8(s, g, A, D)
  BY <1>4, Zenon DEF Written8
<1>10. Standard!Sha512Round(s, v, x) = Shifted8(s, g, A, D)
  BY <1>5, <1>6, Zenon DEF Shifted8
<1>. QED  BY ONLY <1>7, <1>8, <1>9, <1>10, Zenon DEF Written8

(* The macro Step of sha1/portable.c, likewise.                            *)
LEMMA Sha1Letters ==
  ASSUME NEW s \in Nat, NEW g, DOMAIN g = 0 .. 4, NEW m
  PROVE  LET r == Sha1!StepAt(s, g, m)
         IN  /\ DOMAIN r = 0 .. 4
             /\ [j \in 0 .. 4 |-> r[(j - (s + 1)) % 5]] =
                  Standard!Sha1Round(s, [j \in 0 .. 4 |-> g[(j - s) % 5]], m[s % 16])
<1>. DEFINE v == [j \in 0 .. 4 |-> g[(j - s) % 5]]
            P(x, y) == W(32)!Add(x, y)
            R == Sha1!RotateL(v[0], 5)
            F == Sha1!F(s \div 20, v[1], v[2], v[3])
            K == Sha1!K[s \div 20]
            x == m[s % 16]
            A == P(P(P(P(v[4], R), F), K), x)
            B == Sha1!RotateL(v[1], 30)
<1>1. \A y, z : Sha1!Add(y, z) = P(y, z) /\ Standard!Sha1!Add(y, z) = P(y, z)
  BY Zenon DEF Sha1!Add, Standard!Sha1!Add, W!Add
<1>2. /\ Standard!Sha1!RotateL(v[0], 5) = R /\ Standard!Sha1!RotateL(v[1], 30) = B
      /\ Standard!Sha1!CH(v[1], v[2], v[3]) = Sha1!CH(v[1], v[2], v[3])
      /\ Standard!Sha1!MAJ(v[1], v[2], v[3]) = Sha1!MAJ(v[1], v[2], v[3])
      /\ Standard!Sha1!PARITY(v[1], v[2], v[3]) = Sha1!PARITY(v[1], v[2], v[3])
      /\ Standard!Sha1!K[s \div 20] = K
  <2>1. Standard!Sha1!K = Sha1!K
    <3>1. \A d : Standard!Sha1!OfLimbs(d) = Sha1!OfLimbs(d)
      BY Zenon DEF Standard!Sha1!OfLimbs, Sha1!OfLimbs, Standard!Sha1!OfNat, Sha1!OfNat
    <3>. QED  BY <3>1 DEF Standard!Sha1!K, Sha1!K
  <2>. HIDE DEF v
  <2>. QED
    BY <2>1, Zenon DEF Sha1!CH, Sha1!MAJ, Sha1!PARITY, Sha1!RotateL, Sha1!Xor, Sha1!ShiftR, Sha1!ShiftL,
       Standard!Sha1!CH, Standard!Sha1!MAJ, Standard!Sha1!PARITY, Standard!Sha1!RotateL, Standard!Sha1!Xor, Standard!Sha1!ShiftR, Standard!Sha1!ShiftL
<1>3. F = CASE s < 20 -> Sha1!CH(v[1], v[2], v[3])
            [] s \in 40 .. 59 -> Sha1!MAJ(v[1], v[2], v[3])
            [] OTHER -> Sha1!PARITY(v[1], v[2], v[3])
  <2>. HIDE DEF v
  <2>1. (s \div 20 = 0 <=> s < 20) /\ (s \div 20 = 2 <=> s \in 40 .. 59)
    OBVIOUS
  <2>. QED  BY <2>1 DEF Sha1!F
<1>4. P(P(R, F), P(P(v[4], K), x)) = A
  <2>. HIDE DEF v, R, F, K, x
  <2>1. \A y, z, u : P(P(y, z), u) = P(y, P(z, u))
    BY AddAssociates
  <2>2. \A y, z : P(y, z) = P(z, y)
    BY AddCommutes
  <2>. HIDE DEF P
  <2>3. P(P(v[4], R), F) = P(P(R, F), v[4])
    BY <2>1, <2>2
  <2>4. P(P(P(R, F), v[4]), K) = P(P(R, F), P(v[4], K))
    BY <2>1
  <2>5. P(P(P(R, F), P(v[4], K)), x) = P(P(R, F), P(P(v[4], K), x))
    BY <2>1
  <2>. QED  BY <2>3, <2>4, <2>5
<1>5. Sha1!StepAt(s, g, m) = [g EXCEPT ![(4 - s) % 5] = A, ![(1 - s) % 5] = B]
  <2>. DEFINE p == [j \in 0 .. 4 |-> (j - s) % 5]
  <2>1. \A j \in 0 .. 4 : g[p[j]] = v[j] /\ p[j] = (j - s) % 5
    OBVIOUS
  <2>2. (1 - s) % 5 # (4 - s) % 5 /\ (1 - s) % 5 \in DOMAIN g /\ (4 - s) % 5 \in DOMAIN g
    BY Places5
  <2>3. Sha1!StepAt(s, g, m) = Sha1!Step(s \div 20, g, p, x)
    BY DEF Sha1!StepAt
  <2>. HIDE DEF p, v, x, K
  <2>4. g[p[0]] = v[0] /\ g[p[1]] = v[1] /\ g[p[2]] = v[2] /\ g[p[3]] = v[3] /\ g[p[4]] = v[4]
        /\ p[1] = (1 - s) % 5 /\ p[4] = (4 - s) % 5
    BY <2>1
  <2>5. Sha1!Add(Sha1!Add(Sha1!Add(Sha1!Add(g[p[4]], Sha1!RotateL(g[p[0]], 5)),
          Sha1!F(s \div 20, g[p[1]], g[p[2]], g[p[3]])), Sha1!K[s \div 20]), x) = A
    BY <1>1, <2>4, Zenon DEF K
  <2>6. Sha1!RotateL(g[p[1]], 30) = B
    BY <2>4, Zenon
  <2>. HIDE DEF A, B
  <2>7. Sha1!Step(s \div 20, g, p, x) = [g EXCEPT ![p[4]] = A, ![p[1]] = B]
    BY <2>2, <2>4, <2>5, <2>6 DEF Sha1!Step
  <2>. QED  BY <2>2, <2>3, <2>4, <2>7
<1>6. Standard!Sha1Round(s, v, x) = [j \in 0 .. 4 |-> CASE j = 0 -> A [] j = 2 -> B [] OTHER -> v[j - 1]]
  <2>. HIDE DEF v, R, F, K, x
  <2>1. (CASE s < 20 -> Standard!Sha1!CH(v[1], v[2], v[3])
            [] s \in 40 .. 59 -> Standard!Sha1!MAJ(v[1], v[2], v[3])
            [] OTHER -> Standard!Sha1!PARITY(v[1], v[2], v[3])) = F
    BY <1>2, <1>3
  <2>2. Standard!Sha1!Add(Standard!Sha1!Add(Standard!Sha1!RotateL(v[0], 5), F),
          Standard!Sha1!Add(Standard!Sha1!Add(v[4], Standard!Sha1!K[s \div 20]), x)) = A
    BY <1>1, <1>2, <1>4, Zenon
  <2>3. Standard!Sha1!RotateL(v[1], 30) = B
    BY <1>2
  <2>. HIDE DEF A, B
  <2>. QED  BY <2>1, <2>2, <2>3 DEF Standard!Sha1Round
<1>7. [j \in 0 .. 4 |-> CASE j = 0 -> A [] j = 2 -> B [] OTHER -> v[j - 1]] = Shifted5(s, g, A, B)
  <2>. HIDE DEF A, B
  <2>. QED  BY DEF Shifted5
<1>. HIDE DEF A, B
<1>8. DOMAIN Written5(s, g, A, B) = 0 .. 4
  BY DEF Written5
<1>9. [j \in 0 .. 4 |-> Written5(s, g, A, B)[(j - (s + 1)) % 5]] = Shifted5(s, g, A, B)
  BY Moved5, Zenon
<1>10. Sha1!StepAt(s, g, m) = Written5(s, g, A, B)
  BY <1>5, Zenon DEF Written5
<1>11. Standard!Sha1Round(s, v, x) = Shifted5(s, g, A, B)
  BY <1>6, <1>7, Zenon
<1>. QED  BY ONLY <1>8, <1>9, <1>10, <1>11, Zenon

-----------------------------------------------------------------------------
(* The matrix of BLAKE2 in registers that do not move.                     *)

(* The place of row r of diagonal c, and a matrix with four places written. *)
Diagonal(c, r) == 4 * r + ((c + r) % 4)
Four(v, a, b, c, d, ra, rb, rc, rd) == [v EXCEPT ![a] = ra, ![b] = rb, ![c] = rc, ![d] = rd]
Columns(v, c, ra, rb, rc, rd) == Four(v, c, c + 4, c + 8, c + 12, ra, rb, rc, rd)
Diagonals(v, c, ra, rb, rc, rd) ==
  Four(v, Diagonal(c, 0), Diagonal(c, 1), Diagonal(c, 2), Diagonal(c, 3), ra, rb, rc, rd)

(* Mixing a diagonal is rotating the rows, mixing a column and rotating    *)
(* them back.                                                              *)
LEMMA Rows ==
  ASSUME NEW x \in 0 .. 15
  PROVE  /\ x \div 4 \in 0 .. 3 /\ x % 4 \in 0 .. 3 /\ x = 4 * (x \div 4) + (x % 4)
OBVIOUS

(* Rotating the rows, mixing column c and rotating back mixes diagonal c.  *)
LEMMA ColumnOfRotated ==
  ASSUME NEW v, NEW c \in 0 .. 3, NEW ra, NEW rb, NEW rc, NEW rd, DOMAIN v = 0 .. 15
  PROVE  Standard!Rotated(Columns(Standard!Rotated(v, 1), c, ra, rb, rc, rd), -1) =
           Diagonals(v, c, ra, rb, rc, rd)
<1>. DEFINE u == [x \in 0 .. 15 |-> v[4 * (x \div 4) + (((x % 4) + (x \div 4)) % 4)]]
            y == Columns(u, c, ra, rb, rc, rd)
            z == [x \in 0 .. 15 |-> y[4 * (x \div 4) + (((x % 4) - (x \div 4)) % 4)]]
            g == Diagonals(v, c, ra, rb, rc, rd)
<1>1. Standard!Rotated(v, 1) = u /\ Standard!Rotated(y, -1) = z
  <2>. HIDE DEF y
  <2>1. \A x \in 0 .. 15 :
          /\ (x % 4) + 1 * (x \div 4) = (x % 4) + (x \div 4)
          /\ (x % 4) + (-1) * (x \div 4) = (x % 4) - (x \div 4)
    OBVIOUS
  <2>. QED  BY <2>1 DEF Standard!Rotated
<1>2. /\ DOMAIN y = 0 .. 15
      /\ y[c] = ra /\ y[c + 4] = rb /\ y[c + 8] = rc /\ y[c + 12] = rd
      /\ \A x \in 0 .. 15 : x % 4 # c => y[x] = u[x]
  <2>1. DOMAIN u = 0 .. 15
    OBVIOUS
  <2>2. \A x \in 0 .. 15 : x % 4 # c => x # c /\ x # c + 4 /\ x # c + 8 /\ x # c + 12
    OBVIOUS
  <2>. HIDE DEF u
  <2>. QED  BY <2>1, <2>2 DEF Columns, Four
<1>3. /\ DOMAIN g = 0 .. 15
      /\ g[Diagonal(c, 0)] = ra /\ g[Diagonal(c, 1)] = rb /\ g[Diagonal(c, 2)] = rc
      /\ g[Diagonal(c, 3)] = rd
      /\ \A x \in 0 .. 15 : x # Diagonal(c, x \div 4) => g[x] = v[x]
  <2>1. /\ Diagonal(c, 0) \in 0 .. 3 /\ Diagonal(c, 1) \in 4 .. 7
        /\ Diagonal(c, 2) \in 8 .. 11 /\ Diagonal(c, 3) \in 12 .. 15
    BY DEF Diagonal
  <2>2. \A x \in 0 .. 15 : x # Diagonal(c, x \div 4) =>
           x # Diagonal(c, 0) /\ x # Diagonal(c, 1) /\ x # Diagonal(c, 2) /\ x # Diagonal(c, 3)
    <3>1. \A x \in 0 .. 3 : x \div 4 = 0
      OBVIOUS
    <3>2. \A x \in 4 .. 7 : x \div 4 = 1
      OBVIOUS
    <3>3. \A x \in 8 .. 11 : x \div 4 = 2
      OBVIOUS
    <3>4. \A x \in 12 .. 15 : x \div 4 = 3
      OBVIOUS
    <3>. QED  BY <2>1, <3>1, <3>2, <3>3, <3>4
  <2>. QED  BY <2>1, <2>2 DEF Diagonals, Four
<1>4. ASSUME NEW r \in 0 .. 3, NEW k \in 0 .. 3
      PROVE  z[4 * r + k] = g[4 * r + k]
  <2>. DEFINE x == 4 * r + k
              b == 4 * r + ((k - r) % 4)
  <2>1. /\ x \in 0 .. 15 /\ x \div 4 = r /\ x % 4 = k
        /\ b \in 0 .. 15 /\ b \div 4 = r /\ b % 4 = (k - r) % 4
    OBVIOUS
  <2>2. z[x] = y[b]
    <3>. HIDE DEF y
    <3>. QED  BY <2>1
  <2>3. CASE (k - r) % 4 = c
    <3>1. k = (c + r) % 4
      BY <2>3
    <3>2. x = Diagonal(c, r) /\ b = c + 4 * r
      BY <2>3, <3>1 DEF Diagonal
    <3>3. r = 0 \/ r = 1 \/ r = 2 \/ r = 3
      OBVIOUS
    <3>. HIDE DEF x, b, y, z, g
    <3>4. z[x] = g[x]
      BY <1>2, <1>3, <2>2, <3>2, <3>3
    <3>. QED  BY <3>4 DEF x
  <2>4. CASE (k - r) % 4 # c
    <3>1. x # Diagonal(c, r)
      <4>1. k # (c + r) % 4
        BY <2>4
      <4>. QED  BY <4>1 DEF Diagonal
    <3>2. y[b] = u[b]
      <4>. HIDE DEF b, y, u
      <4>. QED  BY <1>2, <2>1, <2>4
    <3>3. u[b] = v[x]
      <4>1. 4 * (b \div 4) + (((b % 4) + (b \div 4)) % 4) = x
        BY <2>1
      <4>. HIDE DEF b, x
      <4>. QED  BY <2>1, <4>1
    <3>4. z[x] = g[x]
      <4>. HIDE DEF x, b, y, z, g
      <4>. QED  BY <1>3, <2>1, <2>2, <3>1, <3>2, <3>3
    <3>. QED  BY <3>4
  <2>. QED  BY <2>3, <2>4
<1>5. \A x \in 0 .. 15 : z[x] = g[x]
  <2>. HIDE DEF z, g
  <2>. QED  BY <1>4, Rows
<1>6. z = g
  <2>1. DOMAIN z = 0 .. 15
    OBVIOUS
  <2>2. g = [x \in 0 .. 15 |-> g[x]]
    BY <1>3 DEF Diagonals, Four
  <2>3. z = [x \in 0 .. 15 |-> z[x]]
    OBVIOUS
  <2>. HIDE DEF z, g
  <2>. QED  BY <1>5, <2>2, <2>3
<1>. QED  BY <1>1, <1>6

(* The registers of the eight uses of G in a ROUND are the columns and the *)
(* diagonals.                                                              *)
LEMMA Blake2bQuadruples ==
  ASSUME NEW s \in 0 .. 7
  PROVE  IF s < 4
         THEN Blake2b!Quadruples[s + 1] = <<s, s + 4, s + 8, s + 12>>
         ELSE Blake2b!Quadruples[s + 1] =
                <<Diagonal(s - 4, 0), Diagonal(s - 4, 1), Diagonal(s - 4, 2), Diagonal(s - 4, 3)>>
<1>1. s = 0 \/ s = 1 \/ s = 2 \/ s = 3 \/ s = 4 \/ s = 5 \/ s = 6 \/ s = 7
  OBVIOUS
<1>. QED  BY <1>1 DEF Blake2b!Quadruples, Diagonal

(* G on a quadruple writes these four registers, whichever they are.       *)
LEMMA Blake2bMixes ==
  ASSUME NEW v, DOMAIN v = 0 .. 15, NEW s \in 0 .. 7, NEW m0, NEW m1
  PROVE  LET q == Blake2b!Quadruples[s + 1]
             r == Blake2b!G(v, q[1], q[2], q[3], q[4], m0, m1)
         IN  /\ DOMAIN r = 0 .. 15
             /\ r = IF s < 4 THEN Standard!Mixed("blake2b", v, s, m0, m1)
                    ELSE Standard!Rotated(Standard!Mixed("blake2b", Standard!Rotated(v, 1), s - 4, m0, m1), -1)
<1>. DEFINE A1(a, b) == Blake2b!Add(Blake2b!Add(a, b), m0)
            D1(a, b, d) == Blake2b!R(Blake2b!Xor(d, A1(a, b)), 32)
            C1(a, b, c, d) == Blake2b!Add(c, D1(a, b, d))
            B1(a, b, c, d) == Blake2b!R(Blake2b!Xor(b, C1(a, b, c, d)), 24)
            A2(a, b, c, d) == Blake2b!Add(Blake2b!Add(A1(a, b), B1(a, b, c, d)), m1)
            D2(a, b, c, d) == Blake2b!R(Blake2b!Xor(D1(a, b, d), A2(a, b, c, d)), 16)
            C2(a, b, c, d) == Blake2b!Add(C1(a, b, c, d), D2(a, b, c, d))
            B2(a, b, c, d) == Blake2b!R(Blake2b!Xor(B1(a, b, c, d), C2(a, b, c, d)), 63)
            q == Blake2b!Quadruples[s + 1]
            r == Blake2b!G(v, q[1], q[2], q[3], q[4], m0, m1)
<1>1. \A x, a, b, c, d : Blake2b!G(x, a, b, c, d, m0, m1) =
        Four(x, a, b, c, d, A2(x[a], x[b], x[c], x[d]), B2(x[a], x[b], x[c], x[d]),
                            C2(x[a], x[b], x[c], x[d]), D2(x[a], x[b], x[c], x[d]))
  BY DEF Blake2b!G, Four
<1>2. \A x, c : Standard!Mixed("blake2b", x, c, m0, m1) = Blake2b!G(x, c, c + 4, c + 8, c + 12, m0, m1)
  <2>1. \A x, y : Standard!Blake2b!Add(x, y) = Blake2b!Add(x, y)
    BY Zenon DEF Standard!Blake2b!Add, Blake2b!Add
  <2>2. \A x, y : Standard!Blake2b!Xor(x, y) = Blake2b!Xor(x, y)
    BY Zenon DEF Standard!Blake2b!Xor, Blake2b!Xor
  <2>3. \A x, n : Standard!Blake2b!R(x, n) = Blake2b!R(x, n)
    BY Zenon DEF Standard!Blake2b!R, Blake2b!R, Standard!Blake2b!ShiftL, Blake2b!ShiftL, Standard!Blake2b!ShiftR, Blake2b!ShiftR
  <2>4. \A x, c : Standard!Mixed("blake2b", x, c, m0, m1) = Standard!Blake2b!G(x, c, c + 4, c + 8, c + 12, m0, m1)
    BY Zenon DEF Standard!Mixed
  <2>5. \A x, a, b, c, d : Standard!Blake2b!G(x, a, b, c, d, m0, m1) = Blake2b!G(x, a, b, c, d, m0, m1)
    <3>. SUFFICES ASSUME NEW x, NEW a, NEW b, NEW c, NEW d
                  PROVE  Standard!Blake2b!G(x, a, b, c, d, m0, m1) = Blake2b!G(x, a, b, c, d, m0, m1)
      OBVIOUS
    <3>. DEFINE a1 == Standard!Blake2b!Add(Standard!Blake2b!Add(x[a], x[b]), m0)
                d1 == Standard!Blake2b!R(Standard!Blake2b!Xor(x[d], a1), 32)
                c1 == Standard!Blake2b!Add(x[c], d1)
                b1 == Standard!Blake2b!R(Standard!Blake2b!Xor(x[b], c1), 24)
                a2 == Standard!Blake2b!Add(Standard!Blake2b!Add(a1, b1), m1)
                d2 == Standard!Blake2b!R(Standard!Blake2b!Xor(d1, a2), 16)
                c2 == Standard!Blake2b!Add(c1, d2)
                b2 == Standard!Blake2b!R(Standard!Blake2b!Xor(b1, c2), 63)
    <3>1. Standard!Blake2b!G(x, a, b, c, d, m0, m1) = Four(x, a, b, c, d, a2, b2, c2, d2)
      BY DEF Standard!Blake2b!G, Four
    <3>. HIDE DEF A1, D1, C1, B1, A2, D2, C2, B2
    <3>2. a1 = A1(x[a], x[b])
      BY <2>1, Zenon DEF A1
    <3>. HIDE DEF a1
    <3>3. d1 = D1(x[a], x[b], x[d])
      BY <2>2, <2>3, <3>2, Zenon DEF D1
    <3>. HIDE DEF d1
    <3>4. c1 = C1(x[a], x[b], x[c], x[d])
      BY <2>1, <3>3, Zenon DEF C1
    <3>. HIDE DEF c1
    <3>5. b1 = B1(x[a], x[b], x[c], x[d])
      BY <2>2, <2>3, <3>4, Zenon DEF B1
    <3>. HIDE DEF b1
    <3>6. a2 = A2(x[a], x[b], x[c], x[d])
      BY <2>1, <3>2, <3>5, Zenon DEF A2
    <3>. HIDE DEF a2
    <3>7. d2 = D2(x[a], x[b], x[c], x[d])
      BY <2>2, <2>3, <3>3, <3>6, Zenon DEF D2
    <3>. HIDE DEF d2
    <3>8. c2 = C2(x[a], x[b], x[c], x[d])
      BY <2>1, <3>4, <3>7, Zenon DEF C2
    <3>. HIDE DEF c2
    <3>9. b2 = B2(x[a], x[b], x[c], x[d])
      BY <2>2, <2>3, <3>5, <3>8, Zenon DEF B2
    <3>. HIDE DEF b2
    <3>. QED  BY <1>1, <3>1, <3>6, <3>7, <3>8, <3>9, Zenon
  <2>. QED  BY <2>4, <2>5, Zenon
<1>. HIDE DEF A2, B2, C2, D2
<1>3. CASE s < 4
  <2>1. q = <<s, s + 4, s + 8, s + 12>>
    BY <1>3, Blake2bQuadruples
  <2>2. q[1] = s /\ q[2] = s + 4 /\ q[3] = s + 8 /\ q[4] = s + 12
    <3>. HIDE DEF q
    <3>. QED  BY <2>1
  <2>. HIDE DEF q
  <2>3. r = Blake2b!G(v, s, s + 4, s + 8, s + 12, m0, m1)
    BY <2>2, Zenon
  <2>4. DOMAIN r = 0 .. 15
    <3>. HIDE DEF r
    <3>1. r = Four(v, s, s + 4, s + 8, s + 12,
                   A2(v[s], v[s + 4], v[s + 8], v[s + 12]), B2(v[s], v[s + 4], v[s + 8], v[s + 12]),
                   C2(v[s], v[s + 4], v[s + 8], v[s + 12]), D2(v[s], v[s + 4], v[s + 8], v[s + 12]))
      BY <1>1, <2>3, Zenon
    <3>. QED  BY <3>1 DEF Four
  <2>. HIDE DEF r
  <2>5. r = Standard!Mixed("blake2b", v, s, m0, m1)
    BY <1>2, <2>3, Zenon
  <2>. QED  BY <1>3, <2>4, <2>5 DEF r, q
<1>4. CASE ~ (s < 4)
  <2>. DEFINE e == s - 4
              u == Standard!Rotated(v, 1)
              a == v[Diagonal(e, 0)]
              b == v[Diagonal(e, 1)]
              c == v[Diagonal(e, 2)]
              d == v[Diagonal(e, 3)]
  <2>0. e \in 0 .. 3
    BY <1>4
  <2>1. q = <<Diagonal(e, 0), Diagonal(e, 1), Diagonal(e, 2), Diagonal(e, 3)>>
    BY <1>4, Blake2bQuadruples
  <2>2. q[1] = Diagonal(e, 0) /\ q[2] = Diagonal(e, 1) /\ q[3] = Diagonal(e, 2) /\ q[4] = Diagonal(e, 3)
    <3>. HIDE DEF q, e
    <3>. QED  BY <2>1
  <2>. HIDE DEF q
  <2>3. r = Blake2b!G(v, Diagonal(e, 0), Diagonal(e, 1), Diagonal(e, 2), Diagonal(e, 3), m0, m1)
    BY <2>2, Zenon
  <2>. HIDE DEF r
  <2>4. r = Diagonals(v, e, A2(a, b, c, d), B2(a, b, c, d), C2(a, b, c, d), D2(a, b, c, d))
    <3>. HIDE DEF e
    <3>. QED  BY <1>1, <2>3, Zenon DEF Diagonals
  <2>5. u[e] = a /\ u[e + 4] = b /\ u[e + 8] = c /\ u[e + 12] = d
    <3>. HIDE DEF e
    <3>1. /\ e \in 0 .. 15 /\ 4 * (e \div 4) + (((e % 4) + 1 * (e \div 4)) % 4) = Diagonal(e, 0)
          /\ e + 4 \in 0 .. 15 /\ 4 * ((e + 4) \div 4) + ((((e + 4) % 4) + 1 * ((e + 4) \div 4)) % 4) = Diagonal(e, 1)
          /\ e + 8 \in 0 .. 15 /\ 4 * ((e + 8) \div 4) + ((((e + 8) % 4) + 1 * ((e + 8) \div 4)) % 4) = Diagonal(e, 2)
          /\ e + 12 \in 0 .. 15 /\ 4 * ((e + 12) \div 4) + ((((e + 12) % 4) + 1 * ((e + 12) \div 4)) % 4) = Diagonal(e, 3)
      <4>1. e = 0 \/ e = 1 \/ e = 2 \/ e = 3
        BY <2>0
      <4>. QED  BY <4>1 DEF Diagonal
    <3>. QED  BY <3>1, Zenon DEF Standard!Rotated
  <2>6. Standard!Mixed("blake2b", u, e, m0, m1) =
          Columns(u, e, A2(a, b, c, d), B2(a, b, c, d), C2(a, b, c, d), D2(a, b, c, d))
    <3>. HIDE DEF e, u, a, b, c, d
    <3>. QED  BY <1>1, <1>2, <2>5, Zenon DEF Columns
  <2>7. r = Standard!Rotated(Standard!Mixed("blake2b", u, e, m0, m1), -1)
    <3>. HIDE DEF a, b, c, d, e
    <3>. QED  BY <2>0, <2>4, <2>6, ColumnOfRotated, Zenon
  <2>8. DOMAIN r = 0 .. 15
    <3>. HIDE DEF a, b, c, d, e
    <3>. QED  BY <2>4 DEF Diagonals, Four
  <2>. QED  BY <1>4, <2>7, <2>8 DEF r, q
<1>. QED  BY <1>3, <1>4

LEMMA Blake2sQuadruples ==
  ASSUME NEW s \in 0 .. 7
  PROVE  IF s < 4
         THEN Blake2s!Quadruples[s + 1] = <<s, s + 4, s + 8, s + 12>>
         ELSE Blake2s!Quadruples[s + 1] =
                <<Diagonal(s - 4, 0), Diagonal(s - 4, 1), Diagonal(s - 4, 2), Diagonal(s - 4, 3)>>
<1>1. s = 0 \/ s = 1 \/ s = 2 \/ s = 3 \/ s = 4 \/ s = 5 \/ s = 6 \/ s = 7
  OBVIOUS
<1>. QED  BY <1>1 DEF Blake2s!Quadruples, Diagonal

(* The same for BLAKE2s.                                                   *)
LEMMA Blake2sMixes ==
  ASSUME NEW v, DOMAIN v = 0 .. 15, NEW s \in 0 .. 7, NEW m0, NEW m1
  PROVE  LET q == Blake2s!Quadruples[s + 1]
             r == Blake2s!G(v, q[1], q[2], q[3], q[4], m0, m1)
         IN  /\ DOMAIN r = 0 .. 15
             /\ r = IF s < 4 THEN Standard!Mixed("blake2s", v, s, m0, m1)
                    ELSE Standard!Rotated(Standard!Mixed("blake2s", Standard!Rotated(v, 1), s - 4, m0, m1), -1)
<1>. DEFINE A1(a, b) == Blake2s!Add(Blake2s!Add(a, b), m0)
            D1(a, b, d) == Blake2s!R(Blake2s!Xor(d, A1(a, b)), 16)
            C1(a, b, c, d) == Blake2s!Add(c, D1(a, b, d))
            B1(a, b, c, d) == Blake2s!R(Blake2s!Xor(b, C1(a, b, c, d)), 12)
            A2(a, b, c, d) == Blake2s!Add(Blake2s!Add(A1(a, b), B1(a, b, c, d)), m1)
            D2(a, b, c, d) == Blake2s!R(Blake2s!Xor(D1(a, b, d), A2(a, b, c, d)), 8)
            C2(a, b, c, d) == Blake2s!Add(C1(a, b, c, d), D2(a, b, c, d))
            B2(a, b, c, d) == Blake2s!R(Blake2s!Xor(B1(a, b, c, d), C2(a, b, c, d)), 7)
            q == Blake2s!Quadruples[s + 1]
            r == Blake2s!G(v, q[1], q[2], q[3], q[4], m0, m1)
<1>1. \A x, a, b, c, d : Blake2s!G(x, a, b, c, d, m0, m1) =
        Four(x, a, b, c, d, A2(x[a], x[b], x[c], x[d]), B2(x[a], x[b], x[c], x[d]),
                            C2(x[a], x[b], x[c], x[d]), D2(x[a], x[b], x[c], x[d]))
  BY DEF Blake2s!G, Four
<1>2. \A x, c : Standard!Mixed("blake2s", x, c, m0, m1) = Blake2s!G(x, c, c + 4, c + 8, c + 12, m0, m1)
  <2>1. \A x, y : Standard!Blake2s!Add(x, y) = Blake2s!Add(x, y)
    BY Zenon DEF Standard!Blake2s!Add, Blake2s!Add
  <2>2. \A x, y : Standard!Blake2s!Xor(x, y) = Blake2s!Xor(x, y)
    BY Zenon DEF Standard!Blake2s!Xor, Blake2s!Xor
  <2>3. \A x, n : Standard!Blake2s!R(x, n) = Blake2s!R(x, n)
    BY Zenon DEF Standard!Blake2s!R, Blake2s!R, Standard!Blake2s!ShiftL, Blake2s!ShiftL, Standard!Blake2s!ShiftR, Blake2s!ShiftR
  <2>4. \A x, c : Standard!Mixed("blake2s", x, c, m0, m1) = Standard!Blake2s!G(x, c, c + 4, c + 8, c + 12, m0, m1)
    BY Zenon DEF Standard!Mixed
  <2>5. \A x, a, b, c, d : Standard!Blake2s!G(x, a, b, c, d, m0, m1) = Blake2s!G(x, a, b, c, d, m0, m1)
    <3>. SUFFICES ASSUME NEW x, NEW a, NEW b, NEW c, NEW d
                  PROVE  Standard!Blake2s!G(x, a, b, c, d, m0, m1) = Blake2s!G(x, a, b, c, d, m0, m1)
      OBVIOUS
    <3>. DEFINE a1 == Standard!Blake2s!Add(Standard!Blake2s!Add(x[a], x[b]), m0)
                d1 == Standard!Blake2s!R(Standard!Blake2s!Xor(x[d], a1), 16)
                c1 == Standard!Blake2s!Add(x[c], d1)
                b1 == Standard!Blake2s!R(Standard!Blake2s!Xor(x[b], c1), 12)
                a2 == Standard!Blake2s!Add(Standard!Blake2s!Add(a1, b1), m1)
                d2 == Standard!Blake2s!R(Standard!Blake2s!Xor(d1, a2), 8)
                c2 == Standard!Blake2s!Add(c1, d2)
                b2 == Standard!Blake2s!R(Standard!Blake2s!Xor(b1, c2), 7)
    <3>1. Standard!Blake2s!G(x, a, b, c, d, m0, m1) = Four(x, a, b, c, d, a2, b2, c2, d2)
      BY DEF Standard!Blake2s!G, Four
    <3>. HIDE DEF A1, D1, C1, B1, A2, D2, C2, B2
    <3>2. a1 = A1(x[a], x[b])
      BY <2>1, Zenon DEF A1
    <3>. HIDE DEF a1
    <3>3. d1 = D1(x[a], x[b], x[d])
      BY <2>2, <2>3, <3>2, Zenon DEF D1
    <3>. HIDE DEF d1
    <3>4. c1 = C1(x[a], x[b], x[c], x[d])
      BY <2>1, <3>3, Zenon DEF C1
    <3>. HIDE DEF c1
    <3>5. b1 = B1(x[a], x[b], x[c], x[d])
      BY <2>2, <2>3, <3>4, Zenon DEF B1
    <3>. HIDE DEF b1
    <3>6. a2 = A2(x[a], x[b], x[c], x[d])
      BY <2>1, <3>2, <3>5, Zenon DEF A2
    <3>. HIDE DEF a2
    <3>7. d2 = D2(x[a], x[b], x[c], x[d])
      BY <2>2, <2>3, <3>3, <3>6, Zenon DEF D2
    <3>. HIDE DEF d2
    <3>8. c2 = C2(x[a], x[b], x[c], x[d])
      BY <2>1, <3>4, <3>7, Zenon DEF C2
    <3>. HIDE DEF c2
    <3>9. b2 = B2(x[a], x[b], x[c], x[d])
      BY <2>2, <2>3, <3>5, <3>8, Zenon DEF B2
    <3>. HIDE DEF b2
    <3>. QED  BY <1>1, <3>1, <3>6, <3>7, <3>8, <3>9, Zenon
  <2>. QED  BY <2>4, <2>5, Zenon
<1>. HIDE DEF A2, B2, C2, D2
<1>3. CASE s < 4
  <2>1. q = <<s, s + 4, s + 8, s + 12>>
    BY <1>3, Blake2sQuadruples
  <2>2. q[1] = s /\ q[2] = s + 4 /\ q[3] = s + 8 /\ q[4] = s + 12
    <3>. HIDE DEF q
    <3>. QED  BY <2>1
  <2>. HIDE DEF q
  <2>3. r = Blake2s!G(v, s, s + 4, s + 8, s + 12, m0, m1)
    BY <2>2, Zenon
  <2>4. DOMAIN r = 0 .. 15
    <3>. HIDE DEF r
    <3>1. r = Four(v, s, s + 4, s + 8, s + 12,
                   A2(v[s], v[s + 4], v[s + 8], v[s + 12]), B2(v[s], v[s + 4], v[s + 8], v[s + 12]),
                   C2(v[s], v[s + 4], v[s + 8], v[s + 12]), D2(v[s], v[s + 4], v[s + 8], v[s + 12]))
      BY <1>1, <2>3, Zenon
    <3>. QED  BY <3>1 DEF Four
  <2>. HIDE DEF r
  <2>5. r = Standard!Mixed("blake2s", v, s, m0, m1)
    BY <1>2, <2>3, Zenon
  <2>. QED  BY <1>3, <2>4, <2>5 DEF r, q
<1>4. CASE ~ (s < 4)
  <2>. DEFINE e == s - 4
              u == Standard!Rotated(v, 1)
              a == v[Diagonal(e, 0)]
              b == v[Diagonal(e, 1)]
              c == v[Diagonal(e, 2)]
              d == v[Diagonal(e, 3)]
  <2>0. e \in 0 .. 3
    BY <1>4
  <2>1. q = <<Diagonal(e, 0), Diagonal(e, 1), Diagonal(e, 2), Diagonal(e, 3)>>
    BY <1>4, Blake2sQuadruples
  <2>2. q[1] = Diagonal(e, 0) /\ q[2] = Diagonal(e, 1) /\ q[3] = Diagonal(e, 2) /\ q[4] = Diagonal(e, 3)
    <3>. HIDE DEF q, e
    <3>. QED  BY <2>1
  <2>. HIDE DEF q
  <2>3. r = Blake2s!G(v, Diagonal(e, 0), Diagonal(e, 1), Diagonal(e, 2), Diagonal(e, 3), m0, m1)
    BY <2>2, Zenon
  <2>. HIDE DEF r
  <2>4. r = Diagonals(v, e, A2(a, b, c, d), B2(a, b, c, d), C2(a, b, c, d), D2(a, b, c, d))
    <3>. HIDE DEF e
    <3>. QED  BY <1>1, <2>3, Zenon DEF Diagonals
  <2>5. u[e] = a /\ u[e + 4] = b /\ u[e + 8] = c /\ u[e + 12] = d
    <3>. HIDE DEF e
    <3>1. /\ e \in 0 .. 15 /\ 4 * (e \div 4) + (((e % 4) + 1 * (e \div 4)) % 4) = Diagonal(e, 0)
          /\ e + 4 \in 0 .. 15 /\ 4 * ((e + 4) \div 4) + ((((e + 4) % 4) + 1 * ((e + 4) \div 4)) % 4) = Diagonal(e, 1)
          /\ e + 8 \in 0 .. 15 /\ 4 * ((e + 8) \div 4) + ((((e + 8) % 4) + 1 * ((e + 8) \div 4)) % 4) = Diagonal(e, 2)
          /\ e + 12 \in 0 .. 15 /\ 4 * ((e + 12) \div 4) + ((((e + 12) % 4) + 1 * ((e + 12) \div 4)) % 4) = Diagonal(e, 3)
      <4>1. e = 0 \/ e = 1 \/ e = 2 \/ e = 3
        BY <2>0
      <4>. QED  BY <4>1 DEF Diagonal
    <3>. QED  BY <3>1, Zenon DEF Standard!Rotated
  <2>6. Standard!Mixed("blake2s", u, e, m0, m1) =
          Columns(u, e, A2(a, b, c, d), B2(a, b, c, d), C2(a, b, c, d), D2(a, b, c, d))
    <3>. HIDE DEF e, u, a, b, c, d
    <3>. QED  BY <1>1, <1>2, <2>5, Zenon DEF Columns
  <2>7. r = Standard!Rotated(Standard!Mixed("blake2s", u, e, m0, m1), -1)
    <3>. HIDE DEF a, b, c, d, e
    <3>. QED  BY <2>0, <2>4, <2>6, ColumnOfRotated, Zenon
  <2>8. DOMAIN r = 0 .. 15
    <3>. HIDE DEF a, b, c, d, e
    <3>. QED  BY <2>4 DEF Diagonals, Four
  <2>. QED  BY <1>4, <2>7, <2>8 DEF r, q
<1>. QED  BY <1>3, <1>4

(* The twelve rounds of BLAKE2b repeat the first two of the ten            *)
(* permutations.                                                           *)
LEMMA Blake2bTable ==
  ASSUME NEW r \in 1 .. 12
  PROVE  /\ Blake2b!ROUND[r] \in [1 .. 16 -> 0 .. 15]
         /\ Blake2b!ROUND[r] = Standard!Blake2b!ROUND[((r - 1) % 10) + 1]
<1>1. r = 1 \/ r = 2 \/ r = 3 \/ r = 4 \/ r = 5 \/ r = 6 \/ r = 7 \/ r = 8 \/ r = 9 \/ r = 10 \/ r = 11 \/ r = 12
  OBVIOUS
<1>2. Blake2b!ROUND[r] = Standard!Blake2b!ROUND[((r - 1) % 10) + 1]
  BY <1>1 DEF Blake2b!ROUND, Standard!Blake2b!ROUND
<1>3. Blake2b!ROUND[r] \in [1 .. 16 -> 0 .. 15]
  BY <1>1 DEF Blake2b!ROUND
<1>. QED  BY <1>2, <1>3

(* A use of G in blake2b/portable.c is a step of the standard.             *)
LEMMA Blake2bStep ==
  ASSUME NEW s \in 0 .. Blake2b!Rounds - 1, NEW v, DOMAIN v = 0 .. 15, NEW m, NEW b,
         \A q \in 0 .. 15 : m[q] = Standard!MessageWord("blake2b", b, q)
  PROVE  /\ DOMAIN Blake2b!StepAt(s, v, m) = 0 .. 15
         /\ Blake2b!StepAt(s, v, m) = Standard!BlakeRound("blake2b", s, v, b)
<1>. DEFINE r == s \div 8 + 1
            k == s % 8
            q == Blake2b!Quadruples[k + 1]
            row == Blake2b!ROUND[r]
            m0 == m[row[2 * k + 1]]
            m1 == m[row[2 * k + 2]]
            x == Blake2b!G(v, q[1], q[2], q[3], q[4], m0, m1)
<1>1. r \in 1 .. 12 /\ k \in 0 .. 7 /\ ((r - 1) % 10) + 1 = ((s \div 8) % 10) + 1
  BY DEF Blake2b!Rounds
<1>2. /\ row \in [1 .. 16 -> 0 .. 15]
      /\ row = Standard!Blake2b!ROUND[((s \div 8) % 10) + 1]
  <2>. HIDE DEF r
  <2>. QED  BY <1>1, Blake2bTable
<1>3. /\ m0 = Standard!MessageWord("blake2b", b, row[2 * k + 0 + 1])
      /\ m1 = Standard!MessageWord("blake2b", b, row[2 * k + 1 + 1])
  <2>. HIDE DEF row, k
  <2>1. 2 * k + 1 \in 1 .. 16 /\ 2 * k + 2 \in 1 .. 16 /\ 2 * k + 0 + 1 = 2 * k + 1 /\ 2 * k + 1 + 1 = 2 * k + 2
    BY <1>1
  <2>2. row[2 * k + 1] \in 0 .. 15 /\ row[2 * k + 2] \in 0 .. 15
    BY <1>2, <2>1
  <2>. QED  BY <2>1, <2>2
<1>4. Blake2b!StepAt(s, v, m) = x
  BY Zenon DEF Blake2b!StepAt
<1>5. /\ DOMAIN x = 0 .. 15
      /\ x = IF k < 4 THEN Standard!Mixed("blake2b", v, k, m0, m1)
             ELSE Standard!Rotated(Standard!Mixed("blake2b", Standard!Rotated(v, 1), k - 4, m0, m1), -1)
  <2>. HIDE DEF k, m0, m1
  <2>. QED  BY <1>1, Blake2bMixes
<1>6. Standard!BlakeRound("blake2b", s, v, b) =
        IF k < 4 THEN Standard!Mixed("blake2b", v, k, m0, m1)
        ELSE Standard!Rotated(Standard!Mixed("blake2b", Standard!Rotated(v, 1), k - 4, m0, m1), -1)
  <2>. HIDE DEF m0, m1, row
  <2>. QED  BY <1>2, <1>3, Zenon DEF Standard!BlakeRound
<1>. HIDE DEF x, k, m0, m1
<1>. QED  BY <1>4, <1>5, <1>6

(* BLAKE2s has the same permutations.                                      *)
LEMMA Blake2sTable ==
  ASSUME NEW r \in 1 .. 10
  PROVE  /\ Blake2s!ROUND[r] \in [1 .. 16 -> 0 .. 15]
         /\ Blake2s!ROUND[r] = Standard!Blake2b!ROUND[((r - 1) % 10) + 1]
<1>1. r = 1 \/ r = 2 \/ r = 3 \/ r = 4 \/ r = 5 \/ r = 6 \/ r = 7 \/ r = 8 \/ r = 9 \/ r = 10
  OBVIOUS
<1>2. Blake2s!ROUND[r] = Standard!Blake2b!ROUND[((r - 1) % 10) + 1]
  BY <1>1 DEF Blake2s!ROUND, Standard!Blake2b!ROUND
<1>3. Blake2s!ROUND[r] \in [1 .. 16 -> 0 .. 15]
  BY <1>1 DEF Blake2s!ROUND
<1>. QED  BY <1>2, <1>3

(* A use of G in blake2s/portable.c, likewise.                             *)
LEMMA Blake2sStep ==
  ASSUME NEW s \in 0 .. Blake2s!Rounds - 1, NEW v, DOMAIN v = 0 .. 15, NEW m, NEW b,
         \A q \in 0 .. 15 : m[q] = Standard!MessageWord("blake2s", b, q)
  PROVE  /\ DOMAIN Blake2s!StepAt(s, v, m) = 0 .. 15
         /\ Blake2s!StepAt(s, v, m) = Standard!BlakeRound("blake2s", s, v, b)
<1>. DEFINE r == s \div 8 + 1
            k == s % 8
            q == Blake2s!Quadruples[k + 1]
            row == Blake2s!ROUND[r]
            m0 == m[row[2 * k + 1]]
            m1 == m[row[2 * k + 2]]
            x == Blake2s!G(v, q[1], q[2], q[3], q[4], m0, m1)
<1>1. r \in 1 .. 10 /\ k \in 0 .. 7 /\ ((r - 1) % 10) + 1 = ((s \div 8) % 10) + 1
  BY DEF Blake2s!Rounds
<1>2. /\ row \in [1 .. 16 -> 0 .. 15]
      /\ row = Standard!Blake2b!ROUND[((s \div 8) % 10) + 1]
  <2>. HIDE DEF r
  <2>. QED  BY <1>1, Blake2sTable
<1>3. /\ m0 = Standard!MessageWord("blake2s", b, row[2 * k + 0 + 1])
      /\ m1 = Standard!MessageWord("blake2s", b, row[2 * k + 1 + 1])
  <2>. HIDE DEF row, k
  <2>1. 2 * k + 1 \in 1 .. 16 /\ 2 * k + 2 \in 1 .. 16 /\ 2 * k + 0 + 1 = 2 * k + 1 /\ 2 * k + 1 + 1 = 2 * k + 2
    BY <1>1
  <2>2. row[2 * k + 1] \in 0 .. 15 /\ row[2 * k + 2] \in 0 .. 15
    BY <1>2, <2>1
  <2>. QED  BY <2>1, <2>2
<1>4. Blake2s!StepAt(s, v, m) = x
  BY Zenon DEF Blake2s!StepAt
<1>5. /\ DOMAIN x = 0 .. 15
      /\ x = IF k < 4 THEN Standard!Mixed("blake2s", v, k, m0, m1)
             ELSE Standard!Rotated(Standard!Mixed("blake2s", Standard!Rotated(v, 1), k - 4, m0, m1), -1)
  <2>. HIDE DEF k, m0, m1
  <2>. QED  BY <1>1, Blake2sMixes
<1>6. Standard!BlakeRound("blake2s", s, v, b) =
        IF k < 4 THEN Standard!Mixed("blake2s", v, k, m0, m1)
        ELSE Standard!Rotated(Standard!Mixed("blake2s", Standard!Rotated(v, 1), k - 4, m0, m1), -1)
  <2>. HIDE DEF m0, m1, row
  <2>. QED  BY <1>2, <1>3, Zenon DEF Standard!BlakeRound
<1>. HIDE DEF x, k, m0, m1
<1>. QED  BY <1>4, <1>5, <1>6

-----------------------------------------------------------------------------
(* The start of a block of BLAKE2.                                         *)

(* The initial vectors are those of the standard, and they are words.      *)
LEMMA Blake2bIv ==
  /\ Blake2b!iv = Standard!Blake2b!iv
  /\ Blake2b!iv[6] \subseteq 0 .. 63
<1>1. Blake2b!iv = Standard!Blake2b!iv
  <2>1. \A d : Standard!Blake2b!OfLimbs(d) = Blake2b!OfLimbs(d)
    BY Zenon DEF Standard!Blake2b!OfLimbs, Blake2b!OfLimbs, Standard!Blake2b!OfNat, Blake2b!OfNat
  <2>. QED  BY <2>1 DEF Blake2b!iv, Standard!Blake2b!iv
<1>2. ASSUME NEW s, Len(s) = 4
      PROVE  Blake2b!OfLimbs(s) \subseteq 0 .. 63
  <2>. SUFFICES ASSUME NEW z \in Blake2b!OfLimbs(s) PROVE z \in 0 .. 63
    OBVIOUS
  <2>1. PICK k \in 1 .. 4, b \in 0 .. 15 : z = 16 * (4 - k) + b
    BY <1>2 DEF Blake2b!OfLimbs
  <2>. QED  BY <2>1
<1>3. PICK s : Len(s) = 4 /\ Blake2b!iv[6] = Blake2b!OfLimbs(s)
  BY DEF Blake2b!iv
<1>. QED  BY <1>1, <1>2, <1>3

LEMMA Blake2sIv ==
  /\ Blake2s!iv = Standard!Blake2s!iv
  /\ Blake2s!iv[6] \subseteq 0 .. 31
<1>1. Blake2s!iv = Standard!Blake2s!iv
  <2>1. \A d : Standard!Blake2s!OfLimbs(d) = Blake2s!OfLimbs(d)
    BY Zenon DEF Standard!Blake2s!OfLimbs, Blake2s!OfLimbs, Standard!Blake2s!OfNat, Blake2s!OfNat
  <2>. QED  BY <2>1 DEF Blake2s!iv, Standard!Blake2s!iv
<1>2. ASSUME NEW s, Len(s) = 2
      PROVE  Blake2s!OfLimbs(s) \subseteq 0 .. 31
  <2>. SUFFICES ASSUME NEW z \in Blake2s!OfLimbs(s) PROVE z \in 0 .. 31
    OBVIOUS
  <2>1. PICK k \in 1 .. 2, b \in 0 .. 15 : z = 16 * (2 - k) + b
    BY <1>2 DEF Blake2s!OfLimbs
  <2>. QED  BY <2>1
<1>3. PICK s : Len(s) = 2 /\ Blake2s!iv[6] = Blake2s!OfLimbs(s)
  BY DEF Blake2s!iv
<1>. QED  BY <1>1, <1>2, <1>3

(* The registers at the start of a block of BLAKE2b: the two words of the  *)
(* counter are the halves of the count.                                    *)
LEMMA Blake2bStart ==
  ASSUME NEW h, NEW c \in Counter2b, NEW l \in BOOLEAN
  PROVE  LET r == Blake2b!Registers(h, c, IF l THEN 0 .. 63 ELSE {}, {})
         IN  DOMAIN r = 0 .. 15 /\ r = Standard!BlakeStart("blake2b", h, Blake2b!Total(c), l)
<1>. DEFINE T == Blake2b!Total(c)
            iv == Blake2b!iv
            lo == {b \in T : b < 64}
            hi == {b - 64 : b \in {p \in T : p >= 64}}
            f == IF l THEN 0 .. 63 ELSE {}
<1>1. lo = c.lower /\ hi = c.upper
  <2>1. c.lower \subseteq 0 .. 63 /\ c.upper \subseteq 0 .. 63
    BY DEF Counter2b
  <2>2. T = c.lower \cup {64 + b : b \in c.upper}
    BY Zenon DEF Blake2b!Total
  <2>3. \A b \in T : b \in Int /\ (b < 64 <=> b \in c.lower) /\ (b >= 64 <=> b - 64 \in c.upper)
    <3>. HIDE DEF T
    <3>. QED  BY <2>1, <2>2
  <2>4. lo = c.lower
    <3>. HIDE DEF T
    <3>. QED  BY <2>1, <2>2, <2>3
  <2>5. \A b \in c.upper : 64 + b \in T /\ 64 + b >= 64 /\ (64 + b) - 64 = b
    <3>. HIDE DEF T
    <3>. QED  BY <2>1, <2>2
  <2>6. hi = c.upper
    <3>. HIDE DEF T
    <3>1. hi \subseteq c.upper
      BY <2>3
    <3>2. \A b \in c.upper : b \in hi
      BY <2>5
    <3>. QED  BY <3>1, <3>2
  <2>. QED  BY <2>4, <2>6
<1>2. Blake2b!Xor(iv[6], f) = IF l THEN (0 .. 63) \ iv[6] ELSE iv[6]
  <2>. HIDE DEF iv
  <2>1. iv[6] \subseteq 0 .. 63
    BY Blake2bIv DEF iv
  <2>. QED  BY <2>1 DEF Blake2b!Xor
<1>3. Blake2b!Xor(iv[7], {}) = iv[7]
  <2>. HIDE DEF iv
  <2>. QED  BY DEF Blake2b!Xor
<1>4. \A y, z : Standard!Counter!Xor(y, z) = Blake2b!Xor(y, z)
  BY Zenon DEF Standard!Counter!Xor, Blake2b!Xor
<1>5. Blake2b!Registers(h, c, f, {}) =
        [j \in 0 .. 15 |->
           IF j < 8 THEN h[j]
           ELSE IF j = 12 THEN Blake2b!Xor(iv[4], c.lower)
           ELSE IF j = 13 THEN Blake2b!Xor(iv[5], c.upper)
           ELSE IF j = 14 THEN Blake2b!Xor(iv[6], f)
           ELSE IF j = 15 THEN Blake2b!Xor(iv[7], {})
           ELSE iv[j - 8]]
  BY Zenon DEF Blake2b!Registers
<1>. HIDE DEF lo, hi, T
<1>6. Standard!BlakeStart("blake2b", h, T, l) =
        [j \in 0 .. 15 |->
           CASE j < 8  -> h[j]
             [] j = 12 -> Standard!Counter!Xor(iv[4], lo)
             [] j = 13 -> Standard!Counter!Xor(iv[5], hi)
             [] j = 14 -> IF l THEN (0 .. 63) \ iv[6] ELSE iv[6]
             [] OTHER  -> iv[j - 8]]
  <2>. HIDE DEF iv
  <2>1. Standard!Blake2b!iv = iv
    BY Blake2bIv DEF iv
  <2>. QED  BY <2>1 DEF Standard!BlakeStart, lo, hi
<1>. HIDE DEF iv, f
<1>7. Blake2b!Registers(h, c, f, {}) = Standard!BlakeStart("blake2b", h, T, l)
  BY <1>1, <1>2, <1>3, <1>4, <1>5, <1>6
<1>8. DOMAIN Blake2b!Registers(h, c, f, {}) = 0 .. 15
  BY <1>5
<1>. QED  BY <1>7, <1>8, Zenon DEF f, T

(* The same for BLAKE2s, whose counter of 64 bits is split over two        *)
(* registers.                                                              *)
LEMMA Blake2sStart ==
  ASSUME NEW h, NEW c \in SUBSET (0 .. 63), NEW l \in BOOLEAN
  PROVE  LET r == Blake2s!Registers(h, c, IF l THEN 0 .. 31 ELSE {}, {})
         IN  DOMAIN r = 0 .. 15 /\ r = Standard!BlakeStart("blake2s", h, c, l)
<1>. DEFINE T == c
            iv == Blake2s!iv
            lo == {b \in T : b < 32}
            hi == {b - 32 : b \in {p \in T : p >= 32}}
            f == IF l THEN 0 .. 31 ELSE {}
<1>1. lo = Blake2s!low32(c) /\ hi = Blake2s!high32(c)
  BY DEF Blake2s!low32, Blake2s!high32
<1>2. Blake2s!Xor(iv[6], f) = IF l THEN (0 .. 31) \ iv[6] ELSE iv[6]
  <2>. HIDE DEF iv
  <2>1. iv[6] \subseteq 0 .. 31
    BY Blake2sIv DEF iv
  <2>. QED  BY <2>1 DEF Blake2s!Xor
<1>3. Blake2s!Xor(iv[7], {}) = iv[7]
  <2>. HIDE DEF iv
  <2>. QED  BY DEF Blake2s!Xor
<1>4. \A y, z : Standard!Counter!Xor(y, z) = Blake2s!Xor(y, z)
  BY Zenon DEF Standard!Counter!Xor, Blake2s!Xor
<1>5. Blake2s!Registers(h, c, f, {}) =
        [j \in 0 .. 15 |->
           IF j < 8 THEN h[j]
           ELSE IF j = 12 THEN Blake2s!Xor(iv[4], Blake2s!low32(c))
           ELSE IF j = 13 THEN Blake2s!Xor(iv[5], Blake2s!high32(c))
           ELSE IF j = 14 THEN Blake2s!Xor(iv[6], f)
           ELSE IF j = 15 THEN Blake2s!Xor(iv[7], {})
           ELSE iv[j - 8]]
  BY Zenon DEF Blake2s!Registers
<1>. HIDE DEF lo, hi, T
<1>6. Standard!BlakeStart("blake2s", h, T, l) =
        [j \in 0 .. 15 |->
           CASE j < 8  -> h[j]
             [] j = 12 -> Standard!Counter!Xor(iv[4], lo)
             [] j = 13 -> Standard!Counter!Xor(iv[5], hi)
             [] j = 14 -> IF l THEN (0 .. 31) \ iv[6] ELSE iv[6]
             [] OTHER  -> iv[j - 8]]
  <2>. HIDE DEF iv
  <2>1. Standard!Blake2s!iv = iv
    BY Blake2sIv DEF iv
  <2>. QED  BY <2>1 DEF Standard!BlakeStart, lo, hi
<1>. HIDE DEF iv, f
<1>7. Blake2s!Registers(h, c, f, {}) = Standard!BlakeStart("blake2s", h, T, l)
  BY <1>1, <1>2, <1>3, <1>4, <1>5, <1>6
<1>8. DOMAIN Blake2s!Registers(h, c, f, {}) = 0 .. 15
  BY <1>5
<1>. QED  BY <1>7, <1>8, Zenon DEF f, T

-----------------------------------------------------------------------------
(* The inductive invariant of PortableCompress.                            *)
HashSize  == IF fn = "sha1" THEN 5 ELSE 8
RegSize   == IF fn = "sha1" THEN 5 ELSE IF IsSha THEN 8 ELSE 16
BlockSize == IF fn \in {"sha512", "blake2b"} THEN 128 ELSE 64

(* Where the calls are.  LastBlock is the call in which nobody asked for a *)
(* number of blocks.                                                       *)
CallsOK ==
  /\ job \in Jobs /\ host \in Builds
  /\ left \in Nat /\ asked \in Nat /\ done \in Nat
  /\ \/ /\ pc = "caller" /\ asked = 0 /\ left = 0
        /\ \/ done <= Ordinary
           \/ job.last /\ done = Ordinary + 1
     \/ pc = "loop" /\ left <= asked /\ done + left <= Ordinary
     \/ /\ Running
        /\ \/ asked > 0 /\ left \in 1 .. asked /\ done + left <= Ordinary
           \/ asked = 0 /\ left = 1 /\ job.last /\ done = Ordinary

(* The counters, and how far the one of BLAKE2s is ahead of the cells.     *)
CountersOK ==
  /\ fn = "blake2b" => cell \in Counter2b /\ count \in Counter2b
  /\ fn = "blake2s" =>
       /\ cell \in SUBSET (0 .. 63) /\ count \in SUBSET (0 .. 63)
       /\ pc = "loop" => count = Blake2s!Counted(cell, 64 * (asked - left))
       /\ (Running /\ asked > 0) => count = Blake2s!Counted(cell, 64 * (asked - left + 1))

(* The arrays and the place in the block.                                  *)
Array(h, n) == h = [j \in 0 .. n - 1 |-> h[j]]
Listed(s, n) == s = [j \in 1 .. n |-> s[j]]

ArraysOK ==
  /\ Array(hash, HashSize)
  /\ ~Running => reg = << >> /\ w = << >> /\ t = 0 /\ i = 0 /\ used = << >>
  /\ Running => /\ DOMAIN reg = 0 .. RegSize - 1
                /\ DOMAIN w = 0 .. 15
                /\ t \in 0 .. Rounds
  /\ pc = "schedule" => IsSha /\ i \in 0 .. 15 /\ t % 16 = 0 /\ t \in 1 .. Rounds - 1
  /\ ~IsSha => used = << >>

(* The message words of SHA that exist when T were used: the first T are   *)
(* in u, those still to be used, up to top, in the array x.                *)
WordAt(n, T, u, x) == IF n < T THEN u[n + 1] ELSE x[n % 16]

(* The word that the words two, three, seven, ... places before it give.   *)
Expansion(f, a2, a3, a7, a8, a14, a15, a16) ==
  CASE f = "sha1" -> Sha1!RotateL(Sha1!Xor(Sha1!Xor(a3, a8), Sha1!Xor(a14, a16)), 1)
    [] f = "sha256" -> W(32)!Add(W(32)!Add(Sha256!SIGS1(a2), a7), W(32)!Add(Sha256!SIGS0(a15), a16))
    [] f = "sha512" -> W(64)!Add(W(64)!Add(Sha512!SIGS1(a2), a7), W(64)!Add(Sha512!SIGS0(a15), a16))

(* Word n is made from these.                                              *)
Expanded(f, n, T, u, x) ==
  WordAt(n, T, u, x) =
    Expansion(f, WordAt(n - 2, T, u, x), WordAt(n - 3, T, u, x), WordAt(n - 7, T, u, x),
              WordAt(n - 8, T, u, x), WordAt(n - 14, T, u, x), WordAt(n - 15, T, u, x),
              WordAt(n - 16, T, u, x))

(* Listed, made, and the last sixteen of them in the array.                *)
ShaWords(f, b, T, top, u, x) ==
  /\ Listed(u, T)
  /\ \A n \in 0 .. top - 1 : IF n < 16 THEN WordAt(n, T, u, x) = Standard!MessageWord(f, b, n)
                             ELSE Expanded(f, n, T, u, x)
  /\ \A n \in 0 .. top - 1 : n >= top - 16 => WordAt(n, T, u, x) = x[n % 16]

(* How many words exist.                                                   *)
Top == IF pc = "schedule" THEN t + i
       ELSE IF t = Rounds THEN t ELSE 16 * (t \div 16) + 16

(* The words in the array are those of the block.                          *)
WordsOK ==
  Running => IF IsSha THEN ShaWords(fn, job.blocks[done + 1], t, Top, used, w)
             ELSE \A q \in 0 .. 15 : w[q] = Standard!MessageWord(fn, job.blocks[done + 1], q)

(* All of it.                                                              *)
CompressInv == CallsOK /\ CountersOK /\ ArraysOK /\ WordsOK

(* What the assumption about the streams says of the current one.          *)
LEMMA Streams ==
  ASSUME job \in Jobs
  PROVE  /\ fn \in {"sha1", "sha256", "sha512", "blake2b", "blake2s"}
         /\ IsSha => ShaStream(job)
         /\ ~IsSha => Blake2Stream(job)
         /\ Len(job.blocks) \in Nat
         /\ Ordinary \in Nat
         /\ Rounds \in {64, 80, 96} /\ Rounds % 16 = 0 /\ (IsSha => Rounds % RegSize = 0)
         /\ RegSize \in {5, 8, 16}
<1>1. /\ fn \in {"sha1", "sha256", "sha512", "blake2b", "blake2s"}
      /\ IsSha => ShaStream(job)
      /\ ~IsSha => Blake2Stream(job)
  BY StreamsAssumption DEF fn, IsSha
<1>2. IsSha => job.blocks \in Blocks(IF fn = "sha512" THEN 128 ELSE 64) /\ job.last = FALSE
  BY <1>1 DEF ShaStream, fn
<1>3. ~IsSha => /\ job.blocks \in Blocks(IF fn = "blake2b" THEN 128 ELSE 64)
                /\ job.last \in BOOLEAN /\ (job.last => job.blocks # << >>)
  BY <1>1 DEF Blake2Stream, fn
<1>4. \A n : job.blocks \in Blocks(n) => Len(job.blocks) \in Nat /\ (job.blocks # << >> => Len(job.blocks) > 0)
  BY DEF Blocks
<1>5. Len(job.blocks) \in Nat /\ Ordinary \in Nat
  BY <1>2, <1>3, <1>4 DEF Ordinary
<1>6. Rounds \in {64, 80, 96} /\ Rounds % 16 = 0 /\ (IsSha => Rounds % RegSize = 0)
  BY <1>1 DEF Rounds, RegSize, IsSha, Sha1!Rounds, Sha256!Rounds, Sha512!Rounds, Blake2b!Rounds, Blake2s!Rounds
<1>7. RegSize \in {5, 8, 16}
  BY DEF RegSize
<1>. QED  BY <1>1, <1>5, <1>6, <1>7

(* Its blocks have the size that the function compresses.                  *)
LEMMA BlockBytes ==
  ASSUME job \in Jobs, NEW k \in 1 .. Len(job.blocks)
  PROVE  job.blocks[k] \in Seq(Byte) /\ Len(job.blocks[k]) = BlockSize
<1>1. job.blocks \in Blocks(BlockSize)
  BY Streams DEF ShaStream, Blake2Stream, BlockSize, IsSha, fn
<1>2. BlockSize \in Nat
  BY DEF BlockSize
<1>3. job.blocks[k] \in [1 .. BlockSize -> Byte]
  <2>. HIDE DEF BlockSize
  <2>. QED  BY <1>1, Elements, Zenon DEF Blocks, Byte
<1>. HIDE DEF BlockSize
<1>. QED  BY <1>2, <1>3

(* Every step keeps the place in the calls.                                *)
LEMMA CallsKept ==
  ASSUME CallsOK, [Next]_vars
  PROVE  CallsOK'
<1>. USE DEF CallsOK, Running
<1>0. Ordinary \in Nat /\ Len(job.blocks) \in Nat
  BY Streams
<1>1. job' = job => Ordinary' = Ordinary /\ fn' = fn
  BY DEF Ordinary, fn
<1>. HIDE DEF Ordinary
<1>2. ASSUME NEW n \in 0 .. Len(job.blocks), CallCompress(n) PROVE CallsOK'
  BY <1>0, <1>1, <1>2 DEF CallCompress
<1>3. CASE LoadSha
  BY <1>0, <1>1, <1>3 DEF LoadSha
<1>4. CASE LoadBlake2b
  BY <1>0, <1>1, <1>4 DEF LoadBlake2b
<1>5. CASE LoadBlake2s
  BY <1>0, <1>1, <1>5 DEF LoadBlake2s
<1>6. CASE LastBlake2b
  BY <1>0, <1>1, <1>6 DEF LastBlake2b
<1>7. CASE LastBlake2s
  BY <1>0, <1>1, <1>7 DEF LastBlake2s
<1>8. CASE StepSha
  BY <1>0, <1>1, <1>8 DEF StepSha
<1>9. CASE StepBlake2
  BY <1>0, <1>1, <1>9 DEF StepBlake2
<1>10. CASE ScheduleStatement
  BY <1>0, <1>1, <1>10 DEF ScheduleStatement
<1>11. CASE UpdateHash
  BY <1>0, <1>1, <1>11 DEF UpdateHash
<1>12. CASE Return
  BY <1>0, <1>1, <1>12 DEF Return
<1>13. CASE UNCHANGED vars
  BY <1>0, <1>1, <1>13 DEF vars
<1>. QED
  BY <1>2, <1>3, <1>4, <1>5, <1>6, <1>7, <1>8, <1>9, <1>10, <1>11, <1>12, <1>13 DEF Next

(* The word of zero is empty.                                              *)
LEMMA NoDigits ==
  ASSUME NEW B \in Nat \ {0}
  PROVE  W(B)!OfNat(0) = {}
<1>1. PICK f : Halves(f, 0, B) /\ W(B)!OfNat(0) = {k \in 0 .. B - 1 : f[k] % 2 = 1}
  BY HalvesExist, 0 \in Nat
<1>. DEFINE S == {n \in Nat : n <= B - 1 => f[n] = 0}
<1>2. \A n \in Nat : n \in S
  <2>1. 0 \in S
    BY <1>1 DEF Halves
  <2>2. ASSUME NEW n \in Nat, n \in S PROVE n + 1 \in S
    BY <1>1, <2>2 DEF Halves
  <2>. HIDE DEF S
  <2>. QED  BY <2>1, <2>2, NatSet
<1>. QED  BY <1>1, <1>2

(* A call of no blocks counts nothing.                                     *)
LEMMA NothingCounted ==
  ASSUME NEW c \in SUBSET (0 .. 63)
  PROVE  Blake2s!Counted(c, 0) = c
<1>1. W(64)!OfNat(0) = {}
  BY NoDigits, 64 \in Nat \ {0}
<1>2. \A k \in 0 .. 63 : k \in W(64)!Add(c, {}) <=> k \in c
  <2>1. \A k \in Nat : ~ Carry(c, {}, k)
    BY DEF Carry
  <2>2. \A k \in 0 .. 63 : k \in W(64)!Add(c, {}) <=> (((k \in c) <=> (k \in {})) <=> Carry(c, {}, k))
    BY SumBit
  <2>. QED  BY <2>1, <2>2
<1>3. W(64)!Add(c, {}) \subseteq 0 .. 63
  BY SumWord
<1>4. Blake2s!Counted(c, 0) = W(64)!Add(c, W(64)!OfNat(0))
  BY Zenon DEF Blake2s!Counted, Blake2s!Word2b!Add, Blake2s!Word2b!OfNat, W!Add, W!OfNat
<1>. QED  BY <1>1, <1>2, <1>3, <1>4

(* Counting twice is counting the sum: what C counts block by block,       *)
(* updateLength counts at once.                                            *)
LEMMA CountedTwice ==
  ASSUME NEW c, NEW m \in Nat, NEW n \in Nat
  PROVE  /\ Blake2s!Counted(Blake2s!Counted(c, m), n) = Blake2s!Counted(c, m + n)
         /\ Blake2s!Counted(c, n) \in SUBSET (0 .. 63)
<1>1. \A x, k : Blake2s!Counted(x, k) = W(64)!Add(x, W(64)!OfNat(k))
  BY Zenon DEF Blake2s!Counted, Blake2s!Word2b!Add, Blake2s!Word2b!OfNat, W!Add, W!OfNat
<1>2. W(64)!Add(W(64)!OfNat(m), W(64)!OfNat(n)) = W(64)!OfNat(m + n)
  BY AddNumbers
<1>3. W(64)!Add(W(64)!Add(c, W(64)!OfNat(m)), W(64)!OfNat(n)) =
        W(64)!Add(c, W(64)!Add(W(64)!OfNat(m), W(64)!OfNat(n)))
  BY AddAssociates
<1>4. W(64)!Add(c, W(64)!OfNat(n)) \subseteq 0 .. 63
  BY SumWord
<1>. QED  BY <1>1, <1>2, <1>3, <1>4

(* Every step keeps the counters.                                          *)
LEMMA CountersKept ==
  ASSUME CallsOK, CountersOK, [Next]_vars
  PROVE  CountersOK'
<1>0. /\ Ordinary \in Nat /\ Len(job.blocks) \in Nat
      /\ fn \in {"sha1", "sha256", "sha512", "blake2b", "blake2s"}
      /\ ~IsSha => Blake2Stream(job)
      /\ job.last = TRUE => Ordinary + 1 = Len(job.blocks)
      /\ Ordinary <= Len(job.blocks)
  BY Streams DEF CallsOK, Ordinary
<1>1. job' = job => fn' = fn
  BY DEF fn
<1>2. ASSUME NEW k \in 1 .. Len(job.blocks)
      PROVE  Len(job.blocks[k]) = IF fn = "blake2b" THEN 128 ELSE BlockSize
  BY BlockBytes DEF CallsOK, BlockSize
<1>3. /\ fn = "blake2b" => job.lastBytes \in 0 .. 128
      /\ fn = "blake2s" => job.lastBytes \in 0 .. 64
  BY <1>0 DEF Blake2Stream, IsSha, fn
<1>4. ASSUME NEW n \in 0 .. Len(job.blocks), CallCompress(n) PROVE CountersOK'
  <2>1. /\ fn' = fn /\ cell' = cell /\ count' = cell /\ pc' = "loop" /\ asked' = n /\ left' = n
    BY <1>1, <1>4 DEF CallCompress
  <2>2. 64 * (asked' - left') = 0
    BY <2>1
  <2>3. fn = "blake2s" => Blake2s!Counted(cell', 64 * (asked' - left')) = cell
    BY <2>1, <2>2, NothingCounted DEF CountersOK
  <2>. QED  BY <2>1, <2>3 DEF CountersOK, Running
<1>5. CASE LoadSha
  BY <1>1, <1>5 DEF LoadSha, CountersOK, IsSha
<1>6. CASE LoadBlake2b
  <2>1. done + 1 \in 1 .. Len(job.blocks)
    BY <1>0, <1>6 DEF LoadBlake2b, CallsOK, Running
  <2>2. Blake2b!Counted(count, Len(job.blocks[done + 1])) \in Counter2b
    <3>1. Len(job.blocks[done + 1]) = 128 /\ 128 \in 0 .. 128
      BY <1>2, <1>6, <2>1 DEF LoadBlake2b
    <3>2. count \in Counter2b
      BY <1>6 DEF LoadBlake2b, CountersOK
    <3>. QED  BY <3>1, <3>2, CountedBlake2b
  <2>. QED  BY <1>1, <1>6, <2>2 DEF LoadBlake2b, CountersOK
<1>7. CASE LoadBlake2s
  <2>1. done + 1 \in 1 .. Len(job.blocks)
    BY <1>0, <1>7 DEF LoadBlake2s, CallsOK, Running
  <2>2. Len(job.blocks[done + 1]) = 64
    BY <1>2, <1>7, <2>1 DEF BlockSize, LoadBlake2s
  <2>3. asked - left \in Nat /\ 64 * (asked - left) \in Nat
        /\ 64 * (asked - left) + 64 = 64 * (asked - left + 1)
    BY <1>7 DEF LoadBlake2s, CallsOK, Running
  <2>4. count = Blake2s!Counted(cell, 64 * (asked - left))
    BY <1>7 DEF LoadBlake2s, CountersOK
  <2>5. /\ Blake2s!Counted(count, 64) = Blake2s!Counted(cell, 64 * (asked - left + 1))
        /\ Blake2s!Counted(count, 64) \in SUBSET (0 .. 63)
    BY <2>3, <2>4, CountedTwice
  <2>. QED  BY <1>1, <1>7, <2>2, <2>5 DEF LoadBlake2s, CountersOK
<1>8. CASE LastBlake2b
  <2>1. Blake2b!Counted(cell, job.lastBytes) \in Counter2b
    BY <1>3, <1>8, CountedBlake2b DEF LastBlake2b, CountersOK
  <2>. QED  BY <1>1, <1>8, <2>1 DEF LastBlake2b, CountersOK
<1>9. CASE LastBlake2s
  <2>1. Blake2s!Counted(cell, job.lastBytes) \in SUBSET (0 .. 63)
    BY <1>3, <1>9, CountedTwice DEF LastBlake2s
  <2>. QED  BY <1>1, <1>9, <2>1 DEF LastBlake2s, CountersOK
<1>10. CASE StepSha
  BY <1>1, <1>10 DEF StepSha, CountersOK, IsSha
<1>11. CASE StepBlake2
  BY <1>1, <1>11 DEF StepBlake2, CountersOK, Running
<1>12. CASE ScheduleStatement
  <2>1. /\ fn' = fn /\ cell' = cell /\ count' = count /\ asked' = asked /\ left' = left
        /\ pc = "schedule" /\ pc' \in {"step", "schedule"}
    BY <1>1, <1>12 DEF ScheduleStatement
  <2>. QED  BY <2>1 DEF CountersOK, Running
<1>13. CASE UpdateHash
  <2>1. /\ fn' = fn /\ cell' = cell /\ count' = count /\ asked' = asked /\ left' = left - 1
        /\ pc = "step" /\ pc' = IF asked = 0 THEN "caller" ELSE "loop"
    BY <1>1, <1>13 DEF UpdateHash
  <2>2. asked > 0 => asked' - left' = asked - left + 1
    BY <2>1 DEF CallsOK, Running
  <2>3. asked \in Nat
    BY DEF CallsOK
  <2>. QED  BY <2>1, <2>2, <2>3 DEF CountersOK, Running
<1>14. CASE Return
  <2>1. /\ fn' = fn /\ count' = count /\ pc' = "caller"
        /\ fn = "blake2b" => cell' = count
        /\ fn = "blake2s" => cell' = Blake2s!Counted(cell, 64 * asked)
    BY <1>1, <1>14 DEF Return
  <2>2. 64 * asked \in Nat
    BY DEF CallsOK
  <2>3. Blake2s!Counted(cell, 64 * asked) \in SUBSET (0 .. 63)
    BY <2>2, CountedTwice
  <2>. QED  BY <2>1, <2>3 DEF CountersOK, Running
<1>15. CASE UNCHANGED vars
  BY <1>1, <1>15 DEF vars, CountersOK, Running
<1>. QED
  BY <1>4, <1>5, <1>6, <1>7, <1>8, <1>9, <1>10, <1>11, <1>12, <1>13, <1>14, <1>15 DEF Next

(* On every host, LOAD gives the words of the block.                       *)
LEMMA LoadedWords ==
  ASSUME job \in Jobs, host \in Builds, NEW k \in 1 .. Len(job.blocks)
  PROVE  /\ DOMAIN LoadWords(job.blocks[k]) = 0 .. 15
         /\ \A q \in 0 .. 15 :
              LoadWords(job.blocks[k])[q] = Standard!MessageWord(fn, job.blocks[k], q)
<1>. DEFINE b == job.blocks[k]
<1>1. b \in Seq(Byte) /\ Len(b) = BlockSize
  BY BlockBytes
<1>2. host \in Sha1!Hosts
  BY StreamsAssumption
<1>. HIDE DEF b
<1>3. \A f, q : Standard!MessageWord(f, b, q) =
        IF Standard!IsSha(f) THEN WordMost(Standard!WordBytes(f), b, q)
        ELSE WordLeast(Standard!WordBytes(f), b, q)
  BY DEF Standard!MessageWord, WordMost, WordLeast
<1>4. CASE fn = "sha1"
  <2>1. /\ Len(b) = 64 /\ LoadWords(b) = Sha1!Load(host, b)
        /\ \A q : Standard!MessageWord(fn, b, q) = WordMost(4, b, q)
    BY <1>1, <1>3, <1>4 DEF BlockSize, LoadWords, Standard!IsSha, Standard!WordBytes
  <2>. QED  BY <1>1, <1>2, <2>1, Sha1Loads DEF b
<1>5. CASE fn = "sha256"
  <2>1. /\ Len(b) = 64 /\ LoadWords(b) = Sha256!Load(host, b)
        /\ \A q : Standard!MessageWord(fn, b, q) = WordMost(4, b, q)
    BY <1>1, <1>3, <1>5 DEF BlockSize, LoadWords, Standard!IsSha, Standard!WordBytes
  <2>. QED  BY <1>1, <1>2, <2>1, Sha256Loads DEF b
<1>6. CASE fn = "sha512"
  <2>1. /\ Len(b) = 128 /\ LoadWords(b) = Sha512!Load(host, b)
        /\ \A q : Standard!MessageWord(fn, b, q) = WordMost(8, b, q)
    BY <1>1, <1>3, <1>6 DEF BlockSize, LoadWords, Standard!IsSha, Standard!WordBytes
  <2>. QED  BY <1>1, <1>2, <2>1, Sha512Loads DEF b
<1>7. CASE fn = "blake2b"
  <2>1. /\ Len(b) = 128 /\ LoadWords(b) = Blake2b!Load(host, b)
        /\ \A q : Standard!MessageWord(fn, b, q) = WordLeast(8, b, q)
    <3>1. Len(b) = 128 /\ LoadWords(b) = Blake2b!Load(host, b)
      BY <1>1, <1>7 DEF BlockSize, LoadWords
    <3>2. ~ Standard!IsSha(fn) /\ Standard!WordBytes(fn) = 8
      BY <1>7 DEF Standard!IsSha, Standard!WordBytes
    <3>. QED  BY <1>3, <3>1, <3>2
  <2>. QED  BY <1>1, <1>2, <2>1, Blake2bLoads DEF b
<1>8. CASE fn = "blake2s"
  <2>1. /\ Len(b) = 64 /\ LoadWords(b) = Blake2s!Load(host, b)
        /\ \A q : Standard!MessageWord(fn, b, q) = WordLeast(4, b, q)
    BY <1>1, <1>3, <1>8 DEF BlockSize, LoadWords, Standard!IsSha, Standard!WordBytes
  <2>. QED  BY <1>1, <1>2, <2>1, Blake2sLoads DEF b
<1>. QED  BY <1>4, <1>5, <1>6, <1>7, <1>8, Streams

(* The registers at the start of a block of BLAKE2.                        *)
LEMMA Started ==
  ASSUME NEW h, NEW c, NEW l \in BOOLEAN
  PROVE  /\ c \in Counter2b =>
              LET r == Blake2b!Registers(h, c, IF l THEN 0 .. 63 ELSE {}, {})
              IN  DOMAIN r = 0 .. 15 /\ r = Standard!BlakeStart("blake2b", h, Blake2b!Total(c), l)
         /\ c \in SUBSET (0 .. 63) =>
              LET r == Blake2s!Registers(h, c, IF l THEN 0 .. 31 ELSE {}, {})
              IN  DOMAIN r = 0 .. 15 /\ r = Standard!BlakeStart("blake2s", h, c, l)
BY Blake2bStart, Blake2sStart, Zenon

(* Every step keeps the arrays.                                            *)
LEMMA ArraysKept ==
  ASSUME CallsOK, CountersOK, CountersOK', ArraysOK, WordsOK, [Next]_vars
  PROVE  ArraysOK'
<1>0. /\ fn \in {"sha1", "sha256", "sha512", "blake2b", "blake2s"}
      /\ Ordinary \in Nat /\ Len(job.blocks) \in Nat /\ Ordinary <= Len(job.blocks)
      /\ job.last = TRUE => Ordinary + 1 = Len(job.blocks)
      /\ Rounds \in {64, 80, 96} /\ Rounds % 16 = 0
  BY Streams DEF CallsOK, Ordinary
<1>1. job' = job => fn' = fn /\ IsSha' = IsSha /\ Rounds' = Rounds /\ HashSize' = HashSize /\ RegSize' = RegSize
  BY DEF fn, IsSha, Rounds, HashSize, RegSize
<1>2. ASSUME NEW k \in 1 .. Len(job.blocks) PROVE DOMAIN LoadWords(job.blocks[k]) = 0 .. 15
  BY LoadedWords DEF CallsOK
<1>. HIDE DEF Rounds, HashSize, RegSize, IsSha, fn, Ordinary
<1>3. ASSUME NEW n \in 0 .. Len(job.blocks), CallCompress(n) PROVE ArraysOK'
  BY <1>1, <1>3 DEF CallCompress, ArraysOK, Running
<1>4. CASE LoadSha
  <2>1. done + 1 \in 1 .. Len(job.blocks)
    BY <1>0, <1>4 DEF LoadSha, CallsOK, Running
  <2>2. reg' = hash
    BY <1>4 DEF LoadSha, IsSha, Sha1!Registers, Sha256!Registers, Sha512!Registers
  <2>3. DOMAIN hash = 0 .. HashSize - 1
    <3>1. hash = [j \in 0 .. HashSize - 1 |-> hash[j]]
      BY DEF ArraysOK, Array
    <3>. QED  BY <3>1
  <2>4. IsSha => HashSize = RegSize
    BY DEF HashSize, RegSize, IsSha
  <2>5. DOMAIN w' = 0 .. 15 /\ DOMAIN reg' = 0 .. RegSize - 1
    BY <1>2, <1>4, <2>1, <2>2, <2>3, <2>4 DEF LoadSha
  <2>6. job' = job /\ pc' = "step" /\ t' = 0 /\ hash' = hash /\ IsSha
    BY <1>4 DEF LoadSha
  <2>7. 0 \in 0 .. Rounds
    BY <1>0
  <2>. QED  BY <1>1, <2>5, <2>6, <2>7 DEF ArraysOK, Running
<1>5. CASE LoadBlake2b \/ LastBlake2b \/ LoadBlake2s \/ LastBlake2s
  <2>1. done + 1 \in 1 .. Len(job.blocks)
    BY <1>0, <1>5 DEF LoadBlake2b, LastBlake2b, LoadBlake2s, LastBlake2s, CallsOK, Running
  <2>2. ~IsSha /\ RegSize = 16
    BY <1>5 DEF LoadBlake2b, LastBlake2b, LoadBlake2s, LastBlake2s, IsSha, RegSize
  <2>3. DOMAIN reg' = 0 .. 15
    <3>1. CASE LoadBlake2b \/ LastBlake2b
      <4>1. count' \in Counter2b
        BY <1>1, <3>1 DEF LoadBlake2b, LastBlake2b, CountersOK
      <4>. PICK c : c = count'
        OBVIOUS
      <4>2. CASE LoadBlake2b
        <5>1. reg' = Blake2b!Registers(hash, c, IF FALSE THEN 0 .. 63 ELSE {}, {})
          BY <4>2 DEF LoadBlake2b
        <5>. QED  BY <4>1, <5>1, Started
      <4>3. CASE LastBlake2b
        <5>1. reg' = Blake2b!Registers(hash, c, IF TRUE THEN 0 .. 63 ELSE {}, {})
          BY <4>3 DEF LastBlake2b
        <5>. QED  BY <4>1, <5>1, Started
      <4>. QED  BY <3>1, <4>2, <4>3
    <3>2. CASE LoadBlake2s \/ LastBlake2s
      <4>1. count' \in SUBSET (0 .. 63)
        BY <1>1, <3>2 DEF LoadBlake2s, LastBlake2s, CountersOK
      <4>. PICK c : c = count'
        OBVIOUS
      <4>2. CASE LoadBlake2s
        <5>1. reg' = Blake2s!Registers(hash, c, IF FALSE THEN 0 .. 31 ELSE {}, {})
          BY <4>2 DEF LoadBlake2s
        <5>. QED  BY <4>1, <5>1, Started
      <4>3. CASE LastBlake2s
        <5>1. reg' = Blake2s!Registers(hash, c, IF TRUE THEN 0 .. 31 ELSE {}, {})
          BY <4>3 DEF LastBlake2s
        <5>. QED  BY <4>1, <5>1, Started
      <4>. QED  BY <3>2, <4>2, <4>3
    <3>. QED  BY <1>5, <3>1, <3>2
  <2>4. DOMAIN w' = 0 .. 15
    BY <1>2, <1>5, <2>1 DEF LoadBlake2b, LastBlake2b, LoadBlake2s, LastBlake2s
  <2>5. job' = job /\ pc' = "step" /\ t' = 0 /\ hash' = hash /\ used' = used /\ i' = i
    BY <1>5 DEF LoadBlake2b, LastBlake2b, LoadBlake2s, LastBlake2s
  <2>6. 0 \in 0 .. Rounds
    BY <1>0
  <2>7. DOMAIN reg' = 0 .. RegSize - 1
    BY <2>2, <2>3
  <2>. QED  BY <1>1, <2>2, <2>4, <2>5, <2>6, <2>7 DEF ArraysOK, Running
<1>6. CASE StepSha
  <2>1. t \in Nat /\ DOMAIN reg = 0 .. RegSize - 1 /\ DOMAIN w = 0 .. 15 /\ t < Rounds
    BY <1>0, <1>6 DEF StepSha, ArraysOK, Running
  <2>2. DOMAIN reg' = 0 .. RegSize - 1
    <3>1. CASE fn = "sha1"
      <4>1. RegSize = 5 /\ reg' = Sha1!StepAt(t, reg, w)
        BY <1>6, <3>1 DEF StepSha, RegSize
      <4>2. DOMAIN reg = 0 .. 4
        BY <2>1, <4>1
      <4>3. DOMAIN Sha1!StepAt(t, reg, w) = 0 .. 4
        BY <2>1, <4>2, Sha1Letters
      <4>. QED  BY <4>1, <4>3
    <3>2. CASE fn = "sha256"
      <4>1. RegSize = 8 /\ reg' = Sha256!StepAt(t, reg, w)
        BY <1>6, <3>2 DEF StepSha, RegSize, IsSha
      <4>2. DOMAIN reg = 0 .. 7
        BY <2>1, <4>1
      <4>3. DOMAIN Sha256!StepAt(t, reg, w) = 0 .. 7
        BY <2>1, <4>2, Sha256Letters
      <4>. QED  BY <4>1, <4>3
    <3>3. CASE fn = "sha512"
      <4>1. RegSize = 8 /\ reg' = Sha512!StepAt(t, reg, w)
        BY <1>6, <3>3 DEF StepSha, RegSize, IsSha
      <4>2. DOMAIN reg = 0 .. 7
        BY <2>1, <4>1
      <4>3. DOMAIN Sha512!StepAt(t, reg, w) = 0 .. 7
        BY <2>1, <4>2, Sha512Letters
      <4>. QED  BY <4>1, <4>3
    <3>. QED  BY <1>6, <3>1, <3>2, <3>3 DEF StepSha, IsSha
  <2>3. /\ job' = job /\ t' = t + 1 /\ hash' = hash /\ w' = w /\ IsSha
        /\ IF t % 16 = 15 /\ t < Rounds - 1 THEN pc' = "schedule" /\ i' = 0 ELSE pc' = "step" /\ i' = i
    BY <1>6 DEF StepSha
  <2>4. t % 16 = 15 => (t + 1) % 16 = 0
    BY <2>1
  <2>. QED  BY <1>0, <1>1, <2>1, <2>2, <2>3, <2>4 DEF ArraysOK, Running
<1>7. CASE StepBlake2
  <2>1. /\ t \in Nat /\ DOMAIN reg = 0 .. 15 /\ t < Rounds /\ ~IsSha /\ RegSize = 16
        /\ \A q \in 0 .. 15 : w[q] = Standard!MessageWord(fn, job.blocks[done + 1], q)
    <3>1. ~IsSha /\ Running /\ t < Rounds
      BY <1>7 DEF StepBlake2, Running
    <3>2. RegSize = 16
      BY <3>1 DEF RegSize, IsSha
    <3>3. t \in Nat /\ DOMAIN reg = 0 .. 15
      BY <1>0, <3>1, <3>2 DEF ArraysOK
    <3>4. \A q \in 0 .. 15 : w[q] = Standard!MessageWord(fn, job.blocks[done + 1], q)
      BY <3>1 DEF WordsOK
    <3>. QED  BY <3>1, <3>2, <3>3, <3>4
  <2>2. DOMAIN reg' = 0 .. 15
    <3>1. CASE fn = "blake2b"
      <4>1. t \in 0 .. Blake2b!Rounds - 1 /\ reg' = Blake2b!StepAt(t, reg, w)
        BY <1>7, <2>1, <3>1 DEF StepBlake2, Rounds, Blake2b!Rounds
      <4>. QED  BY <2>1, <3>1, <4>1, Blake2bStep
    <3>2. CASE fn = "blake2s"
      <4>1. t \in 0 .. Blake2s!Rounds - 1 /\ reg' = Blake2s!StepAt(t, reg, w)
        BY <1>7, <2>1, <3>2 DEF StepBlake2, Rounds, Blake2s!Rounds
      <4>. QED  BY <2>1, <3>2, <4>1, Blake2sStep
    <3>. QED  BY <1>0, <2>1, <3>1, <3>2 DEF IsSha
  <2>. QED  BY <1>0, <1>1, <1>7, <2>1, <2>2 DEF StepBlake2, ArraysOK, Running
<1>8. CASE ScheduleStatement
  <2>1. IsSha /\ i \in 0 .. 15 /\ t % 16 = 0 /\ t \in 1 .. Rounds - 1 /\ DOMAIN w = 0 .. 15
    BY <1>8 DEF ScheduleStatement, ArraysOK, Running
  <2>2. DOMAIN w' = 0 .. 15
    BY <1>8, <2>1 DEF ScheduleStatement, IsSha, Sha1!Schedule, Sha256!Schedule, Sha512!Schedule
  <2>3. /\ job' = job /\ t' = t /\ hash' = hash /\ reg' = reg /\ used' = used /\ i' = i + 1
        /\ pc = "schedule" /\ pc' = IF i = 15 THEN "step" ELSE "schedule"
    BY <1>8 DEF ScheduleStatement
  <2>. QED  BY <1>0, <1>1, <2>1, <2>2, <2>3 DEF ArraysOK, Running
<1>9. CASE UpdateHash
  <2>1. Array(hash', HashSize)
    <3>. PICK h : h = hash'
      OBVIOUS
    <3>1. CASE fn = "sha1"
      BY <1>9, <3>1 DEF UpdateHash, HashSize, Sha1!Update, Array
    <3>2. CASE fn = "sha256"
      BY <1>9, <3>2 DEF UpdateHash, HashSize, Sha256!Update, Array
    <3>3. CASE fn = "sha512"
      BY <1>9, <3>3 DEF UpdateHash, HashSize, Sha512!Update, Array
    <3>4. CASE fn = "blake2b"
      BY <1>9, <3>4 DEF UpdateHash, HashSize, Blake2b!Update, Array
    <3>5. CASE fn = "blake2s"
      BY <1>9, <3>5 DEF UpdateHash, HashSize, Blake2s!Update, Array
    <3>. QED  BY <1>0, <3>1, <3>2, <3>3, <3>4, <3>5
  <2>2. pc' \in {"caller", "loop"} /\ job' = job /\ reg' = << >> /\ w' = << >> /\ t' = 0 /\ i' = 0 /\ used' = << >>
    BY <1>9 DEF UpdateHash, Idle
  <2>. QED  BY <1>1, <2>1, <2>2 DEF ArraysOK, Running
<1>10. CASE Return
  BY <1>1, <1>10 DEF Return, ArraysOK, Running
<1>11. CASE UNCHANGED vars
  BY <1>1, <1>11 DEF vars, ArraysOK, Running
<1>. QED
  BY <1>3, <1>4, <1>5, <1>6, <1>7, <1>8, <1>9, <1>10, <1>11 DEF Next

-----------------------------------------------------------------------------
(* The message schedule of SHA, replaced in place.                         *)

(* What Append does to a list.                                             *)
LEMMA Appended ==
  ASSUME NEW u, NEW n \in Nat, Listed(u, n), NEW x
  PROVE  /\ Listed(Append(u, x), n + 1)
         /\ \A j \in 1 .. n : Append(u, x)[j] = u[j]
         /\ Append(u, x)[n + 1] = x
         /\ Len(u) = n
<1>. DEFINE S == {u[j] : j \in 1 .. n} \cup {x}
<1>1. u \in Seq(S) /\ Len(u) = n
  <2>1. \A j \in 1 .. n : u[j] \in S
    OBVIOUS
  <2>. HIDE DEF S
  <2>. QED  BY <2>1 DEF Listed
<1>2. x \in S
  OBVIOUS
<1>. HIDE DEF S
<1>. QED  BY <1>1, <1>2 DEF Listed

(* After the load the array holds the first sixteen words.                 *)
LEMMA FirstWords ==
  ASSUME NEW f, NEW b, NEW x, \A q \in 0 .. 15 : x[q] = Standard!MessageWord(f, b, q)
  PROVE  ShaWords(f, b, 0, 16, << >>, x)
<1>1. Listed(<< >>, 0)
  BY DEF Listed
<1>2. \A n \in 0 .. 15 : n < 16 /\ ~ (n < 0) /\ n % 16 = n
  OBVIOUS
<1>. QED  BY <1>1, <1>2 DEF ShaWords, WordAt

(* A step that uses a word moves it to the list of used ones.              *)
LEMMA WordUsed ==
  ASSUME NEW f, NEW b, NEW T \in Nat, NEW top \in Nat, NEW u, NEW x, ShaWords(f, b, T, top, u, x)
  PROVE  ShaWords(f, b, T + 1, top, Append(u, x[T % 16]), x)
<1>. DEFINE v == Append(u, x[T % 16])
<1>1. /\ Listed(v, T + 1)
      /\ \A j \in 1 .. T : v[j] = u[j]
      /\ v[T + 1] = x[T % 16]
  BY Appended DEF ShaWords
<1>. HIDE DEF v
<1>2. \A n \in Int : n >= 0 => WordAt(n, T + 1, v, x) = WordAt(n, T, u, x)
  BY <1>1 DEF WordAt
<1>3. ASSUME NEW n \in 0 .. top - 1, n >= 16
      PROVE  Expanded(f, n, T + 1, v, x) <=> Expanded(f, n, T, u, x)
  <2>1. /\ n \in Int /\ n - 2 \in Int /\ n - 3 \in Int /\ n - 7 \in Int /\ n - 8 \in Int
        /\ n - 14 \in Int /\ n - 15 \in Int /\ n - 16 \in Int
        /\ n >= 0 /\ n - 2 >= 0 /\ n - 3 >= 0 /\ n - 7 >= 0 /\ n - 8 >= 0
        /\ n - 14 >= 0 /\ n - 15 >= 0 /\ n - 16 >= 0
    BY <1>3
  <2>. QED  BY <1>2, <2>1 DEF Expanded
<1>4. \A n \in 0 .. top - 1 : n \in Int /\ n >= 0
  OBVIOUS
<1>5. ShaWords(f, b, T + 1, top, v, x)
  BY <1>1, <1>2, <1>3, <1>4 DEF ShaWords
<1>. QED  BY <1>5 DEF v

(* A statement of SCHEDULE makes one more word, in the place of one that   *)
(* is not needed any more.                                                 *)
LEMMA WordMade ==
  ASSUME NEW f, NEW b, NEW T \in Nat, NEW q \in 0 .. 15, T % 16 = 0, T >= 16,
         NEW u, NEW x, DOMAIN x = 0 .. 15, ShaWords(f, b, T, T + q, u, x)
  PROVE  ShaWords(f, b, T, T + q + 1, u,
                  [x EXCEPT ![q] = Expansion(f, x[(q + 14) % 16], x[(q + 13) % 16], x[(q + 9) % 16],
                                                x[(q + 8) % 16], x[(q + 2) % 16], x[(q + 1) % 16], x[q])])
<1>. DEFINE e == Expansion(f, x[(q + 14) % 16], x[(q + 13) % 16], x[(q + 9) % 16],
                              x[(q + 8) % 16], x[(q + 2) % 16], x[(q + 1) % 16], x[q])
            y == [x EXCEPT ![q] = e]
            top == T + q
<1>1. \A n \in 0 .. 15 : n # q => y[n] = x[n]
  OBVIOUS
<1>2. y[q] = e
  <2>. HIDE DEF e
  <2>. QED  OBVIOUS
<1>. HIDE DEF y, e
<1>3. /\ top % 16 = q /\ top >= T
      /\ \A n \in T .. top - 1 : n % 16 \in 0 .. 15 /\ n % 16 # q
      /\ \A n \in top - 15 .. top - 1 : n % 16 \in 0 .. 15 /\ n % 16 # q
  OBVIOUS
<1>4. \A n \in 0 .. top - 1 : WordAt(n, T, u, y) = WordAt(n, T, u, x)
  BY <1>1, <1>3 DEF WordAt
<1>5. WordAt(top, T, u, y) = e
  BY <1>2, <1>3 DEF WordAt
<1>6. ASSUME NEW n \in 0 .. top - 1, n >= top - 16 PROVE WordAt(n, T, u, x) = x[n % 16]
  BY <1>6 DEF ShaWords
<1>7. Expanded(f, top, T, u, y)
  <2>1. /\ (top - 2) % 16 = (q + 14) % 16 /\ top - 2 \in 0 .. top - 1
        /\ (top - 3) % 16 = (q + 13) % 16 /\ top - 3 \in 0 .. top - 1
        /\ (top - 7) % 16 = (q + 9) % 16 /\ top - 7 \in 0 .. top - 1
        /\ (top - 8) % 16 = (q + 8) % 16 /\ top - 8 \in 0 .. top - 1
    OBVIOUS
  <2>2. /\ (top - 14) % 16 = (q + 2) % 16 /\ top - 14 \in 0 .. top - 1
        /\ (top - 15) % 16 = (q + 1) % 16 /\ top - 15 \in 0 .. top - 1
        /\ (top - 16) % 16 = q /\ top - 16 \in 0 .. top - 1
    OBVIOUS
  <2>. HIDE DEF top
  <2>3. top \in Int
    BY <2>1 DEF top
  <2>4. /\ WordAt(top - 2, T, u, y) = x[(q + 14) % 16]
        /\ WordAt(top - 3, T, u, y) = x[(q + 13) % 16]
        /\ WordAt(top - 7, T, u, y) = x[(q + 9) % 16]
        /\ WordAt(top - 8, T, u, y) = x[(q + 8) % 16]
    BY <1>4, <1>6, <2>1, <2>3
  <2>5. /\ WordAt(top - 14, T, u, y) = x[(q + 2) % 16]
        /\ WordAt(top - 15, T, u, y) = x[(q + 1) % 16]
        /\ WordAt(top - 16, T, u, y) = x[q]
    BY <1>4, <1>6, <2>2, <2>3
  <2>. QED  BY ONLY <1>5, <2>4, <2>5 DEF Expanded, e
<1>8. ASSUME NEW n \in 0 .. top - 1, n >= 16
      PROVE  Expanded(f, n, T, u, y) <=> Expanded(f, n, T, u, x)
  <2>1. /\ n - 2 \in 0 .. top - 1 /\ n - 3 \in 0 .. top - 1 /\ n - 7 \in 0 .. top - 1
        /\ n - 8 \in 0 .. top - 1 /\ n - 14 \in 0 .. top - 1 /\ n - 15 \in 0 .. top - 1
        /\ n - 16 \in 0 .. top - 1
    BY <1>8
  <2>. QED  BY <1>4, <2>1 DEF Expanded
<1>9. Listed(u, T)
  BY DEF ShaWords
<1>10. ASSUME NEW n \in 0 .. top
       PROVE  IF n < 16 THEN WordAt(n, T, u, y) = Standard!MessageWord(f, b, n)
              ELSE Expanded(f, n, T, u, y)
  <2>1. CASE n = top
    BY <1>7, <2>1
  <2>2. CASE n # top
    <3>1. n \in 0 .. top - 1
      BY <2>2
    <3>2. IF n < 16 THEN WordAt(n, T, u, x) = Standard!MessageWord(f, b, n)
          ELSE Expanded(f, n, T, u, x)
      BY <3>1 DEF ShaWords
    <3>. QED  BY <1>4, <1>8, <3>1, <3>2
  <2>. QED  BY <2>1, <2>2
<1>11. ASSUME NEW n \in 0 .. top, n >= top - 15
       PROVE  WordAt(n, T, u, y) = y[n % 16]
  <2>1. CASE n = top
    BY <1>2, <1>3, <1>5, <2>1
  <2>2. CASE n # top
    <3>1. n \in 0 .. top - 1 /\ n >= top - 16 /\ n \in top - 15 .. top - 1
      BY <1>11, <2>2
    <3>. QED  BY <1>1, <1>3, <1>4, <1>6, <3>1
  <2>. QED  BY <2>1, <2>2
<1>12. top \in Int
  OBVIOUS
<1>. HIDE DEF top
<1>13. ShaWords(f, b, T, top + 1, u, y)
  BY <1>9, <1>10, <1>11, <1>12 DEF ShaWords
<1>. QED  BY <1>13 DEF top, y, e

(* The order of an exclusive or does not matter.                           *)
LEMMA XorCommutes ==
  ASSUME NEW x, NEW y, NEW z
  PROVE  /\ Sha1!Xor(x, y) = Sha1!Xor(y, x)
         /\ Sha1!Xor(Sha1!Xor(x, y), z) = Sha1!Xor(x, Sha1!Xor(y, z))
BY DEF Sha1!Xor

(* The statements of SCHEDULE write the word of the standard.              *)
LEMMA Sha1Schedule ==
  ASSUME NEW q \in 0 .. 15, NEW x, DOMAIN x = 0 .. 15
  PROVE  Sha1!Schedule(q, x) =
           [x EXCEPT ![q] = Expansion("sha1", x[(q + 14) % 16], x[(q + 13) % 16], x[(q + 9) % 16],
                                              x[(q + 8) % 16], x[(q + 2) % 16], x[(q + 1) % 16], x[q])]
<1>. DEFINE X(a, b) == Sha1!Xor(a, b)
            a3 == x[(q + 13) % 16]
            a8 == x[(q + 8) % 16]
            a14 == x[(q + 2) % 16]
            a16 == x[q]
<1>1. X(a16, X(X(a3, a8), a14)) = X(X(a3, a8), X(a14, a16))
  <2>. HIDE DEF a3, a8, a14, a16
  <2>1. X(a16, X(X(a3, a8), a14)) = X(X(X(a3, a8), a14), a16)
    BY XorCommutes, Zenon
  <2>2. \A y, z, u : X(X(y, z), u) = X(y, X(z, u))
    BY XorCommutes
  <2>. HIDE DEF X
  <2>3. X(X(X(a3, a8), a14), a16) = X(X(a3, a8), X(a14, a16))
    BY <2>2
  <2>. QED  BY <2>1, <2>3
<1>2. \A a2, a7, a15 : Expansion("sha1", a2, a3, a7, a8, a14, a15, a16) =
        Sha1!RotateL(X(a16, X(X(a3, a8), a14)), 1)
  <2>. HIDE DEF a3, a8, a14, a16
  <2>. QED  BY <1>1 DEF Expansion
<1>3. Sha1!Schedule(q, x) = [x EXCEPT ![q] = Sha1!RotateL(X(a16, X(X(a3, a8), a14)), 1)]
  BY Zenon DEF Sha1!Schedule
<1>. QED  BY <1>2, <1>3, Zenon

LEMMA Sha256Schedule ==
  ASSUME NEW q \in 0 .. 15, NEW x, DOMAIN x = 0 .. 15
  PROVE  Sha256!Schedule(q, x) =
           [x EXCEPT ![q] = Expansion("sha256", x[(q + 14) % 16], x[(q + 13) % 16], x[(q + 9) % 16],
                                              x[(q + 8) % 16], x[(q + 2) % 16], x[(q + 1) % 16], x[q])]
<1>. DEFINE P(a, b) == W(32)!Add(a, b)
            s1 == Sha256!SIGS1(x[(q + 14) % 16])
            a7 == x[(q + 9) % 16]
            s0 == Sha256!SIGS0(x[(q + 1) % 16])
            a16 == x[q]
<1>1. P(P(P(a16, s1), a7), s0) = P(P(s1, a7), P(s0, a16))
  <2>. HIDE DEF s1, a7, s0, a16
  <2>1. \A y, z, u : P(P(y, z), u) = P(y, P(z, u))
    BY AddAssociates
  <2>2. \A y, z : P(y, z) = P(z, y)
    BY AddCommutes
  <2>. HIDE DEF P
  <2>3. P(P(P(a16, s1), a7), s0) = P(a16, P(P(s1, a7), s0))
    BY <2>1
  <2>4. P(a16, P(P(s1, a7), s0)) = P(P(P(s1, a7), s0), a16)
    BY <2>2
  <2>5. P(P(P(s1, a7), s0), a16) = P(P(s1, a7), P(s0, a16))
    BY <2>1
  <2>. QED  BY <2>3, <2>4, <2>5
<1>2. \A y, z : Sha256!Add(y, z) = P(y, z)
  BY Zenon DEF Sha256!Add, W!Add
<1>. HIDE DEF P
<1>3. Sha256!Add(Sha256!Add(Sha256!Add(a16, s1), a7), s0) = P(P(s1, a7), P(s0, a16))
  <2>. HIDE DEF s1, a7, s0, a16
  <2>. QED  BY <1>1, <1>2, Zenon
<1>4. \A a3, a8, a14 : Expansion("sha256", x[(q + 14) % 16], a3, a7, a8, a14, x[(q + 1) % 16], a16) =
        P(P(s1, a7), P(s0, a16))
  BY DEF Expansion, P
<1>5. Sha256!Schedule(q, x) = [x EXCEPT ![q] = Sha256!Add(Sha256!Add(Sha256!Add(a16, s1), a7), s0)]
  BY Zenon DEF Sha256!Schedule
<1>. HIDE DEF s1, s0
<1>. QED  BY <1>3, <1>4, <1>5, Zenon

LEMMA Sha512Schedule ==
  ASSUME NEW q \in 0 .. 15, NEW x, DOMAIN x = 0 .. 15
  PROVE  Sha512!Schedule(q, x) =
           [x EXCEPT ![q] = Expansion("sha512", x[(q + 14) % 16], x[(q + 13) % 16], x[(q + 9) % 16],
                                              x[(q + 8) % 16], x[(q + 2) % 16], x[(q + 1) % 16], x[q])]
<1>. DEFINE P(a, b) == W(64)!Add(a, b)
            s1 == Sha512!SIGS1(x[(q + 14) % 16])
            a7 == x[(q + 9) % 16]
            s0 == Sha512!SIGS0(x[(q + 1) % 16])
            a16 == x[q]
<1>1. P(P(P(a16, s1), a7), s0) = P(P(s1, a7), P(s0, a16))
  <2>. HIDE DEF s1, a7, s0, a16
  <2>1. \A y, z, u : P(P(y, z), u) = P(y, P(z, u))
    BY AddAssociates
  <2>2. \A y, z : P(y, z) = P(z, y)
    BY AddCommutes
  <2>. HIDE DEF P
  <2>3. P(P(P(a16, s1), a7), s0) = P(a16, P(P(s1, a7), s0))
    BY <2>1
  <2>4. P(a16, P(P(s1, a7), s0)) = P(P(P(s1, a7), s0), a16)
    BY <2>2
  <2>5. P(P(P(s1, a7), s0), a16) = P(P(s1, a7), P(s0, a16))
    BY <2>1
  <2>. QED  BY <2>3, <2>4, <2>5
<1>2. \A y, z : Sha512!Add(y, z) = P(y, z)
  BY Zenon DEF Sha512!Add, W!Add
<1>. HIDE DEF P
<1>3. Sha512!Add(Sha512!Add(Sha512!Add(a16, s1), a7), s0) = P(P(s1, a7), P(s0, a16))
  <2>. HIDE DEF s1, a7, s0, a16
  <2>. QED  BY <1>1, <1>2, Zenon
<1>4. \A a3, a8, a14 : Expansion("sha512", x[(q + 14) % 16], a3, a7, a8, a14, x[(q + 1) % 16], a16) =
        P(P(s1, a7), P(s0, a16))
  BY DEF Expansion, P
<1>5. Sha512!Schedule(q, x) = [x EXCEPT ![q] = Sha512!Add(Sha512!Add(Sha512!Add(a16, s1), a7), s0)]
  BY Zenon DEF Sha512!Schedule
<1>. HIDE DEF s1, s0
<1>. QED  BY <1>3, <1>4, <1>5, Zenon

(* The standard expands in the same way.                                   *)
LEMMA ExpandedByStandard ==
  ASSUME NEW f \in {"sha1", "sha256", "sha512"}, NEW u
  PROVE  Standard!Expand(f, u) =
           Expansion(f, u[Len(u) + 1 - 2], u[Len(u) + 1 - 3], u[Len(u) + 1 - 7], u[Len(u) + 1 - 8],
                        u[Len(u) + 1 - 14], u[Len(u) + 1 - 15], u[Len(u) + 1 - 16])
<1>. DEFINE V(n) == u[Len(u) + 1 - n]
<1>1. /\ \A x, y : Standard!Sha1!Xor(x, y) = Sha1!Xor(x, y)
      /\ \A x, n : Standard!Sha1!RotateL(x, n) = Sha1!RotateL(x, n)
  BY Zenon DEF Standard!Sha1!Xor, Sha1!Xor, Standard!Sha1!RotateL, Sha1!RotateL, Standard!Sha1!ShiftL,
     Sha1!ShiftL, Standard!Sha1!ShiftR, Sha1!ShiftR
<1>2. /\ \A x, y : Standard!Sha256!Add(x, y) = W(32)!Add(x, y)
      /\ \A x : Standard!Sha256!SIGS0(x) = Sha256!SIGS0(x) /\ Standard!Sha256!SIGS1(x) = Sha256!SIGS1(x)
  <2>1. \A x, y : Standard!Sha256!Add(x, y) = W(32)!Add(x, y)
    BY Zenon DEF Standard!Sha256!Add, W!Add
  <2>2. \A x : Standard!Sha256!SIGS0(x) = Sha256!SIGS0(x) /\ Standard!Sha256!SIGS1(x) = Sha256!SIGS1(x)
    BY Zenon DEF Sha256!SIGS0, Sha256!SIGS1, Sha256!Xor, Sha256!RotateR, Sha256!ShiftR, Sha256!ShiftL,
       Standard!Sha256!SIGS0, Standard!Sha256!SIGS1, Standard!Sha256!Xor, Standard!Sha256!RotateR, Standard!Sha256!ShiftR, Standard!Sha256!ShiftL
  <2>. QED  BY <2>1, <2>2
<1>3. /\ \A x, y : Standard!Sha512!Add(x, y) = W(64)!Add(x, y)
      /\ \A x : Standard!Sha512!SIGS0(x) = Sha512!SIGS0(x) /\ Standard!Sha512!SIGS1(x) = Sha512!SIGS1(x)
  <2>1. \A x, y : Standard!Sha512!Add(x, y) = W(64)!Add(x, y)
    BY Zenon DEF Standard!Sha512!Add, W!Add
  <2>2. \A x : Standard!Sha512!SIGS0(x) = Sha512!SIGS0(x) /\ Standard!Sha512!SIGS1(x) = Sha512!SIGS1(x)
    BY Zenon DEF Sha512!SIGS0, Sha512!SIGS1, Sha512!Xor, Sha512!RotateR, Sha512!ShiftR, Sha512!ShiftL,
       Standard!Sha512!SIGS0, Standard!Sha512!SIGS1, Standard!Sha512!Xor, Standard!Sha512!RotateR, Standard!Sha512!ShiftR, Standard!Sha512!ShiftL
  <2>. QED  BY <2>1, <2>2
<1>. HIDE DEF V
<1>4. Standard!Expand(f, u) =
        CASE f = "sha1" -> Sha1!RotateL(Sha1!Xor(Sha1!Xor(V(3), V(8)), Sha1!Xor(V(14), V(16))), 1)
          [] f = "sha256" -> W(32)!Add(W(32)!Add(Sha256!SIGS1(V(2)), V(7)), W(32)!Add(Sha256!SIGS0(V(15)), V(16)))
          [] f = "sha512" -> W(64)!Add(W(64)!Add(Sha512!SIGS1(V(2)), V(7)), W(64)!Add(Sha512!SIGS0(V(15)), V(16)))
  <2>1. CASE f = "sha1"
    BY <1>1, <2>1 DEF Standard!Expand, V
  <2>2. CASE f = "sha256"
    BY <1>2, <2>2 DEF Standard!Expand, V
  <2>3. CASE f = "sha512"
    BY <1>3, <2>3 DEF Standard!Expand, V
  <2>. QED  BY <2>1, <2>2, <2>3
<1>5. Standard!Expand(f, u) = Expansion(f, V(2), V(3), V(7), V(8), V(14), V(15), V(16))
  BY <1>4, Zenon DEF Expansion
<1>. QED  BY <1>5, Zenon DEF V

(* The word that a step uses is the word of the standard.                  *)
LEMMA NextWord ==
  ASSUME NEW f \in {"sha1", "sha256", "sha512"}, NEW b, NEW T \in Nat, NEW top \in Nat, T < top,
         top <= 16 * (T \div 16) + 16, NEW u, NEW x, ShaWords(f, b, T, top, u, x)
  PROVE  x[T % 16] = Standard!ScheduleWord(f, b, u)
<1>1. Len(u) = T
  BY Appended DEF ShaWords
<1>2. WordAt(T, T, u, x) = x[T % 16]
  BY DEF WordAt
<1>3. T \in 0 .. top - 1
  OBVIOUS
<1>4. CASE T < 16
  <2>1. WordAt(T, T, u, x) = Standard!MessageWord(f, b, T)
    BY <1>3, <1>4 DEF ShaWords
  <2>. QED  BY <1>1, <1>2, <1>4, <2>1 DEF Standard!ScheduleWord
<1>5. CASE T >= 16
  <2>1. Expanded(f, T, T, u, x)
    BY <1>3, <1>5 DEF ShaWords
  <2>2. ASSUME NEW n \in 1 .. 16 PROVE WordAt(T - n, T, u, x) = u[Len(u) + 1 - n]
    <3>1. T - n < T /\ T - n + 1 = Len(u) + 1 - n
      BY <1>1
    <3>. QED  BY <3>1 DEF WordAt
  <2>3. /\ WordAt(T - 2, T, u, x) = u[Len(u) + 1 - 2]
        /\ WordAt(T - 3, T, u, x) = u[Len(u) + 1 - 3]
        /\ WordAt(T - 7, T, u, x) = u[Len(u) + 1 - 7]
        /\ WordAt(T - 8, T, u, x) = u[Len(u) + 1 - 8]
    BY <2>2
  <2>4. /\ WordAt(T - 14, T, u, x) = u[Len(u) + 1 - 14]
        /\ WordAt(T - 15, T, u, x) = u[Len(u) + 1 - 15]
        /\ WordAt(T - 16, T, u, x) = u[Len(u) + 1 - 16]
    BY <2>2
  <2>5. WordAt(T, T, u, x) =
          Expansion(f, u[Len(u) + 1 - 2], u[Len(u) + 1 - 3], u[Len(u) + 1 - 7], u[Len(u) + 1 - 8],
                       u[Len(u) + 1 - 14], u[Len(u) + 1 - 15], u[Len(u) + 1 - 16])
    BY ONLY <2>1, <2>3, <2>4, Zenon DEF Expanded
  <2>6. WordAt(T, T, u, x) = Standard!Expand(f, u)
    BY ONLY <2>5, ExpandedByStandard, f \in {"sha1", "sha256", "sha512"}, Zenon
  <2>7. ~ (Len(u) < 16)
    BY <1>1, <1>5
  <2>. QED  BY <1>2, <2>6, <2>7, Zenon DEF Standard!ScheduleWord
<1>. QED  BY <1>4, <1>5

(* Every step keeps the message words.                                     *)
LEMMA WordsKept ==
  ASSUME CallsOK, ArraysOK, WordsOK, [Next]_vars
  PROVE  WordsOK'
<1>0. /\ fn \in {"sha1", "sha256", "sha512", "blake2b", "blake2s"}
      /\ Ordinary \in Nat /\ Len(job.blocks) \in Nat /\ Ordinary <= Len(job.blocks)
      /\ job.last = TRUE => Ordinary + 1 = Len(job.blocks)
      /\ Rounds \in {64, 80, 96} /\ Rounds % 16 = 0
  BY Streams DEF CallsOK, Ordinary
<1>1. job' = job => fn' = fn /\ IsSha' = IsSha /\ Rounds' = Rounds
  BY DEF fn, IsSha, Rounds
<1>. DEFINE b == job.blocks[done + 1]
            Loaded(x) == \A q \in 0 .. 15 : x[q] = Standard!MessageWord(fn, b, q)
<1>2. done + 1 \in 1 .. Len(job.blocks) => Loaded(LoadWords(b))
  BY LoadedWords, Zenon DEF CallsOK
<1>. HIDE DEF Rounds, IsSha, fn, Ordinary
<1>3. ASSUME NEW n \in 0 .. Len(job.blocks), CallCompress(n) PROVE WordsOK'
  BY <1>3 DEF CallCompress, WordsOK, Running
<1>4. CASE LoadSha
  <2>1. done + 1 \in 1 .. Len(job.blocks)
    BY <1>0, <1>4 DEF LoadSha, CallsOK, Running
  <2>2. job' = job /\ done' = done /\ pc' = "step" /\ t' = 0 /\ used' = used /\ w' = LoadWords(b) /\ IsSha
        /\ used = << >>
    BY <1>4 DEF LoadSha, ArraysOK, Running
  <2>3. Loaded(w')
    BY <1>2, <2>1, <2>2
  <2>. HIDE DEF b
  <2>. PICK x : x = w'
    OBVIOUS
  <2>4. ShaWords(fn, b, 0, 16, << >>, x)
    <3>1. \A q \in 0 .. 15 : x[q] = Standard!MessageWord(fn, b, q)
      BY <2>3
    <3>. QED  BY <3>1, FirstWords, Zenon
  <2>5. Top' = 16
    BY <1>0, <1>1, <2>2 DEF Top
  <2>6. job'.blocks[done' + 1] = b
    BY <2>2 DEF b
  <2>. QED  BY <1>1, <2>2, <2>4, <2>5, <2>6 DEF WordsOK
<1>5. CASE LoadBlake2b \/ LastBlake2b \/ LoadBlake2s \/ LastBlake2s
  <2>1. done + 1 \in 1 .. Len(job.blocks)
    BY <1>0, <1>5 DEF LoadBlake2b, LastBlake2b, LoadBlake2s, LastBlake2s, CallsOK, Running
  <2>2. job' = job /\ done' = done /\ w' = LoadWords(b)
    BY <1>5 DEF LoadBlake2b, LastBlake2b, LoadBlake2s, LastBlake2s
  <2>3. ~IsSha
    BY <1>5 DEF LoadBlake2b, LastBlake2b, LoadBlake2s, LastBlake2s, IsSha
  <2>4. Loaded(w')
    BY <1>2, <2>1, <2>2
  <2>. QED  BY <1>1, <2>2, <2>3, <2>4 DEF WordsOK
<1>6. CASE StepSha
  <2>1. /\ job' = job /\ done' = done /\ w' = w /\ t' = t + 1 /\ IsSha /\ t < Rounds /\ pc = "step"
        /\ used' = Append(used, w[t % 16])
        /\ IF t % 16 = 15 /\ t < Rounds - 1 THEN pc' = "schedule" /\ i' = 0 ELSE pc' = "step" /\ i' = i
    BY <1>6 DEF StepSha
  <2>2. t \in Nat
    BY <1>0, <2>1 DEF ArraysOK, Running
  <2>3. Top \in Nat /\ Top' = Top
    <3>1. Top = 16 * (t \div 16) + 16 /\ Top \in Nat
      BY <1>0, <2>1, <2>2 DEF Top
    <3>2. CASE t % 16 = 15 /\ t < Rounds - 1
      <4>1. Top' = t + 1
        BY <2>1, <2>2, <3>2 DEF Top
      <4>. QED  BY <2>2, <3>1, <3>2, <4>1
    <3>3. CASE t + 1 = Rounds
      <4>1. Top' = t + 1
        BY <1>0, <1>1, <2>1, <2>2, <3>3 DEF Top
      <4>2. t % 16 = 15
        BY <1>0, <2>2, <3>3
      <4>. QED  BY <2>2, <3>1, <4>1, <4>2
    <3>4. CASE t % 16 # 15
      <4>1. t + 1 # Rounds
        BY <1>0, <2>2, <3>4
      <4>2. Top' = 16 * ((t + 1) \div 16) + 16
        BY <1>1, <2>1, <3>4, <4>1 DEF Top
      <4>3. (t + 1) \div 16 = t \div 16
        BY <2>2, <3>4
      <4>. QED  BY <3>1, <4>2, <4>3
    <3>. QED  BY <1>0, <2>1, <2>2, <3>2, <3>3, <3>4
  <2>4. ShaWords(fn, b, t, Top, used, w)
    BY <2>1 DEF WordsOK, Running
  <2>. PICK top \in Nat : top = Top
    BY <2>3
  <2>5. ShaWords(fn, b, t + 1, top, Append(used, w[t % 16]), w)
    <3>. HIDE DEF b
    <3>. QED  BY <2>2, <2>4, WordUsed, Zenon
  <2>6. job'.blocks[done' + 1] = b
    BY <2>1
  <2>. HIDE DEF b
  <2>. QED  BY <1>1, <2>1, <2>3, <2>5, <2>6 DEF WordsOK
<1>7. CASE StepBlake2
  BY <1>1, <1>7 DEF StepBlake2, WordsOK, Running
<1>8. CASE ScheduleStatement
  <2>1. /\ IsSha /\ i \in 0 .. 15 /\ t % 16 = 0 /\ t \in 1 .. Rounds - 1 /\ DOMAIN w = 0 .. 15
        /\ t >= 16 /\ t \in Nat
    <3>1. IsSha /\ i \in 0 .. 15 /\ t % 16 = 0 /\ t \in 1 .. Rounds - 1 /\ DOMAIN w = 0 .. 15
      BY <1>8 DEF ScheduleStatement, ArraysOK, Running
    <3>. QED  BY <1>0, <3>1
  <2>2. /\ job' = job /\ t' = t /\ done' = done /\ used' = used /\ i' = i + 1
        /\ pc = "schedule" /\ pc' = IF i = 15 THEN "step" ELSE "schedule"
    BY <1>8 DEF ScheduleStatement
  <2>3. ShaWords(fn, b, t, t + i, used, w)
    BY <2>1, <2>2 DEF WordsOK, Running, Top
  <2>. DEFINE X(f) == Expansion(f, w[(i + 14) % 16], w[(i + 13) % 16], w[(i + 9) % 16],
                                   w[(i + 8) % 16], w[(i + 2) % 16], w[(i + 1) % 16], w[i])
  <2>4. w' = [w EXCEPT ![i] = X(fn)]
    <3>1. CASE fn = "sha1"
      <4>1. w' = Sha1!Schedule(i, w)
        BY <1>8, <3>1 DEF ScheduleStatement
      <4>. QED  BY <2>1, <3>1, <4>1, Sha1Schedule, Zenon
    <3>2. CASE fn = "sha256"
      <4>1. w' = Sha256!Schedule(i, w)
        BY <1>8, <3>2 DEF ScheduleStatement
      <4>. QED  BY <2>1, <3>2, <4>1, Sha256Schedule, Zenon
    <3>3. CASE fn = "sha512"
      <4>1. w' = Sha512!Schedule(i, w)
        BY <1>8, <3>3 DEF ScheduleStatement
      <4>. QED  BY <2>1, <3>3, <4>1, Sha512Schedule, Zenon
    <3>. QED  BY <2>1, <3>1, <3>2, <3>3 DEF IsSha
  <2>5. ShaWords(fn, b, t, t + i + 1, used, [w EXCEPT ![i] = X(fn)])
    <3>. HIDE DEF b
    <3>. QED  BY <2>1, <2>3, WordMade, Zenon
  <2>6. Top' = t + i + 1
    <3>1. i = 15 => Top' = 16 * (t \div 16) + 16
      BY <1>1, <2>1, <2>2 DEF Top
    <3>2. i # 15 => Top' = t + (i + 1)
      BY <2>2 DEF Top
    <3>. QED  BY <2>1, <3>1, <3>2
  <2>7. job'.blocks[done' + 1] = b
    BY <2>2
  <2>. HIDE DEF b, X
  <2>. QED  BY <1>1, <2>1, <2>2, <2>4, <2>5, <2>6, <2>7 DEF WordsOK
<1>9. CASE UpdateHash
  <2>1. pc' \in {"caller", "loop"}
    BY <1>9 DEF UpdateHash
  <2>. QED  BY <2>1 DEF WordsOK, Running
<1>10. CASE Return
  BY <1>10 DEF Return, WordsOK, Running
<1>11. CASE UNCHANGED vars
  <2>1. /\ job' = job /\ pc' = pc /\ done' = done /\ t' = t /\ i' = i /\ used' = used /\ w' = w
    BY <1>11 DEF vars
  <2>2. Top' = Top
    BY <1>1, <2>1 DEF Top
  <2>. QED  BY <1>1, <2>1, <2>2 DEF WordsOK, Running
<1>. QED
  BY <1>3, <1>4, <1>5, <1>6, <1>7, <1>8, <1>9, <1>10, <1>11 DEF Next

-----------------------------------------------------------------------------
(* The refinement of the standard.                                         *)

(* The variables total and round of the standard.                          *)
StdTotal == TotalOf(IF pc = "caller" /\ done <= Ordinary THEN cell ELSE count)
StdRound == IF Running THEN t ELSE -1

(* What a step must do to count as one of the standard: nothing,           *)
LEMMA Stutters ==
  ASSUME job' = job, hash' = hash, done' = done, StdTotal' = StdTotal, StdRound' = StdRound,
         LettersOfRegisters' = LettersOfRegisters, used' = used
  PROVE  UNCHANGED Standard!vars
BY DEF Standard!vars, StdTotal, StdRound

(* begin a block,                                                          *)
LEMMA Begins ==
  ASSUME ~Running, done < Len(job.blocks), StdRound' = 0, used' = << >>,
         job' = job, hash' = hash, done' = done,
         IF IsSha THEN LettersOfRegisters' = hash /\ StdTotal' = StdTotal
         ELSE /\ StdTotal' = Standard!CountWith(fn, Standard!Size(done + 1))
              /\ LettersOfRegisters' = Standard!BlakeStart(fn, hash, StdTotal', job.last /\ done + 1 = Len(job.blocks))
  PROVE  Standard!Begin
<1>1. Standard!IsSha(fn) <=> IsSha
  BY DEF Standard!IsSha, IsSha
<1>2. (IF Running THEN t ELSE -1) = Standard!none
  BY DEF Standard!none
<1>3. (IF Running THEN t ELSE -1)' = 0
  BY DEF StdRound
<1>4. IF Standard!IsSha(fn) THEN LettersOfRegisters' = hash /\ StdTotal' = StdTotal
      ELSE /\ StdTotal' = Standard!CountWith(fn, Standard!Size(done + 1))
           /\ LettersOfRegisters' = Standard!BlakeStart(fn, hash, StdTotal', job.last /\ done + 1 = Len(job.blocks))
  BY <1>1
<1>. QED  BY <1>2, <1>3, <1>4 DEF Standard!Begin, StdTotal, fn

(* make a round,                                                           *)
LEMMA Advances ==
  ASSUME Running, t \in Nat, t < Rounds, fn \in {"sha1", "sha256", "sha512", "blake2b", "blake2s"},
         StdRound' = t + 1, job' = job, hash' = hash, done' = done, StdTotal' = StdTotal,
         used' = IF IsSha THEN Append(used, Standard!ScheduleWord(fn, job.blocks[done + 1], used)) ELSE used,
         LettersOfRegisters' = Standard!Round(fn, t, LettersOfRegisters, job.blocks[done + 1],
                                  IF IsSha THEN used'[t + 1] ELSE {})
  PROVE  Standard!Advance
<1>1. Standard!IsSha(fn) <=> IsSha
  BY DEF Standard!IsSha, IsSha
<1>2. Standard!Rounds(fn) = Rounds
  BY DEF Standard!Rounds, Rounds, Sha1!Rounds, Sha256!Rounds, Sha512!Rounds, Blake2b!Rounds, Blake2s!Rounds
<1>3. (IF Running THEN t ELSE -1) = t /\ (IF Running THEN t ELSE -1)' = t + 1 /\ t # Standard!none
  BY DEF Standard!none, StdRound
<1>4. StdTotal' = StdTotal
  OBVIOUS
<1>5. Standard!Block(done + 1) = job.blocks[done + 1]
  BY DEF Standard!Block
<1>. QED  BY <1>1, <1>2, <1>3, <1>4, <1>5 DEF Standard!Advance, StdTotal, fn

(* or end the block.                                                       *)
LEMMA Ends ==
  ASSUME Running, t = Rounds, fn \in {"sha1", "sha256", "sha512", "blake2b", "blake2s"}, ~Running',
         hash' = Standard!Final(fn, hash, LettersOfRegisters), done' = done + 1, used' = << >>,
         job' = job, StdTotal' = StdTotal
  PROVE  Standard!End
<1>2. Standard!Rounds(fn) = Rounds
  BY DEF Standard!Rounds, Rounds, Sha1!Rounds, Sha256!Rounds, Sha512!Rounds, Blake2b!Rounds, Blake2s!Rounds
<1>3. (IF Running THEN t ELSE -1) = t /\ (IF Running THEN t ELSE -1)' = Standard!none
  BY DEF Standard!none
<1>4. LettersOfRegisters' = << >>
  BY DEF LettersOfRegisters
<1>. QED  BY <1>2, <1>3, <1>4 DEF Standard!End, StdTotal, fn

(* The facts about the current stream in one place.                        *)
LEMMA JobFacts ==
  ASSUME CallsOK
  PROVE  /\ fn \in {"sha1", "sha256", "sha512", "blake2b", "blake2s"}
         /\ Ordinary \in Nat /\ Len(job.blocks) \in Nat
         /\ Ordinary <= Len(job.blocks)
         /\ job.last = TRUE => Ordinary + 1 = Len(job.blocks)
         /\ job.last \in BOOLEAN
         /\ ~job.last => Ordinary = Len(job.blocks)
         /\ Rounds \in {64, 80, 96} /\ Rounds % 16 = 0 /\ (IsSha => Rounds % RegSize = 0)
         /\ job' = job => fn' = fn /\ IsSha' = IsSha /\ Ordinary' = Ordinary
<1>1. /\ fn \in {"sha1", "sha256", "sha512", "blake2b", "blake2s"}
      /\ Ordinary \in Nat /\ Len(job.blocks) \in Nat
      /\ IsSha => ShaStream(job)
      /\ ~IsSha => Blake2Stream(job)
      /\ Rounds \in {64, 80, 96} /\ Rounds % 16 = 0 /\ (IsSha => Rounds % RegSize = 0)
  BY Streams DEF CallsOK
<1>2. job.last \in BOOLEAN
  BY <1>1 DEF ShaStream, Blake2Stream
<1>3. job' = job => fn' = fn /\ IsSha' = IsSha /\ Ordinary' = Ordinary
  BY DEF fn, IsSha, Ordinary
<1>. QED  BY <1>1, <1>2, <1>3 DEF Ordinary

(* The count of bytes that the cells stand for.                            *)
LEMMA Totals ==
  ASSUME fn \in {"sha1", "sha256", "sha512", "blake2b", "blake2s"}
  PROVE  \A c : TotalOf(c) = IF IsSha THEN {} ELSE IF fn = "blake2b" THEN Blake2b!Total(c) ELSE c
BY DEF TotalOf, IsSha

(* The same after a step.                                                  *)
LEMMA TotalAfter ==
  ASSUME job' = job, NEW c, c = (IF pc = "caller" /\ done <= Ordinary THEN cell ELSE count)'
  PROVE  StdTotal' = TotalOf(c)
<1>1. TotalOf(c) = CASE fn' = "blake2b" -> Blake2b!Total(c) [] fn' = "blake2s" -> c [] OTHER -> {}
  <2>1. fn' = fn
    BY DEF fn
  <2>. QED  BY <2>1 DEF TotalOf
<1>. QED  BY <1>1 DEF StdTotal, TotalOf

(* Between the blocks there are no letters.                                *)
LEMMA Resting ==
  ~Running => LettersOfRegisters = << >> /\ StdRound = -1
BY DEF LettersOfRegisters, StdRound

LEMMA RestingAfter ==
  ~Running' => LettersOfRegisters' = << >> /\ StdRound' = -1
BY DEF LettersOfRegisters, StdRound

(* The caller and the schedule do what the standard does not know of.      *)
LEMMA CallStutters ==
  ASSUME CallsOK, NEW n \in 0 .. Len(job.blocks), CallCompress(n)
  PROVE  UNCHANGED Standard!vars
<1>1. /\ pc = "caller" /\ done <= Ordinary /\ pc' = "loop" /\ count' = cell
      /\ job' = job /\ hash' = hash /\ done' = done /\ used' = used /\ ~Running /\ ~Running'
  <2>1. /\ pc = "caller" /\ pc' = "loop" /\ count' = cell /\ n <= Ordinary - done
        /\ job' = job /\ hash' = hash /\ done' = done /\ used' = used
    BY DEF CallCompress
  <2>2. ~Running /\ ~Running'
    BY <2>1 DEF Running
  <2>3. Ordinary \in Nat /\ Len(job.blocks) \in Nat
    BY JobFacts, Zenon
  <2>4. done \in Nat
    BY DEF CallsOK
  <2>5. done <= Ordinary
    BY <2>1, <2>3, <2>4
  <2>. QED  BY <2>1, <2>2, <2>5
<1>2. StdTotal = TotalOf(cell)
  BY <1>1 DEF StdTotal
<1>3. StdTotal' = TotalOf(cell)
  BY <1>1, TotalAfter
<1>. QED  BY <1>1, <1>2, <1>3, Resting, RestingAfter, Stutters

LEMMA ReturnStutters ==
  ASSUME CallsOK, CountersOK, Return
  PROVE  UNCHANGED Standard!vars
<1>1. /\ pc = "loop" /\ left = 0 /\ pc' = "caller" /\ count' = count
      /\ job' = job /\ hash' = hash /\ done' = done /\ used' = used /\ ~Running /\ ~Running'
      /\ done <= Ordinary
  BY JobFacts DEF Return, CallsOK, Running
<1>2. Ordinary' = Ordinary
  BY <1>1, JobFacts
<1>3. StdTotal = TotalOf(count)
  BY <1>1 DEF StdTotal
<1>4. StdTotal' = TotalOf(cell')
  BY <1>1, <1>2, TotalAfter
<1>5. ~IsSha => cell' = count
  <2>1. fn = "blake2s" => cell' = Blake2s!Counted(cell, 64 * asked)
    BY DEF Return
  <2>2. 64 * asked = 64 * (asked - left)
    BY <1>1 DEF CallsOK
  <2>3. fn = "blake2s" => cell' = count
    BY <1>1, <2>1, <2>2 DEF CountersOK
  <2>4. fn = "blake2b" => cell' = count
    BY DEF Return
  <2>. QED  BY <2>3, <2>4, JobFacts DEF IsSha
<1>6. TotalOf(cell') = TotalOf(count)
  <2>1. CASE IsSha
    BY <2>1, Totals, JobFacts
  <2>. QED  BY <1>5, <2>1
<1>. QED  BY <1>1, <1>3, <1>4, <1>6, Resting, RestingAfter, Stutters

LEMMA ScheduleStutters ==
  ASSUME CallsOK, ScheduleStatement
  PROVE  UNCHANGED Standard!vars
<1>1. /\ job' = job /\ hash' = hash /\ done' = done /\ used' = used /\ reg' = reg /\ t' = t
      /\ pc = "schedule" /\ pc' \in {"step", "schedule"} /\ count' = count
  BY DEF ScheduleStatement
<1>2. Running /\ Running'
  BY <1>1 DEF Running
<1>3. StdTotal = TotalOf(count)
  BY <1>1 DEF StdTotal
<1>4. StdTotal' = TotalOf(count)
  BY <1>1, TotalAfter
<1>5. StdRound' = StdRound
  BY <1>1, <1>2 DEF StdRound
<1>6. LettersOfRegisters' = LettersOfRegisters
  <2>1. fn' = fn /\ IsSha' = IsSha
    BY <1>1, JobFacts
  <2>. QED  BY <1>1, <1>2, <2>1 DEF LettersOfRegisters
<1>. QED  BY <1>1, <1>3, <1>4, <1>5, <1>6, Stutters

LEMMA StayStutters ==
  ASSUME UNCHANGED vars
  PROVE  UNCHANGED Standard!vars
<1>1. StdTotal' = StdTotal /\ StdRound' = StdRound /\ LettersOfRegisters' = LettersOfRegisters
  BY DEF vars, StdTotal, StdRound, LettersOfRegisters, Running, TotalOf, Ordinary, fn, IsSha
<1>. QED  BY <1>1, Stutters DEF vars

(* The registers before the first step are the letters in order.           *)
LEMMA LettersAtStart ==
  ASSUME fn' = fn, IsSha' = IsSha, Running', t' = 0, NEW x, x = reg'
  PROVE  LettersOfRegisters' =
           IF IsSha THEN [j \in 0 .. HashSize - 1 |-> x[j]] ELSE x
<1>1. CASE ~IsSha
  BY <1>1 DEF LettersOfRegisters
<1>2. CASE IsSha
  <2>1. HashSize \in {5, 8} /\ HashSize = IF fn' = "sha1" THEN 5 ELSE 8
    BY DEF HashSize
  <2>2. LettersOfRegisters' = [j \in 0 .. HashSize - 1 |-> x[(j - 0) % HashSize]]
    BY <1>2, <2>1, Zenon DEF LettersOfRegisters
  <2>3. \A j \in 0 .. HashSize - 1 : (j - 0) % HashSize = j
    BY <2>1
  <2>. QED  BY <1>2, <2>2, <2>3
<1>. QED  BY <1>1, <1>2

(* The head of the loop begins a block of the standard.                    *)
LEMMA ShaBegins ==
  ASSUME CallsOK, ArraysOK, LoadSha
  PROVE  Standard!Begin
<1>1. /\ pc = "loop" /\ left > 0 /\ IsSha /\ job' = job /\ hash' = hash /\ done' = done
      /\ used' = used /\ t' = 0 /\ pc' = "step"
  BY DEF LoadSha
<1>2. ~Running /\ Running' /\ StdRound' = 0 /\ used' = << >>
  BY <1>1 DEF Running, StdRound, ArraysOK
<1>3. Ordinary <= Len(job.blocks) /\ Ordinary \in Nat /\ Len(job.blocks) \in Nat
  BY JobFacts, Zenon
<1>4. done < Len(job.blocks)
  <2>1. done + left <= Ordinary /\ done \in Nat /\ left \in Nat
    BY <1>1 DEF CallsOK, Running
  <2>. QED  BY <1>1, <1>3, <2>1
<1>5. fn \in {"sha1", "sha256", "sha512", "blake2b", "blake2s"} /\ fn' = fn /\ IsSha' = IsSha
  BY <1>1, JobFacts, Zenon
<1>6. StdTotal' = StdTotal
  <2>1. StdTotal = {}
    BY <1>1, <1>5, Totals DEF StdTotal
  <2>. PICK c : c = (IF pc = "caller" /\ done <= Ordinary THEN cell ELSE count)'
    OBVIOUS
  <2>2. StdTotal' = TotalOf(c)
    BY <1>1, TotalAfter
  <2>. QED  BY <1>1, <1>5, <2>1, <2>2, Totals
<1>7. reg' = hash
  BY <1>1 DEF LoadSha, IsSha, Sha1!Registers, Sha256!Registers, Sha512!Registers
<1>8. LettersOfRegisters' = hash
  <2>1. LettersOfRegisters' = [j \in 0 .. HashSize - 1 |-> hash[j]]
    BY <1>1, <1>2, <1>5, <1>7, LettersAtStart
  <2>. QED  BY <2>1 DEF ArraysOK, Array
<1>. QED  BY <1>1, <1>2, <1>4, <1>6, <1>8, Begins

(* The counters count what the standard counts.                            *)
LEMMA TotalCounted ==
  ASSUME NEW c, NEW n
  PROVE  /\ fn = "blake2b" /\ c \in Counter2b /\ n \in 0 .. 128 /\ StdTotal = Blake2b!Total(c) =>
              Standard!CountWith(fn, n) = Blake2b!Total(Blake2b!Counted(c, n))
         /\ fn = "blake2s" /\ n \in Nat /\ StdTotal = c =>
              Standard!CountWith(fn, n) = Blake2s!Counted(c, n)
<1>1. \A f : Standard!CountWith(f, n) =
        {q \in W(128)!Add(StdTotal, W(128)!OfNat(n)) : f = "blake2b" \/ q < 64}
  BY Zenon DEF Standard!CountWith, StdTotal, Standard!Counter!Add, Standard!Counter!OfNat, W!Add, W!OfNat
<1>2. CASE fn = "blake2b"
  <2>1. Standard!CountWith(fn, n) = W(128)!Add(StdTotal, W(128)!OfNat(n))
    BY <1>1, <1>2
  <2>. QED  BY <1>2, <2>1, CountedBlake2b
<1>3. CASE fn = "blake2s"
  <2>1. Standard!CountWith(fn, n) = {q \in W(128)!Add(StdTotal, W(128)!OfNat(n)) : q < 64}
    BY <1>1, <1>3
  <2>. QED  BY <1>3, <2>1, CountedBlake2s
<1>. QED  BY <1>2, <1>3

(* So it does for BLAKE2, in the loop and in LastBlock, with the count of  *)
(* the standard.                                                           *)
LEMMA Blake2Begins ==
  ASSUME CallsOK, CountersOK, CountersOK', ArraysOK,
         LoadBlake2b \/ LoadBlake2s \/ LastBlake2b \/ LastBlake2s
  PROVE  Standard!Begin
<1>. DEFINE last == job.last /\ done + 1 = Len(job.blocks)
            c0 == IF pc = "caller" THEN cell ELSE count
            n == Standard!Size(done + 1)
<1>1. /\ ~IsSha /\ job' = job /\ hash' = hash /\ done' = done
      /\ used' = used /\ t' = 0 /\ pc' = "step" /\ pc \in {"caller", "loop"}
      /\ pc = "caller" => LastBlake2b \/ LastBlake2s
      /\ pc = "loop" => LoadBlake2b \/ LoadBlake2s
  BY DEF LoadBlake2b, LoadBlake2s, LastBlake2b, LastBlake2s, IsSha
<1>2. ~Running /\ Running' /\ StdRound' = 0 /\ used' = << >>
  BY <1>1 DEF Running, StdRound, ArraysOK
<1>3. /\ Ordinary <= Len(job.blocks) /\ Ordinary \in Nat /\ Len(job.blocks) \in Nat
      /\ job.last = TRUE => Ordinary + 1 = Len(job.blocks)
      /\ job.last \in BOOLEAN
  BY JobFacts, Zenon
<1>4. /\ done \in Nat
      /\ pc = "caller" => last /\ done <= Ordinary /\ done < Len(job.blocks)
      /\ pc = "loop" => ~last /\ done < Len(job.blocks)
  <2>1. CASE pc = "caller"
    <3>1. job.last = TRUE /\ done = Ordinary
      BY <1>1, <1>3, <2>1 DEF LastBlake2b, LastBlake2s
    <3>. QED  BY <1>3, <2>1, <3>1
  <2>2. CASE pc = "loop"
    <3>1. left > 0
      BY <1>1, <2>2 DEF LoadBlake2b, LoadBlake2s
    <3>2. done \in Nat /\ left \in Nat /\ done + left <= Ordinary
      BY <2>2 DEF CallsOK, Running
    <3>. QED  BY <1>3, <2>2, <3>1, <3>2
  <2>3. done \in Nat
    BY DEF CallsOK
  <2>. QED  BY <1>1, <2>1, <2>2, <2>3
<1>5. /\ fn \in {"sha1", "sha256", "sha512", "blake2b", "blake2s"} /\ fn' = fn /\ IsSha' = IsSha
  BY <1>1, JobFacts, Zenon
<1>6. StdTotal = TotalOf(c0)
  BY <1>1, <1>4 DEF StdTotal
<1>7. StdTotal' = TotalOf(count')
  <2>1. (IF pc = "caller" /\ done <= Ordinary THEN cell ELSE count)' = count'
    BY <1>1
  <2>. QED  BY <1>1, <2>1, TotalAfter
<1>8. n = IF pc = "caller" THEN job.lastBytes ELSE Len(job.blocks[done + 1])
  BY <1>1, <1>4 DEF Standard!Size, Standard!Block
<1>9. count' = IF fn = "blake2b" THEN Blake2b!Counted(c0, n) ELSE Blake2s!Counted(c0, n)
  BY <1>1, <1>8 DEF LoadBlake2b, LoadBlake2s, LastBlake2b, LastBlake2s
<1>10. n \in IF fn = "blake2b" THEN 0 .. 128 ELSE Nat
  <2>1. CASE pc = "caller"
    <3>1. Blake2Stream(job)
      BY <1>1, Streams DEF CallsOK
    <3>2. job.lastBytes \in 0 .. (IF job.fn = "blake2b" THEN 128 ELSE 64)
      BY <3>1 DEF Blake2Stream
    <3>. QED  BY <1>8, <2>1, <3>2 DEF fn
  <2>2. CASE pc = "loop"
    <3>1. done + 1 \in 1 .. Len(job.blocks)
      BY <1>3, <1>4, <2>2
    <3>2. Len(job.blocks[done + 1]) = BlockSize
      BY <3>1, BlockBytes DEF CallsOK
    <3>. QED  BY <1>8, <2>2, <3>2 DEF BlockSize
  <2>. QED  BY <1>1, <2>1, <2>2
<1>11. /\ fn = "blake2b" => c0 \in Counter2b
       /\ fn = "blake2b" => count' \in Counter2b
       /\ fn = "blake2s" => count' \in SUBSET (0 .. 63)
  BY <1>5 DEF CountersOK
<1>12. StdTotal = (IF fn = "blake2b" THEN Blake2b!Total(c0) ELSE c0)
       /\ StdTotal' = (IF fn = "blake2b" THEN Blake2b!Total(count') ELSE count')
  BY <1>1, <1>5, <1>6, <1>7, Totals
<1>13. fn \in {"blake2b", "blake2s"}
  BY <1>1, <1>5 DEF IsSha
<1>14. last \in BOOLEAN /\ (pc = "caller" <=> last)
  BY <1>1, <1>4
<1>15. reg' = IF fn = "blake2b" THEN Blake2b!Registers(hash, count', IF last THEN 0 .. 63 ELSE {}, {})
              ELSE Blake2s!Registers(hash, count', IF last THEN 0 .. 31 ELSE {}, {})
  <2>. HIDE DEF last
  <2>. QED  BY <1>1, <1>14 DEF LoadBlake2b, LoadBlake2s, LastBlake2b, LastBlake2s
<1>16. StdTotal' = Standard!CountWith(fn, n)
  <2>. HIDE DEF n, c0, last
  <2>1. CASE fn = "blake2b"
    <3>1. Standard!CountWith(fn, n) = Blake2b!Total(Blake2b!Counted(c0, n))
      BY <1>10, <1>11, <1>12, <2>1, TotalCounted
    <3>. QED  BY <1>9, <1>12, <2>1, <3>1
  <2>2. CASE fn = "blake2s"
    <3>1. Standard!CountWith(fn, n) = Blake2s!Counted(c0, n)
      BY <1>10, <1>11, <1>12, <2>2, TotalCounted
    <3>. QED  BY <1>9, <1>12, <2>2, <3>1
  <2>. QED  BY <1>13, <2>1, <2>2
<1>17. reg' = Standard!BlakeStart(fn, hash, StdTotal', last)
  <2>. PICK c : c = count'
    OBVIOUS
  <2>. HIDE DEF n, c0, last
  <2>1. CASE fn = "blake2b"
    <3>1. reg' = Blake2b!Registers(hash, c, IF last THEN 0 .. 63 ELSE {}, {}) /\ c \in Counter2b
          /\ StdTotal' = Blake2b!Total(c)
      BY <1>11, <1>12, <1>15, <2>1
    <3>2. Blake2b!Registers(hash, c, IF last THEN 0 .. 63 ELSE {}, {}) =
            Standard!BlakeStart("blake2b", hash, Blake2b!Total(c), last)
      BY <1>14, <3>1, Started, Zenon
    <3>. QED  BY <2>1, <3>1, <3>2
  <2>2. CASE fn = "blake2s"
    <3>1. reg' = Blake2s!Registers(hash, c, IF last THEN 0 .. 31 ELSE {}, {}) /\ c \in SUBSET (0 .. 63)
          /\ StdTotal' = c
      BY <1>11, <1>12, <1>15, <2>2
    <3>2. Blake2s!Registers(hash, c, IF last THEN 0 .. 31 ELSE {}, {}) =
            Standard!BlakeStart("blake2s", hash, c, last)
      BY <1>14, <3>1, Started, Zenon
    <3>. QED  BY <2>2, <3>1, <3>2
  <2>. QED  BY <1>13, <2>1, <2>2
<1>18. LettersOfRegisters' = reg'
  BY <1>1, <1>2, <1>5, LettersAtStart
<1>. HIDE DEF c0
<1>. QED  BY <1>1, <1>2, <1>4, <1>16, <1>17, <1>18, Begins

(* The letters at step T: letter j is in register j - T.                   *)
LettersOf(f, g, T) == IF f = "sha1" THEN [j \in 0 .. 4 |-> g[(j - T) % 5]]
                      ELSE [j \in 0 .. 7 |-> g[(j - T) % 8]]
(* The step of each function of the SHA family.                            *)
ShaStep(f, T, g, m) ==
  CASE f = "sha1" -> Sha1!StepAt(T, g, m)
    [] f = "sha256" -> Sha256!StepAt(T, g, m)
    [] f = "sha512" -> Sha512!StepAt(T, g, m)

(* A step of SHA on the letters: step T uses one word.                     *)
LEMMA ShaRound ==
  ASSUME fn \in {"sha1", "sha256", "sha512"}, NEW T \in Nat, NEW g, DOMAIN g = 0 .. RegSize - 1, NEW m,
         NEW b
  PROVE  LettersOf(fn, ShaStep(fn, T, g, m), T + 1) =
           Standard!Round(fn, T, LettersOf(fn, g, T), b, m[T % 16])
<1>1. CASE fn = "sha1"
  <2>1. RegSize = 5
    BY <1>1 DEF RegSize, IsSha
  <2>2. DOMAIN g = 0 .. 4 /\ 5 - 1 = 4
    BY <2>1
  <2>3. [j \in 0 .. 4 |-> Sha1!StepAt(T, g, m)[(j - (T + 1)) % 5]] =
           Standard!Sha1Round(T, [j \in 0 .. 4 |-> g[(j - T) % 5]], m[T % 16])
    BY <2>2, Sha1Letters
  <2>5. LettersOf("sha1", Sha1!StepAt(T, g, m), T + 1) = Standard!Sha1Round(T, LettersOf("sha1", g, T), m[T % 16])
    BY <2>3, Zenon DEF LettersOf
  <2>6. ShaStep(fn, T, g, m) = Sha1!StepAt(T, g, m)
    BY <1>1 DEF ShaStep
  <2>7. \A v, x : Standard!Round(fn, T, v, b, x) = Standard!Sha1Round(T, v, x)
    BY <1>1 DEF Standard!Round
  <2>. QED  BY <1>1, <2>5, <2>6, <2>7, Zenon
<1>2. CASE fn = "sha256"
  <2>1. RegSize = 8
    BY <1>2 DEF RegSize, IsSha
  <2>2. DOMAIN g = 0 .. 7 /\ 8 - 1 = 7
    BY <2>1
  <2>3. [j \in 0 .. 7 |-> Sha256!StepAt(T, g, m)[(j - (T + 1)) % 8]] =
           Standard!Sha256Round(T, [j \in 0 .. 7 |-> g[(j - T) % 8]], m[T % 16])
    BY <2>2, Sha256Letters
  <2>4. "sha1" # "sha256"
    OBVIOUS
  <2>5. LettersOf("sha256", Sha256!StepAt(T, g, m), T + 1) = Standard!Sha256Round(T, LettersOf("sha256", g, T), m[T % 16])
    BY <2>3, <2>4, Zenon DEF LettersOf
  <2>6. ShaStep(fn, T, g, m) = Sha256!StepAt(T, g, m)
    BY <1>2 DEF ShaStep
  <2>7. \A v, x : Standard!Round(fn, T, v, b, x) = Standard!Sha256Round(T, v, x)
    BY <1>2 DEF Standard!Round
  <2>. QED  BY <1>2, <2>5, <2>6, <2>7, Zenon
<1>3. CASE fn = "sha512"
  <2>1. RegSize = 8
    BY <1>3 DEF RegSize, IsSha
  <2>2. DOMAIN g = 0 .. 7 /\ 8 - 1 = 7
    BY <2>1
  <2>3. [j \in 0 .. 7 |-> Sha512!StepAt(T, g, m)[(j - (T + 1)) % 8]] =
           Standard!Sha512Round(T, [j \in 0 .. 7 |-> g[(j - T) % 8]], m[T % 16])
    BY <2>2, Sha512Letters
  <2>4. "sha1" # "sha512"
    OBVIOUS
  <2>5. LettersOf("sha512", Sha512!StepAt(T, g, m), T + 1) = Standard!Sha512Round(T, LettersOf("sha512", g, T), m[T % 16])
    BY <2>3, <2>4, Zenon DEF LettersOf
  <2>6. ShaStep(fn, T, g, m) = Sha512!StepAt(T, g, m)
    BY <1>3 DEF ShaStep
  <2>7. \A v, x : Standard!Round(fn, T, v, b, x) = Standard!Sha512Round(T, v, x)
    BY <1>3 DEF Standard!Round
  <2>. QED  BY <1>3, <2>5, <2>6, <2>7, Zenon
<1>. QED  BY <1>1, <1>2, <1>3

(* The letters of the refinement mapping are these.                        *)
LEMMA ShaLetters ==
  ASSUME IsSha, Running
  PROVE  LettersOfRegisters = LettersOf(fn, reg, t)
<1>1. CASE fn = "sha1"
  BY <1>1 DEF LettersOfRegisters, LettersOf
<1>2. CASE fn # "sha1"
  BY <1>2 DEF LettersOfRegisters, LettersOf
<1>. QED  BY <1>1, <1>2

LEMMA ShaLettersAfter ==
  ASSUME IsSha, fn' = fn, IsSha' = IsSha, Running', NEW g, g = reg', NEW T, T = t'
  PROVE  LettersOfRegisters' = LettersOf(fn, g, T)
<1>1. CASE fn = "sha1"
  BY <1>1 DEF LettersOfRegisters, LettersOf
<1>2. CASE fn # "sha1"
  BY <1>2 DEF LettersOfRegisters, LettersOf
<1>. QED  BY <1>1, <1>2

(* A step of SHA is a round of the standard, on the word it expands.       *)
LEMMA ShaAdvances ==
  ASSUME CallsOK, ArraysOK, WordsOK, StepSha
  PROVE  Standard!Advance
<1>1. /\ pc = "step" /\ t < Rounds /\ IsSha /\ t' = t + 1 /\ used' = Append(used, w[t % 16])
      /\ pc' \in {"step", "schedule"}
      /\ job' = job /\ hash' = hash /\ done' = done /\ count' = count
  BY DEF StepSha
<1>2. /\ fn \in {"sha1", "sha256", "sha512", "blake2b", "blake2s"} /\ Rounds \in {64, 80, 96}
      /\ fn' = fn /\ IsSha' = IsSha
  BY <1>1, JobFacts, Zenon
<1>3. Running /\ Running'
  BY <1>1 DEF Running
<1>4. t \in Nat /\ DOMAIN reg = 0 .. RegSize - 1
  BY <1>2, <1>3 DEF ArraysOK
<1>5. StdTotal' = StdTotal
  <2>1. StdTotal = TotalOf(count)
    BY <1>1 DEF StdTotal
  <2>2. StdTotal' = TotalOf(count)
    BY <1>1, TotalAfter
  <2>. QED  BY <2>1, <2>2
<1>6. StdRound' = t + 1
  BY <1>1, <1>3 DEF StdRound
<1>. DEFINE b == job.blocks[done + 1]
            x == w[t % 16]
<1>7. ShaWords(fn, b, t, Top, used, w)
  BY <1>1, <1>3 DEF WordsOK
<1>8. fn \in {"sha1", "sha256", "sha512"}
  BY <1>1 DEF IsSha
<1>9. x = Standard!ScheduleWord(fn, b, used)
  <2>1. Top = 16 * (t \div 16) + 16
    BY <1>1, <1>2, <1>4 DEF Top
  <2>2. Top \in Nat /\ t < Top /\ Top <= 16 * (t \div 16) + 16
    BY <1>4, <2>1
  <2>. PICK top \in Nat : top = Top
    BY <2>2
  <2>3. ShaWords(fn, b, t, top, used, w) /\ t < top /\ top <= 16 * (t \div 16) + 16
    BY <1>7, <2>2
  <2>. HIDE DEF b
  <2>4. t \in Nat
    BY <1>4
  <2>. QED  BY <1>8, <2>3, <2>4, NextWord
<1>10. used'[t + 1] = x
  BY <1>1, <1>4, <1>7, Appended DEF ShaWords
<1>11. LettersOfRegisters' = Standard!Round(fn, t, LettersOfRegisters, b, x)
  <2>. PICK g1 : g1 = reg'
    OBVIOUS
  <2>. PICK T : T = t + 1
    OBVIOUS
  <2>1. g1 = ShaStep(fn, t, reg, w)
    BY Zenon DEF StepSha, ShaStep
  <2>2. LettersOfRegisters' = LettersOf(fn, g1, T)
    BY <1>1, <1>2, <1>3, ShaLettersAfter
  <2>3. LettersOfRegisters = LettersOf(fn, reg, t)
    BY <1>1, <1>3, ShaLetters
  <2>4. LettersOf(fn, ShaStep(fn, t, reg, w), t + 1) =
           Standard!Round(fn, t, LettersOf(fn, reg, t), b, w[t % 16])
    <3>. HIDE DEF b
    <3>. QED  BY <1>4, <1>8, ShaRound
  <2>. QED  BY <2>1, <2>2, <2>3, <2>4
<1>. QED  BY <1>1, <1>2, <1>3, <1>4, <1>5, <1>6, <1>9, <1>10, <1>11, Advances

(* A use of G is a round of the standard.                                  *)
LEMMA Blake2Advances ==
  ASSUME CallsOK, ArraysOK, WordsOK, StepBlake2
  PROVE  Standard!Advance
<1>1. /\ pc = "step" /\ t < Rounds /\ ~IsSha /\ t' = t + 1 /\ used' = used /\ pc' = pc
      /\ job' = job /\ hash' = hash /\ done' = done /\ count' = count
  BY DEF StepBlake2
<1>2. /\ fn \in {"sha1", "sha256", "sha512", "blake2b", "blake2s"} /\ Rounds \in {64, 80, 96}
      /\ fn' = fn /\ IsSha' = IsSha
  BY <1>1, JobFacts, Zenon
<1>3. Running /\ Running'
  BY <1>1 DEF Running
<1>4. t \in Nat /\ DOMAIN reg = 0 .. 15
  <2>1. RegSize = 16
    BY <1>1 DEF RegSize, IsSha
  <2>. QED  BY <1>2, <1>3, <2>1 DEF ArraysOK
<1>5. StdTotal' = StdTotal
  <2>1. StdTotal = TotalOf(count)
    BY <1>1 DEF StdTotal
  <2>2. StdTotal' = TotalOf(count)
    BY <1>1, TotalAfter
  <2>. QED  BY <2>1, <2>2
<1>6. StdRound' = t + 1
  BY <1>1, <1>3 DEF StdRound
<1>. DEFINE b == job.blocks[done + 1]
<1>7. \A q \in 0 .. 15 : w[q] = Standard!MessageWord(fn, b, q)
  BY <1>1, <1>3 DEF WordsOK
<1>8. LettersOfRegisters' = reg' /\ LettersOfRegisters = reg
  BY <1>1, <1>2, <1>3 DEF LettersOfRegisters
<1>9. \A v : Standard!Round(fn, t, v, b, {}) = Standard!BlakeRound(fn, t, v, b)
  BY <1>1 DEF Standard!Round, IsSha
<1>10. reg' = Standard!BlakeRound(fn, t, reg, b)
  <2>1. CASE fn = "blake2b"
    <3>1. t \in 0 .. Blake2b!Rounds - 1 /\ reg' = Blake2b!StepAt(t, reg, w)
      BY <1>1, <1>4, <2>1 DEF StepBlake2, Rounds, Blake2b!Rounds
    <3>2. \A q \in 0 .. 15 : w[q] = Standard!MessageWord("blake2b", b, q)
      BY <1>7, <2>1
    <3>. HIDE DEF b
    <3>3. Blake2b!StepAt(t, reg, w) = Standard!BlakeRound("blake2b", t, reg, b)
      BY <1>4, <3>1, <3>2, Blake2bStep, Zenon
    <3>. QED  BY <2>1, <3>1, <3>3
  <2>2. CASE fn = "blake2s"
    <3>1. t \in 0 .. Blake2s!Rounds - 1 /\ reg' = Blake2s!StepAt(t, reg, w)
      BY <1>1, <1>4, <2>2 DEF StepBlake2, Rounds, Blake2s!Rounds
    <3>2. \A q \in 0 .. 15 : w[q] = Standard!MessageWord("blake2s", b, q)
      BY <1>7, <2>2
    <3>. HIDE DEF b
    <3>3. Blake2s!StepAt(t, reg, w) = Standard!BlakeRound("blake2s", t, reg, b)
      BY <1>4, <3>1, <3>2, Blake2sStep, Zenon
    <3>. QED  BY <2>2, <3>1, <3>3
  <2>. QED  BY <1>1, <1>2, <2>1, <2>2 DEF IsSha
<1>11. LettersOfRegisters' = Standard!Round(fn, t, LettersOfRegisters, b, {})
  <2>. HIDE DEF b
  <2>. QED  BY <1>8, <1>9, <1>10
<1>. QED  BY <1>1, <1>2, <1>3, <1>4, <1>5, <1>6, <1>11, Advances

(* After the last step the letters are back in their registers.            *)
LEMMA LettersReturn ==
  ASSUME NEW j \in Nat
  PROVE  /\ j \in 0 .. 4 => (j - 80) % 5 = j
         /\ j \in 0 .. 7 => (j - 64) % 8 = j /\ (j - 80) % 8 = j
OBVIOUS

(* The update adds the letters to the hash.                                *)
LEMMA HashUpdated ==
  ASSUME Array(hash, HashSize), fn \in {"sha1", "sha256", "sha512", "blake2b", "blake2s"}, Running,
         t = Rounds, NEW h,
         h = CASE fn = "sha1" -> Sha1!Update(hash, reg)
               [] fn = "sha256" -> Sha256!Update(hash, reg)
               [] fn = "sha512" -> Sha512!Update(hash, reg)
               [] fn = "blake2b" -> Blake2b!Update(hash, reg)
               [] fn = "blake2s" -> Blake2s!Update(hash, reg)
  PROVE  h = Standard!Final(fn, hash, LettersOfRegisters)
<1>1. DOMAIN hash = 0 .. HashSize - 1
  <2>1. hash = [j \in 0 .. HashSize - 1 |-> hash[j]]
    BY DEF Array
  <2>. QED  BY <2>1
<1>2. IsSha => LettersOfRegisters = LettersOf(fn, reg, t)
  BY ShaLetters
<1>3. CASE fn = "sha1"
  <2>1. DOMAIN hash = 0 .. 4 /\ t = 80
    BY <1>1, <1>3 DEF HashSize, Rounds, Sha1!Rounds
  <2>2. \A j \in 0 .. 4 : LettersOfRegisters[j] = reg[j]
    <3>1. \A j \in 0 .. 4 : (j - 80) % 5 = j
      BY LettersReturn
    <3>. QED  BY <1>2, <1>3, <2>1, <3>1 DEF LettersOf, IsSha
  <2>3. \A y, z : Standard!Sha1!Add(y, z) = Sha1!Add(y, z)
    BY Zenon DEF Standard!Sha1!Add, Sha1!Add
  <2>4. Standard!Final(fn, hash, LettersOfRegisters) =
          [j \in 0 .. 4 |-> Standard!Sha1!Add(hash[j], LettersOfRegisters[j])]
    BY <1>3, <2>1 DEF Standard!Final
  <2>5. h = [j \in 0 .. 4 |-> Sha1!Add(hash[j], reg[j])]
    BY <1>3, Zenon DEF Sha1!Update
  <2>. QED  BY <2>2, <2>3, <2>4, <2>5
<1>4. CASE fn = "sha256"
  <2>1. DOMAIN hash = 0 .. 7 /\ t = 64
    BY <1>1, <1>4 DEF HashSize, Rounds, Sha256!Rounds
  <2>2. \A j \in 0 .. 7 : LettersOfRegisters[j] = reg[j]
    <3>1. \A j \in 0 .. 7 : (j - 64) % 8 = j
      BY LettersReturn
    <3>. QED  BY <1>2, <1>4, <2>1, <3>1 DEF LettersOf, IsSha
  <2>3. \A y, z : Standard!Sha256!Add(y, z) = Sha256!Add(y, z)
    BY Zenon DEF Standard!Sha256!Add, Sha256!Add
  <2>4. Standard!Final(fn, hash, LettersOfRegisters) =
          [j \in 0 .. 7 |-> Standard!Sha256!Add(hash[j], LettersOfRegisters[j])]
    BY <1>4, <2>1 DEF Standard!Final
  <2>5. h = [j \in 0 .. 7 |-> Sha256!Add(hash[j], reg[j])]
    BY <1>4, Zenon DEF Sha256!Update
  <2>. QED  BY <2>2, <2>3, <2>4, <2>5
<1>5. CASE fn = "sha512"
  <2>1. DOMAIN hash = 0 .. 7 /\ t = 80
    BY <1>1, <1>5 DEF HashSize, Rounds, Sha512!Rounds
  <2>2. \A j \in 0 .. 7 : LettersOfRegisters[j] = reg[j]
    <3>1. \A j \in 0 .. 7 : (j - 80) % 8 = j
      BY LettersReturn
    <3>. QED  BY <1>2, <1>5, <2>1, <3>1 DEF LettersOf, IsSha
  <2>3. \A y, z : Standard!Sha512!Add(y, z) = Sha512!Add(y, z)
    BY Zenon DEF Standard!Sha512!Add, Sha512!Add
  <2>4. Standard!Final(fn, hash, LettersOfRegisters) =
          [j \in 0 .. 7 |-> Standard!Sha512!Add(hash[j], LettersOfRegisters[j])]
    BY <1>5, <2>1 DEF Standard!Final
  <2>5. h = [j \in 0 .. 7 |-> Sha512!Add(hash[j], reg[j])]
    BY <1>5, Zenon DEF Sha512!Update
  <2>. QED  BY <2>2, <2>3, <2>4, <2>5
<1>6. CASE fn \in {"blake2b", "blake2s"}
  <2>1. DOMAIN hash = 0 .. 7
    BY <1>1, <1>6 DEF HashSize
  <2>2. LettersOfRegisters = reg
    BY <1>6 DEF LettersOfRegisters, IsSha
  <2>3. \A y, z : Standard!Counter!Xor(y, z) = Blake2b!Xor(y, z) /\ Standard!Counter!Xor(y, z) = Blake2s!Xor(y, z)
    BY Zenon DEF Standard!Counter!Xor, Blake2b!Xor, Blake2s!Xor
  <2>4. Standard!Final(fn, hash, LettersOfRegisters) =
          [j \in 0 .. 7 |-> Standard!Counter!Xor(hash[j], Standard!Counter!Xor(reg[j], reg[j + 8]))]
    BY <1>6, <2>1, <2>2 DEF Standard!Final
  <2>5. \/ h = [j \in 0 .. 7 |-> Blake2b!Xor(hash[j], Blake2b!Xor(reg[j], reg[j + 8]))]
        \/ h = [j \in 0 .. 7 |-> Blake2s!Xor(hash[j], Blake2s!Xor(reg[j], reg[j + 8]))]
    BY <1>6, Zenon DEF Blake2b!Update, Blake2s!Update
  <2>. QED  BY <2>3, <2>4, <2>5
<1>. QED  BY <1>3, <1>4, <1>5, <1>6

(* It ends the block.                                                      *)
LEMMA UpdateEnds ==
  ASSUME CallsOK, ArraysOK, UpdateHash
  PROVE  Standard!End
<1>1. /\ pc = "step" /\ t = Rounds /\ done' = done + 1 /\ used' = << >> /\ asked' = asked
      /\ job' = job /\ count' = count
      /\ pc' = IF asked = 0 THEN "caller" ELSE "loop"
  BY DEF UpdateHash, Idle
<1>2. fn \in {"sha1", "sha256", "sha512", "blake2b", "blake2s"} /\ Ordinary \in Nat /\ Ordinary' = Ordinary
  BY <1>1, JobFacts, Zenon
<1>3. Running /\ ~Running'
  BY <1>1 DEF Running
<1>4. StdTotal' = StdTotal
  <2>1. StdTotal = TotalOf(count)
    BY <1>1 DEF StdTotal
  <2>2. asked = 0 => done = Ordinary
    BY <1>1 DEF CallsOK, Running
  <2>3. ~ (pc' = "caller" /\ done' <= Ordinary')
    BY <1>1, <1>2, <2>2
  <2>4. (IF pc = "caller" /\ done <= Ordinary THEN cell ELSE count)' = count
    BY <1>1, <2>3
  <2>5. StdTotal' = TotalOf(count)
    BY <1>1, <2>4, TotalAfter
  <2>. QED  BY <2>1, <2>5
<1>5. hash' = Standard!Final(fn, hash, LettersOfRegisters)
  <2>. PICK h : h = hash'
    OBVIOUS
  <2>1. Array(hash, HashSize)
    BY DEF ArraysOK
  <2>2. h = CASE fn = "sha1" -> Sha1!Update(hash, reg)
               [] fn = "sha256" -> Sha256!Update(hash, reg)
               [] fn = "sha512" -> Sha512!Update(hash, reg)
               [] fn = "blake2b" -> Blake2b!Update(hash, reg)
               [] fn = "blake2s" -> Blake2s!Update(hash, reg)
    BY Zenon DEF UpdateHash
  <2>. QED  BY <1>1, <1>2, <1>3, <2>1, <2>2, HashUpdated
<1>. QED  BY <1>1, <1>2, <1>3, <1>4, <1>5, Ends

(* The cells of a count stand for it.                                      *)
LEMMA CountOfTotal ==
  ASSUME NEW x \in SUBSET (0 .. 127)
  PROVE  Blake2b!CountOf(x) \in Counter2b /\ Blake2b!Total(Blake2b!CountOf(x)) = x
<1>. DEFINE hi == {n - 64 : n \in {m \in x : m >= 64}}
            lo == {n \in x : n < 64}
<1>1. Blake2b!CountOf(x) = [upper |-> hi, lower |-> lo]
  BY DEF Blake2b!CountOf
<1>2. hi \subseteq 0 .. 63 /\ lo \subseteq 0 .. 63
  <2>1. \A n \in x : n \in 0 .. 127
    OBVIOUS
  <2>2. \A n \in hi : n \in 0 .. 63
    BY <2>1
  <2>3. \A n \in lo : n \in 0 .. 63
    BY <2>1
  <2>. HIDE DEF hi, lo
  <2>. QED  BY <2>2, <2>3
<1>3. lo \cup {64 + n : n \in hi} = x
  <2>1. ASSUME NEW n \in x PROVE n \in lo \cup {64 + k : k \in hi}
    <3>1. CASE n >= 64
      <4>1. n - 64 \in hi /\ n = 64 + (n - 64)
        BY <3>1
      <4>. HIDE DEF hi
      <4>. QED  BY <4>1
    <3>. QED  BY <3>1
  <2>2. ASSUME NEW n \in {64 + k : k \in hi} PROVE n \in x
    OBVIOUS
  <2>. QED  BY <2>1, <2>2
<1>. HIDE DEF hi, lo
<1>4. [upper |-> hi, lower |-> lo] \in Counter2b
  BY <1>2 DEF Counter2b
<1>5. Blake2b!Total([upper |-> hi, lower |-> lo]) = lo \cup {64 + n : n \in hi}
  BY DEF Blake2b!Total
<1>. QED  BY <1>1, <1>3, <1>4, <1>5

(* The invariant holds at first, and the standard starts where the code    *)
(* does.                                                                   *)
LEMMA CompressInit ==
  ASSUME Init
  PROVE  CompressInv /\ Standard!Init
<1>1. /\ job \in Jobs /\ host \in Builds
      /\ pc = "caller" /\ left = 0 /\ asked = 0 /\ done = 0 /\ hash = job.hash
      /\ cell = CellOf(job.total) /\ count = cell
      /\ reg = << >> /\ w = << >> /\ t = 0 /\ i = 0 /\ used = << >>
  BY DEF Init
<1>2. ~Running
  BY <1>1 DEF Running
<1>3. /\ fn \in {"sha1", "sha256", "sha512", "blake2b", "blake2s"}
      /\ Ordinary \in Nat
      /\ IsSha => ShaStream(job)
      /\ ~IsSha => Blake2Stream(job)
  BY <1>1, Streams
<1>4. CallsOK
  BY <1>1, <1>3 DEF CallsOK
<1>5. job.hash \in Digests(HashSize)
  BY <1>3 DEF ShaStream, Blake2Stream, HashSize, IsSha, fn
<1>6. Array(hash, HashSize)
  <2>1. hash \in [0 .. HashSize - 1 -> SUBSET (0 .. 63)]
    BY <1>1, <1>5 DEF Digests
  <2>. QED  BY <2>1 DEF Array
<1>7. ArraysOK
  BY <1>1, <1>2, <1>6 DEF ArraysOK
<1>8. WordsOK
  BY <1>2 DEF WordsOK
<1>9. /\ IsSha => job.total = {}
      /\ fn = "blake2b" => job.total \in SUBSET (0 .. 127)
      /\ fn = "blake2s" => job.total \in SUBSET (0 .. 63)
  <2>1. IsSha => job.total = {}
    BY <1>3 DEF ShaStream
  <2>2. ~IsSha => job.total \subseteq 0 .. (IF fn = "blake2b" THEN 128 ELSE 64) - 1
    BY <1>3 DEF Blake2Stream, fn
  <2>3. fn = "blake2b" => ~IsSha /\ (IF fn = "blake2b" THEN 128 ELSE 64) - 1 = 127
    BY DEF IsSha
  <2>4. fn = "blake2s" => ~IsSha /\ (IF fn = "blake2b" THEN 128 ELSE 64) - 1 = 63
    BY DEF IsSha
  <2>. QED  BY <2>1, <2>2, <2>3, <2>4
<1>10. /\ fn = "blake2b" => cell = Blake2b!CountOf(job.total)
       /\ fn # "blake2b" => cell = job.total
  BY <1>1 DEF CellOf
<1>11. CountersOK
  BY <1>1, <1>2, <1>9, <1>10, CountOfTotal DEF CountersOK
<1>12. TotalOf(IF pc = "caller" /\ done <= Ordinary THEN cell ELSE count) = job.total
  <2>1. TotalOf(IF pc = "caller" /\ done <= Ordinary THEN cell ELSE count) = TotalOf(cell)
    BY <1>1, <1>3
  <2>2. TotalOf(cell) = job.total
    BY <1>3, <1>9, <1>10, CountOfTotal, Totals
  <2>. QED  BY <2>1, <2>2
<1>13. Standard!Idle
  BY <1>1, <1>2 DEF Standard!Idle, Standard!none, LettersOfRegisters
<1>14. Standard!Init
  BY <1>1, <1>12, <1>13 DEF Standard!Init
<1>. QED  BY <1>4, <1>7, <1>8, <1>11, <1>14 DEF CompressInv

(* Every step keeps the invariant.                                         *)
LEMMA CompressInvKept ==
  ASSUME CompressInv, [Next]_vars
  PROVE  CompressInv'
<1>1. CallsOK'
  BY CallsKept DEF CompressInv
<1>2. CountersOK'
  BY CountersKept DEF CompressInv
<1>3. ArraysOK'
  BY <1>2, ArraysKept DEF CompressInv
<1>4. WordsOK'
  BY WordsKept DEF CompressInv
<1>. QED  BY <1>1, <1>2, <1>3, <1>4 DEF CompressInv

(* The invariant holds in every state: the place in the calls, the counter *)
(* of BLAKE2s ahead of its cells by the blocks of the call, the message    *)
(* words in the places where the next steps look for them.                 *)
THEOREM CompressInvariant == Spec => []CompressInv
<1>1. Init => CompressInv
  BY CompressInit
<1>2. CompressInv /\ [Next]_vars => CompressInv'
  BY CompressInvKept
<1>. QED  BY <1>1, <1>2, PTL DEF Spec

(* Every step of the code is a step of the standard or none.               *)
LEMMA CompressSteps ==
  ASSUME CompressInv, CompressInv', [Next]_vars
  PROVE  [Standard!Next]_(Standard!vars)
<1>. USE DEF CompressInv
<1>1. ASSUME NEW n \in 0 .. Len(job.blocks), CallCompress(n) PROVE UNCHANGED Standard!vars
  BY <1>1, CallStutters
<1>2. CASE LoadSha
  BY <1>2, ShaBegins DEF Standard!Next
<1>3. CASE LoadBlake2b \/ LoadBlake2s \/ LastBlake2b \/ LastBlake2s
  BY <1>3, Blake2Begins DEF Standard!Next
<1>4. CASE StepSha
  BY <1>4, ShaAdvances DEF Standard!Next
<1>5. CASE StepBlake2
  BY <1>5, Blake2Advances DEF Standard!Next
<1>6. CASE ScheduleStatement
  BY <1>6, ScheduleStutters
<1>7. CASE UpdateHash
  BY <1>7, UpdateEnds DEF Standard!Next
<1>8. CASE Return
  BY <1>8, ReturnStutters
<1>9. CASE UNCHANGED vars
  BY <1>9, StayStutters
<1>. QED  BY <1>1, <1>2, <1>3, <1>4, <1>5, <1>6, <1>7, <1>8, <1>9 DEF Next

(* The portable C code of sha1, sha256, sha512, blake2b and blake2s,       *)
(* called on any number of blocks at a time, takes the steps of the        *)
(* standards, for every stream, every chaining hash, every count of bytes  *)
(* and every host.                                                         *)
THEOREM StandardImplemented == Spec => ImplementsStandard
<1>1. Init => Standard!Init
  BY CompressInit
<1>2. CompressInv /\ CompressInv' /\ [Next]_vars => [Standard!Next]_(Standard!vars)
  BY CompressSteps
<1>. QED  BY <1>1, <1>2, CompressInvariant, PTL DEF Spec, ImplementsStandard, Standard!Spec
-----------------------------------------------------------------------------
(* The texts of the ciphers, and the state of PortableCipher under names   *)
(* that PortableCompress has not taken.                                    *)
CONSTANT Texts

VARIABLES
  task, phase, place, eKey, turn, prev, text, iv, over, passed, rest, valCtr, regs, rounds,
  saved, orig

Cipher == INSTANCE PortableCipher WITH
  Jobs <- Texts,
  job <- task, pc <- place, i <- turn, done <- over, asked <- passed, left <- rest,
  x <- regs, r <- rounds

(* A quarter round of the code is one of the standard, on four registers.  *)
LEMMA ChaChaQuarters ==
  ASSUME NEW y, NEW a, NEW b, NEW c, NEW d
  PROVE  LET q == Cipher!Standard!Stream!ChaChaQuarter(<<y[a], y[b], y[c], y[d]>>)
         IN  Cipher!ChaCha!QROUND(y, a, b, c, d) = Four(y, a, b, c, d, q[1], q[2], q[3], q[4])
<1>. DEFINE Plus(u, v) == Cipher!Standard!Stream!Word!Add(u, v)
            Either(u, v) == Cipher!Standard!Stream!Word!Xor(u, v)
            Turn(u, n) == Cipher!Standard!Stream!Rot(u, n)
            a1 == Plus(y[a], y[b])
            d1 == Turn(Either(y[d], a1), 16)
            c1 == Plus(y[c], d1)
            b1 == Turn(Either(y[b], c1), 12)
            a2 == Plus(a1, b1)
            d2 == Turn(Either(d1, a2), 8)
            c2 == Plus(c1, d2)
            b2 == Turn(Either(b1, c2), 7)
            q == Cipher!Standard!Stream!ChaChaQuarter(<<y[a], y[b], y[c], y[d]>>)
<1>1. \A u, v : Cipher!ChaCha!Add(u, v) = Plus(u, v)
  BY Zenon DEF Cipher!ChaCha!Add, Cipher!Standard!Stream!Word!Add
<1>2. \A u, v : Cipher!ChaCha!Xor(u, v) = Either(u, v)
  BY Zenon DEF Cipher!ChaCha!Xor, Cipher!Standard!Stream!Word!Xor
<1>3. \A u, n : Cipher!ChaCha!R(u, n) = Turn(u, n)
  BY Zenon DEF Cipher!ChaCha!R, Cipher!ChaCha!ShiftL, Cipher!ChaCha!ShiftR, Cipher!Standard!Stream!Rot,
    Cipher!Standard!Stream!Word!RotateL, Cipher!Standard!Stream!Word!ShiftL, Cipher!Standard!Stream!Word!ShiftR
<1>4. q = <<a2, b2, c2, d2>>
  <2>. HIDE DEF Plus, Either, Turn
  <2>. QED  BY DEF Cipher!Standard!Stream!ChaChaQuarter, Plus, Either, Turn
<1>. HIDE DEF q
<1>5. q[1] = a2 /\ q[2] = b2 /\ q[3] = c2 /\ q[4] = d2
  <2>. HIDE DEF a2, b2, c2, d2
  <2>. QED  BY <1>4
<1>. DEFINE p1 == Cipher!ChaCha!Add(y[a], y[b])
            s1 == Cipher!ChaCha!R(Cipher!ChaCha!Xor(y[d], p1), 16)
            r1 == Cipher!ChaCha!Add(y[c], s1)
            t1 == Cipher!ChaCha!R(Cipher!ChaCha!Xor(y[b], r1), 12)
            p2 == Cipher!ChaCha!Add(p1, t1)
            s2 == Cipher!ChaCha!R(Cipher!ChaCha!Xor(s1, p2), 8)
            r2 == Cipher!ChaCha!Add(r1, s2)
            t2 == Cipher!ChaCha!R(Cipher!ChaCha!Xor(t1, r2), 7)
<1>6. Cipher!ChaCha!QROUND(y, a, b, c, d) = Four(y, a, b, c, d, p2, t2, r2, s2)
  BY DEF Cipher!ChaCha!QROUND, Four
<1>. HIDE DEF Plus, Either, Turn
<1>7. p1 = a1
  BY <1>1, Zenon
<1>. HIDE DEF p1, a1
<1>8. s1 = d1
  BY <1>2, <1>3, <1>7, Zenon
<1>. HIDE DEF s1, d1
<1>9. r1 = c1
  BY <1>1, <1>8, Zenon
<1>. HIDE DEF r1, c1
<1>10. t1 = b1
  BY <1>2, <1>3, <1>9, Zenon
<1>. HIDE DEF t1, b1
<1>11. p2 = a2
  BY <1>1, <1>7, <1>10, Zenon
<1>. HIDE DEF p2, a2
<1>12. s2 = d2
  BY <1>2, <1>3, <1>8, <1>11, Zenon
<1>. HIDE DEF s2, d2
<1>13. r2 = c2
  BY <1>1, <1>9, <1>12, Zenon
<1>. HIDE DEF r2, c2
<1>14. t2 = b2
  BY <1>2, <1>3, <1>10, <1>13, Zenon
<1>. HIDE DEF t2, b2
<1>. QED  BY <1>5, <1>6, <1>11, <1>12, <1>13, <1>14, Zenon DEF q

(* Line c of a matrix is a column, or where the rows turn a diagonal: the  *)
(* place of its element in row n, and the line of a place.                 *)
LinePlace(turned, c, n) == 4 * n + ((c + turned * n) % 4)
LineOf(turned, j) == ((j % 4) - turned * (j \div 4)) % 4
LineMixed(v, turned, c) ==
  Cipher!Standard!Stream!ChaChaQuarter(
    <<v[LinePlace(turned, c, 0)], v[LinePlace(turned, c, 1)],
      v[LinePlace(turned, c, 2)], v[LinePlace(turned, c, 3)]>>)

(* All four lines are mixed, or the first m of them.                       *)
FirstMixed(v, turned, m) ==
  [j \in 0 .. 15 |-> IF LineOf(turned, j) < m
                     THEN LineMixed(v, turned, LineOf(turned, j))[(j \div 4) + 1] ELSE v[j]]

(* Where the four words of a line are.                                     *)
LEMMA LinePlaces ==
  ASSUME NEW turned \in 0 .. 1, NEW c \in 0 .. 3
  PROVE  /\ \A n \in 0 .. 3 : /\ LinePlace(turned, c, n) \in 0 .. 15
                              /\ LineOf(turned, LinePlace(turned, c, n)) = c
                              /\ LinePlace(turned, c, n) \div 4 = n
         /\ \A j \in 0 .. 15 : /\ LineOf(turned, j) \in 0 .. 3
                               /\ LineOf(turned, j) = c => j = LinePlace(turned, c, j \div 4)
<1>1. ASSUME NEW n \in 0 .. 3
      PROVE  /\ LinePlace(turned, c, n) \in 0 .. 15
             /\ LineOf(turned, LinePlace(turned, c, n)) = c
             /\ LinePlace(turned, c, n) \div 4 = n
  <2>1. turned = 0 \/ turned = 1
    OBVIOUS
  <2>2. n = 0 \/ n = 1 \/ n = 2 \/ n = 3
    OBVIOUS
  <2>3. c = 0 \/ c = 1 \/ c = 2 \/ c = 3
    OBVIOUS
  <2>. QED  BY <2>1, <2>2, <2>3 DEF LinePlace, LineOf
<1>2. ASSUME NEW j \in 0 .. 15
      PROVE  /\ LineOf(turned, j) \in 0 .. 3
             /\ LineOf(turned, j) = c => j = LinePlace(turned, c, j \div 4)
  <2>1. turned = 0 \/ turned = 1
    OBVIOUS
  <2>2. PICK n \in 0 .. 3, m \in 0 .. 3 : j = 4 * n + m /\ j \div 4 = n /\ j % 4 = m
    BY Rows
  <2>3. n = 0 \/ n = 1 \/ n = 2 \/ n = 3
    OBVIOUS
  <2>4. m = 0 \/ m = 1 \/ m = 2 \/ m = 3
    OBVIOUS
  <2>5. LineOf(turned, j) = (m - turned * n) % 4
    BY <2>2 DEF LineOf
  <2>6. j \div 4 = n /\ j = 4 * n + m
    BY <2>2
  <2>. HIDE DEF LineOf
  <2>. QED  BY <2>1, <2>3, <2>4, <2>5, <2>6 DEF LinePlace
<1>. QED  BY <1>1, <1>2

(* A quarter round on line m, when m lines are mixed, mixes one more.      *)
LEMMA LineAdded ==
  ASSUME NEW v, NEW turned \in 0 .. 1, NEW m \in 0 .. 3
  PROVE  Cipher!ChaCha!QROUND(FirstMixed(v, turned, m),
                              LinePlace(turned, m, 0), LinePlace(turned, m, 1),
                              LinePlace(turned, m, 2), LinePlace(turned, m, 3)) =
           FirstMixed(v, turned, m + 1)
<1>. DEFINE y == FirstMixed(v, turned, m)
            z == FirstMixed(v, turned, m + 1)
            p(n) == LinePlace(turned, m, n)
            q == LineMixed(v, turned, m)
            w4 == Four(y, p(0), p(1), p(2), p(3), q[1], q[2], q[3], q[4])
<1>1. \A n \in 0 .. 3 : p(n) \in 0 .. 15 /\ LineOf(turned, p(n)) = m /\ p(n) \div 4 = n
  BY LinePlaces
<1>2. /\ DOMAIN y = 0 .. 15
      /\ \A j \in 0 .. 15 : LineOf(turned, j) = m => y[j] = v[j]
  BY DEF FirstMixed
<1>3. y[p(0)] = v[p(0)] /\ y[p(1)] = v[p(1)] /\ y[p(2)] = v[p(2)] /\ y[p(3)] = v[p(3)]
  <2>. HIDE DEF p, y
  <2>. QED  BY <1>1, <1>2
<1>4. Cipher!ChaCha!QROUND(y, p(0), p(1), p(2), p(3)) = w4
  <2>. HIDE DEF y
  <2>1. q = Cipher!Standard!Stream!ChaChaQuarter(<<y[p(0)], y[p(1)], y[p(2)], y[p(3)]>>)
    BY <1>3, Zenon DEF LineMixed
  <2>. QED  BY <2>1, ChaChaQuarters, Zenon
<1>5. ASSUME NEW j \in 0 .. 15
      PROVE  w4[j] = z[j]
  <2>1. z[j] = IF LineOf(turned, j) < m + 1
               THEN LineMixed(v, turned, LineOf(turned, j))[(j \div 4) + 1] ELSE v[j]
    BY DEF FirstMixed
  <2>2. y[j] = IF LineOf(turned, j) < m
               THEN LineMixed(v, turned, LineOf(turned, j))[(j \div 4) + 1] ELSE v[j]
    BY DEF FirstMixed
  <2>3. LineOf(turned, j) \in 0 .. 3 /\ (LineOf(turned, j) = m => j = p(j \div 4))
    BY LinePlaces
  <2>. HIDE DEF y, z
  <2>4. CASE LineOf(turned, j) = m
    <3>1. z[j] = q[(j \div 4) + 1]
      <4>. HIDE DEF q
      <4>1. LineMixed(v, turned, LineOf(turned, j)) = q
        BY <2>4, Zenon DEF q
      <4>. QED  BY <2>1, <2>4, <4>1
    <3>2. j \div 4 = 0 \/ j \div 4 = 1 \/ j \div 4 = 2 \/ j \div 4 = 3
      OBVIOUS
    <3>. HIDE DEF q, p
    <3>3. /\ p(0) # p(1) /\ p(0) # p(2) /\ p(0) # p(3)
          /\ p(1) # p(2) /\ p(1) # p(3) /\ p(2) # p(3)
      BY <1>1
    <3>4. w4[p(0)] = q[1] /\ w4[p(1)] = q[2] /\ w4[p(2)] = q[3] /\ w4[p(3)] = q[4]
      BY <1>1, <1>2, <3>3 DEF Four
    <3>. HIDE DEF w4
    <3>. QED  BY <2>3, <2>4, <3>1, <3>2, <3>4
  <2>5. CASE LineOf(turned, j) # m
    <3>. HIDE DEF q, p
    <3>1. j # p(0) /\ j # p(1) /\ j # p(2) /\ j # p(3)
      BY <1>1, <2>5
    <3>2. w4[j] = y[j]
      BY <1>2, <3>1 DEF Four
    <3>. HIDE DEF w4
    <3>. QED  BY <2>1, <2>2, <2>3, <2>5, <3>2
  <2>. QED  BY <2>4, <2>5
<1>6. w4 = [j \in 0 .. 15 |-> w4[j]]
  <2>. HIDE DEF y, p, q
  <2>. QED  BY <1>2 DEF Four
<1>7. z = [j \in 0 .. 15 |-> z[j]]
  BY DEF FirstMixed
<1>. HIDE DEF y, z, p, q, w4
<1>8. w4 = z
  BY <1>5, <1>6, <1>7
<1>. QED  BY <1>4, <1>8 DEF y, z, p

(* The quadruples of a ROUND are the columns, then the diagonals.          *)
LEMMA ChaChaQuadruples ==
  ASSUME NEW n \in 1 .. 8
  PROVE  LET q == Cipher!ChaCha!Quadruples[n]
             turned == IF n <= 4 THEN 0 ELSE 1
             c == IF n <= 4 THEN n - 1 ELSE n - 5
         IN  /\ q[1] = LinePlace(turned, c, 0) /\ q[2] = LinePlace(turned, c, 1)
             /\ q[3] = LinePlace(turned, c, 2) /\ q[4] = LinePlace(turned, c, 3)
<1>1. n = 1 \/ n = 2 \/ n = 3 \/ n = 4 \/ n = 5 \/ n = 6 \/ n = 7 \/ n = 8
  OBVIOUS
<1>2. n = 1 => Cipher!ChaCha!Quadruples[n] = <<0, 4,  8, 12>>
  BY DEF Cipher!ChaCha!Quadruples
<1>3. n = 2 => Cipher!ChaCha!Quadruples[n] = <<1, 5,  9, 13>>
  BY DEF Cipher!ChaCha!Quadruples
<1>4. n = 3 => Cipher!ChaCha!Quadruples[n] = <<2, 6, 10, 14>>
  BY DEF Cipher!ChaCha!Quadruples
<1>5. n = 4 => Cipher!ChaCha!Quadruples[n] = <<3, 7, 11, 15>>
  BY DEF Cipher!ChaCha!Quadruples
<1>6. n = 5 => Cipher!ChaCha!Quadruples[n] = <<0, 5, 10, 15>>
  BY DEF Cipher!ChaCha!Quadruples
<1>7. n = 6 => Cipher!ChaCha!Quadruples[n] = <<1, 6, 11, 12>>
  BY DEF Cipher!ChaCha!Quadruples
<1>8. n = 7 => Cipher!ChaCha!Quadruples[n] = <<2, 7,  8, 13>>
  BY DEF Cipher!ChaCha!Quadruples
<1>9. n = 8 => Cipher!ChaCha!Quadruples[n] = <<3, 4,  9, 14>>
  BY DEF Cipher!ChaCha!Quadruples
<1>. QED  BY <1>1, <1>2, <1>3, <1>4, <1>5, <1>6, <1>7, <1>8, <1>9 DEF LinePlace

(* No line mixed: nothing is changed.                                      *)
LEMMA NoneMixed ==
  ASSUME NEW v, v = [j \in 0 .. 15 |-> v[j]], NEW turned \in 0 .. 1
  PROVE  FirstMixed(v, turned, 0) = v
<1>1. \A j \in 0 .. 15 : ~ (LineOf(turned, j) < 0)
  BY LinePlaces
<1>. DEFINE z == FirstMixed(v, turned, 0)
<1>2. z = [j \in 0 .. 15 |-> z[j]] /\ \A j \in 0 .. 15 : z[j] = v[j]
  BY <1>1 DEF FirstMixed
<1>. HIDE DEF z
<1>3. z = v
  BY <1>2
<1>. QED  BY <1>3 DEF z

(* A ROUND mixes the columns, then the diagonals.                          *)
LEMMA RoundMixes ==
  ASSUME NEW v, v = [j \in 0 .. 15 |-> v[j]]
  PROVE  Cipher!ChaCha!ROUND(v) = FirstMixed(FirstMixed(v, 0, 4), 1, 4)
<1>. DEFINE u == FirstMixed(v, 0, 4)
            g == [n \in 0 .. 8 |-> IF n <= 4 THEN FirstMixed(v, 0, n) ELSE FirstMixed(u, 1, n - 4)]
            Q(n, y) == LET q == Cipher!ChaCha!Quadruples[n]
                       IN  Cipher!ChaCha!QROUND(y, q[1], q[2], q[3], q[4])
            F(h) == [n \in 0 .. 8 |-> IF n = 0 THEN v ELSE Q(n, h[n - 1])]
            h0 == CHOOSE h : h = F(h)
<1>1. Cipher!ChaCha!ROUND(v) = h0[8]
  BY DEF Cipher!ChaCha!ROUND
<1>2. u = [j \in 0 .. 15 |-> u[j]]
  BY DEF FirstMixed
<1>. HIDE DEF u
<1>3. ASSUME NEW n \in 1 .. 4
      PROVE  Q(n, FirstMixed(v, 0, n - 1)) = FirstMixed(v, 0, n)
  <2>. DEFINE q == Cipher!ChaCha!Quadruples[n]
  <2>1. /\ q[1] = LinePlace(0, n - 1, 0) /\ q[2] = LinePlace(0, n - 1, 1)
        /\ q[3] = LinePlace(0, n - 1, 2) /\ q[4] = LinePlace(0, n - 1, 3)
    <3>1. n \in 1 .. 8 /\ n <= 4
      OBVIOUS
    <3>. QED  BY <3>1, ChaChaQuadruples
  <2>. HIDE DEF q
  <2>2. n - 1 \in 0 .. 3 /\ (n - 1) + 1 = n /\ 0 \in 0 .. 1
    OBVIOUS
  <2>3. Cipher!ChaCha!QROUND(FirstMixed(v, 0, n - 1), q[1], q[2], q[3], q[4]) = FirstMixed(v, 0, (n - 1) + 1)
    BY <2>1, <2>2, LineAdded, Zenon
  <2>. QED  BY <2>2, <2>3, Zenon DEF q
<1>4. ASSUME NEW n \in 5 .. 8
      PROVE  Q(n, FirstMixed(u, 1, n - 5)) = FirstMixed(u, 1, n - 4)
  <2>. DEFINE q == Cipher!ChaCha!Quadruples[n]
  <2>1. /\ q[1] = LinePlace(1, n - 5, 0) /\ q[2] = LinePlace(1, n - 5, 1)
        /\ q[3] = LinePlace(1, n - 5, 2) /\ q[4] = LinePlace(1, n - 5, 3)
    <3>1. n \in 1 .. 8 /\ ~ (n <= 4)
      OBVIOUS
    <3>. QED  BY <3>1, ChaChaQuadruples
  <2>. HIDE DEF q
  <2>2. n - 5 \in 0 .. 3 /\ (n - 5) + 1 = n - 4 /\ 1 \in 0 .. 1
    OBVIOUS
  <2>3. Cipher!ChaCha!QROUND(FirstMixed(u, 1, n - 5), q[1], q[2], q[3], q[4]) = FirstMixed(u, 1, (n - 5) + 1)
    BY <2>1, <2>2, LineAdded, Zenon
  <2>. QED  BY <2>2, <2>3, Zenon DEF q
<1>. HIDE DEF Q
<1>5. FirstMixed(v, 0, 0) = v /\ FirstMixed(u, 1, 0) = u
  BY <1>2, NoneMixed
<1>6. ASSUME NEW n \in 1 .. 8
      PROVE  g[n] = Q(n, g[n - 1])
  <2>1. CASE n <= 4
    <3>1. g[n] = FirstMixed(v, 0, n) /\ g[n - 1] = FirstMixed(v, 0, n - 1)
      BY <2>1
    <3>. HIDE DEF g
    <3>. QED  BY <2>1, <3>1, <1>3
  <2>2. CASE n = 5
    <3>1. g[5] = FirstMixed(u, 1, 1) /\ g[4] = FirstMixed(v, 0, 4)
      OBVIOUS
    <3>2. Q(5, FirstMixed(u, 1, 5 - 5)) = FirstMixed(u, 1, 5 - 4)
      BY <1>4
    <3>3. 5 - 5 = 0 /\ 5 - 4 = 1 /\ n - 1 = 4
      BY <2>2
    <3>. HIDE DEF g
    <3>. QED  BY <2>2, <3>1, <3>2, <3>3, <1>5 DEF u
  <2>3. CASE n > 5
    <3>1. g[n] = FirstMixed(u, 1, n - 4) /\ g[n - 1] = FirstMixed(u, 1, n - 5)
      BY <2>3
    <3>. HIDE DEF g
    <3>. QED  BY <2>3, <3>1, <1>4
  <2>. QED  BY <2>1, <2>2, <2>3
<1>7. g[0] = v /\ g[8] = FirstMixed(u, 1, 4)
  BY <1>5
<1>8. g = F(g)
  <2>1. g = [n \in 0 .. 8 |-> g[n]]
    OBVIOUS
  <2>. HIDE DEF g
  <2>2. \A n \in 0 .. 8 : g[n] = IF n = 0 THEN v ELSE Q(n, g[n - 1])
    BY <1>6, <1>7
  <2>. QED  BY <2>1, <2>2
<1>9. h0 = F(h0)
  BY <1>8, Zenon
<1>. HIDE DEF h0, g
<1>10. \A n \in 0 .. 8 : h0[n] = IF n = 0 THEN v ELSE Q(n, h0[n - 1])
  BY <1>9
<1>11. \A n \in 0 .. 8 : g[n] = IF n = 0 THEN v ELSE Q(n, g[n - 1])
  BY <1>6, <1>7
<1>12. \A n \in Nat : n \in {k \in Nat : k <= 8 => h0[k] = g[k]}
  <2>. DEFINE T == {k \in Nat : k <= 8 => h0[k] = g[k]}
  <2>1. 0 \in T
    BY <1>10, <1>11
  <2>2. ASSUME NEW n \in Nat, n \in T PROVE n + 1 \in T
    <3>1. CASE n + 1 <= 8
      <4>1. n + 1 \in 0 .. 8 /\ n + 1 # 0 /\ (n + 1) - 1 = n /\ h0[n] = g[n]
        BY <3>1, <2>2
      <4>2. h0[n + 1] = Q(n + 1, h0[n]) /\ g[n + 1] = Q(n + 1, g[n])
        BY <1>10, <1>11, <4>1
      <4>. QED  BY <4>1, <4>2
    <3>. QED  BY <3>1
  <2>. HIDE DEF T
  <2>3. \A n \in Nat : n \in T
    BY <2>1, <2>2, NatSet
  <2>. QED  BY <2>3 DEF T
<1>13. h0[8] = g[8]
  BY <1>12
<1>. QED  BY <1>1, <1>7, <1>13 DEF u

(* Two lists behind one another.                                           *)
LEMMA Behind ==
  ASSUME NEW S, NEW s \in Seq(S), NEW z \in Seq(S)
  PROVE  /\ s \o z \in Seq(S)
         /\ Len(s \o z) = Len(s) + Len(z)
         /\ \A j \in 1 .. Len(s) + Len(z) :
              (s \o z)[j] = IF j <= Len(s) THEN s[j] ELSE z[j - Len(s)]
OBVIOUS

(* A row of four is a list.                                                *)
LEMMA RowIsList ==
  ASSUME NEW S, NEW a \in [1 .. 4 -> S]
  PROVE  a \in Seq(S) /\ Len(a) = 4
<1>1. [k \in 1 .. 4 |-> a[k]] \in Seq(S)
  OBVIOUS
<1>2. Len(a) = 4
  OBVIOUS
<1>. QED  BY <1>1, <1>2

(* Four rows of four.                                                      *)
Matrix16(a, b, c, d) == a \o b \o c \o d

Stacked(l, a, b, c, d) ==
  /\ l = [j \in 1 .. 16 |-> l[j]]
  /\ \A k \in 1 .. 4 : l[k] = a[k] /\ l[k + 4] = b[k] /\ l[k + 8] = c[k] /\ l[k + 12] = d[k]
RowsOf(S) == [1 .. 4 -> S]

(* A list of sixteen as four rows of four.                                 *)
LEMMA FourRows ==
  ASSUME NEW S, NEW a \in RowsOf(S), NEW b \in RowsOf(S), NEW c \in RowsOf(S), NEW d \in RowsOf(S)
  PROVE  Stacked(Matrix16(a, b, c, d), a, b, c, d)
<1>. DEFINE e == a \o b
            f == e \o c
            g == f \o d
<1>1. /\ a \in Seq(S) /\ b \in Seq(S) /\ c \in Seq(S) /\ d \in Seq(S)
      /\ Len(a) = 4 /\ Len(b) = 4 /\ Len(c) = 4 /\ Len(d) = 4
  BY RowIsList, Zenon DEF RowsOf
<1>2. e \in Seq(S) /\ Len(e) = 8 /\ \A j \in 1 .. 8 : e[j] = IF j <= 4 THEN a[j] ELSE b[j - 4]
  <2>1. /\ a \o b \in Seq(S) /\ Len(a \o b) = Len(a) + Len(b)
        /\ \A j \in 1 .. Len(a) + Len(b) :
             (a \o b)[j] = IF j <= Len(a) THEN a[j] ELSE b[j - Len(a)]
    BY Behind, <1>1, Zenon
  <2>2. Len(a) = 4 /\ Len(b) = 4 /\ Len(a) + Len(b) = 8
    BY <1>1
  <2>. QED  BY <2>1, <2>2
<1>. HIDE DEF e
<1>3. f \in Seq(S) /\ Len(f) = 12 /\ \A j \in 1 .. 12 : f[j] = IF j <= 8 THEN e[j] ELSE c[j - 8]
  <2>1. /\ e \o c \in Seq(S) /\ Len(e \o c) = Len(e) + Len(c)
        /\ \A j \in 1 .. Len(e) + Len(c) :
             (e \o c)[j] = IF j <= Len(e) THEN e[j] ELSE c[j - Len(e)]
    BY Behind, <1>1, <1>2, Zenon
  <2>2. Len(e) = 8 /\ Len(c) = 4 /\ Len(e) + Len(c) = 12
    BY <1>1, <1>2
  <2>. QED  BY <2>1, <2>2
<1>. HIDE DEF f
<1>4. g \in Seq(S) /\ Len(g) = 16 /\ \A j \in 1 .. 16 : g[j] = IF j <= 12 THEN f[j] ELSE d[j - 12]
  <2>1. /\ f \o d \in Seq(S) /\ Len(f \o d) = Len(f) + Len(d)
        /\ \A j \in 1 .. Len(f) + Len(d) :
             (f \o d)[j] = IF j <= Len(f) THEN f[j] ELSE d[j - Len(f)]
    BY Behind, <1>1, <1>3, Zenon
  <2>2. Len(f) = 12 /\ Len(d) = 4 /\ Len(f) + Len(d) = 16
    BY <1>1, <1>3
  <2>. QED  BY <2>1, <2>2
<1>. HIDE DEF g
<1>5. g = [j \in 1 .. 16 |-> g[j]]
  BY <1>4
<1>6. ASSUME NEW k \in 1 .. 4
      PROVE  g[k] = a[k] /\ g[k + 4] = b[k] /\ g[k + 8] = c[k] /\ g[k + 12] = d[k]
  <2>1. g[k] = a[k]
    BY <1>2, <1>3, <1>4, k \in 1 .. 16, k \in 1 .. 12, k \in 1 .. 8
  <2>2. g[k + 4] = b[k]
    BY <1>2, <1>3, <1>4, k + 4 \in 1 .. 16, k + 4 \in 1 .. 12, k + 4 \in 1 .. 8, ~ (k + 4 <= 4), (k + 4) - 4 = k
  <2>3. g[k + 8] = c[k]
    BY <1>3, <1>4, k + 8 \in 1 .. 16, k + 8 \in 1 .. 12, ~ (k + 8 <= 8), (k + 8) - 8 = k
  <2>4. g[k + 12] = d[k]
    BY <1>4, k + 12 \in 1 .. 16, ~ (k + 12 <= 12), (k + 12) - 12 = k
  <2>. QED  BY <2>1, <2>2, <2>3, <2>4
<1>7. Matrix16(a, b, c, d) = g
  BY DEF Matrix16, e, f, g
<1>. QED  BY <1>5, <1>6, <1>7, Zenon DEF Stacked

(* The sixteen registers as the standard lists them.                       *)
Listed16(v) == [j \in 1 .. 16 |-> v[j - 1]]

(* What the standard does with the lines of a matrix.                      *)
LEMMA LinesMixed ==
  ASSUME NEW v, NEW turned \in 0 .. 1
  PROVE  Cipher!Standard!Stream!Lines(Listed16(v), turned) = Listed16(FirstMixed(v, turned, 4))
<1>. DEFINE y == Listed16(v)
            z == FirstMixed(v, turned, 4)
            p(c, n) == 4 * n + ((c + turned * n) % 4) + 1
            q == [c \in 0 .. 3 |-> Cipher!Standard!Stream!ChaChaQuarter(<<y[p(c, 0)], y[p(c, 1)], y[p(c, 2)], y[p(c, 3)]>>)]
            row(n) == Cipher!Standard!Stream!Turned(<<q[0][n + 1], q[1][n + 1], q[2][n + 1], q[3][n + 1]>>, -(turned * n))
            S == {q[c][n] : c \in 0 .. 3, n \in 1 .. 4}
<1>1. Cipher!Standard!Stream!Lines(y, turned) = Matrix16(row(0), row(1), row(2), row(3))
  BY DEF Cipher!Standard!Stream!Lines, Matrix16
<1>2. \A c \in 0 .. 3 : q[c] = LineMixed(v, turned, c)
  <2>. SUFFICES ASSUME NEW c \in 0 .. 3 PROVE q[c] = LineMixed(v, turned, c)
    OBVIOUS
  <2>1. ASSUME NEW n \in 0 .. 3 PROVE y[p(c, n)] = v[LinePlace(turned, c, n)]
    <3>1. LinePlace(turned, c, n) \in 0 .. 15
      BY LinePlaces
    <3>2. p(c, n) = LinePlace(turned, c, n) + 1
      BY DEF LinePlace
    <3>. HIDE DEF p
    <3>. QED  BY <3>1, <3>2 DEF Listed16
  <2>2. q[c] = Cipher!Standard!Stream!ChaChaQuarter(<<y[p(c, 0)], y[p(c, 1)], y[p(c, 2)], y[p(c, 3)]>>)
    BY Zenon
  <2>. HIDE DEF p, y, q
  <2>. QED  BY <2>1, <2>2 DEF LineMixed
<1>. HIDE DEF q
<1>3. ASSUME NEW n \in 0 .. 3
      PROVE  /\ row(n) \in [1 .. 4 -> S]
             /\ \A k \in 1 .. 4 : row(n)[k] = z[4 * n + (k - 1)]
  <2>. DEFINE s == <<q[0][n + 1], q[1][n + 1], q[2][n + 1], q[3][n + 1]>>
  <2>1. row(n) = [k \in 1 .. 4 |-> s[((k - 1 + (-(turned * n))) % 4) + 1]]
    BY DEF Cipher!Standard!Stream!Turned
  <2>2. \A c \in 0 .. 3 : s[c + 1] = q[c][n + 1]
    <3>1. \A c \in 0 .. 3 : c = 0 \/ c = 1 \/ c = 2 \/ c = 3
      OBVIOUS
    <3>. QED  BY <3>1
  <2>. HIDE DEF s, row
  <2>3. ASSUME NEW k \in 1 .. 4
        PROVE  row(n)[k] \in S /\ row(n)[k] = z[4 * n + (k - 1)]
    <3>. DEFINE j == 4 * n + (k - 1)
                c == (k - 1 + (-(turned * n))) % 4
    <3>1. /\ j \in 0 .. 15 /\ j \div 4 = n /\ j % 4 = k - 1
      OBVIOUS
    <3>2. c \in 0 .. 3 /\ LineOf(turned, j) = c
      <4>1. turned = 0 \/ turned = 1
        OBVIOUS
      <4>2. (k - 1) + (-(turned * n)) = (k - 1) - turned * n
        BY <4>1
      <4>3. LineOf(turned, j) = ((k - 1) - turned * n) % 4
        BY <3>1 DEF LineOf
      <4>4. (k - 1) - turned * n \in Int
        BY <4>1
      <4>. HIDE DEF j
      <4>. QED  BY <4>2, <4>3, <4>4
    <3>3. row(n)[k] = q[c][n + 1]
      <4>1. row(n)[k] = s[c + 1]
        BY <2>1
      <4>. HIDE DEF c
      <4>. QED  BY <4>1, <2>2, <3>2
    <3>4. z[j] = LineMixed(v, turned, c)[n + 1]
      <4>. HIDE DEF c, j
      <4>. QED  BY <3>1, <3>2 DEF FirstMixed
    <3>5. q[c][n + 1] \in S
      <4>. HIDE DEF c
      <4>. QED  BY <3>2
    <3>. HIDE DEF c, S, z
    <3>. QED  BY <3>2, <3>3, <3>4, <3>5, <1>2
  <2>. HIDE DEF S, z
  <2>. QED  BY <2>1, <2>3
<1>. HIDE DEF row, S, z, y
<1>. DEFINE l == Matrix16(row(0), row(1), row(2), row(3))
<1>4. /\ row(0) \in RowsOf(S) /\ row(1) \in RowsOf(S)
      /\ row(2) \in RowsOf(S) /\ row(3) \in RowsOf(S)
  BY <1>3 DEF RowsOf
<1>5. /\ l = [j \in 1 .. 16 |-> l[j]]
      /\ \A k \in 1 .. 4 : /\ l[k] = row(0)[k] /\ l[k + 4] = row(1)[k]
                           /\ l[k + 8] = row(2)[k] /\ l[k + 12] = row(3)[k]
  <2>1. Stacked(l, row(0), row(1), row(2), row(3))
    BY <1>4, FourRows, Zenon
  <2>. HIDE DEF l
  <2>. QED  BY <2>1, Zenon DEF Stacked
<1>. HIDE DEF l
<1>6. ASSUME NEW j \in 1 .. 16 PROVE l[j] = z[j - 1]
  <2>1. CASE j \in 1 .. 4
    <3>1. l[j] = row(0)[j] /\ row(0)[j] = z[4 * 0 + (j - 1)]
      BY <2>1, <1>3, <1>5
    <3>. QED  BY <3>1, 4 * 0 + (j - 1) = j - 1
  <2>2. CASE j \in 5 .. 8
    <3>1. PICK k \in 1 .. 4 : j = k + 4
      BY <2>2, j - 4 \in 1 .. 4, j = (j - 4) + 4
    <3>2. l[j] = row(1)[k] /\ row(1)[k] = z[4 * 1 + (k - 1)]
      BY <3>1, <1>3, <1>5
    <3>. QED  BY <3>1, <3>2, 4 * 1 + (k - 1) = j - 1
  <2>3. CASE j \in 9 .. 12
    <3>1. PICK k \in 1 .. 4 : j = k + 8
      BY <2>3, j - 8 \in 1 .. 4, j = (j - 8) + 8
    <3>2. l[j] = row(2)[k] /\ row(2)[k] = z[4 * 2 + (k - 1)]
      BY <3>1, <1>3, <1>5
    <3>. QED  BY <3>1, <3>2, 4 * 2 + (k - 1) = j - 1
  <2>4. CASE j \in 13 .. 16
    <3>1. PICK k \in 1 .. 4 : j = k + 12
      BY <2>4, j - 12 \in 1 .. 4, j = (j - 12) + 12
    <3>2. l[j] = row(3)[k] /\ row(3)[k] = z[4 * 3 + (k - 1)]
      BY <3>1, <1>3, <1>5
    <3>. QED  BY <3>1, <3>2, 4 * 3 + (k - 1) = j - 1
  <2>. QED  BY <2>1, <2>2, <2>3, <2>4
<1>7. l = Listed16(z)
  BY <1>5, <1>6 DEF Listed16
<1>. QED  BY <1>1, <1>7 DEF l, y, z

(* A ROUND is a double round of the standard.                              *)
LEMMA ChaChaRound ==
  ASSUME NEW v, v = [j \in 0 .. 15 |-> v[j]]
  PROVE  Listed16(Cipher!ChaCha!ROUND(v)) = Cipher!Standard!Stream!ChaChaDouble(Listed16(v))
BY RoundMixes, LinesMixed, 0 \in 0 .. 1, 1 \in 0 .. 1, Zenon DEF Cipher!Standard!Stream!ChaChaDouble

(* A number of two digits of 256 has the bits of both.                     *)
LEMMA TwoBytes ==
  ASSUME NEW a \in 0 .. 255, NEW b \in 0 .. 255, NEW at \in 0 .. 15
  PROVE  at \in W(32)!OfNat(256 * a + b) <=>
           IF at < 8 THEN at \in W(8)!OfNat(b) ELSE at - 8 \in W(8)!OfNat(a)
<1>. DEFINE n == 256 * a + b
<1>1. n \in Nat /\ a \in Nat /\ b \in Nat /\ 32 \in Nat \ {0} /\ 8 \in Nat \ {0}
  OBVIOUS
<1>2. PICK f : Halves(f, n, 32) /\ W(32)!OfNat(n) = {k \in 0 .. 32 - 1 : f[k] % 2 = 1}
  BY <1>1, HalvesExist, Zenon
<1>3. PICK g : Halves(g, a, 8) /\ W(8)!OfNat(a) = {k \in 0 .. 8 - 1 : g[k] % 2 = 1}
  BY <1>1, HalvesExist, Zenon
<1>4. PICK h : Halves(h, b, 8) /\ W(8)!OfNat(b) = {k \in 0 .. 8 - 1 : h[k] % 2 = 1}
  BY <1>1, HalvesExist, Zenon
<1>5. /\ f[0] = n /\ \A k \in 0 .. 30 : f[k + 1] = f[k] \div 2
      /\ g[0] = a /\ \A k \in 0 .. 6 : g[k + 1] = g[k] \div 2
      /\ h[0] = b /\ \A k \in 0 .. 6 : h[k + 1] = h[k] \div 2
  BY <1>2, <1>3, <1>4 DEF Halves
<1>. DEFINE fh(k) == f[k + 1] = f[k] \div 2
            hh(k) == h[k + 1] = h[k] \div 2
<1>6. (\A k \in 0 .. 30 : fh(k)) /\ \A k \in 0 .. 6 : hh(k)
  BY <1>5
<1>7. f[0] = 256 * a + h[0] /\ h[0] \in 0 .. 255
  BY <1>5
<1>11. f[1] = 128 * a + h[1] /\ h[1] \in 0 .. 127
  <2>1. fh(0) /\ hh(0)
    BY ONLY <1>6
  <2>2. f[1] = f[0] \div 2 /\ h[1] = h[0] \div 2
    BY <2>1
  <2>. QED  BY ONLY <2>2, <1>7, a \in 0 .. 255
<1>12. f[2] = 64 * a + h[2] /\ h[2] \in 0 .. 63
  <2>1. fh(1) /\ hh(1)
    BY ONLY <1>6
  <2>2. f[2] = f[1] \div 2 /\ h[2] = h[1] \div 2
    BY <2>1
  <2>. QED  BY ONLY <2>2, <1>11, a \in 0 .. 255
<1>13. f[3] = 32 * a + h[3] /\ h[3] \in 0 .. 31
  <2>1. fh(2) /\ hh(2)
    BY ONLY <1>6
  <2>2. f[3] = f[2] \div 2 /\ h[3] = h[2] \div 2
    BY <2>1
  <2>. QED  BY ONLY <2>2, <1>12, a \in 0 .. 255
<1>14. f[4] = 16 * a + h[4] /\ h[4] \in 0 .. 15
  <2>1. fh(3) /\ hh(3)
    BY ONLY <1>6
  <2>2. f[4] = f[3] \div 2 /\ h[4] = h[3] \div 2
    BY <2>1
  <2>. QED  BY ONLY <2>2, <1>13, a \in 0 .. 255
<1>15. f[5] = 8 * a + h[5] /\ h[5] \in 0 .. 7
  <2>1. fh(4) /\ hh(4)
    BY ONLY <1>6
  <2>2. f[5] = f[4] \div 2 /\ h[5] = h[4] \div 2
    BY <2>1
  <2>. QED  BY ONLY <2>2, <1>14, a \in 0 .. 255
<1>16. f[6] = 4 * a + h[6] /\ h[6] \in 0 .. 3
  <2>1. fh(5) /\ hh(5)
    BY ONLY <1>6
  <2>2. f[6] = f[5] \div 2 /\ h[6] = h[5] \div 2
    BY <2>1
  <2>. QED  BY ONLY <2>2, <1>15, a \in 0 .. 255
<1>17. f[7] = 2 * a + h[7] /\ h[7] \in 0 .. 1
  <2>1. fh(6) /\ hh(6)
    BY ONLY <1>6
  <2>2. f[7] = f[6] \div 2 /\ h[7] = h[6] \div 2
    BY <2>1
  <2>. QED  BY ONLY <2>2, <1>16, a \in 0 .. 255
<1>18. f[8] = a
  <2>1. fh(7)
    BY ONLY <1>6
  <2>2. f[8] = f[7] \div 2
    BY <2>1
  <2>. QED  BY ONLY <2>2, <1>17, a \in 0 .. 255
<1>8. CASE at < 8
  <2>1. f[at] % 2 = h[at] % 2
    <3>1. at = 0 \/ at = 1 \/ at = 2 \/ at = 3 \/ at = 4 \/ at = 5 \/ at = 6 \/ at = 7
      BY <1>8
    <3>. QED  BY <3>1, <1>7, <1>11, <1>12, <1>13, <1>14, <1>15, <1>16, <1>17
  <2>2. at \in W(32)!OfNat(n) <=> f[at] % 2 = 1
    BY <1>2
  <2>3. at \in W(8)!OfNat(b) <=> h[at] % 2 = 1
    BY <1>4, <1>8
  <2>. QED  BY <1>8, <2>1, <2>2, <2>3
<1>9. CASE ~ (at < 8)
  <2>. DEFINE S == {k \in Nat : k <= 7 => f[k + 8] = g[k]}
  <2>1. 0 \in S
    BY <1>5, <1>18
  <2>2. ASSUME NEW k \in Nat, k \in S PROVE k + 1 \in S
    <3>1. CASE k + 1 <= 7
      <4>1. f[(k + 8) + 1] = f[k + 8] \div 2 /\ g[k + 1] = g[k] \div 2
        BY <1>5, <3>1, k + 8 \in 0 .. 30, k \in 0 .. 6
      <4>. QED  BY <4>1, <2>2, <3>1, (k + 1) + 8 = (k + 8) + 1
    <3>. QED  BY <3>1
  <2>. HIDE DEF S
  <2>3. \A k \in Nat : k \in S
    BY <2>1, <2>2, NatSet
  <2>4. f[at] = g[at - 8]
    BY <2>3, <1>9, at - 8 \in Nat, (at - 8) + 8 = at DEF S
  <2>5. at \in W(32)!OfNat(n) <=> f[at] % 2 = 1
    BY <1>2
  <2>6. at - 8 \in W(8)!OfNat(a) <=> g[at - 8] % 2 = 1
    BY <1>3, <1>9
  <2>. QED  BY <1>9, <2>4, <2>5, <2>6
<1>. QED  BY <1>8, <1>9

(* The four bytes of word q of a string, the least significant first.      *)
BytesFrom(s, q) == [k \in 0 .. 3 |-> s[4 * q + k + 1]]

(* The words of a key or a nonce, as the standard and the cells have them. *)
LEMMA LeastWords ==
  ASSUME NEW s \in Seq(Byte), NEW q \in Nat, 4 * q + 4 <= Len(s)
  PROVE  /\ BytesFrom(s, q) \in [0 .. 3 -> Byte]
         /\ Cipher!Standard!Stream!WordOf(s, q) = Spelled(4, BytesFrom(s, q))
         /\ Cipher!WordsLE(s)[q + 1] = Spelled(4, BytesFrom(s, q))
<1>. DEFINE L == BytesFrom(s, q)
            mirror == [b \in 1 .. 4 |-> s[4 * (q + 1) + 1 - b]]
<1>1. \A k \in 0 .. 3 : s[4 * q + k + 1] \in Byte
  OBVIOUS
<1>2. L \in [0 .. 3 -> Byte] /\ L \in [0 .. 4 - 1 -> Byte]
  BY <1>1 DEF BytesFrom
<1>3. Cipher!Standard!Stream!WordOf(s, q) = UNION {{8 * k + p : p \in L[k]} : k \in 0 .. 4 - 1}
  <2>. DEFINE A(k) == {8 * k + p : p \in s[4 * q + k + 1]}
              B(k) == {8 * k + p : p \in L[k]}
  <2>1. \A k \in 0 .. 3 : A(k) = B(k)
    BY DEF BytesFrom
  <2>2. UNION {A(k) : k \in 0 .. 3} = UNION {B(k) : k \in 0 .. 3}
    <3>. HIDE DEF A, B
    <3>. QED  BY <2>1
  <2>3. Cipher!Standard!Stream!WordOf(s, q) = UNION {A(k) : k \in 0 .. 3}
    BY Zenon DEF Cipher!Standard!Stream!WordOf
  <2>4. 0 .. 3 = 0 .. 4 - 1
    OBVIOUS
  <2>. QED  BY <2>2, <2>3, <2>4, Zenon
<1>4. Cipher!Standard!Stream!WordOf(s, q) = Spelled(4, L)
  BY <1>2, <1>3, Joined, 4 \in Nat, Zenon
<1>5. mirror \in Seq(Byte) /\ Len(mirror) = 4 /\ \A k \in 1 .. 4 : mirror[k] = L[4 - k]
  <2>1. \A b \in 1 .. 4 : 4 - b \in 0 .. 3 /\ 4 * (q + 1) + 1 - b = 4 * q + (4 - b) + 1
    OBVIOUS
  <2>2. \A b \in 1 .. 4 : mirror[b] = L[4 - b]
    BY <2>1 DEF BytesFrom
  <2>3. \A b \in 1 .. 4 : mirror[b] \in Byte
    BY <2>1, <2>2, <1>2
  <2>. QED  BY <2>2, <2>3
<1>6. Cipher!WordsLE(s)[q + 1] = Cipher!Rows!MK(mirror)
  BY q + 1 \in 1 .. Len(s) \div 4 DEF Cipher!WordsLE
<1>7. Cipher!Rows!MK(mirror) = E!MK(mirror)
  BY DEF Cipher!Rows!MK, E!MK
<1>. HIDE DEF mirror, L
<1>8. E!MK(mirror) = Spelled(4, L)
  BY <1>2, <1>5, Made, 4 \in Nat, Zenon
<1>. QED  BY <1>2, <1>4, <1>6, <1>7, <1>8 DEF L

(* Four digits, the most significant first, as bytes.                      *)
Quad(a, b, c, d) == [k \in 0 .. 3 |-> W(8)!OfNat(<<d, c, b, a>>[k + 1])]

(* The literal with the limbs u and v has these bytes.                     *)
Written4(u, v, a, b, c, d) == Cipher!ChaCha!OfLimbs(<<u, v>>) = Spelled(4, Quad(a, b, c, d))

(* A literal of two limbs has the bits of its four bytes.                  *)
LEMMA Literal ==
  ASSUME NEW a \in 0 .. 255, NEW b \in 0 .. 255, NEW c \in 0 .. 255, NEW d \in 0 .. 255,
         NEW u, NEW v, u = 256 * a + b, v = 256 * c + d
  PROVE  Written4(u, v, a, b, c, d)
<1>. DEFINE l == <<u, v>>
            g == Quad(a, b, c, d)
            X(k) == {16 * (2 - k) + at : at \in W(32)!OfNat(l[k]) \cap (0 .. 15)}
<1>1. Cipher!ChaCha!OfLimbs(l) = UNION {X(k) : k \in 1 .. 2}
  <2>1. \A n : Cipher!ChaCha!OfNat(n) = W(32)!OfNat(n)
    BY Zenon DEF Cipher!ChaCha!OfNat, W!OfNat
  <2>2. Len(l) = 2
    OBVIOUS
  <2>. HIDE DEF l
  <2>. QED  BY <2>1, <2>2 DEF Cipher!ChaCha!OfLimbs
<1>2. /\ X(1) = {16 + at : at \in W(32)!OfNat(u) \cap (0 .. 15)}
      /\ X(2) = W(32)!OfNat(v) \cap (0 .. 15)
  <2>1. l[1] = u /\ l[2] = v
    OBVIOUS
  <2>. HIDE DEF l
  <2>. QED  BY <2>1
<1>3. /\ g[0] = W(8)!OfNat(d) /\ g[1] = W(8)!OfNat(c)
      /\ g[2] = W(8)!OfNat(b) /\ g[3] = W(8)!OfNat(a)
  BY DEF Quad
<1>. HIDE DEF X, l, g
<1>4. ASSUME NEW at \in 0 .. 15
      PROVE  /\ at \in W(32)!OfNat(v) <=> IF at < 8 THEN at \in g[0] ELSE at - 8 \in g[1]
             /\ at \in W(32)!OfNat(u) <=> IF at < 8 THEN at \in g[2] ELSE at - 8 \in g[3]
  <2>1. /\ at \in W(32)!OfNat(256 * c + d) <=> IF at < 8 THEN at \in W(8)!OfNat(d) ELSE at - 8 \in W(8)!OfNat(c)
        /\ at \in W(32)!OfNat(256 * a + b) <=> IF at < 8 THEN at \in W(8)!OfNat(b) ELSE at - 8 \in W(8)!OfNat(a)
    BY TwoBytes, Zenon
  <2>. QED  BY <2>1, <1>3
<1>5. ASSUME NEW q \in 0 .. 31
      PROVE  q \in X(1) \cup X(2) <=> q % 8 \in g[q \div 8]
  <2>1. CASE q < 8
    <3>1. q % 8 = q /\ q \div 8 = 0 /\ q \in 0 .. 15
      BY <2>1
    <3>. QED  BY <3>1, <2>1, <1>2, <1>4
  <2>2. CASE q >= 8 /\ q < 16
    <3>1. q % 8 = q - 8 /\ q \div 8 = 1 /\ q \in 0 .. 15 /\ ~ (q < 8)
      BY <2>2
    <3>. QED  BY <3>1, <2>2, <1>2, <1>4
  <2>3. CASE q >= 16 /\ q < 24
    <3>1. q % 8 = q - 16 /\ q \div 8 = 2 /\ q - 16 \in 0 .. 15 /\ q - 16 < 8 /\ q \notin 0 .. 15
      BY <2>3
    <3>2. q \in X(1) <=> q - 16 \in W(32)!OfNat(u)
      BY <3>1, <1>2
    <3>. QED  BY <3>1, <3>2, <1>2, <1>4
  <2>4. CASE q >= 24
    <3>1. q % 8 = q - 24 /\ q \div 8 = 3 /\ q - 16 \in 0 .. 15 /\ ~ (q - 16 < 8) /\ q \notin 0 .. 15
          /\ (q - 16) - 8 = q - 24
      BY <2>4
    <3>2. q \in X(1) <=> q - 16 \in W(32)!OfNat(u)
      BY <3>1, <1>2
    <3>. QED  BY <3>1, <3>2, <1>2, <1>4
  <2>. QED  BY <2>1, <2>2, <2>3, <2>4
<1>6. X(1) \cup X(2) \subseteq 0 .. 31
  BY <1>2
<1>7. UNION {X(k) : k \in 1 .. 2} = X(1) \cup X(2)
  OBVIOUS
<1>8. X(1) \cup X(2) = Spelled(4, g)
  BY <1>5, <1>6 DEF Spelled
<1>. QED  BY <1>1, <1>7, <1>8 DEF l, g, Written4

(* The letters of "expand 32-byte k".                                      *)
Letters == <<101, 120, 112, 97, 110, 100, 32, 51, 50, 45, 98, 121, 116, 101, 32, 107>>

(* The bytes of the constant are those of its letters.                     *)
LEMMA SigmaBytes ==
  /\ Cipher!Standard!Stream!Sigma(32) \in Seq(Byte)
  /\ Len(Cipher!Standard!Stream!Sigma(32)) = 16
  /\ \A k \in 1 .. 16 : /\ Letters[k] \in 0 .. 255
                        /\ Cipher!Standard!Stream!Sigma(32)[k] = W(8)!OfNat(Letters[k])
<1>. DEFINE s == Cipher!Standard!Stream!Sigma(32)
<1>1. s = [k \in 1 .. 16 |-> W(32)!OfNat(Letters[k])]
  <2>1. \A n : Cipher!Standard!Stream!Word!OfNat(n) = W(32)!OfNat(n)
    BY Zenon DEF Cipher!Standard!Stream!Word!OfNat, W!OfNat
  <2>2. 48 + (32 \div 10) = 51 /\ 48 + (32 % 10) = 50
    OBVIOUS
  <2>3. s = [k \in 1 .. 16 |-> Cipher!Standard!Stream!Word!OfNat(Letters[k])]
    BY <2>2, Zenon DEF Cipher!Standard!Stream!Sigma, Letters
  <2>. HIDE DEF s
  <2>. QED  BY <2>1, <2>3
<1>2. ASSUME NEW k \in 1 .. 16 PROVE Letters[k] \in 0 .. 255
  BY DEF Letters
<1>3. ASSUME NEW k \in 1 .. 16
      PROVE  W(32)!OfNat(Letters[k]) = W(8)!OfNat(Letters[k]) /\ W(8)!OfNat(Letters[k]) \in Byte
  <2>. DEFINE n == Letters[k]
  <2>0. n \in 0 .. 255
    BY <1>2, Zenon
  <2>. HIDE DEF n, s
  <2>1. n \in 0 .. 255 /\ n \in Nat
    BY <2>0
  <2>2. W(32)!OfNat(n) \subseteq 0 .. 7
    BY <2>1, ShortDigits, 32 \in Nat, 32 > 8, Zenon
  <2>3. W(8)!OfNat(n) \subseteq 0 .. 8 - 1
    BY <2>1, DigitsBounded, 8 \in Nat \ {0}, Zenon
  <2>4. \A p \in 0 .. 7 : p \in W(8)!OfNat(n) <=> p \in W(32)!OfNat(n)
    BY <2>1, DigitsAgree
  <2>5. W(32)!OfNat(n) = W(8)!OfNat(n)
    BY <2>2, <2>3, <2>4
  <2>. QED  BY <2>3, <2>5 DEF n, Byte
<1>4. \A k \in 1 .. 16 : s[k] = W(8)!OfNat(Letters[k]) /\ s[k] \in Byte
  <2>. HIDE DEF s
  <2>. QED  BY <1>1, <1>3
<1>5. s \in Seq(Byte) /\ Len(s) = 16
  <2>. HIDE DEF s
  <2>. QED  BY <1>1, <1>4
<1>. QED  BY <1>2, <1>4, <1>5, Zenon

(* The four words of the constant are the literals of the code.            *)
LEMMA Constants ==
  ASSUME NEW j \in 0 .. 3
  PROVE  <<Cipher!ChaCha!C0, Cipher!ChaCha!C1, Cipher!ChaCha!C2, Cipher!ChaCha!C3>>[j + 1] =
           Cipher!Standard!Stream!WordOf(Cipher!Standard!Stream!Sigma(32), j)
<1>. DEFINE s == Cipher!Standard!Stream!Sigma(32)
            C == <<Cipher!ChaCha!C0, Cipher!ChaCha!C1, Cipher!ChaCha!C2, Cipher!ChaCha!C3>>
            L(n) == Letters[n]
<1>1. Cipher!Standard!Stream!WordOf(s, j) = Spelled(4, BytesFrom(s, j))
  <2>1. j \in Nat /\ 4 * j + 4 <= Len(s) /\ s \in Seq(Byte)
    <3>1. s \in Seq(Byte) /\ Len(s) = 16
      BY SigmaBytes, Zenon
    <3>. HIDE DEF s
    <3>. QED  BY <3>1
  <2>. HIDE DEF s
  <2>. QED  BY <2>1, LeastWords, Zenon
<1>2. BytesFrom(s, j) = [k \in 0 .. 3 |-> W(8)!OfNat(L(4 * j + k + 1))]
  <2>1. \A k \in 0 .. 3 : s[4 * j + k + 1] = W(8)!OfNat(L(4 * j + k + 1))
    <3>1. \A k \in 0 .. 3 : 4 * j + k + 1 \in 1 .. 16
      <4>. HIDE DEF s
      <4>. QED  OBVIOUS
    <3>. QED  BY <3>1, SigmaBytes, Zenon
  <2>. HIDE DEF s, L
  <2>. QED  BY <2>1 DEF BytesFrom
<1>3. /\ C[1] = Spelled(4, Quad(97, 112, 120, 101)) /\ C[2] = Spelled(4, Quad(51, 32, 100, 110))
      /\ C[3] = Spelled(4, Quad(121, 98, 45, 50)) /\ C[4] = Spelled(4, Quad(107, 32, 101, 116))
  <2>1. Cipher!ChaCha!C0 = Spelled(4, Quad(97, 112, 120, 101))
    <3>. DEFINE u == \h6170   v == \h7865
                a == 97   b == 112   c == 120   d == 101
    <3>1. u = 256 * a + b /\ v = 256 * c + d
      OBVIOUS
    <3>2. a \in 0 .. 255 /\ b \in 0 .. 255 /\ c \in 0 .. 255 /\ d \in 0 .. 255
      OBVIOUS
    <3>3. Cipher!ChaCha!C0 = Cipher!ChaCha!OfLimbs(<<u, v>>)
      BY DEF Cipher!ChaCha!C0, u, v
    <3>. HIDE DEF u, v, a, b, c, d
    <3>4. Written4(u, v, a, b, c, d)
      BY <3>1, <3>2, Literal, Zenon
    <3>. QED  BY <3>3, <3>4, Zenon DEF Written4, a, b, c, d
  <2>2. Cipher!ChaCha!C1 = Spelled(4, Quad(51, 32, 100, 110))
    <3>. DEFINE u == \h3320   v == \h646e
                a == 51   b == 32   c == 100   d == 110
    <3>1. u = 256 * a + b /\ v = 256 * c + d
      OBVIOUS
    <3>2. a \in 0 .. 255 /\ b \in 0 .. 255 /\ c \in 0 .. 255 /\ d \in 0 .. 255
      OBVIOUS
    <3>3. Cipher!ChaCha!C1 = Cipher!ChaCha!OfLimbs(<<u, v>>)
      BY DEF Cipher!ChaCha!C1, u, v
    <3>. HIDE DEF u, v, a, b, c, d
    <3>4. Written4(u, v, a, b, c, d)
      BY <3>1, <3>2, Literal, Zenon
    <3>. QED  BY <3>3, <3>4, Zenon DEF Written4, a, b, c, d
  <2>3. Cipher!ChaCha!C2 = Spelled(4, Quad(121, 98, 45, 50))
    <3>. DEFINE u == \h7962   v == \h2d32
                a == 121   b == 98   c == 45   d == 50
    <3>1. u = 256 * a + b /\ v = 256 * c + d
      OBVIOUS
    <3>2. a \in 0 .. 255 /\ b \in 0 .. 255 /\ c \in 0 .. 255 /\ d \in 0 .. 255
      OBVIOUS
    <3>3. Cipher!ChaCha!C2 = Cipher!ChaCha!OfLimbs(<<u, v>>)
      BY DEF Cipher!ChaCha!C2, u, v
    <3>. HIDE DEF u, v, a, b, c, d
    <3>4. Written4(u, v, a, b, c, d)
      BY <3>1, <3>2, Literal, Zenon
    <3>. QED  BY <3>3, <3>4, Zenon DEF Written4, a, b, c, d
  <2>4. Cipher!ChaCha!C3 = Spelled(4, Quad(107, 32, 101, 116))
    <3>. DEFINE u == \h6b20   v == \h6574
                a == 107   b == 32   c == 101   d == 116
    <3>1. u = 256 * a + b /\ v = 256 * c + d
      OBVIOUS
    <3>2. a \in 0 .. 255 /\ b \in 0 .. 255 /\ c \in 0 .. 255 /\ d \in 0 .. 255
      OBVIOUS
    <3>3. Cipher!ChaCha!C3 = Cipher!ChaCha!OfLimbs(<<u, v>>)
      BY DEF Cipher!ChaCha!C3, u, v
    <3>. HIDE DEF u, v, a, b, c, d
    <3>4. Written4(u, v, a, b, c, d)
      BY <3>1, <3>2, Literal, Zenon
    <3>. QED  BY <3>3, <3>4, Zenon DEF Written4, a, b, c, d
  <2>. QED  BY <2>1, <2>2, <2>3, <2>4
<1>4. /\ Quad(97, 112, 120, 101) = [k \in 0 .. 3 |-> W(8)!OfNat(L(4 * 0 + k + 1))]
      /\ Quad(51, 32, 100, 110) = [k \in 0 .. 3 |-> W(8)!OfNat(L(4 * 1 + k + 1))]
      /\ Quad(121, 98, 45, 50) = [k \in 0 .. 3 |-> W(8)!OfNat(L(4 * 2 + k + 1))]
      /\ Quad(107, 32, 101, 116) = [k \in 0 .. 3 |-> W(8)!OfNat(L(4 * 3 + k + 1))]
  <2>1. ASSUME NEW k \in 0 .. 3
        PROVE  /\ <<101, 120, 112, 97>>[k + 1] = L(4 * 0 + k + 1)
               /\ <<110, 100, 32, 51>>[k + 1] = L(4 * 1 + k + 1)
               /\ <<50, 45, 98, 121>>[k + 1] = L(4 * 2 + k + 1)
               /\ <<116, 101, 32, 107>>[k + 1] = L(4 * 3 + k + 1)
    <3>1. k = 0 \/ k = 1 \/ k = 2 \/ k = 3
      OBVIOUS
    <3>. QED  BY <3>1 DEF Letters
  <2>. HIDE DEF L
  <2>. QED  BY <2>1 DEF Quad
<1>5. j = 0 \/ j = 1 \/ j = 2 \/ j = 3
  OBVIOUS
<1>6. C[j + 1] = Spelled(4, [k \in 0 .. 3 |-> W(8)!OfNat(L(4 * j + k + 1))])
  <2>. HIDE DEF C, L
  <2>. QED  BY <1>3, <1>4, <1>5
<1>. HIDE DEF C, L, s
<1>7. C[j + 1] = Cipher!Standard!Stream!WordOf(s, j)
  BY <1>1, <1>2, <1>6, Zenon
<1>. QED  BY <1>7 DEF C, s

(* The word of one has the lowest bit alone.                               *)
LEMMA OneDigit ==
  ASSUME NEW B \in Nat \ {0}
  PROVE  W(B)!OfNat(1) = {0}
<1>1. PICK f : Halves(f, 1, B) /\ W(B)!OfNat(1) = {k \in 0 .. B - 1 : f[k] % 2 = 1}
  BY HalvesExist, 1 \in Nat
<1>. DEFINE S == {n \in Nat : n + 1 <= B - 1 => f[n + 1] = 0}
<1>2. \A n \in Nat : n \in S
  <2>1. 0 \in S
    BY <1>1 DEF Halves
  <2>2. ASSUME NEW n \in Nat, n \in S PROVE n + 1 \in S
    <3>1. CASE n + 2 <= B - 1
      <4>1. f[(n + 1) + 1] = f[n + 1] \div 2
        BY <1>1, <3>1, n + 1 \in 0 .. B - 2 DEF Halves
      <4>2. f[n + 1] = 0
        BY <2>2, <3>1
      <4>. QED  BY <4>1, <4>2
    <3>. QED  BY <3>1
  <2>. HIDE DEF S
  <2>. QED  BY <2>1, <2>2, NatSet
<1>3. f[0] = 1
  BY <1>1 DEF Halves
<1>4. ASSUME NEW k \in 1 .. B - 1 PROVE f[k] = 0
  BY <1>2, k - 1 \in Nat, (k - 1) + 1 = k
<1>. QED  BY <1>1, <1>3, <1>4

(* The counter of block n + 1 of a text.                                   *)
ChaChaCount(c, n) == {p \in W(128)!Add(c, W(128)!OfNat(n)) : p < 32}

(* The counter is a word, that of no blocks the first one; ++ valCtr takes *)
(* it on by a block.                                                       *)
LEMMA ChaChaCounts ==
  ASSUME NEW c \in SUBSET (0 .. 31), NEW n \in Nat
  PROVE  /\ ChaChaCount(c, n) \in SUBSET (0 .. 31)
         /\ ChaChaCount(c, 0) = c
         /\ Cipher!ChaCha!Add(ChaChaCount(c, n), {0}) = ChaChaCount(c, n + 1)
<1>1. ASSUME NEW m \in Nat
      PROVE  ChaChaCount(c, m) = W(32)!Add(c, W(32)!OfNat(m))
  <2>. DEFINE x == W(32)!OfNat(m)
              y == W(128)!OfNat(m)
  <2>1. \A k \in 0 .. 31 : k \in x <=> k \in y
    BY DigitsAgree
  <2>. HIDE DEF x, y
  <2>2. \A k \in 0 .. 31 : k \in W(32)!Add(c, x) <=> k \in W(128)!Add(c, y)
    BY <2>1, LowerDigits
  <2>3. W(32)!Add(c, x) \subseteq 0 .. 31 /\ W(128)!Add(c, y) \subseteq 0 .. 127
    BY SumWord
  <2>4. W(32)!Add(c, x) = {k \in W(128)!Add(c, y) : k < 32}
    BY <2>2, <2>3
  <2>. QED  BY <2>4 DEF ChaChaCount, x, y
<1>2. ChaChaCount(c, n) \in SUBSET (0 .. 31)
  <2>. DEFINE x == W(32)!OfNat(n)
  <2>1. W(32)!Add(c, x) \subseteq 0 .. 31
    BY SumWord
  <2>. QED  BY <1>1, <2>1
<1>3. ChaChaCount(c, 0) = c
  <2>1. W(32)!OfNat(0) = {}
    BY NoDigits, 32 \in Nat \ {0}
  <2>2. \A k \in 0 .. 31 : k \in W(32)!Add(c, {}) <=> k \in c
    <3>1. \A k \in Nat : ~ Carry(c, {}, k)
      BY DEF Carry
    <3>2. \A k \in 0 .. 31 : k \in W(32)!Add(c, {}) <=> (((k \in c) <=> (k \in {})) <=> Carry(c, {}, k))
      BY SumBit
    <3>. QED  BY <3>1, <3>2
  <2>3. W(32)!Add(c, {}) \subseteq 0 .. 31
    BY SumWord
  <2>4. W(32)!Add(c, {}) = c
    BY <2>2, <2>3
  <2>. QED  BY <1>1, <2>1, <2>4, 0 \in Nat, Zenon
<1>4. Cipher!ChaCha!Add(ChaChaCount(c, n), {0}) = W(32)!Add(ChaChaCount(c, n), {0})
  BY Zenon DEF Cipher!ChaCha!Add, W!Add
<1>5. W(32)!OfNat(1) = {0}
  BY OneDigit, 32 \in Nat \ {0}
<1>6. W(32)!Add(W(32)!OfNat(n), W(32)!OfNat(1)) = W(32)!OfNat(n + 1)
  BY AddNumbers
<1>7. W(32)!Add(W(32)!Add(c, W(32)!OfNat(n)), W(32)!OfNat(1)) =
        W(32)!Add(c, W(32)!Add(W(32)!OfNat(n), W(32)!OfNat(1)))
  BY AddAssociates
<1>8. ChaChaCount(c, n) = W(32)!Add(c, W(32)!OfNat(n)) /\ ChaChaCount(c, n + 1) = W(32)!Add(c, W(32)!OfNat(n + 1))
  BY <1>1, n + 1 \in Nat
<1>9. Cipher!ChaCha!Add(ChaChaCount(c, n), {0}) = ChaChaCount(c, n + 1)
  BY <1>4, <1>5, <1>6, <1>7, <1>8, Zenon
<1>. QED  BY <1>2, <1>3, <1>9

(* On every host the bytes of raaz_tole32(x) in memory are those of x, the *)
(* least significant first.                                                *)
LEMMA StoredLeast ==
  ASSUME NEW h \in E!Hosts, NEW x \in SUBSET (0 .. 31), NEW k \in 0 .. 3
  PROVE  E!BytesOf(h, 4, E!raaz_tole32(h, x))[k + 1] = E!ByteAt(x, k)
<1>. DEFINE b == [j \in 0 .. 3 |-> E!ByteAt(x, j)]
            c == Reversed(4, b)
<1>1. h.order \in {"little", "big"} /\ h.gnuc \in BOOLEAN /\ 4 \in Nat
  BY DEF E!Hosts
<1>2. b \in [0 .. 3 -> Byte] /\ b \in [0 .. 4 - 1 -> Byte] /\ c \in [0 .. 4 - 1 -> Byte]
      /\ \A j \in 0 .. 3 : c[j] = b[3 - j]
  BY DEF E!ByteAt, Byte, Reversed
<1>3. x = Spelled(4, b)
  <2>1. ASSUME NEW q \in 0 .. 31 PROVE q \in x <=> q % 8 \in b[q \div 8]
    <3>1. q \div 8 \in 0 .. 3 /\ q % 8 \in 0 .. 7 /\ 8 * (q \div 8) + (q % 8) = q
      OBVIOUS
    <3>. QED  BY <3>1 DEF E!ByteAt
  <2>2. ASSUME NEW q PROVE q \in Spelled(4, b) <=> q \in 0 .. 31 /\ q % 8 \in b[q \div 8]
    <3>. HIDE DEF b
    <3>. QED  BY 8 * 4 - 1 = 31 DEF Spelled
  <2>. HIDE DEF b
  <2>3. ASSUME NEW q PROVE q \in Spelled(4, b) <=> q \in x
    <3>1. CASE q \in 0 .. 31
      BY <3>1, <2>1, <2>2
    <3>2. CASE q \notin 0 .. 31
      BY <3>2, <2>2
    <3>. QED  BY <3>1, <3>2
  <2>. QED  BY <2>3
<1>4. /\ E!PortableLE(h, 4, Spelled(4, b)) = Spelled(4, IF h.order = "little" THEN b ELSE c)
      /\ E!raaz_bswap32(h, Spelled(4, b)) = Spelled(4, c)
  BY <1>1, <1>2, Portable, Swapped32, Zenon
<1>5. E!raaz_tole32(h, x) = Spelled(4, IF h.order = "little" THEN b ELSE c)
  <2>. HIDE DEF b, c
  <2>. QED  BY <1>1, <1>3, <1>4 DEF E!raaz_tole32
<1>6. /\ \A j \in 0 .. 3 : E!ByteAt(Spelled(4, b), j) = b[j]
      /\ \A j \in 0 .. 3 : E!ByteAt(Spelled(4, c), j) = c[j]
  BY <1>1, <1>2, ByteOfSpelled, 0 .. 3 = 0 .. 4 - 1, Zenon
<1>7. b[k] = E!ByteAt(x, k)
  OBVIOUS
<1>. HIDE DEF b, c
<1>8. CASE h.order = "little"
  <2>1. E!BytesOf(h, 4, Spelled(4, b))[k + 1] = E!ByteAt(Spelled(4, b), k)
    BY <1>8, k + 1 \in 1 .. 4, (k + 1) - 1 = k DEF E!BytesOf
  <2>. QED  BY <1>5, <1>6, <1>7, <1>8, <2>1
<1>9. CASE h.order # "little"
  <2>1. E!BytesOf(h, 4, Spelled(4, c))[k + 1] = E!ByteAt(Spelled(4, c), 3 - k)
    BY <1>9, k + 1 \in 1 .. 4, 4 - (k + 1) = 3 - k DEF E!BytesOf
  <2>2. 3 - k \in 0 .. 3 /\ 3 - (3 - k) = k
    OBVIOUS
  <2>3. c[3 - k] = b[k]
    BY <1>2, <2>2
  <2>. QED  BY <1>5, <1>6, <1>7, <1>9, <2>1, <2>2, <2>3
<1>. QED  BY <1>8, <1>9

(* A row of any length is a list.                                          *)
LEMMA LineIsList ==
  ASSUME NEW S, NEW n \in Nat, NEW a \in [1 .. n -> S]
  PROVE  a \in Seq(S) /\ Len(a) = n
<1>1. [k \in 1 .. n |-> a[k]] \in Seq(S)
  OBVIOUS
<1>2. Len(a) = n
  OBVIOUS
<1>. QED  BY <1>1, <1>2

(* The start of a block: constants, key, counter and nonce.                *)
Composed(l, a, b, c, d) ==
  /\ l = [j \in 1 .. 16 |-> l[j]]
  /\ \A j \in 1 .. 16 : l[j] = IF j <= 4 THEN a[j] ELSE IF j <= 12 THEN b[j - 4]
                               ELSE IF j = 13 THEN c ELSE d[j - 13]
StartOf(a, b, c, d) == a \o b \o <<c>> \o d

(* Where the words of the pieces of the matrix are.                        *)
LEMMA FourPieces ==
  ASSUME NEW S, NEW a \in [1 .. 4 -> S], NEW b \in [1 .. 8 -> S], NEW c \in S,
         NEW d \in [1 .. 3 -> S]
  PROVE  Composed(StartOf(a, b, c, d), a, b, c, d)
<1>. DEFINE u == <<c>>
            e == a \o b
            f == e \o u
            g == f \o d
<1>1. a \in Seq(S) /\ Len(a) = 4
  BY RowIsList, Zenon
<1>2. b \in Seq(S) /\ Len(b) = 8
  BY LineIsList, 8 \in Nat, Zenon
<1>3. u \in Seq(S) /\ Len(u) = 1 /\ u[1] = c
  OBVIOUS
<1>4. d \in Seq(S) /\ Len(d) = 3
  BY LineIsList, 3 \in Nat, Zenon
<1>. HIDE DEF u
<1>5. e \in Seq(S) /\ Len(e) = 12 /\ \A j \in 1 .. 12 : e[j] = IF j <= 4 THEN a[j] ELSE b[j - 4]
  <2>1. /\ a \o b \in Seq(S) /\ Len(a \o b) = Len(a) + Len(b)
        /\ \A j \in 1 .. Len(a) + Len(b) :
             (a \o b)[j] = IF j <= Len(a) THEN a[j] ELSE b[j - Len(a)]
    BY Behind, <1>1, <1>2, Zenon
  <2>2. Len(a) = 4 /\ Len(b) = 8 /\ Len(a) + Len(b) = 12
    BY <1>1, <1>2
  <2>. QED  BY <2>1, <2>2
<1>. HIDE DEF e
<1>6. f \in Seq(S) /\ Len(f) = 13 /\ \A j \in 1 .. 13 : f[j] = IF j <= 12 THEN e[j] ELSE u[j - 12]
  <2>1. /\ e \o u \in Seq(S) /\ Len(e \o u) = Len(e) + Len(u)
        /\ \A j \in 1 .. Len(e) + Len(u) :
             (e \o u)[j] = IF j <= Len(e) THEN e[j] ELSE u[j - Len(e)]
    BY Behind, <1>3, <1>5, Zenon
  <2>2. Len(e) = 12 /\ Len(u) = 1 /\ Len(e) + Len(u) = 13
    BY <1>3, <1>5
  <2>. QED  BY <2>1, <2>2
<1>. HIDE DEF f
<1>7. g \in Seq(S) /\ Len(g) = 16 /\ \A j \in 1 .. 16 : g[j] = IF j <= 13 THEN f[j] ELSE d[j - 13]
  <2>1. /\ f \o d \in Seq(S) /\ Len(f \o d) = Len(f) + Len(d)
        /\ \A j \in 1 .. Len(f) + Len(d) :
             (f \o d)[j] = IF j <= Len(f) THEN f[j] ELSE d[j - Len(f)]
    BY Behind, <1>4, <1>6, Zenon
  <2>2. Len(f) = 13 /\ Len(d) = 3 /\ Len(f) + Len(d) = 16
    BY <1>4, <1>6
  <2>. QED  BY <2>1, <2>2
<1>. HIDE DEF g
<1>8. g = [j \in 1 .. 16 |-> g[j]]
  BY <1>7
<1>9. ASSUME NEW j \in 1 .. 16
      PROVE  g[j] = IF j <= 4 THEN a[j] ELSE IF j <= 12 THEN b[j - 4]
                    ELSE IF j = 13 THEN c ELSE d[j - 13]
  <2>1. CASE j <= 12
    BY <2>1, <1>5, <1>6, <1>7, j \in 1 .. 12, j \in 1 .. 13
  <2>2. CASE j = 13
    BY <2>2, <1>3, <1>6, <1>7, j - 12 = 1
  <2>3. CASE j > 13
    BY <2>3, <1>7
  <2>. QED  BY <2>1, <2>2, <2>3
<1>10. StartOf(a, b, c, d) = g
  BY Zenon DEF StartOf, e, f, g, u
<1>. QED  BY <1>8, <1>9, <1>10, Zenon DEF Composed

(* The registers at the start of a block are the matrix of the standard.   *)
StartsAs(key, nonce, low, c) ==
  LET s == Cipher!ChaCha!Start(Cipher!WordsLE(key), Cipher!WordsLE(nonce), low)
  IN  s = [j \in 0 .. 15 |-> s[j]] /\ Listed16(s) = Cipher!Standard!Stream!ChaChaMatrix(key, nonce, c)

(* The registers start as the matrix does.                                 *)
LEMMA ChaChaStart ==
  ASSUME NEW key \in Cipher!Bytes(32), NEW nonce \in Cipher!Bytes(12), NEW c, NEW low, low = {p \in c : p < 32}
  PROVE  StartsAs(key, nonce, low, c)
<1>0. key \in Seq(Byte) /\ Len(key) = 32 /\ nonce \in Seq(Byte) /\ Len(nonce) = 12
  BY DEF Cipher!Bytes, Cipher!Byte, Byte
<1>. DEFINE Nth(s, n) == Cipher!Standard!Stream!WordOf(s, n)
            sigma == Cipher!Standard!Stream!Sigma(32)
            ck == Cipher!WordsLE(key)
            cn == Cipher!WordsLE(nonce)
            C == <<Cipher!ChaCha!C0, Cipher!ChaCha!C1, Cipher!ChaCha!C2, Cipher!ChaCha!C3>>
            m1 == [j \in 1 .. 4 |-> Nth(sigma, j - 1)]
            m2 == [j \in 1 .. 8 |-> Nth(key, j - 1)]
            m4 == [j \in 1 .. 3 |-> Nth(nonce, j - 1)]
            S == {m1[j] : j \in 1 .. 4} \cup {m2[j] : j \in 1 .. 8} \cup {low} \cup {m4[j] : j \in 1 .. 3}
            x == Cipher!ChaCha!Start(ck, cn, low)
            l == Cipher!Standard!Stream!ChaChaMatrix(key, nonce, c)
<1>1. l = StartOf(m1, m2, low, m4)
  <2>1. Cipher!Standard!Stream!Lower(c) = low
    BY DEF Cipher!Standard!Stream!Lower
  <2>2. l = StartOf(m1, m2, Cipher!Standard!Stream!Lower(c), m4)
    BY Zenon DEF Cipher!Standard!Stream!ChaChaMatrix, StartOf
  <2>. QED  BY <2>1, <2>2, Zenon
<1>2. x = [j \in 0 .. 15 |-> CASE j < 4 -> C[j + 1]
                               [] j \in 4 .. 11 -> ck[j - 3]
                               [] j = 12 -> low
                               [] j > 12 -> cn[j - 12]]
  BY Zenon DEF Cipher!ChaCha!Start
<1>3. \A j \in 0 .. 3 : C[j + 1] = m1[j + 1]
  <2>1. \A j \in 0 .. 3 : C[j + 1] = Nth(sigma, j)
    BY Constants, Zenon
  <2>. HIDE DEF C, Nth
  <2>. QED  BY <2>1
<1>4. \A j \in 1 .. 8 : ck[j] = m2[j]
  <2>. SUFFICES ASSUME NEW j \in 1 .. 8 PROVE ck[j] = m2[j]
    OBVIOUS
  <2>1. key \in Seq(Byte) /\ j - 1 \in Nat /\ 4 * (j - 1) + 4 <= Len(key) /\ (j - 1) + 1 = j
    <3>. HIDE DEF Nth, sigma, ck, cn, C, m1, m2, m4, S, x, l
    <3>. QED  BY <1>0
  <2>2. ck[(j - 1) + 1] = Nth(key, j - 1)
    BY <2>1, LeastWords, Zenon
  <2>. HIDE DEF ck, Nth
  <2>. QED  BY <2>1, <2>2
<1>5. \A j \in 1 .. 3 : cn[j] = m4[j]
  <2>. SUFFICES ASSUME NEW j \in 1 .. 3 PROVE cn[j] = m4[j]
    OBVIOUS
  <2>1. nonce \in Seq(Byte) /\ j - 1 \in Nat /\ 4 * (j - 1) + 4 <= Len(nonce) /\ (j - 1) + 1 = j
    <3>. HIDE DEF Nth, sigma, ck, cn, C, m1, m2, m4, S, x, l
    <3>. QED  BY <1>0
  <2>2. cn[(j - 1) + 1] = Nth(nonce, j - 1)
    BY <2>1, LeastWords, Zenon
  <2>. HIDE DEF cn, Nth
  <2>. QED  BY <2>1, <2>2
<1>6. m1 \in [1 .. 4 -> S] /\ m2 \in [1 .. 8 -> S] /\ low \in S /\ m4 \in [1 .. 3 -> S]
  <2>. HIDE DEF Nth
  <2>. QED  OBVIOUS
<1>. HIDE DEF m1, m2, m4, S, ck, cn, C
<1>7. Composed(l, m1, m2, low, m4)
  <2>. HIDE DEF l
  <2>. QED  BY <1>1, <1>6, FourPieces, Zenon
<1>. HIDE DEF x, l
<1>8. x = [j \in 0 .. 15 |-> x[j]]
  BY <1>2
<1>9. ASSUME NEW j \in 1 .. 16 PROVE x[j - 1] = l[j]
  <2>1. l[j] = IF j <= 4 THEN m1[j] ELSE IF j <= 12 THEN m2[j - 4]
               ELSE IF j = 13 THEN low ELSE m4[j - 13]
    BY <1>7, Zenon DEF Composed
  <2>2. CASE j <= 4
    <3>1. x[j - 1] = C[(j - 1) + 1] /\ C[(j - 1) + 1] = m1[(j - 1) + 1]
      BY <2>2, <1>2, <1>3, j - 1 \in 0 .. 3, j - 1 < 4
    <3>. QED  BY <3>1, <2>1, <2>2
  <2>3. CASE j > 4 /\ j <= 12
    <3>1. x[j - 1] = ck[(j - 1) - 3]
      BY <2>3, <1>2, j - 1 \in 4 .. 11, ~ (j - 1 < 4)
    <3>2. (j - 1) - 3 = j - 4 /\ j - 4 \in 1 .. 8
      BY <2>3
    <3>. QED  BY <3>1, <3>2, <2>1, <2>3, <1>4
  <2>4. CASE j = 13
    <3>1. x[j - 1] = low
      BY <2>4, <1>2, j - 1 = 12
    <3>. QED  BY <3>1, <2>1, <2>4
  <2>5. CASE j > 13
    <3>1. x[j - 1] = cn[(j - 1) - 12]
      BY <2>5, <1>2, j - 1 \in 13 .. 15, ~ (j - 1 < 4), j - 1 \notin 4 .. 11, j - 1 # 12
    <3>2. (j - 1) - 12 = j - 13 /\ j - 13 \in 1 .. 3
      BY <2>5
    <3>. QED  BY <3>1, <3>2, <2>1, <2>5, <1>5
  <2>. QED  BY <2>2, <2>3, <2>4, <2>5
<1>10. l = [j \in 1 .. 16 |-> l[j]]
  BY <1>7, Zenon DEF Composed
<1>11. Listed16(x) = l
  BY <1>9, <1>10 DEF Listed16
<1>. QED  BY <1>8, <1>11 DEF x, l, ck, cn, StartsAs

(* Adding the start to the registers is adding the matrices.               *)
LEMMA ChaChaAdded ==
  ASSUME NEW x, NEW key, NEW nonce, NEW c
  PROVE  /\ Listed16(Cipher!ChaCha!AddStart(x, key, nonce, c)) =
              Cipher!Standard!Stream!AddWords(Listed16(x), Listed16(Cipher!ChaCha!Start(key, nonce, c)))
         /\ \A j \in 0 .. 15 : Cipher!ChaCha!AddStart(x, key, nonce, c)[j] \in SUBSET (0 .. 31)
<1>. DEFINE s == Cipher!ChaCha!Start(key, nonce, c)
            z == Cipher!ChaCha!AddStart(x, key, nonce, c)
<1>1. /\ \A u, v : Cipher!ChaCha!Add(u, v) = W(32)!Add(u, v)
      /\ \A u, v : Cipher!Standard!Stream!Word!Add(u, v) = W(32)!Add(u, v)
  BY Zenon DEF Cipher!ChaCha!Add, Cipher!Standard!Stream!Word!Add, W!Add
<1>2. z = [j \in 0 .. 15 |-> W(32)!Add(x[j], s[j])]
  BY <1>1, Zenon DEF Cipher!ChaCha!AddStart
<1>3. Cipher!Standard!Stream!AddWords(Listed16(x), Listed16(s)) =
        [j \in 1 .. 16 |-> W(32)!Add(Listed16(x)[j], Listed16(s)[j])]
  BY <1>1, Zenon DEF Cipher!Standard!Stream!AddWords
<1>. HIDE DEF s, z
<1>4. \A j \in 0 .. 15 : z[j] \in SUBSET (0 .. 31)
  <2>1. \A u, v : W(32)!Add(u, v) \subseteq 0 .. 31
    BY SumWord
  <2>. QED  BY <1>2, <2>1
<1>5. \A j \in 1 .. 16 : Listed16(x)[j] = x[j - 1] /\ Listed16(s)[j] = s[j - 1]
  BY DEF Listed16
<1>6. Listed16(z) = [j \in 1 .. 16 |-> W(32)!Add(Listed16(x)[j], Listed16(s)[j])]
  <2>1. \A j \in 1 .. 16 : z[j - 1] = W(32)!Add(Listed16(x)[j], Listed16(s)[j])
    BY <1>2, <1>5
  <2>. QED  BY <2>1 DEF Listed16
<1>. QED  BY <1>3, <1>4, <1>6, Zenon DEF s, z

(* XOR takes the bytes of the words in their order, the least significant  *)
(* first, on every host and for a block of any length.                     *)
LEMMA ChaChaXored ==
  ASSUME NEW h \in E!Hosts, NEW b \in Seq(Byte), Len(b) <= 64,
         NEW z, \A j \in 0 .. 15 : z[j] \in SUBSET (0 .. 31)
  PROVE  Cipher!ChaCha!XOR(h, b, z) =
           Cipher!Standard!Aes!XorBytes(b, Cipher!Standard!Stream!LittleEndian(Listed16(z)))
<1>. DEFINE l == Cipher!Standard!Stream!LittleEndian(Listed16(z))
            a(q) == (q - 1) \div 4
            e(q) == (q - 1) % 4
            Mem(q) == E!BytesOf(h, 4, E!raaz_tole32(h, z[a(q)]))[e(q) + 1]
            Either(u, v) == (u \ v) \cup (v \ u)
<1>1. Cipher!ChaCha!XOR(h, b, z) = [q \in 1 .. Len(b) |-> Either(b[q], Mem(q))]
  <2>1. \A n, u : Cipher!ChaCha!BytesOf(h, n, u) = E!BytesOf(h, n, u)
    BY Zenon DEF Cipher!ChaCha!BytesOf, E!BytesOf, Cipher!ChaCha!ByteAt, E!ByteAt
  <2>2. \A u : Cipher!ChaCha!raaz_tole32(h, u) = E!raaz_tole32(h, u)
    BY DEF Cipher!ChaCha!raaz_tole32, E!raaz_tole32, Cipher!ChaCha!raaz_bswap32, E!raaz_bswap32,
      Cipher!ChaCha!PortableLE, E!PortableLE, Cipher!ChaCha!BytesOf, E!BytesOf, Cipher!ChaCha!MK, E!MK,
      Cipher!ChaCha!PlatformSwap, E!PlatformSwap, Cipher!ChaCha!SWAP, E!SWAP, Cipher!ChaCha!ByteAt, E!ByteAt
  <2>3. \A u, v : Cipher!ChaCha!Xor(u, v) = Either(u, v)
    BY Zenon DEF Cipher!ChaCha!Xor
  <2>. HIDE DEF Either
  <2>. QED  BY <2>1, <2>2, <2>3, Zenon DEF Cipher!ChaCha!XOR
<1>2. Cipher!Standard!Aes!XorBytes(b, l) = [q \in 1 .. Len(b) |-> Either(b[q], l[q])]
  <2>1. \A u, v : Cipher!Standard!Aes!Byte!Xor(u, v) = Either(u, v)
    BY Zenon DEF Cipher!Standard!Aes!Byte!Xor
  <2>2. DOMAIN b = 1 .. Len(b)
    OBVIOUS
  <2>. HIDE DEF Either, l
  <2>. QED  BY <2>1, <2>2, Zenon DEF Cipher!Standard!Aes!XorBytes
<1>3. ASSUME NEW q \in 1 .. Len(b) PROVE Mem(q) = l[q]
  <2>1. q \in 1 .. 64
    BY Len(b) \in Nat
  <2>2. a(q) \in 0 .. 15 /\ e(q) \in 0 .. 3 /\ (a(q) + 1) - 1 = a(q) /\ a(q) + 1 \in 1 .. 16
    BY <2>1
  <2>3. l[q] = {p \in 0 .. 7 : 8 * e(q) + p \in Listed16(z)[a(q) + 1]}
    BY <2>1, Zenon DEF Cipher!Standard!Stream!LittleEndian
  <2>. HIDE DEF a, e, l
  <2>4. Listed16(z)[a(q) + 1] = z[a(q)]
    BY <2>2 DEF Listed16
  <2>5. Mem(q) = E!ByteAt(z[a(q)], e(q))
    <3>1. z[a(q)] \in SUBSET (0 .. 31)
      BY <2>2
    <3>. QED  BY <2>2, <3>1, StoredLeast, Zenon
  <2>6. E!ByteAt(z[a(q)], e(q)) = {p \in 0 .. 7 : 8 * e(q) + p \in z[a(q)]}
    BY Zenon DEF E!ByteAt
  <2>. QED  BY <2>3, <2>4, <2>5, <2>6, Zenon
<1>. HIDE DEF Either, Mem, l
<1>4. [q \in 1 .. Len(b) |-> Either(b[q], Mem(q))] = [q \in 1 .. Len(b) |-> Either(b[q], l[q])]
  BY <1>3
<1>. QED  BY <1>1, <1>2, <1>4 DEF l

(* The texts are texts for ChaCha20.                                       *)
OnlyChaCha == \A z \in Texts : Cipher!ChaChaText(z)

(* The key is kept, what is left of a call is part of the text, and the    *)
(* counter is that of the next block.                                      *)
ChaChaInv ==
  /\ task \in Texts
  /\ phase \in {1, 2} /\ place \in {"caller", "loop", "rounds"}
  /\ eKey = Cipher!WordsLE(task.key)
  /\ text \in Seq(Seq(Byte)) /\ Len(text) = Len(task.text)
  /\ \A k \in 1 .. Len(text) : Len(text[k]) <= 64
  /\ over \in Nat /\ passed \in Nat /\ rest \in Nat
  /\ rest <= passed /\ over + passed <= Len(text)
  /\ place = "caller" => passed = 0 /\ rest = 0
  /\ place = "rounds" => rest > 0 /\ regs = [j \in 0 .. 15 |-> regs[j]]
  /\ rounds \in 0 .. 10 /\ (place # "rounds" => rounds = 0)
  /\ iv = ChaChaCount(task.counter, over)
  /\ place # "caller" => valCtr = ChaChaCount(task.counter, over + passed - rest)

(* What the model makes of such a text.                                    *)
LEMMA ChaChaFacts ==
  ASSUME OnlyChaCha, task \in Texts
  PROVE  /\ Cipher!ChaChaText(task) /\ Cipher!lib = "chacha20"
         /\ \A e \in BOOLEAN : ~ Cipher!Mode("cbc", e)
         /\ ~ Cipher!Back /\ Cipher!InitialIv = task.counter
         /\ Cipher!RoundKeyBytes = << >>
         /\ ~ Cipher!Standard!IsAes /\ Cipher!Standard!Rounds = 10
<1>1. /\ Cipher!ChaChaText(task) /\ task.lib = "chacha20" /\ task.mode = "stream"
      /\ task.cipher = "chacha20" /\ task.rounds = 20
  BY DEF OnlyChaCha, Cipher!ChaChaText
<1>2. Cipher!lib = "chacha20"
  BY <1>1 DEF Cipher!lib
<1>3. \A e \in BOOLEAN : ~ Cipher!Mode("cbc", e)
  BY <1>1 DEF Cipher!Mode
<1>4. Cipher!InitialIv = task.counter
  BY <1>2 DEF Cipher!InitialIv
<1>5. Cipher!RoundKeyBytes = << >>
  BY <1>1 DEF Cipher!RoundKeyBytes
<1>6. ~ Cipher!Standard!IsAes
  BY <1>1 DEF Cipher!Standard!IsAes
<1>7. Cipher!Standard!Rounds = 10
  BY <1>1, <1>6 DEF Cipher!Standard!Rounds
<1>. QED  BY <1>1, <1>2, <1>3, <1>4, <1>5, <1>6, <1>7 DEF Cipher!Back

(* The only steps are those of ChaCha20, the calls and the turn.           *)
LEMMA ChaChaNext ==
  ASSUME OnlyChaCha, ChaChaInv, Cipher!Next
  PROVE  \/ \E n \in 0 .. Len(text) : Cipher!Call(n)
         \/ Cipher!BeginChaCha20 \/ Cipher!RoundChaCha20 \/ Cipher!EndChaCha20
         \/ Cipher!Return \/ Cipher!Turn
<1>1. Cipher!lib = "chacha20" /\ place # "expand"
  BY ChaChaFacts DEF ChaChaInv
<1>2. ~ Cipher!ExpandColumn /\ ~ Cipher!TransposeKey /\ ~ Cipher!ExpandRows
  BY <1>1 DEF Cipher!ExpandColumn, Cipher!TransposeKey, Cipher!ExpandRows
<1>3. /\ ~ Cipher!BeginPortable /\ ~ Cipher!EncryptRoundPortable /\ ~ Cipher!DecryptRoundPortable
      /\ ~ Cipher!EndECBBlock /\ ~ Cipher!EndCBCEncryptBlock /\ ~ Cipher!EndCBCDecryptBlock
      /\ ~ Cipher!EndCTRBlock
  BY <1>1 DEF Cipher!BeginPortable, Cipher!EncryptRoundPortable, Cipher!DecryptRoundPortable,
    Cipher!EndECBBlock, Cipher!EndCBCEncryptBlock, Cipher!EndCBCDecryptBlock, Cipher!EndCTRBlock,
    Cipher!Begin, Cipher!Round, Cipher!End
<1>4. /\ ~ Cipher!BeginRows /\ ~ Cipher!EncryptRoundRows /\ ~ Cipher!DecryptRoundRows
      /\ ~ Cipher!EndCBCEncryptRows /\ ~ Cipher!EndCBCDecryptRows
  BY <1>1 DEF Cipher!BeginRows, Cipher!EncryptRoundRows, Cipher!DecryptRoundRows,
    Cipher!EndCBCEncryptRows, Cipher!EndCBCDecryptRows, Cipher!Begin, Cipher!Round, Cipher!End
<1>5. ~ Cipher!BeginSalsa20 /\ ~ Cipher!RoundSalsa20 /\ ~ Cipher!EndSalsa20
  BY <1>1 DEF Cipher!BeginSalsa20, Cipher!RoundSalsa20, Cipher!EndSalsa20,
    Cipher!Begin, Cipher!Round, Cipher!End
<1>. QED  BY <1>2, <1>3, <1>4, <1>5, Zenon DEF Cipher!Next

(* It holds at the start.                                                  *)
LEMMA ChaChaBegun ==
  ASSUME OnlyChaCha, Cipher!Init
  PROVE  ChaChaInv /\ Cipher!Standard!Init
<1>1. task \in Texts
  BY DEF Cipher!Init
<1>2. /\ Cipher!ChaChaText(task) /\ Cipher!lib = "chacha20" /\ Cipher!InitialIv = task.counter
      /\ Cipher!RoundKeyBytes = << >> /\ ~ Cipher!Back
  BY <1>1, ChaChaFacts
<1>3. task.cipher = "chacha20" /\ task.counter \in SUBSET (0 .. 31)
      /\ task.text \in Seq(Seq(Byte)) /\ \A k \in 1 .. Len(task.text) : Len(task.text[k]) <= 64
  BY <1>2 DEF Cipher!ChaChaText, Cipher!Byte, Byte
<1>4. /\ phase = 1 /\ place = "caller" /\ eKey = Cipher!WordsLE(task.key) /\ text = task.text
      /\ iv = task.counter /\ over = 0 /\ passed = 0 /\ rest = 0 /\ rounds = 0 /\ orig = task.text
  BY <1>2, <1>3 DEF Cipher!Init
<1>5. iv = ChaChaCount(task.counter, 0)
  BY <1>3, <1>4, ChaChaCounts, 0 \in Nat, Zenon
<1>6. ChaChaInv
  BY <1>1, <1>3, <1>4, <1>5 DEF ChaChaInv
<1>7. Cipher!Did = {}
  BY <1>2, <1>4 DEF Cipher!Did, Cipher!Position
<1>8. Cipher!StateOfRegisters = << >>
  BY <1>4 DEF Cipher!StateOfRegisters
<1>9. Cipher!Standard!Init
  BY <1>2, <1>4, <1>7, <1>8 DEF Cipher!Standard!Init
<1>. QED  BY <1>6, <1>9

(* What the standard sees of a state, and of the one after a step.         *)
LEMMA ChaChaView ==
  ASSUME OnlyChaCha, ChaChaInv
  PROVE  /\ Cipher!RoundKeyBytes = << >> /\ ~ Cipher!Back
         /\ Cipher!Position = over + passed - rest + 1
         /\ Cipher!Did = 1 .. over + passed - rest
         /\ Cipher!StateOfRegisters = IF place = "rounds" THEN Listed16(regs) ELSE << >>
<1>1. Cipher!RoundKeyBytes = << >> /\ ~ Cipher!Back
  BY ChaChaFacts DEF ChaChaInv
<1>2. Cipher!Position = over + passed - rest + 1
  BY DEF Cipher!Position
<1>3. over \in Nat /\ over + passed - rest \in Nat /\ over <= over + passed - rest
      /\ (over + passed - rest + 1) - 1 = over + passed - rest
  BY DEF ChaChaInv
<1>4. Cipher!Did = 1 .. over \cup over + 1 .. (over + passed - rest + 1) - 1
  BY <1>1, <1>2, Zenon DEF Cipher!Did
<1>5. Cipher!Did = 1 .. over + passed - rest
  BY <1>3, <1>4
<1>6. task.cipher = "chacha20"
  BY DEF ChaChaInv, OnlyChaCha, Cipher!ChaChaText
<1>7. Cipher!StateOfRegisters = IF place = "rounds" THEN Listed16(regs) ELSE << >>
  BY <1>6 DEF Cipher!StateOfRegisters, Listed16
<1>. QED  BY <1>1, <1>2, <1>5, <1>7

(* The same of the state after a step.                                     *)
LEMMA ChaChaViewAfter ==
  ASSUME OnlyChaCha, ChaChaInv'
  PROVE  /\ Cipher!RoundKeyBytes' = << >> /\ ~ Cipher!Back'
         /\ Cipher!Position' = over' + passed' - rest' + 1
         /\ Cipher!Did' = 1 .. over' + passed' - rest'
         /\ Cipher!StateOfRegisters' = IF place' = "rounds" THEN Listed16(regs') ELSE << >>
<1>1. task' \in Texts
  BY DEF ChaChaInv
<1>2. task'.cipher = "chacha20" /\ task'.mode = "stream"
  BY <1>1 DEF OnlyChaCha, Cipher!ChaChaText
<1>3. Cipher!RoundKeyBytes' = << >>
  BY <1>2 DEF Cipher!RoundKeyBytes
<1>4. ~ Cipher!Back'
  BY <1>2 DEF Cipher!Back, Cipher!Mode
<1>5. Cipher!Position' = over' + passed' - rest' + 1
  BY DEF Cipher!Position
<1>6. over' \in Nat /\ over' + passed' - rest' \in Nat /\ over' <= over' + passed' - rest'
      /\ (over' + passed' - rest' + 1) - 1 = over' + passed' - rest'
  BY DEF ChaChaInv
<1>7. Cipher!Did' = 1 .. over' \cup over' + 1 .. (over' + passed' - rest' + 1) - 1
  BY <1>4, <1>5, Zenon DEF Cipher!Did
<1>8. Cipher!Did' = 1 .. over' + passed' - rest'
  BY <1>6, <1>7
<1>9. Cipher!StateOfRegisters' = IF place' = "rounds" THEN Listed16(regs') ELSE << >>
  BY <1>2 DEF Cipher!StateOfRegisters, Listed16
<1>. QED  BY <1>3, <1>4, <1>5, <1>8, <1>9

(* The matrix of block k is the start of the registers.                    *)
LEMMA ChaChaMatrixOf ==
  ASSUME OnlyChaCha, ChaChaInv, NEW k \in Nat \ {0}
  PROVE  LET s == Cipher!ChaCha!Start(eKey, Cipher!WordsLE(task.iv), ChaChaCount(task.counter, k - 1))
         IN  s = [j \in 0 .. 15 |-> s[j]] /\ Listed16(s) = Cipher!Standard!Matrix(k)
<1>. DEFINE sum == W(128)!Add(task.counter, W(128)!OfNat(k - 1))
            whole == {p \in sum : p < 64}
            low == ChaChaCount(task.counter, k - 1)
            s == Cipher!ChaCha!Start(eKey, Cipher!WordsLE(task.iv), low)
<1>1. /\ task.cipher = "chacha20" /\ task.key \in Cipher!Bytes(32) /\ task.iv \in Cipher!Bytes(12)
      /\ eKey = Cipher!WordsLE(task.key)
  BY DEF ChaChaInv, OnlyChaCha, Cipher!ChaChaText
<1>2. Cipher!Standard!Matrix(k) = Cipher!Standard!Stream!ChaChaMatrix(task.key, task.iv, whole)
  BY <1>1, Zenon DEF Cipher!Standard!Matrix, Cipher!Standard!Long!Add, Cipher!Standard!Long!OfNat, W!Add, W!OfNat
<1>3. low = {p \in whole : p < 32}
  <2>1. W(128)!Add(task.counter, W(128)!OfNat(k - 1)) \subseteq 0 .. 127
    BY SumWord
  <2>. HIDE DEF sum
  <2>2. sum \subseteq 0 .. 127
    BY <2>1 DEF sum
  <2>3. low = {p \in sum : p < 32}
    BY Zenon DEF ChaChaCount, sum
  <2>. HIDE DEF low
  <2>4. ASSUME NEW p \in 0 .. 127 PROVE p \in low <=> p \in whole /\ p < 32
    BY <2>3, p < 32 => p < 64
  <2>5. low \subseteq 0 .. 127 /\ whole \subseteq 0 .. 127
    BY <2>2, <2>3
  <2>. HIDE DEF whole
  <2>. QED  BY <2>4, <2>5
<1>. HIDE DEF whole, low
<1>4. StartsAs(task.key, task.iv, low, whole)
  BY <1>1, <1>3, ChaChaStart, Zenon
<1>. QED  BY <1>1, <1>2, <1>4, Zenon DEF low, StartsAs

(* A call and its return are no steps of the standard.                     *)
ChaChaStutters == UNCHANGED Cipher!Standard!vars

(* Outside the rounds, what is done stays.                                 *)
LEMMA ChaChaStays ==
  ASSUME OnlyChaCha, ChaChaInv, ChaChaInv', place # "rounds", place' # "rounds",
         UNCHANGED <<task, phase, text, rounds, orig>>,
         over' + passed' - rest' = over + passed - rest
  PROVE  ChaChaStutters
<1>1. /\ Cipher!RoundKeyBytes = << >> /\ Cipher!Did = 1 .. over + passed - rest
      /\ Cipher!StateOfRegisters = << >>
  BY ChaChaView
<1>2. /\ Cipher!RoundKeyBytes' = << >> /\ Cipher!Did' = 1 .. over' + passed' - rest'
      /\ Cipher!StateOfRegisters' = << >>
  BY ChaChaViewAfter
<1>. QED  BY <1>1, <1>2 DEF ChaChaStutters, Cipher!Standard!vars

(* The head of a call.                                                     *)
LEMMA ChaChaCalled ==
  ASSUME OnlyChaCha, ChaChaInv, NEW n \in 0 .. Len(text), Cipher!Call(n)
  PROVE  ChaChaInv' /\ ChaChaStutters
<1>1. /\ place = "caller" /\ n <= Len(text) - over /\ passed' = n /\ rest' = n /\ place' = "loop"
      /\ valCtr' = IF Cipher!lib = "chacha20" THEN iv ELSE {}
      /\ UNCHANGED <<task, phase, eKey, turn, prev, text, iv, over, rounds, orig>>
  BY DEF Cipher!Call
<1>2. Cipher!lib = "chacha20"
  BY ChaChaFacts DEF ChaChaInv
<1>3. over + passed' - rest' = over /\ passed = 0 /\ rest = 0 /\ over + passed - rest = over
  BY <1>1 DEF ChaChaInv
<1>4. ChaChaInv'
  BY <1>1, <1>2, <1>3 DEF ChaChaInv
<1>5. over' + passed' - rest' = over + passed - rest
  BY <1>1, <1>3
<1>. QED  BY <1>1, <1>4, <1>5, ChaChaStays

(* Its tail: the counter is kept for the next call.                        *)
LEMMA ChaChaReturned ==
  ASSUME OnlyChaCha, ChaChaInv, Cipher!Return
  PROVE  ChaChaInv' /\ ChaChaStutters
<1>1. Cipher!lib = "chacha20" /\ ~ Cipher!Mode("cbc", FALSE) /\ ~ Cipher!Mode("cbc", TRUE)
  BY ChaChaFacts DEF ChaChaInv
<1>2. /\ place = "loop" /\ rest = 0 /\ over' = over + passed /\ passed' = 0 /\ place' = "caller"
      /\ iv' = valCtr
      /\ UNCHANGED <<task, phase, eKey, turn, prev, text, rest, rounds, orig>>
  BY <1>1 DEF Cipher!Return
<1>3. over + passed - rest = over + passed /\ over' + passed' - rest' = over + passed
      /\ over' + passed' <= Len(text) /\ over' \in Nat
  BY <1>2 DEF ChaChaInv
<1>4. iv' = ChaChaCount(task.counter, over')
  BY <1>2, <1>3 DEF ChaChaInv
<1>5. ChaChaInv'
  BY <1>2, <1>3, <1>4 DEF ChaChaInv
<1>6. place # "rounds" /\ place' # "rounds"
  BY <1>2
<1>. QED  BY <1>2, <1>3, <1>5, <1>6, ChaChaStays

(* A block begins with the matrix of the standard.                         *)
LEMMA ChaChaBegins ==
  ASSUME OnlyChaCha, ChaChaInv, Cipher!BeginChaCha20
  PROVE  ChaChaInv' /\ \E k \in DOMAIN text : Cipher!Standard!Begin(k)
<1>. DEFINE k == over + passed - rest + 1
            s == Cipher!ChaCha!Start(eKey, Cipher!WordsLE(task.iv), ChaChaCount(task.counter, k - 1))
<1>1. /\ place = "loop" /\ rest > 0 /\ place' = "rounds" /\ rounds' = 0
      /\ regs' = Cipher!ChaCha!Start(eKey, Cipher!WordsLE(task.iv), valCtr)
      /\ UNCHANGED <<task, phase, eKey, turn, prev, text, iv, over, passed, rest, valCtr, saved, orig>>
  BY DEF Cipher!BeginChaCha20, Cipher!Begin
<1>2. k \in Nat \ {0} /\ k - 1 = over + passed - rest /\ k \in 1 .. Len(text)
      /\ k \notin 1 .. over + passed - rest
  BY <1>1 DEF ChaChaInv
<1>. HIDE DEF k
<1>3. valCtr = ChaChaCount(task.counter, k - 1)
  BY <1>1, <1>2 DEF ChaChaInv
<1>4. s = [j \in 0 .. 15 |-> s[j]] /\ Listed16(s) = Cipher!Standard!Matrix(k)
  BY <1>2, ChaChaMatrixOf, Zenon
<1>5. regs' = s
  BY <1>1, <1>3, Zenon
<1>. HIDE DEF s
<1>6. ChaChaInv'
  BY <1>1, <1>4, <1>5 DEF ChaChaInv
<1>7. /\ Cipher!RoundKeyBytes = << >> /\ ~ Cipher!Back /\ Cipher!Did = 1 .. over + passed - rest
  BY ChaChaView
<1>8. /\ Cipher!RoundKeyBytes' = << >> /\ ~ Cipher!Back'
      /\ Cipher!Position' = over' + passed' - rest' + 1
      /\ Cipher!Did' = 1 .. over' + passed' - rest'
      /\ Cipher!StateOfRegisters' = IF place' = "rounds" THEN Listed16(regs') ELSE << >>
  BY <1>6, ChaChaViewAfter
<1>9. Cipher!Position' = k /\ Cipher!Did' = Cipher!Did /\ k \notin Cipher!Did
      /\ Cipher!StateOfRegisters' = Cipher!Standard!Matrix(k)
  BY <1>1, <1>2, <1>4, <1>5, <1>7, <1>8 DEF k
<1>10. task.mode = "stream" /\ rounds = 0
  BY <1>1 DEF ChaChaInv, OnlyChaCha, Cipher!ChaChaText
<1>11. ~ Cipher!Standard!IsAes
  BY ChaChaFacts DEF ChaChaInv
<1>12. Cipher!Standard!Begin(k)
  BY <1>1, <1>7, <1>8, <1>9, <1>10, <1>11 DEF Cipher!Standard!Begin
<1>13. k \in DOMAIN text
  BY <1>2 DEF ChaChaInv
<1>. QED  BY <1>6, <1>12, <1>13

(* A ROUND of the registers is a double round of the matrix.               *)
LEMMA ChaChaAdvances ==
  ASSUME OnlyChaCha, ChaChaInv, Cipher!RoundChaCha20
  PROVE  ChaChaInv' /\ Cipher!Standard!Advance
<1>1. /\ place = "rounds" /\ rounds < 10 /\ rounds' = rounds + 1
      /\ regs' = Cipher!ChaCha!ROUND(regs)
      /\ UNCHANGED <<task, phase, place, eKey, turn, prev, text, iv, over, passed, rest, valCtr, saved, orig>>
  BY DEF Cipher!RoundChaCha20, Cipher!Round
<1>2. regs = [j \in 0 .. 15 |-> regs[j]]
  BY <1>1 DEF ChaChaInv
<1>3. Listed16(regs') = Cipher!Standard!Stream!ChaChaDouble(Listed16(regs))
  BY <1>1, <1>2, ChaChaRound, Zenon
<1>4. regs' = [j \in 0 .. 15 |-> regs'[j]]
  <2>1. regs' = FirstMixed(FirstMixed(regs, 0, 4), 1, 4)
    BY <1>1, <1>2, RoundMixes, Zenon
  <2>2. \A v : FirstMixed(v, 1, 4) = [j \in 0 .. 15 |-> FirstMixed(v, 1, 4)[j]]
    BY DEF FirstMixed
  <2>. QED  BY <2>1, <2>2, Zenon
<1>5. ChaChaInv'
  <2>1. /\ place = "rounds" /\ rounds < 10 /\ rounds' = rounds + 1
        /\ UNCHANGED <<task, phase, place, eKey, text, iv, over, passed, rest, valCtr>>
    BY <1>1
  <2>2. rounds \in 0 .. 10
    BY Zenon DEF ChaChaInv
  <2>3. rounds' \in 0 .. 10
    BY ONLY <2>1, <2>2
  <2>. QED  BY <2>1, <2>3, <1>4, Zenon DEF ChaChaInv
<1>6. /\ Cipher!RoundKeyBytes = << >> /\ ~ Cipher!Back /\ Cipher!Did = 1 .. over + passed - rest
      /\ Cipher!Position = over + passed - rest + 1
      /\ Cipher!StateOfRegisters = Listed16(regs)
  BY <1>1, ChaChaView
<1>7. /\ Cipher!RoundKeyBytes' = << >> /\ ~ Cipher!Back' /\ Cipher!Did' = 1 .. over' + passed' - rest'
      /\ Cipher!Position' = over' + passed' - rest' + 1
      /\ Cipher!StateOfRegisters' = Listed16(regs')
  BY <1>1, <1>5, ChaChaViewAfter
<1>8. Cipher!Position # 0
  BY <1>6 DEF ChaChaInv
<1>9. /\ ~ Cipher!Standard!IsAes /\ Cipher!Standard!Rounds = 10 /\ task.cipher = "chacha20"
  BY ChaChaFacts DEF ChaChaInv, Cipher!ChaChaText
<1>10. Cipher!Standard!Round(rounds', Listed16(regs)) = Cipher!Standard!Stream!ChaChaDouble(Listed16(regs))
  BY <1>9 DEF Cipher!Standard!Round
<1>11. Cipher!Standard!Advance
  BY <1>1, <1>3, <1>6, <1>7, <1>8, <1>9, <1>10 DEF Cipher!Standard!Advance
<1>. QED  BY <1>5, <1>11

(* What becomes of a block is the sum of the matrices in little endian.    *)
LEMMA ChaChaEnds ==
  ASSUME OnlyChaCha, ChaChaInv, Cipher!EndChaCha20
  PROVE  ChaChaInv' /\ Cipher!Standard!End
<1>. DEFINE k == over + passed - rest + 1
            c == ChaChaCount(task.counter, k - 1)
            s == Cipher!ChaCha!Start(eKey, Cipher!WordsLE(task.iv), c)
            z == Cipher!ChaCha!AddStart(regs, eKey, Cipher!WordsLE(task.iv), c)
            m == Cipher!Standard!Matrix(k)
            block == Cipher!ChaCha!XOR(task.host, text[k], z)
<1>1. /\ place = "rounds" /\ rounds = 10 /\ place' = "loop" /\ rounds' = 0
      /\ text' = [text EXCEPT ![Cipher!Position] =
                    Cipher!ChaCha!XOR(task.host, text[Cipher!Position],
                      Cipher!ChaCha!AddStart(regs, eKey, Cipher!WordsLE(task.iv), valCtr))]
      /\ rest' = rest - 1
      /\ valCtr' = Cipher!ChaCha!Add(valCtr, {0})
      /\ UNCHANGED <<task, phase, eKey, iv, over, passed, orig>>
  BY DEF Cipher!EndChaCha20, Cipher!End, Cipher!Write
<1>2. /\ Cipher!RoundKeyBytes = << >> /\ ~ Cipher!Back /\ Cipher!Did = 1 .. over + passed - rest
      /\ Cipher!Position = k
      /\ Cipher!StateOfRegisters = Listed16(regs)
  BY <1>1, ChaChaView
<1>3. /\ k \in Nat \ {0} /\ k - 1 = over + passed - rest /\ k \in 1 .. Len(text)
      /\ rest > 0 /\ rest - 1 \in Nat /\ over + passed - (rest - 1) = k
  BY <1>1 DEF ChaChaInv
<1>. HIDE DEF k
<1>4. valCtr = c
  BY <1>1, <1>3 DEF ChaChaInv
<1>5. s = [j \in 0 .. 15 |-> s[j]] /\ Listed16(s) = m
  BY <1>3, ChaChaMatrixOf, Zenon
<1>6. /\ task.host \in E!Hosts /\ task.mode = "stream" /\ task.counter \in SUBSET (0 .. 31)
  BY DEF ChaChaInv, OnlyChaCha, Cipher!ChaChaText, Cipher!ChaCha!Hosts, E!Hosts
<1>7. text[k] \in Seq(Byte) /\ Len(text[k]) <= 64
  <2>1. text \in Seq(Seq(Byte)) /\ \A j \in 1 .. Len(text) : Len(text[j]) <= 64
    BY Zenon DEF ChaChaInv
  <2>2. k \in 1 .. Len(text)
    BY <1>3
  <2>. QED  BY ONLY <2>1, <2>2
<1>8. /\ Listed16(z) = Cipher!Standard!Stream!AddWords(Listed16(regs), Listed16(s))
      /\ \A j \in 0 .. 15 : z[j] \in SUBSET (0 .. 31)
  BY ChaChaAdded, Zenon
<1>9. block = Cipher!Standard!Aes!XorBytes(text[k], Cipher!Standard!Stream!LittleEndian(Listed16(z)))
  <2>. HIDE DEF z
  <2>. QED  BY <1>6, <1>7, <1>8, ChaChaXored, Zenon
<1>10. text' = [text EXCEPT ![k] = block]
  BY <1>1, <1>2, <1>4, Zenon
<1>11. ~ Cipher!Standard!IsAes /\ Cipher!Standard!Rounds = 10
  BY ChaChaFacts DEF ChaChaInv
<1>12. block = Cipher!Standard!Output(k, Listed16(regs))
  <2>. HIDE DEF block, z, s, m
  <2>1. Listed16(z) = Cipher!Standard!Stream!AddWords(Listed16(regs), m)
    BY <1>5, <1>8
  <2>. QED  BY <1>6, <1>9, <1>11, <2>1, Zenon DEF Cipher!Standard!Output, m
<1>. HIDE DEF block, c, s, z, m
<1>13. block \in Seq(Byte) /\ Len(block) = Len(text[k])
  <2>. DEFINE l == Cipher!Standard!Stream!LittleEndian(Listed16(z))
  <2>1. block = [q \in 1 .. Len(text[k]) |-> Cipher!Standard!Aes!Byte!Xor(text[k][q], l[q])]
    <3>1. DOMAIN text[k] = 1 .. Len(text[k])
      BY <1>7
    <3>. QED  BY <1>9, <3>1, Zenon DEF Cipher!Standard!Aes!XorBytes
  <2>2. ASSUME NEW q \in 1 .. Len(text[k])
        PROVE  Cipher!Standard!Aes!Byte!Xor(text[k][q], l[q]) \in Byte
    <3>1. q \in 1 .. 64
      BY <1>7, Len(text[k]) \in Nat
    <3>2. l[q] \subseteq 0 .. 7
      BY <3>1 DEF Cipher!Standard!Stream!LittleEndian
    <3>3. text[k][q] \subseteq 0 .. 7
      BY <1>7 DEF Byte
    <3>. QED  BY <3>2, <3>3 DEF Cipher!Standard!Aes!Byte!Xor, Byte
  <2>. HIDE DEF l
  <2>. QED  BY <1>7, <2>1, <2>2
<1>14. /\ text' \in Seq(Seq(Byte)) /\ Len(text') = Len(text)
       /\ \A j \in 1 .. Len(text') : Len(text'[j]) <= 64
  <2>1. text \in Seq(Seq(Byte)) /\ \A j \in 1 .. Len(text) : Len(text[j]) <= 64
    BY DEF ChaChaInv
  <2>. QED  BY <2>1, <1>3, <1>7, <1>10, <1>13
<1>15. valCtr' = ChaChaCount(task.counter, k)
  <2>1. Cipher!ChaCha!Add(c, {0}) = ChaChaCount(task.counter, (k - 1) + 1)
    BY <1>3, <1>6, ChaChaCounts, k - 1 \in Nat DEF c
  <2>. QED  BY <1>1, <1>4, <2>1, <1>3, (k - 1) + 1 = k
<1>16. ChaChaInv'
  <2>1. /\ place' = "loop" /\ rounds' = 0 /\ rest' = rest - 1
        /\ UNCHANGED <<task, phase, eKey, iv, over, passed>>
    BY <1>1
  <2>2. over' + passed' - rest' = k /\ rest' \in Nat /\ rest' <= passed'
    BY <1>3, <2>1 DEF ChaChaInv
  <2>. QED  BY <2>1, <2>2, <1>14, <1>15 DEF ChaChaInv
<1>17. /\ Cipher!RoundKeyBytes' = << >> /\ Cipher!Did' = 1 .. k
       /\ Cipher!StateOfRegisters' = << >>
  BY <1>1, <1>3, <1>16, ChaChaViewAfter
<1>18. Cipher!Did' = Cipher!Did \cup {k}
  BY <1>2, <1>3, <1>17
<1>19. Cipher!Standard!End
  BY <1>1, <1>2, <1>3, <1>10, <1>11, <1>12, <1>17, <1>18 DEF Cipher!Standard!End
<1>. QED  BY <1>16, <1>19

(* The whole text is done before the turn.                                 *)
LEMMA ChaChaTurns ==
  ASSUME OnlyChaCha, ChaChaInv, Cipher!Turn
  PROVE  ChaChaInv' /\ Cipher!Standard!Turn
<1>1. /\ place = "caller" /\ over = Len(text) /\ phase = 1 /\ phase' = 2 /\ orig' = text
      /\ over' = 0 /\ iv' = Cipher!InitialIv
      /\ UNCHANGED <<task, place, eKey, text, passed, rest, rounds>>
  BY DEF Cipher!Turn
<1>2. Cipher!InitialIv = task.counter /\ task.counter \in SUBSET (0 .. 31)
  BY ChaChaFacts DEF ChaChaInv, OnlyChaCha, Cipher!ChaChaText
<1>3. iv' = ChaChaCount(task.counter, 0)
  BY <1>1, <1>2, ChaChaCounts, 0 \in Nat, Zenon
<1>4. passed = 0 /\ rest = 0
  BY <1>1 DEF ChaChaInv
<1>5. ChaChaInv'
  BY <1>1, <1>3, <1>4 DEF ChaChaInv
<1>6. /\ Cipher!RoundKeyBytes = << >> /\ Cipher!Did = 1 .. over + passed - rest
      /\ Cipher!StateOfRegisters = << >>
  BY <1>1, ChaChaView
<1>7. /\ Cipher!RoundKeyBytes' = << >> /\ Cipher!Did' = 1 .. over' + passed' - rest'
      /\ Cipher!StateOfRegisters' = << >>
  BY <1>1, <1>5, ChaChaViewAfter
<1>8. Cipher!Did = DOMAIN text /\ Cipher!Did' = {}
  BY <1>1, <1>4, <1>6, <1>7 DEF ChaChaInv
<1>9. Cipher!Standard!Turn
  BY <1>1, <1>6, <1>7, <1>8 DEF Cipher!Standard!Turn
<1>. QED  BY <1>5, <1>9

(* What does not change anything.                                          *)
LEMMA ChaChaIdle ==
  ASSUME OnlyChaCha, ChaChaInv, UNCHANGED Cipher!vars
  PROVE  ChaChaInv' /\ ChaChaStutters
<1>1. UNCHANGED <<task, phase, place, eKey, text, iv, over, passed, rest, valCtr, regs, rounds, orig>>
  BY DEF Cipher!vars
<1>2. ChaChaInv'
  BY <1>1 DEF ChaChaInv
<1>3. /\ Cipher!RoundKeyBytes = << >> /\ Cipher!Did = 1 .. over + passed - rest
      /\ Cipher!StateOfRegisters = IF place = "rounds" THEN Listed16(regs) ELSE << >>
      /\ Cipher!Position = over + passed - rest + 1 /\ ~ Cipher!Back
  BY ChaChaView
<1>4. /\ Cipher!RoundKeyBytes' = << >> /\ Cipher!Did' = 1 .. over' + passed' - rest'
      /\ Cipher!StateOfRegisters' = IF place' = "rounds" THEN Listed16(regs') ELSE << >>
      /\ Cipher!Position' = over' + passed' - rest' + 1 /\ ~ Cipher!Back'
  BY <1>2, ChaChaViewAfter
<1>5. Cipher!StateOfRegisters' = Cipher!StateOfRegisters
  BY <1>1, <1>3, <1>4
<1>. QED  BY <1>1, <1>2, <1>3, <1>4, <1>5 DEF ChaChaStutters, Cipher!Standard!vars

(* Every step of the code is a step of the standard or none.               *)
LEMMA ChaChaSteps ==
  ASSUME OnlyChaCha, ChaChaInv, [Cipher!Next]_(Cipher!vars)
  PROVE  ChaChaInv' /\ [Cipher!Standard!Next]_(Cipher!Standard!vars)
<1>1. CASE Cipher!Next
  <2>1. CASE \E n \in 0 .. Len(text) : Cipher!Call(n)
    BY <2>1, ChaChaCalled DEF ChaChaStutters
  <2>2. CASE Cipher!BeginChaCha20
    BY <2>2, ChaChaBegins DEF Cipher!Standard!Next
  <2>3. CASE Cipher!RoundChaCha20
    BY <2>3, ChaChaAdvances DEF Cipher!Standard!Next
  <2>4. CASE Cipher!EndChaCha20
    BY <2>4, ChaChaEnds DEF Cipher!Standard!Next
  <2>5. CASE Cipher!Return
    BY <2>5, ChaChaReturned DEF ChaChaStutters
  <2>6. CASE Cipher!Turn
    BY <2>6, ChaChaTurns DEF Cipher!Standard!Next
  <2>. QED  BY <1>1, <2>1, <2>2, <2>3, <2>4, <2>5, <2>6, ChaChaNext
<1>2. CASE UNCHANGED Cipher!vars
  BY <1>2, ChaChaIdle DEF ChaChaStutters
<1>. QED  BY <1>1, <1>2

(* The texts of ChaCha20 go through the rounds of the standard.            *)
THEOREM ChaChaImplemented ==
  ASSUME OnlyChaCha
  PROVE  Cipher!Spec => Cipher!ImplementsCipher
<1>1. Cipher!Init => ChaChaInv /\ Cipher!Standard!Init
  BY ChaChaBegun
<1>2. ChaChaInv /\ [Cipher!Next]_(Cipher!vars) => ChaChaInv' /\ [Cipher!Standard!Next]_(Cipher!Standard!vars)
  BY ChaChaSteps
<1>. QED  BY <1>1, <1>2, PTL DEF Cipher!Spec, Cipher!ImplementsCipher, Cipher!Standard!Spec

(* Ten double rounds, and n of them step by step.                          *)
TenDoubles(m) ==
  LET d(s) == Cipher!Standard!Stream!ChaChaDouble(s) IN d(d(d(d(d(d(d(d(d(d(m))))))))))

Doubles(m, n, s) ==
  \E f : /\ f[0] = m /\ f[n] = s
         /\ \A j \in 0 .. n - 1 : f[j + 1] = Cipher!Standard!Stream!ChaChaDouble(f[j])

(* The key stream of block k, and what block k of the text is under it.    *)
KeyStream(k) ==
  Cipher!Standard!Stream!LittleEndian(
    Cipher!Standard!Stream!AddWords(TenDoubles(Cipher!Standard!Matrix(k)), Cipher!Standard!Matrix(k)))
Covered(k) == Cipher!Standard!Aes!XorBytes(task.text[k], KeyStream(k))

(* On the way there the blocks that are done are under the key stream, on  *)
(* the way back those that are not.                                        *)
CoverInv ==
  /\ place = "rounds" =>
       Doubles(Cipher!Standard!Matrix(over + passed - rest + 1), rounds, Listed16(regs))
  /\ \A k \in 1 .. Len(text) :
       text[k] = IF (k <= over + passed - rest) = (phase = 1) THEN Covered(k) ELSE task.text[k]

(* No doubles.                                                             *)
LEMMA NoDoubles ==
  ASSUME NEW m
  PROVE  Doubles(m, 0, m)
<1>. DEFINE f == [j \in 0 .. 0 |-> m]
<1>1. f[0] = m /\ \A j \in 0 .. 0 - 1 : f[j + 1] = Cipher!Standard!Stream!ChaChaDouble(f[j])
  OBVIOUS
<1>. QED  BY <1>1 DEF Doubles

(* One more.                                                               *)
LEMMA MoreDoubles ==
  ASSUME NEW m, NEW n \in Nat, NEW s, Doubles(m, n, s)
  PROVE  Doubles(m, n + 1, Cipher!Standard!Stream!ChaChaDouble(s))
<1>. DEFINE D(u) == Cipher!Standard!Stream!ChaChaDouble(u)
<1>1. PICK f : /\ f[0] = m /\ f[n] = s /\ \A j \in 0 .. n - 1 : f[j + 1] = D(f[j])
  BY DEF Doubles
<1>. DEFINE g == [j \in 0 .. n + 1 |-> IF j = n + 1 THEN D(s) ELSE f[j]]
<1>. HIDE DEF D
<1>2. g[0] = m /\ g[n + 1] = D(s)
  BY <1>1
<1>3. ASSUME NEW j \in 0 .. (n + 1) - 1 PROVE g[j + 1] = D(g[j])
  <2>1. g[j] = f[j]
    OBVIOUS
  <2>2. CASE j = n
    BY <1>1, <2>1, <2>2
  <2>3. CASE j # n
    BY <1>1, <2>1, <2>3
  <2>. QED  BY <2>2, <2>3
<1>. HIDE DEF g
<1>. QED  BY <1>2, <1>3, Zenon DEF Doubles, D

(* Ten of them are all.                                                    *)
LEMMA AllDoubles ==
  ASSUME NEW m, NEW s, Doubles(m, 10, s)
  PROVE  s = TenDoubles(m)
<1>. DEFINE D(u) == Cipher!Standard!Stream!ChaChaDouble(u)
<1>1. PICK f : /\ f[0] = m /\ f[10] = s /\ \A j \in 0 .. 10 - 1 : f[j + 1] = D(f[j])
  BY DEF Doubles
<1>2. TenDoubles(m) = D(D(D(D(D(D(D(D(D(D(m))))))))))
  BY DEF TenDoubles
<1>. HIDE DEF D
<1>3. /\ f[1] = D(f[0]) /\ f[2] = D(f[1]) /\ f[3] = D(f[2]) /\ f[4] = D(f[3]) /\ f[5] = D(f[4])
      /\ f[6] = D(f[5]) /\ f[7] = D(f[6]) /\ f[8] = D(f[7]) /\ f[9] = D(f[8]) /\ f[10] = D(f[9])
  <2>1. \A j \in 0 .. 9 : f[j + 1] = D(f[j])
    BY <1>1
  <2>2. /\ 0 + 1 = 1 /\ 1 + 1 = 2 /\ 2 + 1 = 3 /\ 3 + 1 = 4 /\ 4 + 1 = 5 /\ 5 + 1 = 6
        /\ 6 + 1 = 7 /\ 7 + 1 = 8 /\ 8 + 1 = 9 /\ 9 + 1 = 10
    OBVIOUS
  <2>. QED  BY <2>1, <2>2
<1>. QED  BY ONLY <1>1, <1>2, <1>3

(* To xor twice with the same is to do nothing.                            *)
LEMMA XoredTwice ==
  ASSUME NEW block \in Seq(Byte), NEW l
  PROVE  Cipher!Standard!Aes!XorBytes(Cipher!Standard!Aes!XorBytes(block, l), l) = block
<1>. DEFINE X(u, v) == (u \ v) \cup (v \ u)
<1>1. \A u, v : Cipher!Standard!Aes!Byte!Xor(u, v) = X(u, v)
  BY Zenon DEF Cipher!Standard!Aes!Byte!Xor
<1>2. \A u, v : X(X(u, v), v) = u
  OBVIOUS
<1>. HIDE DEF X
<1>3. \A a : Cipher!Standard!Aes!XorBytes(a, l) = [q \in DOMAIN a |-> X(a[q], l[q])]
  BY <1>1, Zenon DEF Cipher!Standard!Aes!XorBytes
<1>. DEFINE once == [q \in DOMAIN block |-> X(block[q], l[q])]
<1>4. DOMAIN once = DOMAIN block /\ \A q \in DOMAIN block : X(once[q], l[q]) = block[q]
  BY <1>2
<1>5. Cipher!Standard!Aes!XorBytes(block, l) = once
  BY <1>3
<1>. HIDE DEF once
<1>6. Cipher!Standard!Aes!XorBytes(once, l) = [q \in DOMAIN block |-> block[q]]
  BY <1>3, <1>4
<1>7. block = [q \in DOMAIN block |-> block[q]]
  OBVIOUS
<1>. QED  BY <1>5, <1>6, <1>7

(* The matrices and the covered blocks are those of the text.              *)
LEMMA CoverKept ==
  ASSUME UNCHANGED task
  PROVE  \A k : Cipher!Standard!Matrix(k)' = Cipher!Standard!Matrix(k) /\ Covered(k)' = Covered(k)
<1>. TAKE k
<1>1. Cipher!Standard!Matrix(k)' = Cipher!Standard!Matrix(k)
  BY DEF Cipher!Standard!Matrix
<1>2. KeyStream(k)' = KeyStream(k)
  BY <1>1 DEF KeyStream
<1>. QED  BY <1>1, <1>2 DEF Covered

(* At the start nothing is covered.                                        *)
LEMMA CoverBegun ==
  ASSUME OnlyChaCha, Cipher!Init
  PROVE  CoverInv
<1>1. phase = 1 /\ place # "rounds" /\ text = task.text /\ over = 0 /\ passed = 0 /\ rest = 0
  <2>1. task.cipher = "chacha20"
    BY DEF Cipher!Init, OnlyChaCha, Cipher!ChaChaText
  <2>. QED  BY <2>1 DEF Cipher!Init
<1>2. \A k \in 1 .. Len(text) : ~ (k <= over + passed - rest)
  BY <1>1
<1>. QED  BY <1>1, <1>2 DEF CoverInv

(* A step that leaves the text and what is done of it alone.               *)
LEMMA CoverStays ==
  ASSUME CoverInv, UNCHANGED <<task, phase, text>>, place' # "rounds",
         over' + passed' - rest' = over + passed - rest
  PROVE  CoverInv'
<1>1. \A k : Covered(k)' = Covered(k)
  BY CoverKept
<1>. QED  BY <1>1 DEF CoverInv

(* A call covers nothing.                                                  *)
LEMMA CoverCalled ==
  ASSUME OnlyChaCha, ChaChaInv, CoverInv, NEW n \in 0 .. Len(text), Cipher!Call(n)
  PROVE  CoverInv'
<1>1. /\ place = "caller" /\ passed' = n /\ rest' = n /\ place' = "loop"
      /\ UNCHANGED <<task, phase, text, over>>
  BY DEF Cipher!Call
<1>2. over' + passed' - rest' = over + passed - rest
  BY <1>1 DEF ChaChaInv
<1>. QED  BY <1>1, <1>2, CoverStays

(* Nor does its end.                                                       *)
LEMMA CoverReturned ==
  ASSUME OnlyChaCha, ChaChaInv, CoverInv, Cipher!Return
  PROVE  CoverInv'
<1>1. /\ rest = 0 /\ over' = over + passed /\ passed' = 0 /\ place' = "caller"
      /\ UNCHANGED <<task, phase, text, rest>>
  BY DEF Cipher!Return
<1>2. over' + passed' - rest' = over + passed - rest
  BY <1>1 DEF ChaChaInv
<1>. QED  BY <1>1, <1>2, CoverStays

(* A block begins with no doubles of its matrix.                           *)
LEMMA CoverBegins ==
  ASSUME OnlyChaCha, ChaChaInv, CoverInv, Cipher!BeginChaCha20
  PROVE  CoverInv'
<1>. DEFINE k == over + passed - rest + 1
            s == Cipher!ChaCha!Start(eKey, Cipher!WordsLE(task.iv), ChaChaCount(task.counter, k - 1))
<1>1. /\ place = "loop" /\ rest > 0 /\ rounds' = 0
      /\ regs' = Cipher!ChaCha!Start(eKey, Cipher!WordsLE(task.iv), valCtr)
      /\ UNCHANGED <<task, phase, text, over, passed, rest>>
  BY DEF Cipher!BeginChaCha20, Cipher!Begin
<1>2. k \in Nat \ {0} /\ k - 1 = over + passed - rest /\ k = over' + passed' - rest' + 1
  BY <1>1 DEF ChaChaInv
<1>3. valCtr = ChaChaCount(task.counter, over + passed - rest)
  BY <1>1 DEF ChaChaInv
<1>. HIDE DEF k
<1>4. Listed16(s) = Cipher!Standard!Matrix(k)
  BY <1>2, ChaChaMatrixOf, Zenon
<1>5. regs' = s
  BY <1>1, <1>2, <1>3, Zenon
<1>. HIDE DEF s
<1>6. \A j : Cipher!Standard!Matrix(j)' = Cipher!Standard!Matrix(j) /\ Covered(j)' = Covered(j)
  BY <1>1, CoverKept
<1>7. Doubles(Cipher!Standard!Matrix(k), 0, Listed16(regs'))
  BY <1>4, <1>5, NoDoubles
<1>8. Doubles(Cipher!Standard!Matrix(k), rounds', Listed16(regs'))
  BY <1>1, <1>7, Zenon
<1>. QED  BY <1>1, <1>6, <1>8 DEF CoverInv, k

(* A round is one more double.                                             *)
LEMMA CoverAdvances ==
  ASSUME OnlyChaCha, ChaChaInv, CoverInv, Cipher!RoundChaCha20
  PROVE  CoverInv'
<1>1. /\ place = "rounds" /\ rounds' = rounds + 1
      /\ regs' = Cipher!ChaCha!ROUND(regs)
      /\ UNCHANGED <<task, phase, place, text, over, passed, rest>>
  BY DEF Cipher!RoundChaCha20, Cipher!Round
<1>2. regs = [j \in 0 .. 15 |-> regs[j]] /\ rounds \in 0 .. 10
  BY <1>1, Zenon DEF ChaChaInv
<1>3. Listed16(regs') = Cipher!Standard!Stream!ChaChaDouble(Listed16(regs))
  BY <1>1, <1>2, ChaChaRound, Zenon
<1>. DEFINE m == Cipher!Standard!Matrix(over + passed - rest + 1)
<1>4. Doubles(m, rounds, Listed16(regs))
  BY <1>1 DEF CoverInv
<1>5. rounds \in Nat
  BY <1>2
<1>6. Doubles(m, rounds + 1, Cipher!Standard!Stream!ChaChaDouble(Listed16(regs)))
  <2>. HIDE DEF m
  <2>. QED  BY <1>4, <1>5, MoreDoubles, Zenon
<1>7. Doubles(m, rounds', Listed16(regs'))
  <2>. HIDE DEF m
  <2>. QED  BY <1>1, <1>3, <1>6, Zenon
<1>8. \A j : Cipher!Standard!Matrix(j)' = Cipher!Standard!Matrix(j) /\ Covered(j)' = Covered(j)
  BY <1>1, CoverKept
<1>. QED  BY <1>1, <1>7, <1>8 DEF CoverInv

(* What is done to a block under the key stream is done away with by the   *)
(* key stream.                                                             *)
LEMMA CoverEnds ==
  ASSUME OnlyChaCha, ChaChaInv, CoverInv, Cipher!EndChaCha20
  PROVE  CoverInv'
<1>. DEFINE k == over + passed - rest + 1
            m == Cipher!Standard!Matrix(k)
<1>1. /\ place = "rounds" /\ rounds = 10 /\ place' = "loop" /\ rest' = rest - 1
      /\ UNCHANGED <<task, phase, over, passed>>
  BY DEF Cipher!EndChaCha20, Cipher!End, Cipher!Write
<1>2. /\ Cipher!Position = k /\ ~ Cipher!Back /\ Cipher!StateOfRegisters = Listed16(regs)
  BY <1>1, ChaChaView
<1>3. /\ k \in 1 .. Len(text) /\ over + passed - rest = k - 1 /\ over' + passed' - rest' = k
  BY <1>1 DEF ChaChaInv
<1>4. text' = [text EXCEPT ![k] = Cipher!Standard!Output(k, Listed16(regs))]
  <2>1. Cipher!Standard!End
    BY ChaChaEnds
  <2>2. (IF place # "rounds" THEN 0 ELSE IF Cipher!Back THEN Cipher!Cursor ELSE Cipher!Position) = k
    BY <1>1, <1>2
  <2>. HIDE DEF k
  <2>. QED  BY <1>2, <2>1, <2>2 DEF Cipher!Standard!End
<1>5. Doubles(m, 10, Listed16(regs))
  BY <1>1 DEF CoverInv
<1>. HIDE DEF k
<1>6. Listed16(regs) = TenDoubles(m)
  <2>. HIDE DEF m
  <2>. QED  BY <1>5, AllDoubles, Zenon
<1>7. Cipher!Standard!Output(k, Listed16(regs)) = Cipher!Standard!Aes!XorBytes(text[k], KeyStream(k))
  <2>1. task.mode = "stream" /\ ~ Cipher!Standard!IsAes
    BY ChaChaFacts DEF ChaChaInv, OnlyChaCha, Cipher!ChaChaText
  <2>. QED  BY <1>6, <2>1, Zenon DEF Cipher!Standard!Output, KeyStream, m
<1>8. text[k] = IF phase = 1 THEN task.text[k] ELSE Covered(k)
  BY <1>3 DEF CoverInv
<1>9. text'[k] = IF phase = 1 THEN Covered(k) ELSE task.text[k]
  <2>1. text'[k] = Cipher!Standard!Aes!XorBytes(text[k], KeyStream(k))
    BY <1>3, <1>4, <1>7 DEF ChaChaInv
  <2>2. task.text[k] \in Seq(Byte)
    <3>1. task.text \in Seq(Seq(Byte)) /\ Len(text) = Len(task.text)
      BY Zenon DEF ChaChaInv, OnlyChaCha, Cipher!ChaChaText, Cipher!Byte, Byte
    <3>2. k \in 1 .. Len(task.text)
      BY <1>3, <3>1
    <3>. QED  BY ONLY <3>1, <3>2
  <2>3. Cipher!Standard!Aes!XorBytes(Covered(k), KeyStream(k)) = task.text[k]
    BY <2>2, XoredTwice, Zenon DEF Covered
  <2>. QED  BY <1>8, <2>1, <2>3, Zenon DEF Covered
<1>10. /\ Len(text') = Len(text) /\ \A j \in 1 .. Len(text) : j # k => text'[j] = text[j]
  BY <1>3, <1>4 DEF ChaChaInv
<1>11. \A j : Covered(j)' = Covered(j)
  BY <1>1, CoverKept
<1>12. ASSUME NEW j \in 1 .. Len(text')
       PROVE  text'[j] = IF (j <= over' + passed' - rest') = (phase' = 1) THEN Covered(j)' ELSE task'.text[j]
  <2>1. CASE j = k
    BY <1>1, <1>3, <1>9, <1>11, <2>1
  <2>2. CASE j # k
    <3>1. text'[j] = text[j] /\ j \in 1 .. Len(text)
      BY <1>10, <2>2
    <3>2. (j <= k) <=> (j <= k - 1)
      BY <1>3, <2>2, <3>1
    <3>3. text[j] = IF (j <= k - 1) = (phase = 1) THEN Covered(j) ELSE task.text[j]
      BY <1>3, <3>1 DEF CoverInv
    <3>. QED  BY <1>1, <1>3, <1>11, <3>1, <3>2, <3>3
  <2>. QED  BY <2>1, <2>2
<1>. QED  BY <1>1, <1>12 DEF CoverInv

(* At the turn every block is covered.                                     *)
LEMMA CoverTurns ==
  ASSUME OnlyChaCha, ChaChaInv, CoverInv, Cipher!Turn
  PROVE  CoverInv'
<1>1. /\ place = "caller" /\ over = Len(text) /\ phase = 1 /\ phase' = 2 /\ over' = 0
      /\ UNCHANGED <<task, place, text, passed, rest>>
  BY DEF Cipher!Turn
<1>2. passed = 0 /\ rest = 0
  BY <1>1 DEF ChaChaInv
<1>3. \A j : Covered(j)' = Covered(j)
  BY <1>1, CoverKept
<1>4. \A k \in 1 .. Len(text) : k <= over + passed - rest /\ ~ (k <= over' + passed' - rest')
  BY <1>1, <1>2
<1>. QED  BY <1>1, <1>3, <1>4 DEF CoverInv

(* All steps.                                                              *)
LEMMA CoverSteps ==
  ASSUME OnlyChaCha, ChaChaInv, CoverInv, [Cipher!Next]_(Cipher!vars)
  PROVE  CoverInv'
<1>1. CASE Cipher!Next
  BY <1>1, ChaChaNext, CoverCalled, CoverBegins, CoverAdvances, CoverEnds, CoverReturned, CoverTurns
<1>2. CASE UNCHANGED Cipher!vars
  <2>1. UNCHANGED <<task, phase, place, text, over, passed, rest, regs, rounds>>
    BY <1>2 DEF Cipher!vars
  <2>2. \A j : Cipher!Standard!Matrix(j)' = Cipher!Standard!Matrix(j) /\ Covered(j)' = Covered(j)
    BY <2>1, CoverKept
  <2>. QED  BY <2>1, <2>2 DEF CoverInv
<1>. QED  BY <1>1, <1>2

(* When the way back is over no block is under the key stream.             *)
LEMMA Uncovered ==
  ASSUME OnlyChaCha, ChaChaInv, CoverInv
  PROVE  Cipher!Recovered
<1>. SUFFICES ASSUME phase = 2, place = "caller", over = Len(text)
     PROVE  text = task.text
  BY DEF Cipher!Recovered
<1>1. passed = 0 /\ rest = 0
  BY DEF ChaChaInv
<1>2. \A k \in 1 .. Len(text) : text[k] = task.text[k]
  BY <1>1 DEF CoverInv
<1>3. text \in Seq(Seq(Byte)) /\ task.text \in Seq(Seq(Byte)) /\ Len(text) = Len(task.text)
  BY Zenon DEF ChaChaInv, OnlyChaCha, Cipher!ChaChaText, Cipher!Byte, Byte
<1>4. /\ text = [k \in 1 .. Len(text) |-> text[k]]
      /\ task.text = [k \in 1 .. Len(text) |-> task.text[k]]
  <2>1. ASSUME NEW s \in Seq(Seq(Byte)) PROVE s = [k \in 1 .. Len(s) |-> s[k]]
    OBVIOUS
  <2>. QED  BY <1>3, <2>1, Zenon
<1>5. [k \in 1 .. Len(text) |-> text[k]] = [k \in 1 .. Len(text) |-> task.text[k]]
  BY <1>2
<1>. QED  BY ONLY <1>4, <1>5

(* What ChaCha20 encrypted is recovered by encrypting it again.            *)
THEOREM ChaChaRecovered ==
  ASSUME OnlyChaCha
  PROVE  Cipher!Spec => []Cipher!Recovered
<1>1. Cipher!Init => ChaChaInv /\ CoverInv
  BY ChaChaBegun, CoverBegun
<1>2. ChaChaInv /\ CoverInv /\ [Cipher!Next]_(Cipher!vars) => ChaChaInv' /\ CoverInv'
  BY ChaChaSteps, CoverSteps
<1>3. ChaChaInv /\ CoverInv => Cipher!Recovered
  BY Uncovered
<1>. QED  BY <1>1, <1>2, <1>3, PTL DEF Cipher!Spec
=============================================================================
