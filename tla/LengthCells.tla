---------------------------- MODULE LengthCells ----------------------------
(***************************************************************************)
(* The length of a message in two words, as sha512 and blake2b keep it     *)
(* (HashMemory128): the cells uLength and lLength hold the upper and the   *)
(* lower half of a number of bytes.  sha512 adds to them in Haskell after  *)
(* it has compressed (updateLength128), blake2b in the loop of its C code  *)
(* before it compresses a block.  What the last block receives is written: *)
(* the length in bits for sha512, in bytes for blake2b.                    *)
(*                                                                         *)
(* A word has Limb values, a multiple of 8, so that the shifts by 3 and by *)
(* 61 bits are products and quotients.                                     *)
(***************************************************************************)
EXTENDS Naturals

CONSTANTS
  Eighth,       \* an eighth of the number of values of a word
  BlockLength,  \* bytes in a block
  Unwritten

ASSUME LengthCellsAssumption ==
  /\ Eighth \in Nat \ {0}
  /\ BlockLength \in 1 .. 8 * Eighth - 1
  /\ Unwritten \notin (0 .. 8 * Eighth - 1) \X (0 .. 8 * Eighth - 1)

VARIABLES
  primitive, \* which code keeps the cells: "sha512" or "blake2b"
  uLength, lLength,
  written,   \* the length that the last block received
  total      \* history: bytes that were counted, modulo the capacity

cellsVars == <<primitive, uLength, lLength, written, total>>

Limb == 8 * Eighth
Word == 0 .. Limb - 1
maxBound == Limb - 1
Capacity == Limb * Limb

(* Byte counts are of type Int: what it holds of positive numbers.         *)
PositiveInt == 0 .. (4 * Eighth) - 1

(* Broken variant: the largest word carries.                               *)
CarriesEarly(l, n) == l >= maxBound - n

Carries(l, n) == l > maxBound - n

Upper(u, l, n) == IF Carries(l, n) THEN (u + 1) % Limb ELSE u
Lower(l, n) == (l + n) % Limb

Count(n) ==
  /\ uLength' = Upper(uLength, lLength, n)
  /\ lLength' = Lower(lLength, n)
  /\ total' = (total + n) % Capacity

CellsInit ==
  /\ primitive \in {"sha512", "blake2b"}
  /\ uLength = 0 /\ lLength = 0
  /\ written = Unwritten
  /\ total = 0

(* The hash memory is initialised for the next message.                    *)
Initialise ==
  /\ uLength' = 0 /\ lLength' = 0
  /\ written' = Unwritten
  /\ total' = 0
  /\ UNCHANGED primitive

(* processBlocks of sha512.                                                *)
UpdateLength128(n) ==
  /\ primitive = "sha512"
  /\ written = Unwritten
  /\ n % BlockLength = 0
  /\ Count(n)
  /\ UNCHANGED <<primitive, written>>

(* One round of the loop of blake2b.                                       *)
CompressBlock ==
  /\ primitive = "blake2b"
  /\ written = Unwritten
  /\ Count(BlockLength)
  /\ UNCHANGED <<primitive, written>>

(* Broken variants: no bits go up from the lower word, or none fall off.    *)
UpperBitsAlone(u, l) == (8 * u) % Limb
UpperBitsKept(u, l) == (8 * u) + (l \div Eighth)

UpperBits(u, l) == ((8 * u) % Limb) + (l \div Eighth)
LowerBits(l) == (8 * l) % Limb

(* process512Last: the bytes of the tail are counted first.  The blocks of *)
(* the padded tail that are counted later change cells that are not read   *)
(* again before they are initialised.                                      *)
LastOfSha512(n) ==
  /\ primitive = "sha512"
  /\ written = Unwritten
  /\ Count(n)
  /\ written' = <<UpperBits(uLength', lLength'), LowerBits(lLength')>>
  /\ UNCHANGED primitive

(* The last block of blake2b counts into words of its own, not the cells.  *)
LastOfBlake2b(n) ==
  /\ primitive = "blake2b"
  /\ written = Unwritten
  /\ n <= BlockLength
  /\ written' = <<Upper(uLength, lLength, n), Lower(lLength, n)>>
  /\ total' = (total + n) % Capacity
  /\ UNCHANGED <<primitive, uLength, lLength>>

CellsNext ==
  \/ Initialise
  \/ CompressBlock
  \/ \E n \in PositiveInt : UpdateLength128(n) \/ LastOfSha512(n) \/ LastOfBlake2b(n)

CellsSpec == CellsInit /\ [][CellsNext]_cellsVars

-----------------------------------------------------------------------------
(* The type invariant.                                                     *)
TypeOK ==
  /\ primitive \in {"sha512", "blake2b"}
  /\ uLength \in Word /\ lLength \in Word
  /\ written \in {Unwritten} \cup (Word \X Word)
  /\ total \in 0 .. Capacity - 1

Number(u, l) == u * Limb + l

(* While the message is open the two words are the number of its bytes,    *)
(* also when the lower one has overflowed, any number of times.            *)
CellsCount == written = Unwritten => Number(uLength, lLength) = total

(* What the last block receives is the length of the whole message: eight  *)
(* times its bytes for sha512, the bytes for blake2b, in both words.       *)
LengthWritten ==
  written # Unwritten =>
    Number(written[1], written[2]) =
      IF primitive = "sha512" THEN (8 * total) % Capacity ELSE total
=============================================================================
