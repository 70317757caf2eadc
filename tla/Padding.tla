------------------------------ MODULE Padding ------------------------------
(***************************************************************************)
(* The padding that the hash implementations of raaz append to the last    *)
(* bytes of a message: the writes built in Raaz.Core.Transfer by           *)
(* glueWrites, and the two paddings built from them, padding256/padding512 *)
(* (Sha2) and blake2Pad (Blake2).                                          *)
(*                                                                         *)
(* A byte is an integer: the bytes of a message are positive identities,   *)
(* and the bytes that the padding writes are the symbols below.            *)
(***************************************************************************)
EXTENDS LengthUnits, Sequences

CONSTANTS
  Scheme,       \* which processLast the implementation has: "blake2" or "sha2"
  LengthBytes   \* size of the length footer of the sha2 padding

\* Sha256 has 64 byte blocks and an 8 byte length, Sha512 128 and 16.
ASSUME PaddingAssumption ==
  /\ Scheme \in {"blake2", "sha2"}
  /\ LengthBytes \in Nat
  /\ LengthBytes < BlockBytes

ZeroByte == 0
OneBit == -1          \* the byte 0x80
LengthField == -2     \* a byte of the length footer
Lost == -3            \* a byte that a failing source left in the buffer
PadSymbol == {ZeroByte, OneBit, LengthField}

(* What glueWrites puts between a header and a footer of these lengths.    *)
Glue(lhead, lfoot) ==
  LET lexceed == (lhead + lfoot) % BlockBytes
  IN  IF lexceed > 0 THEN BlockBytes - lexceed ELSE 0

Blake2PaddedSize(n) ==
  IF n = 0 THEN BlockBytes ELSE n + Glue(n, 0)

Sha2PaddedSize(n) ==
  n + 1 + Glue(n + 1, LengthBytes) + LengthBytes

(* transferSize of the padding when n bytes are in the buffer.             *)
PaddedSize(n) ==
  IF Scheme = "blake2" THEN Blake2PaddedSize(n) ELSE Sha2PaddedSize(n)

(* The byte which the padding writes at position i > n.                    *)
PadByte(n, i) ==
  IF Scheme = "blake2" THEN ZeroByte
  ELSE IF i = n + 1 THEN OneBit
  ELSE IF i > PaddedSize(n) - LengthBytes THEN LengthField
  ELSE ZeroByte

(* The bytes at the front of the buffer, followed by their padding.        *)
Pad(bytes) ==
  [i \in 1 .. PaddedSize(Len(bytes)) |->
     IF i <= Len(bytes) THEN bytes[i] ELSE PadByte(Len(bytes), i)]

(***************************************************************************)
(* The reference: what a hash of a whole message is, namely the blocks of  *)
(* the padded message compressed in order, and the message length that     *)
(* enters the computation (in the length footer of sha2, in the counter of *)
(* the final compression of blake2).  That the digest is a function of     *)
(* these two, and that it is the function of the standard, is assumed of   *)
(* the compression functions, which are outside the model.                 *)
(***************************************************************************)
DigestOf(message) == [data |-> Pad(message), length |-> Len(message)]
=============================================================================
