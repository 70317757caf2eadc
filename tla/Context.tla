------------------------------ MODULE Context ------------------------------
(***************************************************************************)
(* The context of raaz (indef/buffer/Context.hs): a block-aligned buffer   *)
(* and the count of the valid bytes at its front.  The two modes in which  *)
(* it is used have the operations below in common: HashContext consumes    *)
(* the bytes of the outside world block by block (hashing mode),           *)
(* PRGenerator generates blocks and gives their bytes out (csprg mode).    *)
(*                                                                         *)
(* Position i of buf is the byte at startPtr + i - 1.                      *)
(***************************************************************************)
EXTENDS LengthUnits, Sequences

CONSTANT NBlocks  \* the n of Cxt n

\* The type Cxt admits n = 0, for which unsafeContinue never ends and no
\* byte can ever be generated; no instance in the library uses it.
ASSUME ContextAssumption == NBlocks \in Nat \ {0}

VARIABLES
  buf,          \* the contents of cxtBuf
  avail         \* the contents of cxtAvailableBytes

cxtSize == inBytes(NBlocks)

Positions == 1 .. cxtSize

setBytes(n) == avail' = n

unsafeSetCxtEmpty == setBytes(0)

(* Broken variant: the size of the memory is taken for the size in use.    *)
UnsafeSetCxtOverfull == setBytes(cxtSize + inBytes(1))

unsafeSetCxtFull == setBytes(cxtSize)

(* The valid bytes, in order.                                              *)
Available == [i \in 1 .. avail |-> buf[i]]

(* The buffer after bytes are copied to startPtr + offset.                 *)
Overwrite(offset, bytes) ==
  [i \in Positions |->
     IF i \in offset + 1 .. offset + Len(bytes) THEN bytes[i - offset] ELSE buf[i]]

(* How much of a demand the context can satisfy, and what it keeps: bytes  *)
(* are given out from the end of the available region.                     *)
Satisfy(req) == IF req <= avail THEN req ELSE avail

Leftover(req) == avail - Satisfy(req)

(* Broken variant: the bytes come from the front.                          *)
GivenFromFront(req) == [i \in 1 .. Satisfy(req) |-> buf[i]]

GivenTo(req) == [i \in 1 .. Satisfy(req) |-> buf[Leftover(req) + i]]

(* Broken variants: nothing is wiped, or a byte that stays is wiped too.   *)
WipedNothing(req, wiped) == buf
WipedTooMuch(req, wiped) ==
  [i \in Positions |-> IF i >= Leftover(req) /\ i <= avail THEN wiped ELSE buf[i]]

(* The buffer after the bytes that were given out are wiped.               *)
WipedBy(req, wiped) ==
  [i \in Positions |-> IF i > Leftover(req) /\ i <= avail THEN wiped ELSE buf[i]]
=============================================================================
