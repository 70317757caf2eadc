------------------------- MODULE HashContextProofs -------------------------
(***************************************************************************)
(* Proofs about the context in hashing mode, for every block size, number  *)
(* of blocks, padding scheme and sequence of sources.                      *)
(*                                                                         *)
(* The invariant has four parts besides the type invariant:                *)
(*   Control    what each position of pc knows of the buffer, the source   *)
(*              and the read between hFillBuf and hIsEOF;                  *)
(*   WholeBlocks  the compressor consumed whole blocks, all counted, even  *)
(*              if reads were torn;                                        *)
(*   Streamed   what the compressor consumed followed by the valid front   *)
(*              of the buffer is the message so far, unless a read was     *)
(*              torn in this session;                                      *)
(*   HasRead    a read put the next bytes of the source behind them.       *)
(***************************************************************************)
EXTENDS HashContext, PaddingProofs

\* Facts about sizes and the operations on the buffer.

(* The context holds whole blocks, at least one.                           *)
LEMMA CxtSizeFacts ==
  /\ cxtSize \in Nat \ {0}
  /\ cxtSize % BlockBytes = 0
  /\ Positions = 1 .. cxtSize
<1>1. cxtSize \in Nat \ {0}
  BY LengthAssumption, ContextAssumption DEF cxtSize, inBytes
<1>2. cxtSize % BlockBytes = 0
  BY BlocksHaveNoRem, ContextAssumption DEF cxtSize, inBytes
<1>. QED  BY <1>1, <1>2 DEF Positions

(* What the source supplies.                                               *)
LEMMA IncomingType ==
  ASSUME drawn \in Nat, NEW n \in Nat
  PROVE  /\ Incoming(n) \in Seq(Byte)
         /\ Len(Incoming(n)) = n
         /\ \A i \in 1 .. n : Incoming(n)[i] = drawn + i
BY DEF Incoming, Byte

(* Copying bytes into the buffer.                                          *)
LEMMA OverwriteType ==
  ASSUME buf \in [Positions -> Byte],
         NEW offset \in Nat, NEW bytes \in Seq(Byte),
         offset + Len(bytes) <= cxtSize
  PROVE  /\ Overwrite(offset, bytes) \in [Positions -> Byte]
         /\ \A i \in 1 .. offset : Overwrite(offset, bytes)[i] = buf[i]
         /\ \A i \in 1 .. Len(bytes) : Overwrite(offset, bytes)[offset + i] = bytes[i]
<1>1. \A i \in Positions : Overwrite(offset, bytes)[i] \in Byte
  <2>. TAKE i \in Positions
  <2>1. CASE i \in offset + 1 .. offset + Len(bytes)
    <3>1. i - offset \in 1 .. Len(bytes)
      BY <2>1
    <3>2. bytes[i - offset] \in Byte
      BY <3>1
    <3>. QED  BY <2>1, <3>2 DEF Overwrite
  <2>2. CASE ~(i \in offset + 1 .. offset + Len(bytes))
    BY <2>2 DEF Overwrite
  <2>. QED  BY <2>1, <2>2
<1>2. Overwrite(offset, bytes) \in [Positions -> Byte]
  BY <1>1 DEF Overwrite
<1>3. \A i \in 1 .. offset : Overwrite(offset, bytes)[i] = buf[i]
  <2>. TAKE i \in 1 .. offset
  <2>1. i \in Positions /\ ~(i \in offset + 1 .. offset + Len(bytes))
    BY CxtSizeFacts
  <2>. QED  BY <2>1 DEF Overwrite
<1>4. \A i \in 1 .. Len(bytes) : Overwrite(offset, bytes)[offset + i] = bytes[i]
  <2>. TAKE i \in 1 .. Len(bytes)
  <2>1. /\ offset + i \in Positions
        /\ offset + i \in offset + 1 .. offset + Len(bytes)
        /\ (offset + i) - offset = i
    BY CxtSizeFacts
  <2>. QED  BY <2>1 DEF Overwrite
<1>. QED  BY <1>2, <1>3, <1>4

(* Copying bytes of the source into the buffer.                            *)
LEMMA CopyIncoming ==
  ASSUME buf \in [Positions -> Byte], drawn \in Nat,
         NEW offset \in Nat, NEW n \in Nat, offset + n <= cxtSize
  PROVE  /\ Overwrite(offset, Incoming(n)) \in [Positions -> Byte]
         /\ \A i \in 1 .. offset : Overwrite(offset, Incoming(n))[i] = buf[i]
         /\ \A i \in 1 .. n : Overwrite(offset, Incoming(n))[offset + i] = drawn + i
<1>. DEFINE bytes == Incoming(n)
<1>1. bytes \in Seq(Byte) /\ Len(bytes) = n /\ \A i \in 1 .. n : bytes[i] = drawn + i
  BY IncomingType
<1>. HIDE DEF bytes
<1>2. /\ Overwrite(offset, bytes) \in [Positions -> Byte]
      /\ \A i \in 1 .. offset : Overwrite(offset, bytes)[i] = buf[i]
      /\ \A i \in 1 .. Len(bytes) : Overwrite(offset, bytes)[offset + i] = bytes[i]
  BY <1>1, OverwriteType
<1>3. \A i \in 1 .. n : Overwrite(offset, bytes)[offset + i] = drawn + i
  BY <1>1, <1>2
<1>. QED  BY <1>2, <1>3 DEF bytes

(* The buffer is a sequence of cxtSize bytes, and its front one of avail.  *)
LEMMA BufferSeq ==
  ASSUME buf \in [Positions -> Byte], avail \in 0 .. cxtSize
  PROVE  /\ buf \in Seq(Byte) /\ Len(buf) = cxtSize
         /\ Available \in Seq(Byte) /\ Len(Available) = avail
         /\ \A i \in 1 .. avail : Available[i] = buf[i]
<1>1. cxtSize \in Nat /\ Positions = 1 .. cxtSize
  BY CxtSizeFacts
<1>2. buf \in Seq(Byte) /\ Len(buf) = cxtSize
  BY <1>1
<1>3. avail \in Nat /\ \A i \in 1 .. avail : buf[i] \in Byte
  BY <1>1
<1>. QED  BY <1>2, <1>3 DEF Available

(* Feeding a full buffer to the compressor.                                *)
LEMMA ProcessBufferType ==
  ASSUME internals \in Record, NEW bytes \in [Positions -> Byte]
  PROVE  /\ ProcessBuffer(bytes) \in Record
         /\ ProcessBuffer(bytes).length = internals.length + cxtSize
         /\ ProcessBuffer(bytes).data = internals.data \o bytes
         /\ Len(ProcessBuffer(bytes).data) = Len(internals.data) + cxtSize
         /\ \A i \in 1 .. Len(internals.data) :
               ProcessBuffer(bytes).data[i] = internals.data[i]
         /\ \A i \in 1 .. cxtSize :
               ProcessBuffer(bytes).data[Len(internals.data) + i] = bytes[i]
<1>1. cxtSize \in Nat /\ Positions = 1 .. cxtSize
  BY CxtSizeFacts
<1>2. bytes \in Seq(Byte) /\ Len(bytes) = cxtSize
  BY <1>1
<1>3. internals.data \in Seq(Byte) /\ internals.length \in Nat
  BY DEF Record
<1>4. /\ internals.data \o bytes \in Seq(Byte)
      /\ Len(internals.data \o bytes) = Len(internals.data) + cxtSize
      /\ \A i \in 1 .. Len(internals.data) + cxtSize : (internals.data \o bytes)[i] =
            IF i <= Len(internals.data) THEN internals.data[i]
            ELSE bytes[i - Len(internals.data)]
  BY <1>2, <1>3, ConcatProperties
<1>5. Len(internals.data) \in Nat
  BY <1>3
<1>6. \A i \in 1 .. Len(internals.data) : (internals.data \o bytes)[i] = internals.data[i]
  BY <1>1, <1>4, <1>5
<1>7. \A i \in 1 .. cxtSize : (internals.data \o bytes)[Len(internals.data) + i] = bytes[i]
  BY <1>1, <1>4, <1>5
<1>. QED  BY <1>1, <1>2, <1>3, <1>4, <1>6, <1>7 DEF ProcessBuffer, Record

-----------------------------------------------------------------------------
\* Type correctness.

(* What the steps of an update know of the buffer and the source.  Only    *)
(* where a file grew is the source not at its end after a short read.      *)
Control ==
  /\ pc \notin {"filled", "continued"} => count = 0
  /\ pc \in {"filled", "continued"} /\ count < vacant => left = 0 \/ grown > 0
  /\ pc = "consume" => avail = cxtSize /\ left > 0
  /\ pc = "continue" => avail = 0 /\ left > 0
  /\ pc = "continued" => avail = 0 /\ count > 0
  /\ torn => grown > 0

(* hFillBuf puts the next bytes of the source behind what is available.    *)
LEMMA ReadFacts ==
  ASSUME TypeOK, Control, FillBuffer \/ ContinueBuffer
  PROVE  /\ count' \in 0 .. vacant /\ left' \in Nat /\ left = left' + count'
         /\ count' < vacant => left' = 0
         /\ vacant > 0 /\ left > 0 => count' > 0
         /\ buf' \in [Positions -> Byte]
         /\ \A i \in 1 .. avail : buf'[i] = buf[i]
         /\ \A i \in 1 .. count' : buf'[avail + i] = drawn + i
<1>1. /\ cxtSize \in Nat \ {0} /\ avail \in Nat /\ vacant \in Nat
      /\ avail + vacant = cxtSize /\ left \in Nat /\ drawn \in Nat
      /\ buf \in [Positions -> Byte]
  BY CxtSizeFacts DEF TypeOK, vacant
<1>2. /\ count' = IF left <= vacant THEN left ELSE vacant
      /\ buf' = Overwrite(avail, Incoming(count'))
      /\ left' = left - count'
  <2>1. CASE FillBuffer
    BY <2>1 DEF FillBuffer, Read
  <2>2. CASE ContinueBuffer
    <3>1. avail = 0 /\ vacant = cxtSize
      BY <1>1, <2>2 DEF ContinueBuffer, Control
    <3>. QED  BY <2>2, <3>1 DEF ContinueBuffer, Read
  <2>. QED  BY <2>1, <2>2
<1>n. /\ avail \in Nat /\ vacant \in Nat /\ left \in Nat
      /\ avail + vacant = cxtSize
  BY <1>1
<1>. DEFINE n == IF left <= vacant THEN left ELSE vacant
<1>c. count' = n
  BY <1>2
<1>3. /\ n \in Nat /\ n <= vacant /\ n <= left
      /\ (n < vacant => n = left)
      /\ (vacant > 0 /\ left > 0 => n > 0)
  BY <1>n
<1>. HIDE DEF n
<1>4. avail + n <= cxtSize
  <2>1. avail + n <= avail + vacant
    BY <1>n, <1>3
  <2>. QED  BY <1>n, <2>1
<1>5. /\ Overwrite(avail, Incoming(n)) \in [Positions -> Byte]
      /\ \A i \in 1 .. avail : Overwrite(avail, Incoming(n))[i] = buf[i]
      /\ \A i \in 1 .. n : Overwrite(avail, Incoming(n))[avail + i] = drawn + i
  <2>1. n \in Nat
    BY <1>3
  <2>. QED  BY <1>1, <1>4, <2>1, CopyIncoming
<1>6. buf' = Overwrite(avail, Incoming(n)) /\ left' = left - n
  BY <1>2, <1>c
<1>7. left' \in Nat /\ left = left' + n /\ (n < vacant => left' = 0)
  <2>1. left - n \in Nat /\ left = (left - n) + n /\ (n < vacant => left - n = 0)
    BY <1>n, <1>3
  <2>. QED  BY <1>6, <2>1
<1>8. n \in 0 .. vacant
  BY <1>n, <1>3
<1>. QED  BY <1>c, <1>3, <1>5, <1>6, <1>7, <1>8

(* A failing source writes into the vacant part of the buffer.             *)
LEMMA FailureFacts ==
  ASSUME TypeOK, SourceFails
  PROVE  buf' \in [Positions -> Byte] /\ \A i \in 1 .. avail : buf'[i] = buf[i]
<1>1. PICK n \in 0 .. (cxtSize - avail) :
         buf' = Overwrite(avail, [i \in 1 .. n |-> Lost])
  BY DEF SourceFails, vacant
<1>. DEFINE junk == [i \in 1 .. n |-> Lost]
<1>2. cxtSize \in Nat /\ avail \in Nat /\ buf \in [Positions -> Byte]
  BY CxtSizeFacts DEF TypeOK
<1>3. junk \in Seq(Byte) /\ Len(junk) = n
  BY <1>2 DEF Byte
<1>. HIDE DEF junk
<1>4. avail + Len(junk) <= cxtSize
  BY <1>2, <1>3
<1>5. /\ Overwrite(avail, junk) \in [Positions -> Byte]
      /\ \A i \in 1 .. avail : Overwrite(avail, junk)[i] = buf[i]
  BY <1>2, <1>3, <1>4, OverwriteType
<1>. QED  BY <1>1, <1>5 DEF junk

(* What finaliseDigest extracts, and the state it leaves.                  *)
LEMMA FinaliseTypes ==
  ASSUME TypeOK
  PROVE  /\ Extracted(Available) \in Record
         /\ [data   |-> internals.data \o Pad(Available),
             length |-> LengthAfterLast(avail)] \in Record
         /\ [i \in Positions |->
               IF i > avail /\ i <= PaddedSize(avail) THEN PadByte(avail, i)
               ELSE buf[i]] \in [Positions -> Byte]
<1>1. /\ Available \in Seq(Byte) /\ Len(Available) = avail /\ avail \in Nat
      /\ internals.data \in Seq(Byte) /\ internals.length \in Nat
  BY BufferSeq, CxtSizeFacts DEF TypeOK, Record
<1>2. Pad(Available) \in Seq(Byte)
  <2>1. PadSymbol \subseteq Byte
    BY DEF Byte
  <2>. QED  BY <1>1, <2>1, PadType
<1>3. internals.data \o Pad(Available) \in Seq(Byte)
  BY <1>1, <1>2
<1>4. LengthAfterLast(avail) \in Nat
  <2>1. PaddedSize(avail) \in Nat
    BY <1>1, PaddedSizeBounds
  <2>2. CASE Scheme = "sha2"
    BY <1>1, <2>1, <2>2 DEF LengthAfterLast
  <2>3. CASE Scheme # "sha2"
    <3>. DEFINE k == atMost(PaddedSize(avail))
    <3>1. k \in Nat \ {0}
      BY <1>1, <2>3, Blake2PaddedSizeAtLeastBlock, PaddingAssumption
         DEF PaddedSize
    <3>. HIDE DEF k
    <3>2. (k - 1) * BlockBytes \in Nat
      BY <3>1, LengthAssumption
    <3>3. LengthAfterLast(avail) = internals.length + (k - 1) * BlockBytes
      BY <2>3 DEF LengthAfterLast, inBytes, k
    <3>. QED  BY <1>1, <3>2, <3>3
  <2>. QED  BY <2>2, <2>3
<1>5. \A i \in Positions : PadByte(avail, i) \in Byte
  BY DEF PadByte, Byte, PadSymbol
<1>. QED  BY <1>1, <1>3, <1>4, <1>5 DEF Extracted, Record, TypeOK

(* Every step of the context keeps its state well typed.                   *)
LEMMA TypeStep ==
  ASSUME TypeOK, Control, [Next]_vars
  PROVE  TypeOK' /\ Control'
<1>. USE DEF TypeOK, Control, cxtVars, sourceVars, sessionVars, vars
<1>1. /\ cxtSize \in Nat \ {0} /\ avail \in Nat /\ vacant \in Nat
      /\ avail + vacant = cxtSize /\ vacant' = cxtSize - avail'
      /\ left \in Nat /\ drawn \in Nat /\ base \in Nat /\ count \in Nat
      /\ grown \in Nat /\ count <= vacant
  BY CxtSizeFacts, HashContextAssumption DEF vacant, cxtSize
<1>2. Fresh \in Record
  BY DEF Fresh, Record
<1>3. CASE StartDigest
  <2>1. internals' \in Record /\ avail' = 0
    BY <1>2, <1>3 DEF StartDigest, unsafeSetCxtEmpty, setBytes
  <2>2. /\ pc' = "idle" /\ count = 0 /\ UNCHANGED <<buf, left, count, drawn, grown>>
        /\ base' = drawn
    BY <1>3 DEF StartDigest
  <2>3. failed' = FALSE /\ torn' = FALSE /\ digest' = NoDigest
    BY <1>3, Zenon DEF StartDigest
  <2>4. avail' \in 0 .. cxtSize /\ count' \in 0 .. vacant' /\ base' \in 0 .. drawn'
    BY <1>1, <2>1, <2>2
  <2>5. TypeOK'
    BY <2>1, <2>2, <2>3, <2>4
  <2>6. Control'
    BY <2>2, <2>3
  <2>. QED  BY <2>5, <2>6
<1>4. ASSUME NEW size \in 0 .. MaxSource, UpdateDigest(size)
      PROVE  TypeOK' /\ Control'
  <2>1. /\ left' = size /\ size \in Nat /\ pc = "idle" /\ pc' = "fill" /\ vacant' = vacant
        /\ UNCHANGED <<buf, avail, internals, count, drawn, grown, base, failed, digest, torn>>
    BY <1>4, HashContextAssumption DEF UpdateDigest, vacant, cxtSize
  <2>. QED  BY <1>1, <2>1
<1>5. CASE FillBuffer
  <2>1. /\ count' \in 0 .. vacant /\ left' \in Nat /\ (count' < vacant => left' = 0)
        /\ buf' \in [Positions -> Byte]
    BY <1>5, ReadFacts
  <2>2. /\ UNCHANGED <<avail, internals, drawn, grown, base, failed, digest, torn>>
        /\ pc' = "filled" /\ vacant' = vacant
    BY <1>5 DEF FillBuffer, Read, vacant, cxtSize
  <2>. QED  BY <1>1, <2>1, <2>2
<1>6. CASE FillExhausted
  <2>1. /\ avail' = avail + count /\ drawn' = drawn + count /\ count' = 0 /\ pc' = "idle"
        /\ UNCHANGED <<buf, internals, left, grown, base, failed, digest, torn>>
    BY <1>6 DEF FillExhausted, Delivered, setBytes
  <2>2. avail' \in 0 .. cxtSize /\ vacant' \in Nat /\ drawn' \in Nat /\ base' \in 0 .. drawn'
    BY <1>1, <2>1
  <2>. QED  BY <1>1, <2>1, <2>2
<1>7. CASE FillRemaining
  <2>1. /\ avail' = cxtSize /\ drawn' = drawn + count /\ count' = 0 /\ pc' = "consume"
        /\ torn' = (torn \/ count < vacant) /\ left # 0 /\ pc = "filled"
        /\ UNCHANGED <<buf, internals, left, grown, base, failed, digest>>
    BY <1>7 DEF FillRemaining, Exhausted, Delivered, unsafeSetCxtFull, setBytes
  <2>2. avail' \in 0 .. cxtSize /\ vacant' = 0 /\ drawn' \in Nat /\ base' \in 0 .. drawn'
    BY <1>1, <2>1
  <2>3. torn' \in BOOLEAN /\ (torn' => grown' > 0)
    BY <1>1, <2>1
  <2>. QED  BY <1>1, <2>1, <2>2, <2>3
<1>8. CASE ConsumeBlocks
  <2>1. ProcessBuffer(buf) \in Record
    BY ProcessBufferType
  <2>2. avail' = 0 /\ count' = 0 /\ vacant' = cxtSize
    BY <1>1, <1>8 DEF ConsumeBlocks, unsafeSetCxtEmpty, setBytes
  <2>. QED  BY <1>1, <1>8, <2>1, <2>2 DEF ConsumeBlocks
<1>9. CASE ContinueBuffer
  <2>1. /\ count' \in 0 .. vacant /\ left' \in Nat /\ (count' < vacant => left' = 0)
        /\ buf' \in [Positions -> Byte]
        /\ vacant > 0 /\ left > 0 => count' > 0
    BY <1>9, ReadFacts
  <2>2. /\ UNCHANGED <<avail, internals, drawn, grown, base, failed, digest, torn>>
        /\ pc' = "continued" /\ vacant' = vacant /\ avail = 0 /\ left > 0
    BY <1>9 DEF ContinueBuffer, Read, vacant, cxtSize
  <2>. QED  BY <1>1, <2>1, <2>2
<1>10. CASE ContinueFilled
  <2>1. /\ drawn' = drawn + count /\ count' = 0 /\ pc' = "continue" /\ pc = "continued"
        /\ torn' = (torn \/ count < cxtSize) /\ left # 0 /\ internals' = ProcessBuffer(buf)
        /\ UNCHANGED <<buf, avail, left, grown, base, failed, digest>>
    BY <1>10 DEF ContinueFilled, Exhausted, Delivered
  <2>2. ProcessBuffer(buf) \in Record
    BY ProcessBufferType
  <2>3. vacant' = cxtSize /\ vacant = cxtSize /\ drawn' \in Nat /\ base' \in 0 .. drawn'
    BY <1>1, <2>1
  <2>4. torn' \in BOOLEAN /\ (torn' => grown' > 0)
    BY <1>1, <2>1, <2>3
  <2>. QED  BY <1>1, <2>1, <2>2, <2>3, <2>4
<1>11. CASE ContinueLastChunk
  <2>1. /\ avail' = count /\ drawn' = drawn + count /\ count' = 0 /\ pc' = "idle"
        /\ UNCHANGED <<buf, internals, left, grown, base, failed, digest, torn>>
    BY <1>11 DEF ContinueLastChunk, Delivered, setBytes
  <2>2. avail' \in 0 .. cxtSize /\ vacant' \in Nat /\ drawn' \in Nat /\ base' \in 0 .. drawn'
    BY <1>1, <2>1
  <2>. QED  BY <1>1, <2>1, <2>2
<1>12. CASE SourceFails
  <2>1. buf' \in [Positions -> Byte]
    BY <1>12, FailureFacts
  <2>2. left' = 0 /\ count' = 0 /\ pc' = "idle" /\ failed' = TRUE /\ vacant' = vacant
        /\ UNCHANGED <<avail, internals, drawn, grown, base, digest, torn>>
    BY <1>12 DEF SourceFails, vacant, cxtSize
  <2>. QED  BY <1>1, <2>1, <2>2
<1>13. CASE Grow
  <2>1. /\ left' = left + 1 /\ grown' = grown + 1 /\ grown < MaxGrowth /\ vacant' = vacant
        /\ UNCHANGED <<buf, avail, pc, internals, count, drawn, base, failed, digest, torn>>
    BY <1>13 DEF Grow, vacant, cxtSize
  <2>2. grown' \in 0 .. MaxGrowth /\ grown' > 0 /\ left' \in Nat /\ left' > 0
    BY <1>1, <2>1, HashContextAssumption
  <2>. QED  BY <1>1, <2>1, <2>2
<1>14. CASE FinaliseDigest
  <2>1. /\ pc = "idle" /\ pc' = "final" /\ vacant' = vacant
        /\ UNCHANGED <<avail, left, count, drawn, grown, base, failed, torn>>
    BY <1>14 DEF FinaliseDigest, vacant, cxtSize
  <2>2. digest' \in Record /\ internals' \in Record /\ buf' \in [Positions -> Byte]
    BY <1>14, FinaliseTypes DEF FinaliseDigest
  <2>. QED  BY <1>1, <2>1, <2>2
<1>15. CASE UNCHANGED vars
  <2>1. vacant' = vacant
    BY <1>15 DEF vacant, cxtSize
  <2>. QED  BY <1>15, <2>1
<1>. QED  BY <1>3, <1>4, <1>5, <1>6, <1>7, <1>8, <1>9, <1>10, <1>11, <1>12, <1>13,
             <1>14, <1>15 DEF Next, UpdateStep

(* The initial states are well typed.                                      *)
LEMMA TypeInit ==
  ASSUME Init
  PROVE  TypeOK /\ Control
<1>1. Fresh \in Record
  BY DEF Fresh, Record
<1>2. [i \in Positions |-> Lost] \in [Positions -> Byte]
  BY DEF Byte
<1>3. base \in 0 .. drawn /\ grown \in 0 .. MaxGrowth
  BY HashContextAssumption DEF Init
<1>4. count \in 0 .. vacant
  BY CxtSizeFacts DEF Init, vacant
<1>. QED  BY <1>1, <1>2, <1>3, <1>4 DEF Init, TypeOK, Control

(* The variables of the context keep their types: in particular the count  *)
(* of available bytes, and with it that of a read, never exceeds the       *)
(* buffer.                                                                 *)
THEOREM TypeCorrect == Spec => []TypeOK
<1>1. TypeOK /\ Control /\ [Next]_vars => TypeOK' /\ Control'
  BY TypeStep
<1>. QED  BY TypeInit, <1>1, PTL DEF Spec


-----------------------------------------------------------------------------
\* The invariant.

(* The compressor consumed whole blocks and counted their bytes.           *)
WholeBlocks ==
  InSession =>
    /\ Len(internals.data) % BlockBytes = 0
    /\ internals.length = Len(internals.data)

(* What was compressed and what the buffer holds, byte by byte.            *)
Streamed ==
  InSession /\ ~torn =>
    /\ Len(internals.data) + avail = drawn - base
    /\ \A i \in 1 .. Len(internals.data) : internals.data[i] = base + i
    /\ \A i \in 1 .. avail : buf[i] = base + Len(internals.data) + i

(* What was read, and is not yet accounted for.                            *)
HasRead ==
  pc \in {"filled", "continued"} =>
    \A i \in 1 .. count : buf[avail + i] = drawn + i

(* The streamed bytes, with their types.                                   *)
LEMMA StreamedFacts ==
  ASSUME TypeOK, Streamed, InSession, ~torn
  PROVE  /\ avail \in Nat /\ drawn \in Nat /\ base \in Nat /\ count \in Nat
         /\ Len(internals.data) \in Nat
         /\ Len(internals.data) + avail = drawn - base
         /\ \A i \in 1 .. Len(internals.data) : internals.data[i] = base + i
         /\ \A i \in 1 .. avail : buf[i] = base + Len(internals.data) + i
<1>1. avail \in Nat /\ drawn \in Nat /\ base \in Nat /\ count \in Nat
  BY CxtSizeFacts DEF TypeOK, vacant
<1>2. Len(internals.data) \in Nat
  BY DEF TypeOK, Record
<1>. QED  BY <1>1, <1>2, Zenon DEF Streamed

(* A read continues the message.                                           *)
LEMMA FillContinues ==
  ASSUME TypeOK, Streamed, HasRead, ~torn, pc \in {"filled", "continued"}
  PROVE  \A i \in 1 .. avail + count : buf[i] = base + Len(internals.data) + i
<1>. DEFINE k == Len(internals.data)
<1>1. /\ avail \in Nat /\ drawn \in Nat /\ base \in Nat /\ count \in Nat /\ k \in Nat
      /\ k + avail = drawn - base
      /\ \A i \in 1 .. avail : buf[i] = base + k + i
  <2>1. InSession
    BY DEF InSession
  <2>. QED  BY <2>1, StreamedFacts
<1>2. \A i \in 1 .. count : buf[avail + i] = drawn + i
  BY DEF HasRead
<1>. HIDE DEF k
<1>3. ASSUME NEW i \in 1 .. avail + count
      PROVE  buf[i] = base + k + i
  <2>1. CASE i <= avail
    BY <1>1, <2>1
  <2>2. CASE ~(i <= avail)
    <3>1. i - avail \in 1 .. count /\ i = avail + (i - avail)
      BY <1>1, <2>2
    <3>2. buf[i] = drawn + (i - avail)
      BY <1>2, <3>1
    <3>. QED  BY <1>1, <3>2
  <2>. QED  BY <2>1, <2>2
<1>. QED  BY <1>3 DEF k

(* Compressing a full buffer that continues the message.                   *)
LEMMA CompressContinues ==
  ASSUME TypeOK, Streamed, InSession, ~torn,
         \A i \in 1 .. cxtSize : buf[i] = base + Len(internals.data) + i
  PROVE  LET done == ProcessBuffer(buf) IN
         /\ Len(done.data) = Len(internals.data) + cxtSize
         /\ \A i \in 1 .. Len(done.data) : done.data[i] = base + i
<1>. DEFINE done == ProcessBuffer(buf)
            k == Len(internals.data)
<1>1. /\ base \in Nat /\ k \in Nat
      /\ \A i \in 1 .. k : internals.data[i] = base + i
      /\ \A i \in 1 .. cxtSize : buf[i] = base + k + i
  BY StreamedFacts
<1>2. cxtSize \in Nat
  BY CxtSizeFacts
<1>3. /\ Len(done.data) = k + cxtSize
      /\ \A i \in 1 .. k : done.data[i] = internals.data[i]
      /\ \A i \in 1 .. cxtSize : done.data[k + i] = buf[i]
  BY ProcessBufferType DEF TypeOK
<1>. HIDE DEF done, k
<1>4. ASSUME NEW i \in 1 .. k + cxtSize
      PROVE  done.data[i] = base + i
  <2>1. CASE i <= k
    BY <1>1, <1>2, <1>3, <2>1
  <2>2. CASE ~(i <= k)
    <3>1. i - k \in 1 .. cxtSize /\ i = k + (i - k)
      BY <1>1, <1>2, <2>2
    <3>. DEFINE j == i - k
    <3>2. done.data[k + j] = buf[j] /\ buf[j] = base + k + j
      BY <1>1, <1>3, <3>1
    <3>3. base + k + j = base + i
      BY <1>1, <1>2
    <3>. QED  BY <3>1, <3>2, <3>3
  <2>. QED  BY <2>1, <2>2
<1>. QED  BY <1>3, <1>4 DEF done, k

(* Only whole buffers are compressed, in torn sessions too.                *)
LEMMA WholeBlocksStep ==
  ASSUME TypeOK, WholeBlocks, [Next]_vars
  PROVE  WholeBlocks'
<1>1. CASE StartDigest
  <2>1. internals' = Fresh
    BY <1>1 DEF StartDigest
  <2>2. Len(Fresh.data) = 0 /\ Fresh.length = 0 /\ 0 % BlockBytes = 0
    BY LengthAssumption DEF Fresh
  <2>. QED  BY <2>1, <2>2 DEF WholeBlocks
<1>2. CASE ConsumeBlocks \/ ContinueFilled
  <2>. DEFINE k == Len(internals.data)
              done == ProcessBuffer(buf)
  <2>1. InSession /\ internals' = done
    BY <1>2 DEF ConsumeBlocks, ContinueFilled, InSession
  <2>2. k % BlockBytes = 0 /\ internals.length = k /\ k \in Nat
    BY <2>1 DEF WholeBlocks, TypeOK, Record
  <2>3. done.length = internals.length + cxtSize /\ Len(done.data) = k + cxtSize
    BY ProcessBufferType DEF TypeOK
  <2>. HIDE DEF k, done
  <2>4. (k + cxtSize) % BlockBytes = 0
    BY <2>2, CxtSizeFacts, RemAfterBlocks
  <2>5. done.length = Len(done.data) /\ Len(done.data) % BlockBytes = 0
    BY <2>2, <2>3, <2>4
  <2>. QED  BY <2>1, <2>5 DEF WholeBlocks
<1>3. CASE UNCHANGED internals /\ (InSession' => InSession)
  BY <1>3 DEF WholeBlocks
<1>4. CASE FinaliseDigest
  BY <1>4 DEF FinaliseDigest, WholeBlocks, InSession
<1>5. CASE \/ \E size \in 0 .. MaxSource : UpdateDigest(size)
           \/ FillBuffer \/ FillExhausted \/ FillRemaining
           \/ ContinueBuffer \/ ContinueLastChunk \/ SourceFails \/ Grow
           \/ UNCHANGED vars
  <2>1. UNCHANGED internals /\ (InSession' => InSession)
    BY <1>5 DEF UpdateDigest, FillBuffer, FillExhausted, FillRemaining, ContinueBuffer,
       ContinueLastChunk, Read, SourceFails, Grow, InSession, vars
  <2>. QED  BY <1>3, <2>1
<1>. QED  BY <1>1, <1>2, <1>4, <1>5 DEF Next, UpdateStep

(* A read puts the next bytes of the source behind what is available.      *)
LEMMA HasReadStep ==
  ASSUME TypeOK, Control, HasRead, [Next]_vars
  PROVE  HasRead'
<1>1. CASE FillBuffer \/ ContinueBuffer
  <2>1. avail' = avail /\ drawn' = drawn
    BY <1>1 DEF FillBuffer, ContinueBuffer, Read
  <2>2. \A i \in 1 .. count' : buf'[avail + i] = drawn + i
    BY <1>1, ReadFacts
  <2>. QED  BY <2>1, <2>2 DEF HasRead
<1>2. CASE Grow \/ UNCHANGED vars
  <2>1. UNCHANGED <<pc, count, buf, avail, drawn>>
    BY <1>2 DEF Grow, vars, cxtVars, sourceVars
  <2>. QED  BY <2>1 DEF HasRead
<1>3. ASSUME pc' \notin {"filled", "continued"}
      PROVE  HasRead'
  BY <1>3 DEF HasRead
<1>. QED  BY <1>1, <1>2, <1>3 DEF Next, UpdateStep, StartDigest, UpdateDigest,
          FillExhausted, FillRemaining, ConsumeBlocks, ContinueFilled,
          ContinueLastChunk, SourceFails, FinaliseDigest

(* The bytes that an update accounts for are those of its source, in order.*)
LEMMA StreamedUpdate ==
  ASSUME TypeOK, Control, Streamed, HasRead, UpdateStep
  PROVE  Streamed'
<1>. SUFFICES ASSUME ~torn'
              PROVE  Streamed'
  BY DEF Streamed
<1>. DEFINE k == Len(internals.data)
<1>1. InSession /\ ~torn
  <2>1. InSession
    BY DEF InSession, UpdateStep, FillBuffer, FillExhausted, FillRemaining, ConsumeBlocks,
       ContinueBuffer, ContinueFilled, ContinueLastChunk
  <2>2. CASE FillRemaining \/ ContinueFilled
    <3>1. ~torn
      BY <2>2, Zenon DEF FillRemaining, ContinueFilled
    <3>. QED  BY <2>1, <3>1
  <2>3. CASE FillBuffer \/ FillExhausted \/ ConsumeBlocks \/ ContinueBuffer \/ ContinueLastChunk
    <3>1. torn' = torn
      BY <2>3 DEF FillBuffer, FillExhausted, ConsumeBlocks, ContinueBuffer, ContinueLastChunk, Read
    <3>. QED  BY <2>1, <3>1
  <2>. QED  BY <2>2, <2>3 DEF UpdateStep
<1>2. /\ avail \in Nat /\ drawn \in Nat /\ base \in Nat /\ count \in Nat /\ k \in Nat
      /\ k + avail = drawn - base
      /\ \A i \in 1 .. k : internals.data[i] = base + i
      /\ \A i \in 1 .. avail : buf[i] = base + k + i
  BY <1>1, StreamedFacts
<1>3. cxtSize \in Nat /\ avail + vacant = cxtSize /\ count <= vacant /\ vacant \in Nat
  BY CxtSizeFacts DEF TypeOK, vacant
<1>4. pc \in {"filled", "continued"} => \A i \in 1 .. avail + count : buf[i] = base + k + i
  BY <1>1, FillContinues
<1>. HIDE DEF k
<1>5. k + (avail + count) = (drawn + count) - base
  <2>1. /\ avail \in Nat /\ drawn \in Nat /\ base \in Nat /\ count \in Nat /\ k \in Nat
        /\ k + avail = drawn - base
    BY <1>2
  <2>. QED  BY <2>1
<1>6. CASE FillBuffer \/ ContinueBuffer
  <2>1. UNCHANGED <<avail, internals, drawn, base>>
    BY <1>6 DEF FillBuffer, ContinueBuffer, Read, sessionVars
  <2>2. \A i \in 1 .. avail : buf'[i] = buf[i]
    BY <1>6, ReadFacts
  <2>. QED  BY <1>2, <2>1, <2>2 DEF Streamed, k
<1>7. CASE FillExhausted
  <2>1. /\ avail' = avail + count /\ drawn' = drawn + count /\ pc = "filled"
        /\ UNCHANGED <<buf, internals, base>>
    BY <1>7 DEF FillExhausted, Delivered, setBytes, sessionVars
  <2>. QED  BY <1>2, <1>4, <1>5, <2>1 DEF Streamed, k
<1>8. CASE FillRemaining
  <2>1. /\ avail' = cxtSize /\ drawn' = drawn + count /\ pc = "filled" /\ ~(count < vacant)
        /\ UNCHANGED <<buf, internals, base>>
    BY <1>8 DEF FillRemaining, Delivered, unsafeSetCxtFull, setBytes, sessionVars
  <2>2. cxtSize = avail + count
    BY <1>2, <1>3, <2>1
  <2>. QED  BY <1>2, <1>4, <1>5, <2>1, <2>2 DEF Streamed, k
<1>9. CASE ConsumeBlocks
  <2>1. /\ internals' = ProcessBuffer(buf) /\ avail' = 0 /\ avail = cxtSize
        /\ UNCHANGED <<drawn, base>>
    BY <1>9 DEF ConsumeBlocks, unsafeSetCxtEmpty, setBytes, sourceVars, sessionVars, Control
  <2>2. /\ Len(internals'.data) = k + cxtSize
        /\ \A i \in 1 .. Len(internals'.data) : internals'.data[i] = base + i
    BY <1>1, <1>2, <2>1, CompressContinues DEF k
  <2>3. Len(internals'.data) + avail' = drawn - base
    BY <1>2, <1>3, <2>1, <2>2
  <2>. QED  BY <2>1, <2>2, <2>3 DEF Streamed
<1>10. CASE ContinueFilled
  <2>1. /\ internals' = ProcessBuffer(buf) /\ drawn' = drawn + count
        /\ avail' = 0 /\ avail = 0 /\ pc = "continued" /\ ~(count < cxtSize)
        /\ UNCHANGED base
    BY <1>10 DEF ContinueFilled, Delivered, cxtVars, sessionVars, Control
  <2>2. avail + count = cxtSize
    BY <1>2, <1>3, <2>1
  <2>3. \A i \in 1 .. cxtSize : buf[i] = base + k + i
    BY <1>4, <2>1, <2>2
  <2>4. /\ Len(internals'.data) = k + cxtSize
        /\ \A i \in 1 .. Len(internals'.data) : internals'.data[i] = base + i
    BY <1>1, <2>1, <2>3, CompressContinues DEF k
  <2>5. k + cxtSize = (drawn + count) - base
    BY <1>5, <2>2
  <2>6. Len(internals'.data) + avail' = drawn' - base
    BY <1>2, <1>3, <2>1, <2>4, <2>5
  <2>. QED  BY <2>1, <2>4, <2>6 DEF Streamed
<1>11. CASE ContinueLastChunk
  <2>1. /\ avail' = count /\ avail = 0 /\ drawn' = drawn + count /\ pc = "continued"
        /\ UNCHANGED <<buf, internals, base>>
    BY <1>11 DEF ContinueLastChunk, Delivered, setBytes, sessionVars, Control
  <2>2. avail + count = count
    BY <1>2, <2>1
  <2>. QED  BY <1>2, <1>4, <1>5, <2>1, <2>2 DEF Streamed, k
<1>. QED  BY <1>6, <1>7, <1>8, <1>9, <1>10, <1>11 DEF UpdateStep

(* The other steps leave the message alone, or begin a new one.            *)
LEMMA StreamedStep ==
  ASSUME TypeOK, Control, Streamed, HasRead, [Next]_vars
  PROVE  Streamed'
<1>1. CASE StartDigest
  <2>1. /\ internals' = Fresh /\ avail' = 0
        /\ base' = drawn /\ drawn' = drawn /\ drawn \in Nat
    BY <1>1 DEF StartDigest, unsafeSetCxtEmpty, setBytes, sourceVars, TypeOK
  <2>2. Len(Fresh.data) = 0
    BY DEF Fresh
  <2>. QED  BY <2>1, <2>2 DEF Streamed
<1>2. ASSUME NEW size \in 0 .. MaxSource, UpdateDigest(size)
      PROVE  Streamed'
  <2>1. InSession /\ UNCHANGED <<buf, avail, internals, drawn, base, torn>>
    BY <1>2 DEF UpdateDigest, cxtVars, sessionVars, InSession
  <2>. QED  BY <2>1 DEF Streamed
<1>3. CASE UpdateStep
  BY <1>3, StreamedUpdate
<1>4. CASE SourceFails
  <2>1. InSession /\ UNCHANGED <<avail, internals, drawn, base, torn>>
    BY <1>4 DEF SourceFails, InSession
  <2>2. \A i \in 1 .. avail : buf'[i] = buf[i]
    BY <1>4, FailureFacts
  <2>. QED  BY <2>1, <2>2 DEF Streamed
<1>5. CASE FinaliseDigest
  BY <1>5 DEF FinaliseDigest, Streamed, InSession
<1>6. CASE Grow \/ UNCHANGED vars
  <2>1. UNCHANGED <<buf, avail, pc, internals, drawn, base, torn>>
    BY <1>6 DEF Grow, vars, cxtVars, sourceVars, sessionVars
  <2>. QED  BY <2>1 DEF Streamed, InSession
<1>. QED  BY <1>1, <1>2, <1>3, <1>4, <1>5, <1>6 DEF Next

-----------------------------------------------------------------------------
\* What the invariant implies.

(* Byte by byte equality is equality of the streams.                       *)
LEMMA StreamIsMessage ==
  ASSUME TypeOK, Streamed, InSession, ~torn
  PROVE  internals.data \o Available = Message
<1>. DEFINE d == internals.data
            k == Len(d)
<1>1. /\ k \in Nat /\ avail \in Nat /\ drawn \in Nat /\ base \in Nat
      /\ k + avail = drawn - base
      /\ \A i \in 1 .. k : d[i] = base + i
      /\ \A i \in 1 .. avail : buf[i] = base + k + i
  BY StreamedFacts
<1>2. /\ Available \in Seq(Byte) /\ Len(Available) = avail
      /\ \A i \in 1 .. avail : Available[i] = buf[i]
  BY BufferSeq DEF TypeOK
<1>k. k = Len(d) /\ d \in Seq(Byte)
  BY DEF TypeOK, Record
<1>. HIDE DEF d, k
<1>3. /\ d \o Available \in Seq(Byte)
      /\ Len(d \o Available) = k + avail
      /\ \A i \in 1 .. k + avail : (d \o Available)[i] =
            IF i <= k THEN d[i] ELSE Available[i - k]
  <2>1. d \in Seq(Byte) /\ Available \in Seq(Byte)
    BY <1>k, <1>2
  <2>2. /\ d \o Available \in Seq(Byte)
        /\ Len(d \o Available) = Len(d) + Len(Available)
        /\ \A i \in 1 .. Len(d) + Len(Available) : (d \o Available)[i] =
              IF i <= Len(d) THEN d[i] ELSE Available[i - Len(d)]
    BY <2>1, ConcatProperties, Zenon
  <2>. QED  BY <1>2, <1>k, <2>2, Zenon
<1>4. /\ Message \in Seq(Byte) /\ Len(Message) = k + avail
      /\ \A i \in 1 .. k + avail : Message[i] = base + i
  <2>1. k + avail \in Nat /\ \A i \in 1 .. k + avail : base + i \in Byte
    BY <1>1 DEF Byte
  <2>2. Message = [i \in 1 .. k + avail |-> base + i]
    BY <1>1 DEF Message
  <2>. HIDE DEF Message
  <2>3. [i \in 1 .. k + avail |-> base + i] \in Seq(Byte)
    BY <2>1
  <2>. QED  BY <2>1, <2>2, <2>3
<1>5. ASSUME NEW i \in 1 .. k + avail
      PROVE  (d \o Available)[i] = Message[i]
  <2>1. CASE i <= k
    BY <1>1, <1>3, <1>4, <2>1, SMTT(20)
  <2>2. CASE ~(i <= k)
    <3>. DEFINE j == i - k
    <3>1. j \in 1 .. avail
      BY <1>1, <2>2
    <3>2. (d \o Available)[i] = buf[j]
      BY <1>2, <1>3, <2>2, <3>1
    <3>3. buf[j] = base + k + j
      BY <1>1, <3>1
    <3>4. base + k + j = base + i
      BY <1>1
    <3>. QED  BY <1>4, <3>2, <3>3, <3>4
  <2>. QED  BY <2>1, <2>2
<1>6. d \o Available = Message
  BY <1>3, <1>4, <1>5, SeqEqual
<1>. QED  BY <1>6 DEF d

LEMMA StreamedIsIntact ==
  ASSUME TypeOK, Control, WholeBlocks, Streamed
  PROVE  StreamIntact
<1>1. InSession => internals.length = Len(internals.data)
  BY DEF WholeBlocks
<1>2. InSession /\ ~torn => internals.data \o Available = Message
  BY StreamIsMessage
<1>3. torn => grown > 0
  BY DEF Control
<1>. QED  BY <1>1, <1>2, <1>3, Zenon DEF StreamIntact

(* finaliseDigest extracts the digest of the message, unless a read was    *)
(* torn or the session is stranded.                                        *)
LEMMA ExtractedIsDigest ==
  ASSUME TypeOK, WholeBlocks, Streamed, InSession, ~torn, Scheme = "sha2" \/ ~Stranded
  PROVE  Extracted(Available) = DigestOf(Message)
<1>. DEFINE d == internals.data
<1>1. /\ Len(d) \in Nat /\ avail \in Nat /\ drawn \in Nat /\ base \in Nat
      /\ Len(d) + avail = drawn - base
  BY StreamedFacts
<1>2. /\ d \in Seq(Byte) /\ internals.length = Len(d) /\ Len(d) % BlockBytes = 0
  BY DEF TypeOK, WholeBlocks, Record
<1>3. Available \in Seq(Byte) /\ Len(Available) = avail
  BY BufferSeq DEF TypeOK
<1>4. d \o Available = Message
  BY StreamIsMessage
<1>5. Scheme = "sha2" \/ Len(Available) > 0 \/ Len(d) = 0
  BY <1>1, <1>3 DEF Stranded
<1>6. PadSymbol \subseteq Byte
  BY DEF Byte
<1>7. d \o Pad(Available) = Pad(d \o Available)
  BY <1>2, <1>3, <1>5, <1>6, PadTail
<1>8. Len(Message) = internals.length + Len(Available)
  BY <1>2, <1>3, <1>4, ConcatProperties
<1>. QED  BY <1>4, <1>7, <1>8 DEF Extracted, DigestOf

-----------------------------------------------------------------------------
\* The theorems.

Inv ==
  /\ TypeOK
  /\ Control
  /\ WholeBlocks
  /\ Streamed
  /\ HasRead
  /\ LastBlockHeld
  /\ DigestOfMessage

LEMMA InvInit ==
  ASSUME Init
  PROVE  Inv
<1>1. TypeOK /\ Control
  BY TypeInit
<1>2. WholeBlocks /\ Streamed /\ HasRead /\ LastBlockHeld /\ DigestOfMessage
  BY DEF Init, WholeBlocks, Streamed, HasRead, LastBlockHeld, DigestOfMessage, InSession
<1>. QED  BY <1>1, <1>2 DEF Inv

(* Only a failing source can leave the buffer of a session empty.          *)
LEMMA LastBlockHeldStep ==
  ASSUME TypeOK, Control, LastBlockHeld, [Next]_vars
  PROVE  LastBlockHeld'
<1>1. avail \in Nat /\ count \in Nat /\ drawn \in Nat /\ base \in Nat
  BY CxtSizeFacts DEF TypeOK, vacant
<1>2. CASE StartDigest
  <2>1. base' = drawn /\ drawn' = drawn
    BY <1>2 DEF StartDigest, sourceVars
  <2>. QED  BY <1>1, <2>1 DEF LastBlockHeld, Stranded
<1>3. CASE (\E size \in 0 .. MaxSource : UpdateDigest(size)) \/ FillBuffer \/ FinaliseDigest
  <2>1. /\ pc \in {"idle", "fill"} /\ UNCHANGED <<avail, drawn, base, failed>>
    BY <1>3 DEF UpdateDigest, FillBuffer, FinaliseDigest, Read, cxtVars, sourceVars, sessionVars
  <2>. QED  BY <2>1 DEF LastBlockHeld, Stranded
<1>4. CASE FillExhausted
  <2>1. /\ pc = "filled" /\ avail' = avail + count /\ drawn' = drawn + count
        /\ UNCHANGED <<base, failed>>
    BY <1>4 DEF FillExhausted, Delivered, setBytes, sessionVars
  <2>2. Stranded' => Stranded
    <3>1. avail + count = 0 => avail = 0 /\ drawn + count = drawn
      BY <1>1
    <3>. QED  BY <2>1, <3>1 DEF Stranded
  <2>. QED  BY <2>1, <2>2 DEF LastBlockHeld
<1>5. CASE ContinueLastChunk
  <2>1. avail' = count /\ count > 0
    BY <1>5 DEF ContinueLastChunk, setBytes, Control
  <2>. QED  BY <1>1, <2>1 DEF LastBlockHeld, Stranded
<1>6. CASE SourceFails
  BY <1>6 DEF SourceFails, LastBlockHeld
<1>7. CASE Grow \/ UNCHANGED vars
  <2>1. UNCHANGED <<pc, avail, drawn, base, failed>>
    BY <1>7 DEF Grow, vars, cxtVars, sourceVars, sessionVars
  <2>. QED  BY <2>1 DEF LastBlockHeld, Stranded
<1>8. ASSUME pc' \in {"consume", "continue", "continued"}
      PROVE  LastBlockHeld'
  BY <1>8 DEF LastBlockHeld
<1>. QED  BY <1>2, <1>3, <1>4, <1>5, <1>6, <1>7, <1>8
          DEF Next, UpdateStep, FillRemaining, ConsumeBlocks, ContinueBuffer, ContinueFilled

(* A digest is extracted from an intact stream, and stays what it is until *)
(* the next session.                                                       *)
LEMMA DigestStep ==
  ASSUME TypeOK, WholeBlocks, Streamed, DigestOfMessage, [Next]_vars
  PROVE  DigestOfMessage'
<1>1. CASE FinaliseDigest
  <2>1. /\ InSession /\ digest' = Extracted(Available)
        /\ UNCHANGED <<drawn, base, avail, torn>>
    BY <1>1 DEF FinaliseDigest, InSession, sourceVars
  <2>2. Message' = Message /\ (Stranded' <=> Stranded)
    BY <2>1 DEF Message, Stranded
  <2>3. CASE ~torn /\ (Scheme = "sha2" \/ ~Stranded)
    <3>1. digest' = DigestOf(Message)
      BY <2>1, <2>3, ExtractedIsDigest
    <3>. QED  BY <2>2, <3>1 DEF DigestOfMessage
  <2>4. CASE ~torn /\ ~(Scheme = "sha2" \/ ~Stranded)
    BY <2>2, <2>4, PaddingAssumption DEF DigestOfMessage
  <2>5. CASE torn
    <3>1. torn'
      BY <2>1, <2>5
    <3>. QED  BY <3>1 DEF DigestOfMessage
  <2>. QED  BY <2>3, <2>4, <2>5
<1>2. CASE Grow \/ UNCHANGED vars
  <2>1. UNCHANGED <<pc, drawn, base, avail, torn, digest>>
    BY <1>2 DEF Grow, vars, cxtVars, sourceVars, sessionVars
  <2>2. Message' = Message /\ (Stranded' <=> Stranded)
    BY <2>1 DEF Message, Stranded
  <2>. QED  BY <2>1, <2>2 DEF DigestOfMessage
<1>3. ASSUME pc' # "final"
      PROVE  DigestOfMessage'
  BY <1>3 DEF DigestOfMessage
<1>. QED  BY <1>1, <1>2, <1>3 DEF Next, UpdateStep, StartDigest, UpdateDigest,
          FillBuffer, FillExhausted, FillRemaining, ConsumeBlocks, ContinueBuffer,
          ContinueFilled, ContinueLastChunk, SourceFails

(* The invariant is inductive.                                             *)
LEMMA InvStep ==
  ASSUME Inv, [Next]_vars
  PROVE  Inv'
<1>1. TypeOK' /\ Control'
  BY TypeStep DEF Inv
<1>2. WholeBlocks' /\ Streamed' /\ HasRead'
  BY WholeBlocksStep, StreamedStep, HasReadStep DEF Inv
<1>3. LastBlockHeld'
  BY LastBlockHeldStep DEF Inv
<1>4. DigestOfMessage'
  BY DigestStep DEF Inv
<1>. QED  BY <1>1, <1>2, <1>3, <1>4 DEF Inv

LEMMA Invariance == Spec => []Inv
<1>1. Inv /\ [Next]_vars => Inv'
  BY InvStep
<1>. QED  BY InvInit, <1>1, PTL DEF Spec

(* No byte of the message is dropped, repeated or reordered by the fills,  *)
(* compressions and leftovers of any sequence of updates, until a file     *)
(* that grows tears a read; the count of bytes is right even then.         *)
THEOREM StreamIsIntact == Spec => []StreamIntact
<1>1. Inv => StreamIntact
  BY StreamedIsIntact DEF Inv
<1>. QED  BY Invariance, <1>1, PTL

(* A non-empty session without failure always has bytes for processLast,   *)
(* whatever files grow.                                                    *)
THEOREM LastBlockIsHeld == Spec => []LastBlockHeld
<1>1. Inv => LastBlockHeld
  BY DEF Inv
<1>. QED  BY Invariance, <1>1, PTL

(* The incremental digest is the digest of the message in one piece,       *)
(* except after a torn read and in a stranded session with blake2 padding. *)
THEOREM DigestIsOfMessage == Spec => []DigestOfMessage
<1>1. Inv => DigestOfMessage
  BY DEF Inv
<1>. QED  BY Invariance, <1>1, PTL

(* The padding of the last bytes stays inside the buffer's memory.         *)
THEOREM PaddingAlwaysFits == Spec => []PaddingFits
<1>1. TypeOK => PaddingFits
  <2>. SUFFICES ASSUME TypeOK
                PROVE  PaddedSize(avail) <= cxtSize + inBytes(AdditionalBlocks)
    BY DEF PaddingFits
  <2>1. avail \in Nat /\ avail <= NBlocks * BlockBytes /\ NBlocks \in Nat
    BY CxtSizeFacts, ContextAssumption DEF TypeOK, cxtSize, inBytes
  <2>2. PaddedSize(avail) <= NBlocks * BlockBytes + 1 * BlockBytes
    BY <2>1, PaddingNeedsOneBlock
  <2>. QED  BY <2>2 DEF cxtSize, inBytes, AdditionalBlocks
<1>. QED  BY TypeCorrect, <1>1, PTL

-----------------------------------------------------------------------------
\* The refinement.

RInv == Inv /\ StreamIntact

LEMMA RInvHolds == Spec => []RInv
<1>1. Inv => RInv
  BY StreamedIsIntact DEF Inv, RInv
<1>. QED  BY <1>1, Invariance, PTL

(* The two modules agree on the digest of a message.                       *)
LEMMA DigestsAgree ==
  ASSUME NEW m
  PROVE  Abstract!DigestOf(m) = DigestOf(m)
BY DEF Abstract!DigestOf, DigestOf, Abstract!Pad, Pad, Abstract!PaddedSize, PaddedSize,
       Abstract!Blake2PaddedSize, Blake2PaddedSize, Abstract!Sha2PaddedSize, Sha2PaddedSize,
       Abstract!PadByte, PadByte, Abstract!Glue, Glue,
       Abstract!ZeroByte, ZeroByte, Abstract!OneBit, OneBit, Abstract!LengthField, LengthField

(* In a session the fed bytes are the message, whatever holds them, unless *)
(* a read was torn.                                                        *)
LEMMA SessionState ==
  ASSUME StreamIntact, InSession
  PROVE  /\ AbstractPhase = "open" /\ AbstractDigest = digest
         /\ AbstractMessage = IF torn THEN Spoiled ELSE Message
<1>1. AbstractMessage = IF torn THEN Spoiled ELSE internals.data \o Available
  BY DEF AbstractMessage
<1>2. pc # "final"
  BY DEF InSession
<1>. QED  BY <1>1, <1>2 DEF StreamIntact, AbstractPhase, AbstractDigest

LEMMA SessionStatePrime ==
  ASSUME StreamIntact', InSession'
  PROVE  /\ AbstractPhase' = "open" /\ AbstractDigest' = digest'
         /\ AbstractMessage' = IF torn' THEN Spoiled ELSE Message'
<1>1. AbstractMessage' = IF torn' THEN Spoiled ELSE (internals.data \o Available)'
  BY DEF AbstractMessage
<1>2. pc' # "final"
  BY DEF InSession
<1>. QED  BY <1>1, <1>2 DEF StreamIntact, AbstractPhase, AbstractDigest

(* Drawing n bytes appends those n bytes to the message.                   *)
LEMMA MessageAppends ==
  ASSUME drawn \in Nat, base \in 0 .. drawn, NEW n \in Nat,
         drawn' = drawn + n, base' = base
  PROVE  Message' = Message \o Abstract!Supplied(n)
<1>. DEFINE k == drawn - base
            a == [i \in 1 .. k |-> base + i]
            b == [i \in 1 .. n |-> drawn + i]
            c == [i \in 1 .. k + n |-> base + i]
<1>1. k \in Nat /\ base \in Nat /\ drawn = base + k
  OBVIOUS
<1>2. Message = a /\ Abstract!Supplied(n) = b
  BY DEF Message, Abstract!Supplied
<1>3. Message' = c
  <2>1. Message' = [i \in 1 .. (drawn + n) - base |-> base + i]
    BY DEF Message
  <2>2. (drawn + n) - base = k + n
    OBVIOUS
  <2>. QED  BY <2>1, <2>2
<1>. HIDE DEF k
<1>4. /\ a \in Seq(Int) /\ Len(a) = k /\ \A i \in 1 .. k : a[i] = base + i
      /\ b \in Seq(Int) /\ Len(b) = n /\ \A i \in 1 .. n : b[i] = drawn + i
      /\ c \in Seq(Int) /\ Len(c) = k + n /\ \A i \in 1 .. k + n : c[i] = base + i
  BY <1>1
<1>. HIDE DEF a, b, c
<1>5. /\ a \o b \in Seq(Int) /\ Len(a \o b) = k + n
      /\ \A i \in 1 .. k + n : (a \o b)[i] = IF i <= k THEN a[i] ELSE b[i - k]
  <2>1. /\ a \o b \in Seq(Int) /\ Len(a \o b) = Len(a) + Len(b)
        /\ \A i \in 1 .. Len(a) + Len(b) :
              (a \o b)[i] = IF i <= Len(a) THEN a[i] ELSE b[i - Len(a)]
    BY <1>4, ConcatProperties, Zenon
  <2>. QED  BY <1>4, <2>1, Zenon
<1>6. ASSUME NEW i \in 1 .. k + n PROVE (a \o b)[i] = c[i]
  <2>1. CASE i <= k
    BY <1>1, <1>4, <1>5, <2>1
  <2>2. CASE ~(i <= k)
    <3>1. i - k \in 1 .. n /\ drawn + (i - k) = base + i
      BY <1>1, <2>2
    <3>. QED  BY <1>1, <1>4, <1>5, <2>2, <3>1
  <2>. QED  BY <2>1, <2>2
<1>7. a \o b = c
  BY <1>4, <1>5, <1>6, SeqEqual
<1>. QED  BY <1>2, <1>3, <1>7

(* A step of a session that draws n bytes feeds just those, if there are   *)
(* any; a torn read, and what follows it, is one that the abstract session *)
(* allows.                                                                 *)
LEMMA DrawingFeeds ==
  ASSUME RInv, RInv', InSession, InSession', NEW n \in Nat,
         drawn' = drawn + n, base' = base, failed' = failed, digest' = digest,
         torn => torn'
  PROVE  [Abstract!Next]_(Abstract!vars)
<1>1. /\ drawn \in Nat /\ base \in 0 .. drawn
      /\ torn \in BOOLEAN /\ torn' \in BOOLEAN
  BY DEF RInv, Inv, TypeOK
<1>2. /\ AbstractPhase = "open" /\ AbstractPhase' = "open"
      /\ AbstractDigest' = AbstractDigest
      /\ AbstractMessage = IF torn THEN Spoiled ELSE Message
      /\ AbstractMessage' = IF torn' THEN Spoiled ELSE Message'
  BY SessionState, SessionStatePrime DEF RInv
<1>3. CASE torn'
  <2>1. torn' = TRUE /\ drawn' >= drawn
    BY <1>1, <1>3
  <2>2. Abstract!FeedTorn
    BY <1>2, <2>1 DEF Abstract!FeedTorn
  <2>. QED  BY <2>2 DEF Abstract!Next
<1>4. CASE ~torn' /\ n = 0
  <2>1. drawn' = drawn /\ torn' = torn /\ ~torn
    BY <1>1, <1>4
  <2>2. Message' = Message
    BY <2>1 DEF Message
  <2>. QED  BY <1>2, <2>1, <2>2 DEF Abstract!vars
<1>5. CASE ~torn' /\ n # 0
  <2>1. ~torn /\ torn' = torn
    BY <1>1, <1>5
  <2>2. drawn' > drawn /\ drawn' - drawn = n
    BY <1>1, <1>5
  <2>3. Message' = Message \o Abstract!Supplied(n)
    BY <1>1, MessageAppends
  <2>4. AbstractMessage' = AbstractMessage \o Abstract!Supplied(drawn' - drawn)
    BY <1>2, <2>1, <2>2, <2>3
  <2>5. Abstract!Feed
    BY <1>2, <2>1, <2>2, <2>4 DEF Abstract!Feed
  <2>. QED  BY <2>5 DEF Abstract!Next
<1>. QED  BY <1>3, <1>4, <1>5

(* A new session has no bytes.                                             *)
LEMMA StartRefines ==
  ASSUME RInv, RInv', StartDigest
  PROVE  Abstract!Start
<1>1. /\ pc' = "idle" /\ base' = drawn /\ drawn' = drawn
      /\ failed' = FALSE /\ torn' = FALSE /\ digest' = NoDigest
  BY Zenon DEF StartDigest, sourceVars
<1>2. InSession'
  BY <1>1 DEF InSession
<1>3. drawn \in Nat
  BY DEF RInv, Inv, TypeOK
<1>4. Message' = [i \in 1 .. drawn - drawn |-> drawn + i]
  BY <1>1 DEF Message
<1>5. Message' = << >>
  BY <1>3, <1>4
<1>6. /\ AbstractPhase' = "open" /\ AbstractDigest' = digest'
      /\ AbstractMessage' = IF torn' THEN Spoiled ELSE Message'
  BY <1>2, SessionStatePrime DEF RInv
<1>. QED  BY <1>1, <1>5, <1>6, Zenon DEF Abstract!Start

(* The digest is that of the message, or Spoiled after a failure or a torn *)
(* read.                                                                   *)
LEMMA FinaliseRefines ==
  ASSUME RInv, FinaliseDigest
  PROVE  Abstract!Finalise
<1>. DEFINE d == internals.data
            f == Available
<1>1. /\ pc = "idle" /\ pc' = "final" /\ InSession /\ ~InSession'
      /\ digest' = Extracted(f)
      /\ UNCHANGED <<avail, drawn, base, failed, torn>>
  BY DEF FinaliseDigest, InSession, sourceVars
<1>2. /\ AbstractPhase = "open" /\ AbstractPhase' = "closed"
      /\ AbstractMessage = IF torn THEN Spoiled ELSE Message
  BY <1>1, SessionState DEF AbstractPhase, RInv
<1>3. Stranded' <=> Stranded
  BY <1>1 DEF Stranded
<1>4. CASE torn
  <2>1. AbstractMessage' = AbstractMessage /\ AbstractDigest' = Spoiled
    BY <1>1, <1>4 DEF AbstractMessage, AbstractDigest
  <2>. QED  BY <1>1, <1>2, <1>4, <2>1 DEF Abstract!Finalise
<1>5. ASSUME ~torn
      PROVE  Abstract!Finalise
  <2>1. /\ d \in Seq(Byte) /\ f \in Seq(Byte) /\ PadSymbol \subseteq Byte
        /\ internals.length = Len(d) /\ d \o f = Message
    BY <1>1, <1>5, BufferSeq DEF RInv, Inv, TypeOK, Record, StreamIntact, Byte
  <2>2. AbstractMessage' = Message
    <3>1. AbstractMessage' = SubSeq(digest'.data, 1, digest'.length)
      BY <1>1, <1>5 DEF AbstractMessage
    <3>2. digest'.data = d \o Pad(f) /\ digest'.length = Len(d) + Len(f)
      BY <1>1, <2>1 DEF Extracted
    <3>. HIDE DEF d, f
    <3>3. SubSeq(d \o Pad(f), 1, Len(d) + Len(f)) = d \o f
      BY <2>1, PaddedBegins
    <3>. QED  BY <2>1, <3>1, <3>2, <3>3
  <2>3. AbstractMessage = Message
    BY <1>2, <1>5
  <2>4. CASE Scheme = "sha2" \/ ~Stranded
    <3>1. digest' = DigestOf(Message)
      BY <1>1, <1>5, <2>4, ExtractedIsDigest DEF RInv, Inv
    <3>2. AbstractDigest' = digest'
      BY <1>1, <1>3, <1>5, <2>4 DEF AbstractDigest
    <3>3. AbstractDigest' = Abstract!DigestOf(AbstractMessage)
      BY <2>3, <3>1, <3>2, DigestsAgree
    <3>. QED  BY <1>1, <1>2, <1>5, <2>2, <2>3, <3>3 DEF Abstract!Finalise
  <2>5. CASE ~(Scheme = "sha2" \/ ~Stranded)
    <3>1. Scheme = "blake2" /\ Stranded
      BY <2>5, PaddingAssumption
    <3>2. failed
      BY <1>1, <3>1 DEF RInv, Inv, LastBlockHeld
    <3>3. AbstractDigest' = Spoiled
      BY <1>1, <1>3, <3>1 DEF AbstractDigest
    <3>. QED  BY <1>1, <1>2, <2>2, <2>3, <3>2, <3>3, Zenon DEF Abstract!Finalise
  <2>. QED  BY <2>4, <2>5
<1>. QED  BY <1>4, <1>5

(* The bytes that a step of an update draws from its source.               *)
LEMMA StepDraws ==
  ASSUME TypeOK, (\E size \in 0 .. MaxSource : UpdateDigest(size)) \/ UpdateStep \/ Grow
  PROVE  /\ InSession /\ InSession'
         /\ \E n \in Nat : drawn' = drawn + n
         /\ UNCHANGED <<base, failed, digest>> /\ (torn => torn')
<1>1. drawn \in Nat /\ count \in Nat /\ drawn = drawn + 0
  BY CxtSizeFacts DEF TypeOK, vacant
<1>2. CASE (\E size \in 0 .. MaxSource : UpdateDigest(size)) \/ ConsumeBlocks \/ Grow
  <2>1. UNCHANGED <<drawn, base, failed, digest, torn>>
    BY <1>2 DEF UpdateDigest, ConsumeBlocks, Grow, sourceVars, sessionVars
  <2>2. InSession /\ InSession'
    BY <1>2 DEF UpdateDigest, ConsumeBlocks, Grow, InSession
  <2>. QED  BY <1>1, <2>1, <2>2
<1>3. CASE FillBuffer \/ ContinueBuffer
  <2>1. UNCHANGED <<drawn, base, failed, digest, torn>> /\ InSession /\ InSession'
    BY <1>3 DEF FillBuffer, ContinueBuffer, Read, sessionVars, InSession
  <2>. QED  BY <1>1, <2>1
<1>4. CASE FillExhausted \/ ContinueLastChunk
  <2>1. /\ drawn' = drawn + count /\ UNCHANGED <<base, failed, digest, torn>>
        /\ InSession /\ InSession'
    BY <1>4 DEF FillExhausted, ContinueLastChunk, Delivered, sessionVars, InSession
  <2>. QED  BY <1>1, <2>1
<1>5. CASE FillRemaining \/ ContinueFilled
  <2>1. /\ drawn' = drawn + count /\ UNCHANGED <<base, failed, digest>>
        /\ InSession /\ InSession'
    BY <1>5 DEF FillRemaining, ContinueFilled, Delivered, sessionVars, InSession
  <2>2. torn => torn'
    BY <1>5, Zenon DEF FillRemaining, ContinueFilled
  <2>. QED  BY <1>1, <2>1, <2>2
<1>. QED  BY <1>2, <1>3, <1>4, <1>5 DEF UpdateStep

(* Every step is one of the abstract session, or stutters.                 *)
LEMMA StepRefines == RInv /\ RInv' /\ [Next]_vars => [Abstract!Next]_(Abstract!vars)
<1>. SUFFICES ASSUME RInv, RInv', [Next]_vars PROVE [Abstract!Next]_(Abstract!vars)
  OBVIOUS
<1>1. CASE StartDigest
  BY <1>1, StartRefines DEF Abstract!Next
<1>2. CASE FinaliseDigest
  BY <1>2, FinaliseRefines DEF Abstract!Next
<1>3. CASE (\E size \in 0 .. MaxSource : UpdateDigest(size)) \/ UpdateStep \/ Grow
  BY <1>3, StepDraws, DrawingFeeds DEF RInv, Inv
<1>4. CASE SourceFails
  <2>1. /\ InSession /\ InSession' /\ failed' = TRUE
        /\ UNCHANGED <<drawn, base, digest, torn>>
    BY <1>4, Zenon DEF SourceFails, InSession
  <2>2. Message' = Message
    BY <2>1 DEF Message
  <2>3. /\ AbstractPhase = "open" /\ AbstractPhase' = "open"
        /\ AbstractDigest = digest /\ AbstractDigest' = digest'
        /\ AbstractMessage = IF torn THEN Spoiled ELSE Message
        /\ AbstractMessage' = IF torn' THEN Spoiled ELSE Message'
    BY <2>1, SessionState, SessionStatePrime DEF RInv
  <2>4. AbstractMessage' = AbstractMessage /\ AbstractDigest' = AbstractDigest
    BY <2>1, <2>2, <2>3
  <2>5. Abstract!SourceFailure
    BY <2>1, <2>3, <2>4, Zenon DEF Abstract!SourceFailure
  <2>. QED  BY <2>5 DEF Abstract!Next
<1>5. CASE UNCHANGED vars
  BY <1>5 DEF vars, cxtVars, sourceVars, sessionVars, Abstract!vars, AbstractPhase,
     AbstractMessage, AbstractDigest, InSession, Available, Stranded
<1>. QED  BY <1>1, <1>2, <1>3, <1>4, <1>5 DEF Next

(* The context implements the session of MessageDigest, with sha2 and with *)
(* blake2 padding: an update feeds just the bytes that its source          *)
(* delivers, and only after a failed source or a torn read is a digest     *)
(* ever spoiled.                                                           *)
THEOREM SessionRefined == Spec => ImplementsMessageDigest
<1>1. Init => Abstract!Init
  BY DEF Init, Abstract!Init, AbstractPhase, AbstractMessage, AbstractDigest, InSession
<1>. QED  BY <1>1, RInvHolds, StepRefines, PTL
          DEF Spec, ImplementsMessageDigest, Abstract!Spec

=============================================================================
