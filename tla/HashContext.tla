---------------------------- MODULE HashContext ----------------------------
(***************************************************************************)
(* The context in hashing mode: incremental computation of a digest        *)
(* (api/digest/Interface.hs on top of indef/Utils.hs and                   *)
(* indef/buffer/Context.hs).  updateDigest fills the buffer from a byte    *)
(* source, compresses it when it is full and the source has more, goes on  *)
(* a buffer at a time, and leaves the last chunk in the buffer, because    *)
(* the last block of the message has to go through processLast.            *)
(*                                                                         *)
(* fillBytes of a Handle reads (hFillBuf) and then asks whether the file   *)
(* is at its end (hIsEOF): two steps, between which whoever writes to the  *)
(* file can let it grow.  A byte string is a source that does not grow and *)
(* does not fail.                                                          *)
(*                                                                         *)
(* The bytes that sources supply are numbered 1, 2, 3, ... in the order in *)
(* which fillBytes delivers them; drawn counts them.                       *)
(***************************************************************************)
EXTENDS Context, Padding

CONSTANTS
  MaxDrawn,      \* bound: bytes drawn from sources in a behaviour
  MaxSource,     \* bound: bytes in one source when its update begins
  MaxGrowth,     \* bound: bytes by which files grow during updates
  SourceMayFail, \* can reading a source throw (Handle) or not (ByteString)?
  Spoiled, NoDigest

ASSUME HashContextAssumption ==
  /\ MaxDrawn \in Nat
  /\ MaxSource \in Nat
  /\ MaxGrowth \in Nat
  /\ SourceMayFail \in BOOLEAN

VARIABLES
  pc,         \* where the session and the running update stand
  internals,  \* what the compressor has consumed, and its length cells
  left,       \* bytes still in the source of the running update
  count,      \* bytes read and not yet accounted for: what hFillBuf returned
  digest,     \* what finaliseDigest returned
  drawn,      \* history: bytes that reached the buffer so far
  base,       \* history: the value of drawn when the session started
  failed,     \* history: did a source fail in this session?
  grown,      \* history: bytes by which files grew
  torn        \* history: did a file grow, in this session, between a read
              \* that did not get all that it asked for and the test?

cxtVars == <<buf, avail>>
sourceVars == <<left, count, drawn, grown>>
sessionVars == <<base, failed, digest>>
vars == <<cxtVars, pc, internals, sourceVars, sessionVars, torn>>

(* Blocks of additional space behind the buffer (additionalBlocks).        *)
NoAdditionalBlocks == 0    \* broken variant
AdditionalBlocks == 1

Fresh == [data |-> << >>, length |-> 0]

(* The next n bytes of the source.                                         *)
Incoming(n) == [i \in 1 .. n |-> drawn + i]

(* Broken variant: the compressed bytes are not counted.                   *)
ProcessBufferUncounted(bytes) ==
  [data   |-> internals.data \o bytes,
   length |-> internals.length]

(* processBlocks on the whole buffer: compress, then count.                *)
ProcessBuffer(bytes) ==
  [data   |-> internals.data \o bytes,
   length |-> internals.length + Len(bytes)]

(* Broken variant: the length of the last bytes is not added.              *)
ExtractedWithoutTail(tail) ==
  [data   |-> internals.data \o Pad(tail),
   length |-> internals.length]

(* processLast: pads the bytes in place, compresses all blocks of the      *)
(* padded tail, and puts the message length in the footer (sha2) or in the *)
(* parameters of the final compression (blake2).  Either way the length    *)
(* used is the count so far plus the size of the tail.                     *)
Extracted(tail) ==
  [data   |-> internals.data \o Pad(tail),
   length |-> internals.length + Len(tail)]

(* The length cells afterwards.  Sha2 counts the tail and then, as its     *)
(* compressor counts too, the padded tail; blake2 counts the blocks before *)
(* the last one.                                                           *)
LengthAfterLast(n) ==
  IF Scheme = "sha2" THEN internals.length + n + PaddedSize(n)
  ELSE internals.length + inBytes(atMost(PaddedSize(n)) - 1)

-----------------------------------------------------------------------------
(* The memory of a fresh context is uninitialised: any count can be there. *)
Init ==
  /\ pc = "raw"
  /\ buf = [i \in Positions |-> Lost]
  /\ avail \in 0 .. cxtSize
  /\ internals = Fresh
  /\ left = 0 /\ count = 0
  /\ drawn = 0 /\ base = 0 /\ grown = 0
  /\ failed = FALSE /\ torn = FALSE
  /\ digest = NoDigest

StartDigest ==
  /\ pc \in {"raw", "idle", "final"}
  /\ pc' = "idle"
  /\ internals' = Fresh
  /\ unsafeSetCxtEmpty
  /\ base' = drawn /\ failed' = FALSE /\ torn' = FALSE /\ digest' = NoDigest
  /\ UNCHANGED <<buf, sourceVars>>

(* The source holds size bytes, possibly none.                             *)
UpdateDigest(size) ==
  /\ pc = "idle"
  /\ drawn + size <= MaxDrawn
  /\ left' = size
  /\ pc' = "fill"
  /\ UNCHANGED <<cxtVars, internals, count, drawn, grown, sessionVars, torn>>

vacant == cxtSize - avail

(* Broken variant: the bytes are put at startPtr.                          *)
ReadToFront(asked, offset) ==
  /\ count' = IF left <= asked THEN left ELSE asked
  /\ buf' = Overwrite(0, Incoming(count'))
  /\ left' = left - count'
  /\ UNCHANGED <<avail, internals, drawn, grown, sessionVars, torn>>

(* hFillBuf puts bytes of the source at startPtr + offset until it has as  *)
(* many as were asked for, or the source ends.                             *)
Read(asked, offset) ==
  /\ count' = IF left <= asked THEN left ELSE asked
  /\ buf' = Overwrite(offset, Incoming(count'))
  /\ left' = left - count'
  /\ UNCHANGED <<avail, internals, drawn, grown, sessionVars, torn>>

(* The bytes of the read count as delivered when fillBytes returns.        *)
Delivered ==
  /\ drawn' = drawn + count
  /\ count' = 0
  /\ UNCHANGED <<left, grown>>

(* Broken variant: a source that ends just where the buffer does is taken  *)
(* to have more.                                                           *)
ExhaustedByMore == left = 0 /\ avail + count < cxtSize

(* Does fillBytes report Exhausted, after the read?                        *)
Exhausted == left = 0

(* unsafeFillFrom asks for what is vacant behind the available bytes.      *)
FillBuffer ==
  /\ pc = "fill"
  /\ pc' = "filled"
  /\ Read(vacant, avail)

(* The source is exhausted: the update is over.                            *)
FillExhausted ==
  /\ pc = "filled" /\ Exhausted
  /\ Delivered
  /\ setBytes(avail + count)
  /\ pc' = "idle"
  /\ UNCHANGED <<buf, internals, sessionVars, torn>>

(* Bytes remain in the source.  The context is full, whatever was read.    *)
FillRemaining ==
  /\ pc = "filled" /\ ~Exhausted
  /\ Delivered
  /\ unsafeSetCxtFull
  /\ torn' = (torn \/ count < vacant)
  /\ pc' = "consume"
  /\ UNCHANGED <<buf, internals, sessionVars>>

ConsumeBlocks ==
  /\ pc = "consume"
  /\ internals' = ProcessBuffer(buf)
  /\ unsafeSetCxtEmpty
  /\ pc' = "continue"
  /\ UNCHANGED <<buf, sourceVars, sessionVars, torn>>

(* unsafeContinue asks for a whole buffer.                                 *)
ContinueBuffer ==
  /\ pc = "continue"
  /\ pc' = "continued"
  /\ Read(cxtSize, 0)

(* Bytes remain: the whole buffer is compressed, whatever was read.  The   *)
(* count of available bytes is not touched.                                *)
ContinueFilled ==
  /\ pc = "continued" /\ ~Exhausted
  /\ Delivered
  /\ internals' = ProcessBuffer(buf)
  /\ torn' = (torn \/ count < cxtSize)
  /\ pc' = "continue"
  /\ UNCHANGED <<cxtVars, sessionVars>>

(* Broken variants: the last chunk is not counted, or not recognised when  *)
(* it fills the buffer.                                                    *)
ContinueLastChunkUncounted ==
  /\ pc = "continued" /\ Exhausted
  /\ Delivered
  /\ pc' = "idle"
  /\ UNCHANGED <<cxtVars, internals, sessionVars, torn>>

ContinueLastChunkShort ==
  /\ pc = "continued" /\ left = 0 /\ count < cxtSize
  /\ Delivered /\ setBytes(count)
  /\ pc' = "idle"
  /\ UNCHANGED <<buf, internals, sessionVars, torn>>

(* The last chunk stays in the buffer.                                     *)
ContinueLastChunk ==
  /\ pc = "continued" /\ Exhausted
  /\ Delivered
  /\ setBytes(count)
  /\ pc' = "idle"
  /\ UNCHANGED <<buf, internals, sessionVars, torn>>

(* hFillBuf throws after having written some bytes to the buffer, or       *)
(* hIsEOF throws after the read, and the exception leaves the update.      *)
(* Nothing undoes what was done before; the bytes of this read are lost.   *)
SourceFails ==
  /\ SourceMayFail
  /\ \E n \in 0 .. vacant :
        /\ \/ pc \in {"fill", "continue"} /\ n <= left
           \/ pc \in {"filled", "continued"} /\ n = count
        /\ buf' = Overwrite(avail, [i \in 1 .. n |-> Lost])
  /\ left' = 0 /\ count' = 0
  /\ failed' = TRUE
  /\ pc' = "idle"
  /\ UNCHANGED <<avail, internals, drawn, grown, base, digest, torn>>

(* Somebody appends to the file that is being read.                        *)
Grow ==
  /\ pc \in {"fill", "filled", "consume", "continue", "continued"}
  /\ grown < MaxGrowth
  /\ left' = left + 1
  /\ grown' = grown + 1
  /\ UNCHANGED <<cxtVars, pc, internals, count, drawn, sessionVars, torn>>

(* finaliseDigest: processLast on what is in the buffer, then extract.     *)
FinaliseDigest ==
  /\ pc = "idle"
  /\ digest' = Extracted(Available)
  /\ internals' = [data   |-> internals.data \o Pad(Available),
                   length |-> LengthAfterLast(avail)]
  /\ buf' = [i \in Positions |->
               IF i > avail /\ i <= PaddedSize(avail) THEN PadByte(avail, i)
               ELSE buf[i]]
  /\ pc' = "final"
  /\ UNCHANGED <<avail, sourceVars, base, failed, torn>>

UpdateStep ==
  \/ FillBuffer \/ FillExhausted \/ FillRemaining
  \/ ConsumeBlocks
  \/ ContinueBuffer \/ ContinueFilled \/ ContinueLastChunk

Next ==
  \/ StartDigest
  \/ \E size \in 0 .. MaxSource : UpdateDigest(size)
  \/ UpdateStep
  \/ SourceFails \/ Grow
  \/ FinaliseDigest

Spec == Init /\ [][Next]_vars

(* A call of updateDigest runs to its end: only its own thread steps it.   *)
FairSpec == Spec /\ WF_vars(UpdateStep)

-----------------------------------------------------------------------------
Byte == PadSymbol \cup {Lost} \cup (Nat \ {0})
Record == [data : Seq(Byte), length : Nat]

(* The type invariant.                                                     *)
TypeOK ==
  /\ pc \in {"raw", "idle", "fill", "filled", "consume", "continue", "continued", "final"}
  /\ buf \in [Positions -> Byte]
  /\ avail \in 0 .. cxtSize
  /\ internals \in Record
  /\ left \in Nat
  /\ count \in 0 .. vacant
  /\ drawn \in Nat
  /\ base \in 0 .. drawn
  /\ grown \in 0 .. MaxGrowth
  /\ failed \in BOOLEAN /\ torn \in BOOLEAN
  /\ digest \in Record \cup {NoDigest}

(* The bytes of the session, in order.                                     *)
Message == [i \in 1 .. drawn - base |-> base + i]

InSession == pc \in {"idle", "fill", "filled", "consume", "continue", "continued"}

(* What the compressor has consumed, followed by what the buffer holds, is *)
(* the message so far: whatever the sizes of the sources and however often *)
(* a source failed, updateDigest neither drops, repeats nor reorders a     *)
(* byte.  Only where a file grew, and a read was torn by it, does it take  *)
(* stale bytes of the buffer for message bytes; the count of the bytes     *)
(* that were compressed is right even then.                                *)
StreamIntact ==
  InSession =>
    /\ internals.length = Len(internals.data)
    /\ ~torn => internals.data \o Available = Message
    /\ torn => grown > 0

(* Everything was compressed and nothing is left for processLast.          *)
Stranded == drawn > base /\ avail = 0

(* The last block of a message is always left to processLast ("should      *)
(* necessarily be processed by the processLast function", Blake2b): between *)
(* two calls the buffer of a non-empty session is not empty.  Only a       *)
(* failure of a source inside unsafeContinue breaks this, not a file that  *)
(* grows.                                                                  *)
LastBlockHeld ==
  pc \in {"idle", "fill", "filled", "final"} /\ Stranded => failed

(* finaliseDigest returns the digest of the message, equal to what one     *)
(* padding of the whole message gives, even after failed sources.  There   *)
(* are two exceptions: a session with a torn read, where stale bytes were  *)
(* compressed, and a blake2 session that is stranded, where a block of     *)
(* zeros is compressed in the place of the last block.                     *)
DigestOfMessage ==
  pc = "final" =>
    \/ digest = DigestOf(Message)
    \/ torn
    \/ Scheme = "blake2" /\ Stranded

(* The padding that processLast writes behind the last bytes stays inside  *)
(* the memory of the buffer, which has AdditionalBlocks more blocks than   *)
(* the context ever fills (actualBufferSize).                              *)
PaddingFits ==
  pc = "idle" => PaddedSize(avail) <= cxtSize + inBytes(AdditionalBlocks)

(* An update comes to its end, if the source does.                         *)
UpdateReturns == pc = "fill" ~> pc = "idle"

-----------------------------------------------------------------------------
(* The abstract session which a state stands for.                          *)
AbstractPhase == IF InSession THEN "open" ELSE "closed"

AbstractMessage ==
  IF torn THEN Spoiled
  ELSE IF InSession THEN internals.data \o Available
  ELSE IF pc = "final" THEN SubSeq(digest.data, 1, digest.length)
  ELSE << >>

AbstractDigest ==
  IF pc = "final" /\ (torn \/ (Scheme = "blake2" /\ Stranded)) THEN Spoiled ELSE digest

Abstract == INSTANCE MessageDigest
  WITH phase <- AbstractPhase, taken <- drawn,
       message <- AbstractMessage, digest <- AbstractDigest

(* The context implements the session of MessageDigest: each update adds   *)
(* to the message just the bytes that its source delivers.                 *)
ImplementsMessageDigest == Abstract!Spec
=============================================================================
