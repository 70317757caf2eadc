--------------------------- MODULE OneShotDigest ---------------------------
(***************************************************************************)
(* A digest in one go: processByteSource (indef/Utils.hs) runs             *)
(* processChunks (Raaz.Core.ByteSource) over a byte source, compressing    *)
(* whole buffers and leaving the last chunk to processLast.                *)
(*                                                                         *)
(* The source is a list of byte strings, or one of file handles; a lazy    *)
(* byte string is such a list, a list of lists is their concatenation, and *)
(* Nothing is the empty list.  Each member is known by the number of bytes *)
(* that are left in it.                                                    *)
(* Reading a handle and asking whether it is at its end are two steps, and *)
(* the file can grow at any time, by whoever writes to it.                 *)
(*                                                                         *)
(* The bytes that are read are numbered in the order in which they reach   *)
(* the buffer; read counts them.                                           *)
(***************************************************************************)
EXTENDS Padding

CONSTANTS
  NBlocks,       \* blocks of the buffer: as many as fit in the L1 cache
  MaxSources,    \* bound: sources in the list
  MaxLeft,       \* bound: bytes in one of them at first
  MaxGrowth,     \* bound: bytes by which files grow
  HandleMayFail, \* can hFillBuf throw?
  Spoiled, NoDigest

ASSUME OneShotAssumption ==
  /\ NBlocks \in Nat \ {0}
  /\ MaxSources \in Nat /\ MaxLeft \in Nat /\ MaxGrowth \in Nat
  /\ HandleMayFail \in BOOLEAN

VARIABLES
  pc,
  source,     \* what is left of the list of sources
  offset,     \* bytes that exhausted sources put into the buffer
  count,      \* what hFillBuf returned for the handle at the head
  buf,
  internals,  \* what the compressor has consumed
  digest,
  read,       \* history: bytes that reached the buffer
  supply,     \* history: bytes in the sources at first
  grown,      \* history: bytes by which files grew
  torn        \* history: did a file grow between a short read and its test?

vars == <<pc, source, offset, count, buf, internals, digest, read, supply, grown, torn>>

bufSize == inBytes(NBlocks)

(* The list whose first i members have ends[i] bytes together.             *)
Divided(ends, n, kind) ==
  [i \in 1 .. n |-> [kind |-> kind, left |-> ends[i] - ends[i - 1]]]

Segment == [kind : {"string", "handle"}, left : 0 .. MaxLeft + MaxGrowth]

(* Broken variant: the members of a list are all asked for a whole buffer. *)
RoomOfAll == bufSize

(* What the call of fillBytes for the head of the list is asked for.       *)
room == bufSize - offset

(* Read n bytes of the head to the pointer after offset bytes.             *)
Transferred(n) ==
  /\ buf' = [i \in 1 .. bufSize |->
               IF i \in offset + 1 .. offset + n THEN read + (i - offset) ELSE buf[i]]
  /\ read' = read + n

HeadIs(kind) == source # << >> /\ Head(source).kind = kind

HeadReduced(n) == <<[Head(source) EXCEPT !.left = @ - n]>> \o Tail(source)

Init ==
  /\ pc = "start"
  /\ \E n \in 0 .. MaxSources, kind \in {"string", "handle"} :
       \E ends \in [0 .. n -> 0 .. MaxSources * MaxLeft] :
          /\ ends[0] = 0
          /\ \A i \in 1 .. n : ends[i] - ends[i - 1] \in 0 .. MaxLeft
          /\ source = Divided(ends, n, kind)
          /\ supply = ends[n]
  /\ offset = 0 /\ count = 0
  /\ buf = [i \in 1 .. bufSize |-> Lost]
  /\ internals = [data |-> << >>, length |-> 0]
  /\ digest = NoDigest
  /\ read = 0 /\ grown = 0 /\ torn = FALSE

(* The buffer is allocated, the chunks begin.                              *)
Start ==
  /\ pc = "start"
  /\ pc' = "fill"
  /\ UNCHANGED <<source, offset, count, buf, internals, digest, read, supply, grown, torn>>

(* No source is left: what the buffer holds is the last chunk.             *)
FillNone ==
  /\ pc = "fill"
  /\ source = << >>
  /\ pc' = "last"
  /\ UNCHANGED <<source, offset, count, buf, internals, digest, read, supply, grown, torn>>

(* Broken variant: a string that just fills the buffer is not exhausted.   *)
StringEndsBefore == Head(source).left < room

(* Does a string report Exhausted?                                         *)
StringEnds == Head(source).left <= room

(* Broken variants: the list stops at a full buffer, the next source       *)
(* writes to the place of the one before, or an exhausted source is asked  *)
(* again.                                                                  *)
NextSourceUnlessFull(n) ==
  /\ source' = IF n = room THEN << >> ELSE Tail(source)
  /\ offset' = offset + n
NextSourceOverwrites(n) ==
  /\ source' = Tail(source)
  /\ offset' = n

NextSourceKept(n) ==
  /\ source' = <<[Head(source) EXCEPT !.left = 0]>> \o Tail(source)
  /\ offset' = offset + n

(* A source is exhausted after n bytes: the list goes on behind them.      *)
NextSource(n) ==
  /\ source' = Tail(source)
  /\ offset' = offset + n

FillStringExhausted ==
  /\ pc = "fill"
  /\ HeadIs("string") /\ StringEnds
  /\ Transferred(Head(source).left)
  /\ NextSource(Head(source).left)
  /\ UNCHANGED <<pc, count, internals, digest, supply, grown, torn>>

FillStringRemaining ==
  /\ pc = "fill"
  /\ HeadIs("string") /\ ~StringEnds
  /\ Transferred(room)
  /\ source' = HeadReduced(room)
  /\ pc' = "chunk"
  /\ UNCHANGED <<offset, count, internals, digest, supply, grown, torn>>

(* hFillBuf reads until it has what it was asked for, or the file ends.    *)
FillBuf ==
  /\ pc = "fill"
  /\ HeadIs("handle")
  /\ count' = IF Head(source).left <= room THEN Head(source).left ELSE room
  /\ Transferred(count')
  /\ source' = HeadReduced(count')
  /\ pc' = "eof"
  /\ UNCHANGED <<offset, internals, digest, supply, grown, torn>>

HandleFails ==
  /\ HandleMayFail
  /\ pc = "fill"
  /\ HeadIs("handle")
  /\ pc' = "failed"
  /\ UNCHANGED <<source, offset, count, buf, internals, digest, read, supply, grown, torn>>

(* hIsEOF holds: Exhausted, with what was read.                            *)
HandleExhausted ==
  /\ pc = "eof"
  /\ Head(source).left = 0
  /\ NextSource(count)
  /\ pc' = "fill" /\ count' = 0
  /\ UNCHANGED <<buf, internals, digest, read, supply, grown, torn>>

(* Otherwise Remaining, whatever was read.                                 *)
HandleRemaining ==
  /\ pc = "eof"
  /\ Head(source).left # 0
  /\ pc' = "chunk" /\ count' = 0
  /\ torn' = (torn \/ count < room)
  /\ UNCHANGED <<source, offset, buf, internals, digest, read, supply, grown>>

(* processBlocks on the whole buffer; the next chunk begins at its front.  *)
ProcessChunk ==
  /\ pc = "chunk"
  /\ internals' = [data |-> internals.data \o buf, length |-> internals.length + bufSize]
  /\ offset' = 0
  /\ pc' = "fill"
  /\ UNCHANGED <<source, count, buf, digest, read, supply, grown, torn>>

Front(n) == SubSeq(buf, 1, n)

ProcessLast ==
  /\ pc = "last"
  /\ digest' = [data   |-> internals.data \o Pad(Front(offset)),
                length |-> internals.length + offset]
  /\ pc' = "done"
  /\ UNCHANGED <<source, offset, count, buf, internals, read, supply, grown, torn>>

(* Somebody appends to a file that is being read or is yet to be.          *)
Grow ==
  /\ grown < MaxGrowth
  /\ pc \notin {"start", "failed"}
  /\ \E i \in DOMAIN source :
        /\ source[i].kind = "handle"
        /\ source' = [source EXCEPT ![i].left = @ + 1]
  /\ grown' = grown + 1
  /\ UNCHANGED <<pc, offset, count, buf, internals, digest, read, supply, torn>>

Finished ==
  /\ pc \in {"done", "failed"}
  /\ UNCHANGED vars

Step ==
  \/ Start \/ FillNone \/ FillStringExhausted \/ FillStringRemaining
  \/ FillBuf \/ HandleExhausted \/ HandleRemaining
  \/ ProcessChunk \/ ProcessLast

Next == Step \/ HandleFails \/ Grow \/ Finished

Spec == Init /\ [][Next]_vars

(* The call runs in one thread, and reading a file does not block.         *)
FairSpec == Spec /\ WF_vars(Step)

-----------------------------------------------------------------------------
(* The type invariant.                                                     *)
TypeOK ==
  /\ pc \in {"start", "fill", "eof", "chunk", "last", "done", "failed"}
  /\ source \in Seq(Segment)
  /\ offset \in 0 .. bufSize
  /\ count \in 0 .. bufSize - offset
  /\ buf \in [1 .. bufSize -> Int]
  /\ internals \in [data : Seq(Int), length : Nat]
  /\ read \in Nat /\ supply \in Nat /\ grown \in 0 .. MaxGrowth /\ torn \in BOOLEAN

Bytes(n) == [i \in 1 .. n |-> i]

(* "If the source returns Remaining on any particular request, there       *)
(* should be at least 1 additional byte left on the source": lists of      *)
(* sources keep to it if their members do, also with empty ones among      *)
(* them and when one ends where the buffer does; and so do growing files.  *)
MoreRemains == pc = "chunk" => \E i \in DOMAIN source : source[i].left > 0

(* processChunks takes "action on a complete chunk": when a source reports *)
(* Remaining, the whole buffer holds its latest bytes.                     *)
ChunkIsComplete ==
  pc = "chunk" => buf = [i \in 1 .. bufSize |-> read - bufSize + i]

(* The digest is that of all bytes of all sources, in order, whatever the  *)
(* sizes are and wherever the buffer ends, and also if files grow, unless  *)
(* one does between a read that did not fill the buffer and its test.      *)
DigestOfSource == pc = "done" /\ ~torn => digest = DigestOf(Bytes(supply + grown))

(* The call ends, also if the sources are empty, or end with a chunk.      *)
Terminates == <>(pc \in {"done", "failed"})

-----------------------------------------------------------------------------
(* The bytes at the front of the buffer that were read and not compressed. *)
Held ==
  CASE pc = "eof"   -> offset + count
    [] pc = "chunk" -> bufSize
    [] OTHER        -> offset

AbstractPhase == IF pc \in {"start", "done"} THEN "closed" ELSE "open"

AbstractMessage ==
  IF torn THEN Spoiled
  ELSE IF pc = "done" THEN SubSeq(digest.data, 1, digest.length)
  ELSE internals.data \o Front(Held)

AbstractDigest == IF pc = "done" /\ torn THEN Spoiled ELSE digest

(* One call is a session of the incremental interface: it starts, feeds    *)
(* just the bytes that it reads, in order, and finalises; or one of its    *)
(* reads is torn, and then nothing is promised.                            *)
Abstract == INSTANCE MessageDigest
  WITH phase <- AbstractPhase, taken <- read, message <- AbstractMessage,
       failed <- FALSE, digest <- AbstractDigest

ImplementsMessageDigest == Abstract!Spec
=============================================================================
