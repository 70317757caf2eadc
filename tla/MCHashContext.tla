--------------------------- MODULE MCHashContext ---------------------------
(***************************************************************************)
(* The context in hashing mode with the padding of sha2, and next to it    *)
(* one with that of blake2: a behaviour is a sequence of sessions of one   *)
(* of the two, while the other one rests.  Both have blocks of two bytes.  *)
(* What the padding of sha2 writes, a one bit and a length of one byte,    *)
(* then needs a block more behind a tail of one byte, and fills a block by *)
(* itself behind whole ones.                                               *)
(***************************************************************************)
EXTENDS HashContext

VARIABLES bpc, bbuf, bavail, binternals, bleft, bcount, bdigest, bdrawn, bbase,
          bfailed, bgrown, btorn

blake2Vars == <<bpc, bbuf, bavail, binternals, bleft, bcount, bdigest, bdrawn, bbase,
                bfailed, bgrown, btorn>>

Blake2 == INSTANCE HashContext
  WITH Scheme <- "blake2",
       pc <- bpc, buf <- bbuf, avail <- bavail, internals <- binternals, left <- bleft,
       count <- bcount, digest <- bdigest, drawn <- bdrawn, base <- bbase,
       failed <- bfailed, grown <- bgrown, torn <- btorn

(* A context that rests has not been started, and happens to be empty.     *)
Rests == pc = "raw" /\ avail = 0
Blake2Rests == bpc = "raw" /\ bavail = 0

MCInit == Init /\ Blake2!Init /\ (Rests \/ Blake2Rests)

MCNext ==
  \/ Blake2Rests /\ Next /\ UNCHANGED blake2Vars
  \/ Rests /\ Blake2!Next /\ UNCHANGED vars

MCFairSpec ==
  /\ MCInit /\ [][MCNext]_<<vars, blake2Vars>>
  /\ WF_vars(UpdateStep) /\ WF_blake2Vars(Blake2!UpdateStep)

(* With the padding of blake2, too, streaming neither drops, repeats nor   *)
(* reorders a byte, the last block waits for processLast, and the digest   *)
(* is that of the message padded in one piece.                             *)
Blake2Sound ==
  /\ Blake2!TypeOK
  /\ Blake2!StreamIntact
  /\ Blake2!LastBlockHeld
  /\ Blake2!DigestOfMessage

(* An update of a finite source comes to its end, in either context.       *)
UpdatesReturn == UpdateReturns /\ Blake2!UpdateReturns
=============================================================================
