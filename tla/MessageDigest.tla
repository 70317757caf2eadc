--------------------------- MODULE MessageDigest ---------------------------
(***************************************************************************)
(* What the incremental digest interface promises (startDigest,            *)
(* updateDigest, finaliseDigest of api/digest/Interface.hs): the digest of *)
(* exactly the bytes supplied since the start of the session, in order,    *)
(* however they were divided among sources, blocks and buffers.            *)
(*                                                                         *)
(* The bytes that sources supply are numbered 1, 2, 3, ... in the order in *)
(* which they are taken.                                                   *)
(*                                                                         *)
(* Two things can go wrong with a source.  It may fail while it is being   *)
(* read (an IOException of a handle): what was taken from it before stays  *)
(* in the session, but a digest may be Spoiled; HashContext says when.     *)
(* And it may be a file that grows between a short read and the test for   *)
(* its end: the session is then torn, and nothing is promised of it.       *)
(***************************************************************************)
EXTENDS Padding

CONSTANTS Spoiled,    \* a message or digest of which nothing is promised
          NoDigest    \* no digest has been extracted in this session

VARIABLES phase,      \* "closed", or "open" between start and finalise
          taken,      \* bytes taken from sources, in all sessions
          message,    \* the bytes added in this session
          failed,     \* has a source failed in this session?
          torn,       \* has a read been torn in this session?
          digest

vars == <<phase, taken, message, failed, torn, digest>>

Init ==
  /\ phase = "closed"
  /\ taken = 0
  /\ message = << >>
  /\ failed = FALSE /\ torn = FALSE
  /\ digest = NoDigest

Start ==
  /\ phase' = "open"
  /\ message' = << >>
  /\ failed' = FALSE /\ torn' = FALSE
  /\ digest' = NoDigest
  /\ UNCHANGED taken

(* The next n bytes that sources supply.                                   *)
Supplied(n) == [i \in 1 .. n |-> taken + i]

(* What is taken from a source, that and nothing else, ends the message.   *)
Feed ==
  /\ phase = "open" /\ ~torn
  /\ taken' > taken
  /\ message' = message \o Supplied(taken' - taken)
  /\ UNCHANGED <<phase, failed, torn, digest>>

(* Bytes are taken by a torn read, or after one.                           *)
FeedTorn ==
  /\ phase = "open"
  /\ taken' >= taken
  /\ message' = Spoiled /\ torn' = TRUE
  /\ UNCHANGED <<phase, failed, digest>>

SourceFailure ==
  /\ phase = "open"
  /\ failed' = TRUE
  /\ UNCHANGED <<phase, taken, message, torn, digest>>

Finalise ==
  /\ phase = "open"
  /\ phase' = "closed"
  /\ \/ ~torn /\ digest' = DigestOf(message)
     \/ (failed \/ torn) /\ digest' = Spoiled
  /\ UNCHANGED <<taken, message, failed, torn>>

Next == Start \/ Feed \/ FeedTorn \/ SourceFailure \/ Finalise

Spec == Init /\ [][Next]_vars
=============================================================================
