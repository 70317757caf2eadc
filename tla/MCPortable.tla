----------------------------- MODULE MCPortable -----------------------------
(***************************************************************************)
(* The portable C code under one roof: the length cells, the compression   *)
(* functions and the ciphers.  A behaviour exercises one of the three; the *)
(* other two rest, with nothing to do.                                     *)
(***************************************************************************)
EXTENDS LengthCells, PortableCompress

VARIABLES
  part,  \* "cells", "compress" or "cipher"
  \* of PortableCipher, where PortableCompress has not taken the name
  task, phase, place, eKey, turn, prev, text, iv, over, passed, rest, valCtr, x, r,
  saved, orig

Streams == INSTANCE CompressJobs
Texts   == INSTANCE CipherJobs

MCJobs   == Streams!Messages \cup {Streams!Resting}
MCBuilds == Streams!Hosts

Cipher == INSTANCE PortableCipher WITH
  Jobs <- Texts!Tasks \cup {Texts!Resting},
  job <- task, pc <- place, i <- turn, done <- over, asked <- passed, left <- rest

(* The texts for ChaCha20 are what the theorems about it ask for.          *)
ASSUME ChaChaTexts == \A z \in Texts!ChaCha \cup {Texts!Resting} : Cipher!ChaChaText(z)

MCInit ==
  /\ part \in {"cells", "compress", "cipher"}
  /\ CellsInit /\ (part # "cells" => primitive = "sha512")
  /\ Init
  /\ IF part = "compress" THEN job # Streams!Resting
     ELSE job = Streams!Resting /\ host = Texts!Little
  /\ Cipher!Init
  /\ (part = "cipher") = (task # Texts!Resting)

cipherVars == <<task, phase, place, eKey, turn, prev, text, iv, over, passed, rest,
                valCtr, x, r, saved, orig>>

MCNext ==
  /\ UNCHANGED part
  /\ \/ part = "cells" /\ CellsNext /\ UNCHANGED <<vars, cipherVars>>
     \/ part = "compress" /\ Next /\ UNCHANGED <<cellsVars, cipherVars>>
     \/ part = "cipher" /\ Cipher!Next /\ UNCHANGED <<vars, cellsVars>>

MCSpec == MCInit /\ [][MCNext]_<<part, vars, cellsVars, cipherVars>>

(* Keys are expanded and texts transformed as the standards say, in place, *)
(* whatever the calls (CipherStandard).                                    *)
ImplementsCipher == Cipher!ImplementsCipher

(* The published cipher texts come out.                                    *)
KnownTexts == Cipher!KnownTexts

(* The way back recovers the text, whatever the calls there and back.      *)
Recovered == Cipher!Recovered
=============================================================================
