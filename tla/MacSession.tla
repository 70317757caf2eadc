----------------------------- MODULE MacSession -----------------------------
(***************************************************************************)
(* What message authentication by a keyed hash promises: the tag is that   *)
(* of the key and of the message, which is fed in any number of pieces.    *)
(* "The message is essentially appended to the key and hashed"             *)
(* (Raaz.Primitive.Keyed.Internal).                                        *)
(***************************************************************************)
EXTENDS Padding

CONSTANT NoTag

VARIABLES phase,    \* "closed", or "open" between start and finalise
          key,      \* the bytes of the key
          message,  \* the bytes so far
          tag

vars == <<phase, key, message, tag>>

(* A key fills up a block; no key at all takes none.                       *)
KeyBlock(k) == k \o [i \in 1 .. Glue(Len(k), 0) |-> ZeroByte]

(* The initial hash depends on the length of the key.                      *)
MacOf(k, m) == [hash0 |-> Len(k), digest |-> DigestOf(KeyBlock(k) \o m)]

Init == phase = "closed" /\ key = << >> /\ message = << >> /\ tag = NoTag

Start ==
  /\ phase' = "open"
  /\ message' = << >>
  /\ tag' = NoTag

Feed ==
  /\ phase = "open"
  /\ \E n \in 0 .. Len(message') : message = SubSeq(message', 1, n)
  /\ UNCHANGED <<phase, key, tag>>

(* The last bytes come with the end of the session.                        *)
Finalise ==
  /\ phase = "open"
  /\ phase' = "closed"
  /\ \E n \in 0 .. Len(message') : message = SubSeq(message', 1, n)
  /\ tag' = MacOf(key, message')
  /\ UNCHANGED key

Next == Start \/ Feed \/ Finalise

Spec == Init /\ [][Next]_vars
=============================================================================
