----------------------------- MODULE AuthEncrypt -----------------------------
(***************************************************************************)
(* Authenticated encryption (api/aead/Interface.hs) with the ciphers       *)
(* ChaCha20 and XChaCha20 and the authenticator Poly1305.  Each call has a *)
(* memory of its own, which is not initialised (of the counter any value   *)
(* may be there, of the other cells old contents) and is wiped at the end. *)
(*                                                                         *)
(* A byte is the set of the things that were xored to make it: {} is zero, *)
(* a thing is a byte of a plain text or of the key stream, and to xor is   *)
(* the symmetric difference.  A tag is what Poly1305 computed it from.     *)
(***************************************************************************)
EXTENDS Integers, Sequences, FiniteSets

CONSTANTS
  Ciphers,      \* of "chacha20", "xchacha20"
  Keys, Nounces,\* nounces are pairs: what goes into the subkey, and the rest
  Aads, Plains, \* sequences of bytes
  Types,        \* the types of plain objects
  Parses(_, _), \* is a sequence of bytes an encoding of an object of the type?
  CipherBlock,  \* bytes in a block of the cipher
  AuthBlock,    \* bytes in a block, and in the halves r and s, of Poly1305
  Limit,        \* values of the counter of blocks, 2^32
  MaxLocked,    \* bound: packets that are locked
  NoAnswer, Nothing

(* The bytes of plain texts and additional data.                           *)
PlainByte == SUBSET ({"plain"} \X Nat)

\* A text of Limit blocks would come back to block zero; RFC 7539 excludes it.
ASSUME AuthEncryptAssumption ==
  /\ Ciphers \subseteq {"chacha20", "xchacha20"}
  /\ Nounces \subseteq (Nat \ {0}) \X (Nat \ {0})
  /\ CipherBlock \in Nat \ {0} /\ AuthBlock \in Nat \ {0}
  /\ 2 * AuthBlock <= CipherBlock
  /\ Limit \in Nat \ {0} /\ MaxLocked \in Nat
  /\ Aads \subseteq Seq(PlainByte) /\ Plains \subseteq Seq(PlainByte)
  /\ \A p \in Plains : Len(p) <= (Limit - 1) * CipherBlock

VARIABLES
  cipher,   \* which one
  pc,       \* "idle", "key", "nounce", "transform", "auth"
  call,     \* the arguments of the running call
  copyOfKey, keyCell, ivCell, counterCell,  \* cipherInternals
  authKey,  \* rCell and sCell
  acc,      \* accCell: the bytes accumulated
  text,     \* what transform returned
  answer,   \* of the last unlock
  locked    \* history: what was locked

cipherInternals == <<copyOfKey, keyCell, ivCell, counterCell>>
vars == <<cipher, pc, call, cipherInternals, authKey, acc, text, answer, locked>>

Zero == {}
XOR(a, b) == (a \ b) \cup (b \ a)
Zeros(n) == [i \in 1 .. n |-> Zero]

atLeast(bytes, block) == (bytes + block - 1) \div block
PadTo(block, bytes) == bytes \o Zeros(atLeast(Len(bytes), block) * block - Len(bytes))

(* Byte i of the key stream from the block in counterCell on.              *)
StreamByte(i) ==
  <<"stream", keyCell, ivCell,
    (counterCell + (i - 1) \div CipherBlock) % Limit, (i - 1) % CipherBlock>>

(* processLast of the cipher on a copy of the bytes, as transform calls it. *)
Transformed(bytes) == [i \in 1 .. Len(bytes) |-> XOR(bytes[i], {StreamByte(i)})]

(* Broken variant: the counter is wider than its cell.                     *)
AdvancedTooFar(bytes) == counterCell + atLeast(Len(bytes), CipherBlock)

Advanced(bytes) == (counterCell + atLeast(Len(bytes), CipherBlock)) % Limit

NoCall == [op |-> "none"]

Init ==
  /\ cipher \in Ciphers
  /\ pc = "idle" /\ call = NoCall
  /\ copyOfKey = 0 /\ keyCell = <<0, 0>> /\ ivCell = <<0, 0>> /\ counterCell = 0
  /\ authKey = Zeros(2 * AuthBlock) /\ acc = << >>
  /\ text = << >> /\ answer = NoAnswer
  /\ locked = {}

(* withMemory allocates, and wipes in the end.                             *)
Allocated ==
  /\ counterCell' \in 0 .. Limit - 1
  /\ UNCHANGED <<copyOfKey, keyCell, ivCell, authKey, acc, text>>

Ended ==
  /\ pc' = "idle" /\ call' = NoCall
  /\ copyOfKey' = 0 /\ keyCell' = <<0, 0>> /\ ivCell' = <<0, 0>> /\ counterCell' = 0
  /\ authKey' = Zeros(2 * AuthBlock) /\ acc' = << >> /\ text' = << >>
  /\ UNCHANGED cipher

UnsafeLockWith(aad, k, n, plain) ==
  /\ pc = "idle"
  /\ Cardinality(locked) < MaxLocked
  /\ call' = [op |-> "lock", key |-> k, nounce |-> n, aad |-> aad, plain |-> plain]
  /\ pc' = "key"
  /\ Allocated
  /\ UNCHANGED <<cipher, answer, locked>>

(* unlockWith at a type of plain objects, its result.                      *)
UnlockWith(aad, k, packet, type) ==
  /\ pc = "idle"
  /\ call' = [op |-> "unlock", key |-> k, nounce |-> packet.nounce, aad |-> aad,
              packet |-> packet, type |-> type]
  /\ pc' = "key"
  /\ answer' = NoAnswer
  /\ Allocated
  /\ UNCHANGED <<cipher, locked>>

(* XChaCha20 keeps the key apart, and derives that of the cipher from it   *)
(* when the nounce is there.                                               *)
InitialiseKey ==
  /\ pc = "key"
  /\ IF cipher = "xchacha20" THEN copyOfKey' = call.key /\ UNCHANGED keyCell
     ELSE keyCell' = <<call.key, 0>> /\ UNCHANGED copyOfKey
  /\ pc' = "nounce"
  /\ UNCHANGED <<cipher, call, ivCell, counterCell, authKey, acc, text, answer, locked>>

(* Broken variant: the block that keys the authenticator is not counted.   *)
BlockNotCounted == counterCell' = 0

(* processBuffer on the one block of the intern buffer, from block zero.   *)
BlockCounted == counterCell' = 1 % Limit

(* The stream is generated in the intern buffer, which is cleared before;  *)
(* r and s are taken from its front and the accumulator is cleared.        *)
KeyAuthenticator ==
  /\ authKey' = [i \in 1 .. 2 * AuthBlock |->
                   {<<"stream", keyCell', ivCell', 0, i - 1>>}]
  /\ acc' = << >>
  /\ BlockCounted

InitialiseNounce ==
  /\ pc = "nounce"
  /\ IF cipher = "xchacha20"
     THEN keyCell' = <<copyOfKey, call.nounce[1]>> /\ ivCell' = <<0, call.nounce[2]>>
     ELSE ivCell' = call.nounce /\ UNCHANGED keyCell
  /\ KeyAuthenticator
  /\ pc' = IF call.op = "lock" THEN "transform" ELSE "auth"
  /\ UNCHANGED <<cipher, call, copyOfKey, text, answer, locked>>

Encrypt ==
  /\ pc = "transform" /\ call.op = "lock"
  /\ text' = Transformed(call.plain)
  /\ counterCell' = Advanced(call.plain)
  /\ pc' = "auth"
  /\ UNCHANGED <<cipher, call, copyOfKey, keyCell, ivCell, authKey, acc, answer, locked>>

(* Broken variants: the lengths or the additional data are left out.       *)
AuthWriteNoLengths(aad, cText) == PadTo(AuthBlock, aad) \o PadTo(AuthBlock, cText)
AuthWriteNoAad(aad, cText) == PadTo(AuthBlock, cText) \o <<{<<"length", Len(cText)>>}>>

(* authWr: both padded, then both lengths.                                 *)
AuthWrite(aad, cText) ==
  PadTo(AuthBlock, aad) \o PadTo(AuthBlock, cText)
    \o <<{<<"length", Len(aad)>>}, {<<"length", Len(cText)>>}>>

(* computeAuth: the bytes are accumulated and the tag is extracted.        *)
ComputeAuth(cText) == [key |-> authKey, data |-> acc \o AuthWrite(call.aad, cText)]

Seal ==
  /\ pc = "auth" /\ call.op = "lock"
  /\ locked' = locked \cup
       {[key |-> call.key, aad |-> call.aad, plain |-> call.plain,
         packet |-> [nounce |-> call.nounce, cText |-> text, tag |-> ComputeAuth(text)]]}
  /\ Ended
  /\ UNCHANGED answer

Verified == call.packet.tag = ComputeAuth(call.packet.cText)

VerifySucceeds ==
  /\ pc = "auth" /\ call.op = "unlock"
  /\ Verified
  /\ acc' = ComputeAuth(call.packet.cText).data
  /\ pc' = "transform"
  /\ UNCHANGED <<cipher, call, cipherInternals, authKey, text, answer, locked>>

VerifyFails ==
  /\ pc = "auth" /\ call.op = "unlock"
  /\ ~Verified
  /\ answer' = Nothing
  /\ Ended
  /\ UNCHANGED locked

(* fromByteString: bytes that are no encoding of the type give Nothing.    *)
Parsed(bytes) == IF Parses(call.type, bytes) THEN bytes ELSE Nothing

Decrypt ==
  /\ pc = "transform" /\ call.op = "unlock"
  /\ answer' = Parsed(Transformed(call.packet.cText))
  /\ Ended
  /\ UNCHANGED locked

(* Packets that arrive: parts of packets that were locked, put together    *)
(* anyhow, and with a byte added to the cipher text.                       *)
Arriving ==
  LET texts == {l.packet.cText : l \in locked}
  IN  [nounce : Nounces, cText : texts \cup {Append(c, Zero) : c \in texts},
       tag : {l.packet.tag : l \in locked}]

Next ==
  \/ \E aad \in Aads, k \in Keys, n \in Nounces, plain \in Plains :
        UnsafeLockWith(aad, k, n, plain)
  \/ \E aad \in Aads, k \in Keys, packet \in Arriving, type \in Types :
        UnlockWith(aad, k, packet, type)
  \/ InitialiseKey \/ InitialiseNounce
  \/ Encrypt \/ Seal \/ VerifySucceeds \/ VerifyFails \/ Decrypt

Spec == Init /\ [][Next]_vars
-----------------------------------------------------------------------------
CipherKey == (Keys \cup {0}) \X Nat
Stream == {"stream"} \X CipherKey \X (Nat \X Nat) \X (0 .. Limit - 1) \X Nat
Byte == SUBSET (({"plain"} \X Nat) \cup Stream)

(* The type invariant.                                                     *)
TypeOK ==
  /\ cipher \in Ciphers
  /\ pc \in {"idle", "key", "nounce", "transform", "auth"}
  /\ pc = "idle" <=> call = NoCall
  /\ copyOfKey \in Keys \cup {0} /\ keyCell \in CipherKey /\ ivCell \in Nat \X Nat
  /\ counterCell \in 0 .. Limit - 1
  /\ authKey \in [1 .. 2 * AuthBlock -> Byte]
  /\ text \in Seq(Byte)
  /\ Cardinality(locked) <= MaxLocked

StreamOf(byte) == {s \in byte : s[1] = "stream"}

(* The block of the key stream that keys the authenticator never encrypts  *)
(* a byte of any message, and no byte of the stream encrypts two bytes of  *)
(* one message.                                                            *)
StreamApart ==
  \A l \in locked :
    LET c == l.packet.cText
    IN  /\ \A i \in DOMAIN c : Cardinality(StreamOf(c[i])) = 1
        /\ \A i, j \in DOMAIN c : i # j => StreamOf(c[i]) \cap StreamOf(c[j]) = {}
        /\ \A i \in DOMAIN c, m \in locked, j \in 1 .. 2 * AuthBlock :
              StreamOf(c[i]) \cap m.packet.tag.key[j] = {}

(* "Unauthenticated input should never be decrypted" (Interface.hs:149):   *)
(* the cipher gets only what was locked with this key and aad.             *)
OnlyAuthenticDecrypted ==
  pc = "transform" /\ call.op = "unlock" =>
    \E l \in locked : l.key = call.key /\ l.aad = call.aad /\ l.packet = call.packet

Box == INSTANCE SealedBox
  WITH boxes <- locked, request <- IF call.op = "unlock" THEN call ELSE NoCall,
       NoRequest <- NoCall

(* Locking and unlocking refine the abstract box: unlock yields what was   *)
(* locked exactly for the key, the additional data and the packet of a     *)
(* lock, at a type that it parses as, and Nothing else.                    *)
ImplementsSealedBox == Box!Spec
=============================================================================
