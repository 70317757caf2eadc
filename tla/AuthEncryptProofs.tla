-------------------------- MODULE AuthEncryptProofs --------------------------
(***************************************************************************)
(* Proofs about authenticated encryption, for any keys, nounces, texts and *)
(* block sizes and any number of locked packets: the key stream is never   *)
(* used twice, only what was locked is decrypted, and lock and unlock      *)
(* implement a sealed box.                                                 *)
(*                                                                         *)
(* The invariant says that all there is was computed from the arguments:   *)
(* the cells from the key and the nounce of the running call, whatever     *)
(* they held before (Cells), what comes out of the steps from the cells    *)
(* (Made), and every locked packet from its key, nounce, additional data   *)
(* and plain text (Boxes).  Then a tag that is verified was made for the   *)
(* same key and nounce, because each of its bytes names them, and for the  *)
(* same data, because AuthWrite is injective.                              *)
(***************************************************************************)
EXTENDS AuthEncrypt, FiniteSetTheorems, TLAPS

KeyOf(k, n) == IF cipher = "xchacha20" THEN <<k, n[1]>> ELSE <<k, 0>>
IvOf(n) == IF cipher = "xchacha20" THEN <<0, n[2]>> ELSE n

(* What a key and a nounce determine: the bytes r and s of the             *)
(* authenticator, byte i of the key stream behind them, and a cipher text. *)
AuthKeyOf(k, n) ==
  [i \in 1 .. 2 * AuthBlock |-> {<<"stream", KeyOf(k, n), IvOf(n), 0, i - 1>>}]

ByteOf(k, n, i) ==
  <<"stream", KeyOf(k, n), IvOf(n),
    ((1 % Limit) + (i - 1) \div CipherBlock) % Limit, (i - 1) % CipherBlock>>

CipherText(k, n, bytes) == [i \in 1 .. Len(bytes) |-> XOR(bytes[i], {ByteOf(k, n, i)})]

TagOf(k, n, aad, cText) == [key |-> AuthKeyOf(k, n), data |-> AuthWrite(aad, cText)]

PacketOf(k, n, aad, plain) ==
  [nounce |-> n, cText |-> CipherText(k, n, plain),
   tag |-> TagOf(k, n, aad, CipherText(k, n, plain))]

BoxOf(k, n, aad, plain) ==
  [key |-> k, aad |-> aad, plain |-> plain, packet |-> PacketOf(k, n, aad, plain)]

(* Every locked packet was computed from what was locked.                  *)
Boxes ==
  \A l \in locked : \E k \in Keys, n \in Nounces, aad \in Aads, plain \in Plains :
    l = BoxOf(k, n, aad, plain)

Locking ==
  /\ \E k \in Keys, n \in Nounces, aad \in Aads, plain \in Plains :
       call = [op |-> "lock", key |-> k, nounce |-> n, aad |-> aad, plain |-> plain]
  /\ Cardinality(locked) < MaxLocked

Unlocking ==
  \E k \in Keys, aad \in Aads, packet \in Arriving, type \in Types :
    call = [op |-> "unlock", key |-> k, nounce |-> packet.nounce, aad |-> aad,
            packet |-> packet, type |-> type]

Calls == IF pc = "idle" THEN call = NoCall ELSE Locking \/ Unlocking

(* The cells are those of the running call.                                *)
Cells ==
  /\ pc = "nounce" =>
       IF cipher = "xchacha20" THEN copyOfKey = call.key ELSE keyCell = <<call.key, 0>>
  /\ pc \in {"transform", "auth"} =>
       /\ keyCell = KeyOf(call.key, call.nounce)
       /\ ivCell = IvOf(call.nounce)
       /\ authKey = AuthKeyOf(call.key, call.nounce)

(* What a call has made.                                                   *)
Made ==
  /\ pc = "transform" => counterCell = 1 % Limit
  /\ pc = "auth" => acc = << >>
  /\ pc = "transform" /\ call.op = "lock" => acc = << >>
  /\ pc = "auth" /\ call.op = "lock" => text = CipherText(call.key, call.nounce, call.plain)
  /\ pc = "auth" /\ call.op = "unlock" => counterCell = 1 % Limit
  /\ pc = "transform" /\ call.op = "unlock" =>
       call.packet.tag = TagOf(call.key, call.nounce, call.aad, call.packet.cText)

IInv ==
  /\ TypeOK /\ IsFiniteSet(locked)
  /\ Boxes /\ Calls /\ Cells /\ Made

-----------------------------------------------------------------------------
\* Quotients and the counter of blocks.

LEMMA QuotRem ==
  ASSUME NEW b \in Nat \ {0}, NEW m \in Nat
  PROVE  /\ m \div b \in Nat /\ m % b \in 0 .. b - 1
         /\ m = b * (m \div b) + (m % b)
OBVIOUS

LEMMA SmallRem ==
  ASSUME NEW b \in Nat \ {0}, NEW m \in 0 .. b - 1
  PROVE  m % b = m
OBVIOUS

(* Blocks are counted from one, without coming back to block zero.         *)
LEMMA BlocksCounted ==
  ASSUME NEW m \in Nat, m < (Limit - 1) * CipherBlock
  PROVE  /\ m \div CipherBlock \in Nat
         /\ ((1 % Limit) + m \div CipherBlock) % Limit = 1 + m \div CipherBlock
         /\ ((1 % Limit) + m \div CipherBlock) % Limit \in 1 .. Limit - 1
<1>. DEFINE q == m \div CipherBlock
<1>1. /\ Limit \in Nat \ {0} /\ CipherBlock \in Nat \ {0}
  BY AuthEncryptAssumption
<1>2. q \in Nat /\ CipherBlock * q <= m
  <2>1. m % CipherBlock >= 0 /\ m % CipherBlock \in Int
        /\ q \in Nat /\ m = CipherBlock * q + (m % CipherBlock)
    BY <1>1, QuotRem
  <2>. HIDE DEF q
  <2>. QED  BY <1>1, <2>1
<1>. HIDE DEF q
<1>3. q < Limit - 1
  <2>1. SUFFICES ASSUME q >= Limit - 1 PROVE FALSE
    BY <1>1, <1>2
  <2>2. CipherBlock * q >= CipherBlock * (Limit - 1)
    BY <1>1, <1>2, <2>1
  <2>. QED  BY <1>1, <1>2, <2>2
<1>4. 1 % Limit = 1
  BY <1>1, <1>2, <1>3, SmallRem
<1>5. 1 + q \in 0 .. Limit - 1
  BY <1>1, <1>2, <1>3
<1>6. (1 + q) % Limit = 1 + q
  BY <1>1, <1>5, SmallRem
<1>. QED  BY <1>1, <1>2, <1>3, <1>4, <1>6 DEF q

-----------------------------------------------------------------------------
\* What is authenticated.

(* What is known of a concatenation.                                       *)
Joined(s, t, S) ==
  /\ s \o t \in Seq(S) /\ Len(s \o t) = Len(s) + Len(t)
  /\ Len(s) \in Nat /\ Len(t) \in Nat
  /\ \A i \in 1 .. Len(s) : (s \o t)[i] = s[i]
  /\ \A i \in 1 .. Len(t) : (s \o t)[Len(s) + i] = t[i]

LEMMA ConcatFacts ==
  ASSUME NEW S, NEW s \in Seq(S), NEW t \in Seq(S)
  PROVE  Joined(s, t, S)
<1>1. /\ s \o t \in Seq(S) /\ Len(s \o t) = Len(s) + Len(t)
      /\ Len(s) \in Nat /\ Len(t) \in Nat
      /\ \A i \in 1 .. Len(s) + Len(t) :
            (s \o t)[i] = IF i <= Len(s) THEN s[i] ELSE t[i - Len(s)]
  OBVIOUS
<1>2. ASSUME NEW i \in 1 .. Len(t) PROVE (s \o t)[Len(s) + i] = t[i]
  <2>1. Len(s) + i \in 1 .. Len(s) + Len(t) /\ ~(Len(s) + i <= Len(s))
        /\ (Len(s) + i) - Len(s) = i
    BY <1>1
  <2>. QED  BY <1>1, <2>1
<1>3. ASSUME NEW i \in 1 .. Len(s) PROVE (s \o t)[i] = s[i]
  <2>1. i \in 1 .. Len(s) + Len(t) /\ i <= Len(s)
    BY <1>1
  <2>. QED  BY <1>1, <2>1
<1>. QED  BY <1>1, <1>2, <1>3 DEF Joined

(* The zeros that fill up the last block.                                  *)
Fill(n) == IF atLeast(n, AuthBlock) * AuthBlock - n \in Nat
           THEN atLeast(n, AuthBlock) * AuthBlock - n ELSE 0

LEMMA PadToFacts ==
  ASSUME NEW S, Zero \in S, NEW bytes \in Seq(S)
  PROVE  /\ PadTo(AuthBlock, bytes) \in Seq(S)
         /\ Len(PadTo(AuthBlock, bytes)) = Len(bytes) + Fill(Len(bytes))
         /\ Fill(Len(bytes)) \in Nat
         /\ \A i \in 1 .. Len(bytes) : PadTo(AuthBlock, bytes)[i] = bytes[i]
<1>. DEFINE n == Len(bytes)
            more == atLeast(n, AuthBlock) * AuthBlock - n
<1>1. n \in Nat /\ AuthBlock \in Nat \ {0}
  BY AuthEncryptAssumption
<1>2. more \in Nat
  <2>. DEFINE m == n + AuthBlock - 1
              q == m \div AuthBlock
  <2>1. m \in Nat
    BY <1>1
  <2>2. /\ q \in Nat /\ m % AuthBlock \in 0 .. AuthBlock - 1
        /\ m = AuthBlock * q + (m % AuthBlock)
    BY <1>1, <2>1, QuotRem
  <2>3. m % AuthBlock <= AuthBlock - 1 /\ m % AuthBlock \in Int
    BY <1>1, <2>2
  <2>4. more = q * AuthBlock - n
    BY DEF atLeast
  <2>5. m = n + AuthBlock - 1
    OBVIOUS
  <2>. HIDE DEF m, q, more, n
  <2>. QED  BY <1>1, <2>1, <2>2, <2>3, <2>4, <2>5
<1>3. Fill(n) = more
  BY <1>2 DEF Fill
<1>4. PadTo(AuthBlock, bytes) = bytes \o Zeros(more)
  BY DEF PadTo
<1>. HIDE DEF more
<1>5. Zeros(more) \in Seq(S) /\ Len(Zeros(more)) = more
  BY <1>2 DEF Zeros
<1>6. /\ bytes \o Zeros(more) \in Seq(S)
      /\ Len(bytes \o Zeros(more)) = Len(bytes) + Len(Zeros(more))
      /\ \A i \in 1 .. Len(bytes) : (bytes \o Zeros(more))[i] = bytes[i]
  <2>1. Joined(bytes, Zeros(more), S)
    BY <1>5, ConcatFacts, Zenon
  <2>. QED  BY <2>1 DEF Joined
<1>. QED  BY <1>2, <1>3, <1>4, <1>5, <1>6 DEF n

(* Where the arguments of AuthWrite are found in what it writes.           *)
WrittenAs(all, aad, cText) ==
  /\ all[Len(all) - 1] = {<<"length", Len(aad)>>}
  /\ all[Len(all)] = {<<"length", Len(cText)>>}
  /\ \A i \in 1 .. Len(aad) : all[i] = aad[i]
  /\ \A i \in 1 .. Len(cText) : all[(Len(aad) + Fill(Len(aad))) + i] = cText[i]

LEMMA AuthWriteFacts ==
  ASSUME NEW S, NEW aad \in Seq(S), NEW cText \in Seq(S)
  PROVE  /\ << >> \o AuthWrite(aad, cText) = AuthWrite(aad, cText)
         /\ WrittenAs(AuthWrite(aad, cText), aad, cText)
<1>1. PICK T : /\ aad \in Seq(T) /\ cText \in Seq(T) /\ Zero \in T
               /\ \A n \in Nat : {<<"length", n>>} \in T
  <2>. DEFINE T == S \cup {Zero} \cup {{<<"length", n>>} : n \in Nat}
  <2>1. /\ aad \in Seq(T) /\ cText \in Seq(T) /\ Zero \in T
        /\ \A n \in Nat : {<<"length", n>>} \in T
    OBVIOUS
  <2>. HIDE DEF T
  <2>. QED  BY <2>1
<1>. DEFINE p == PadTo(AuthBlock, aad)
            q == PadTo(AuthBlock, cText)
            r == <<{<<"length", Len(aad)>>}, {<<"length", Len(cText)>>}>>
            all == AuthWrite(aad, cText)
<1>a. Len(aad) \in Nat /\ Len(cText) \in Nat
  OBVIOUS
<1>2. r \in Seq(T) /\ Len(r) = 2
      /\ r[1] = {<<"length", Len(aad)>>} /\ r[2] = {<<"length", Len(cText)>>}
  BY <1>1, <1>a
<1>3. /\ p \in Seq(T) /\ Len(p) = Len(aad) + Fill(Len(aad)) /\ Fill(Len(aad)) \in Nat
      /\ \A i \in 1 .. Len(aad) : p[i] = aad[i]
  BY <1>1, PadToFacts
<1>4. /\ q \in Seq(T) /\ Len(q) = Len(cText) + Fill(Len(cText)) /\ Fill(Len(cText)) \in Nat
      /\ \A i \in 1 .. Len(cText) : q[i] = cText[i]
  BY <1>1, PadToFacts
<1>5. all = (p \o q) \o r
  BY DEF AuthWrite
<1>. HIDE DEF p, q, r, all
<1>6. /\ p \o q \in Seq(T) /\ Len(p \o q) = Len(p) + Len(q)
      /\ Len(p) \in Nat /\ Len(q) \in Nat
      /\ \A i \in 1 .. Len(p) : (p \o q)[i] = p[i]
      /\ \A i \in 1 .. Len(q) : (p \o q)[Len(p) + i] = q[i]
  <2>1. p \in Seq(T) /\ q \in Seq(T)
    BY <1>3, <1>4
  <2>2. Joined(p, q, T)
    BY <2>1, ConcatFacts, Zenon
  <2>. QED  BY <2>2 DEF Joined
<1>7. /\ all \in Seq(T) /\ Len(all) = Len(p) + Len(q) + 2
      /\ \A i \in 1 .. Len(p) + Len(q) : all[i] = (p \o q)[i]
      /\ all[Len(p) + Len(q) + 1] = r[1] /\ all[Len(p) + Len(q) + 2] = r[2]
  <2>1. /\ all \in Seq(T) /\ Len(all) = Len(p \o q) + 2
        /\ \A i \in 1 .. Len(p \o q) : all[i] = (p \o q)[i]
        /\ \A i \in 1 .. 2 : all[Len(p \o q) + i] = r[i]
    <3>1. /\ (p \o q) \o r \in Seq(T) /\ Len((p \o q) \o r) = Len(p \o q) + Len(r)
          /\ \A i \in 1 .. Len(p \o q) : ((p \o q) \o r)[i] = (p \o q)[i]
          /\ \A i \in 1 .. Len(r) : ((p \o q) \o r)[Len(p \o q) + i] = r[i]
      <4>1. p \o q \in Seq(T) /\ r \in Seq(T)
        BY <1>2, <1>6
      <4>2. Joined(p \o q, r, T)
        BY <4>1, ConcatFacts, Zenon
      <4>. QED  BY <4>2 DEF Joined
    <3>. QED  BY <1>2, <1>5, <3>1
  <2>. QED  BY <1>6, <2>1
<1>8. \A i \in 1 .. Len(aad) : all[i] = aad[i]
  <2>. TAKE i \in 1 .. Len(aad)
  <2>1. i \in 1 .. Len(p) /\ i \in 1 .. Len(p) + Len(q)
    BY <1>a, <1>3, <1>6
  <2>. QED  BY <1>3, <1>6, <1>7, <2>1
<1>9. \A i \in 1 .. Len(cText) : all[Len(p) + i] = cText[i]
  <2>. TAKE i \in 1 .. Len(cText)
  <2>1. i \in 1 .. Len(q) /\ Len(p) + i \in 1 .. Len(p) + Len(q)
    BY <1>a, <1>4, <1>6
  <2>. QED  BY <1>4, <1>6, <1>7, <2>1
<1>10. << >> \o all = all
  BY <1>7
<1>11. Len(all) - 1 = Len(p) + Len(q) + 1
  BY <1>6, <1>7
<1>12. /\ all[Len(all) - 1] = {<<"length", Len(aad)>>}
       /\ all[Len(all)] = {<<"length", Len(cText)>>}
  BY <1>2, <1>7, <1>11
<1>13. WrittenAs(all, aad, cText)
  BY <1>3, <1>8, <1>9, <1>12 DEF WrittenAs
<1>. QED  BY <1>10, <1>13 DEF all

(* No two arguments of AuthWrite are written the same way.                 *)
LEMMA AuthWriteInjective ==
  ASSUME NEW S, NEW a \in Seq(S), NEW b \in Seq(S), NEW c \in Seq(S), NEW d \in Seq(S),
         AuthWrite(a, c) = AuthWrite(b, d)
  PROVE  a = b /\ c = d
<1>. DEFINE all == AuthWrite(a, c)
            k == Len(a) + Fill(Len(a))
            k2 == Len(b) + Fill(Len(b))
<1>1. /\ all[Len(all) - 1] = {<<"length", Len(a)>>} /\ all[Len(all)] = {<<"length", Len(c)>>}
      /\ \A i \in 1 .. Len(a) : all[i] = a[i]
      /\ \A i \in 1 .. Len(c) : all[k + i] = c[i]
  <2>1. WrittenAs(all, a, c)
    BY AuthWriteFacts, Zenon
  <2>. QED  BY <2>1 DEF WrittenAs
<1>2. /\ all[Len(all) - 1] = {<<"length", Len(b)>>} /\ all[Len(all)] = {<<"length", Len(d)>>}
      /\ \A i \in 1 .. Len(b) : all[i] = b[i]
      /\ \A i \in 1 .. Len(d) : all[k2 + i] = d[i]
  <2>1. WrittenAs(all, b, d)
    BY AuthWriteFacts, Zenon
  <2>. QED  BY <2>1 DEF WrittenAs
<1>3. Len(a) = Len(b) /\ Len(c) = Len(d)
  <2>. HIDE DEF all
  <2>1. \A m, n : {<<"length", m>>} = {<<"length", n>>} => m = n
    <3>. SUFFICES ASSUME NEW m, NEW n, {<<"length", m>>} = {<<"length", n>>} PROVE m = n
      OBVIOUS
    <3>1. <<"length", m>> = <<"length", n>>
      BY Zenon
    <3>. QED  BY <3>1
  <2>. QED  BY <1>1, <1>2, <2>1, Zenon
<1>4. k = k2
  BY <1>3
<1>. HIDE DEF all, k, k2
<1>5. \A i \in 1 .. Len(a) : a[i] = b[i]
  BY <1>1, <1>2, <1>3, Zenon
<1>6. \A i \in 1 .. Len(c) : c[i] = d[i]
  BY <1>1, <1>2, <1>3, <1>4, Zenon
<1>. QED  BY <1>3, <1>5, <1>6, SMTT(20)

-----------------------------------------------------------------------------
\* The key stream, and what is made with it.

LEMMA KeyTypes ==
  ASSUME NEW k \in Keys, NEW n \in Nounces
  PROVE  KeyOf(k, n) \in CipherKey /\ IvOf(n) \in Nat \X Nat
<1>1. n \in Nat \X Nat
  BY AuthEncryptAssumption
<1>. QED  BY <1>1 DEF KeyOf, IvOf, CipherKey

LEMMA ByteType ==
  ASSUME NEW k \in Keys, NEW n \in Nounces, NEW i \in Nat \ {0}
  PROVE  ByteOf(k, n, i) \in Stream
<1>1. Limit \in Nat \ {0} /\ CipherBlock \in Nat \ {0} /\ i - 1 \in Nat
  BY AuthEncryptAssumption
<1>2. (i - 1) \div CipherBlock \in Nat /\ (i - 1) % CipherBlock \in Nat
      /\ 1 % Limit \in Nat
  <2>1. (i - 1) % CipherBlock \in 0 .. CipherBlock - 1 /\ 1 % Limit \in 0 .. Limit - 1
        /\ (i - 1) \div CipherBlock \in Nat
    BY <1>1, QuotRem
  <2>. QED  BY <1>1, <2>1
<1>3. ((1 % Limit) + (i - 1) \div CipherBlock) % Limit \in 0 .. Limit - 1
  <2>1. (1 % Limit) + (i - 1) \div CipherBlock \in Nat
    BY <1>2
  <2>. QED  BY <1>1, <2>1, QuotRem
<1>. QED  BY <1>2, <1>3, KeyTypes DEF ByteOf, Stream

LEMMA CipherTextType ==
  ASSUME NEW k \in Keys, NEW n \in Nounces, NEW bytes \in Seq(Byte)
  PROVE  /\ CipherText(k, n, bytes) \in Seq(Byte)
         /\ Len(CipherText(k, n, bytes)) = Len(bytes)
         /\ \A i \in 1 .. Len(bytes) :
               CipherText(k, n, bytes)[i] = XOR(bytes[i], {ByteOf(k, n, i)})
<1>. DEFINE X(i) == XOR(bytes[i], {ByteOf(k, n, i)})
            f == [i \in 1 .. Len(bytes) |-> X(i)]
<1>1. ASSUME NEW i \in 1 .. Len(bytes) PROVE X(i) \in Byte
  <2>1. bytes[i] \in Byte /\ ByteOf(k, n, i) \in Stream
    BY ByteType
  <2>. QED  BY <2>1 DEF XOR, Byte
<1>2. Len(bytes) \in Nat
  OBVIOUS
<1>3. CipherText(k, n, bytes) = f
  BY DEF CipherText
<1>. HIDE DEF X
<1>4. f \in Seq(Byte) /\ Len(f) = Len(bytes) /\ \A i \in 1 .. Len(bytes) : f[i] = X(i)
  BY <1>1, <1>2
<1>. QED  BY <1>3, <1>4, Zenon DEF X

(* The same stream a second time gives the text back.                      *)
LEMMA Decrypted ==
  ASSUME NEW k \in Keys, NEW n \in Nounces, NEW bytes \in Seq(Byte)
  PROVE  CipherText(k, n, CipherText(k, n, bytes)) = bytes
<1>. DEFINE c == CipherText(k, n, bytes)
            d == CipherText(k, n, c)
<1>1. /\ c \in Seq(Byte) /\ Len(c) = Len(bytes)
      /\ \A i \in 1 .. Len(bytes) : c[i] = XOR(bytes[i], {ByteOf(k, n, i)})
  BY CipherTextType
<1>. HIDE DEF c
<1>2. /\ d \in Seq(Byte) /\ Len(d) = Len(c)
      /\ \A i \in 1 .. Len(c) : d[i] = XOR(c[i], {ByteOf(k, n, i)})
  BY <1>1, CipherTextType
<1>. HIDE DEF d
<1>3. \A a, b : XOR(XOR(a, b), b) = a
  BY DEF XOR
<1>4. \A i \in 1 .. Len(bytes) : d[i] = bytes[i]
  BY <1>1, <1>2, <1>3
<1>5. d = bytes
  BY <1>1, <1>2, <1>4
<1>. QED  BY <1>5 DEF c, d

LEMMA PlainTypes ==
  ASSUME NEW plain \in Plains
  PROVE  plain \in Seq(PlainByte) /\ plain \in Seq(Byte)
<1>1. plain \in Seq(PlainByte)
  BY AuthEncryptAssumption
<1>2. PlainByte \subseteq Byte
  BY DEF PlainByte, Byte
<1>. QED  BY <1>1, <1>2

LEMMA AadTypes ==
  ASSUME NEW aad \in Aads
  PROVE  aad \in Seq(Byte)
<1>1. aad \in Seq(PlainByte)
  BY AuthEncryptAssumption
<1>2. PlainByte \subseteq Byte
  BY DEF PlainByte, Byte
<1>. QED  BY <1>1, <1>2

(* The authenticator's key names the key and the nounce.                   *)
LEMMA AuthKeyDetermines ==
  ASSUME NEW k \in Keys, NEW j \in Keys, NEW n \in Nounces, NEW m \in Nounces,
         AuthKeyOf(k, n) = AuthKeyOf(j, m)
  PROVE  k = j /\ n = m
<1>1. 1 \in 1 .. 2 * AuthBlock
  BY AuthEncryptAssumption
<1>2. AuthKeyOf(k, n)[1] = AuthKeyOf(j, m)[1]
  OBVIOUS
<1>3. {<<"stream", KeyOf(k, n), IvOf(n), 0, 1 - 1>>}
        = {<<"stream", KeyOf(j, m), IvOf(m), 0, 1 - 1>>}
  BY <1>1, <1>2 DEF AuthKeyOf
<1>4. <<"stream", KeyOf(k, n), IvOf(n), 0, 1 - 1>>
        = <<"stream", KeyOf(j, m), IvOf(m), 0, 1 - 1>>
  BY <1>3, Zenon
<1>5. KeyOf(k, n) = KeyOf(j, m) /\ IvOf(n) = IvOf(m)
  BY <1>4
<1>6. n \in Nat \X Nat /\ m \in Nat \X Nat
  BY AuthEncryptAssumption
<1>7. CASE cipher = "xchacha20"
  <2>1. <<k, n[1]>> = <<j, m[1]>> /\ <<0, n[2]>> = <<0, m[2]>>
    BY <1>5, <1>7 DEF KeyOf, IvOf
  <2>. QED  BY <1>6, <2>1
<1>8. CASE cipher # "xchacha20"
  <2>1. <<k, 0>> = <<j, 0>> /\ n = m
    BY <1>5, <1>8 DEF KeyOf, IvOf
  <2>. QED  BY <2>1
<1>. QED  BY <1>7, <1>8

-----------------------------------------------------------------------------
\* Packets.

LEMMA LockedFacts ==
  ASSUME Boxes, NEW l \in locked
  PROVE  /\ l.key \in Keys /\ l.packet.nounce \in Nounces
         /\ l.aad \in Aads /\ l.plain \in Plains
         /\ l.packet.cText = CipherText(l.key, l.packet.nounce, l.plain)
         /\ l.packet.cText \in Seq(Byte)
         /\ l.packet.tag = TagOf(l.key, l.packet.nounce, l.aad, l.packet.cText)
         /\ l.packet = [nounce |-> l.packet.nounce, cText |-> l.packet.cText,
                        tag |-> l.packet.tag]
<1>1. PICK k \in Keys, n \in Nounces, aad \in Aads, plain \in Plains :
         l = BoxOf(k, n, aad, plain)
  BY DEF Boxes
<1>2. CipherText(k, n, plain) \in Seq(Byte)
  BY CipherTextType, PlainTypes
<1>. QED  BY <1>1, <1>2 DEF BoxOf, PacketOf

LEMMA AppendType ==
  ASSUME NEW S, NEW s \in Seq(S), NEW e \in S
  PROVE  Append(s, e) \in Seq(S)
OBVIOUS

LEMMA ArrivingFacts ==
  ASSUME Boxes, NEW packet \in Arriving
  PROVE  /\ packet.nounce \in Nounces /\ packet.cText \in Seq(Byte)
         /\ \E l \in locked : packet.tag = l.packet.tag
         /\ packet = [nounce |-> packet.nounce, cText |-> packet.cText, tag |-> packet.tag]
<1>1. /\ packet.nounce \in Nounces
      /\ packet.tag \in {l.packet.tag : l \in locked}
      /\ \E l \in locked : packet.cText = l.packet.cText
                         \/ packet.cText = Append(l.packet.cText, Zero)
      /\ packet = [nounce |-> packet.nounce, cText |-> packet.cText, tag |-> packet.tag]
  BY DEF Arriving
<1>2. PICK l \in locked : packet.cText = l.packet.cText
                       \/ packet.cText = Append(l.packet.cText, Zero)
  BY <1>1
<1>3. l.packet.cText \in Seq(Byte) /\ Zero \in Byte
  BY LockedFacts DEF Byte, Zero
<1>4. packet.cText \in Seq(Byte)
  <2>1. Append(l.packet.cText, Zero) \in Seq(Byte)
    BY <1>3, AppendType, Zenon
  <2>. QED  BY <1>2, <1>3, <2>1, Zenon
<1>. QED  BY <1>1, <1>4

(* What verifies was locked: its tag is that of a packet, and no other     *)
(* arguments have this tag.                                                *)
LEMMA VerifiedWasLocked ==
  ASSUME Boxes, NEW packet \in Arriving, NEW k \in Keys, NEW aad \in Aads,
         packet.tag = TagOf(k, packet.nounce, aad, packet.cText)
  PROVE  \E l \in locked : l.key = k /\ l.aad = aad /\ l.packet = packet
<1>1. /\ packet.nounce \in Nounces /\ packet.cText \in Seq(Byte)
      /\ packet = [nounce |-> packet.nounce, cText |-> packet.cText, tag |-> packet.tag]
  BY ArrivingFacts
<1>2. PICK l \in locked : packet.tag = l.packet.tag
  BY ArrivingFacts
<1>3. /\ l.key \in Keys /\ l.packet.nounce \in Nounces /\ l.aad \in Aads
      /\ l.packet.cText \in Seq(Byte)
      /\ l.packet.tag = TagOf(l.key, l.packet.nounce, l.aad, l.packet.cText)
      /\ l.packet = [nounce |-> l.packet.nounce, cText |-> l.packet.cText,
                     tag |-> l.packet.tag]
  BY LockedFacts
<1>4. /\ AuthKeyOf(k, packet.nounce) = AuthKeyOf(l.key, l.packet.nounce)
      /\ AuthWrite(aad, packet.cText) = AuthWrite(l.aad, l.packet.cText)
  BY <1>2, <1>3 DEF TagOf
<1>5. k = l.key /\ packet.nounce = l.packet.nounce
  BY <1>1, <1>3, <1>4, AuthKeyDetermines
<1>6. aad = l.aad /\ packet.cText = l.packet.cText
  <2>1. aad \in Seq(Byte) /\ l.aad \in Seq(Byte)
    BY <1>3, AadTypes
  <2>2. \A a, b, c, d \in Seq(Byte) :
          AuthWrite(a, c) = AuthWrite(b, d) => a = b /\ c = d
    BY AuthWriteInjective, Zenon
  <2>3. /\ packet.cText \in Seq(Byte) /\ l.packet.cText \in Seq(Byte)
        /\ AuthWrite(aad, packet.cText) = AuthWrite(l.aad, l.packet.cText)
    BY <1>1, <1>3, <1>4
  <2>. QED  BY <2>1, <2>2, <2>3, SMT
<1>. QED  BY <1>1, <1>2, <1>3, <1>5, <1>6

(* Byte i of the cipher text has one byte of the key stream, which is in   *)
(* none but its place, and not in block zero.                              *)
LEMMA StreamOfByte ==
  ASSUME Boxes, NEW l \in locked, NEW i \in DOMAIN l.packet.cText
  PROVE  /\ i \in 1 .. Len(l.plain)
         /\ StreamOf(l.packet.cText[i]) = {ByteOf(l.key, l.packet.nounce, i)}
<1>. DEFINE k == l.key
            n == l.packet.nounce
            plain == l.plain
            c == l.packet.cText
            b == ByteOf(k, n, i)
<1>1. /\ k \in Keys /\ n \in Nounces /\ plain \in Plains /\ c = CipherText(k, n, plain)
  BY LockedFacts
<1>2. plain \in Seq(Byte) /\ plain \in Seq(PlainByte)
  BY <1>1, PlainTypes
<1>3. /\ c \in Seq(Byte) /\ Len(c) = Len(plain)
      /\ \A j \in 1 .. Len(plain) : c[j] = XOR(plain[j], {ByteOf(k, n, j)})
  <2>. HIDE DEF k, n, plain, c
  <2>1. /\ CipherText(k, n, plain) \in Seq(Byte)
        /\ Len(CipherText(k, n, plain)) = Len(plain)
        /\ \A j \in 1 .. Len(plain) :
              CipherText(k, n, plain)[j] = XOR(plain[j], {ByteOf(k, n, j)})
    BY <1>1, <1>2, CipherTextType, Zenon
  <2>. QED  BY <1>1, <2>1, Zenon
<1>4. i \in 1 .. Len(plain)
  BY <1>3
<1>5. c[i] = XOR(plain[i], {b})
  BY <1>3, <1>4
<1>6. plain[i] \subseteq {"plain"} \X Nat
  BY <1>2, <1>4 DEF PlainByte
<1>7. b[1] = "stream"
  BY DEF ByteOf
<1>. HIDE DEF b, c
<1>8. \A s \in plain[i] : s[1] # "stream"
  BY <1>6
<1>9. StreamOf(c[i]) = {b}
  BY <1>5, <1>7, <1>8 DEF StreamOf, XOR
<1>. QED  BY <1>4, <1>9 DEF b, c

(* No byte of the stream is used twice.                                    *)
LEMMA BoxesApart ==
  ASSUME Boxes
  PROVE  StreamApart
<1>. SUFFICES ASSUME NEW l \in locked
              PROVE  LET c == l.packet.cText
                     IN  /\ \A i \in DOMAIN c : Cardinality(StreamOf(c[i])) = 1
                         /\ \A i, j \in DOMAIN c :
                               i # j => StreamOf(c[i]) \cap StreamOf(c[j]) = {}
                         /\ \A i \in DOMAIN c, m \in locked, j \in 1 .. 2 * AuthBlock :
                               StreamOf(c[i]) \cap m.packet.tag.key[j] = {}
  BY DEF StreamApart
<1>. DEFINE c == l.packet.cText
            b(i) == ByteOf(l.key, l.packet.nounce, i)
<1>1. \A i \in DOMAIN c : i \in 1 .. Len(l.plain) /\ StreamOf(c[i]) = {b(i)}
  BY StreamOfByte
<1>2. CipherBlock \in Nat \ {0} /\ Limit \in Nat \ {0}
      /\ Len(l.plain) \in Nat /\ Len(l.plain) <= (Limit - 1) * CipherBlock
  <2>1. l.plain \in Plains /\ l.plain \in Seq(Byte)
    BY LockedFacts, PlainTypes
  <2>. QED  BY <2>1, AuthEncryptAssumption
<1>3. ASSUME NEW i \in 1 .. Len(l.plain)
      PROVE  /\ i - 1 \in Nat /\ (i - 1) \div CipherBlock \in Nat
             /\ b(i)[4] = 1 + (i - 1) \div CipherBlock /\ b(i)[4] # 0
             /\ b(i)[5] = (i - 1) % CipherBlock
             /\ i - 1 = CipherBlock * ((i - 1) \div CipherBlock) + ((i - 1) % CipherBlock)
  <2>1. i - 1 \in Nat /\ i - 1 < (Limit - 1) * CipherBlock
    <3>. DEFINE top == (Limit - 1) * CipherBlock
    <3>1. top \in Int /\ Len(l.plain) <= top
      BY <1>2
    <3>. HIDE DEF top
    <3>2. i - 1 \in Nat /\ i - 1 < top
      BY <1>2, <3>1
    <3>. QED  BY <3>2 DEF top
  <2>2. /\ (i - 1) \div CipherBlock \in Nat
        /\ ((1 % Limit) + (i - 1) \div CipherBlock) % Limit = 1 + (i - 1) \div CipherBlock
        /\ ((1 % Limit) + (i - 1) \div CipherBlock) % Limit \in 1 .. Limit - 1
    BY <2>1, BlocksCounted
  <2>3. i - 1 = CipherBlock * ((i - 1) \div CipherBlock) + ((i - 1) % CipherBlock)
    BY <1>2, <2>1, QuotRem
  <2>4. /\ b(i)[4] = ((1 % Limit) + (i - 1) \div CipherBlock) % Limit
        /\ b(i)[5] = (i - 1) % CipherBlock
    BY DEF ByteOf
  <2>5. b(i)[4] # 0
    BY <1>2, <2>2, <2>4
  <2>. QED  BY <2>1, <2>2, <2>3, <2>4, <2>5
<1>. HIDE DEF b
<1>4. \A i \in DOMAIN c : Cardinality(StreamOf(c[i])) = 1
  BY <1>1, FS_Singleton
<1>5. ASSUME NEW i \in DOMAIN c, NEW j \in DOMAIN c, i # j
      PROVE  StreamOf(c[i]) \cap StreamOf(c[j]) = {}
  <2>1. i \in 1 .. Len(l.plain) /\ j \in 1 .. Len(l.plain)
    BY <1>1
  <2>2. b(i) # b(j)
    <3>. SUFFICES ASSUME b(i) = b(j) PROVE FALSE
      OBVIOUS
    <3>1. /\ 1 + (i - 1) \div CipherBlock = 1 + (j - 1) \div CipherBlock
          /\ (i - 1) % CipherBlock = (j - 1) % CipherBlock
      BY <1>3, <2>1
    <3>2. (i - 1) \div CipherBlock = (j - 1) \div CipherBlock
      BY <1>3, <2>1, <3>1
    <3>3. i - 1 = j - 1
      BY <1>3, <2>1, <3>1, <3>2
    <3>. QED  BY <1>2, <1>5, <2>1, <3>3
  <2>. QED  BY <1>1, <2>2
<1>6. ASSUME NEW i \in DOMAIN c, NEW m \in locked, NEW j \in 1 .. 2 * AuthBlock
      PROVE  StreamOf(c[i]) \cap m.packet.tag.key[j] = {}
  <2>1. StreamOf(c[i]) = {b(i)} /\ b(i)[4] # 0
    BY <1>1, <1>3
  <2>2. m.packet.tag = TagOf(m.key, m.packet.nounce, m.aad, m.packet.cText)
    BY LockedFacts
  <2>3. m.packet.tag.key = AuthKeyOf(m.key, m.packet.nounce)
    BY <2>2 DEF TagOf
  <2>. DEFINE s == <<"stream", KeyOf(m.key, m.packet.nounce), IvOf(m.packet.nounce), 0, j - 1>>
  <2>4. m.packet.tag.key[j] = {s} /\ s[4] = 0
    BY <2>3 DEF AuthKeyOf
  <2>. HIDE DEF s
  <2>. QED  BY <2>1, <2>4
<1>. QED  BY <1>4, <1>5, <1>6

-----------------------------------------------------------------------------
\* The invariant.

LEMMA LockingFacts ==
  ASSUME Locking
  PROVE  /\ call.op = "lock" /\ call.key \in Keys /\ call.nounce \in Nounces
         /\ call.aad \in Aads /\ call.plain \in Plains
         /\ Cardinality(locked) < MaxLocked
BY DEF Locking

LEMMA UnlockingFacts ==
  ASSUME Boxes, Unlocking
  PROVE  /\ call.op = "unlock" /\ call.key \in Keys /\ call.nounce \in Nounces
         /\ call.aad \in Aads /\ call.packet \in Arriving
         /\ call.nounce = call.packet.nounce /\ call.packet.cText \in Seq(Byte)
<1>1. PICK k \in Keys, aad \in Aads, packet \in Arriving, type \in Types :
         call = [op |-> "unlock", key |-> k, nounce |-> packet.nounce, aad |-> aad,
                 packet |-> packet, type |-> type]
  BY DEF Unlocking
<1>2. packet.nounce \in Nounces /\ packet.cText \in Seq(Byte)
  BY ArrivingFacts
<1>. QED  BY <1>1, <1>2

(* Which of the two calls is running.                                      *)
LEMMA CallFacts ==
  ASSUME IInv
  PROVE  /\ pc = "idle" => call = NoCall /\ call.op = "none"
         /\ pc # "idle" /\ call.op = "lock" => Locking
         /\ pc # "idle" /\ call.op = "unlock" => Unlocking
         /\ pc # "idle" => call.op \in {"lock", "unlock"} /\ call.key \in Keys
                          /\ call.nounce \in Nounces /\ call.aad \in Aads
BY LockingFacts, UnlockingFacts DEF IInv, Calls, NoCall

(* The same cipher makes the same of the same arguments.                   *)
LEMMA BoxOfKept ==
  ASSUME cipher' = cipher, NEW k, NEW n, NEW aad, NEW plain
  PROVE  BoxOf(k, n, aad, plain)' = BoxOf(k, n, aad, plain)
<1>1. KeyOf(k, n)' = KeyOf(k, n) /\ IvOf(n)' = IvOf(n)
  BY DEF KeyOf, IvOf
<1>2. AuthKeyOf(k, n)' = AuthKeyOf(k, n)
  BY <1>1 DEF AuthKeyOf
<1>3. CipherText(k, n, plain)' = CipherText(k, n, plain)
  BY <1>1 DEF CipherText, ByteOf
<1>. QED  BY <1>2, <1>3 DEF BoxOf, PacketOf, TagOf

LEMMA BoxesKept ==
  ASSUME Boxes, UNCHANGED <<cipher, locked>>
  PROVE  Boxes'
<1>. SUFFICES ASSUME NEW l \in locked
              PROVE  \E k \in Keys, n \in Nounces, aad \in Aads, plain \in Plains :
                       l = BoxOf(k, n, aad, plain)'
  BY DEF Boxes
<1>1. PICK k \in Keys, n \in Nounces, aad \in Aads, plain \in Plains :
         l = BoxOf(k, n, aad, plain)
  BY DEF Boxes
<1>2. l = BoxOf(k, n, aad, plain)'
  BY <1>1, BoxOfKept
<1>. QED  BY <1>2

(* Both calls begin with their arguments and memory of any contents.       *)
LEMMA LockStarts ==
  ASSUME IInv, NEW aad \in Aads, NEW k \in Keys, NEW n \in Nounces, NEW plain \in Plains,
         UnsafeLockWith(aad, k, n, plain)
  PROVE  IInv'
<1>1. /\ pc' = "key" /\ Cardinality(locked) < MaxLocked
      /\ call' = [op |-> "lock", key |-> k, nounce |-> n, aad |-> aad, plain |-> plain]
      /\ counterCell' \in 0 .. Limit - 1
      /\ UNCHANGED <<cipher, copyOfKey, keyCell, ivCell, authKey, text, locked>>
  BY DEF UnsafeLockWith, Allocated
<1>2. call' # NoCall
  BY <1>1 DEF NoCall
<1>3. TypeOK' /\ IsFiniteSet(locked')
  BY <1>1, <1>2 DEF IInv, TypeOK, CipherKey, Stream, Byte
<1>4. Boxes'
  BY <1>1, BoxesKept DEF IInv
<1>5. Calls' /\ Cells' /\ Made'
  BY <1>1 DEF Calls, Cells, Made, Locking
<1>. QED  BY <1>3, <1>4, <1>5 DEF IInv

LEMMA UnlockStarts ==
  ASSUME IInv, NEW aad \in Aads, NEW k \in Keys, NEW packet \in Arriving,
         NEW type \in Types, UnlockWith(aad, k, packet, type)
  PROVE  IInv'
<1>1. /\ pc' = "key"
      /\ call' = [op |-> "unlock", key |-> k, nounce |-> packet.nounce, aad |-> aad,
                  packet |-> packet, type |-> type]
      /\ counterCell' \in 0 .. Limit - 1
      /\ UNCHANGED <<cipher, copyOfKey, keyCell, ivCell, authKey, text, locked>>
  BY DEF UnlockWith, Allocated
<1>2. call' # NoCall
  BY <1>1 DEF NoCall
<1>3. TypeOK' /\ IsFiniteSet(locked')
  BY <1>1, <1>2 DEF IInv, TypeOK, CipherKey, Stream, Byte
<1>4. Boxes'
  BY <1>1, BoxesKept DEF IInv
<1>5. Arriving' = Arriving
  BY <1>1 DEF Arriving
<1>6. Calls' /\ Cells' /\ Made'
  BY <1>1, <1>5 DEF Calls, Cells, Made, Unlocking
<1>. QED  BY <1>3, <1>4, <1>6 DEF IInv

(* A step in the middle of a call, which leaves the call as it is.         *)
LEMMA CallsKept ==
  ASSUME Calls, pc # "idle", pc' # "idle", UNCHANGED <<call, locked>>
  PROVE  Calls'
<1>1. Arriving' = Arriving
  BY DEF Arriving
<1>. QED  BY <1>1 DEF Calls, Locking, Unlocking

LEMMA KeyInitialised ==
  ASSUME IInv, InitialiseKey
  PROVE  IInv'
<1>1. /\ pc = "key" /\ pc' = "nounce"
      /\ UNCHANGED <<cipher, call, ivCell, counterCell, authKey, acc, text, locked>>
      /\ IF cipher = "xchacha20" THEN copyOfKey' = call.key /\ keyCell' = keyCell
         ELSE keyCell' = <<call.key, 0>> /\ copyOfKey' = copyOfKey
  BY DEF InitialiseKey
<1>2. call.key \in Keys /\ call # NoCall
  BY <1>1, CallFacts DEF IInv, TypeOK
<1>3. copyOfKey' \in Keys \cup {0} /\ keyCell' \in CipherKey
  BY <1>1, <1>2 DEF IInv, TypeOK, CipherKey
<1>4. TypeOK' /\ IsFiniteSet(locked')
  BY <1>1, <1>2, <1>3 DEF IInv, TypeOK, CipherKey, Stream, Byte
<1>5. Boxes' /\ Calls'
  BY <1>1, BoxesKept, CallsKept DEF IInv
<1>6. Cells' /\ Made'
  BY <1>1 DEF Cells, Made
<1>. QED  BY <1>4, <1>5, <1>6 DEF IInv

LEMMA AuthKeyType ==
  ASSUME NEW k \in Keys, NEW n \in Nounces
  PROVE  AuthKeyOf(k, n) \in [1 .. 2 * AuthBlock -> Byte]
<1>1. Limit \in Nat \ {0} /\ AuthBlock \in Nat
  BY AuthEncryptAssumption
<1>2. ASSUME NEW i \in 1 .. 2 * AuthBlock
      PROVE  {<<"stream", KeyOf(k, n), IvOf(n), 0, i - 1>>} \in Byte
  <2>1. i - 1 \in Nat /\ 0 \in 0 .. Limit - 1
    BY <1>1
  <2>2. <<"stream", KeyOf(k, n), IvOf(n), 0, i - 1>> \in Stream
    BY <2>1, KeyTypes DEF Stream
  <2>. QED  BY <2>2 DEF Byte
<1>. QED  BY <1>2 DEF AuthKeyOf

LEMMA NounceInitialised ==
  ASSUME IInv, InitialiseNounce
  PROVE  IInv'
<1>. DEFINE k == call.key
            n == call.nounce
<1>1. /\ pc = "nounce" /\ pc' = IF call.op = "lock" THEN "transform" ELSE "auth"
      /\ UNCHANGED <<cipher, call, copyOfKey, text, locked>>
      /\ acc' = << >> /\ counterCell' = 1 % Limit
      /\ IF cipher = "xchacha20"
         THEN keyCell' = <<copyOfKey, n[1]>> /\ ivCell' = <<0, n[2]>>
         ELSE ivCell' = n /\ keyCell' = keyCell
      /\ authKey' = [i \in 1 .. 2 * AuthBlock |-> {<<"stream", keyCell', ivCell', 0, i - 1>>}]
  BY DEF InitialiseNounce, KeyAuthenticator, BlockCounted
<1>2. k \in Keys /\ n \in Nounces /\ call # NoCall
      /\ (call.op = "lock" \/ call.op = "unlock")
  BY <1>1, CallFacts DEF IInv, TypeOK
<1>3. keyCell' = KeyOf(k, n) /\ ivCell' = IvOf(n)
  BY <1>1 DEF IInv, Cells, KeyOf, IvOf
<1>4. authKey' = AuthKeyOf(k, n)
  BY <1>1, <1>3 DEF AuthKeyOf
<1>5. /\ keyCell' \in CipherKey /\ ivCell' \in Nat \X Nat
      /\ authKey' \in [1 .. 2 * AuthBlock -> Byte]
  BY <1>2, <1>3, <1>4, KeyTypes, AuthKeyType
<1>6. counterCell' \in 0 .. Limit - 1
  <2>1. Limit \in Nat \ {0}
    BY AuthEncryptAssumption
  <2>. QED  BY <1>1, <2>1, QuotRem
<1>7. TypeOK' /\ IsFiniteSet(locked')
  BY <1>1, <1>2, <1>5, <1>6 DEF IInv, TypeOK, CipherKey, Stream, Byte
<1>8. Boxes' /\ Calls'
  BY <1>1, BoxesKept, CallsKept DEF IInv
<1>9. Cells'
  <2>1. /\ KeyOf(call.key, call.nounce)' = KeyOf(k, n)
        /\ IvOf(call.nounce)' = IvOf(n)
        /\ AuthKeyOf(call.key, call.nounce)' = AuthKeyOf(k, n)
    BY <1>1 DEF KeyOf, IvOf, AuthKeyOf
  <2>. QED  BY <1>1, <1>3, <1>4, <2>1 DEF Cells
<1>10. Made'
  BY <1>1, <1>2 DEF Made
<1>. QED  BY <1>7, <1>8, <1>9, <1>10 DEF IInv

(* transform makes the cipher text of the running call.                    *)
LEMMA TransformedIsCipherText ==
  ASSUME keyCell = KeyOf(call.key, call.nounce), ivCell = IvOf(call.nounce),
         counterCell = 1 % Limit, NEW bytes
  PROVE  Transformed(bytes) = CipherText(call.key, call.nounce, bytes)
BY DEF Transformed, StreamByte, CipherText, ByteOf

LEMMA AdvancedType ==
  ASSUME TypeOK, NEW bytes \in Seq(Byte)
  PROVE  Advanced(bytes) \in 0 .. Limit - 1
<1>1. /\ Limit \in Nat \ {0} /\ CipherBlock \in Nat \ {0} /\ counterCell \in Nat
      /\ Len(bytes) \in Nat
  BY AuthEncryptAssumption DEF TypeOK
<1>2. Len(bytes) + CipherBlock - 1 \in Nat
  BY <1>1
<1>3. atLeast(Len(bytes), CipherBlock) \in Nat
  BY <1>1, <1>2, QuotRem DEF atLeast
<1>4. counterCell + atLeast(Len(bytes), CipherBlock) \in Nat
  BY <1>1, <1>3
<1>. QED  BY <1>1, <1>4, QuotRem DEF Advanced

LEMMA Encrypted ==
  ASSUME IInv, Encrypt
  PROVE  IInv'
<1>1. /\ pc = "transform" /\ call.op = "lock" /\ pc' = "auth"
      /\ text' = Transformed(call.plain) /\ counterCell' = Advanced(call.plain)
      /\ UNCHANGED <<cipher, call, copyOfKey, keyCell, ivCell, authKey, acc, locked>>
  BY DEF Encrypt
<1>2. call.key \in Keys /\ call.nounce \in Nounces /\ call.plain \in Plains
      /\ call # NoCall
  BY <1>1, CallFacts, LockingFacts DEF IInv, TypeOK
<1>3. call.plain \in Seq(Byte)
  BY <1>2, PlainTypes
<1>4. text' = CipherText(call.key, call.nounce, call.plain)
  BY <1>1, TransformedIsCipherText DEF IInv, Cells, Made
<1>5. text' \in Seq(Byte) /\ counterCell' \in 0 .. Limit - 1
  BY <1>1, <1>2, <1>3, <1>4, CipherTextType, AdvancedType DEF IInv
<1>6. TypeOK' /\ IsFiniteSet(locked')
  BY <1>1, <1>2, <1>5 DEF IInv, TypeOK, CipherKey, Stream, Byte
<1>7. Boxes' /\ Calls'
  BY <1>1, BoxesKept, CallsKept DEF IInv
<1>8. Cells'
  BY <1>1 DEF IInv, Cells, KeyOf, IvOf, AuthKeyOf
<1>9. Made'
  <2>1. CipherText(call.key, call.nounce, call.plain)'
          = CipherText(call.key, call.nounce, call.plain)
    BY <1>1 DEF CipherText, ByteOf, KeyOf, IvOf
  <2>2. acc' = << >>
    BY <1>1 DEF IInv, Made
  <2>. QED  BY <1>1, <1>4, <2>1, <2>2 DEF Made
<1>. QED  BY <1>6, <1>7, <1>8, <1>9 DEF IInv

(* The tag of a call is made from its arguments alone.                     *)
LEMMA ComputedIsTag ==
  ASSUME authKey = AuthKeyOf(call.key, call.nounce), acc = << >>,
         call.aad \in Aads, NEW cText \in Seq(Byte)
  PROVE  ComputeAuth(cText) = TagOf(call.key, call.nounce, call.aad, cText)
<1>1. call.aad \in Seq(Byte)
  BY AadTypes
<1>2. << >> \o AuthWrite(call.aad, cText) = AuthWrite(call.aad, cText)
  BY <1>1, AuthWriteFacts
<1>. QED  BY <1>2 DEF ComputeAuth, TagOf

(* The memory is wiped at the end of a call.                               *)
LEMMA CallEnds ==
  ASSUME TypeOK, Ended, Cardinality(locked') <= MaxLocked
  PROVE  TypeOK' /\ Calls' /\ Cells' /\ Made'
<1>1. Limit \in Nat \ {0} /\ 0 \in 0 .. Limit - 1
  BY AuthEncryptAssumption
<1>2. /\ pc' = "idle" /\ call' = NoCall /\ cipher' = cipher
      /\ copyOfKey' = 0 /\ keyCell' = <<0, 0>> /\ ivCell' = <<0, 0>> /\ counterCell' = 0
      /\ authKey' = Zeros(2 * AuthBlock) /\ text' = << >>
  BY DEF Ended
<1>3. authKey' \in [1 .. 2 * AuthBlock -> Byte]
  BY <1>2 DEF Zeros, Zero, Byte
<1>4. TypeOK'
  BY <1>1, <1>2, <1>3 DEF TypeOK, CipherKey, Stream, Byte
<1>. QED  BY <1>2, <1>4 DEF Calls, Cells, Made

LEMMA Sealed ==
  ASSUME IInv, Seal
  PROVE  IInv'
<1>. DEFINE k == call.key
            n == call.nounce
            box == [key |-> k, aad |-> call.aad, plain |-> call.plain,
                    packet |-> [nounce |-> n, cText |-> text, tag |-> ComputeAuth(text)]]
<1>1. /\ pc = "auth" /\ call.op = "lock" /\ locked' = locked \cup {box} /\ Ended
      /\ cipher' = cipher
  BY DEF Seal, Ended
<1>2. /\ k \in Keys /\ n \in Nounces /\ call.aad \in Aads /\ call.plain \in Plains
      /\ Cardinality(locked) < MaxLocked
  BY <1>1, CallFacts, LockingFacts
<1>3. box = BoxOf(k, n, call.aad, call.plain)
  <2>1. text = CipherText(k, n, call.plain) /\ text \in Seq(Byte)
    BY <1>1 DEF IInv, Made, TypeOK
  <2>2. ComputeAuth(text) = TagOf(k, n, call.aad, text)
    BY <1>1, <1>2, <2>1, ComputedIsTag DEF IInv, Cells, Made
  <2>. QED  BY <2>1, <2>2 DEF BoxOf, PacketOf
<1>4. /\ IsFiniteSet(locked') /\ Cardinality(locked') <= MaxLocked
  <2>1. /\ IsFiniteSet(locked) /\ Cardinality(locked) \in Nat
        /\ IsFiniteSet(locked \cup {box})
        /\ Cardinality(locked \cup {box}) =
              IF box \in locked THEN Cardinality(locked) ELSE Cardinality(locked) + 1
    BY FS_AddElement, FS_CardinalityType DEF IInv
  <2>. HIDE DEF box
  <2>2. Cardinality(locked \cup {box}) <= MaxLocked
    BY <1>2, <2>1, AuthEncryptAssumption
  <2>. QED  BY <1>1, <2>1, <2>2
<1>5. Boxes'
  <2>. SUFFICES ASSUME NEW l \in locked'
                PROVE  \E j \in Keys, m \in Nounces, aad \in Aads, plain \in Plains :
                         l = BoxOf(j, m, aad, plain)'
    BY DEF Boxes
  <2>. HIDE DEF box, k, n
  <2>1. PICK j \in Keys, m \in Nounces, aad \in Aads, plain \in Plains :
           l = BoxOf(j, m, aad, plain)
    <3>1. CASE l \in locked
      BY <3>1 DEF IInv, Boxes
    <3>2. CASE l = box
      BY <1>2, <1>3, <3>2
    <3>. QED  BY <1>1, <3>1, <3>2
  <2>2. l = BoxOf(j, m, aad, plain)'
    BY <1>1, <2>1, BoxOfKept
  <2>. QED  BY <2>2
<1>6. TypeOK' /\ Calls' /\ Cells' /\ Made'
  BY <1>1, <1>4, CallEnds DEF IInv
<1>. QED  BY <1>4, <1>5, <1>6 DEF IInv

(* The tag of the packet is that of the arguments.                         *)
LEMMA Verifies ==
  ASSUME IInv, pc = "auth", call.op = "unlock"
  PROVE  ComputeAuth(call.packet.cText)
           = TagOf(call.key, call.nounce, call.aad, call.packet.cText)
<1>1. call.aad \in Aads /\ call.packet.cText \in Seq(Byte)
  BY CallFacts, UnlockingFacts DEF IInv
<1>2. Cells /\ Made
  BY DEF IInv
<1>3. authKey = AuthKeyOf(call.key, call.nounce)
  BY <1>2 DEF Cells
<1>4. acc = << >>
  BY <1>2 DEF Made
<1>. QED  BY <1>1, <1>3, <1>4, ComputedIsTag

LEMMA VerifyKeeps ==
  ASSUME IInv, VerifySucceeds
  PROVE  IInv'
<1>1. /\ pc = "auth" /\ call.op = "unlock" /\ pc' = "transform" /\ Verified
      /\ UNCHANGED <<cipher, call, cipherInternals, authKey, text, locked>>
  BY DEF VerifySucceeds
<1>2. call # NoCall
  BY <1>1 DEF IInv, TypeOK
<1>3. TypeOK' /\ IsFiniteSet(locked')
  BY <1>1, <1>2 DEF IInv, TypeOK, CipherKey, Stream, Byte, cipherInternals
<1>4. Boxes' /\ Calls'
  BY <1>1, BoxesKept, CallsKept DEF IInv
<1>5. Cells'
  BY <1>1 DEF IInv, Cells, KeyOf, IvOf, AuthKeyOf, cipherInternals
<1>6. Made'
  <2>1. call.packet.tag = TagOf(call.key, call.nounce, call.aad, call.packet.cText)
    BY <1>1, Verifies DEF Verified
  <2>2. TagOf(call.key, call.nounce, call.aad, call.packet.cText)'
          = TagOf(call.key, call.nounce, call.aad, call.packet.cText)
    BY <1>1 DEF TagOf, AuthKeyOf, KeyOf, IvOf
  <2>3. counterCell' = 1 % Limit
    BY <1>1 DEF IInv, Made, cipherInternals
  <2>. QED  BY <1>1, <2>1, <2>2, <2>3 DEF Made
<1>. QED  BY <1>3, <1>4, <1>5, <1>6 DEF IInv

LEMMA UnlockEnds ==
  ASSUME IInv, VerifyFails \/ Decrypt
  PROVE  IInv'
<1>1. Ended /\ UNCHANGED <<cipher, locked>>
  BY DEF VerifyFails, Decrypt, Ended
<1>2. TypeOK' /\ Calls' /\ Cells' /\ Made'
  BY <1>1, CallEnds DEF IInv, TypeOK
<1>. QED  BY <1>1, <1>2, BoxesKept DEF IInv

LEMMA InitIInv == Init => IInv
<1>. SUFFICES ASSUME Init PROVE IInv
  OBVIOUS
<1>1. Limit \in Nat \ {0} /\ 0 \in 0 .. Limit - 1 /\ MaxLocked \in Nat
  BY AuthEncryptAssumption
<1>2. IsFiniteSet({}) /\ Cardinality({}) = 0
  BY FS_EmptySet
<1>3. authKey \in [1 .. 2 * AuthBlock -> Byte]
  BY DEF Init, Zeros, Zero, Byte
<1>4. TypeOK
  BY <1>1, <1>2, <1>3 DEF Init, TypeOK, CipherKey
<1>. QED  BY <1>2, <1>4 DEF Init, IInv, Boxes, Calls, Cells, Made

LEMMA NextIInv == IInv /\ [Next]_vars => IInv'
<1>. SUFFICES ASSUME IInv, [Next]_vars PROVE IInv'
  OBVIOUS
<1>1. CASE UNCHANGED vars
  <2>1. UNCHANGED <<cipher, pc, call, copyOfKey, keyCell, ivCell, counterCell, authKey,
                    acc, text, locked>>
    BY <1>1 DEF vars, cipherInternals
  <2>2. TypeOK' /\ IsFiniteSet(locked') /\ Boxes'
    BY <2>1, BoxesKept DEF IInv, TypeOK, CipherKey, Stream, Byte
  <2>3. Calls'
    <3>1. Arriving' = Arriving
      BY <2>1 DEF Arriving
    <3>. QED  BY <2>1, <3>1 DEF IInv, Calls, Locking, Unlocking
  <2>4. Cells' /\ Made'
    BY <2>1 DEF IInv, Cells, Made, KeyOf, IvOf, AuthKeyOf, CipherText, ByteOf, TagOf
  <2>. QED  BY <2>2, <2>3, <2>4 DEF IInv
<1>. QED  BY <1>1, LockStarts, UnlockStarts, KeyInitialised, NounceInitialised, Encrypted,
             Sealed, VerifyKeeps, UnlockEnds DEF Next

LEMMA SpecIInv == Spec => []IInv
BY InitIInv, NextIInv, PTL DEF Spec

-----------------------------------------------------------------------------
\* The theorems.

(* The cells, texts and keys have their types, the number of the block     *)
(* stays in its cell, and the memory is wiped between calls.               *)
THEOREM TypeCorrect == Spec => []TypeOK
<1>1. IInv => TypeOK
  BY DEF IInv
<1>. QED  BY <1>1, SpecIInv, PTL

(* No byte of the key stream is used twice in a packet, and none that keys *)
(* the authenticator is used for a text: texts end before the counter of   *)
(* blocks comes back to zero.                                              *)
THEOREM StreamIsApart == Spec => []StreamApart
<1>1. IInv => StreamApart
  BY BoxesApart DEF IInv
<1>. QED  BY <1>1, SpecIInv, PTL

(* Nothing is decrypted that was not locked with the same key and the same *)
(* additional data.                                                        *)
LEMMA DecryptedWasLocked ==
  ASSUME IInv
  PROVE  OnlyAuthenticDecrypted
<1>. SUFFICES ASSUME pc = "transform", call.op = "unlock"
              PROVE  \E l \in locked :
                        l.key = call.key /\ l.aad = call.aad /\ l.packet = call.packet
  BY DEF OnlyAuthenticDecrypted
<1>1. /\ call.key \in Keys /\ call.aad \in Aads /\ call.packet \in Arriving
      /\ call.nounce = call.packet.nounce
  BY CallFacts, UnlockingFacts DEF IInv
<1>2. call.packet.tag = TagOf(call.key, call.packet.nounce, call.aad, call.packet.cText)
  BY <1>1 DEF IInv, Made
<1>. QED  BY <1>1, <1>2, VerifiedWasLocked DEF IInv

THEOREM OnlyLockedIsDecrypted == Spec => []OnlyAuthenticDecrypted
<1>1. IInv => OnlyAuthenticDecrypted
  BY DecryptedWasLocked
<1>. QED  BY <1>1, SpecIInv, PTL

(* What is decrypted, and parsed, is what was locked.                      *)
LEMMA OpenedIsPlain ==
  ASSUME IInv, Decrypt, NEW l \in locked,
         l.key = call.key, l.packet = call.packet
  PROVE  answer' = Parsed(l.plain)
<1>1. pc = "transform" /\ call.op = "unlock"
      /\ answer' = Parsed(Transformed(call.packet.cText))
  BY DEF Decrypt
<1>2. /\ l.key \in Keys /\ l.packet.nounce \in Nounces /\ l.plain \in Plains
      /\ l.packet.cText = CipherText(l.key, l.packet.nounce, l.plain)
  BY LockedFacts DEF IInv
<1>3. call.nounce = l.packet.nounce
  BY <1>1, CallFacts, UnlockingFacts DEF IInv
<1>4. Transformed(call.packet.cText) = CipherText(l.key, l.packet.nounce, l.packet.cText)
  BY <1>1, <1>3, TransformedIsCipherText DEF IInv, Cells, Made
<1>5. l.plain \in Seq(Byte)
  BY <1>2, PlainTypes
<1>. QED  BY <1>1, <1>2, <1>4, <1>5, Decrypted

(* An unlock answers with what was locked, or with Nothing if nothing was. *)
LEMMA UnlockAnswers ==
  ASSUME IInv, VerifyFails \/ Decrypt
  PROVE  Box!Answer
<1>1. /\ call.op = "unlock" /\ call' = NoCall /\ locked' = locked /\ pc # "idle"
  BY DEF VerifyFails, Decrypt, Ended
<1>2. call # NoCall /\ NoCall.op # "unlock"
  BY <1>1 DEF NoCall
<1>3. /\ call.key \in Keys /\ call.aad \in Aads /\ call.packet \in Arriving
  BY <1>1, CallFacts, UnlockingFacts DEF IInv
<1>. DEFINE Matching == {box \in locked : /\ box.key = call.key /\ box.aad = call.aad
                                         /\ box.packet = call.packet}
<1>4. CASE VerifyFails
  <2>1. pc = "auth" /\ answer' = Nothing /\ call.packet.tag # ComputeAuth(call.packet.cText)
    BY <1>4 DEF VerifyFails, Verified
  <2>2. ASSUME NEW l \in locked, l.key = call.key, l.aad = call.aad, l.packet = call.packet
        PROVE  FALSE
    <3>1. l.packet.tag = TagOf(l.key, l.packet.nounce, l.aad, l.packet.cText)
      BY LockedFacts DEF IInv
    <3>2. call.nounce = call.packet.nounce
      BY <1>1, CallFacts, UnlockingFacts DEF IInv
    <3>. QED  BY <1>1, <2>1, <2>2, <3>1, <3>2, Verifies
  <2>3. Matching = {}
    BY <2>2
  <2>. QED  BY <1>1, <1>2, <2>1, <2>3 DEF Box!Answer, Box!Matching
<1>5. CASE Decrypt
  <2>1. Matching # {}
    <3>1. pc = "transform"
      BY <1>5 DEF Decrypt
    <3>2. OnlyAuthenticDecrypted
      BY DecryptedWasLocked
    <3>. QED  BY <1>1, <3>1, <3>2 DEF OnlyAuthenticDecrypted
  <2>2. \A box \in Matching : answer' = IF Parses(call.type, box.plain) THEN box.plain ELSE Nothing
    BY <1>5, OpenedIsPlain DEF Parsed
  <2>. QED  BY <1>1, <1>2, <2>1, <2>2 DEF Box!Answer, Box!Matching
<1>. QED  BY <1>4, <1>5

(* Every step is one of the box, or stutters.                              *)
LEMMA StepRefines == IInv /\ [Next]_vars => [Box!Next]_(Box!vars)
<1>. SUFFICES ASSUME IInv, [Next]_vars PROVE [Box!Next]_(Box!vars)
  OBVIOUS
<1>1. NoCall.op = "none"
  BY DEF NoCall
<1>2. ASSUME NEW aad \in Aads, NEW k \in Keys, NEW n \in Nounces, NEW plain \in Plains,
             UnsafeLockWith(aad, k, n, plain)
      PROVE  UNCHANGED Box!vars
  <2>1. call = NoCall /\ call'.op = "lock" /\ UNCHANGED <<locked, answer>>
    BY <1>2, CallFacts DEF UnsafeLockWith
  <2>. QED  BY <1>1, <2>1 DEF Box!vars
<1>3. ASSUME NEW aad \in Aads, NEW k \in Keys, NEW packet \in Arriving,
             NEW type \in Types, UnlockWith(aad, k, packet, type)
      PROVE  Box!Ask
  <2>1. call = NoCall /\ call'.op = "unlock" /\ answer' = NoAnswer /\ locked' = locked
    BY <1>3, CallFacts DEF UnlockWith
  <2>. QED  BY <1>1, <2>1 DEF Box!Ask
<1>4. CASE InitialiseKey \/ InitialiseNounce \/ Encrypt \/ VerifySucceeds \/ UNCHANGED vars
  <2>1. UNCHANGED <<call, locked, answer>>
    BY <1>4 DEF InitialiseKey, InitialiseNounce, Encrypt, VerifySucceeds, vars
  <2>. QED  BY <2>1 DEF Box!vars
<1>5. CASE Seal
  <2>1. call.op = "lock" /\ call' = NoCall /\ answer' = answer
    BY <1>5 DEF Seal, Ended
  <2>2. PICK box : locked' = locked \cup {box}
    BY <1>5 DEF Seal
  <2>. QED  BY <1>1, <2>1, <2>2 DEF Box!Next, Box!Lock
<1>6. CASE VerifyFails \/ Decrypt
  BY <1>6, UnlockAnswers DEF Box!Next
<1>. QED  BY <1>2, <1>3, <1>4, <1>5, <1>6 DEF Next, Box!Next

(* Lock and unlock implement the sealed box: a packet opens for the key    *)
(* and the additional data of a lock, and then yields what was locked, if  *)
(* it is an encoding of the type that is asked for.                        *)
THEOREM BoxRefined == Spec => ImplementsSealedBox
<1>1. Init => Box!Init
  BY DEF Init, Box!Init, NoCall
<1>. QED  BY <1>1, SpecIInv, StepRefines, PTL DEF Spec, ImplementsSealedBox, Box!Spec

=============================================================================
