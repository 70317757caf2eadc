--------------------------- MODULE PaddingProofs ---------------------------
(***************************************************************************)
(* Lemmas about the paddings, for every block size and footer size: how    *)
(* much a padding writes, and when padding the tail of a message is the    *)
(* same as padding the message.                                            *)
(***************************************************************************)
EXTENDS Padding, SequenceTheorems, TLAPS

(* m bytes are q whole blocks and r bytes more.                            *)
Splits(m, q, r) ==
  /\ q \in Int
  /\ r \in 0 .. BlockBytes - 1
  /\ m = BlockBytes * q + r

(* Quotient and remainder split a length.                                  *)
LEMMA QuotRem ==
  ASSUME NEW m \in Nat
  PROVE  /\ Splits(m, m \div BlockBytes, m % BlockBytes)
         /\ m \div BlockBytes \in Nat
         /\ m % BlockBytes \in 0 .. BlockBytes - 1
BY LengthAssumption DEF Splits

(* A length splits in one way.                                             *)
LEMMA SplitsUnique ==
  ASSUME NEW m, NEW q, NEW p, NEW r, NEW s,
         Splits(m, q, r), Splits(m, p, s)
  PROVE  q = p /\ r = s
<1>. /\ BlockBytes \in Nat \ {0}
     /\ q \in Int /\ r \in 0 .. BlockBytes - 1
     /\ p \in Int /\ s \in 0 .. BlockBytes - 1
     /\ BlockBytes * q + r = BlockBytes * p + s
  BY LengthAssumption DEF Splits
<1>1. CASE q < p
  <2>1. BlockBytes * (p - q) >= BlockBytes
    BY <1>1
  <2>2. BlockBytes * (p - q) = r - s
    OBVIOUS
  <2>. QED  BY <2>1, <2>2
<1>2. CASE p < q
  <2>1. BlockBytes * (q - p) >= BlockBytes
    BY <1>2
  <2>2. BlockBytes * (q - p) = s - r
    OBVIOUS
  <2>. QED  BY <2>1, <2>2
<1>3. CASE p = q
  BY <1>3
<1>. QED  BY <1>1, <1>2, <1>3

(* Whole blocks in front do not change a remainder.                        *)
LEMMA RemAfterBlocks ==
  ASSUME NEW a \in Nat, NEW m \in Nat, a % BlockBytes = 0
  PROVE  (a + m) % BlockBytes = m % BlockBytes
<1>1. PICK q \in Int : a = BlockBytes * q
  <2>1. a \div BlockBytes \in Int /\ a = BlockBytes * (a \div BlockBytes)
    BY QuotRem, LengthAssumption DEF Splits
  <2>. QED  BY <2>1, Zenon
<1>2. PICK p \in Int, r \in 0 .. BlockBytes - 1 :
         m = BlockBytes * p + r /\ r = m % BlockBytes
  <2>1. /\ m \div BlockBytes \in Int
        /\ m % BlockBytes \in 0 .. BlockBytes - 1
        /\ m = BlockBytes * (m \div BlockBytes) + (m % BlockBytes)
    BY QuotRem DEF Splits
  <2>. QED  BY <2>1, Zenon
<1>3. a + m = BlockBytes * (q + p) + r
  BY <1>1, <1>2, LengthAssumption
<1>4. Splits(a + m, q + p, r)
  BY <1>3 DEF Splits
<1>5. Splits(a + m, (a + m) \div BlockBytes, (a + m) % BlockBytes)
  BY QuotRem, a + m \in Nat
<1>. QED  BY <1>2, <1>4, <1>5, SplitsUnique

(* A multiple of the block size has remainder zero.                        *)
LEMMA BlocksHaveNoRem ==
  ASSUME NEW k \in Nat
  PROVE  (k * BlockBytes) % BlockBytes = 0
<1>. DEFINE m == k * BlockBytes
<1>1. m \in Nat /\ Splits(m, k, 0)
  BY LengthAssumption DEF Splits
<1>. HIDE DEF m
<1>2. Splits(m, m \div BlockBytes, m % BlockBytes)
  BY <1>1, QuotRem
<1>3. m % BlockBytes = 0
  BY <1>1, <1>2, SplitsUnique
<1>. QED  BY <1>3 DEF m

(* The glue is shorter than a block.                                       *)
LEMMA GlueType ==
  ASSUME NEW h \in Nat, NEW f \in Nat
  PROVE  Glue(h, f) \in 0 .. BlockBytes - 1
<1>1. (h + f) % BlockBytes \in 0 .. BlockBytes - 1
  BY QuotRem, h + f \in Nat
<1>. QED  BY <1>1, LengthAssumption DEF Glue

(* A padding writes nothing but what is behind the n bytes, and less than  *)
(* a block more than the mark and the footer need.                         *)
LEMMA PaddedSizeBounds ==
  ASSUME NEW n \in Nat
  PROVE  /\ PaddedSize(n) \in Nat
         /\ n <= PaddedSize(n)
         /\ PaddedSize(n) <= n + BlockBytes + LengthBytes
<1>1. Glue(n, 0) \in 0 .. BlockBytes - 1
  BY GlueType
<1>2. Glue(n + 1, LengthBytes) \in 0 .. BlockBytes - 1
  BY GlueType, PaddingAssumption, n + 1 \in Nat
<1>. QED  BY <1>1, <1>2, LengthAssumption, PaddingAssumption
          DEF PaddedSize, Blake2PaddedSize, Sha2PaddedSize

(* The glue fills up to whole blocks.                                      *)
LEMMA GlueFills ==
  ASSUME NEW h \in Nat, NEW f \in Nat
  PROVE  \E m \in Int : h + f + Glue(h, f) = BlockBytes * m
<1>1. PICK q \in Int, r \in 0 .. BlockBytes - 1 :
         h + f = BlockBytes * q + r /\ r = (h + f) % BlockBytes
  <2>1. h + f \in Nat
    OBVIOUS
  <2>2. /\ (h + f) \div BlockBytes \in Int
        /\ (h + f) % BlockBytes \in 0 .. BlockBytes - 1
        /\ h + f = BlockBytes * ((h + f) \div BlockBytes) + ((h + f) % BlockBytes)
    BY <2>1, QuotRem DEF Splits
  <2>. QED  BY <2>2, Zenon
<1>2. CASE r = 0
  <2>1. h + f + Glue(h, f) = BlockBytes * q
    BY <1>1, <1>2, LengthAssumption DEF Glue
  <2>. QED  BY <2>1
<1>3. CASE r > 0
  <2>1. h + f + Glue(h, f) = BlockBytes * (q + 1)
    BY <1>1, <1>3, LengthAssumption DEF Glue
  <2>. QED  BY <2>1, q + 1 \in Int
<1>. QED  BY <1>2, <1>3

(* One more block is room enough for the padding of whole blocks.          *)
LEMMA PaddingNeedsOneBlock ==
  ASSUME NEW k \in Nat, NEW n \in Nat, n <= k * BlockBytes
  PROVE  PaddedSize(n) <= k * BlockBytes + 1 * BlockBytes
<1>1. CASE Scheme = "blake2"
  <2>1. Glue(n, 0) \in 0 .. BlockBytes - 1
    BY GlueType
  <2>2. k * BlockBytes \in Nat
    BY LengthAssumption
  <2>. HIDE DEF Glue
  <2>. QED  BY <1>1, <2>1, <2>2, LengthAssumption DEF PaddedSize, Blake2PaddedSize
<1>2. CASE Scheme = "sha2"
  <2>. DEFINE g == Glue(n + 1, LengthBytes)
  <2>1. LengthBytes \in Nat /\ n + 1 \in Nat /\ 1 + LengthBytes <= BlockBytes
    BY PaddingAssumption, LengthAssumption
  <2>2. g \in 0 .. BlockBytes - 1
    BY <2>1, GlueType
  <2>3. PICK m \in Int : n + 1 + LengthBytes + g = BlockBytes * m
    BY <2>1, GlueFills
  <2>4. PaddedSize(n) = BlockBytes * m
    BY <1>2, <2>1, <2>2, <2>3 DEF PaddedSize, Sha2PaddedSize
  <2>. HIDE DEF g
  <2>5. BlockBytes * m <= BlockBytes * k + BlockBytes + (BlockBytes - 1)
    BY <2>1, <2>2, <2>3, LengthAssumption
  <2>6. m <= k + 1
    <3>1. CASE m - k - 2 >= 0
      <4>1. BlockBytes * (m - k - 2) >= 0
        BY <3>1, LengthAssumption
      <4>. QED  BY <2>5, <4>1, LengthAssumption
    <3>. QED  BY <3>1
  <2>7. BlockBytes * (k + 1 - m) >= 0
    BY <2>6, LengthAssumption
  <2>. QED  BY <2>4, <2>7, LengthAssumption
<1>. QED  BY <1>1, <1>2, PaddingAssumption

(* A blake2 message is padded to at least one block.                       *)
LEMMA Blake2PaddedSizeAtLeastBlock ==
  ASSUME NEW n \in Nat
  PROVE  /\ Blake2PaddedSize(n) \in Nat
         /\ Blake2PaddedSize(n) >= BlockBytes
         /\ atMost(Blake2PaddedSize(n)) \in Nat \ {0}
<1>1. Blake2PaddedSize(n) \in Nat /\ Blake2PaddedSize(n) >= BlockBytes
  <2>1. CASE n = 0
    BY <2>1, LengthAssumption DEF Blake2PaddedSize
  <2>2. CASE n > 0
    <3>1. PICK q \in Int, r \in 0 .. BlockBytes - 1 :
             n = BlockBytes * q + r /\ r = n % BlockBytes
      <4>1. /\ n \div BlockBytes \in Int
            /\ n % BlockBytes \in 0 .. BlockBytes - 1
            /\ n = BlockBytes * (n \div BlockBytes) + (n % BlockBytes)
        BY QuotRem DEF Splits
      <4>. QED  BY <4>1, Zenon
    <3>2. q >= 0
      <4>1. CASE q <= -1
        <5>1. BlockBytes * q <= -BlockBytes
          BY <4>1, LengthAssumption
        <5>. QED  BY <3>1, <5>1, LengthAssumption
      <4>. QED  BY <4>1
    <3>3. CASE r = 0
      <4>1. q >= 1
        BY <2>2, <3>1, <3>2, <3>3, LengthAssumption
      <4>2. BlockBytes * q >= BlockBytes
        BY <4>1, LengthAssumption
      <4>. QED  BY <2>2, <3>1, <3>3, <4>2, LengthAssumption DEF Blake2PaddedSize, Glue
    <3>4. CASE r > 0
      <4>1. BlockBytes * q >= 0
        BY <3>2, LengthAssumption
      <4>2. Glue(n, 0) = BlockBytes - r
        BY <3>1, <3>4 DEF Glue
      <4>. QED  BY <2>2, <3>1, <4>1, <4>2, LengthAssumption DEF Blake2PaddedSize
    <3>. QED  BY <3>3, <3>4
  <2>. QED  BY <2>1, <2>2
<1>. DEFINE m == Blake2PaddedSize(n)
<1>2. m \in Nat /\ m >= BlockBytes
  BY <1>1
<1>. HIDE DEF m
<1>3. m \div BlockBytes \in Nat \ {0}
  BY <1>2, LengthAssumption
<1>. QED  BY <1>1, <1>3 DEF m, atMost

(* Padding a tail behind whole blocks: the size is that of the padded      *)
(* whole, except for blake2 if nothing is left for the tail.               *)
LEMMA PaddedSizeAfterBlocks ==
  ASSUME NEW a \in Nat, NEW n \in Nat, a % BlockBytes = 0,
         Scheme = "sha2" \/ n > 0 \/ a = 0
  PROVE  PaddedSize(a + n) = a + PaddedSize(n)
<1>1. CASE Scheme = "sha2"
  <2>1. (a + (n + 1 + LengthBytes)) % BlockBytes = (n + 1 + LengthBytes) % BlockBytes
    BY RemAfterBlocks, PaddingAssumption, n + 1 + LengthBytes \in Nat
  <2>2. Glue(a + n + 1, LengthBytes) = Glue(n + 1, LengthBytes)
    <3>1. (a + n + 1) + LengthBytes = a + (n + 1 + LengthBytes)
      BY PaddingAssumption
    <3>. QED  BY <2>1, <3>1 DEF Glue
  <2>3. Glue(n + 1, LengthBytes) \in Nat
    BY GlueType, PaddingAssumption, LengthAssumption, n + 1 \in Nat
  <2>4. PaddedSize(a + n) = a + n + 1 + Glue(a + n + 1, LengthBytes) + LengthBytes
    BY <1>1 DEF PaddedSize, Sha2PaddedSize
  <2>5. PaddedSize(n) = n + 1 + Glue(n + 1, LengthBytes) + LengthBytes
    BY <1>1 DEF PaddedSize, Sha2PaddedSize
  <2>. QED  BY <2>2, <2>3, <2>4, <2>5, PaddingAssumption
<1>2. CASE Scheme = "blake2" /\ n > 0
  <2>1. (a + n) % BlockBytes = n % BlockBytes
    BY RemAfterBlocks
  <2>2. Glue(a + n, 0) = Glue(n, 0)
    BY <2>1 DEF Glue
  <2>3. Glue(n, 0) \in Nat
    BY GlueType, LengthAssumption
  <2>. QED  BY <1>2, <2>2, <2>3 DEF PaddedSize, Blake2PaddedSize
<1>3. CASE Scheme = "blake2" /\ a = 0
  <2>1. PaddedSize(n) \in Nat
    BY PaddedSizeBounds
  <2>. QED  BY <1>3, <2>1
<1>. QED  BY <1>1, <1>2, <1>3, PaddingAssumption

(* What padding makes of a sequence.                                       *)
LEMMA PadType ==
  ASSUME NEW S, PadSymbol \subseteq S, NEW bytes \in Seq(S)
  PROVE  /\ Pad(bytes) \in Seq(S)
         /\ Len(Pad(bytes)) = PaddedSize(Len(bytes))
         /\ \A i \in 1 .. PaddedSize(Len(bytes)) :
               Pad(bytes)[i] = IF i <= Len(bytes) THEN bytes[i]
                               ELSE PadByte(Len(bytes), i)
<1>. DEFINE n == Len(bytes)
<1>1. n \in Nat /\ PaddedSize(n) \in Nat
  BY PaddedSizeBounds
<1>2. \A i \in 1 .. PaddedSize(n) : PadByte(n, i) \in S
  BY DEF PadByte, PadSymbol
<1>. QED  BY <1>1, <1>2 DEF Pad

(* Whatever comes before the message stays before it.                      *)
LEMMA PaddedBegins ==
  ASSUME NEW S, PadSymbol \subseteq S, NEW a \in Seq(S), NEW m \in Seq(S)
  PROVE  SubSeq(a \o Pad(m), 1, Len(a) + Len(m)) = a \o m
<1>. DEFINE p == Pad(m)
            k == Len(a)
            n == Len(m)
<1>1. k \in Nat /\ n \in Nat /\ PaddedSize(n) \in Nat /\ n <= PaddedSize(n)
  BY PaddedSizeBounds, SMTT(20)
<1>2. p \in Seq(S) /\ Len(p) = PaddedSize(n)
  BY PadType
<1>3. \A i \in 1 .. n : p[i] = m[i]
  BY <1>1 DEF Pad
<1>. HIDE DEF p
<1>. DEFINE l == SubSeq(a \o p, 1, k + n)
            r == a \o m
<1>4. /\ a \o p \in Seq(S) /\ Len(a \o p) = k + Len(p)
      /\ \A i \in 1 .. k + Len(p) : (a \o p)[i] = IF i <= k THEN a[i] ELSE p[i - k]
  BY <1>1, <1>2
<1>5. /\ r \in Seq(S) /\ Len(r) = k + n
      /\ \A i \in 1 .. k + n : r[i] = IF i <= k THEN a[i] ELSE m[i - k]
  BY <1>1
<1>. DEFINE q == a \o p
<1>6. q \in Seq(S) /\ Len(q) = k + Len(p)
  BY <1>4
<1>. HIDE DEF q, r
<1>7. /\ SubSeq(q, 1, k + n) \in Seq(S) /\ Len(SubSeq(q, 1, k + n)) = k + n
      /\ \A i \in 1 .. k + n : SubSeq(q, 1, k + n)[i] = q[i]
  BY <1>1, <1>2, <1>6
<1>8. \A i \in 1 .. k + n : l[i] = r[i]
  <2>. TAKE i \in 1 .. k + n
  <2>1. i \in 1 .. k + Len(p)
    BY <1>1, <1>2
  <2>2. q[i] = IF i <= k THEN a[i] ELSE p[i - k]
    BY <1>4, <2>1 DEF q
  <2>3. i > k => p[i - k] = m[i - k]
    <3>1. i > k => i - k \in 1 .. n
      BY <1>1
    <3>. QED  BY <1>3, <3>1
  <2>4. l[i] = q[i]
    BY <1>7 DEF q
  <2>5. r[i] = IF i <= k THEN a[i] ELSE m[i - k]
    BY <1>5
  <2>6. i \in Int /\ k \in Int
    BY <1>1
  <2>. HIDE DEF l, k, n
  <2>. QED  BY <2>2, <2>3, <2>4, <2>5, <2>6
<1>9. l \in Seq(S) /\ Len(l) = k + n
  BY <1>7 DEF q
<1>. HIDE DEF l
<1>10. l = r
  BY <1>1, <1>5, <1>8, <1>9
<1>. QED  BY <1>10 DEF p, l, r

(* Padding the tail of a message is padding the message, except for blake2 *)
(* if nothing is left for the tail.                                        *)
LEMMA PadTail ==
  ASSUME NEW S, PadSymbol \subseteq S,
         NEW front \in Seq(S), NEW tail \in Seq(S),
         Len(front) % BlockBytes = 0,
         Scheme = "sha2" \/ Len(tail) > 0 \/ Len(front) = 0
  PROVE  front \o Pad(tail) = Pad(front \o tail)
<1>. DEFINE a == Len(front)
            n == Len(tail)
<1>1. a \in Nat /\ n \in Nat /\ Len(front \o tail) = a + n
  OBVIOUS
<1>2. /\ PaddedSize(n) \in Nat /\ n <= PaddedSize(n)
      /\ PaddedSize(a + n) = a + PaddedSize(n)
  BY <1>1, PaddedSizeBounds, PaddedSizeAfterBlocks
<1>3. \A i \in 1 .. PaddedSize(n) : PadByte(a + n, a + i) = PadByte(n, i)
  BY <1>1, <1>2, PaddingAssumption, SMTT(20) DEF PadByte
<1>4. /\ Pad(tail) \in Seq(S)
      /\ Len(Pad(tail)) = PaddedSize(n)
      /\ \A i \in 1 .. PaddedSize(n) :
            Pad(tail)[i] = IF i <= n THEN tail[i] ELSE PadByte(n, i)
  BY PadType
<1>5. /\ Pad(front \o tail) \in Seq(S)
      /\ Len(Pad(front \o tail)) = a + PaddedSize(n)
      /\ \A i \in 1 .. a + PaddedSize(n) :
            Pad(front \o tail)[i] =
              IF i <= a + n THEN (front \o tail)[i] ELSE PadByte(a + n, i)
  BY <1>1, <1>2, PadType, front \o tail \in Seq(S)
<1>6. /\ front \o Pad(tail) \in Seq(S)
      /\ Len(front \o Pad(tail)) = a + PaddedSize(n)
  BY <1>4, ConcatProperties
<1>7. ASSUME NEW i \in 1 .. a + PaddedSize(n)
      PROVE  (front \o Pad(tail))[i] = Pad(front \o tail)[i]
  <2>1. CASE i <= a
    <3>1. (front \o Pad(tail))[i] = front[i] /\ (front \o tail)[i] = front[i]
      BY <1>1, <1>4, <2>1
    <3>. QED  BY <1>1, <1>5, <2>1, <3>1
  <2>2. CASE ~(i <= a)
    <3>. DEFINE j == i - a
    <3>1. j \in 1 .. PaddedSize(n) /\ i = a + j
      BY <1>1, <1>2, <2>2
    <3>2. (front \o Pad(tail))[i] = Pad(tail)[j]
      BY <1>1, <1>4, <2>2, <3>1
    <3>3. j <= n => (front \o tail)[i] = tail[j]
      BY <1>1, <2>2, <3>1
    <3>4. PadByte(a + n, i) = PadByte(n, j)
      BY <1>3, <3>1
    <3>5. i <= a + n <=> j <= n
      BY <1>1, <3>1
    <3>. QED  BY <1>4, <1>5, <3>1, <3>2, <3>3, <3>4, <3>5, Zenon
  <2>. QED  BY <2>1, <2>2
<1>. QED  BY <1>5, <1>6, <1>7, SeqEqual
=============================================================================
