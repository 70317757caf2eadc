--------------------------- MODULE KeyedMacProofs ---------------------------
(***************************************************************************)
(* Proofs about the keyed hash, for blocks, hashes, keys and messages of   *)
(* every size: the key that is not empty is hashed once and before the     *)
(* message, and the session implements the abstract one.                   *)
(*                                                                         *)
(* The invariant beyond the types is KeyThenMessage, with the facts that   *)
(* the hash has consumed whole blocks and that the flag is down only when  *)
(* some of the message has been consumed (Underway).                       *)
(***************************************************************************)
EXTENDS KeyedMac, PaddingProofs

\* Facts about sequences.

LEMMA ConcatAssoc ==
  ASSUME NEW a \in Seq(Int), NEW b \in Seq(Int), NEW c \in Seq(Int)
  PROVE  (a \o b) \o c = a \o (b \o c)
BY SMTT(20)

LEMMA ConcatEmpty ==
  ASSUME NEW a \in Seq(Int)
  PROVE  a \o << >> = a /\ << >> \o a = a
OBVIOUS

LEMMA ConcatType ==
  ASSUME NEW a \in Seq(Int), NEW b \in Seq(Int)
  PROVE  /\ a \o b \in Seq(Int) /\ Len(a \o b) = Len(a) + Len(b)
         /\ Len(a) \in Nat /\ Len(b) \in Nat
OBVIOUS

\* Facts about keys.

(* A key is a number of bytes between none and the size of the hash.       *)
LEMMA TrimType ==
  ASSUME NEW id \in KeyIds, NEW n \in KeyLengths
  PROVE  /\ trim(id, n) \in Seq(Int)
         /\ Len(trim(id, n)) \in 0 .. HashBytes
         /\ n # 0 => trim(id, n) # << >>
<1>. DEFINE m == IF n < HashBytes THEN n ELSE HashBytes
<1>1. m \in 0 .. HashBytes /\ id \in Int /\ (n # 0 => m # 0)
  BY KeyedMacAssumption
<1>2. \A i \in 1 .. m : KeyByte(id, i) \in Int
  BY <1>1, LengthAssumption DEF KeyByte
<1>. HIDE DEF m
<1>3. /\ [i \in 1 .. m |-> KeyByte(id, i)] \in Seq(Int)
      /\ Len([i \in 1 .. m |-> KeyByte(id, i)]) = m
  BY <1>1, <1>2
<1>. QED  BY <1>1, <1>3 DEF trim, m

(* What is written of a key fills the block, unless the key is empty.      *)
LEMMA KeyWriteFills ==
  ASSUME NEW k \in Seq(Int), Len(k) <= HashBytes
  PROVE  /\ KeyWrite(k) \in Seq(Int)
         /\ Len(KeyWrite(k)) \in 0 .. BlockBytes
         /\ k # << >> => Len(KeyWrite(k)) = BlockBytes
<1>. DEFINE n == Len(k)
            g == Glue(n, 0)
<1>1. n \in Nat /\ n <= BlockBytes /\ (k # << >> => n > 0)
  <2>1. Len(k) \in Nat /\ HashBytes \in 1 .. BlockBytes /\ (k # << >> => Len(k) > 0)
    BY KeyedMacAssumption
  <2>. QED  BY <2>1, LengthAssumption
<1>2. g = IF n % BlockBytes > 0 THEN BlockBytes - (n % BlockBytes) ELSE 0
  BY <1>1 DEF Glue
<1>3. n % BlockBytes = IF n = BlockBytes THEN 0 ELSE n
  BY <1>1, LengthAssumption
<1>4. g \in Nat /\ n + g \in 0 .. BlockBytes /\ (n > 0 => n + g = BlockBytes)
  BY <1>1, <1>2, <1>3, LengthAssumption
<1>. HIDE DEF g
<1>5. /\ [i \in 1 .. g |-> ZeroByte] \in Seq(Int)
      /\ Len([i \in 1 .. g |-> ZeroByte]) = g
  BY <1>4 DEF ZeroByte
<1>. QED  BY <1>1, <1>4, <1>5 DEF KeyWrite, g

(* The two modules agree on the block of a key.                            *)
LEMMA KeyBlockIsWritten ==
  ASSUME NEW k
  PROVE  Session!KeyBlock(k) = KeyWrite(k)
BY DEF Session!KeyBlock, KeyWrite, Session!Glue, Glue, Session!ZeroByte, ZeroByte

(* The bytes that arrive next.                                             *)
LEMMA ArrivingType ==
  ASSUME message \in Seq(Nat \ {0}), NEW n \in Nat
  PROVE  /\ Arriving(n) \in Seq(Nat \ {0})
         /\ Len(Arriving(n)) = n
         /\ message \o Arriving(n) \in Seq(Nat \ {0})
         /\ Len(message \o Arriving(n)) = Len(message) + n
<1>1. \A i \in 1 .. n : Len(message) + i \in Nat \ {0}
  OBVIOUS
<1>2. Arriving(n) \in Seq(Nat \ {0}) /\ Len(Arriving(n)) = n
  BY <1>1 DEF Arriving
<1>. QED  BY <1>2, SMTT(20)

-----------------------------------------------------------------------------
Underway ==
  pc = "open" =>
    /\ Len(internals.data) % BlockBytes = 0
    /\ ~atStart => message # << >>

IInv == TypeOK /\ KeyThenMessage /\ Underway

LEMMA InitIInv == Init => IInv
<1>. SUFFICES ASSUME Init PROVE IInv
  OBVIOUS
<1>1. TypeOK
  BY KeyedMacAssumption, LengthAssumption DEF Init, TypeOK, Fresh, Record, Unwritten
<1>. QED  BY <1>1 DEF Init, IInv, KeyThenMessage, Underway

(* A session that starts covers all that the key buffer held before, by a  *)
(* key that is not empty.                                                  *)
LEMMA InitialiseIInv ==
  ASSUME IInv, NEW id \in KeyIds, NEW n \in KeyLengths, Initialise(id, n)
  PROVE  IInv'
<1>. DEFINE w == KeyWrite(key')
<1>1. /\ key' \in Seq(Int) /\ Len(key') \in 0 .. HashBytes
      /\ key' = trim(id, n)
  BY TrimType DEF Initialise
<1>2. /\ w \in Seq(Int) /\ Len(w) \in 0 .. BlockBytes
      /\ key' # << >> => Len(w) = BlockBytes
  BY <1>1, KeyWriteFills
<1>. HIDE DEF w
<1>3. keyBuffer' = w \o SubSeq(keyBuffer, Len(w) + 1, BlockBytes)
  BY DEF Initialise, w
<1>4. keyBuffer \in Seq(Int) /\ Len(keyBuffer) = BlockBytes
  BY LengthAssumption DEF IInv, TypeOK
<1>5. /\ SubSeq(keyBuffer, Len(w) + 1, BlockBytes) \in Seq(Int)
      /\ Len(SubSeq(keyBuffer, Len(w) + 1, BlockBytes)) = BlockBytes - Len(w)
  BY <1>2, <1>4, LengthAssumption
<1>6. keyBuffer' \in Seq(Int) /\ Len(keyBuffer') = BlockBytes
  BY <1>2, <1>3, <1>5, LengthAssumption
<1>7. key' # << >> => keyBuffer' = w
  BY <1>2, <1>3, <1>5
<1>8. TypeOK'
  <2>1. keyBuffer' \in [1 .. BlockBytes -> Int]
    BY <1>6
  <2>2. internals' \in Record
    BY DEF Initialise, Fresh, Record
  <2>3. message' \in Seq(Nat \ {0}) /\ tag' = NoTag /\ pc' = "open" /\ atStart' = TRUE
        /\ hash0' = Len(key')
    BY DEF Initialise
  <2>. QED  BY <1>1, <2>1, <2>2, <2>3 DEF TypeOK
<1>9. KeyThenMessage'
  <2>1. key' # << >> => keyBuffer' = Session!KeyBlock(key')
    BY <1>7, KeyBlockIsWritten DEF w
  <2>. QED  BY <2>1 DEF Initialise, KeyThenMessage, Fresh
<1>10. Underway'
  <2>1. 0 % BlockBytes = 0
    BY LengthAssumption
  <2>. QED  BY <2>1 DEF Initialise, Underway, Fresh
<1>. QED  BY <1>8, <1>9, <1>10 DEF IInv

(* What the hash has consumed when bytes other than the key arrive.        *)
KeyedInternals == IF atStart THEN ProcessedBy(internals, keyBuffer) ELSE internals

LEMMA KeyedInternalsFacts ==
  ASSUME IInv, pc = "open"
  PROVE  /\ KeyedInternals \in Record
         /\ Len(KeyedInternals.data) % BlockBytes = 0
         /\ key # << >> => /\ KeyedInternals.data = Session!KeyBlock(key) \o message
                           /\ KeyedInternals.length = Len(KeyedInternals.data)
<1>. TypeOK /\ KeyThenMessage /\ Underway
  BY DEF IInv
<1>1. internals.data \in Seq(Int) /\ internals.length \in Nat
  BY DEF TypeOK, Record
<1>2. keyBuffer \in Seq(Int) /\ Len(keyBuffer) = BlockBytes
  BY LengthAssumption DEF TypeOK
<1>3. CASE ~atStart
  BY <1>1, <1>3 DEF KeyedInternals, KeyThenMessage, Underway, TypeOK
<1>4. CASE atStart
  <2>1. /\ KeyedInternals.data = internals.data \o keyBuffer
        /\ KeyedInternals.length = internals.length + BlockBytes
        /\ KeyedInternals \in Record
    BY <1>1, <1>2, <1>4, LengthAssumption DEF KeyedInternals, ProcessedBy, Record
  <2>2. Len(KeyedInternals.data) = Len(internals.data) + BlockBytes
    BY <1>1, <1>2, <2>1, ConcatType
  <2>3. Len(KeyedInternals.data) % BlockBytes = 0
    <3>1. BlockBytes % BlockBytes = 0 /\ BlockBytes \in Nat
      BY LengthAssumption
    <3>2. Len(internals.data) \in Nat /\ Len(internals.data) % BlockBytes = 0
      BY <1>1 DEF Underway
    <3>3. (Len(internals.data) + BlockBytes) % BlockBytes = BlockBytes % BlockBytes
      BY <3>1, <3>2, RemAfterBlocks
    <3>. QED  BY <2>2, <3>1, <3>3
  <2>4. ASSUME key # << >>
        PROVE  /\ KeyedInternals.data = Session!KeyBlock(key) \o message
               /\ KeyedInternals.length = Len(KeyedInternals.data)
    <3>1. /\ internals.data = << >> /\ internals.length = 0
          /\ message = << >> /\ keyBuffer = Session!KeyBlock(key)
      BY <1>4, <2>4 DEF KeyThenMessage
    <3>. QED  BY <1>2, <2>1, <2>2, <3>1, ConcatEmpty
  <2>. QED  BY <2>1, <2>3, <2>4
<1>. QED  BY <1>3, <1>4

LEMMA ProcessBlocksIInv ==
  ASSUME IInv, NEW n \in 1 .. BufferBlocks, processBlocks(n)
  PROVE  IInv'
<1>. DEFINE bytes == Arriving(inBytes(n))
            k == KeyedInternals
<1>1. pc = "open" /\ TypeOK
  BY DEF IInv, processBlocks
<1>2. /\ inBytes(n) \in Nat \ {0} /\ inBytes(n) % BlockBytes = 0
  BY BlocksHaveNoRem, LengthAssumption, KeyedMacAssumption DEF inBytes
<1>3. /\ bytes \in Seq(Nat \ {0}) /\ Len(bytes) = inBytes(n)
      /\ message \o bytes \in Seq(Nat \ {0})
      /\ message \o bytes # << >>
  BY <1>1, <1>2, ArrivingType, SMTT(20) DEF TypeOK
<1>. HIDE DEF bytes
<1>4. /\ internals' = ProcessedBy(k, bytes)
      /\ message' = message \o bytes
      /\ atStart' = FALSE /\ pc' = "open"
      /\ UNCHANGED <<hash0, keyBuffer, tag, key>>
  BY DEF processBlocks, KeyedInternals, bytes
<1>5. /\ k \in Record /\ k.data \in Seq(Int) /\ k.length \in Nat
      /\ Len(k.data) % BlockBytes = 0
      /\ key # << >> => k.data = Session!KeyBlock(key) \o message /\ k.length = Len(k.data)
  BY <1>1, KeyedInternalsFacts DEF Record
<1>. HIDE DEF k
<1>6. /\ internals'.data = k.data \o bytes
      /\ internals'.length = k.length + inBytes(n)
      /\ internals' \in Record
      /\ Len(internals'.data) = Len(k.data) + inBytes(n)
  <2>1. bytes \in Seq(Int)
    BY <1>3
  <2>2. /\ k.data \o bytes \in Seq(Int)
        /\ Len(k.data \o bytes) = Len(k.data) + inBytes(n)
    BY <1>3, <1>5, <2>1, ConcatType
  <2>3. internals' = [data |-> k.data \o bytes, length |-> k.length + inBytes(n)]
    BY <1>3, <1>4 DEF ProcessedBy
  <2>. QED  BY <1>2, <1>5, <2>2, <2>3 DEF Record
<1>7. TypeOK'
  BY <1>1, <1>3, <1>4, <1>6 DEF TypeOK
<1>8. KeyThenMessage'
  <2>. SUFFICES ASSUME key' # << >>
                PROVE  /\ keyBuffer' = Session!KeyBlock(key')
                       /\ internals'.data = Session!KeyBlock(key') \o message'
                       /\ internals'.length = Len(internals'.data)
    BY <1>4 DEF KeyThenMessage
  <2>1. keyBuffer = Session!KeyBlock(key) /\ keyBuffer \in Seq(Int)
    BY <1>1, <1>4, LengthAssumption DEF IInv, KeyThenMessage, TypeOK
  <2>2. (Session!KeyBlock(key) \o message) \o bytes = Session!KeyBlock(key) \o (message \o bytes)
    <3>1. Session!KeyBlock(key) \in Seq(Int) /\ message \in Seq(Int) /\ bytes \in Seq(Int)
      BY <1>1, <1>3, <2>1 DEF TypeOK
    <3>. QED  BY <3>1, ConcatAssoc
  <2>. QED  BY <1>4, <1>5, <1>6, <2>1, <2>2
<1>9. Underway'
  <2>1. (Len(k.data) + inBytes(n)) % BlockBytes = 0
    <3>1. Len(k.data) \in Nat
      BY <1>5
    <3>2. (Len(k.data) + inBytes(n)) % BlockBytes = inBytes(n) % BlockBytes
      BY <1>2, <1>5, <3>1, RemAfterBlocks
    <3>. QED  BY <1>2, <3>2
  <2>. QED  BY <1>3, <1>4, <1>6, <2>1 DEF Underway
<1>. QED  BY <1>7, <1>8, <1>9 DEF IInv

(* What processLast leaves: the padded last bytes behind what was consumed, *)
(* the key being the last bytes of a message that is empty.                *)
LEMMA LastFacts ==
  ASSUME IInv, NEW sz \in Nat, processLast(sz)
  PROVE  /\ pc = "open" /\ pc' = "final"
         /\ Arriving(sz) \in Seq(Nat \ {0}) /\ Len(Arriving(sz)) = sz
         /\ message' = message \o Arriving(sz) /\ message' \in Seq(Nat \ {0})
         /\ internals' \in Record
         /\ tag' = [hash0 |-> hash0, digest |-> internals']
         /\ UNCHANGED <<hash0, keyBuffer, atStart, key>>
         /\ atStart /\ sz = 0 =>
              internals' = [data   |-> internals.data \o Pad(keyBuffer),
                            length |-> internals.length + Len(keyBuffer)]
         /\ ~(atStart /\ sz = 0) =>
              internals' = [data   |-> KeyedInternals.data \o Pad(Arriving(sz)),
                            length |-> KeyedInternals.length + sz]
<1>. DEFINE bytes == Arriving(sz)
<1>1. pc = "open" /\ TypeOK
  BY DEF IInv, processLast
<1>2. /\ bytes \in Seq(Nat \ {0}) /\ Len(bytes) = sz
      /\ message \o bytes \in Seq(Nat \ {0})
  BY <1>1, ArrivingType DEF TypeOK
<1>. HIDE DEF bytes
<1>3. /\ internals' = Last(bytes) /\ message' = message \o bytes
      /\ pc' = "final" /\ tag' = [hash0 |-> hash0, digest |-> internals']
      /\ UNCHANGED <<hash0, keyBuffer, atStart, key>>
  BY DEF processLast, bytes
<1>4. /\ internals.data \in Seq(Int) /\ internals.length \in Nat
      /\ keyBuffer \in Seq(Int) /\ Len(keyBuffer) = BlockBytes /\ BlockBytes \in Nat
  BY <1>1, LengthAssumption DEF TypeOK, Record
<1>5. KeyedInternals.data \in Seq(Int) /\ KeyedInternals.length \in Nat
  BY <1>1, KeyedInternalsFacts DEF Record
<1>6. bytes = << >> <=> sz = 0
  BY <1>2
<1>7. PadSymbol \subseteq Int /\ bytes \in Seq(Int)
  BY <1>2 DEF PadSymbol, ZeroByte, OneBit, LengthField
<1>8. Pad(keyBuffer) \in Seq(Int) /\ Pad(bytes) \in Seq(Int)
  BY <1>4, <1>7, PadType
<1>9. CASE atStart /\ sz = 0
  <2>1. internals' = [data   |-> internals.data \o Pad(keyBuffer),
                      length |-> internals.length + Len(keyBuffer)]
    BY <1>3, <1>6, <1>9 DEF Last, LastProcessedBy
  <2>2. internals.data \o Pad(keyBuffer) \in Seq(Int)
    BY <1>4, <1>8, ConcatType
  <2>3. internals' \in Record
    BY <1>4, <2>1, <2>2 DEF Record
  <2>. QED  BY <1>1, <1>2, <1>3, <1>9, <2>1, <2>3 DEF bytes
<1>10. CASE ~(atStart /\ sz = 0)
  <2>1. internals' = [data   |-> KeyedInternals.data \o Pad(bytes),
                      length |-> KeyedInternals.length + sz]
    BY <1>2, <1>3, <1>6, <1>10 DEF Last, LastProcessedBy, KeyedInternals
  <2>2. KeyedInternals.data \o Pad(bytes) \in Seq(Int)
    BY <1>5, <1>8, ConcatType
  <2>3. internals' \in Record
    BY <1>5, <2>1, <2>2 DEF Record
  <2>. QED  BY <1>1, <1>2, <1>3, <1>10, <2>1, <2>3 DEF bytes
<1>. QED  BY <1>9, <1>10

LEMMA ProcessLastIInv ==
  ASSUME IInv, NEW sz \in Nat, processLast(sz)
  PROVE  IInv'
<1>1. TypeOK'
  <2>1. tag' \in [hash0 : 0 .. HashBytes, digest : Record]
    BY LastFacts DEF IInv, TypeOK
  <2>. QED  BY <2>1, LastFacts DEF IInv, TypeOK
<1>. QED  BY <1>1, LastFacts DEF IInv, KeyThenMessage, Underway

LEMMA StutterIInv ==
  ASSUME IInv, UNCHANGED vars
  PROVE  IInv'
<1>1. TypeOK'
  BY DEF IInv, TypeOK, vars
<1>2. KeyThenMessage'
  BY DEF IInv, KeyThenMessage, vars
<1>3. Underway'
  BY DEF IInv, Underway, vars
<1>. QED  BY <1>1, <1>2, <1>3 DEF IInv

LEMMA SizeType ==
  ASSUME NEW sz \in 0 .. inBytes(BufferBlocks)
  PROVE  sz \in Nat
OBVIOUS

LEMMA NextIInv == IInv /\ [Next]_vars => IInv'
<1>. SUFFICES ASSUME IInv, [Next]_vars PROVE IInv'
  OBVIOUS
<1>1. ASSUME NEW id \in KeyIds, NEW n \in KeyLengths, Initialise(id, n) PROVE IInv'
  BY <1>1, InitialiseIInv
<1>2. ASSUME NEW n \in 1 .. BufferBlocks, processBlocks(n) PROVE IInv'
  BY <1>2, ProcessBlocksIInv
<1>3. ASSUME NEW sz \in 0 .. inBytes(BufferBlocks), processLast(sz) PROVE IInv'
  BY <1>3, SizeType, ProcessLastIInv
<1>4. CASE UNCHANGED vars
  BY <1>4, StutterIInv
<1>. QED  BY <1>1, <1>2, <1>3, <1>4 DEF Next

LEMMA SpecIInv == Spec => []IInv
BY InitIInv, NextIInv, PTL DEF Spec

(* The cells of the keyed hash keep their types, and no key overflows its  *)
(* buffer, in any sequence of sessions.                                    *)
THEOREM TypeCorrect == Spec => []TypeOK
<1>1. IInv => TypeOK
  BY DEF IInv
<1>. QED  BY <1>1, SpecIInv, PTL

(* A key that is not empty is hashed once and before the message of its    *)
(* session, whichever call comes first and whatever session was before.    *)
THEOREM KeyIsFirst == Spec => []KeyThenMessage
<1>1. IInv => KeyThenMessage
  BY DEF IInv
<1>. QED  BY <1>1, SpecIInv, PTL

-----------------------------------------------------------------------------
\* The refinement, where no key is empty.

KeyKnown ==
  pc = "open" => key # << >> /\ hash0 = Len(key)

RInv == IInv /\ KeyKnown

LEMMA RInvHolds ==
  ASSUME 0 \notin KeyLengths
  PROVE  Spec => []RInv
<1>1. Init => KeyKnown
  BY DEF Init, KeyKnown
<1>2. KeyKnown /\ [Next]_vars => KeyKnown'
  <2>. SUFFICES ASSUME KeyKnown, [Next]_vars PROVE KeyKnown'
    OBVIOUS
  <2>1. ASSUME NEW id \in KeyIds, NEW n \in KeyLengths, Initialise(id, n) PROVE KeyKnown'
    <3>1. n # 0
      OBVIOUS
    <3>2. key' # << >> /\ hash0' = Len(key')
      BY <2>1, <3>1, TrimType DEF Initialise
    <3>. QED  BY <3>2 DEF KeyKnown
  <2>2. ASSUME NEW n \in 1 .. BufferBlocks, processBlocks(n) PROVE KeyKnown'
    BY <2>2 DEF processBlocks, KeyKnown
  <2>3. ASSUME NEW sz \in 0 .. inBytes(BufferBlocks), processLast(sz) PROVE KeyKnown'
    BY <2>3 DEF processLast, KeyKnown
  <2>4. CASE UNCHANGED vars
    BY <2>4 DEF vars, KeyKnown
  <2>. QED  BY <2>1, <2>2, <2>3, <2>4 DEF Next
<1>3. Spec => []KeyKnown
  BY <1>1, <1>2, PTL DEF Spec
<1>4. IInv /\ KeyKnown => RInv
  BY DEF RInv
<1>. QED  BY <1>3, <1>4, SpecIInv, PTL

(* The two modules agree on the digest of a message.                       *)
LEMMA DigestsAgree ==
  ASSUME NEW m
  PROVE  Session!DigestOf(m) = DigestOf(m)
BY DEF Session!DigestOf, DigestOf, Session!Pad, Pad, Session!PaddedSize, PaddedSize,
       Session!Blake2PaddedSize, Blake2PaddedSize, Session!Sha2PaddedSize, Sha2PaddedSize,
       Session!PadByte, PadByte, Session!Glue, Glue,
       Session!ZeroByte, ZeroByte, Session!OneBit, OneBit, Session!LengthField, LengthField

(* The tag is that of the key followed by the message.                     *)
LEMMA TagIsOfKeyAndMessage ==
  ASSUME RInv, NEW sz \in Nat, processLast(sz)
  PROVE  tag' = Session!MacOf(key, message')
<1>. DEFINE kb == Session!KeyBlock(key)
            bytes == Arriving(sz)
            kd == KeyedInternals.data
<1>1. /\ IInv /\ TypeOK /\ KeyThenMessage /\ Underway
      /\ pc = "open" /\ key # << >> /\ hash0 = Len(key)
  BY LastFacts DEF RInv, IInv, KeyKnown
<1>2. kb = keyBuffer /\ keyBuffer \in Seq(Int)
  BY <1>1, LengthAssumption DEF KeyThenMessage, TypeOK
<1>3. bytes \in Seq(Int) /\ Len(bytes) = sz /\ message' = message \o bytes
      /\ message \in Seq(Int)
  BY <1>1, LastFacts, SMTT(20) DEF TypeOK
<1>4. PadSymbol \subseteq Int
  BY DEF PadSymbol, ZeroByte, OneBit, LengthField
<1>5. /\ kd = kb \o message /\ kd \in Seq(Int)
      /\ KeyedInternals.length = Len(kd) /\ Len(kd) % BlockBytes = 0
  BY <1>1, KeyedInternalsFacts DEF Record
<1>6. internals' = DigestOf(kb \o message')
  <2>1. CASE atStart /\ sz = 0
    <3>1. internals.data = << >> /\ internals.length = 0 /\ message = << >>
      BY <1>1, <2>1 DEF KeyThenMessage
    <3>2. message' = << >>
      BY <1>3, <2>1, <3>1
    <3>3. << >> \o Pad(keyBuffer) = Pad(keyBuffer) /\ keyBuffer \o << >> = keyBuffer
      BY <1>2, <1>4, PadType, ConcatEmpty
    <3>4. internals' = [data |-> internals.data \o Pad(keyBuffer),
                        length |-> internals.length + Len(keyBuffer)]
      BY <1>1, <2>1, LastFacts
    <3>5. 0 + Len(keyBuffer) = Len(keyBuffer)
      BY <1>2
    <3>. QED  BY <1>2, <3>1, <3>2, <3>3, <3>4, <3>5 DEF DigestOf
  <2>2. CASE ~(atStart /\ sz = 0)
    <3>1. internals' = [data |-> kd \o Pad(bytes), length |-> KeyedInternals.length + sz]
      BY <1>1, <2>2, LastFacts
    <3>2. sz # 0
      <4>1. sz = 0 => message = << >>
        BY DEF processLast
      <4>. QED  BY <1>1, <2>2, <4>1 DEF Underway
    <3>3. kd \o Pad(bytes) = Pad(kd \o bytes)
      <4>1. Len(bytes) > 0
        BY <1>3, <3>2
      <4>. HIDE DEF kd, bytes
      <4>. QED  BY <1>3, <1>4, <1>5, <4>1, PadTail
    <3>4. kd \o bytes = kb \o message'
      <4>1. kb \in Seq(Int)
        BY <1>2
      <4>. HIDE DEF kd, kb, bytes
      <4>2. (kb \o message) \o bytes = kb \o (message \o bytes)
        BY <1>3, <4>1, ConcatAssoc
      <4>. QED  BY <1>3, <1>5, <4>2
    <3>5. Len(kd \o bytes) = KeyedInternals.length + sz
      BY <1>3, <1>5, ConcatType
    <3>. QED  BY <3>1, <3>3, <3>4, <3>5 DEF DigestOf
  <2>. QED  BY <2>1, <2>2
<1>7. tag' = [hash0 |-> Len(key), digest |-> DigestOf(kb \o message')]
  BY <1>1, <1>6, LastFacts
<1>. QED  BY <1>7, DigestsAgree DEF Session!MacOf

(* What came before is a front of what is there now.                       *)
LEMMA FrontOfConcat ==
  ASSUME NEW a \in Seq(Int), NEW b \in Seq(Int)
  PROVE  \E n \in 0 .. Len(a \o b) : a = SubSeq(a \o b, 1, n)
<1>1. a = SubSeq(a \o b, 1, Len(a)) /\ Len(a) \in 0 .. Len(a \o b)
  OBVIOUS
<1>. QED  BY <1>1

(* Every step is one of the abstract session, or stutters.                 *)
LEMMA StepRefines == RInv /\ [Next]_vars => [Session!Next]_(Session!vars)
<1>. SUFFICES ASSUME RInv, [Next]_vars PROVE [Session!Next]_(Session!vars)
  OBVIOUS
<1>1. ASSUME NEW id \in KeyIds, NEW n \in KeyLengths, Initialise(id, n)
      PROVE  Session!Next
  BY <1>1 DEF Initialise, Session!Next, Session!Start
<1>2. ASSUME NEW n \in 1 .. BufferBlocks, processBlocks(n)
      PROVE  Session!Next
  <2>1. message \in Seq(Int) /\ Arriving(inBytes(n)) \in Seq(Int)
    <3>1. message \in Seq(Nat \ {0}) /\ inBytes(n) \in Nat
      BY LengthAssumption, KeyedMacAssumption DEF RInv, IInv, TypeOK, inBytes
    <3>2. Arriving(inBytes(n)) \in Seq(Nat \ {0})
      BY <3>1, ArrivingType
    <3>. QED  BY <3>1, <3>2
  <2>2. \E m \in 0 .. Len(message') : message = SubSeq(message', 1, m)
    BY <1>2, <2>1, FrontOfConcat DEF processBlocks
  <2>. QED  BY <1>2, <2>2 DEF processBlocks, Session!Next, Session!Feed
<1>3. ASSUME NEW sz \in 0 .. inBytes(BufferBlocks), processLast(sz)
      PROVE  Session!Next
  <2>1. sz \in Nat /\ IInv
    BY SizeType DEF RInv
  <2>2. message \in Seq(Int) /\ Arriving(sz) \in Seq(Int)
        /\ message' = message \o Arriving(sz)
    <3>1. message \in Seq(Nat \ {0})
      BY <2>1 DEF IInv, TypeOK
    <3>2. Arriving(sz) \in Seq(Nat \ {0}) /\ message' = message \o Arriving(sz)
      BY <1>3, <2>1, LastFacts
    <3>. QED  BY <3>1, <3>2
  <2>3. \E m \in 0 .. Len(message') : message = SubSeq(message', 1, m)
    BY <2>2, FrontOfConcat
  <2>4. tag' = Session!MacOf(key, message')
    BY <1>3, <2>1, TagIsOfKeyAndMessage
  <2>5. pc = "open" /\ pc' = "final" /\ key' = key
    BY <1>3 DEF processLast
  <2>6. Session!Finalise
    BY <2>3, <2>4, <2>5 DEF Session!Finalise
  <2>. QED  BY <2>6 DEF Session!Next
<1>4. CASE UNCHANGED vars
  BY <1>4 DEF vars, Session!vars
<1>. QED  BY <1>1, <1>2, <1>3, <1>4 DEF Next

(* Where no key is empty the keyed hash implements the abstract session:   *)
(* the tag is that of the key and the message, however it arrives.         *)
THEOREM SessionRefined ==
  ASSUME 0 \notin KeyLengths
  PROVE  Spec => ImplementsMacSession
<1>1. Init => Session!Init
  BY DEF Init, Session!Init
<1>2. Spec => []RInv
  BY RInvHolds
<1>. QED  BY <1>1, <1>2, StepRefines, PTL DEF Spec, ImplementsMacSession, Session!Spec
=============================================================================
