------------------------- MODULE PRGeneratorProofs -------------------------
(***************************************************************************)
(* Proofs about the random generator, for every size of block, buffer, key *)
(* and request.                                                            *)
(*                                                                         *)
(* The first part holds whatever fails or is interrupted: no byte is given *)
(* out twice, unless an exception keeps it from being wiped after it was   *)
(* copied.  The second part is about sessions in which nothing is: the  *)
(* security guarantee, and what else the exceptions of the findings break. *)
(***************************************************************************)
EXTENDS PRGenerator, TLAPS

-----------------------------------------------------------------------------
\* Sizes, and what is given out, kept and wiped.

(* The buffer is not empty, and the key does not take all of it.           *)
LEMMA Sizes ==
  /\ cxtSize \in Nat \ {0}
  /\ KeyBytes \in 1 .. cxtSize - 1
  /\ Positions = 1 .. cxtSize
  /\ NBlocks \in Nat /\ ReseedAfter \in Nat \ {0} /\ MaxRequest \in Nat
<1>1. BlockBytes \in Nat /\ NBlocks \in Nat /\ BlockBytes # 0 /\ NBlocks # 0
  BY LengthAssumption, ContextAssumption
<1>2. NBlocks * BlockBytes \in Nat \ {0}
  BY <1>1
<1>3. cxtSize = NBlocks * BlockBytes /\ Positions = 1 .. cxtSize
  BY DEF cxtSize, inBytes, Positions
<1>. QED  BY <1>1, <1>2, <1>3, PRGeneratorAssumption

(* A demand is cut to what is available, and taken from its end.           *)
LEMMA Demand ==
  ASSUME avail \in 0 .. cxtSize, NEW n \in Nat
  PROVE  /\ Satisfy(n) \in Nat /\ Leftover(n) \in Nat
         /\ Satisfy(n) \in 0 .. cxtSize /\ Leftover(n) \in 0 .. cxtSize
         /\ Leftover(n) + Satisfy(n) = avail
         /\ Satisfy(n) <= n
         /\ \A i \in 1 .. Satisfy(n) : Leftover(n) + i \in Positions
BY Sizes DEF Satisfy, Leftover

(* What is given out are the labels at the end of the available region.    *)
LEMMA GivenLabels ==
  ASSUME avail \in 0 .. cxtSize, NEW n \in Nat, buf \in [Positions -> Label]
  PROVE  /\ GivenTo(n) \in Seq(Label)
         /\ Len(GivenTo(n)) = Satisfy(n)
         /\ DOMAIN GivenTo(n) = 1 .. Satisfy(n)
         /\ \A i \in 1 .. Satisfy(n) : GivenTo(n)[i] = buf[Leftover(n) + i]
<1>1. /\ Satisfy(n) \in Nat
      /\ \A i \in 1 .. Satisfy(n) : Leftover(n) + i \in Positions
  BY Demand, Zenon
<1>2. \A i \in 1 .. Satisfy(n) : buf[Leftover(n) + i] \in Label
  BY <1>1
<1>. QED  BY <1>1, <1>2 DEF GivenTo

(* Wiping keeps the rest of the buffer.                                    *)
LEMMA WipedLabels ==
  ASSUME avail \in 0 .. cxtSize, NEW n \in Nat, buf \in [Positions -> Label]
  PROVE  /\ WipedBy(n, Junk) \in [Positions -> Label]
         /\ \A i \in Positions : WipedBy(n, Junk)[i] \in {buf[i], Junk}
BY DEF WipedBy, Junk, Label

(* The elements of a concatenation.                                        *)
LEMMA ImageOfConcat ==
  ASSUME NEW s \in Seq(Label), NEW t \in Seq(Label)
  PROVE  /\ s \o t \in Seq(Label)
         /\ Len(s \o t) = Len(s) + Len(t)
         /\ Image(s \o t) = Image(s) \cup Image(t)
<1>1. /\ s \o t \in Seq(Label)
      /\ Len(s \o t) = Len(s) + Len(t)
      /\ \A i \in 1 .. Len(s) : (s \o t)[i] = s[i]
      /\ \A i \in 1 .. Len(t) : (s \o t)[Len(s) + i] = t[i]
  OBVIOUS
<1>2. /\ DOMAIN s = 1 .. Len(s) /\ DOMAIN t = 1 .. Len(t)
      /\ DOMAIN (s \o t) = 1 .. Len(s) + Len(t)
      /\ Len(s) \in Nat /\ Len(t) \in Nat
  BY <1>1
<1>3. ASSUME NEW i \in DOMAIN (s \o t)
      PROVE  (s \o t)[i] \in Image(s) \cup Image(t)
  <2>1. CASE i \in 1 .. Len(s)
    BY <2>1, <1>1, <1>2 DEF Image
  <2>2. CASE ~(i \in 1 .. Len(s))
    <3>1. i - Len(s) \in 1 .. Len(t) /\ i = Len(s) + (i - Len(s))
      BY <2>2, <1>2
    <3>2. (s \o t)[i] = t[i - Len(s)]
      BY <3>1, <1>1
    <3>. QED  BY <3>1, <3>2, <1>2 DEF Image
  <2>. QED  BY <2>1, <2>2
<1>4. ASSUME NEW i \in DOMAIN s
      PROVE  s[i] \in Image(s \o t)
  BY <1>1, <1>2, i \in DOMAIN (s \o t) DEF Image
<1>5. ASSUME NEW i \in DOMAIN t
      PROVE  t[i] \in Image(s \o t)
  <2>1. Len(s) + i \in DOMAIN (s \o t) /\ (s \o t)[Len(s) + i] = t[i]
    BY <1>1, <1>2
  <2>. QED  BY <2>1 DEF Image
<1>6. Image(s \o t) \subseteq Image(s) \cup Image(t)
  BY <1>3 DEF Image
<1>7. Image(s) \subseteq Image(s \o t)
  BY <1>4 DEF Image
<1>8. Image(t) \subseteq Image(s \o t)
  BY <1>5 DEF Image
<1>. QED  BY <1>1, <1>6, <1>7, <1>8

-----------------------------------------------------------------------------
\* Types.

(* What the program counter and the scalars may be.                        *)
ControlType ==
  /\ pc \in {"closed", "idle", "copy", "wipe", "set", "sample", "entropy",
             "zero", "generate", "full", "count"}
  /\ target \in {"dest", "key"}
  /\ want \in Nat
  /\ ready \in BOOLEAN
  /\ avail \in 0 .. cxtSize
  /\ randomGenBlocks \in Nat
  /\ gen \in Nat
  /\ unseeded \in Nat

(* What the cells and the histories of bytes may be.                       *)
BytesType ==
  /\ buf \in [Positions -> Label]
  /\ key \in [1 .. KeyBytes -> Label]
  /\ keyUsed \in [1 .. gen -> SUBSET Label]
  /\ dest \in Seq(Label)
  /\ given \in SUBSET Label
  /\ abandoned \in SUBSET Label /\ unwiped \in SUBSET Label

LEMMA TypeParts == TypeOK <=> ControlType /\ BytesType
BY Zenon DEF TypeOK, ControlType, BytesType

(* Labels that the actions write.                                          *)
LEMMA LabelTypes ==
  /\ Junk \in Label
  /\ << >> \in [1 .. 0 -> SUBSET Label]
  /\ \A g \in Int : Entropy(g) \in [1 .. KeyBytes -> Label]
  /\ \A g \in Int : [i \in Positions |-> <<g, i>>] \in [Positions -> Label]
<1>1. Junk \in Label
  BY DEF Junk, Label
<1>2. << >> \in [1 .. 0 -> SUBSET Label]
  OBVIOUS
<1>3. ASSUME NEW g \in Int
      PROVE  Entropy(g) \in [1 .. KeyBytes -> Label]
  <2>1. \A i \in 1 .. KeyBytes : <<-g, i>> \in Label
    BY Sizes DEF Label
  <2>. QED  BY <2>1 DEF Entropy
<1>4. ASSUME NEW g \in Int
      PROVE  [i \in Positions |-> <<g, i>>] \in [Positions -> Label]
  <2>1. \A i \in Positions : <<g, i>> \in Label
    BY Sizes DEF Label
  <2>. QED  BY <2>1
<1>. QED  BY <1>1, <1>2, <1>3, <1>4

LEMMA TypeInit == Init => TypeOK
<1>1. SUFFICES ASSUME Init PROVE ControlType /\ BytesType
  BY TypeParts
<1>2. ControlType
  <2>1. /\ pc = "closed" /\ target = "dest" /\ want = 0 /\ ready = FALSE
        /\ avail = 0 /\ randomGenBlocks = 0 /\ gen = 0 /\ unseeded = 0
    BY <1>1 DEF Init
  <2>2. ready \in BOOLEAN
    BY <2>1, Zenon
  <2>. QED  BY <2>1, <2>2, Sizes DEF ControlType
<1>3. gen = 0 /\ keyUsed = << >>
  BY <1>1 DEF Init
<1>4. keyUsed \in [1 .. gen -> SUBSET Label]
  BY <1>3, LabelTypes
<1>5. buf \in [Positions -> Label] /\ key \in [1 .. KeyBytes -> Label]
  BY <1>1, LabelTypes DEF Init
<1>6. /\ dest \in Seq(Label) /\ given \in SUBSET Label
      /\ abandoned \in SUBSET Label /\ unwiped \in SUBSET Label
  BY <1>1 DEF Init
<1>. QED  BY <1>2, <1>4, <1>5, <1>6 DEF BytesType

LEMMA ControlTypeStep ==
  ASSUME ControlType, [Next]_vars
  PROVE  ControlType'
<1>1. req \in Nat
  BY Sizes DEF req, ControlType
<1>2. /\ Satisfy(req) \in Nat /\ Leftover(req) \in 0 .. cxtSize
      /\ Satisfy(req) <= req
  BY <1>1, Demand DEF ControlType
<1>. USE DEF ControlType
<1>3. CASE Open
  <2>1. /\ pc' = "entropy" /\ target' = "dest" /\ want' = 0 /\ ready' = FALSE
        /\ avail' \in 0 .. cxtSize /\ gen' = 0 /\ unseeded' = 0
        /\ randomGenBlocks' \in {0, ReseedAfter}
    BY <1>3 DEF Open
  <2>2. ready' \in BOOLEAN
    BY <2>1, Zenon
  <2>. QED  BY <2>1, <2>2, Sizes
<1>4. CASE Close
  BY <1>4 DEF Close, cxtVars, history
<1>5. CASE UserReseed
  BY <1>5 DEF UserReseed, Call, cxtVars, history
<1>6. ASSUME NEW n \in 0 .. MaxRequest, Request(n)
      PROVE  ControlType'
  BY <1>6, Sizes DEF Request, Call, cxtVars, history
<1>7. CASE Copy
  BY <1>7 DEF Copy, cxtVars, history
<1>8. CASE Wipe
  BY <1>8 DEF Wipe, history
<1>9. CASE SetForRequest
  <2>1. want' \in Nat
    BY <1>9, <1>2 DEF SetForRequest, req
  <2>. QED  BY <1>9, <1>2, <2>1 DEF SetForRequest, setBytes, Go, history
<1>10. CASE SetForKey
  BY <1>10, <1>2 DEF SetForKey, setBytes, history
<1>11. CASE Sample
  BY <1>11 DEF Sample, cxtVars, history
<1>12. CASE InitWithEntropy
  BY <1>12 DEF InitWithEntropy, cxtVars
<1>13. CASE ZeroBlocks
  BY <1>13 DEF ZeroBlocks, cxtVars, history
<1>14. CASE RandomBlocks
  BY <1>14, Sizes DEF RandomBlocks
<1>15. CASE SetFull
  BY <1>15, Sizes DEF SetFull, unsafeSetCxtFull, setBytes, history
<1>16. CASE CountBlocks
  BY <1>16, Sizes DEF CountBlocks, cxtVars, history
<1>17. CASE EntropyThrows
  BY <1>17 DEF EntropyThrows, Abandon, cxtVars, history
<1>18. CASE Interrupt
  BY <1>18 DEF Interrupt, Abandon, cxtVars, history
<1>19. CASE UNCHANGED vars
  BY <1>19 DEF vars, cxtVars, control, history
<1>. QED
  BY <1>3, <1>4, <1>5, <1>6, <1>7, <1>8, <1>9, <1>10, <1>11, <1>12, <1>13,
     <1>14, <1>15, <1>16, <1>17, <1>18, <1>19
  DEF Next, Step

(* The key after some of its bytes are replaced.                           *)
LEMMA KeyType ==
  ASSUME key \in [1 .. KeyBytes -> Label],
         NEW n \in Nat, NEW s,
         \A i \in 1 .. KeyBytes : i <= n => s[i] \in Label
  PROVE  [i \in 1 .. KeyBytes |-> IF i <= n THEN s[i] ELSE key[i]]
            \in [1 .. KeyBytes -> Label]
OBVIOUS

LEMMA BytesTypeStep ==
  ASSUME ControlType, BytesType, [Next]_vars
  PROVE  BytesType'
<1>1. req \in Nat /\ avail \in 0 .. cxtSize /\ gen \in Nat /\ gen + 1 \in Int
  BY Sizes DEF req, ControlType
<1>2. /\ buf \in [Positions -> Label] /\ key \in [1 .. KeyBytes -> Label]
      /\ dest \in Seq(Label) /\ given \in SUBSET Label
      /\ abandoned \in SUBSET Label /\ unwiped \in SUBSET Label
      /\ keyUsed \in [1 .. gen -> SUBSET Label]
  BY DEF BytesType
<1>3. Satisfy(req) \in Nat
  BY <1>1, Demand
<1>4. /\ GivenTo(req) \in Seq(Label)
      /\ DOMAIN GivenTo(req) = 1 .. Satisfy(req)
      /\ \A i \in 1 .. Satisfy(req) : GivenTo(req)[i] \in Label
  <2>1. GivenTo(req) \in Seq(Label) /\ DOMAIN GivenTo(req) = 1 .. Satisfy(req)
    BY <1>1, <1>2, GivenLabels, Zenon
  <2>. QED  BY <2>1, <1>3
<1>5. CASE Open
  <2>1. /\ keyUsed' = << >> /\ gen' = 0 /\ dest' = << >>
        /\ given' = {} /\ abandoned' = {} /\ unwiped' = {}
    BY <1>5 DEF Open
  <2>2. buf' = [i \in Positions |-> Junk] /\ key' = [i \in 1 .. KeyBytes |-> Junk]
    BY <1>5 DEF Open
  <2>3. buf' \in [Positions -> Label] /\ key' \in [1 .. KeyBytes -> Label]
    BY <2>2, LabelTypes
  <2>4. keyUsed' \in [1 .. gen' -> SUBSET Label]
    BY <2>1, LabelTypes
  <2>. QED  BY <2>1, <2>3, <2>4 DEF BytesType
<1>6. CASE Close
  BY <1>2, <1>6 DEF Close, cxtVars, history, output, past, BytesType
<1>7. CASE UserReseed
  BY <1>2, <1>7 DEF UserReseed, Call, cxtVars, history, past, BytesType
<1>8. ASSUME NEW n \in 0 .. MaxRequest, Request(n)
      PROVE  BytesType'
  BY <1>2, <1>8 DEF Request, Call, cxtVars, history, past, BytesType
<1>9. CASE Copy
  <2>1. UNCHANGED <<buf, gen, keyUsed, given, abandoned, unwiped>>
    BY <1>9 DEF Copy, cxtVars, history, past
  <2>2. key' \in [1 .. KeyBytes -> Label]
    <3>1. CASE key' = [i \in 1 .. KeyBytes |->
                         IF i <= Satisfy(req) THEN GivenTo(req)[i] ELSE key[i]]
      <4>1. \A i \in 1 .. KeyBytes :
               i <= Satisfy(req) => GivenTo(req)[i] \in Label
        BY <1>3, <1>4, Sizes
      <4>. QED  BY <3>1, <4>1, <1>2, <1>3, KeyType
    <3>. QED  BY <1>9, <1>2, <3>1 DEF Copy
  <2>3. dest' \in Seq(Label)
    <3>1. dest \o GivenTo(req) \in Seq(Label)
      BY <1>2, <1>4, ImageOfConcat
    <3>2. dest' = dest \o GivenTo(req) \/ dest' = dest
      BY <1>9 DEF Copy
    <3>. QED  BY <1>2, <3>1, <3>2
  <2>. QED  BY <1>2, <2>1, <2>2, <2>3 DEF BytesType
<1>10. CASE Wipe
  <2>1. buf' \in [Positions -> Label]
    BY <1>10, <1>1, <1>2, WipedLabels, Zenon DEF Wipe
  <2>. QED  BY <1>2, <1>10, <2>1 DEF Wipe, history, output, past, BytesType
<1>11. CASE SetForRequest
  <2>1. Image(dest) \subseteq Label
    BY <1>2 DEF Image
  <2>2. dest' \in Seq(Label) /\ given' \in SUBSET Label
    <3>1. \/ dest' = dest /\ given' = given
          \/ dest' = << >> /\ given' = given \cup Image(dest)
      BY <1>11 DEF SetForRequest
    <3>2. << >> \in Seq(Label) /\ given \cup Image(dest) \in SUBSET Label
      BY <1>2, <2>1
    <3>. QED  BY <1>2, <3>1, <3>2
  <2>. QED  BY <1>2, <1>11, <2>2 DEF SetForRequest, history, BytesType
<1>12. CASE SetForKey
  BY <1>2, <1>12 DEF SetForKey, history, output, past, BytesType
<1>13. CASE Sample
  BY <1>2, <1>13 DEF Sample, cxtVars, history, output, past, BytesType
<1>14. CASE InitWithEntropy
  <2>1. PICK n \in 0 .. KeyBytes :
            key' = [i \in 1 .. KeyBytes |->
                      IF i <= n THEN Entropy(gen + 1)[i] ELSE key[i]]
    BY <1>14 DEF InitWithEntropy
  <2>2. n \in Nat /\ \A i \in 1 .. KeyBytes : Entropy(gen + 1)[i] \in Label
    BY <1>1, LabelTypes, Sizes
  <2>3. key' \in [1 .. KeyBytes -> Label]
    BY <2>1, <2>2, <1>2, KeyType
  <2>. QED  BY <1>2, <1>14, <2>3 DEF InitWithEntropy, cxtVars, output, past, BytesType
<1>15. CASE ZeroBlocks
  BY <1>2, <1>15 DEF ZeroBlocks, cxtVars, history, output, past, BytesType
<1>16. CASE RandomBlocks
  <2>1. buf' \in [Positions -> Label]
    BY <1>16, <1>1, LabelTypes DEF RandomBlocks
  <2>2. Image(key) \in SUBSET Label
    BY <1>2 DEF Image
  <2>3. keyUsed \in Seq(SUBSET Label) /\ Len(keyUsed) = gen
    BY <1>1, <1>2
  <2>4. keyUsed' \in [1 .. gen' -> SUBSET Label]
    <3>1. gen' = gen + 1 /\ keyUsed' = Append(keyUsed, Image(key))
      BY <1>16 DEF RandomBlocks
    <3>2. Append(keyUsed, Image(key)) \in Seq(SUBSET Label)
      BY <2>2, <2>3
    <3>3. Len(Append(keyUsed, Image(key))) = gen + 1
      BY <2>2, <2>3
    <3>4. ASSUME NEW s \in Seq(SUBSET Label)
          PROVE  s \in [1 .. Len(s) -> SUBSET Label]
      OBVIOUS
    <3>. QED  BY <3>1, <3>2, <3>3, <3>4
  <2>. QED  BY <1>2, <1>16, <2>1, <2>4 DEF RandomBlocks, output, past, BytesType
<1>17. CASE SetFull
  BY <1>2, <1>17 DEF SetFull, history, output, past, BytesType
<1>18. CASE CountBlocks
  BY <1>2, <1>18 DEF CountBlocks, cxtVars, history, output, past, BytesType
<1>19. CASE Abandon
  <2>1. Image(dest) \subseteq Label /\ Image(GivenTo(req)) \subseteq Label
    BY <1>2, <1>4 DEF Image
  <2>2. /\ abandoned' = abandoned \cup Image(dest)
        /\ unwiped' \in {unwiped, unwiped \cup Image(GivenTo(req))}
    BY <1>19 DEF Abandon
  <2>3. abandoned' \in SUBSET Label /\ unwiped' \in SUBSET Label
    BY <1>2, <2>1, <2>2
  <2>. QED  BY <1>2, <1>19, <2>3 DEF Abandon, cxtVars, history, BytesType
<1>20. CASE EntropyThrows \/ Interrupt
  BY <1>19, <1>20 DEF EntropyThrows, Interrupt
<1>21. CASE UNCHANGED vars
  BY <1>2, <1>21 DEF vars, cxtVars, history, output, past, BytesType
<1>. QED
  BY <1>5, <1>6, <1>7, <1>8, <1>9, <1>10, <1>11, <1>12, <1>13, <1>14, <1>15,
     <1>16, <1>17, <1>18, <1>20, <1>21
  DEF Next, Step

LEMMA TypeStep ==
  ASSUME TypeOK, [Next]_vars
  PROVE  TypeOK'
<1>1. ControlType /\ BytesType
  BY TypeParts
<1>2. ControlType' /\ BytesType'
  BY <1>1, ControlTypeStep, BytesTypeStep
<1>3. TypeOK' <=> ControlType' /\ BytesType'
  BY Zenon DEF TypeOK, ControlType, BytesType
<1>. QED  BY <1>2, <1>3

(* The variables keep their types; in particular the count of available    *)
(* bytes stays within the buffer, for all requests, refills and failures.  *)
THEOREM TypeCorrect == Spec => []TypeOK
<1>. QED  BY TypeInit, TypeStep, PTL DEF Spec

-----------------------------------------------------------------------------
\* No byte is given out twice, whatever fails or is interrupted.

(* Where the bytes of the running request end that are not given out yet.  *)
DestLow ==
  IF target = "dest" /\ pc \in {"wipe", "set"} THEN Leftover(want) ELSE avail

(* Nothing of a generation is out that is still below the count: bytes are *)
(* taken from the end, and the count only grows when all bytes are new.    *)
Once ==
  /\ \A i \in Positions : buf[i] \in {Junk, <<gen, i>>}
  /\ \A b \in given \cup abandoned \cup Image(dest) : b[1] <= gen
  /\ \A i \in Positions : <<gen, i>> \in given => avail < i /\ pc # "full"
  /\ \A i \in Positions : <<gen, i>> \in Image(dest) => DestLow < i /\ pc # "full"
  /\ \A i \in Positions : <<gen, i>> \in abandoned =>
        (avail < i /\ pc # "full") \/ buf[i] = Junk \/ <<gen, i>> \in unwiped
  /\ NoByteTwice

(* What the running request copied is wiped before the count is lowered.   *)
WipedBehind ==
  pc = "set" /\ target = "dest" =>
    \A i \in Positions : Leftover(want) < i /\ i <= avail => buf[i] = Junk

LEMMA WipedBehindStep ==
  ASSUME WipedBehind, [Next]_vars
  PROVE  WipedBehind'
<1>1. CASE Wipe
  <2>1. CASE target = "dest"
    <3>1. /\ \A i \in Positions :
               buf'[i] = IF i > Leftover(want) /\ i <= avail THEN Junk ELSE buf[i]
          /\ UNCHANGED <<avail, want>>
      BY <1>1, <2>1 DEF Wipe, WipedBy, req
    <3>2. \A i \in Positions : Leftover(want)' < i /\ i <= avail' => buf'[i] = Junk
      BY <3>1 DEF Leftover, Satisfy
    <3>. QED  BY <3>2 DEF WipedBehind, Leftover, Satisfy
  <2>2. CASE target # "dest"
    <3>1. target' # "dest"
      BY <1>1, <2>2 DEF Wipe
    <3>. QED  BY <3>1 DEF WipedBehind
  <2>. QED  BY <2>1, <2>2
<1>2. CASE UNCHANGED vars
  <2>1. UNCHANGED <<pc, target, want, avail, buf>>
    BY <1>2 DEF vars, cxtVars, control
  <2>. QED  BY <2>1 DEF WipedBehind, Leftover, Satisfy
<1>3. ASSUME pc' # "set"
      PROVE  WipedBehind'
  BY <1>3 DEF WipedBehind
<1>4. ASSUME Open \/ Close \/ UserReseed \/ (\E n \in 0 .. MaxRequest : Request(n))
      PROVE  pc' # "set"
  BY <1>4 DEF Open, Close, UserReseed, Request
<1>5. ASSUME \/ Copy \/ SetForRequest \/ SetForKey \/ Sample \/ InitWithEntropy
             \/ ZeroBlocks \/ RandomBlocks \/ SetFull \/ CountBlocks
      PROVE  pc' # "set"
  BY <1>5 DEF Copy, SetForRequest, SetForKey, Go, Sample, InitWithEntropy,
     ZeroBlocks, RandomBlocks, SetFull, CountBlocks
<1>6. ASSUME EntropyThrows \/ Interrupt
      PROVE  pc' # "set"
  BY <1>6 DEF EntropyThrows, Interrupt, Abandon
<1>. QED  BY <1>1, <1>2, <1>3, <1>4, <1>5, <1>6 DEF Next, Step

LEMMA OnceInit == Init => Once
<1>1. SUFFICES ASSUME Init PROVE Once
  OBVIOUS
<1>2. /\ dest = << >> /\ given = {} /\ abandoned = {}
      /\ buf = [i \in Positions |-> Junk]
  BY <1>1 DEF Init
<1>3. Image(dest) = {} /\ DOMAIN dest = {}
  BY <1>2 DEF Image
<1>. QED  BY <1>2, <1>3 DEF Once, NoByteTwice

(* A step that delivers nothing and lets the counts fall at most.          *)
LEMMA OnceKept ==
  ASSUME Once, UNCHANGED <<gen, given, abandoned, unwiped, dest>>, pc' # "full",
         avail \in Int, avail' \in Int, DestLow \in Int, DestLow' \in Int,
         Positions \subseteq Int,
         avail' <= avail, DestLow' <= DestLow,
         \A i \in Positions : buf'[i] \in {Junk, buf[i]}
  PROVE  Once'
<1>1. \A i \in Positions : buf'[i] \in {Junk, <<gen', i>>}
  BY DEF Once
<1>2. Image(dest') = Image(dest) /\ NoByteTwice'
  BY DEF Once, Image, NoByteTwice
<1>3. ASSUME NEW i \in Positions, <<gen, i>> \in given
      PROVE  avail' < i
  <2>1. avail < i
    BY <1>3 DEF Once
  <2>2. i \in Int
    OBVIOUS
  <2>. QED  BY <2>1, <2>2
<1>4. \A i \in Positions : <<gen, i>> \in Image(dest) => DestLow' < i
  BY DEF Once
<1>5. \A i \in Positions : <<gen, i>> \in abandoned =>
         avail' < i \/ buf'[i] = Junk \/ <<gen, i>> \in unwiped
  <2>. SUFFICES ASSUME NEW i \in Positions, <<gen, i>> \in abandoned
                PROVE  avail' < i \/ buf'[i] = Junk \/ <<gen, i>> \in unwiped
    OBVIOUS
  <2>1. avail < i \/ buf[i] = Junk \/ <<gen, i>> \in unwiped
    BY DEF Once
  <2>2. buf[i] = Junk => buf'[i] = Junk
    OBVIOUS
  <2>3. avail < i => avail' < i
    OBVIOUS
  <2>. QED  BY <2>1, <2>2, <2>3
<1>. QED  BY <1>1, <1>2, <1>3, <1>4, <1>5 DEF Once, Image

(* A call begins.                                                          *)
LEMMA OnceBegun ==
  ASSUME Once, UNCHANGED <<gen, given, abandoned, unwiped, buf, avail>>,
         dest' = << >>, pc' # "full"
  PROVE  Once'
<1>1. Image(dest') = {} /\ DOMAIN dest' = {}
  BY DEF Image
<1>2. NoByteTwice'
  BY <1>1 DEF NoByteTwice
<1>3. \A b \in given' \cup abandoned' \cup Image(dest') : b[1] <= gen'
  BY <1>1 DEF Once
<1>. QED  BY <1>1, <1>2, <1>3 DEF Once

(* An exception ends a call.  What was copied is behind the count, or      *)
(* wiped, or it is what the last copy took, not wiped yet.                 *)
LEMMA OnceAbandoned ==
  ASSUME TypeOK, Once, WipedBehind, Abandon
  PROVE  Once'
<1>1. /\ pc' \in {"idle", "closed"} /\ dest' = << >>
      /\ abandoned' = abandoned \cup Image(dest) /\ unwiped \subseteq unwiped'
      /\ UNCHANGED <<buf, avail, gen, given>>
  BY DEF Abandon, cxtVars, history
<1>2. Image(dest') = {} /\ DOMAIN dest' = {}
  BY <1>1 DEF Image
<1>3. NoByteTwice'
  BY <1>2 DEF NoByteTwice
<1>4. \A b \in given' \cup abandoned' \cup Image(dest') : b[1] <= gen'
  BY <1>1, <1>2 DEF Once
<1>5. ASSUME NEW i \in Positions, <<gen, i>> \in Image(dest)
      PROVE  avail < i \/ buf[i] = Junk \/ <<gen, i>> \in unwiped'
  <2>. SUFFICES ASSUME ~(avail < i), buf[i] # Junk
                PROVE  <<gen, i>> \in unwiped'
    OBVIOUS
  <2>1. /\ avail \in 0 .. cxtSize /\ want \in Nat /\ buf \in [Positions -> Label]
        /\ avail \in Nat /\ i \in Nat
    BY Sizes DEF TypeOK
  <2>2. DestLow < i /\ buf[i] = <<gen, i>>
    BY <1>5 DEF Once
  <2>3. /\ target = "dest" /\ pc \in {"wipe", "set"}
        /\ Leftover(want) < i
    BY <2>2 DEF DestLow
  <2>4. pc = "wipe"
    BY <2>1, <2>3 DEF WipedBehind
  <2>5. unwiped' = unwiped \cup Image(GivenTo(want))
    BY <2>3, <2>4 DEF Abandon, req
  <2>6. /\ Leftover(want) \in Nat /\ Satisfy(want) \in Nat
        /\ Leftover(want) + Satisfy(want) = avail
    BY <2>1, Demand
  <2>7. /\ DOMAIN GivenTo(want) = 1 .. Satisfy(want)
        /\ \A j \in 1 .. Satisfy(want) : GivenTo(want)[j] = buf[Leftover(want) + j]
    BY <2>1, GivenLabels, Zenon
  <2>8. i - Leftover(want) \in 1 .. Satisfy(want) /\ Leftover(want) + (i - Leftover(want)) = i
    BY <2>1, <2>3, <2>6
  <2>9. GivenTo(want)[i - Leftover(want)] = buf[i]
    BY <2>7, <2>8
  <2>10. buf[i] \in Image(GivenTo(want))
    BY <2>7, <2>8, <2>9 DEF Image
  <2>. QED  BY <2>2, <2>5, <2>10
<1>6. \A i \in Positions : <<gen, i>> \in abandoned =>
         avail < i \/ buf[i] = Junk \/ <<gen, i>> \in unwiped'
  BY <1>1 DEF Once
<1>7. \A i \in Positions : <<gen, i>> \in abandoned' =>
         avail < i \/ buf[i] = Junk \/ <<gen, i>> \in unwiped'
  BY <1>1, <1>5, <1>6
<1>. QED  BY <1>1, <1>2, <1>3, <1>4, <1>7 DEF Once

(* What a request is given was given to none before.                       *)
LEMMA OnceCopied ==
  ASSUME TypeOK, Once, pc = "copy", target = "dest",
         pc' = "wipe", dest' = dest \o GivenTo(want),
         UNCHANGED <<gen, given, abandoned, unwiped, buf, avail, target, want>>
  PROVE  Once'
<1>. DEFINE s == GivenTo(want)
            m == Len(dest)
            n == Satisfy(want)
            low == Leftover(want)
<1>1. /\ avail \in 0 .. cxtSize /\ want \in Nat /\ gen \in Nat
      /\ buf \in [Positions -> Label] /\ dest \in Seq(Label)
      /\ given \in SUBSET Label
  BY DEF TypeOK
<1>2. /\ n \in Nat /\ low \in Nat /\ low + n = avail /\ avail \in Nat
      /\ \A i \in 1 .. n : low + i \in Positions
  BY <1>1, Demand, Sizes
<1>3. /\ s \in Seq(Label) /\ Len(s) = n /\ DOMAIN s = 1 .. n
      /\ \A i \in 1 .. n : s[i] = buf[low + i]
  BY <1>1, GivenLabels, Zenon
<1>4. \A i \in 1 .. n : s[i] \in {Junk, <<gen, low + i>>}
  BY <1>2, <1>3 DEF Once
<1>. HIDE DEF s, n, low
<1>5. /\ DOMAIN dest' = 1 .. m + n /\ m \in Nat /\ DOMAIN dest = 1 .. m
      /\ \A j \in 1 .. m : dest'[j] = dest[j]
      /\ \A i \in 1 .. n : dest'[m + i] = s[i]
  <2>1. dest' = dest \o s
    BY DEF s
  <2>2. dest \o s \in Seq(Label) /\ m \in Nat
    BY <1>1, <1>3
  <2>3. Len(dest \o s) = m + n
    BY <1>1, <1>3, ImageOfConcat
  <2>. QED  BY <2>1, <2>2, <2>3, <1>1, <1>3
<1>6. Image(dest') = Image(dest) \cup Image(s)
  BY <1>1, <1>3, ImageOfConcat, dest' = dest \o s DEF s
<1>7. \A b \in Image(s) : b = Junk \/ \E i \in 1 .. n : b = <<gen, low + i>>
  BY <1>3, <1>4 DEF Image
<1>8. DestLow = avail /\ DestLow' = low
  BY DEF DestLow, low, Leftover, Satisfy
<1>9. \A b \in given' \cup abandoned' \cup Image(dest') : b[1] <= gen'
  BY <1>1, <1>6, <1>7 DEF Once, Junk
<1>10. \A i \in Positions : <<gen, i>> \in Image(dest) => low < i
  BY <1>2, <1>8, Sizes DEF Once
<1>11. \A i \in Positions : <<gen, i>> \in Image(s) => low < i
  <2>. SUFFICES ASSUME NEW i \in Positions, <<gen, i>> \in Image(s)
                PROVE  low < i
    OBVIOUS
  <2>1. i \in Nat /\ i # 0
    BY Sizes
  <2>2. PICK k \in 1 .. n : <<gen, i>> = <<gen, low + k>>
    BY <1>7, <2>1 DEF Junk
  <2>. QED  BY <1>2, <2>1, <2>2
<1>12. NoByteTwice'
  <2>1. ASSUME NEW j \in DOMAIN dest', dest'[j] # Junk
        PROVE  dest'[j] \notin given /\ (dest'[j] \in abandoned => dest'[j] \in unwiped)
    <3>1. CASE j \in 1 .. m
      BY <2>1, <3>1, <1>5 DEF Once, NoByteTwice
    <3>2. CASE ~(j \in 1 .. m)
      <4>1. PICK k \in 1 .. n : j = m + k
        <5>1. j - m \in 1 .. n /\ j = m + (j - m)
          BY <3>2, <1>2, <1>5
        <5>. QED  BY <5>1
      <4>2. dest'[j] = <<gen, low + k>> /\ low + k \in Positions
        BY <2>1, <4>1, <1>2, <1>4, <1>5
      <4>3. ~(avail < low + k)
        BY <1>2
      <4>4. buf[low + k] # Junk
        BY <2>1, <4>1, <1>3, <1>5
      <4>. QED  BY <4>2, <4>3, <4>4 DEF Once
    <3>. QED  BY <3>1, <3>2
  <2>2. ASSUME NEW i \in 1 .. m, NEW k \in 1 .. n, dest'[m + k] # Junk
        PROVE  dest'[i] # dest'[m + k]
    <3>1. dest'[m + k] = <<gen, low + k>> /\ low + k \in Positions
      BY <2>2, <1>2, <1>4, <1>5
    <3>2. dest'[i] = dest[i] /\ dest[i] \in Image(dest)
      BY <1>5 DEF Image
    <3>3. <<gen, low + k>> \notin Image(dest)
      <4>1. ~(DestLow < low + k)
        BY <1>2, <1>8
      <4>. QED  BY <3>1, <4>1 DEF Once
    <3>. QED  BY <3>1, <3>2, <3>3
  <2>3. ASSUME NEW i \in 1 .. n, NEW k \in 1 .. n,
               dest'[m + k] # Junk, dest'[m + i] = dest'[m + k]
        PROVE  i = k
    <3>1. <<gen, low + i>> = <<gen, low + k>>
      BY <2>3, <1>4, <1>5
    <3>. QED  BY <3>1, <1>2
  <2>4. ASSUME NEW i \in DOMAIN dest', NEW j \in DOMAIN dest',
               dest'[i] # Junk, dest'[j] = dest'[i]
        PROVE  j = i
    <3>1. ASSUME NEW x \in DOMAIN dest', ~(x \in 1 .. m)
          PROVE  \E k \in 1 .. n : x = m + k
      <4>1. x - m \in 1 .. n /\ x = m + (x - m)
        BY <3>1, <1>2, <1>5
      <4>. QED  BY <4>1
    <3>2. CASE i \in 1 .. m /\ j \in 1 .. m
      BY <2>4, <3>2, <1>5 DEF Once, NoByteTwice
    <3>3. CASE i \in 1 .. m /\ ~(j \in 1 .. m)
      BY <2>4, <3>1, <3>3, <2>2
    <3>4. CASE ~(i \in 1 .. m) /\ j \in 1 .. m
      BY <2>4, <3>1, <3>4, <2>2
    <3>5. CASE ~(i \in 1 .. m) /\ ~(j \in 1 .. m)
      <4>1. PICK k \in 1 .. n : i = m + k
        BY <3>1, <3>5
      <4>2. PICK l \in 1 .. n : j = m + l
        BY <3>1, <3>5
      <4>. QED  BY <2>4, <4>1, <4>2, <2>3
    <3>. QED  BY <3>2, <3>3, <3>4, <3>5
  <2>. QED  BY <2>1, <2>4 DEF NoByteTwice
<1>13. \A i \in Positions : <<gen, i>> \in Image(dest') => DestLow' < i
  BY <1>6, <1>8, <1>10, <1>11
<1>. QED  BY <1>9, <1>12, <1>13 DEF Once

LEMMA OnceStep ==
  ASSUME TypeOK, Once, WipedBehind, [Next]_vars
  PROVE  Once'
<1>1. /\ avail \in 0 .. cxtSize /\ want \in Nat /\ gen \in Nat
      /\ buf \in [Positions -> Label]
  BY DEF TypeOK
<1>2. /\ Leftover(want) \in Nat /\ Leftover(want) <= avail
      /\ Leftover(KeyBytes) \in Nat /\ Leftover(KeyBytes) <= avail
      /\ avail \in Nat /\ KeyBytes \in Nat
  <2>1. KeyBytes \in Nat /\ avail \in Nat
    BY <1>1, Sizes
  <2>. QED  BY <1>1, <2>1, Demand
<1>3. DestLow \in Nat /\ DestLow <= avail
  BY <1>2 DEF DestLow
<1>4. Positions \subseteq Int
  BY Sizes
<1>5. CASE Open
  <2>1. /\ dest' = << >> /\ given' = {} /\ abandoned' = {}
        /\ buf' = [i \in Positions |-> Junk]
    BY <1>5 DEF Open
  <2>2. Image(dest') = {} /\ DOMAIN dest' = {}
    BY <2>1 DEF Image
  <2>. QED  BY <2>1, <2>2 DEF Once, NoByteTwice
<1>6. CASE Close
  BY <1>1, <1>2, <1>3, <1>4, <1>6, OnceKept
  DEF Close, cxtVars, history, output, past, DestLow
<1>7. CASE UserReseed
  BY <1>7, OnceBegun DEF UserReseed, Call, cxtVars, history, past
<1>8. ASSUME NEW n \in 0 .. MaxRequest, Request(n)
      PROVE  Once'
  BY <1>8, OnceBegun DEF Request, Call, cxtVars, history, past
<1>9. CASE Copy
  <2>1. CASE target = "dest"
    BY <1>9, <2>1, OnceCopied DEF Copy, cxtVars, history, past, req
  <2>2. CASE target # "dest"
    <3>1. DestLow = avail /\ DestLow' = avail
      BY <1>9, <2>2 DEF Copy, cxtVars, DestLow
    <3>. QED
      BY <1>2, <1>4, <1>9, <2>2, <3>1, OnceKept DEF Copy, cxtVars, history, past
  <2>. QED  BY <2>1, <2>2
<1>10. CASE Wipe
  <2>1. \A i \in Positions : buf'[i] \in {Junk, buf[i]}
    <3>1. req \in Nat
      BY <1>2, <1>1 DEF req
    <3>. QED  BY <1>1, <1>10, <3>1, WipedLabels DEF Wipe
  <2>2. DestLow' = DestLow
    BY <1>10 DEF Wipe, DestLow, Leftover, Satisfy
  <2>. QED
    BY <1>2, <1>3, <1>4, <1>10, <2>1, <2>2, OnceKept DEF Wipe, history, output, past
<1>11. CASE SetForRequest
  <2>1. /\ avail' = Leftover(want) /\ DestLow = Leftover(want)
        /\ pc' \in {"sample", "idle"} /\ UNCHANGED <<buf, gen, abandoned, unwiped>>
    BY <1>11 DEF SetForRequest, setBytes, req, Go, history, DestLow
  <2>2. DestLow' = Leftover(want)
    BY <2>1 DEF DestLow
  <2>3. CASE want' > 0
    <3>1. UNCHANGED <<dest, given>>
      BY <1>11, <2>3 DEF SetForRequest
    <3>. QED  BY <1>2, <1>3, <1>4, <2>1, <2>2, <3>1, OnceKept
  <2>4. CASE ~(want' > 0)
    <3>1. dest' = << >> /\ given' = given \cup Image(dest)
      BY <1>11, <2>4 DEF SetForRequest
    <3>2. Image(dest') = {} /\ DOMAIN dest' = {}
      BY <3>1 DEF Image
    <3>3. \A i \in Positions : <<gen, i>> \in given => Leftover(want) < i
      <4>1. \A i \in Positions : <<gen, i>> \in given => avail < i
        BY DEF Once
      <4>. QED  BY <4>1, <1>2, <1>4
    <3>4. \A i \in Positions : <<gen, i>> \in Image(dest) => Leftover(want) < i
      BY <2>1 DEF Once
    <3>5. NoByteTwice'
      BY <3>2 DEF NoByteTwice
    <3>6. \A i \in Positions : avail < i => Leftover(want) < i
      BY <1>2, <1>4
    <3>. QED  BY <2>1, <3>1, <3>2, <3>3, <3>4, <3>5, <3>6 DEF Once
  <2>. QED  BY <2>3, <2>4
<1>12. CASE SetForKey
  <2>1. /\ avail' = Leftover(KeyBytes) /\ DestLow = avail
        /\ pc' \in {"copy", "idle"}
    BY <1>12 DEF SetForKey, setBytes, req, DestLow
  <2>2. DestLow' = avail'
    BY <2>1 DEF DestLow
  <2>. QED
    BY <1>2, <1>4, <1>12, <2>1, <2>2, OnceKept DEF SetForKey, history, output, past
<1>13. CASE Sample
  BY <1>2, <1>3, <1>4, <1>13, OnceKept
  DEF Sample, cxtVars, history, output, past, DestLow
<1>14. CASE InitWithEntropy
  BY <1>2, <1>3, <1>4, <1>14, OnceKept
  DEF InitWithEntropy, cxtVars, output, past, DestLow
<1>15. CASE ZeroBlocks
  BY <1>2, <1>3, <1>4, <1>15, OnceKept
  DEF ZeroBlocks, cxtVars, history, output, past, DestLow
<1>16. CASE RandomBlocks
  <2>1. /\ gen' = gen + 1 /\ UNCHANGED <<dest, given, abandoned, unwiped>>
        /\ buf' = [i \in Positions |-> <<gen + 1, i>>]
    BY <1>16 DEF RandomBlocks, output, past
  <2>2. \A b \in given \cup abandoned \cup Image(dest) : b \in Int \X Int
    BY DEF TypeOK, Label, Image
  <2>3. \A b \in given \cup abandoned \cup Image(dest) : b[1] <= gen
    BY DEF Once
  <2>4. \A b \in given \cup abandoned \cup Image(dest) : b[1] <= gen + 1 /\ b[1] # gen + 1
    BY <1>1, <2>2, <2>3
  <2>5. Image(dest') = Image(dest) /\ NoByteTwice'
    BY <2>1 DEF Once, NoByteTwice, Image
  <2>. QED  BY <2>1, <2>4, <2>5 DEF Once
<1>17. CASE SetFull
  <2>1. pc = "full" /\ pc' = "count" /\ UNCHANGED <<buf, gen, dest, given, abandoned, unwiped>>
    BY <1>17 DEF SetFull, history, output, past
  <2>2. Image(dest') = Image(dest) /\ NoByteTwice'
    BY <2>1 DEF Once, NoByteTwice, Image
  <2>. QED  BY <2>1, <2>2 DEF Once
<1>18. CASE CountBlocks
  <2>1. DestLow = avail /\ DestLow' = avail
    BY <1>18 DEF CountBlocks, cxtVars, DestLow
  <2>. QED
    BY <1>2, <1>4, <1>18, <2>1, OnceKept DEF CountBlocks, cxtVars, history, output, past
<1>19. CASE EntropyThrows
  BY <1>19, OnceAbandoned DEF EntropyThrows
<1>20. CASE Interrupt
  BY <1>20, OnceAbandoned DEF Interrupt
<1>21. CASE UNCHANGED vars
  <2>1. UNCHANGED <<buf, avail, gen, dest, given, abandoned, unwiped, pc, target, want>>
    BY <1>21 DEF vars, cxtVars, control, history, output, past
  <2>. QED  BY <2>1 DEF Once, NoByteTwice, Image, DestLow, Leftover, Satisfy
<1>. QED
  BY <1>5, <1>6, <1>7, <1>8, <1>9, <1>10, <1>11, <1>12, <1>13, <1>14, <1>15,
     <1>16, <1>17, <1>18, <1>19, <1>20, <1>21
  DEF Next, Step

LEMMA OnceInvariant == Spec => [](TypeOK /\ Once /\ WipedBehind)
<1>1. Init => WipedBehind
  BY DEF Init, WipedBehind
<1>. QED  BY TypeInit, TypeStep, OnceInit, OnceStep, WipedBehindStep, <1>1, PTL DEF Spec

(* No random byte is delivered twice, by whatever requests and refills,    *)
(* even if entropy fails and exceptions strike between any two steps and   *)
(* the bytes of the calls that they end are counted: only a byte that was  *)
(* copied and not wiped when the exception struck may come again.          *)
THEOREM NoByteIsTwice == Spec => []NoByteTwice
<1>1. Once => NoByteTwice
  BY DEF Once
<1>. QED  BY OnceInvariant, <1>1, PTL

-----------------------------------------------------------------------------
\* Sessions that nothing disturbs.

Undisturbed == Interruptible = FALSE /\ EntropyMayFail = FALSE

(* The buffer holds a generation whose key is not replaced yet.            *)
Filled == pc \in {"full", "count"} \/ target = "key"

(* Requests are served, between two generations.                           *)
Serving == target = "dest" /\ pc \in {"idle", "copy", "wipe", "set", "sample"}

(* The end of a generation, which becomes the next key.                    *)
KeyPart(g) == [i \in 1 .. KeyBytes |-> <<g, cxtSize - KeyBytes + i>>]

(* Where the buffer ends that is not wiped.                                *)
Low ==
  IF pc = "set" THEN Leftover(req)
  ELSE IF pc = "full" THEN cxtSize
  ELSE avail

Control ==
  /\ target = "key" => pc \in {"copy", "wipe", "set"}
  /\ Serving \/ Filled => gen >= 1
  /\ pc = "count" \/ target = "key" => avail = cxtSize
  /\ Serving => avail <= cxtSize - KeyBytes

BufferHolds ==
  \A i \in Positions :
    /\ i > Low => buf[i] = Junk
    /\ i <= Low /\ (Serving \/ Filled) => buf[i] = <<gen, i>>

KeyCell ==
  /\ Serving => key = KeyPart(gen)
  /\ pc \in {"entropy", "closed"} =>
       \/ key = KeyPart(gen)
       \/ gen = 0 /\ key = [i \in 1 .. KeyBytes |-> Junk]
  /\ pc = "zero" => key = Entropy(gen + 1)
  /\ pc = "generate" => key = KeyPart(gen) \/ key = Entropy(gen + 1)
  /\ Filled /\ pc \notin {"wipe", "set"} =>
       key = KeyPart(gen - 1) \/ key = Entropy(gen)
  /\ Filled /\ pc \in {"wipe", "set"} => key = KeyPart(gen)

(* Every key that was used came from the generation before or from fresh   *)
(* entropy: a byte of it tells which.                                      *)
KeysUsed ==
  \A h \in 1 .. gen : <<-h, 1>> \in keyUsed[h] \/ <<h - 1, cxtSize>> \in keyUsed[h]

(* Delivered bytes are generated ones, and never those that became a key.  *)
NeverKeys ==
  \A b \in given \cup Image(dest) :
    \E g \in 1 .. gen : \E i \in 1 .. cxtSize - KeyBytes : b = <<g, i>>

Guarded == Control /\ BufferHolds /\ KeyCell /\ KeysUsed /\ NeverKeys

LEMMA GuardedInit == Init => Guarded
<1>1. SUFFICES ASSUME Init PROVE Guarded
  OBVIOUS
<1>2. /\ pc = "closed" /\ target = "dest" /\ gen = 0 /\ avail = 0
      /\ dest = << >> /\ given = {}
      /\ key = [i \in 1 .. KeyBytes |-> Junk]
      /\ buf = [i \in Positions |-> Junk]
  BY <1>1 DEF Init
<1>3. Control /\ KeyCell /\ KeysUsed
  BY <1>2 DEF Control, KeyCell, KeysUsed, Serving, Filled
<1>4. BufferHolds
  BY <1>2 DEF BufferHolds, Serving, Filled
<1>5. NeverKeys
  <2>1. Image(dest) = {}
    BY <1>2 DEF Image
  <2>. QED  BY <1>2, <2>1 DEF NeverKeys
<1>. QED  BY <1>3, <1>4, <1>5 DEF Guarded

LEMMA ControlStep ==
  ASSUME Undisturbed, TypeOK, Control, [Next]_vars
  PROVE  Control'
<1>1. /\ avail \in 0 .. cxtSize /\ want \in Nat /\ gen \in Nat /\ target \in {"dest", "key"}
      /\ cxtSize \in Nat /\ KeyBytes \in Nat /\ KeyBytes <= cxtSize
  BY Sizes DEF TypeOK
<1>2. /\ Leftover(want) \in Nat /\ Leftover(want) <= avail
      /\ avail = cxtSize => Leftover(KeyBytes) = cxtSize - KeyBytes
  BY <1>1 DEF Leftover, Satisfy
<1>. USE DEF Control, Serving, Filled
<1>3. CASE Open
  BY <1>3 DEF Open
<1>4. CASE Close
  BY <1>4 DEF Close, cxtVars, history
<1>5. CASE UserReseed
  BY <1>5 DEF UserReseed, Call, cxtVars, history
<1>6. ASSUME NEW n \in 0 .. MaxRequest, Request(n)
      PROVE  Control'
  BY <1>6 DEF Request, Call, cxtVars, history
<1>7. CASE Copy
  BY <1>7 DEF Copy, cxtVars, history
<1>8. CASE Wipe
  BY <1>8 DEF Wipe, history
<1>9. CASE SetForRequest
  BY <1>1, <1>2, <1>9 DEF SetForRequest, setBytes, req, Go, history
<1>10. CASE SetForKey
  BY <1>1, <1>2, <1>10 DEF SetForKey, setBytes, req, history
<1>11. CASE Sample
  BY <1>11 DEF Sample, cxtVars, history
<1>12. CASE InitWithEntropy
  BY <1>12 DEF InitWithEntropy, cxtVars
<1>13. CASE ZeroBlocks
  BY <1>13 DEF ZeroBlocks, cxtVars, history
<1>14. CASE RandomBlocks
  BY <1>1, <1>14 DEF RandomBlocks
<1>15. CASE SetFull
  BY <1>15 DEF SetFull, unsafeSetCxtFull, setBytes, history
<1>16. CASE CountBlocks
  BY <1>16 DEF CountBlocks, cxtVars, history
<1>17. CASE UNCHANGED vars
  BY <1>17 DEF vars, cxtVars, control, history
<1>. QED
  BY <1>3, <1>4, <1>5, <1>6, <1>7, <1>8, <1>9, <1>10, <1>11, <1>12, <1>13,
     <1>14, <1>15, <1>16, <1>17
  DEF Next, Step, Undisturbed, EntropyThrows, Interrupt

(* Only a run of randomBlocks begins a generation.                         *)
LEMMA GenerationSteps ==
  ASSUME [Next]_vars
  PROVE  Open \/ RandomBlocks \/ UNCHANGED <<gen, keyUsed>>
<1>1. ASSUME Close \/ UserReseed
      PROVE  UNCHANGED <<gen, keyUsed>>
  BY <1>1 DEF Close, UserReseed, Call, history
<1>2. ASSUME NEW n \in 0 .. MaxRequest, Request(n)
      PROVE  UNCHANGED <<gen, keyUsed>>
  BY <1>2 DEF Request, Call, history
<1>3. ASSUME Copy \/ Wipe \/ SetForRequest \/ SetForKey
      PROVE  UNCHANGED <<gen, keyUsed>>
  BY <1>3 DEF Copy, Wipe, SetForRequest, SetForKey, history
<1>4. ASSUME Sample \/ InitWithEntropy \/ ZeroBlocks \/ SetFull \/ CountBlocks
      PROVE  UNCHANGED <<gen, keyUsed>>
  BY <1>4 DEF Sample, InitWithEntropy, ZeroBlocks, SetFull, CountBlocks, history
<1>5. ASSUME EntropyThrows \/ Interrupt
      PROVE  UNCHANGED <<gen, keyUsed>>
  BY <1>5 DEF EntropyThrows, Interrupt, Abandon, history
<1>6. ASSUME UNCHANGED vars
      PROVE  UNCHANGED <<gen, keyUsed>>
  BY <1>6 DEF vars, history
<1>. QED
  BY <1>1, <1>2, <1>3, <1>4, <1>5, <1>6 DEF Next, Step

LEMMA KeysUsedStep ==
  ASSUME TypeOK, KeyCell, KeysUsed, [Next]_vars
  PROVE  KeysUsed'
<1>1. CASE UNCHANGED <<gen, keyUsed>>
  BY <1>1 DEF KeysUsed
<1>2. CASE Open
  <2>1. gen' = 0
    BY <1>2 DEF Open
  <2>2. 1 .. gen' = {}
    BY <2>1
  <2>. QED  BY <2>2, Zenon DEF KeysUsed
<1>3. CASE RandomBlocks
  <2>1. /\ gen \in Nat /\ gen' = gen + 1
        /\ keyUsed' = Append(keyUsed, Image(key))
        /\ key = KeyPart(gen) \/ key = Entropy(gen + 1)
    BY <1>3 DEF RandomBlocks, TypeOK, KeyCell
  <2>2. keyUsed \in Seq(SUBSET Label) /\ Len(keyUsed) = gen
    <3>1. keyUsed \in [1 .. gen -> SUBSET Label] /\ gen \in Nat
      BY DEF TypeOK
    <3>. QED  BY <3>1
  <2>3. /\ \A h \in 1 .. gen : keyUsed'[h] = keyUsed[h]
        /\ keyUsed'[gen + 1] = Image(key)
    BY <2>1, <2>2
  <2>4. CASE key = KeyPart(gen)
    <3>1. KeyBytes \in DOMAIN key /\ key[KeyBytes] = <<gen, cxtSize>>
      BY <2>4, Sizes DEF KeyPart
    <3>2. <<gen, cxtSize>> \in keyUsed'[gen + 1]
      BY <2>3, <3>1 DEF Image
    <3>3. ASSUME NEW h \in 1 .. gen + 1
          PROVE  <<-h, 1>> \in keyUsed'[h] \/ <<h - 1, cxtSize>> \in keyUsed'[h]
      <4>1. h \in 1 .. gen \/ (h = gen + 1 /\ h - 1 = gen)
        BY <2>1
      <4>. QED  BY <2>3, <3>2, <4>1 DEF KeysUsed
    <3>. QED  BY <2>1, <3>3 DEF KeysUsed
  <2>5. CASE key = Entropy(gen + 1)
    <3>1. 1 \in DOMAIN key /\ key[1] = <<-(gen + 1), 1>>
      BY <2>5, Sizes DEF Entropy
    <3>2. <<-(gen + 1), 1>> \in keyUsed'[gen + 1]
      BY <2>3, <3>1 DEF Image
    <3>3. ASSUME NEW h \in 1 .. gen + 1
          PROVE  <<-h, 1>> \in keyUsed'[h] \/ <<h - 1, cxtSize>> \in keyUsed'[h]
      <4>1. h \in 1 .. gen \/ h = gen + 1
        BY <2>1
      <4>. QED  BY <2>3, <3>2, <4>1 DEF KeysUsed
    <3>. QED  BY <2>1, <3>3 DEF KeysUsed
  <2>. QED  BY <2>1, <2>4, <2>5
<1>4. Open \/ RandomBlocks \/ UNCHANGED <<gen, keyUsed>>
  BY GenerationSteps
<1>. QED  BY <1>1, <1>2, <1>3, <1>4

LEMMA BufferHoldsStep ==
  ASSUME Undisturbed, TypeOK, Control, BufferHolds, [Next]_vars
  PROVE  BufferHolds'
<1>1. /\ avail \in 0 .. cxtSize /\ want \in Nat /\ gen \in Nat
      /\ target \in {"dest", "key"}
      /\ KeyBytes \in Nat /\ cxtSize \in Nat /\ Positions = 1 .. cxtSize
  BY Sizes DEF TypeOK
<1>2. /\ req \in Nat /\ Leftover(req) \in Nat /\ Leftover(req) <= avail
  BY <1>1 DEF req, Leftover, Satisfy
<1>3. ASSUME UNCHANGED <<buf, gen>>, Low' = Low,
             Serving' \/ Filled' => Serving \/ Filled
      PROVE  BufferHolds'
  BY <1>3 DEF BufferHolds
<1>4. CASE Open
  <2>1. /\ buf' = [i \in Positions |-> Junk] /\ pc' = "entropy" /\ target' = "dest"
    BY <1>4 DEF Open
  <2>. QED  BY <2>1 DEF BufferHolds, Serving, Filled
<1>5. CASE Close
  BY <1>3, <1>5 DEF Close, cxtVars, history, Low, Serving, Filled
<1>6. CASE UserReseed
  BY <1>3, <1>6 DEF UserReseed, Call, cxtVars, history, Low, Serving, Filled
<1>7. ASSUME NEW n \in 0 .. MaxRequest, Request(n)
      PROVE  BufferHolds'
  BY <1>3, <1>7 DEF Request, Call, cxtVars, history, Low, Serving, Filled
<1>8. CASE Copy
  BY <1>3, <1>8 DEF Copy, cxtVars, history, Low, Serving, Filled
<1>9. CASE Wipe
  <2>1. Low = avail /\ Low' = Leftover(req)
    BY <1>9 DEF Wipe, Low, Leftover, Satisfy, req
  <2>2. /\ \A i \in Positions :
             buf'[i] = IF i > Leftover(req) /\ i <= avail THEN Junk ELSE buf[i]
        /\ gen' = gen /\ Serving' = Serving /\ Filled' = Filled
    BY <1>9 DEF Wipe, WipedBy, history, Serving, Filled
  <2>3. ASSUME NEW i \in Positions
        PROVE  /\ i > Low' => buf'[i] = Junk
               /\ i <= Low' /\ (Serving \/ Filled) => buf'[i] = <<gen, i>>
    <3>1. CASE i > avail
      BY <1>1, <1>2, <2>1, <2>2, <3>1 DEF BufferHolds
    <3>2. CASE i <= avail
      BY <1>1, <1>2, <2>1, <2>2, <3>2 DEF BufferHolds
    <3>. QED  BY <1>1, <3>1, <3>2
  <2>. QED  BY <2>2, <2>3 DEF BufferHolds
<1>10. CASE SetForRequest
  <2>1. Low' = Low
    BY <1>10 DEF SetForRequest, setBytes, Go, Low
  <2>. QED  BY <1>3, <1>10, <2>1 DEF SetForRequest, history, Serving, Filled
<1>11. CASE SetForKey
  <2>1. Low' = Low
    BY <1>11 DEF SetForKey, setBytes, Low
  <2>. QED  BY <1>3, <1>11, <2>1 DEF SetForKey, history, Serving, Filled
<1>12. CASE Sample
  BY <1>3, <1>12 DEF Sample, cxtVars, history, Low, Serving, Filled
<1>13. CASE InitWithEntropy
  BY <1>3, <1>13 DEF InitWithEntropy, cxtVars, Low, Serving, Filled
<1>14. CASE ZeroBlocks
  BY <1>3, <1>14 DEF ZeroBlocks, cxtVars, history, Low, Serving, Filled
<1>15. CASE RandomBlocks
  <2>1. Low' = cxtSize
    BY <1>15 DEF RandomBlocks, Low
  <2>2. gen' = gen + 1 /\ buf' = [i \in Positions |-> <<gen + 1, i>>]
    BY <1>15 DEF RandomBlocks
  <2>3. \A i \in Positions : ~(i > cxtSize)
    BY <1>1
  <2>. QED  BY <2>1, <2>2, <2>3 DEF BufferHolds
<1>16. CASE SetFull
  <2>1. Low' = Low /\ Filled
    BY <1>16 DEF SetFull, unsafeSetCxtFull, setBytes, Low, Filled
  <2>. QED  BY <1>3, <1>16, <2>1 DEF SetFull, history
<1>17. CASE CountBlocks
  BY <1>3, <1>17 DEF CountBlocks, cxtVars, history, Low, Serving, Filled
<1>18. CASE UNCHANGED vars
  BY <1>3, <1>18
  DEF vars, cxtVars, control, history, Low, Serving, Filled, Leftover, Satisfy, req
<1>. QED
  BY <1>4, <1>5, <1>6, <1>7, <1>8, <1>9, <1>10, <1>11, <1>12, <1>13,
     <1>14, <1>15, <1>16, <1>17, <1>18
  DEF Next, Step, Undisturbed, EntropyThrows, Interrupt

LEMMA KeyCellStep ==
  ASSUME Undisturbed, TypeOK, Control, BufferHolds, KeyCell, [Next]_vars
  PROVE  KeyCell'
<1>1. gen \in Nat /\ target \in {"dest", "key"}
  BY DEF TypeOK
<1>2. CASE Open
  BY <1>2 DEF Open, KeyCell, Serving, Filled
<1>3. CASE Close
  BY <1>1, <1>3 DEF Close, history, Control, KeyCell, Serving, Filled
<1>4. CASE UserReseed
  BY <1>1, <1>4 DEF UserReseed, Call, history, Control, KeyCell, Serving, Filled
<1>5. ASSUME NEW n \in 0 .. MaxRequest, Request(n)
      PROVE  KeyCell'
  BY <1>1, <1>5 DEF Request, Call, history, Control, KeyCell, Serving, Filled
<1>6. CASE Copy
  <2>1. CASE target = "dest"
    BY <1>6, <2>1 DEF Copy, history, KeyCell, Serving, Filled
  <2>2. CASE target = "key"
    <3>1. req = KeyBytes /\ avail = cxtSize /\ Low = cxtSize /\ Filled
      BY <1>6, <2>2 DEF Copy, req, Control, Low, Filled
    <3>2. /\ Satisfy(KeyBytes) = KeyBytes
          /\ Leftover(KeyBytes) = cxtSize - KeyBytes
      BY <3>1, Sizes DEF Satisfy, Leftover
    <3>3. \A i \in 1 .. KeyBytes : GivenTo(KeyBytes)[i] = buf[cxtSize - KeyBytes + i]
      BY <3>2 DEF GivenTo
    <3>4. \A i \in 1 .. KeyBytes :
             /\ i <= KeyBytes
             /\ cxtSize - KeyBytes + i \in Positions
             /\ cxtSize - KeyBytes + i <= cxtSize
      BY Sizes
    <3>5. \A i \in 1 .. KeyBytes : buf[cxtSize - KeyBytes + i] = <<gen, cxtSize - KeyBytes + i>>
      BY <3>1, <3>4 DEF BufferHolds
    <3>6. key' = [i \in 1 .. KeyBytes |->
                    IF i <= KeyBytes THEN GivenTo(KeyBytes)[i] ELSE key[i]]
      BY <1>6, <2>2, <3>1, <3>2 DEF Copy
    <3>7. key' = KeyPart(gen)
      BY <3>3, <3>4, <3>5, <3>6 DEF KeyPart
    <3>. QED  BY <1>6, <2>2, <3>7 DEF Copy, history, KeyCell, Serving, Filled
  <2>. QED  BY <1>1, <2>1, <2>2
<1>7. CASE Wipe
  BY <1>7 DEF Wipe, history, KeyCell, Serving, Filled
<1>8. CASE SetForRequest
  BY <1>8 DEF SetForRequest, Go, history, KeyCell, Serving, Filled
<1>9. CASE SetForKey
  BY <1>9 DEF SetForKey, history, KeyCell, Serving, Filled
<1>10. CASE Sample
  BY <1>1, <1>10 DEF Sample, history, Control, KeyCell, Serving, Filled
<1>11. CASE InitWithEntropy
  <2>1. key' = [i \in 1 .. KeyBytes |->
                  IF i <= KeyBytes THEN Entropy(gen + 1)[i] ELSE key[i]]
    BY <1>11, Zenon DEF InitWithEntropy, Undisturbed
  <2>2. key' = Entropy(gen + 1)
    <3>1. \A i \in 1 .. KeyBytes : i <= KeyBytes
      BY Sizes
    <3>. QED  BY <2>1, <3>1 DEF Entropy
  <2>3. pc' = "zero" /\ gen' = gen /\ target' = target /\ pc = "entropy"
    BY <1>11 DEF InitWithEntropy
  <2>. QED  BY <2>2, <2>3 DEF Control, KeyCell, Serving, Filled
<1>12. CASE ZeroBlocks
  BY <1>12 DEF ZeroBlocks, history, Control, KeyCell, Serving, Filled
<1>13. CASE RandomBlocks
  <2>1. gen' = gen + 1 /\ gen' - 1 = gen /\ key' = key /\ pc' = "full"
    BY <1>1, <1>13 DEF RandomBlocks
  <2>2. key = KeyPart(gen) \/ key = Entropy(gen + 1)
    BY <1>13 DEF RandomBlocks, KeyCell
  <2>. QED  BY <2>1, <2>2 DEF KeyCell, Serving, Filled
<1>14. CASE SetFull
  BY <1>14 DEF SetFull, history, KeyCell, Serving, Filled
<1>15. CASE CountBlocks
  BY <1>15 DEF CountBlocks, history, KeyCell, Serving, Filled
<1>16. CASE UNCHANGED vars
  <2>1. UNCHANGED <<pc, target, gen, key>>
    BY <1>16 DEF vars, control, history
  <2>. QED  BY <2>1 DEF KeyCell, Serving, Filled
<1>. QED
  BY <1>2, <1>3, <1>4, <1>5, <1>6, <1>7, <1>8, <1>9, <1>10, <1>11, <1>12,
     <1>13, <1>14, <1>15, <1>16
  DEF Next, Step, Undisturbed, EntropyThrows, Interrupt

LEMMA NeverKeysStep ==
  ASSUME Undisturbed, TypeOK, Control, BufferHolds, NeverKeys, [Next]_vars
  PROVE  NeverKeys'
<1>1. /\ avail \in 0 .. cxtSize /\ want \in Nat /\ gen \in Nat
      /\ buf \in [Positions -> Label] /\ dest \in Seq(Label)
  BY DEF TypeOK
<1>2. ASSUME given' \cup Image(dest') \subseteq given \cup Image(dest), gen' >= gen, gen' \in Nat
      PROVE  NeverKeys'
  <2>1. 1 .. gen \subseteq 1 .. gen'
    BY <1>1, <1>2
  <2>2. \A b \in given' \cup Image(dest') :
           \E g \in 1 .. gen : \E i \in 1 .. cxtSize - KeyBytes : b = <<g, i>>
    BY <1>2 DEF NeverKeys
  <2>. QED  BY <2>1, <2>2 DEF NeverKeys
<1>3. ASSUME UNCHANGED <<gen, given, dest>>
      PROVE  NeverKeys'
  BY <1>3 DEF NeverKeys, Image
<1>4. Image(<< >>) = {}
  BY DEF Image
<1>5. CASE Open
  <2>1. given' = {} /\ dest' = << >>
    BY <1>5 DEF Open
  <2>2. given' \cup Image(dest') = {}
    BY <1>4, <2>1
  <2>. QED  BY <2>2 DEF NeverKeys
<1>6. CASE UserReseed
  BY <1>1, <1>2, <1>4, <1>6 DEF UserReseed, Call, history, past
<1>7. ASSUME NEW n \in 0 .. MaxRequest, Request(n)
      PROVE  NeverKeys'
  BY <1>1, <1>2, <1>4, <1>7 DEF Request, Call, history, past
<1>8. CASE Copy
  <2>1. CASE target = "key"
    BY <1>3, <1>8, <2>1 DEF Copy, history, past
  <2>2. CASE target # "key"
    <3>1. /\ dest' = dest \o GivenTo(want) /\ given' = given /\ gen' = gen
          /\ Serving /\ Low = avail
      BY <1>8, <2>2 DEF Copy, history, past, req, Serving, Low
    <3>2. gen >= 1 /\ avail <= cxtSize - KeyBytes
      BY <3>1 DEF Control
    <3>3. /\ GivenTo(want) \in Seq(Label)
          /\ DOMAIN GivenTo(want) = 1 .. Satisfy(want)
          /\ \A i \in 1 .. Satisfy(want) : GivenTo(want)[i] = buf[Leftover(want) + i]
      BY <1>1, GivenLabels, Zenon
    <3>4. /\ Satisfy(want) \in Nat /\ Leftover(want) \in Nat
          /\ Leftover(want) + Satisfy(want) = avail
          /\ \A i \in 1 .. Satisfy(want) : Leftover(want) + i \in Positions
      BY <1>1, Demand
    <3>5. ASSUME NEW i \in 1 .. Satisfy(want)
          PROVE  /\ Leftover(want) + i \in 1 .. cxtSize - KeyBytes
                 /\ GivenTo(want)[i] = <<gen, Leftover(want) + i>>
      <4>1. Leftover(want) + i <= avail /\ Leftover(want) + i >= 1
        BY <3>4
      <4>2. buf[Leftover(want) + i] = <<gen, Leftover(want) + i>>
        BY <3>1, <3>4, <4>1 DEF BufferHolds
      <4>3. Leftover(want) + i \in 1 .. cxtSize - KeyBytes
        BY <1>1, <3>2, <3>4, <4>1, Sizes
      <4>. QED  BY <3>3, <4>2, <4>3
    <3>6. \A b \in Image(GivenTo(want)) :
             \E g \in 1 .. gen : \E i \in 1 .. cxtSize - KeyBytes : b = <<g, i>>
      <4>1. gen \in 1 .. gen
        BY <1>1, <3>2
      <4>. QED  BY <3>3, <3>5, <4>1 DEF Image
    <3>7. Image(dest') = Image(dest) \cup Image(GivenTo(want))
      BY <1>1, <3>1, <3>3, ImageOfConcat
    <3>. QED  BY <3>1, <3>6, <3>7 DEF NeverKeys
  <2>. QED  BY <2>1, <2>2
<1>9. CASE SetForRequest
  <2>1. \/ dest' = dest /\ given' = given
        \/ dest' = << >> /\ given' = given \cup Image(dest)
    BY <1>9 DEF SetForRequest
  <2>2. gen' = gen
    BY <1>9 DEF SetForRequest, history
  <2>. QED  BY <1>1, <1>2, <1>3, <1>4, <2>1, <2>2
<1>10. CASE RandomBlocks
  <2>1. gen' = gen + 1 /\ dest' = dest /\ given' = given
    BY <1>10 DEF RandomBlocks, output, past
  <2>. QED  BY <1>1, <1>2, <2>1 DEF Image
<1>11. CASE Close \/ Wipe \/ SetForKey \/ Sample
  BY <1>3, <1>11 DEF Close, Wipe, SetForKey, Sample, history, output, past
<1>12. CASE InitWithEntropy \/ ZeroBlocks \/ SetFull \/ CountBlocks
  BY <1>3, <1>12 DEF InitWithEntropy, ZeroBlocks, SetFull, CountBlocks, history, output, past
<1>13. CASE UNCHANGED vars
  BY <1>3, <1>13 DEF vars, history, output, past
<1>. QED
  BY <1>5, <1>6, <1>7, <1>8, <1>9, <1>10, <1>11, <1>12, <1>13
  DEF Next, Step, Undisturbed, EntropyThrows, Interrupt

LEMMA GuardedStep ==
  ASSUME Undisturbed, TypeOK, Guarded, [Next]_vars
  PROVE  Guarded'
<1>1. Control /\ BufferHolds /\ KeyCell /\ KeysUsed /\ NeverKeys
  BY DEF Guarded
<1>2. Control' /\ BufferHolds'
  BY <1>1, ControlStep, BufferHoldsStep
<1>3. KeyCell' /\ KeysUsed'
  BY <1>1, KeyCellStep, KeysUsedStep
<1>4. NeverKeys'
  BY <1>1, NeverKeysStep
<1>. QED  BY <1>2, <1>3, <1>4 DEF Guarded

LEMMA GuardedInvariant ==
  ASSUME Undisturbed
  PROVE  Spec => [](TypeOK /\ Once /\ Guarded)
<1>1. Init => TypeOK /\ Guarded
  BY TypeInit, GuardedInit
<1>2. TypeOK /\ Guarded /\ [Next]_vars => (TypeOK /\ Guarded)'
  BY TypeStep, GuardedStep
<1>. QED  BY <1>1, <1>2, OnceInvariant, PTL DEF Spec

(* Without exceptions and with entropy that does not fail, requests        *)
(* deliver generated bytes only, never wiped or uninitialised memory.      *)
THEOREM OnlyRandomBytesLeave ==
  ASSUME Undisturbed
  PROVE  Spec => []OnlyRandomBytes
<1>1. TypeOK /\ Guarded => OnlyRandomBytes
  <2>. SUFFICES ASSUME NeverKeys, NEW b \in given \cup Image(dest)
                PROVE  b \in UNION {Generated(g) : g \in 1 .. gen}
    BY DEF Guarded, OnlyRandomBytes
  <2>1. PICK g \in 1 .. gen, i \in 1 .. cxtSize - KeyBytes : b = <<g, i>>
    BY DEF NeverKeys
  <2>2. i \in Positions
    BY Sizes
  <2>. QED  BY <2>1, <2>2 DEF Generated
<1>. QED  BY GuardedInvariant, <1>1, PTL

(* What the memory holds.                                                  *)
LEMMA MemoryLabels ==
  ASSUME TypeOK, Once, BufferHolds, NEW b \in Memory
  PROVE  \/ b = Junk
         \/ \E i \in Positions : i <= Low /\ b = <<gen, i>>
         \/ \E i \in 1 .. KeyBytes : b = key[i]
<1>1. /\ buf \in [Positions -> Label] /\ key \in [1 .. KeyBytes -> Label]
      /\ avail \in 0 .. cxtSize /\ want \in Nat
  BY DEF TypeOK
<1>2. CASE b \in Image(key)
  BY <1>1, <1>2 DEF Image
<1>3. CASE b \in Image(buf)
  <2>1. PICK i \in Positions : b = buf[i]
    BY <1>1, <1>3 DEF Image
  <2>2. CASE i > Low
    BY <2>1, <2>2 DEF BufferHolds
  <2>3. CASE ~(i > Low)
    <3>1. i <= Low
      <4>1. i \in Int /\ req \in Nat /\ Leftover(req) \in Int /\ cxtSize \in Int /\ avail \in Int
        BY <1>1, Sizes DEF req, Leftover, Satisfy
      <4>2. Low \in Int
        BY <4>1 DEF Low
      <4>. QED  BY <2>3, <4>1, <4>2
    <3>2. b \in {Junk, <<gen, i>>}
      BY <2>1 DEF Once
    <3>. QED  BY <3>1, <3>2
  <2>. QED  BY <2>2, <2>3
<1>. QED  BY <1>2, <1>3 DEF Memory

(* Between two generations the memory gives no key of the past away, and   *)
(* holds nothing that is out.                                              *)
LEMMA MemoryIsSafe ==
  ASSUME TypeOK, Once, Guarded, ~Filled
  PROVE  Closed({}) /\ Known({}) \cap (given \ {Junk}) = {}
<1>1. /\ gen \in Nat /\ avail \in 0 .. cxtSize /\ want \in Nat
      /\ target = "dest"
  BY DEF TypeOK, Filled
<1>2. BufferHolds /\ KeyCell /\ KeysUsed /\ NeverKeys
  BY DEF Guarded
<1>3. Known({}) = Memory
  BY DEF Known
<1>4. key \in {KeyPart(gen), Entropy(gen + 1)} \/ key = [i \in 1 .. KeyBytes |-> Junk]
  <2>1. pc \in {"closed", "idle", "copy", "wipe", "set", "sample",
                "entropy", "zero", "generate"}
    BY DEF TypeOK, Filled
  <2>. QED  BY <1>1, <1>2, <2>1 DEF KeyCell, Serving
<1>5. /\ Low <= avail /\ Low \in Int
  BY <1>1, Sizes DEF Low, Filled, req, Leftover, Satisfy
<1>6. ASSUME NEW b \in Memory
      PROVE  \/ b = Junk
             \/ \E i \in Positions : i <= Low /\ b = <<gen, i>>
             \/ \E i \in 1 .. KeyBytes : b = <<gen, cxtSize - KeyBytes + i>>
             \/ \E i \in 1 .. KeyBytes : b = <<-(gen + 1), i>>
  BY <1>2, <1>4, MemoryLabels DEF KeyPart, Entropy
<1>7. ASSUME NEW h \in 1 .. gen
      PROVE  <<-h, 1>> \notin Memory /\ <<h - 1, cxtSize>> \notin Memory
  <2>1. /\ h \in Nat /\ h >= 1 /\ h <= gen /\ cxtSize \in Nat /\ cxtSize >= 1
    BY <1>1, Sizes
  <2>2. /\ -h # 0 /\ -h # gen /\ -h # -(gen + 1)
        /\ h - 1 # gen /\ h - 1 # -(gen + 1) /\ cxtSize # 0
    BY <1>1, <2>1
  <2>3. \A b \in Memory : b[1] \in {gen, -(gen + 1)} \/ (b[1] = 0 /\ b[2] = 0)
    BY <1>6 DEF Junk
  <2>4. /\ <<-h, 1>>[1] = -h
        /\ <<h - 1, cxtSize>>[1] = h - 1 /\ <<h - 1, cxtSize>>[2] = cxtSize
    OBVIOUS
  <2>. QED  BY <2>2, <2>3, <2>4
<1>8. Closed({})
  BY <1>2, <1>3, <1>7 DEF Closed, KeysUsed
<1>9. ASSUME NEW b \in Memory, b \in given, b # Junk
      PROVE  FALSE
  <2>1. PICK g \in 1 .. gen, i \in 1 .. cxtSize - KeyBytes : b = <<g, i>>
    BY <1>2, <1>9 DEF NeverKeys
  <2>2. /\ g \in Nat /\ g # -(gen + 1) /\ i \in Nat /\ i \in Positions
        /\ i <= cxtSize - KeyBytes
    BY <1>1, Sizes
  <2>3. ASSUME NEW j \in Positions, j <= Low, b = <<gen, j>>
        PROVE  FALSE
    <3>1. avail < j
      BY <1>9, <2>3 DEF Once
    <3>2. j \in Int /\ avail \in Int
      BY <1>1, Sizes
    <3>. QED  BY <1>5, <2>3, <3>1, <3>2
  <2>4. ASSUME NEW j \in 1 .. KeyBytes, b = <<gen, cxtSize - KeyBytes + j>>
        PROVE  FALSE
    <3>1. i = cxtSize - KeyBytes + j
      BY <2>1, <2>4
    <3>. QED  BY <2>2, <3>1, Sizes
  <2>5. ASSUME NEW j \in 1 .. KeyBytes, b = <<-(gen + 1), j>>
        PROVE  FALSE
    BY <2>1, <2>2, <2>5
  <2>. QED  BY <1>6, <1>9, <2>3, <2>4, <2>5
<1>. QED  BY <1>3, <1>8, <1>9

(* While the buffer is full the memory gives its whole generation away,    *)
(* but none before it, and nothing of it is out.                           *)
LEMMA FullBufferIsSafe ==
  ASSUME TypeOK, Once, Guarded, Filled
  PROVE  Closed({gen}) /\ Known({gen}) \cap (given \ {Junk}) = {}
<1>1. /\ gen \in Nat /\ avail \in 0 .. cxtSize
  BY DEF TypeOK
<1>2. Control /\ BufferHolds /\ KeyCell /\ KeysUsed /\ NeverKeys
  BY DEF Guarded
<1>3. gen >= 1
  BY <1>2 DEF Control
<1>4. key \in {KeyPart(gen - 1), Entropy(gen), KeyPart(gen)}
  BY <1>2 DEF KeyCell
<1>5. ASSUME NEW b \in Known({gen})
      PROVE  \/ b = Junk
             \/ \E i \in Positions : b = <<gen, i>>
             \/ \E i \in 1 .. KeyBytes : b = <<gen - 1, cxtSize - KeyBytes + i>>
             \/ \E i \in 1 .. KeyBytes : b = <<-gen, i>>
  <2>1. CASE b \in Memory
    <3>1. ASSUME NEW i \in 1 .. KeyBytes
          PROVE  cxtSize - KeyBytes + i \in Positions
      BY Sizes
    <3>. QED  BY <1>2, <1>4, <2>1, <3>1, MemoryLabels DEF KeyPart, Entropy
  <2>2. CASE b \in Generated(gen)
    BY <2>2 DEF Generated
  <2>. QED  BY <2>1, <2>2 DEF Known
<1>6. ASSUME NEW h \in 1 .. gen, h # gen
      PROVE  <<-h, 1>> \notin Known({gen}) /\ <<h - 1, cxtSize>> \notin Known({gen})
  <2>1. /\ -h # 0 /\ -h # gen /\ -h # -gen /\ -h # gen - 1
        /\ h - 1 # gen /\ h - 1 # -gen /\ h - 1 # gen - 1 /\ cxtSize # 0
    BY <1>1, <1>6, Sizes
  <2>2. \A b \in Known({gen}) :
           b[1] \in {gen, gen - 1, -gen} \/ (b[1] = 0 /\ b[2] = 0)
    BY <1>5 DEF Junk
  <2>3. /\ <<-h, 1>>[1] = -h
        /\ <<h - 1, cxtSize>>[1] = h - 1 /\ <<h - 1, cxtSize>>[2] = cxtSize
    OBVIOUS
  <2>. QED  BY <2>1, <2>2, <2>3
<1>7. Closed({gen})
  BY <1>2, <1>6 DEF Closed, KeysUsed
<1>8. ASSUME NEW b \in Known({gen}), b \in given, b # Junk
      PROVE  FALSE
  <2>1. PICK g \in 1 .. gen, i \in 1 .. cxtSize - KeyBytes : b = <<g, i>>
    BY <1>2, <1>8 DEF NeverKeys
  <2>2. /\ g \in Nat /\ g # -gen /\ i \in Nat
        /\ i <= cxtSize - KeyBytes
    BY <1>1, <1>3, Sizes
  <2>3. ASSUME NEW j \in Positions, b = <<gen, j>>
        PROVE  FALSE
    <3>1. avail < j /\ pc # "full"
      BY <1>8, <2>3 DEF Once
    <3>2. avail = cxtSize
      BY <1>2, <3>1 DEF Control, Filled
    <3>. QED  BY <3>1, <3>2, Sizes
  <2>4. ASSUME NEW j \in 1 .. KeyBytes, b = <<gen - 1, cxtSize - KeyBytes + j>>
        PROVE  FALSE
    <3>1. i = cxtSize - KeyBytes + j
      BY <2>1, <2>4
    <3>. QED  BY <2>2, <3>1, Sizes
  <2>5. ASSUME NEW j \in 1 .. KeyBytes, b = <<-gen, j>>
        PROVE  FALSE
    BY <2>1, <2>2, <2>5
  <2>. QED  BY <1>5, <1>8, <2>3, <2>4, <2>5
<1>. QED  BY <1>7, <1>8

(* Without exceptions and with entropy that does not fail, at every step   *)
(* of every call: who sees the key and the buffer, and runs the generator  *)
(* with all keys that this gives away, learns nothing that was given out.  *)
THEOREM GuaranteeHolds ==
  ASSUME Undisturbed
  PROVE  Spec => []SecurityGuarantee
<1>1. TypeOK /\ Once /\ Guarded => SecurityGuarantee
  <2>. SUFFICES ASSUME TypeOK, Once, Guarded PROVE SecurityGuarantee
    OBVIOUS
  <2>1. CASE Filled
    <3>1. gen \in 1 .. gen
      BY <2>1 DEF TypeOK, Guarded, Control
    <3>. QED  BY <2>1, <3>1, FullBufferIsSafe DEF SecurityGuarantee
  <2>2. CASE ~Filled
    BY <2>2, MemoryIsSafe DEF SecurityGuarantee
  <2>. QED  BY <2>1, <2>2
<1>. QED  BY GuardedInvariant, <1>1, PTL

(* The block count of the state is that of the blocks since the last seed. *)
Counted ==
  /\ pc = "zero" => unseeded = 0
  /\ pc = "generate" => unseeded = randomGenBlocks /\ randomGenBlocks < ReseedAfter
  /\ pc \in {"full", "count"} =>
       unseeded = randomGenBlocks + NBlocks /\ randomGenBlocks < ReseedAfter
  /\ pc \in {"idle", "copy", "wipe", "set", "sample"} => unseeded = randomGenBlocks
  /\ ReseedsRegularly

LEMMA CountedStep ==
  ASSUME Undisturbed, TypeOK, Counted, [Next]_vars
  PROVE  Counted'
<1>1. /\ unseeded \in Nat /\ randomGenBlocks \in Nat
      /\ NBlocks \in Nat /\ ReseedAfter \in Nat \ {0}
  BY Sizes DEF TypeOK
<1>. USE DEF Counted, ReseedsRegularly
<1>2. CASE Open
  BY <1>1, <1>2 DEF Open
<1>3. CASE Close
  BY <1>3 DEF Close, history
<1>4. CASE UserReseed
  BY <1>4 DEF UserReseed, Call, history
<1>5. ASSUME NEW n \in 0 .. MaxRequest, Request(n)
      PROVE  Counted'
  BY <1>5 DEF Request, Call, history
<1>6. CASE Copy \/ Wipe
  BY <1>6 DEF Copy, Wipe, history
<1>7. CASE SetForRequest \/ SetForKey
  BY <1>7 DEF SetForRequest, SetForKey, Go, history
<1>8. CASE Sample
  BY <1>1, <1>8 DEF Sample, Due, history
<1>9. CASE InitWithEntropy
  <2>1. pc' = "zero" /\ unseeded' = 0
    BY <1>9, Sizes, Zenon DEF InitWithEntropy, Undisturbed
  <2>. QED  BY <1>1, <2>1
<1>10. CASE ZeroBlocks
  BY <1>1, <1>10 DEF ZeroBlocks, history
<1>11. CASE RandomBlocks
  BY <1>1, <1>11 DEF RandomBlocks
<1>12. CASE SetFull
  BY <1>12 DEF SetFull, history
<1>13. CASE CountBlocks
  BY <1>1, <1>13 DEF CountBlocks, history
<1>14. CASE UNCHANGED vars
  BY <1>14 DEF vars, control, history
<1>. QED
  BY <1>2, <1>3, <1>4, <1>5, <1>6, <1>7, <1>8, <1>9, <1>10, <1>11, <1>12,
     <1>13, <1>14
  DEF Next, Step, Undisturbed, EntropyThrows, Interrupt

(* Without exceptions and with entropy that does not fail, the blocks      *)
(* generated from one seed stay below the threshold and one buffer more.   *)
THEOREM ReseedingIsRegular ==
  ASSUME Undisturbed
  PROVE  Spec => []ReseedsRegularly
<1>1. Init => Counted
  BY Sizes DEF Init, Counted, ReseedsRegularly
<1>2. TypeOK /\ Counted /\ [Next]_vars => Counted'
  BY CountedStep
<1>3. Counted => ReseedsRegularly
  BY DEF Counted
<1>. QED  BY TypeInit, TypeStep, <1>1, <1>2, <1>3, PTL DEF Spec
=============================================================================
