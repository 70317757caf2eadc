------------------------ MODULE OneShotDigestProofs ------------------------
(***************************************************************************)
(* Proofs about the digest in one go, for buffers and blocks of every size *)
(* and any number of sources of any size: a source that reports Remaining  *)
(* has a byte left, the digest is that of all bytes in order, and a call   *)
(* is a session of MessageDigest.                                          *)
(*                                                                         *)
(* The invariant is the conjunction of                                     *)
(*   TypeOK, and Control, what each position of pc implies;                *)
(*   Consumed   the compressor got whole blocks, all of them counted;      *)
(*   InOrder    what it got and what the buffer holds are the bytes read,  *)
(*              unless a read was torn;                                    *)
(*   Supplied   what was read and what is left in the sources make up what *)
(*              there was to read;                                         *)
(*   MoreRemains, and LastHeld, which keeps it useful after the chunk: a   *)
(*              call that has compressed something still has bytes in the  *)
(*              buffer or in a source;                                     *)
(*   DigestMade the digest that was returned.                              *)
(***************************************************************************)
EXTENDS OneShotDigest, PaddingProofs

Consumed ==
  /\ internals.length = Len(internals.data)
  /\ Len(internals.data) % BlockBytes = 0

Control ==
  /\ pc # "eof" => count = 0
  /\ pc = "eof" => HeadIs("handle")
  /\ pc \in {"last", "done"} => source = << >>
  /\ pc = "start" => internals.data = << >> /\ read = 0 /\ torn = FALSE
  /\ \A i \in DOMAIN source : source[i].left <= MaxLeft + grown

InOrder ==
  ~torn =>
    /\ Len(internals.data) + Held = read
    /\ \A i \in 1 .. Len(internals.data) : internals.data[i] = i
    /\ \A i \in 1 .. Held : buf[i] = Len(internals.data) + i

(* ends[i] bytes are left in the first i sources.                          *)
Sums(ends, list) ==
  /\ ends \in [0 .. Len(list) -> Int]
  /\ ends[0] = 0
  /\ \A i \in 1 .. Len(list) : ends[i] = ends[i - 1] + list[i].left

SumsTo(list, total) == \E ends : Sums(ends, list) /\ ends[Len(list)] = total

Supplied == SumsTo(source, supply + grown - read)

BytesRemain == \E i \in DOMAIN source : source[i].left > 0

LastHeld ==
  pc \in {"fill", "eof", "last", "done"} /\ internals.data # << >> =>
    offset + count > 0 \/ BytesRemain

DigestMade ==
  digest = IF pc = "done" THEN [data   |-> internals.data \o Pad(Front(offset)),
                                length |-> internals.length + offset]
           ELSE NoDigest

IInv ==
  /\ TypeOK /\ Control /\ Consumed /\ InOrder /\ Supplied
  /\ MoreRemains /\ LastHeld /\ DigestMade

-----------------------------------------------------------------------------
\* The buffer and the list of sources.

LEMMA SumPositive == \A a, b \in Nat : a + b > 0 <=> a > 0 \/ b > 0
OBVIOUS

LEMMA ConcatFacts ==
  ASSUME NEW a \in Seq(Int), NEW b \in Seq(Int)
  PROVE  /\ a \o b \in Seq(Int) /\ Len(a \o b) = Len(a) + Len(b) /\ Len(a) \in Nat
         /\ \A i \in 1 .. Len(a) + Len(b) :
               (a \o b)[i] = IF i <= Len(a) THEN a[i] ELSE b[i - Len(a)]
OBVIOUS

LEMMA BufferSize == bufSize \in Nat \ {0} /\ bufSize % BlockBytes = 0
<1>1. bufSize \in Nat \ {0}
  BY LengthAssumption, OneShotAssumption DEF bufSize, inBytes
<1>2. bufSize % BlockBytes = 0
  BY BlocksHaveNoRem, OneShotAssumption DEF bufSize, inBytes
<1>. QED  BY <1>1, <1>2

LEMMA RoomFacts ==
  ASSUME TypeOK
  PROVE  /\ room \in Nat /\ offset \in Nat /\ count \in Nat
         /\ offset + room = bufSize /\ offset + count <= bufSize /\ count <= room
BY BufferSize DEF TypeOK, room

LEMMA BufferSeq ==
  ASSUME TypeOK
  PROVE  buf \in Seq(Int) /\ Len(buf) = bufSize
<1>1. bufSize \in Nat /\ buf \in [1 .. bufSize -> Int]
  BY BufferSize DEF TypeOK
<1>. QED  BY <1>1

(* A read appends its bytes, which are numbered, to those of the buffer.   *)
LEMMA TransferredFacts ==
  ASSUME TypeOK, NEW n \in Nat, offset + n <= bufSize, Transferred(n)
  PROVE  /\ buf' \in [1 .. bufSize -> Int]
         /\ read' = read + n
         /\ \A i \in 1 .. offset : buf'[i] = buf[i]
         /\ \A i \in 1 .. n : buf'[offset + i] = read + i
<1>1. /\ bufSize \in Nat /\ offset \in Nat /\ read \in Nat
      /\ buf \in [1 .. bufSize -> Int]
  BY BufferSize DEF TypeOK
<1>. QED  BY <1>1 DEF Transferred

(* The list when n bytes of its head are read.                             *)
LEMMA HeadReducedFacts ==
  ASSUME source \in Seq(Segment), source # << >>,
         NEW n \in Nat, n <= Head(source).left
  PROVE  /\ HeadReduced(n) \in Seq(Segment) /\ HeadReduced(n) # << >>
         /\ Len(HeadReduced(n)) = Len(source)
         /\ Head(HeadReduced(n)) = HeadReduced(n)[1]
         /\ HeadReduced(n)[1].kind = source[1].kind
         /\ HeadReduced(n)[1].left = source[1].left - n
         /\ \A i \in 2 .. Len(source) : HeadReduced(n)[i] = source[i]
<1>. DEFINE h == [Head(source) EXCEPT !.left = @ - n]
            t == Tail(source)
<1>1. /\ Len(source) \in Nat \ {0} /\ Head(source) = source[1] /\ source[1] \in Segment
      /\ t \in Seq(Segment) /\ Len(t) = Len(source) - 1
      /\ \A i \in 1 .. Len(source) - 1 : t[i] = source[i + 1]
  OBVIOUS
<1>2. /\ h \in Segment
      /\ h.kind = source[1].kind /\ h.left = source[1].left - n
  <2>1. source[1].left \in 0 .. MaxLeft + MaxGrowth /\ MaxLeft + MaxGrowth \in Nat
    BY <1>1, OneShotAssumption DEF Segment
  <2>2. source[1].left - n \in 0 .. MaxLeft + MaxGrowth
    BY <1>1, <2>1
  <2>. QED  BY <1>1, <2>2 DEF Segment
<1>. HIDE DEF h, t
<1>3. /\ <<h>> \o t \in Seq(Segment) /\ Len(<<h>> \o t) = Len(source)
      /\ (<<h>> \o t)[1] = h
      /\ \A i \in 2 .. Len(source) : (<<h>> \o t)[i] = t[i - 1]
  BY <1>1, <1>2
<1>4. HeadReduced(n) = <<h>> \o t
  BY DEF HeadReduced, h, t
<1>5. \A i \in 2 .. Len(source) : t[i - 1] = source[i]
  BY <1>1
<1>. QED  BY <1>1, <1>2, <1>3, <1>4, <1>5

LEMMA TailFacts ==
  ASSUME source \in Seq(Segment), source # << >>
  PROVE  /\ Len(source) \in Nat \ {0} /\ DOMAIN source = 1 .. Len(source)
         /\ Head(source) = source[1]
         /\ Tail(source) \in Seq(Segment) /\ Len(Tail(source)) = Len(source) - 1
         /\ \A i \in 1 .. Len(source) - 1 : Tail(source)[i] = source[i + 1]
OBVIOUS

LEMMA MemberFacts ==
  ASSUME source \in Seq(Segment), NEW i \in DOMAIN source
  PROVE  /\ source[i].left \in Nat /\ source[i].kind \in {"string", "handle"}
         /\ source[i].left <= MaxLeft + MaxGrowth
<1>1. source[i] \in Segment
  OBVIOUS
<1>. QED  BY <1>1, OneShotAssumption DEF Segment

-----------------------------------------------------------------------------
\* Sums over the list of sources.

(* When the head of the list is done with, the rest adds up to the rest.   *)
LEMMA SumsOfTail ==
  ASSUME source \in Seq(Segment), source # << >>, NEW m \in Int, SumsTo(source, m)
  PROVE  SumsTo(Tail(source), m - Head(source).left)
<1>1. PICK ends : Sums(ends, source) /\ ends[Len(source)] = m
  BY DEF SumsTo
<1>. DEFINE k == Len(source)
            rest == [i \in 0 .. k - 1 |-> ends[i + 1] - ends[1]]
<1>2. /\ k \in Nat \ {0} /\ Head(source) = source[1] /\ Len(Tail(source)) = k - 1
      /\ \A i \in 1 .. k - 1 : Tail(source)[i] = source[i + 1]
  BY TailFacts
<1>3. /\ ends \in [0 .. k -> Int] /\ ends[0] = 0
      /\ \A i \in 1 .. k : ends[i] = ends[i - 1] + source[i].left
  BY <1>1 DEF Sums
<1>4. \A i \in 1 .. k : source[i].left \in Nat
  BY MemberFacts, <1>2
<1>. HIDE DEF k
<1>5. ends[1] = source[1].left
  BY <1>2, <1>3, <1>4
<1>6. rest \in [0 .. k - 1 -> Int] /\ rest[0] = 0 /\ rest[k - 1] = m - source[1].left
  BY <1>1, <1>2, <1>3, <1>5, SMTT(20) DEF k
<1>7. \A i \in 1 .. k - 1 : rest[i] = rest[i - 1] + Tail(source)[i].left
  <2>. TAKE i \in 1 .. k - 1
  <2>1. ends[i + 1] = ends[i] + source[i + 1].left /\ i - 1 \in 0 .. k - 1 /\ i \in 0 .. k - 1
    BY <1>2, <1>3
  <2>2. /\ ends[i + 1] \in Int /\ ends[i] \in Int /\ ends[1] \in Int
        /\ source[i + 1].left \in Int
    BY <1>2, <1>3, <1>4, SMTT(20)
  <2>3. rest[i] = ends[i + 1] - ends[1] /\ rest[i - 1] = ends[i] - ends[1]
    BY <1>2, <2>1
  <2>. QED  BY <1>2, <2>1, <2>2, <2>3
<1>8. Sums(rest, Tail(source))
  BY <1>2, <1>6, <1>7 DEF Sums
<1>. QED  BY <1>2, <1>6, <1>8 DEF SumsTo

(* When the number of bytes of one source changes, so does the sum.        *)
LEMMA SumsOfChanged ==
  ASSUME source \in Seq(Segment), NEW m \in Int, SumsTo(source, m),
         NEW list, Len(list) = Len(source),
         NEW j \in 1 .. Len(source), NEW c \in Int,
         list[j].left = source[j].left + c,
         \A i \in 1 .. Len(source) : i # j => list[i].left = source[i].left
  PROVE  SumsTo(list, m + c)
<1>1. PICK ends : Sums(ends, source) /\ ends[Len(source)] = m
  BY DEF SumsTo
<1>. DEFINE k == Len(source)
            new == [i \in 0 .. k |-> IF i < j THEN ends[i] ELSE ends[i] + c]
<1>2. k \in Nat /\ \A i \in 1 .. k : source[i].left \in Nat
  BY MemberFacts
<1>3. /\ ends \in [0 .. k -> Int] /\ ends[0] = 0
      /\ \A i \in 1 .. k : ends[i] = ends[i - 1] + source[i].left
  BY <1>1 DEF Sums
<1>. HIDE DEF k
<1>4. new \in [0 .. k -> Int] /\ new[0] = 0 /\ new[k] = m + c
  BY <1>1, <1>2, <1>3 DEF k
<1>5. \A i \in 1 .. k : new[i] = new[i - 1] + list[i].left
  <2>. TAKE i \in 1 .. k
  <2>a. i - 1 \in 0 .. k /\ i \in 0 .. k
    BY <1>2
  <2>b. ends[i] = ends[i - 1] + source[i].left
    BY <1>3
  <2>c. ends[i - 1] \in Int
    BY <1>3, <2>a
  <2>d. source[i].left \in Int
    BY <1>2
  <2>1. /\ ends[i] = ends[i - 1] + source[i].left /\ i - 1 \in 0 .. k /\ i \in 0 .. k
        /\ ends[i - 1] \in Int /\ source[i].left \in Int
    BY <2>a, <2>b, <2>c, <2>d
  <2>2. /\ new[i] = IF i < j THEN ends[i] ELSE ends[i] + c
        /\ new[i - 1] = IF i - 1 < j THEN ends[i - 1] ELSE ends[i - 1] + c
    BY <2>1
  <2>3. list[i].left = IF i = j THEN source[i].left + c ELSE source[i].left
    BY DEF k
  <2>4. j \in 1 .. k
    BY DEF k
  <2>. HIDE DEF new
  <2>. QED  BY <2>1, <2>2, <2>3, <2>4, SMTT(20)
<1>6. Sums(new, list)
  BY <1>4, <1>5 DEF Sums, k
<1>. QED  BY <1>4, <1>6 DEF SumsTo, k

-----------------------------------------------------------------------------
\* The types and the control.

LEMMA InitTypes ==
  ASSUME Init
  PROVE  TypeOK /\ Control
<1>a. PICK n \in 0 .. MaxSources, kind \in {"string", "handle"} :
        \E ends \in [0 .. n -> 0 .. MaxSources * MaxLeft] :
           /\ ends[0] = 0
           /\ \A i \in 1 .. n : ends[i] - ends[i - 1] \in 0 .. MaxLeft
           /\ source = Divided(ends, n, kind)
           /\ supply = ends[n]
  BY DEF Init
<1>1. PICK ends \in [0 .. n -> 0 .. MaxSources * MaxLeft] :
        /\ ends[0] = 0
        /\ \A i \in 1 .. n : ends[i] - ends[i - 1] \in 0 .. MaxLeft
        /\ source = Divided(ends, n, kind)
        /\ supply = ends[n]
  BY <1>a
<1>2. /\ n \in Nat /\ MaxLeft \in Nat /\ MaxGrowth \in Nat
      /\ MaxSources * MaxLeft \in Nat /\ bufSize \in Nat \ {0}
  BY OneShotAssumption, BufferSize
<1>3. \A i \in 1 .. n : [kind |-> kind, left |-> ends[i] - ends[i - 1]] \in Segment
  BY <1>1, <1>2 DEF Segment
<1>4. source \in Seq(Segment) /\ DOMAIN source = 1 .. n
      /\ \A i \in 1 .. n : source[i].left \in 0 .. MaxLeft
  BY <1>1, <1>2, <1>3 DEF Divided
<1>5. supply \in Nat
  BY <1>1, <1>2
<1>6. TypeOK
  <2>1. buf \in [1 .. bufSize -> Int] /\ internals \in [data : Seq(Int), length : Nat]
    BY DEF Init, Lost
  <2>2. /\ pc = "start" /\ offset = 0 /\ count = 0 /\ read = 0 /\ grown = 0
        /\ torn = FALSE
    BY DEF Init
  <2>3. offset \in 0 .. bufSize /\ count \in 0 .. bufSize - offset /\ grown \in 0 .. MaxGrowth
    BY <1>2, <2>2
  <2>4. read \in Nat /\ torn \in BOOLEAN /\ pc \in {"start"}
    BY <2>2
  <2>. QED  BY <1>4, <1>5, <2>1, <2>3, <2>4 DEF TypeOK
<1>7. Control
  BY <1>2, <1>4 DEF Init, Control
<1>. QED  BY <1>6, <1>7

(* The actions that read from a string or a handle.                        *)
LEMMA ReadTypes ==
  ASSUME TypeOK, Control, FillStringExhausted \/ FillStringRemaining \/ FillBuf
  PROVE  TypeOK' /\ Control'
<1>1. /\ room \in Nat /\ offset \in Nat /\ count = 0 /\ offset + room = bufSize
      /\ pc = "fill" /\ read \in Nat /\ bufSize \in Nat
  BY RoomFacts, BufferSize
     DEF FillStringExhausted, FillStringRemaining, FillBuf, Control, TypeOK
<1>2. /\ source \in Seq(Segment) /\ source # << >> /\ Head(source) = source[1]
      /\ 1 \in DOMAIN source /\ source[1].left \in Nat
      /\ DOMAIN source = 1 .. Len(source) /\ Len(source) \in Nat
  <2>1. source \in Seq(Segment) /\ source # << >>
    BY DEF TypeOK, FillStringExhausted, FillStringRemaining, FillBuf, HeadIs
  <2>. QED  BY <2>1, TailFacts, MemberFacts
<1>3. \A n \in Nat : n <= Head(source).left =>
        /\ HeadReduced(n) \in Seq(Segment)
        /\ \A i \in DOMAIN HeadReduced(n) : HeadReduced(n)[i].left <= MaxLeft + grown
  <2>. TAKE n \in Nat
  <2>. HAVE n <= Head(source).left
  <2>. DEFINE h == HeadReduced(n)
  <2>1. /\ h \in Seq(Segment) /\ Len(h) = Len(source)
        /\ h[1].left = source[1].left - n
        /\ \A i \in 2 .. Len(source) : h[i] = source[i]
    BY <1>2, HeadReducedFacts
  <2>. HIDE DEF h
  <2>2. DOMAIN h = 1 .. Len(source)
    BY <2>1
  <2>3. /\ source[1].left <= MaxLeft + grown
        /\ \A i \in 2 .. Len(source) : source[i].left <= MaxLeft + grown
    BY <1>2 DEF Control
  <2>4. h[1].left <= MaxLeft + grown
    BY <1>2, <2>1, <2>3, OneShotAssumption DEF TypeOK
  <2>5. \A i \in 1 .. Len(source) : i = 1 \/ i \in 2 .. Len(source)
    BY <1>2
  <2>6. \A i \in 1 .. Len(source) : h[i].left <= MaxLeft + grown
    BY <2>1, <2>3, <2>4, <2>5
  <2>. QED  BY <2>1, <2>2, <2>6 DEF h
<1>4. CASE FillStringExhausted
  <2>. DEFINE n == Head(source).left
  <2>1. n \in Nat /\ n <= room /\ Transferred(n) /\ source' = Tail(source)
        /\ offset' = offset + n
    BY <1>2, <1>4 DEF FillStringExhausted, StringEnds, NextSource
  <2>. HIDE DEF n
  <2>2. buf' \in [1 .. bufSize -> Int] /\ read' = read + n
    BY <1>1, <2>1, TransferredFacts
  <2>3. /\ source' \in Seq(Segment)
        /\ \A i \in DOMAIN source' : source'[i].left <= MaxLeft + grown
    <3>1. /\ source' \in Seq(Segment) /\ Len(source') = Len(source) - 1
          /\ \A i \in 1 .. Len(source) - 1 : source'[i] = source[i + 1]
      BY <1>2, <2>1, TailFacts
    <3>2. \A i \in 1 .. Len(source) : source[i].left <= MaxLeft + grown
      BY <1>2 DEF Control
    <3>3. DOMAIN source' = 1 .. Len(source) - 1
      BY <3>1
    <3>. QED  BY <1>2, <3>1, <3>2, <3>3
  <2>4. offset' \in 0 .. bufSize /\ count' \in 0 .. bufSize - offset'
    BY <1>1, <1>4, <2>1 DEF FillStringExhausted
  <2>. QED  BY <1>1, <1>4, <2>2, <2>3, <2>4, <2>1 DEF FillStringExhausted, TypeOK, Control
<1>5. CASE FillStringRemaining
  <2>1. /\ room <= Head(source).left /\ Transferred(room)
        /\ source' = HeadReduced(room)
    BY <1>1, <1>2, <1>5 DEF FillStringRemaining, StringEnds
  <2>2. buf' \in [1 .. bufSize -> Int] /\ read' = read + room
    BY <1>1, <2>1, TransferredFacts
  <2>3. source' \in Seq(Segment) /\ \A i \in DOMAIN source' : source'[i].left <= MaxLeft + grown
    BY <1>1, <1>3, <2>1
  <2>. QED  BY <1>1, <1>5, <2>2, <2>3 DEF FillStringRemaining, TypeOK, Control
<1>6. CASE FillBuf
  <2>1. /\ count' \in Nat /\ count' <= room /\ count' <= Head(source).left
        /\ Transferred(count') /\ source' = HeadReduced(count')
    BY <1>1, <1>2, <1>6 DEF FillBuf
  <2>2. buf' \in [1 .. bufSize -> Int] /\ read' = read + count'
    BY <1>1, <2>1, TransferredFacts
  <2>3. source' \in Seq(Segment) /\ \A i \in DOMAIN source' : source'[i].left <= MaxLeft + grown
    BY <1>3, <2>1
  <2>4. HeadIs("handle")'
    <3>1. /\ source' # << >> /\ Head(source') = source'[1]
          /\ source'[1].kind = source[1].kind
      BY <1>2, <2>1, HeadReducedFacts
    <3>. QED  BY <1>2, <1>6, <3>1 DEF FillBuf, HeadIs
  <2>5. count' \in 0 .. bufSize - offset
    BY <1>1, <2>1
  <2>. QED  BY <1>1, <1>6, <2>2, <2>3, <2>4, <2>5, SMTT(20) DEF FillBuf, TypeOK, Control
<1>. QED  BY <1>4, <1>5, <1>6

(* The two outcomes of asking a handle whether it is at its end.           *)
LEMMA EofTypes ==
  ASSUME TypeOK, Control, HandleExhausted \/ HandleRemaining
  PROVE  TypeOK' /\ Control'
<1>1. /\ offset \in Nat /\ count \in Nat /\ offset + count <= bufSize
      /\ bufSize \in Nat /\ pc = "eof"
  BY RoomFacts, BufferSize DEF HandleExhausted, HandleRemaining
<1>2. source \in Seq(Segment) /\ source # << >>
  BY <1>1 DEF TypeOK, Control, HeadIs
<1>3. CASE HandleExhausted
  <2>1. /\ source' = Tail(source) /\ offset' = offset + count
        /\ pc' = "fill" /\ count' = 0
    BY <1>3 DEF HandleExhausted, NextSource
  <2>2. /\ source' \in Seq(Segment) /\ DOMAIN source' = 1 .. Len(source) - 1
        /\ \A i \in 1 .. Len(source) - 1 : source'[i] = source[i + 1]
        /\ Len(source) \in Nat /\ DOMAIN source = 1 .. Len(source)
    BY <1>2, <2>1, TailFacts
  <2>3. \A i \in DOMAIN source' : source'[i].left <= MaxLeft + grown
    <3>1. \A i \in 1 .. Len(source) : source[i].left <= MaxLeft + grown
      BY <2>2 DEF Control
    <3>2. \A i \in 1 .. Len(source) - 1 : i + 1 \in 1 .. Len(source)
      BY <2>2
    <3>. QED  BY <2>2, <3>1, <3>2
  <2>4. offset' \in 0 .. bufSize /\ count' \in 0 .. bufSize - offset'
    BY <1>1, <2>1
  <2>. QED  BY <1>3, <2>1, <2>2, <2>3, <2>4 DEF HandleExhausted, TypeOK, Control
<1>4. CASE HandleRemaining
  <2>1. torn' \in BOOLEAN
    BY <1>4 DEF HandleRemaining
  <2>. QED  BY <1>1, <1>4, <2>1 DEF HandleRemaining, TypeOK, Control
<1>. QED  BY <1>3, <1>4

(* A file that grows: the list has the same members otherwise.             *)
LEMMA GrowFacts ==
  ASSUME TypeOK, Control, Grow
  PROVE  \E j \in DOMAIN source :
           /\ source' \in Seq(Segment) /\ Len(source') = Len(source)
           /\ source'[j].kind = source[j].kind
           /\ source'[j].left = source[j].left + 1
           /\ \A i \in 1 .. Len(source) : i # j => source'[i] = source[i]
<1>1. PICK j \in DOMAIN source : source' = [source EXCEPT ![j].left = @ + 1]
  BY DEF Grow
<1>. DEFINE m == [source[j] EXCEPT !.left = @ + 1]
<1>2. source \in Seq(Segment) /\ DOMAIN source = 1 .. Len(source) /\ Len(source) \in Nat
  BY DEF TypeOK
<1>3. /\ m \in Segment /\ m.kind = source[j].kind /\ m.left = source[j].left + 1
  <2>1. /\ source[j] \in Segment /\ source[j].left \in Nat
        /\ source[j].left <= MaxLeft + grown
        /\ grown \in Nat /\ grown < MaxGrowth /\ MaxLeft \in Nat /\ MaxGrowth \in Nat
    BY <1>2, MemberFacts, OneShotAssumption DEF Control, Grow, TypeOK
  <2>2. source[j].left + 1 \in 0 .. MaxLeft + MaxGrowth
    BY <2>1
  <2>. QED  BY <2>1, <2>2 DEF Segment
<1>4. source' = [source EXCEPT ![j] = m]
  BY <1>1
<1>. HIDE DEF m
<1>5. /\ source' \in Seq(Segment) /\ Len(source') = Len(source)
      /\ source'[j] = m
      /\ \A i \in 1 .. Len(source) : i # j => source'[i] = source[i]
  BY <1>2, <1>3, <1>4
<1>. QED  BY <1>3, <1>5

LEMMA GrowTypes ==
  ASSUME TypeOK, Control, Grow
  PROVE  TypeOK' /\ Control'
<1>1. PICK j \in DOMAIN source :
           /\ source' \in Seq(Segment) /\ Len(source') = Len(source)
           /\ source'[j].kind = source[j].kind
           /\ source'[j].left = source[j].left + 1
           /\ \A i \in 1 .. Len(source) : i # j => source'[i] = source[i]
  BY GrowFacts
<1>2. /\ source \in Seq(Segment) /\ DOMAIN source = 1 .. Len(source) /\ Len(source) \in Nat
      /\ grown \in Nat /\ grown < MaxGrowth /\ grown' = grown + 1 /\ MaxLeft \in Nat
      /\ MaxGrowth \in Nat
  BY OneShotAssumption DEF TypeOK, Grow
<1>3. \A i \in DOMAIN source : source[i].left \in Nat /\ source[i].left <= MaxLeft + grown
  BY <1>2, MemberFacts DEF Control
<1>4. DOMAIN source' = 1 .. Len(source)
  BY <1>1, <1>2
<1>5. \A i \in DOMAIN source' : source'[i].left <= MaxLeft + grown'
  BY <1>1, <1>2, <1>3, <1>4
<1>6. grown' \in 0 .. MaxGrowth
  BY <1>2
<1>7. TypeOK'
  BY <1>1, <1>6 DEF Grow, TypeOK
<1>8. pc \in {"last", "done"} => FALSE
  BY <1>1 DEF Control
<1>9. pc = "eof" => HeadIs("handle")'
  <2>. HAVE pc = "eof"
  <2>1. /\ source # << >> /\ Head(source) = source[1] /\ source[1].kind = "handle"
        /\ source' # << >> /\ Head(source') = source'[1]
    BY <1>1, <1>2 DEF Control, HeadIs
  <2>2. source'[1].kind = source[1].kind
    BY <1>1, <1>2
  <2>. QED  BY <2>1, <2>2 DEF HeadIs
<1>. QED  BY <1>5, <1>7, <1>8, <1>9 DEF Grow, Control

LEMMA TypesStep ==
  ASSUME TypeOK, Control, [Next]_vars
  PROVE  TypeOK' /\ Control'
<1>. USE DEF TypeOK, Control
<1>1. CASE Start
  BY <1>1 DEF Start
<1>2. CASE FillNone
  BY <1>2 DEF FillNone
<1>3. CASE FillStringExhausted \/ FillStringRemaining \/ FillBuf
  BY <1>3, ReadTypes
<1>4. CASE HandleExhausted \/ HandleRemaining
  BY <1>4, EofTypes
<1>5. CASE ProcessChunk
  <2>1. bufSize \in Nat \ {0}
    BY BufferSize
  <2>2. buf \in Seq(Int)
    BY BufferSeq
  <2>3. internals' \in [data : Seq(Int), length : Nat]
    BY <1>5, <2>1, <2>2 DEF ProcessChunk
  <2>. QED  BY <1>5, <2>1, <2>3 DEF ProcessChunk
<1>6. CASE ProcessLast
  BY <1>6 DEF ProcessLast
<1>7. CASE HandleFails
  BY <1>7 DEF HandleFails
<1>8. CASE Grow
  BY <1>8, GrowTypes
<1>9. CASE Finished \/ UNCHANGED vars
  BY <1>9 DEF Finished, vars, HeadIs
<1>. QED  BY <1>1, <1>2, <1>3, <1>4, <1>5, <1>6, <1>7, <1>8, <1>9 DEF Next, Step

-----------------------------------------------------------------------------
\* The bytes: in order, in whole blocks, none missing.

LEMMA InitBytes ==
  ASSUME Init
  PROVE  Consumed /\ InOrder /\ Supplied /\ MoreRemains /\ LastHeld /\ DigestMade
<1>1. /\ internals = [data |-> << >>, length |-> 0] /\ pc = "start"
      /\ offset = 0 /\ read = 0 /\ grown = 0
  BY DEF Init
<1>2. Consumed
  BY <1>1, BlocksHaveNoRem, LengthAssumption, 0 * BlockBytes = 0 DEF Consumed
<1>3. InOrder
  BY <1>1 DEF InOrder, Held
<1>4. Supplied
  <2>1. PICK n \in 0 .. MaxSources, kind \in {"string", "handle"} :
          \E ends \in [0 .. n -> 0 .. MaxSources * MaxLeft] :
             /\ ends[0] = 0
             /\ source = Divided(ends, n, kind)
             /\ supply = ends[n]
    BY DEF Init
  <2>2. PICK ends \in [0 .. n -> 0 .. MaxSources * MaxLeft] :
             /\ ends[0] = 0
             /\ source = Divided(ends, n, kind)
             /\ supply = ends[n]
    BY <2>1
  <2>3. n \in Nat /\ MaxSources * MaxLeft \in Nat
    BY OneShotAssumption
  <2>4. ends \in [0 .. n -> Int]
    BY <2>3
  <2>5. Len(source) = n /\ \A i \in 1 .. n : source[i].left = ends[i] - ends[i - 1]
    BY <2>2, <2>3 DEF Divided
  <2>6. \A i \in 1 .. n : ends[i] = ends[i - 1] + source[i].left
    <3>1. \A i \in 1 .. n : ends[i] \in Int /\ ends[i - 1] \in Int
      BY <2>3, <2>4
    <3>. QED  BY <2>5, <3>1
  <2>7. Sums(ends, source)
    BY <2>2, <2>4, <2>5, <2>6 DEF Sums
  <2>8. supply + grown - read = ends[Len(source)]
    BY <1>1, <2>2, <2>3, <2>4, <2>5
  <2>. QED  BY <2>7, <2>8 DEF Supplied, SumsTo
<1>5. MoreRemains /\ LastHeld /\ DigestMade
  BY <1>1 DEF Init, MoreRemains, LastHeld, DigestMade
<1>. QED  BY <1>2, <1>3, <1>4, <1>5

(* Only ProcessChunk adds to what the compressor consumed.                 *)
LEMMA ConsumedStep ==
  ASSUME TypeOK, Consumed, [Next]_vars
  PROVE  Consumed'
<1>1. CASE ProcessChunk
  <2>1. /\ bufSize \in Nat /\ bufSize % BlockBytes = 0
        /\ buf \in Seq(Int) /\ Len(buf) = bufSize
        /\ internals.data \in Seq(Int)
    BY BufferSize, BufferSeq DEF TypeOK
  <2>2. /\ internals'.data = internals.data \o buf
        /\ internals'.length = internals.length + bufSize
    BY <1>1 DEF ProcessChunk
  <2>3. /\ Len(internals'.data) = Len(internals.data) + bufSize
        /\ Len(internals.data) \in Nat
    <3>. DEFINE d == internals.data
    <3>1. d \in Seq(Int)
      BY <2>1
    <3>2. Len(d \o buf) = Len(d) + Len(buf) /\ Len(d) \in Nat
      BY <2>1, <3>1, ConcatFacts
    <3>. QED  BY <2>1, <2>2, <3>2
  <2>4. Len(internals'.data) % BlockBytes = 0
    BY <2>1, <2>3, RemAfterBlocks DEF Consumed
  <2>. QED  BY <2>2, <2>3, <2>4 DEF Consumed
<1>2. CASE ~ProcessChunk
  <2>1. internals' = internals
    BY <1>2 DEF Next, Step, vars, Start, FillNone, FillStringExhausted, FillStringRemaining,
       FillBuf, HandleExhausted, HandleRemaining, ProcessLast, HandleFails, Grow, Finished
  <2>. QED  BY <2>1 DEF Consumed
<1>. QED  BY <1>1, <1>2

(* A read of n bytes appends n bytes to what is held.                      *)
LEMMA ReadInOrder ==
  ASSUME TypeOK, Control, InOrder, pc = "fill",
         NEW n \in Nat, offset + n <= bufSize, Transferred(n),
         Held' = offset + n, internals' = internals, torn' = torn
  PROVE  InOrder'
<1>. DEFINE d == internals.data
<1>. SUFFICES ASSUME ~torn
              PROVE  /\ Len(d) + (offset + n) = read'
                     /\ \A i \in 1 .. Len(d) : d[i] = i
                     /\ \A i \in 1 .. offset + n : buf'[i] = Len(d) + i
  BY DEF InOrder
<1>1. Len(d) \in Nat /\ offset \in Nat /\ read \in Nat
  BY RoomFacts DEF TypeOK
<1>2. /\ Len(d) + offset = read
      /\ \A i \in 1 .. Len(d) : d[i] = i
      /\ \A i \in 1 .. offset : buf[i] = Len(d) + i
  BY DEF InOrder, Held
<1>3. /\ read' = read + n
      /\ \A i \in 1 .. offset : buf'[i] = buf[i]
      /\ \A i \in 1 .. n : buf'[offset + i] = read + i
  BY TransferredFacts
<1>. HIDE DEF d
<1>4. Len(d) + (offset + n) = read'
  BY <1>1, <1>2, <1>3, SMTT(20)
<1>5. ASSUME NEW i \in 1 .. offset + n PROVE buf'[i] = Len(d) + i
  <2>1. CASE i <= offset
    BY <1>1, <1>2, <1>3, <2>1
  <2>2. CASE i > offset
    <3>1. i - offset \in 1 .. n /\ offset + (i - offset) = i
      BY <1>1, <2>2
    <3>2. buf'[i] = read + (i - offset)
      BY <1>3, <3>1
    <3>. QED  BY <1>1, <1>2, <3>2
  <2>. QED  BY <1>1, <2>1, <2>2
<1>. QED  BY <1>2, <1>4, <1>5

LEMMA InOrderStep ==
  ASSUME TypeOK, Control, InOrder, [Next]_vars
  PROVE  InOrder'
<1>0. /\ room \in Nat /\ offset \in Nat /\ count \in Nat /\ offset + room = bufSize
      /\ bufSize \in Nat
  BY RoomFacts, BufferSize
<1>1. CASE FillStringExhausted
  <2>. DEFINE n == Head(source).left
  <2>1. n \in Nat /\ n <= room /\ Transferred(n) /\ offset' = offset + n
        /\ pc = "fill" /\ pc' = "fill" /\ internals' = internals /\ torn' = torn
    <3>1. source \in Seq(Segment) /\ source # << >>
      BY <1>1 DEF FillStringExhausted, HeadIs, TypeOK
    <3>2. Head(source).left \in Nat
      BY <3>1, TailFacts, MemberFacts
    <3>. QED  BY <1>1, <3>2 DEF FillStringExhausted, StringEnds, NextSource
  <2>. HIDE DEF n
  <2>2. Held' = offset + n
    BY <2>1 DEF Held
  <2>. QED  BY <1>0, <2>1, <2>2, ReadInOrder
<1>2. CASE FillStringRemaining
  <2>1. /\ Transferred(room) /\ pc = "fill" /\ pc' = "chunk" /\ internals' = internals
        /\ torn' = torn
    BY <1>2 DEF FillStringRemaining
  <2>2. Held' = offset + room
    BY <1>0, <2>1 DEF Held, bufSize
  <2>. QED  BY <1>0, <2>1, <2>2, ReadInOrder
<1>3. CASE FillBuf
  <2>1. /\ Transferred(count') /\ pc = "fill" /\ pc' = "eof" /\ internals' = internals
        /\ torn' = torn /\ offset' = offset
    BY <1>3 DEF FillBuf
  <2>2. count' \in Nat /\ count' <= room
    <3>1. source \in Seq(Segment) /\ source # << >>
      BY <1>3 DEF FillBuf, HeadIs, TypeOK
    <3>2. Head(source).left \in Nat
      BY <3>1, TailFacts, MemberFacts
    <3>. QED  BY <1>0, <1>3, <3>2 DEF FillBuf
  <2>3. Held' = offset + count'
    BY <2>1 DEF Held
  <2>4. ASSUME NEW n \in Nat, n = count' PROVE InOrder'
    <3>1. Transferred(n)
      BY <2>1, <2>4 DEF Transferred
    <3>2. Held' = offset + n
      BY <2>3, <2>4
    <3>3. n <= room
      BY <2>2, <2>4
    <3>4. offset + n <= bufSize
      BY <1>0, <3>3
    <3>. QED  BY <2>1, <3>1, <3>2, <3>4, ReadInOrder
  <2>. QED  BY <2>2, <2>4
<1>4. CASE HandleExhausted
  <2>1. Held' = Held
    BY <1>4 DEF HandleExhausted, NextSource, Held
  <2>2. internals' = internals /\ buf' = buf /\ read' = read /\ torn' = torn
    BY <1>4 DEF HandleExhausted
  <2>. QED  BY <2>1, <2>2 DEF InOrder
<1>5. CASE HandleRemaining
  <2>1. ~torn' => ~torn /\ count >= room
    <3>1. torn' = (torn \/ count < room)
      BY <1>5 DEF HandleRemaining
    <3>2. count < room \/ count >= room
      BY <1>0
    <3>. QED  BY <3>1, <3>2, Zenon
  <2>2. ~torn' => Held' = Held
    BY <1>0, <1>5, <2>1, RoomFacts DEF HandleRemaining, Held, bufSize
  <2>3. internals' = internals /\ buf' = buf /\ read' = read
    BY <1>5 DEF HandleRemaining
  <2>. QED  BY <2>1, <2>2, <2>3 DEF InOrder
<1>6. CASE ProcessChunk
  <2>. DEFINE d == internals.data
  <2>. SUFFICES ASSUME ~torn
                PROVE  /\ Len(d \o buf) + 0 = read
                       /\ \A i \in 1 .. Len(d \o buf) : (d \o buf)[i] = i
    BY <1>6 DEF ProcessChunk, InOrder, Held
  <2>1. /\ d \in Seq(Int) /\ buf \in Seq(Int) /\ Len(buf) = bufSize
        /\ Len(d) \in Nat /\ read \in Nat
    BY BufferSeq DEF TypeOK
  <2>2. /\ Len(d) + bufSize = read
        /\ \A i \in 1 .. Len(d) : d[i] = i
        /\ \A i \in 1 .. bufSize : buf[i] = Len(d) + i
    BY <1>6 DEF ProcessChunk, InOrder, Held
  <2>. HIDE DEF d
  <2>3. /\ Len(d \o buf) = Len(d) + bufSize
        /\ \A i \in 1 .. Len(d) + bufSize :
              (d \o buf)[i] = IF i <= Len(d) THEN d[i] ELSE buf[i - Len(d)]
    BY <2>1, ConcatFacts
  <2>4. ASSUME NEW i \in 1 .. Len(d) + bufSize PROVE (d \o buf)[i] = i
    <3>1. CASE i <= Len(d)
      BY <2>1, <2>2, <2>3, <3>1
    <3>2. CASE i > Len(d)
      <4>1. i - Len(d) \in 1 .. bufSize /\ Len(d) + (i - Len(d)) = i
        BY <1>0, <2>1, <3>2
      <4>. QED  BY <2>1, <2>2, <2>3, <3>2, <4>1
    <3>. QED  BY <2>1, <3>1, <3>2
  <2>. QED  BY <1>0, <2>1, <2>2, <2>3, <2>4
<1>7. CASE Start \/ FillNone \/ ProcessLast \/ HandleFails \/ Grow \/ Finished \/ UNCHANGED vars
  <2>1. Held' = Held
    BY <1>7 DEF Start, FillNone, ProcessLast, HandleFails, Grow, Finished, vars, Held
  <2>2. internals' = internals /\ buf' = buf /\ read' = read /\ torn' = torn
    BY <1>7 DEF Start, FillNone, ProcessLast, HandleFails, Grow, Finished, vars
  <2>. QED  BY <2>1, <2>2 DEF InOrder
<1>. QED  BY <1>1, <1>2, <1>3, <1>4, <1>5, <1>6, <1>7 DEF Next, Step

(* A head that is reduced by what is read keeps the sum with read.         *)
LEMMA ReadSupplied ==
  ASSUME TypeOK, Supplied, source # << >>,
         NEW n \in Nat, n <= Head(source).left, source' = HeadReduced(n),
         read' = read + n, supply' = supply, grown' = grown
  PROVE  Supplied'
<1>. DEFINE m == supply + grown - read
            h == HeadReduced(n)
<1>1. /\ source \in Seq(Segment) /\ Len(source) \in Nat \ {0} /\ m \in Int
      /\ read \in Nat /\ supply \in Nat /\ grown \in Nat /\ SumsTo(source, m)
  BY TailFacts DEF TypeOK, Supplied
<1>2. /\ Len(h) = Len(source) /\ h[1].left = source[1].left - n
      /\ \A i \in 2 .. Len(source) : h[i] = source[i]
  BY <1>1, HeadReducedFacts
<1>3. source[1].left \in Nat
  BY <1>1, MemberFacts
<1>. HIDE DEF h
<1>4. /\ h[1].left = source[1].left + (-n) /\ -n \in Int /\ 1 \in 1 .. Len(source)
      /\ \A i \in 1 .. Len(source) : i # 1 => h[i].left = source[i].left
  BY <1>1, <1>2, <1>3
<1>. HIDE DEF m
<1>5. SumsTo(h, m + (-n))
  BY <1>1, <1>2, <1>4, SumsOfChanged
<1>6. supply + grown - (read + n) = m + (-n)
  BY <1>1 DEF m
<1>. QED  BY <1>5, <1>6 DEF Supplied, h

LEMMA SuppliedStep ==
  ASSUME TypeOK, Control, Supplied, [Next]_vars
  PROVE  Supplied'
<1>. DEFINE m == supply + grown - read
<1>0. /\ source \in Seq(Segment) /\ DOMAIN source = 1 .. Len(source) /\ m \in Int
      /\ read \in Nat /\ supply \in Nat /\ grown \in Nat /\ SumsTo(source, m)
      /\ room \in Nat
  BY RoomFacts DEF TypeOK, Supplied
<1>1. CASE FillStringExhausted
  <2>. DEFINE n == Head(source).left
  <2>1. source # << >> /\ source' = Tail(source) /\ supply' = supply /\ grown' = grown
        /\ read' = read + n /\ n \in Nat
    <3>1. source # << >>
      BY <1>1 DEF FillStringExhausted, HeadIs
    <3>2. n \in Nat
      BY <1>0, <3>1, TailFacts, MemberFacts
    <3>. QED  BY <1>1, <3>1, <3>2 DEF FillStringExhausted, NextSource, Transferred
  <2>2. SumsTo(Tail(source), m - n)
    BY <1>0, <2>1, SumsOfTail
  <2>3. supply + grown - (read + n) = m - n
    BY <1>0, <2>1
  <2>. QED  BY <2>1, <2>2, <2>3 DEF Supplied
<1>2. CASE FillStringRemaining
  <2>1. /\ source # << >> /\ source' = HeadReduced(room)
        /\ supply' = supply /\ grown' = grown /\ read' = read + room
    BY <1>2 DEF FillStringRemaining, HeadIs, Transferred
  <2>2. Head(source).left \in Nat
    BY <1>0, <2>1, TailFacts, MemberFacts
  <2>3. room <= Head(source).left
    BY <1>0, <1>2, <2>2 DEF FillStringRemaining, StringEnds
  <2>. QED  BY <1>0, <2>1, <2>3, ReadSupplied
<1>3. CASE FillBuf
  <2>1. /\ source # << >> /\ supply' = supply /\ grown' = grown
    BY <1>3 DEF FillBuf, HeadIs
  <2>2. Head(source).left \in Nat
    BY <1>0, <2>1, TailFacts, MemberFacts
  <2>3. count' \in Nat /\ count' <= Head(source).left
    BY <1>0, <1>3, <2>2 DEF FillBuf
  <2>4. ASSUME NEW n \in Nat, n = count' PROVE Supplied'
    <3>1. source' = HeadReduced(n) /\ read' = read + n
      BY <1>3, <2>4 DEF FillBuf, Transferred, HeadReduced
    <3>2. n <= Head(source).left
      BY <2>3, <2>4
    <3>. QED  BY <2>1, <3>1, <3>2, ReadSupplied
  <2>. QED  BY <2>3, <2>4
<1>4. CASE HandleExhausted
  <2>1. /\ source # << >> /\ source' = Tail(source) /\ supply' = supply
        /\ grown' = grown /\ read' = read /\ Head(source).left = 0
    BY <1>4 DEF HandleExhausted, NextSource, Control, HeadIs
  <2>2. SumsTo(Tail(source), m - 0)
    BY <1>0, <2>1, SumsOfTail
  <2>3. m - 0 = m
    BY <1>0
  <2>. QED  BY <2>1, <2>2, <2>3 DEF Supplied
<1>5. CASE Grow
  <2>1. ASSUME NEW list, list = source' PROVE Supplied'
    <3>1. PICK j \in DOMAIN source :
             /\ Len(source') = Len(source)
             /\ source'[j].left = source[j].left + 1
             /\ \A i \in 1 .. Len(source) : i # j => source'[i] = source[i]
      BY <1>5, GrowFacts
    <3>2. /\ j \in 1 .. Len(source) /\ Len(list) = Len(source)
          /\ list[j].left = source[j].left + 1
          /\ \A i \in 1 .. Len(source) : i # j => list[i].left = source[i].left
      BY <1>0, <2>1, <3>1
    <3>. HIDE DEF m
    <3>3. SumsTo(list, m + 1)
      BY <1>0, <3>2, SumsOfChanged
    <3>4. supply' = supply /\ grown' = grown + 1 /\ read' = read
      BY <1>5 DEF Grow
    <3>5. supply + (grown + 1) - read = m + 1
      BY <1>0 DEF m
    <3>. QED  BY <2>1, <3>3, <3>4, <3>5 DEF Supplied
  <2>. QED  BY <2>1
<1>6. CASE UNCHANGED <<source, supply, grown, read>>
  BY <1>6 DEF Supplied
<1>7. Start \/ FillNone \/ HandleRemaining \/ ProcessChunk \/ ProcessLast \/ HandleFails
        \/ Finished \/ UNCHANGED vars
      => UNCHANGED <<source, supply, grown, read>>
  BY DEF Start, FillNone, HandleRemaining, ProcessChunk, ProcessLast, HandleFails, Finished, vars
<1>. QED  BY <1>1, <1>2, <1>3, <1>4, <1>5, <1>6, <1>7 DEF Next, Step

-----------------------------------------------------------------------------
\* What remains for the last chunk.

(* A byte that is left in a source is still left after a source is done    *)
(* with that had none, and after files grow.                               *)
LEMMA RemainInTail ==
  ASSUME source \in Seq(Segment), source # << >>, BytesRemain, Head(source).left = 0,
         source' = Tail(source)
  PROVE  BytesRemain'
<1>1. PICK i \in DOMAIN source : source[i].left > 0
  BY DEF BytesRemain
<1>2. /\ Len(source) \in Nat \ {0} /\ DOMAIN source = 1 .. Len(source)
      /\ Head(source) = source[1] /\ DOMAIN Tail(source) = 1 .. Len(source) - 1
      /\ \A k \in 1 .. Len(source) - 1 : Tail(source)[k] = source[k + 1]
  BY TailFacts
<1>3. i # 1
  BY <1>1, <1>2
<1>4. i - 1 \in DOMAIN Tail(source) /\ Tail(source)[i - 1] = source[i]
  BY <1>2, <1>3
<1>. QED  BY <1>1, <1>4 DEF BytesRemain

LEMMA RemainInReduced ==
  ASSUME TypeOK, source # << >>, BytesRemain,
         NEW n \in Nat, n <= Head(source).left, source' = HeadReduced(n)
  PROVE  n > 0 \/ BytesRemain'
<1>. SUFFICES ASSUME n = 0 PROVE BytesRemain'
  OBVIOUS
<1>0. source \in Seq(Segment)
  BY DEF TypeOK
<1>. DEFINE h == HeadReduced(n)
<1>1. PICK i \in DOMAIN source : source[i].left > 0
  BY DEF BytesRemain
<1>2. /\ h \in Seq(Segment) /\ Len(h) = Len(source) /\ h[1].left = source[1].left - n
      /\ \A k \in 2 .. Len(source) : h[k] = source[k]
  BY <1>0, HeadReducedFacts
<1>3. Len(source) \in Nat /\ DOMAIN source = 1 .. Len(source) /\ source[1].left \in Nat
  BY <1>0, TailFacts, MemberFacts
<1>. HIDE DEF h
<1>4. DOMAIN h = 1 .. Len(source)
  BY <1>2
<1>5. h[i].left = source[i].left
  BY <1>2, <1>3
<1>. QED  BY <1>1, <1>3, <1>4, <1>5 DEF BytesRemain, h

LEMMA RemainWhenGrown ==
  ASSUME TypeOK, Control, Grow, BytesRemain
  PROVE  BytesRemain'
<1>1. PICK j \in DOMAIN source :
         /\ source' \in Seq(Segment) /\ Len(source') = Len(source)
         /\ source'[j].left = source[j].left + 1
         /\ \A i \in 1 .. Len(source) : i # j => source'[i] = source[i]
  BY GrowFacts
<1>2. /\ source \in Seq(Segment) /\ DOMAIN source = 1 .. Len(source)
      /\ DOMAIN source' = 1 .. Len(source)
  BY <1>1 DEF TypeOK
<1>3. source[j].left \in Nat /\ source'[j].left > 0
  BY <1>1, <1>2, MemberFacts
<1>. QED  BY <1>1, <1>2, <1>3 DEF BytesRemain

LEMMA RemainStep ==
  ASSUME TypeOK, Control, MoreRemains, LastHeld, [Next]_vars
  PROVE  MoreRemains' /\ LastHeld'
<1>. USE DEF MoreRemains, LastHeld
<1>0. /\ room \in Nat /\ offset \in Nat /\ count \in Nat /\ offset + room = bufSize
      /\ bufSize \in Nat \ {0} /\ source \in Seq(Segment)
  BY RoomFacts, BufferSize DEF TypeOK
<1>a. source # << >> =>
        /\ Head(source) = source[1] /\ source[1].left \in Nat /\ 1 \in DOMAIN source
  BY <1>0, TailFacts, MemberFacts
<1>b. MoreRemains <=> (pc = "chunk" => BytesRemain)
  BY DEF BytesRemain
<1>c. MoreRemains' <=> (pc' = "chunk" => BytesRemain')
  BY DEF BytesRemain
<1>1. CASE FillStringExhausted
  <2>1. /\ source # << >> /\ source' = Tail(source) /\ offset' = offset + Head(source).left
        /\ count' = count /\ pc = "fill" /\ pc' = "fill" /\ internals' = internals /\ count = 0
    BY <1>1 DEF FillStringExhausted, NextSource, HeadIs, Control
  <2>2. CASE Head(source).left = 0
    BY <1>0, <2>1, <2>2, RemainInTail
  <2>3. CASE Head(source).left > 0
    BY <1>0, <2>1, <2>3, <1>a
  <2>. QED  BY <1>a, <2>1, <2>2, <2>3
<1>2. CASE FillStringRemaining
  <2>1. source # << >> /\ source' = HeadReduced(room) /\ pc' = "chunk" /\ ~StringEnds
    BY <1>2 DEF FillStringRemaining, HeadIs
  <2>2. Head(source).left > room
    BY <1>0, <1>a, <2>1 DEF StringEnds
  <2>3. /\ source'[1].left = source[1].left - room /\ source' \in Seq(Segment)
        /\ Len(source') = Len(source)
    BY <1>0, <1>a, <2>1, <2>2, HeadReducedFacts
  <2>4. source'[1].left > 0 /\ 1 \in DOMAIN source'
    BY <1>0, <1>a, <2>1, <2>2, <2>3
  <2>. QED  BY <2>1, <2>4
<1>3. CASE FillBuf
  <2>1. /\ source # << >> /\ pc = "fill" /\ pc' = "eof" /\ offset' = offset
        /\ internals' = internals /\ count = 0
    BY <1>3 DEF FillBuf, HeadIs, Control
  <2>2. count' \in Nat /\ count' <= Head(source).left
    BY <1>0, <1>3, <1>a, <2>1 DEF FillBuf
  <2>3. ASSUME NEW n \in Nat, n = count', BytesRemain PROVE n > 0 \/ BytesRemain'
    <3>1. source' = HeadReduced(n) /\ n <= Head(source).left
      BY <1>3, <2>2, <2>3 DEF FillBuf, HeadReduced
    <3>. QED  BY <2>1, <2>3, <3>1, RemainInReduced
  <2>4. BytesRemain => count' > 0 \/ BytesRemain'
    BY <2>2, <2>3
  <2>5. /\ count' > 0 => offset' + count' > 0
        /\ offset + count > 0 => offset' + count' > 0
    <3>1. count \in Nat /\ offset \in Nat /\ count' \in Nat /\ offset' = offset /\ count = 0
      BY <1>0, <2>1, <2>2
    <3>2. /\ offset + count' > 0 <=> offset > 0 \/ count' > 0
          /\ offset + count > 0 <=> offset > 0 \/ count > 0
      BY <3>1, SumPositive
    <3>3. ~(count > 0)
      BY <3>1
    <3>. QED  BY <3>1, <3>2, <3>3, Zenon
  <2>. QED  BY <2>1, <2>4, <2>5
<1>4. CASE HandleExhausted
  <2>1. /\ source # << >> /\ source' = Tail(source) /\ offset' = offset + count
        /\ count' = 0 /\ pc = "eof" /\ pc' = "fill" /\ internals' = internals
        /\ Head(source).left = 0
    BY <1>4 DEF HandleExhausted, NextSource, HeadIs, Control
  <2>2. BytesRemain => BytesRemain'
    BY <1>0, <2>1, RemainInTail
  <2>. QED  BY <1>0, <2>1, <2>2
<1>5. CASE HandleRemaining
  <2>1. /\ source # << >> /\ source' = source /\ pc' = "chunk" /\ Head(source).left # 0
    BY <1>5 DEF HandleRemaining, HeadIs, Control
  <2>. QED  BY <1>a, <2>1
<1>6. CASE ProcessChunk
  BY <1>6, <1>b DEF ProcessChunk, BytesRemain
<1>7. CASE Grow
  <2>1. UNCHANGED <<pc, internals, offset, count>>
    BY <1>7 DEF Grow
  <2>. QED  BY <1>7, <1>b, <1>c, <2>1, RemainWhenGrown
<1>8. CASE Start \/ FillNone \/ ProcessLast \/ HandleFails \/ Finished \/ UNCHANGED vars
  <2>1. UNCHANGED <<source, internals, offset, count>>
    BY <1>8 DEF Start, FillNone, ProcessLast, HandleFails, Finished, vars
  <2>2. pc' = "chunk" => pc = "chunk"
    BY <1>8 DEF Start, FillNone, ProcessLast, HandleFails, Finished, vars
  <2>3. pc' \in {"fill", "eof", "last", "done"} =>
          pc \in {"fill", "eof", "last", "done"} \/ internals.data = << >>
    BY <1>8 DEF Start, FillNone, ProcessLast, HandleFails, Finished, vars, Control
  <2>. QED  BY <2>1, <2>2, <2>3 DEF BytesRemain
<1>. QED  BY <1>1, <1>2, <1>3, <1>4, <1>5, <1>6, <1>7, <1>8 DEF Next, Step

-----------------------------------------------------------------------------
\* The digest.

LEMMA DigestMadeStep ==
  ASSUME Control, DigestMade, [Next]_vars
  PROVE  DigestMade'
<1>1. CASE ProcessLast
  BY <1>1 DEF ProcessLast, DigestMade, Front
<1>2. CASE Finished \/ Grow \/ UNCHANGED vars
  <2>1. UNCHANGED <<pc, digest, internals, offset, buf>>
    BY <1>2 DEF Finished, Grow, vars
  <2>. QED  BY <2>1 DEF DigestMade, Front
<1>3. CASE ~(ProcessLast \/ Finished \/ Grow \/ UNCHANGED vars)
  <2>1. pc # "done" /\ pc' # "done" /\ digest' = digest
    BY <1>3 DEF Next, Step, Start, FillNone, FillStringExhausted, FillStringRemaining,
       FillBuf, HandleExhausted, HandleRemaining, ProcessChunk, HandleFails
  <2>. QED  BY <2>1 DEF DigestMade
<1>. QED  BY <1>1, <1>2, <1>3

LEMMA InitIInv == Init => IInv
BY InitTypes, InitBytes DEF IInv

LEMMA NextIInv == IInv /\ [Next]_vars => IInv'
<1>. SUFFICES ASSUME IInv, [Next]_vars PROVE IInv'
  OBVIOUS
<1>1. TypeOK' /\ Control'
  BY TypesStep DEF IInv
<1>2. Consumed' /\ InOrder' /\ Supplied'
  BY ConsumedStep, InOrderStep, SuppliedStep DEF IInv
<1>3. MoreRemains' /\ LastHeld'
  BY RemainStep DEF IInv
<1>4. DigestMade'
  BY DigestMadeStep DEF IInv
<1>. QED  BY <1>1, <1>2, <1>3, <1>4 DEF IInv

LEMMA SpecIInv == Spec => []IInv
BY InitIInv, NextIInv, PTL DEF Spec

(* The front of the buffer is a sequence.                                  *)
LEMMA FrontFacts ==
  ASSUME TypeOK, NEW n \in 0 .. bufSize
  PROVE  /\ Front(n) \in Seq(Int) /\ Len(Front(n)) = n
         /\ \A i \in 1 .. n : Front(n)[i] = buf[i]
<1>1. buf \in Seq(Int) /\ Len(buf) = bufSize /\ bufSize \in Nat
  BY BufferSeq, BufferSize
<1>. QED  BY <1>1 DEF Front

(* Padding the last chunk is padding everything: only a call that has not  *)
(* compressed anything comes to its end with an empty buffer.              *)
LEMMA LastChunkPadded ==
  ASSUME IInv, pc \in {"last", "done"}
  PROVE  LET message == internals.data \o Front(offset)
         IN  /\ message \in Seq(Int) /\ Len(message) = internals.length + offset
             /\ internals.data \o Pad(Front(offset)) = Pad(message)
<1>. DEFINE d == internals.data
            f == Front(offset)
<1>1. /\ d \in Seq(Int) /\ f \in Seq(Int) /\ Len(f) = offset /\ offset \in Nat
      /\ Len(d) % BlockBytes = 0 /\ internals.length = Len(d)
  BY FrontFacts, RoomFacts DEF IInv, TypeOK, Consumed
<1>2. d # << >> => offset > 0
  <2>. HAVE d # << >>
  <2>1. source = << >> /\ count = 0
    BY DEF IInv, Control
  <2>2. ~BytesRemain
    BY <2>1 DEF BytesRemain
  <2>3. offset + count > 0
    BY <2>2 DEF IInv, LastHeld
  <2>. QED  BY <1>1, <2>1, <2>3
<1>3. PadSymbol \subseteq Int
  BY DEF PadSymbol, ZeroByte, OneBit, LengthField
<1>. HIDE DEF d, f
<1>4. Len(f) > 0 \/ Len(d) = 0
  BY <1>1, <1>2
<1>5. d \o Pad(f) = Pad(d \o f)
  BY <1>1, <1>3, <1>4, PadTail
<1>6. d \o f \in Seq(Int) /\ Len(d \o f) = Len(d) + Len(f)
  BY <1>1, ConcatFacts
<1>. QED  BY <1>1, <1>5, <1>6 DEF d, f

(* What was compressed and what is held are the bytes that were read.      *)
MessageRead == ~torn => internals.data \o Front(Held) = Bytes(read)

LEMMA HeldType ==
  ASSUME TypeOK
  PROVE  Held \in 0 .. bufSize
BY RoomFacts, BufferSize DEF Held

LEMMA InOrderIsRead ==
  ASSUME IInv
  PROVE  MessageRead
<1>. SUFFICES ASSUME ~torn PROVE internals.data \o Front(Held) = Bytes(read)
  BY DEF MessageRead
<1>. DEFINE d == internals.data
            f == Front(Held)
            n == Held
<1>1. /\ d \in Seq(Int) /\ f \in Seq(Int) /\ Len(f) = n
      /\ n \in Nat /\ read \in Nat /\ Len(d) \in Nat
      /\ \A i \in 1 .. n : f[i] = buf[i]
  <2>1. TypeOK /\ n \in 0 .. bufSize
    BY HeldType DEF IInv
  <2>2. n \in Nat /\ read \in Nat /\ d \in Seq(Int)
    BY <2>1, BufferSize DEF TypeOK
  <2>. HIDE DEF n
  <2>3. Front(n) \in Seq(Int) /\ Len(Front(n)) = n /\ \A i \in 1 .. n : Front(n)[i] = buf[i]
    BY <2>1, FrontFacts
  <2>4. f = Front(n)
    BY DEF n
  <2>. HIDE DEF f, d
  <2>. QED  BY <2>2, <2>3, <2>4
<1>2. /\ Len(d) + n = read
      /\ \A i \in 1 .. Len(d) : d[i] = i
      /\ \A i \in 1 .. n : f[i] = Len(d) + i
  BY <1>1 DEF IInv, InOrder
<1>. HIDE DEF d, f, n
<1>3. /\ d \o f \in Seq(Int) /\ Len(d \o f) = read
      /\ \A i \in 1 .. read : (d \o f)[i] = IF i <= Len(d) THEN d[i] ELSE f[i - Len(d)]
  BY <1>1, <1>2, ConcatFacts
<1>4. ASSUME NEW i \in 1 .. read PROVE (d \o f)[i] = i
  <2>1. CASE i <= Len(d)
    BY <1>1, <1>2, <1>3, <2>1
  <2>2. CASE ~(i <= Len(d))
    <3>1. i - Len(d) \in 1 .. n /\ Len(d) + (i - Len(d)) = i
      BY <1>1, <1>2, <2>2
    <3>2. f[i - Len(d)] = Len(d) + (i - Len(d))
      BY <1>2, <3>1
    <3>. QED  BY <1>3, <2>2, <3>1, <3>2
  <2>. QED  BY <2>1, <2>2
<1>5. d \o f = Bytes(read)
  <2>. DEFINE m == d \o f
  <2>1. m \in Seq(Int) /\ Len(m) = read /\ \A i \in 1 .. read : m[i] = i
    BY <1>3, <1>4
  <2>. HIDE DEF m
  <2>2. m = Bytes(read)
    BY <1>1, <2>1 DEF Bytes
  <2>. QED  BY <2>2 DEF m
<1>. QED  BY <1>5 DEF d, f, n

(* The variables of a digest in one go keep their types.                   *)
THEOREM TypeCorrect == Spec => []TypeOK
<1>1. IInv => TypeOK
  BY DEF IInv
<1>. QED  BY <1>1, SpecIInv, PTL

(* A source that reports Remaining has at least one byte left, for lists   *)
(* of any length with empty members anywhere and files that grow.          *)
THEOREM SourcesKeepTheirWord == Spec => []MoreRemains
<1>1. IInv => MoreRemains
  BY DEF IInv
<1>. QED  BY <1>1, SpecIInv, PTL

(* The action gets complete chunks unless a file grew between a read that  *)
(* did not fill the buffer and the test of its end: that race is the only  *)
(* way to an incomplete one.                                               *)
THEOREM ChunksAreComplete == Spec => [](~torn => ChunkIsComplete)
<1>1. IInv => (~torn => ChunkIsComplete)
  <2>. SUFFICES ASSUME IInv, ~torn, pc = "chunk"
                PROVE  buf = [i \in 1 .. bufSize |-> read - bufSize + i]
    BY DEF ChunkIsComplete
  <2>1. /\ buf \in [1 .. bufSize -> Int] /\ bufSize \in Nat /\ read \in Nat
        /\ Len(internals.data) \in Nat
    BY BufferSize DEF IInv, TypeOK
  <2>2. /\ Len(internals.data) + bufSize = read
        /\ \A i \in 1 .. bufSize : buf[i] = Len(internals.data) + i
    BY DEF IInv, InOrder, Held
  <2>3. \A i \in 1 .. bufSize : buf[i] = read - bufSize + i
    <3>. DEFINE k == Len(internals.data)
    <3>1. k \in Nat /\ k + bufSize = read /\ \A i \in 1 .. bufSize : buf[i] = k + i
      BY <2>1, <2>2
    <3>. HIDE DEF k
    <3>2. k = read - bufSize
      BY <2>1, <3>1
    <3>. QED  BY <3>1, <3>2
  <2>. QED  BY <2>1, <2>3
<1>. QED  BY <1>1, SpecIInv, PTL

(* The digest in one go is that of all bytes of all sources in order,      *)
(* unless a read was torn.                                                 *)
THEOREM DigestIsOfSource == Spec => []DigestOfSource
<1>1. IInv => DigestOfSource
  <2>. SUFFICES ASSUME IInv, pc = "done", ~torn
                PROVE  digest = DigestOf(Bytes(supply + grown))
    BY DEF DigestOfSource
  <2>. DEFINE message == internals.data \o Front(offset)
              total == supply + grown
  <2>1. /\ message \in Seq(Int) /\ Len(message) = internals.length + offset
        /\ internals.data \o Pad(Front(offset)) = Pad(message)
    BY LastChunkPadded
  <2>2. total = read /\ total \in Nat
    <3>1. source = << >> /\ supply \in Nat /\ grown \in Nat /\ read \in Nat
      BY DEF IInv, Control, TypeOK
    <3>2. PICK ends : Sums(ends, source) /\ ends[Len(source)] = supply + grown - read
      BY DEF IInv, Supplied, SumsTo
    <3>3. ends[0] = 0 /\ Len(source) = 0
      BY <3>1, <3>2 DEF Sums
    <3>. QED  BY <3>1, <3>2, <3>3
  <2>3. message = Bytes(total)
    BY <2>2, InOrderIsRead DEF MessageRead, Held
  <2>4. digest = [data |-> Pad(message), length |-> Len(message)]
    BY <2>1 DEF IInv, DigestMade
  <2>. QED  BY <2>3, <2>4 DEF DigestOf
<1>. QED  BY <1>1, SpecIInv, PTL

-----------------------------------------------------------------------------
\* The refinement.

(* The two modules agree on the digest of a message.                       *)
LEMMA DigestsAgree ==
  ASSUME NEW m
  PROVE  Abstract!DigestOf(m) = DigestOf(m)
BY DEF Abstract!DigestOf, DigestOf, Abstract!Pad, Pad, Abstract!PaddedSize, PaddedSize,
       Abstract!Blake2PaddedSize, Blake2PaddedSize, Abstract!Sha2PaddedSize, Sha2PaddedSize,
       Abstract!PadByte, PadByte, Abstract!Glue, Glue,
       Abstract!ZeroByte, ZeroByte, Abstract!OneBit, OneBit, Abstract!LengthField, LengthField

RInv == IInv /\ MessageRead

LEMMA RInvHolds == Spec => []RInv
<1>1. IInv => RInv
  BY InOrderIsRead DEF RInv
<1>. QED  BY <1>1, SpecIInv, PTL

(* In a session, the message is what was read.                             *)
LEMMA SessionState ==
  ASSUME MessageRead, pc \notin {"start", "done"}
  PROVE  /\ AbstractPhase = "open" /\ AbstractDigest = digest
         /\ AbstractMessage = IF torn THEN Spoiled ELSE Bytes(read)
BY DEF MessageRead, AbstractPhase, AbstractDigest, AbstractMessage

LEMMA SessionStatePrime ==
  ASSUME MessageRead', pc' \notin {"start", "done"}
  PROVE  /\ AbstractPhase' = "open" /\ AbstractDigest' = digest'
         /\ AbstractMessage' = IF torn' THEN Spoiled ELSE Bytes(read')
<1>1. ~torn' => (internals.data \o Front(Held))' = Bytes(read')
  BY DEF MessageRead, Bytes
<1>. QED  BY <1>1 DEF AbstractPhase, AbstractDigest, AbstractMessage

(* Reading n bytes appends those n bytes.                                  *)
LEMMA BytesAppend ==
  ASSUME read \in Nat, NEW n \in Nat
  PROVE  Bytes(read + n) = Bytes(read) \o Abstract!Supplied(n)
<1>. DEFINE a == Bytes(read)
            b == Abstract!Supplied(n)
            c == Bytes(read + n)
<1>1. /\ a \in Seq(Int) /\ Len(a) = read /\ \A i \in 1 .. read : a[i] = i
      /\ c \in Seq(Int) /\ Len(c) = read + n /\ \A i \in 1 .. read + n : c[i] = i
  BY DEF Bytes
<1>2. b \in Seq(Int) /\ Len(b) = n /\ \A i \in 1 .. n : b[i] = read + i
  BY DEF Abstract!Supplied
<1>. HIDE DEF a, b, c
<1>3. /\ a \o b \in Seq(Int) /\ Len(a \o b) = read + n
      /\ \A i \in 1 .. read + n : (a \o b)[i] = IF i <= read THEN a[i] ELSE b[i - read]
  BY <1>1, <1>2, ConcatFacts
<1>4. ASSUME NEW i \in 1 .. read + n PROVE (a \o b)[i] = c[i]
  <2>1. CASE i <= read
    BY <1>1, <1>3, <2>1
  <2>2. CASE ~(i <= read)
    <3>1. i - read \in 1 .. n /\ read + (i - read) = i
      BY <2>2
    <3>. QED  BY <1>1, <1>2, <1>3, <2>2, <3>1
  <2>. QED  BY <2>1, <2>2
<1>5. c = a \o b
  <2>. DEFINE m == a \o b
  <2>1. m \in Seq(Int) /\ Len(m) = read + n /\ \A i \in 1 .. read + n : m[i] = c[i]
    BY <1>3, <1>4
  <2>. HIDE DEF m
  <2>2. c = m
    BY <1>1, <2>1
  <2>. QED  BY <2>2 DEF m
<1>. QED  BY <1>5 DEF a, b, c

(* A step inside the session feeds what it reads; a torn read, and what    *)
(* follows it, is one that the abstract session allows.                    *)
LEMMA ReadingFeeds ==
  ASSUME RInv, RInv', pc \notin {"start", "done"}, pc' \notin {"start", "done"},
         digest' = digest, NEW n \in Nat, read' = read + n, torn => torn'
  PROVE  [Abstract!Next]_(Abstract!vars)
<1>1. /\ read \in Nat /\ torn \in BOOLEAN /\ MessageRead /\ MessageRead'
  BY DEF RInv, IInv, TypeOK
<1>2. /\ AbstractPhase = "open" /\ AbstractPhase' = "open"
      /\ AbstractDigest' = AbstractDigest
      /\ AbstractMessage = IF torn THEN Spoiled ELSE Bytes(read)
      /\ AbstractMessage' = IF torn' THEN Spoiled ELSE Bytes(read')
  BY <1>1, SessionState, SessionStatePrime
<1>3. CASE torn'
  <2>1. torn' = TRUE
    <3>1. torn' \in BOOLEAN
      BY DEF RInv, IInv, TypeOK
    <3>. QED  BY <1>3, <3>1
  <2>2. read' >= read
    BY <1>1
  <2>3. Abstract!FeedTorn
    BY <1>2, <2>1, <2>2 DEF Abstract!FeedTorn
  <2>. QED  BY <2>3 DEF Abstract!Next
<1>4. CASE ~torn' /\ n = 0
  <2>1. read' = read /\ torn' = torn
    <3>1. torn' \in BOOLEAN
      BY DEF RInv, IInv, TypeOK
    <3>. QED  BY <1>1, <1>4, <3>1
  <2>. QED  BY <1>2, <1>4, <2>1 DEF Abstract!vars
<1>5. CASE ~torn' /\ n # 0
  <2>1. ~torn /\ torn' = torn
    <3>1. torn' \in BOOLEAN
      BY DEF RInv, IInv, TypeOK
    <3>. QED  BY <1>1, <1>5, <3>1
  <2>2. read' > read /\ read' - read = n
    BY <1>1, <1>5
  <2>3. AbstractMessage' = AbstractMessage \o Abstract!Supplied(read' - read)
    BY <1>1, <1>2, <1>5, <2>1, <2>2, BytesAppend
  <2>4. Abstract!Feed
    BY <1>2, <2>1, <2>2, <2>3 DEF Abstract!Feed
  <2>. QED  BY <2>4 DEF Abstract!Next
<1>. QED  BY <1>3, <1>4, <1>5

(* The digest is that of the bytes the session was fed.                    *)
LEMMA LastRefines ==
  ASSUME RInv, ProcessLast
  PROVE  Abstract!Finalise
<1>. DEFINE d == internals.data
            f == Front(offset)
<1>1. /\ pc = "last" /\ pc' = "done" /\ read' = read /\ torn' = torn
      /\ digest' = [data |-> d \o Pad(f), length |-> internals.length + offset]
  BY DEF ProcessLast
<1>2. AbstractPhase = "open" /\ AbstractPhase' = "closed"
  BY <1>1 DEF AbstractPhase
<1>3. CASE torn
  <2>1. AbstractDigest' = Spoiled /\ AbstractMessage' = AbstractMessage
    BY <1>1, <1>3 DEF AbstractDigest, AbstractMessage
  <2>. QED  BY <1>1, <1>2, <1>3, <2>1 DEF Abstract!Finalise
<1>4. CASE ~torn
  <2>1. /\ Len(d \o f) = internals.length + offset
        /\ d \o Pad(f) = Pad(d \o f)
    BY <1>1, LastChunkPadded DEF RInv
  <2>2. AbstractMessage = d \o f
    BY <1>1, <1>4 DEF AbstractMessage, Held
  <2>3. AbstractMessage' = SubSeq(digest'.data, 1, digest'.length)
    BY <1>1, <1>4 DEF AbstractMessage
  <2>4. /\ d \in Seq(Int) /\ internals.length = Len(d)
        /\ f \in Seq(Int) /\ Len(f) = offset
    BY FrontFacts, RoomFacts DEF RInv, IInv, TypeOK, Consumed
  <2>5. PadSymbol \subseteq Int
    BY DEF PadSymbol, ZeroByte, OneBit, LengthField
  <2>. HIDE DEF d, f
  <2>6. SubSeq(d \o Pad(f), 1, Len(d) + Len(f)) = d \o f
    BY <2>4, <2>5, PaddedBegins
  <2>7. AbstractMessage' = d \o f
    BY <1>1, <2>3, <2>4, <2>6
  <2>8. AbstractDigest' = digest'
    BY <1>1, <1>4 DEF AbstractDigest
  <2>9. digest' = Abstract!DigestOf(d \o f)
    BY <1>1, <2>1, DigestsAgree DEF DigestOf
  <2>. QED  BY <1>1, <1>2, <1>4, <2>2, <2>7, <2>8, <2>9 DEF Abstract!Finalise
<1>5. torn \in BOOLEAN
  BY DEF RInv, IInv, TypeOK
<1>. QED  BY <1>3, <1>4, <1>5

(* Nothing was read when the call starts.                                  *)
LEMMA StartRefines ==
  ASSUME RInv, RInv', Start
  PROVE  Abstract!Start
<1>1. /\ pc = "start" /\ pc' = "fill" /\ read = 0 /\ torn = FALSE
      /\ digest = NoDigest
  BY DEF Start, RInv, IInv, Control, DigestMade
<1>2. UNCHANGED <<digest, read, torn>>
  BY DEF Start
<1>3. /\ AbstractPhase' = "open" /\ AbstractDigest' = NoDigest
      /\ AbstractMessage' = Bytes(0)
  BY <1>1, <1>2, SessionStatePrime DEF RInv
<1>4. Bytes(0) = << >>
  BY DEF Bytes
<1>. QED  BY <1>1, <1>2, <1>3, <1>4 DEF Abstract!Start

(* How many bytes a step inside the session reads.                         *)
LEMMA StepReads ==
  ASSUME IInv, TypeOK', Next, pc # "start", pc' # "done"
  PROVE  /\ \E n \in Nat : read' = read + n
         /\ digest' = digest /\ (torn => torn')
         /\ pc' \notin {"start", "done"} /\ pc # "done"
<1>1. CASE FillStringExhausted
  <2>1. source # << >> /\ source \in Seq(Segment)
    BY <1>1 DEF FillStringExhausted, HeadIs, IInv, TypeOK
  <2>2. Head(source).left \in Nat
    BY <2>1, TailFacts, MemberFacts
  <2>. QED  BY <1>1, <2>2 DEF FillStringExhausted, Transferred
<1>2. CASE FillStringRemaining
  BY <1>2, RoomFacts DEF FillStringRemaining, Transferred, IInv
<1>3. CASE FillBuf
  <2>1. read' = read + count' /\ pc' = "eof" /\ pc = "fill"
        /\ digest' = digest /\ torn' = torn
    BY <1>3 DEF FillBuf, Transferred
  <2>2. count' \in 0 .. bufSize - offset'
    BY DEF TypeOK, bufSize
  <2>. QED  BY <2>1, <2>2
<1>4. CASE HandleExhausted \/ HandleRemaining \/ ProcessChunk \/ FillNone \/ HandleFails
  <2>1. read' = read + 0
    BY <1>4 DEF HandleExhausted, HandleRemaining, ProcessChunk, FillNone, HandleFails,
       IInv, TypeOK
  <2>2. digest' = digest /\ pc \in {"eof", "chunk", "fill"}
        /\ pc' \in {"fill", "chunk", "last", "failed"}
    BY <1>4 DEF HandleExhausted, HandleRemaining, ProcessChunk, FillNone, HandleFails
  <2>3. torn => torn'
    BY <1>4, Zenon DEF HandleExhausted, HandleRemaining, ProcessChunk, FillNone, HandleFails
  <2>. QED  BY <2>1, <2>2, <2>3
<1>5. CASE Grow
  <2>1. read' = read + 0 /\ pc' = pc /\ pc # "done" /\ digest' = digest /\ torn' = torn
    BY <1>5 DEF Grow, IInv, TypeOK
  <2>. QED  BY <2>1
<1>6. CASE Finished
  <2>1. read' = read + 0 /\ pc' = pc /\ digest' = digest /\ torn' = torn
    BY <1>6 DEF Finished, vars, IInv, TypeOK
  <2>. QED  BY <2>1
<1>7. CASE Start \/ ProcessLast
  BY <1>7 DEF Start, ProcessLast
<1>. QED  BY <1>1, <1>2, <1>3, <1>4, <1>5, <1>6, <1>7 DEF Next, Step

(* Every step is one of the abstract session, or stutters.                 *)
LEMMA StepRefines == RInv /\ RInv' /\ [Next]_vars => [Abstract!Next]_(Abstract!vars)
<1>. SUFFICES ASSUME RInv, RInv', [Next]_vars PROVE [Abstract!Next]_(Abstract!vars)
  OBVIOUS
<1>1. CASE UNCHANGED vars
  BY <1>1 DEF vars, Abstract!vars, AbstractPhase, AbstractMessage, AbstractDigest,
     Held, Front, bufSize
<1>2. CASE Next /\ pc = "start"
  <2>1. Start
    BY <1>2 DEF Next, Step, Start, FillNone, FillStringExhausted, FillStringRemaining,
       FillBuf, HandleExhausted, HandleRemaining, ProcessChunk, ProcessLast, HandleFails,
       Grow, Finished
  <2>. QED  BY <2>1, StartRefines DEF Abstract!Next
<1>3. CASE Next /\ pc # "start" /\ pc' = "done"
  <2>1. ProcessLast \/ Grow \/ Finished
    BY <1>3 DEF Next, Step, Start, FillNone, FillStringExhausted, FillStringRemaining,
       FillBuf, HandleExhausted, HandleRemaining, ProcessChunk, HandleFails
  <2>2. CASE ProcessLast
    BY <2>2, LastRefines DEF Abstract!Next
  <2>3. CASE Grow \/ Finished
    <3>1. UNCHANGED <<pc, offset, count, buf, internals, digest, read, torn>>
      BY <2>3 DEF Grow, Finished, vars
    <3>. QED  BY <3>1 DEF Abstract!vars, AbstractPhase, AbstractMessage, AbstractDigest,
              Held, Front, bufSize
  <2>. QED  BY <2>1, <2>2, <2>3
<1>4. CASE Next /\ pc # "start" /\ pc' # "done"
  BY <1>4, StepReads, ReadingFeeds DEF RInv, IInv
<1>. QED  BY <1>1, <1>2, <1>3, <1>4

(* A call implements a session of the incremental interface: it starts,    *)
(* feeds just the bytes that it reads, in order, and ends with the digest  *)
(* of what it fed, unless a read was torn.                                 *)
THEOREM SessionRefined == Spec => ImplementsMessageDigest
<1>1. Init => Abstract!Init
  <2>. SUFFICES ASSUME Init PROVE Abstract!Init
    OBVIOUS
  <2>1. /\ pc = "start" /\ offset = 0 /\ internals.data = << >>
        /\ digest = NoDigest /\ read = 0 /\ torn = FALSE
    BY DEF Init
  <2>2. Front(0) = << >>
    BY DEF Front
  <2>3. AbstractMessage = << >> \o Front(0)
    BY <2>1 DEF AbstractMessage, Held
  <2>4. AbstractMessage = << >>
    BY <2>2, <2>3
  <2>. QED  BY <2>1, <2>4 DEF Abstract!Init, AbstractPhase, AbstractDigest
<1>. QED  BY <1>1, RInvHolds, StepRefines, PTL DEF Spec, ImplementsMessageDigest, Abstract!Spec

=============================================================================
