-------------------------- MODULE Blake2sPortable --------------------------
(***************************************************************************)
(* hash/blake2/blake2s/portable.c: the compression of one block by         *)
(* BLAKE2s.  A step is one use of the macro G, on four of the sixteen      *)
(* registers; eight steps make a ROUND.                                    *)
(***************************************************************************)
EXTENDS Endian

INSTANCE Words WITH Bits <- 32

Word2b == INSTANCE Words WITH Bits <- 64    \* the length, on uint64_t

Rounds == 8 * 10

(* iv2s0 .. iv2s7 *)
iv == LET digits == <<
        <<\h6a09, \he667>>, <<\hbb67, \hae85>>, <<\h3c6e, \hf372>>, <<\ha54f, \hf53a>>,
        <<\h510e, \h527f>>, <<\h9b05, \h688c>>, <<\h1f83, \hd9ab>>, <<\h5be0, \hcd19>> >>
      IN  [j \in 0 .. 7 |-> OfLimbs(digits[j + 1])]

R(x, n) == ShiftL(x, 32 - n) \cup ShiftR(x, n)

(* The macro G(a,b,c,d,m0,m1) on the registers a, b, c, d of x.            *)
G(x, a, b, c, d, m0, m1) ==
    LET a1 == Add(Add(x[a], x[b]), m0)
        d1 == R(Xor(x[d], a1), 16)
        c1 == Add(x[c], d1)
        b1 == R(Xor(x[b], c1), 12)
        a2 == Add(Add(a1, b1), m1)
        d2 == R(Xor(d1, a2), 8)
        c2 == Add(c1, d2)
        b2 == R(Xor(b1, c2), 7)
    IN  [x EXCEPT ![a] = a2, ![b] = b2, ![c] = c2, ![d] = d2]

(* G0 .. G7 *)
Quadruples ==
    << <<0, 4,  8, 12>>, <<1, 5,  9, 13>>, <<2, 6, 10, 14>>, <<3, 7, 11, 15>>,
       <<0, 5, 10, 15>>, <<1, 6, 11, 12>>, <<2, 7,  8, 13>>, <<3, 4,  9, 14>> >>

(* The message words of the rounds. *)
ROUND == <<
        << 0,  1,  2,  3,  4,  5,  6,  7,  8,  9, 10, 11, 12, 13, 14, 15>>,
        <<14, 10,  4,  8,  9, 15, 13,  6,  1, 12,  0,  2, 11,  7,  5,  3>>,
        <<11,  8, 12,  0,  5,  2, 15, 13, 10, 14,  3,  6,  7,  1,  9,  4>>,
        << 7,  9,  3,  1, 13, 12, 11, 14,  2,  6,  5, 10,  4,  0, 15,  8>>,
        << 9,  0,  5,  7,  2,  4, 10, 15, 14,  1, 11, 12,  6,  8,  3, 13>>,
        << 2, 12,  6, 10,  0, 11,  8,  3,  4, 13,  7,  5, 15, 14,  1,  9>>,
        <<12,  5,  1, 15, 14, 13,  4, 10,  0,  7,  6,  3,  9,  2,  8, 11>>,
        <<13, 11,  7, 14, 12,  1,  3,  9,  5,  0, 15,  4,  8,  6,  2, 10>>,
        << 6, 15, 14,  9, 11,  3,  0,  8, 12,  2, 13,  7,  1,  4, 10,  5>>,
        <<10,  2,  8,  4,  7,  6,  1,  5, 15, 11,  9, 14,  3, 12, 13,  0>> >>

(* Use t of G, counted from the start of the block.                        *)
StepAt(t, x, w) ==
    LET q == Quadruples[(t % 8) + 1]
        i == ROUND[t \div 8 + 1]
    IN  G(x, q[1], q[2], q[3], q[4], w[i[2 * (t % 8) + 1]], w[i[2 * (t % 8) + 2]])

(* The counter: length += n, on 64 bits.                                   *)
Counted(length, n) == Word2b!Add(length, Word2b!OfNat(n))

low32(x)  == {i \in x : i < 32}
high32(x) == {i - 32 : i \in {j \in x : j >= 32}}

(* The registers at the start of a block.                                  *)
Registers(h, length, f0, f1) ==
    [j \in 0 .. 15 |->
        IF j < 8 THEN h[j]
        ELSE IF j = 12 THEN Xor(iv[4], low32(length))
        ELSE IF j = 13 THEN Xor(iv[5], high32(length))
        ELSE IF j = 14 THEN Xor(iv[6], f0)
        ELSE IF j = 15 THEN Xor(iv[7], f1)
        ELSE iv[j - 8]]

Load(host, bytes) ==
    LET mesg == ReadWords(host, 4, bytes)
    IN  [i \in 0 .. 15 |-> raaz_tole32(host, mesg[i])]

(* h0 ^= x0 ^ x8; ... h7 ^= x7 ^ x15;                                      *)
Update(h, x) == [j \in 0 .. 7 |-> Xor(h[j], Xor(x[j], x[j + 8]))]
=============================================================================
