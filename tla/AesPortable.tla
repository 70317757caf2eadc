---------------------------- MODULE AesPortable ----------------------------
(***************************************************************************)
(* cipher/cportable/aes.c: AES on a state of four words, word i holding    *)
(* row i of the matrix, and a key expansion that works on rows, too.  A    *)
(* block is a sequence of 16 bytes, block[i] of the code being             *)
(* block[i + 1] here; words of arrays are counted from 0.                  *)
(***************************************************************************)
EXTENDS AesTables, Endian, FiniteSets

INSTANCE Words WITH Bits <- 32

constructWord32(x3, x2, x1, x0) == MK(<<x3, x2, x1, x0>>)

(* src * x in GF_2[x]/(01{1b}), on each byte of the word.                  *)
Mult02(src) ==
    Xor({p \in ShiftL(src, 1) : p % 8 # 0},
        UNION {{8 * b + p : p \in {0, 1, 3, 4}} : b \in {x \in 0 .. 3 : 8 * x + 7 \in src}})

Substitute(with, src) == MK([k \in 1 .. 4 |-> with[ByteAt(src, 4 - k)]])

SubBytes(state)    == [j \in 0 .. 3 |-> Substitute(sbox, state[j])]
InvSubBytes(state) == [j \in 0 .. 3 |-> Substitute(inv_sbox, state[j])]

ShiftRows(state)    == [j \in 0 .. 3 |-> IF j = 0 THEN state[0] ELSE RotateL(state[j], 8 * j)]
InvShiftRows(state) == [j \in 0 .. 3 |-> IF j = 0 THEN state[0] ELSE RotateL(state[j], 32 - 8 * j)]

MixColumns(state) ==
    LET d == [j \in 0 .. 3 |-> Mult02(state[j])]
        Others(j) == Xor(Xor(state[(j + 1) % 4], state[(j + 2) % 4]), state[(j + 3) % 4])
    IN  [j \in 0 .. 3 |-> Xor(Others(j), Xor(d[j], d[(j + 1) % 4]))]

InvMixColumns(state) ==
    LET n  == MixColumns(state)
        d  == [j \in 0 .. 3 |-> Mult02(state[j])]
        e0 == Mult02(Xor(d[0], d[2]))
        e1 == Mult02(Xor(d[1], d[3]))
        f  == Xor(Mult02(e0), Mult02(e1))
    IN  [j \in 0 .. 3 |-> Xor(Xor(n[j], IF j % 2 = 0 THEN e0 ELSE e1), f)]

(* eKey + 4 r is the key of round r. *)
AddRoundKey(state, eKey, r) == [j \in 0 .. 3 |-> Xor(state[j], eKey[4 * r + j])]

getnr(k) == CASE k = "KEY128" -> 10 [] k = "KEY192" -> 12 [] k = "KEY256" -> 14

(* The rows of four columns of bytes, and the bytes of four rows. *)
Rows(block) ==
    [i \in 0 .. 3 |-> constructWord32(block[i + 1], block[i + 5], block[i + 9], block[i + 13])]
StoreRows(state) == [b \in 1 .. 16 |-> ByteAt(state[(b - 1) % 4], 3 - ((b - 1) \div 4))]

(* raazCipherAESBlockEncrypt and ...Decrypt: the round key that is added   *)
(* to the block, round r of nr, of which the last does not mix columns.    *)
EncryptStart(eKey, block, nr) == AddRoundKey(Rows(block), eKey, 0)
EncryptRound(eKey, state, r, nr) ==
    LET s == ShiftRows(SubBytes(state))
    IN  AddRoundKey(IF r = nr THEN s ELSE MixColumns(s), eKey, r)

DecryptStart(eKey, block, nr) == AddRoundKey(Rows(block), eKey, nr)
DecryptRound(eKey, state, r, nr) ==
    LET s == AddRoundKey(InvSubBytes(InvShiftRows(state)), eKey, nr - r)
    IN  IF r = nr THEN s ELSE InvMixColumns(s)
-----------------------------------------------------------------------------
(* The key expansion.  prev[j] of the 192 bit key has the row j of the     *)
(* first four columns in words 0 .. 3, that of the other two in the low    *)
(* half of words 4 .. 7.                                                   *)
expand(w, sb) == Xor(w, {24 + p : p \in sbox[ByteAt(sb, 0)]})

(* x ^= (x >> 8) ^ (x >> 16) ^ (x >> 24): each byte adds up those above.   *)
Spread(x) == Xor(Xor(x, ShiftR(x, 8)), Xor(ShiftR(x, 16), ShiftR(x, 24)))

WithRcon(x, j, c) == IF j = 0 THEN Xor(x, rcon[c]) ELSE x

Append4(eKey, new) ==
    LET n == Cardinality(DOMAIN eKey)
    IN  [x \in 0 .. n + 3 |-> IF x < n THEN eKey[x] ELSE new[x - n]]

ExpandStart(key, k) ==
    CASE k = "KEY128" -> Rows(key)
      [] k = "KEY192" -> Rows(SubSeq(key, 1, 16))
      [] k = "KEY256" -> Append4(Rows(SubSeq(key, 1, 16)), Rows(SubSeq(key, 17, 32)))

ExpandPrev(key) ==
    [x \in 0 .. 7 |->
        IF x < 4 THEN Rows(SubSeq(key, 1, 16))[x]
        ELSE constructWord32({}, {}, key[x + 13], key[x + 17])]

(* Iteration i of the loops of KEY128 and KEY256. *)
Expand128(eKey, i) ==
    Append4(eKey, [j \in 0 .. 3 |->
        Spread(WithRcon(expand(eKey[4 * i - 4 + j], eKey[4 * i - 4 + ((j + 1) % 4)]), j, i))])

Expand256(eKey, i) ==
    Append4(eKey, [j \in 0 .. 3 |->
        Spread(IF i % 2 = 0
               THEN WithRcon(expand(eKey[4 * i - 8 + j], eKey[4 * i - 4 + ((j + 1) % 4)]), j, i \div 2)
               ELSE expand(eKey[4 * i - 8 + j], eKey[4 * i - 4 + j]))])

(* Broken variant: the last two columns do not get the one before.         *)
Curr192WithoutLast(prev, i) ==
    LET a == [j \in 0 .. 3 |->
                 Spread(WithRcon(expand(prev[j], prev[4 + ((j + 1) % 4)]), j, i))]
    IN  [x \in 0 .. 7 |-> IF x < 4 THEN a[x]
                           ELSE Xor(prev[x], {8 + p : p \in ByteAt(a[x - 4], 0)})]

(* Iteration i of the loop of KEY192: what curr becomes from prev, and the *)
(* words that are appended; for i = 8 only the first half is needed.       *)
Curr192(prev, i) ==
    LET a == [j \in 0 .. 3 |->
                 Spread(WithRcon(expand(prev[j], prev[4 + ((j + 1) % 4)]), j, i))]
        Low(j) == Xor(prev[4 + j], {8 + p : p \in ByteAt(a[j], 0)})
    IN  [x \in 0 .. 7 |-> IF x < 4 THEN a[x] ELSE Xor(Low(x - 4), ShiftR(Low(x - 4), 8))]

Expand192(eKey, prev, i) ==
    LET curr == Curr192(prev, i)
        Half(high, low) == [j \in 0 .. 3 |-> ShiftL(high[j], 16) \cup low[j]]
        Upper(x) == [j \in 0 .. 3 |-> ShiftR(x[j], 16)]
        Ends(x)  == [j \in 0 .. 3 |-> x[j + 4]]
    IN  IF i % 2 = 1 /\ i < 8
        THEN Append4(Append4(eKey, Half(Ends(prev), Upper(curr))), Half(curr, Ends(curr)))
        ELSE Append4(eKey, curr)

(* The iterations of the three cases (the last of KEY192 after its loop).  *)
ExpandFrom(k) == IF k = "KEY256" THEN 2 ELSE 1
ExpandTo(k)   == CASE k = "KEY128" -> 10 [] k = "KEY192" -> 8 [] k = "KEY256" -> 14
-----------------------------------------------------------------------------
(* Xor128, also for the bytes of a last block that is shorter.             *)
Xor128(op1, op2) == [b \in 1 .. Len(op1) |-> Byte!Xor(op1[b], op2[b])]

(* ++ from the last byte, going on as long as a byte has become 0.         *)
Incr128(ptr) ==
    [b \in 1 .. 16 |->
        IF \A c \in b + 1 .. 16 : ptr[c] = 0 .. 7 THEN Byte!Add(ptr[b], {0}) ELSE ptr[b]]
=============================================================================
