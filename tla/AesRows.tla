------------------------------ MODULE AesRows ------------------------------
(***************************************************************************)
(* cipher/aes/common.h, common.c and cportable.c: AES on the rows of the   *)
(* state matrix, four words of 32 bits, the byte of the first column being *)
(* the most significant of a row.  The key is expanded by columns and then *)
(* transposed.                                                             *)
(***************************************************************************)
EXTENDS AesTables, Endian

INSTANCE Words WITH Bits <- 32

(* B0 .. B3 are ByteAt, MkW is MK of the bytes, most significant first.    *)
SubWord(box, r, shift) == MK([k \in 1 .. 4 |-> box[ByteAt(r, (4 - k - shift) % 4)]])

(* SBoxWord, SBoxWordShift8, ...Shift16 and ...Shift24 on the four rows,   *)
(* and the inverses, which shift the other way.                            *)
SubBytesAndShift(s)    == [j \in 0 .. 3 |-> SubWord(sbox, s[j], j)]
InvSubBytesAndShift(s) == [j \in 0 .. 3 |-> SubWord(inv_sbox, s[j], -j)]

(* Every byte of the row times 2: ((r >> 7) & 0x01010101) * 0x1b has 0x1b  *)
(* in each byte whose top bit was set.                                     *)
Mult02(r) ==
    Xor({i \in ShiftL(r, 1) : i % 8 # 0},
        UNION {{8 * b + p : p \in {0, 1, 3, 4}} : b \in {x \in 0 .. 3 : 8 * x + 7 \in r}})

XOR(n, r) == [j \in 0 .. 3 |-> Xor(n[j], r[j])]
AddRoundKey(s, key) == XOR(s, key)

(* MixColumns(n,r): the rows of n; r##j is doubled in passing.             *)
MixColumns(r) ==
    LET d == [j \in 0 .. 3 |-> Mult02(r[j])]
    IN  [j \in 0 .. 3 |->
            Xor(Xor(Xor(r[(j + 1) % 4], r[(j + 2) % 4]), r[(j + 3) % 4]),
                Xor(d[j], d[(j + 1) % 4]))]

(* InvMixColumns(n,r) goes on from there with r0 ^ r2 and r1 ^ r3.         *)
InvMixColumns(r) ==
    LET n  == MixColumns(r)
        d  == [j \in 0 .. 3 |-> Mult02(r[j])]
        e0 == Mult02(Xor(d[0], d[2]))
        e1 == Mult02(Xor(d[1], d[3]))
        f  == Xor(Mult02(e0), Mult02(e1))
    IN  [j \in 0 .. 3 |-> Xor(Xor(n[j], IF j % 2 = 0 THEN e0 ELSE e1), f)]

(* The rows of a block of 16 bytes, which come column by column, and back. *)
Load(block) ==
    [j \in 0 .. 3 |-> MK(<<block[j + 1], block[j + 5], block[j + 9], block[j + 13]>>)]
Store(s) ==
    [k \in 1 .. 16 |-> ByteAt(s[(k - 1) % 4], 3 - ((k - 1) \div 4))]

(* eKey[r], the rows of a round key.                                       *)
RoundKey(eKey, r) == [j \in 0 .. 3 |-> eKey[4 * r + j + 1]]

(* ENCRYPT and DECRYPT: the first key, round r and what follows the loop.  *)
EncryptStart(eKey, state, nRounds) == AddRoundKey(state, RoundKey(eKey, 0))
EncryptRound(eKey, state, r, nRounds) ==
    LET s == SubBytesAndShift(state)
    IN  AddRoundKey(IF r = nRounds THEN s ELSE MixColumns(s), RoundKey(eKey, r))

DecryptStart(eKey, state, nRounds) == AddRoundKey(state, RoundKey(eKey, nRounds))
DecryptRound(eKey, state, r, nRounds) ==
    LET s == AddRoundKey(InvSubBytesAndShift(state), RoundKey(eKey, nRounds - r))
    IN  IF r = nRounds THEN s ELSE InvMixColumns(s)

Nr(Nk) == CASE Nk = 4 -> 10 [] Nk = 6 -> 12 [] Nk = 8 -> 14

(* raazAESExpand: the caller has put the Nk columns of the key in front    *)
(* (the bytes of a column as a big endian word); iteration i of the loop   *)
(* writes eKey[i].                                                         *)
KeyColumns(Nk, key) ==
    [i \in 1 .. Nk |-> MK(SubSeq(key, 4 * i - 3, 4 * i))]
ExpandColumn(Nk, eKey) ==
    LET i    == Len(eKey)
        prev == eKey[i]                 \* eKey[i-1], counting from 0
        temp == IF i % Nk = 0
                THEN Xor(RotateL(SubWord(sbox, prev, 0), 8), rcon[i \div Nk])
                ELSE IF Nk > 6 /\ i % Nk = 4 THEN SubWord(sbox, prev, 0)
                ELSE prev
    IN  Append(eKey, Xor(eKey[i - Nk + 1], temp))

(* raazAESTranspose on all matrices: columns become rows.                  *)
Transpose(eKey) ==
    [k \in 1 .. Len(eKey) |->
        LET m == 4 * ((k - 1) \div 4)   \* the matrix of word k
        IN  MK([c \in 1 .. 4 |-> ByteAt(eKey[m + c], 3 - ((k - 1) % 4))])]
=============================================================================
