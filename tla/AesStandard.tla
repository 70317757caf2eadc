---------------------------- MODULE AesStandard ----------------------------
(***************************************************************************)
(* AES as FIPS 197 defines it: arithmetic in GF(2^8) on a state of 16      *)
(* bytes, which are matrices column by column.  There are no tables.       *)
(***************************************************************************)
EXTENDS Integers, Sequences

Byte == INSTANCE Words WITH Bits <- 8

(* GF(2^8): a byte is a polynomial, 0x1b stands for x^8. *)
Double(b) == Byte!Xor(Byte!ShiftL(b, 1), IF 7 \in b THEN {0, 1, 3, 4} ELSE {})
Times(a, b) ==
  LET Power[n \in 0 .. 7] == IF n = 0 THEN b ELSE Double(Power[n - 1])
      Sum[n \in 0 .. 8] == IF n = 0 THEN {}
                           ELSE IF n - 1 \in a THEN Byte!Xor(Sum[n - 1], Power[n - 1])
                           ELSE Sum[n - 1]
  IN  Sum[8]

(* The inverse in the field, which is b^254, and 0 for 0.                  *)
Inverse(b) ==
  LET Square[n \in 0 .. 7] == IF n = 0 THEN b ELSE LET s == Square[n - 1] IN Times(s, s)
      Product[n \in 1 .. 7] == IF n = 1 THEN Square[1] ELSE Times(Product[n - 1], Square[n])
  IN  Product[7]

(* The S-box: the inverse, then an affine map; and back.                   *)
Affine(b, places, c) ==
  LET parity(i) == LET bits == [n \in DOMAIN places |-> (i - places[n]) % 8 \in b]
                       Odd[n \in 0 .. Len(places)] == n > 0 /\ (bits[n] # Odd[n - 1])
                   IN  Odd[Len(places)]
  IN  {i \in 0 .. 7 : parity(i) # (i \in c)}
SBox(b)    == Affine(Inverse(b), <<0, 1, 2, 3, 4>>, {0, 1, 5, 6})
InvSBox(b) == Inverse(Affine(b, <<1, 3, 6>>, {0, 2}))

XorBytes(a, b) == [i \in DOMAIN a |-> Byte!Xor(a[i], b[i])]

XorWord(a, b) ==
  <<Byte!Xor(a[1], b[1]), Byte!Xor(a[2], b[2]), Byte!Xor(a[3], b[3]), Byte!Xor(a[4], b[4])>>

(* FIPS 197, 5.2: the columns of the expanded key.                         *)
RoundKeys(key) ==
  LET Nk == Len(key) \div 4
      Nr == Nk + 6
      Rcon[n \in 1 .. 10] == IF n = 1 THEN {0} ELSE Double(Rcon[n - 1])
      SubWord(w) == <<SBox(w[1]), SBox(w[2]), SBox(w[3]), SBox(w[4])>>
      RotWord(w) == <<w[2], w[3], w[4], w[1]>>
      Next(w) ==
        LET i == Len(w)
            u == IF i % Nk = 0
                 THEN LET v == SubWord(RotWord(w[i])) IN [v EXCEPT ![1] = Byte!Xor(@, Rcon[i \div Nk])]
                 ELSE IF Nk > 6 /\ i % Nk = 4 THEN SubWord(w[i]) ELSE w[i]
        IN  Append(w, XorWord(w[i + 1 - Nk], u))
      Columns[n \in Nk .. 4 * (Nr + 1)] ==
        IF n = Nk THEN [i \in 1 .. Nk |-> SubSeq(key, 4 * i - 3, 4 * i)]
        ELSE Next(Columns[n - 1])
      w == Columns[4 * (Nr + 1)]
  IN  [r \in 0 .. Nr |-> w[4 * r + 1] \o w[4 * r + 2] \o w[4 * r + 3] \o w[4 * r + 4]]

(* The byte of column c, row r (both from 0) is byte 4 c + r + 1.          *)
OfMatrix(f(_, _)) ==
  LET column(c) == <<f(c, 0), f(c, 1), f(c, 2), f(c, 3)>>
  IN  column(0) \o column(1) \o column(2) \o column(3)
At(s, c, r) == s[4 * (c % 4) + r + 1]
SubBytes(box(_), s) == [b \in 1 .. 16 |-> box(s[b])]
ShiftRows(s, sign) == OfMatrix(LAMBDA c, r : At(s, c + sign * r, r))
MixColumns(s, m) ==   \* m is the first row of the matrix, the others are turned
  OfMatrix(LAMBDA c, r :
    LET T(k) == Times(m[((k - r) % 4) + 1], At(s, c, k))
    IN  Byte!Xor(Byte!Xor(T(0), T(1)), Byte!Xor(T(2), T(3))))
Forward  == << {1}, {0, 1}, {0}, {0} >>                \* 2 3 1 1
Backward == << {1, 2, 3}, {0, 1, 3}, {0, 2, 3}, {0, 3} >>   \* e b d 9

(* FIPS 197, 5.1 and 5.3: round n of Nr; the last mixes no columns.        *)
Cipher(k, s, n, Nr) ==
  LET t == ShiftRows(SubBytes(SBox, s), 1)
  IN  XorBytes(IF n = Nr THEN t ELSE MixColumns(t, Forward), k[n])
InvCipher(k, s, n, Nr) ==
  LET t == XorBytes(SubBytes(InvSBox, ShiftRows(s, -1)), k[Nr - n])
  IN  IF n = Nr THEN t ELSE MixColumns(t, Backward)
=============================================================================
