--------------------------- MODULE StreamStandard ---------------------------
(***************************************************************************)
(* The blocks of key stream of Salsa20 and of ChaCha20 (RFC 7539), defined *)
(* on the rows, columns and diagonals of a matrix of 16 words.             *)
(***************************************************************************)
EXTENDS Integers, Sequences

Word == INSTANCE Words WITH Bits <- 32

(* Salsa20: a quarter round on four words, applied to the rows of a matrix *)
(* and of its transpose, each row turned to begin on the diagonal.         *)
Rot(x, n) == Word!RotateL(x, n)
QuarterRound(y) ==
  LET z1 == Word!Xor(y[2], Rot(Word!Add(y[1], y[4]), 7))
      z2 == Word!Xor(y[3], Rot(Word!Add(z1, y[1]), 9))
      z3 == Word!Xor(y[4], Rot(Word!Add(z2, z1), 13))
      z0 == Word!Xor(y[1], Rot(Word!Add(z3, z2), 18))
  IN  <<z0, z1, z2, z3>>
Turned(row, n) == [c \in 1 .. 4 |-> row[((c - 1 + n) % 4) + 1]]
Row(y, r) == SubSeq(y, 4 * r + 1, 4 * r + 4)
RowRound(y) ==
  LET z(r) == Turned(QuarterRound(Turned(Row(y, r), r)), -r)
  IN  z(0) \o z(1) \o z(2) \o z(3)
Transposed(y) == [j \in 1 .. 16 |-> y[4 * ((j - 1) % 4) + ((j - 1) \div 4) + 1]]
DoubleRound(y) == RowRound(Transposed(RowRound(Transposed(y))))

(* ChaCha20 (RFC 7539, 2.1 to 2.3): columns, then diagonals.               *)
ChaChaQuarter(y) ==
  LET Half(v, m, n) ==
        LET a == Word!Add(v[1], v[2])   d == Rot(Word!Xor(v[4], a), m)
            c == Word!Add(v[3], d)      b == Rot(Word!Xor(v[2], c), n)
        IN  <<a, b, c, d>>
  IN  Half(Half(y, 16, 12), 8, 7)
(* Column c, from 0, or the diagonal that begins there.                    *)
Lines(y, turn) ==
  LET p(c, r) == 4 * r + ((c + turn * r) % 4) + 1
      q == [c \in 0 .. 3 |-> ChaChaQuarter(<<y[p(c, 0)], y[p(c, 1)], y[p(c, 2)], y[p(c, 3)]>>)]
      row(r) == Turned(<<q[0][r + 1], q[1][r + 1], q[2][r + 1], q[3][r + 1]>>, -(turn * r))
  IN  row(0) \o row(1) \o row(2) \o row(3)
ChaChaDouble(y) == Lines(Lines(y, 0), 1)

AddWords(x, y) == [j \in 1 .. 16 |-> Word!Add(x[j], y[j])]
LittleEndian(x) ==
  [b \in 1 .. 64 |-> {p \in 0 .. 7 : 8 * ((b - 1) % 4) + p \in x[(b - 1) \div 4 + 1]}]

(* Word n, from 0, of a string of bytes.                                   *)
WordOf(s, n) == UNION {{8 * k + p : p \in s[4 * n + k + 1]} : k \in 0 .. 3}

(* "expand 32-byte k" and "expand 16-byte k".                              *)
Sigma(size) ==
  LET letters == <<101, 120, 112, 97, 110, 100, 32, 48 + (size \div 10), 48 + (size % 10),
                   45, 98, 121, 116, 101, 32, 107>>
  IN  [k \in 1 .. 16 |-> Word!OfNat(letters[k])]

(* counter is a word of 64 bits, of which ChaCha20 has the lower 32.       *)
Lower(counter) == {p \in counter : p < 32}
Upper(counter) == {p - 32 : p \in counter \ Lower(counter)}

ChaChaMatrix(key, nonce, counter) ==
  [j \in 1 .. 4 |-> WordOf(Sigma(32), j - 1)] \o [j \in 1 .. 8 |-> WordOf(key, j - 1)]
  \o <<Lower(counter)>> \o [j \in 1 .. 3 |-> WordOf(nonce, j - 1)]

(* The constants are on the diagonal; a key of 16 bytes is used twice.     *)
SalsaMatrix(key, nonce, counter) ==
  LET k(n) == WordOf(key, n % (Len(key) \div 4))
      c(n) == WordOf(Sigma(Len(key)), n)
  IN  << c(0), k(0), k(1), k(2),
         k(3), c(1), WordOf(nonce, 0), WordOf(nonce, 1),
         Lower(counter), Upper(counter), c(2), k(4),
         k(5), k(6), k(7), c(3) >>
=============================================================================
