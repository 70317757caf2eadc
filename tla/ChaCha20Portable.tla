-------------------------- MODULE ChaCha20Portable --------------------------
(***************************************************************************)
(* cipher/chacha20/common.h and cportable.c.  The matrix is held in the    *)
(* registers x0 .. x15, a function on 0 .. 15.                             *)
(***************************************************************************)
EXTENDS Endian

INSTANCE Words WITH Bits <- 32

C0 == OfLimbs(<<\h6170, \h7865>>)
C1 == OfLimbs(<<\h3320, \h646e>>)
C2 == OfLimbs(<<\h7962, \h2d32>>)
C3 == OfLimbs(<<\h6b20, \h6574>>)

R(x, i) == ShiftL(x, i) \cup ShiftR(x, 32 - i)

QROUND(x, a, b, c, d) ==
    LET a1 == Add(x[a], x[b])  d1 == R(Xor(x[d], a1), 16)
        c1 == Add(x[c], d1)    b1 == R(Xor(x[b], c1), 12)
        a2 == Add(a1, b1)      d2 == R(Xor(d1, a2), 8)
        c2 == Add(c1, d2)      b2 == R(Xor(b1, c2), 7)
    IN  [x EXCEPT ![a] = a2, ![b] = b2, ![c] = c2, ![d] = d2]

Quadruples ==
    << <<0, 4,  8, 12>>, <<1, 5,  9, 13>>, <<2, 6, 10, 14>>, <<3, 7, 11, 15>>,
       <<0, 5, 10, 15>>, <<1, 6, 11, 12>>, <<2, 7,  8, 13>>, <<3, 4,  9, 14>> >>

ROUND(x) ==
    LET After[n \in 0 .. 8] ==
          IF n = 0 THEN x
          ELSE LET q == Quadruples[n] IN QROUND(After[n - 1], q[1], q[2], q[3], q[4])
    IN  After[8]

Start(key, iv, valCtr) ==
    [j \in 0 .. 15 |->
        CASE j < 4  -> <<C0, C1, C2, C3>>[j + 1]
          [] j \in 4 .. 11 -> key[j - 3]
          [] j = 12 -> valCtr
          [] j > 12 -> iv[j - 12]]

(* After ten ROUNDs the registers are added to what they were. *)
AddStart(x, key, iv, valCtr) ==
    [j \in 0 .. 15 |-> Add(x[j], Start(key, iv, valCtr)[j])]

(* Broken variant: the key stream is xored in the order of the host.       *)
XORHostOrder(host, msg, x) ==
    [b \in 1 .. Len(msg) |->
        Xor(msg[b], BytesOf(host, 4, x[(b - 1) \div 4])[((b - 1) % 4) + 1])]

(* Word i of msg, as the host has it, is xored with raaz_tole32(x_i).      *)
XOR(host, msg, x) ==
    [b \in 1 .. Len(msg) |->
        LET i == (b - 1) \div 4
            a == BytesOf(host, 4, raaz_tole32(host, x[i]))
        IN  Xor(msg[b], a[((b - 1) % 4) + 1])]
=============================================================================
