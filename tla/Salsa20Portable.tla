--------------------------- MODULE Salsa20Portable ---------------------------
(***************************************************************************)
(* cipher/cportable/salsa20.c.  The matrix is a function on 0 .. 15.  The  *)
(* file xors the words of the key stream in the order of the host; it is   *)
(* modelled for little endian hosts, where that order is Salsa20's.        *)
(***************************************************************************)
EXTENDS Endian

INSTANCE Words WITH Bits <- 32

R(a, b) == RotateL(a, b)

(* The assignments of SalsaRound in their order: x[p] ^= R(x[q] + x[r], n). *)
Assignments == <<
    << 4,  0, 12,  7>>, << 8,  4,  0,  9>>, <<12,  8,  4, 13>>, << 0, 12,  8, 18>>,
    << 9,  5,  1,  7>>, <<13,  9,  5,  9>>, << 1, 13,  9, 13>>, << 5,  1, 13, 18>>,
    <<14, 10,  6,  7>>, << 2, 14, 10,  9>>, << 6,  2, 14, 13>>, <<10,  6,  2, 18>>,
    << 3, 15, 11,  7>>, << 7,  3, 15,  9>>, <<11,  7,  3, 13>>, <<15, 11,  7, 18>>,
    << 1,  0,  3,  7>>, << 2,  1,  0,  9>>, << 3,  2,  1, 13>>, << 0,  3,  2, 18>>,
    << 6,  5,  4,  7>>, << 7,  6,  5,  9>>, << 4,  7,  6, 13>>, << 5,  4,  7, 18>>,
    <<11, 10,  9,  7>>, << 8, 11, 10,  9>>, << 9,  8, 11, 13>>, <<10,  9,  8, 18>>,
    <<12, 15, 14,  7>>, <<13, 12, 15,  9>>, <<14, 13, 12, 13>>, <<15, 14, 13, 18>> >>

SalsaRound(x) ==
    LET After[n \in 0 .. 32] ==
          IF n = 0 THEN x
          ELSE LET s == Assignments[n]
                   y == After[n - 1]
               IN  [y EXCEPT ![s[1]] = Xor(@, R(Add(y[s[2]], y[s[3]]), s[4]))]
    IN  After[32]

(* to += from *)
Add16(to, from) == [j \in 0 .. 15 |-> Add(to[j], from[j])]

(* The constants, and iv word i of the key, the nonce and the counter, the *)
(* order in which the functions take them.                                 *)
Constants(third, fourth) ==
    [j \in {0, 5, 10, 15} |->
        CASE j = 0  -> OfLimbs(<<\h6170, \h7865>>)
          [] j = 5  -> OfLimbs(<<third, \h646e>>)
          [] j = 10 -> OfLimbs(<<\h7962, fourth>>)
          [] j = 15 -> OfLimbs(<<\h6b20, \h6574>>)]

expand128(iv) ==
    [j \in 0 .. 15 |->
        CASE j \in {0, 5, 10, 15} -> Constants(\h3120, \h2d36)[j]
          [] j \in 1 .. 4   -> iv[j]
          [] j \in 6 .. 9   -> iv[j - 1]
          [] j \in 11 .. 14 -> iv[j - 10]]

expand256(iv) ==
    [j \in 0 .. 15 |->
        CASE j \in {0, 5, 10, 15} -> Constants(\h3320, \h2d32)[j]
          [] j \in 1 .. 4   -> iv[j]
          [] j \in 6 .. 9   -> iv[j + 3]
          [] j \in 11 .. 14 -> iv[j - 6]]

incrCounter(matrix) ==
    LET m == [matrix EXCEPT ![8] = Add(@, {0})]
    IN  IF m[8] = {} THEN [m EXCEPT ![9] = Add(@, {0})] ELSE m

(* The words of output xored over the bytes of input. *)
XorOutput(input, output) ==
    [b \in 1 .. Len(input) |-> Xor(input[b], ByteAt(output[(b - 1) \div 4], (b - 1) % 4))]
=============================================================================
