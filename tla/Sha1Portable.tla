---------------------------- MODULE Sha1Portable ----------------------------
(***************************************************************************)
(* hash/sha1/portable.c: the compression of one block by SHA-1 as the C    *)
(* code does it, in five registers that are never moved and in sixteen     *)
(* words of message schedule replaced in place every sixteen steps.        *)
(***************************************************************************)
EXTENDS Endian

INSTANCE Words WITH Bits <- 32

Rounds == 80

(* K0, K20, K40, K60 *)
K == LET digits == << <<\h5a82, \h7999>>, <<\h6ed9, \heba1>>,
                      <<\h8f1b, \hbcdc>>, <<\hca62, \hc1d6>> >>
     IN  [q \in 0 .. 3 |-> OfLimbs(digits[q + 1])]

CH(x, y, z)     == Xor(x \cap y, z \ x)
PARITY(x, y, z) == Xor(Xor(x, y), z)
MAJ(x, y, z)    == (x \cap (y \cup z)) \cup (y \cap z)

(* F0, F20, F40, F60 *)
F(q, x, y, z) == IF q = 0 THEN CH(x, y, z)
                 ELSE IF q = 2 THEN MAJ(x, y, z) ELSE PARITY(x, y, z)

(* The macro Step(a,b,c,d,e,w) in quarter q of the steps (K and F are      *)
(* redefined at steps 20, 40 and 60): parameter j (a is 0) is the register *)
(* p[j]; only b and e are written.                                         *)
Step(q, reg, p, w) ==
    [reg EXCEPT ![p[4]] = Add(Add(Add(Add(@, RotateL(reg[p[0]], 5)),
                                      F(q, reg[p[1]], reg[p[2]], reg[p[3]])), K[q]), w),
                ![p[1]] = RotateL(@, 30)]

(* The t-th of the unrolled calls of Step. *)
StepAt(t, reg, w) == Step(t \div 20, reg, [j \in 0 .. 4 |-> (j - t) % 5], w[t % 16])

(* The two statements of SCHEDULE on word i. *)
Schedule(i, w) ==
    [w EXCEPT ![i] = RotateL(Xor(@, Xor(Xor(w[(i + 13) % 16], w[(i + 8) % 16]),
                                        w[(i + 2) % 16])), 1)]

(* The registers and the message words at the start of a block.            *)
Registers(hash) == hash
Load(host, bytes) ==
    LET mesg == ReadWords(host, 4, bytes)
    IN  [i \in 0 .. 15 |-> raaz_tobe32(host, mesg[i])]

(* hash[0] += a; ... hash[4] += e;                                         *)
Update(hash, reg) == [j \in 0 .. 4 |-> Add(hash[j], reg[j])]
=============================================================================
