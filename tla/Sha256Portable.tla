--------------------------- MODULE Sha256Portable ---------------------------
(***************************************************************************)
(* hash/sha256/portable.c: the compression of one block by SHA-256 as the  *)
(* C code does it, in eight registers that are never moved (the macro Step *)
(* is called with its parameters rotated) and in sixteen words of message  *)
(* schedule that SCHEDULE replaces in place after every sixteen steps.     *)
(***************************************************************************)
EXTENDS Endian

INSTANCE Words WITH Bits <- 32

Rounds == 64

(* K0 .. K63 *)
K == LET digits == <<
        <<\h428a, \h2f98>>, <<\h7137, \h4491>>, <<\hb5c0, \hfbcf>>, <<\he9b5, \hdba5>>,
        <<\h3956, \hc25b>>, <<\h59f1, \h11f1>>, <<\h923f, \h82a4>>, <<\hab1c, \h5ed5>>,
        <<\hd807, \haa98>>, <<\h1283, \h5b01>>, <<\h2431, \h85be>>, <<\h550c, \h7dc3>>,
        <<\h72be, \h5d74>>, <<\h80de, \hb1fe>>, <<\h9bdc, \h06a7>>, <<\hc19b, \hf174>>,
        <<\he49b, \h69c1>>, <<\hefbe, \h4786>>, <<\h0fc1, \h9dc6>>, <<\h240c, \ha1cc>>,
        <<\h2de9, \h2c6f>>, <<\h4a74, \h84aa>>, <<\h5cb0, \ha9dc>>, <<\h76f9, \h88da>>,
        <<\h983e, \h5152>>, <<\ha831, \hc66d>>, <<\hb003, \h27c8>>, <<\hbf59, \h7fc7>>,
        <<\hc6e0, \h0bf3>>, <<\hd5a7, \h9147>>, <<\h06ca, \h6351>>, <<\h1429, \h2967>>,
        <<\h27b7, \h0a85>>, <<\h2e1b, \h2138>>, <<\h4d2c, \h6dfc>>, <<\h5338, \h0d13>>,
        <<\h650a, \h7354>>, <<\h766a, \h0abb>>, <<\h81c2, \hc92e>>, <<\h9272, \h2c85>>,
        <<\ha2bf, \he8a1>>, <<\ha81a, \h664b>>, <<\hc24b, \h8b70>>, <<\hc76c, \h51a3>>,
        <<\hd192, \he819>>, <<\hd699, \h0624>>, <<\hf40e, \h3585>>, <<\h106a, \ha070>>,
        <<\h19a4, \hc116>>, <<\h1e37, \h6c08>>, <<\h2748, \h774c>>, <<\h34b0, \hbcb5>>,
        <<\h391c, \h0cb3>>, <<\h4ed8, \haa4a>>, <<\h5b9c, \hca4f>>, <<\h682e, \h6ff3>>,
        <<\h748f, \h82ee>>, <<\h78a5, \h636f>>, <<\h84c8, \h7814>>, <<\h8cc7, \h0208>>,
        <<\h90be, \hfffa>>, <<\ha450, \h6ceb>>, <<\hbef9, \ha3f7>>, <<\hc671, \h78f2>> >>
     IN  [t \in 0 .. Rounds - 1 |-> OfLimbs(digits[t + 1])]

CH(x, y, z)  == Xor(x \cap y, z \ x)
MAJ(x, y, z) == (x \cap (y \cup z)) \cup (y \cap z)

SIGB0(x) == Xor(Xor(RotateR(x, 2), RotateR(x, 13)), RotateR(x, 22))
SIGB1(x) == Xor(Xor(RotateR(x, 6), RotateR(x, 11)), RotateR(x, 25))
SIGS0(x) == Xor(Xor(RotateR(x, 7), RotateR(x, 18)), ShiftR(x, 3))
SIGS1(x) == Xor(Xor(RotateR(x, 17), RotateR(x, 19)), ShiftR(x, 10))

(* The macro Step(a,b,c,d,e,f,g,h,w,k): parameter j (a is 0) is the        *)
(* register p[j]; only d and h are written.                                *)
Step(reg, p, w, k) ==
    LET temp == Add(Add(Add(Add(reg[p[7]], SIGB1(reg[p[4]])),
                            CH(reg[p[4]], reg[p[5]], reg[p[6]])), k), w)
    IN  [reg EXCEPT ![p[3]] = Add(@, temp),
                    ![p[7]] = Add(Add(temp, SIGB0(reg[p[0]])),
                                  MAJ(reg[p[0]], reg[p[1]], reg[p[2]]))]

(* The t-th of the unrolled calls of Step: every call has the parameters   *)
(* of the one before rotated by one register.                              *)
StepAt(t, reg, w) == Step(reg, [j \in 0 .. 7 |-> (j - t) % 8], w[t % 16], K[t])

(* Statement i of SCHEDULE. *)
Schedule(i, w) ==
    [w EXCEPT ![i] = Add(Add(Add(@, SIGS1(w[(i + 14) % 16])), w[(i + 9) % 16]),
                         SIGS0(w[(i + 1) % 16]))]

(* The registers and the message words at the start of a block.            *)
Registers(hash) == hash
Load(host, bytes) ==
    LET mesg == ReadWords(host, 4, bytes)
    IN  [i \in 0 .. 15 |-> raaz_tobe32(host, mesg[i])]

(* hash[0] += a; ... hash[7] += h;                                         *)
Update(hash, reg) == [j \in 0 .. 7 |-> Add(hash[j], reg[j])]
=============================================================================
