--------------------------- MODULE Sha512Portable ---------------------------
(***************************************************************************)
(* hash/sha512/portable.c: the compression of one block by SHA-512 as the  *)
(* C code does it, in eight registers that are never moved (the macro Step *)
(* is called with its parameters rotated) and in sixteen words of message  *)
(* schedule that SCHEDULE replaces in place after every sixteen steps.     *)
(***************************************************************************)
EXTENDS Endian

INSTANCE Words WITH Bits <- 64

Rounds == 80

(* K0 .. K79 *)
K == LET digits == <<
        <<\h428a, \h2f98, \hd728, \hae22>>, <<\h7137, \h4491, \h23ef, \h65cd>>,
        <<\hb5c0, \hfbcf, \hec4d, \h3b2f>>, <<\he9b5, \hdba5, \h8189, \hdbbc>>,
        <<\h3956, \hc25b, \hf348, \hb538>>, <<\h59f1, \h11f1, \hb605, \hd019>>,
        <<\h923f, \h82a4, \haf19, \h4f9b>>, <<\hab1c, \h5ed5, \hda6d, \h8118>>,
        <<\hd807, \haa98, \ha303, \h0242>>, <<\h1283, \h5b01, \h4570, \h6fbe>>,
        <<\h2431, \h85be, \h4ee4, \hb28c>>, <<\h550c, \h7dc3, \hd5ff, \hb4e2>>,
        <<\h72be, \h5d74, \hf27b, \h896f>>, <<\h80de, \hb1fe, \h3b16, \h96b1>>,
        <<\h9bdc, \h06a7, \h25c7, \h1235>>, <<\hc19b, \hf174, \hcf69, \h2694>>,
        <<\he49b, \h69c1, \h9ef1, \h4ad2>>, <<\hefbe, \h4786, \h384f, \h25e3>>,
        <<\h0fc1, \h9dc6, \h8b8c, \hd5b5>>, <<\h240c, \ha1cc, \h77ac, \h9c65>>,
        <<\h2de9, \h2c6f, \h592b, \h0275>>, <<\h4a74, \h84aa, \h6ea6, \he483>>,
        <<\h5cb0, \ha9dc, \hbd41, \hfbd4>>, <<\h76f9, \h88da, \h8311, \h53b5>>,
        <<\h983e, \h5152, \hee66, \hdfab>>, <<\ha831, \hc66d, \h2db4, \h3210>>,
        <<\hb003, \h27c8, \h98fb, \h213f>>, <<\hbf59, \h7fc7, \hbeef, \h0ee4>>,
        <<\hc6e0, \h0bf3, \h3da8, \h8fc2>>, <<\hd5a7, \h9147, \h930a, \ha725>>,
        <<\h06ca, \h6351, \he003, \h826f>>, <<\h1429, \h2967, \h0a0e, \h6e70>>,
        <<\h27b7, \h0a85, \h46d2, \h2ffc>>, <<\h2e1b, \h2138, \h5c26, \hc926>>,
        <<\h4d2c, \h6dfc, \h5ac4, \h2aed>>, <<\h5338, \h0d13, \h9d95, \hb3df>>,
        <<\h650a, \h7354, \h8baf, \h63de>>, <<\h766a, \h0abb, \h3c77, \hb2a8>>,
        <<\h81c2, \hc92e, \h47ed, \haee6>>, <<\h9272, \h2c85, \h1482, \h353b>>,
        <<\ha2bf, \he8a1, \h4cf1, \h0364>>, <<\ha81a, \h664b, \hbc42, \h3001>>,
        <<\hc24b, \h8b70, \hd0f8, \h9791>>, <<\hc76c, \h51a3, \h0654, \hbe30>>,
        <<\hd192, \he819, \hd6ef, \h5218>>, <<\hd699, \h0624, \h5565, \ha910>>,
        <<\hf40e, \h3585, \h5771, \h202a>>, <<\h106a, \ha070, \h32bb, \hd1b8>>,
        <<\h19a4, \hc116, \hb8d2, \hd0c8>>, <<\h1e37, \h6c08, \h5141, \hab53>>,
        <<\h2748, \h774c, \hdf8e, \heb99>>, <<\h34b0, \hbcb5, \he19b, \h48a8>>,
        <<\h391c, \h0cb3, \hc5c9, \h5a63>>, <<\h4ed8, \haa4a, \he341, \h8acb>>,
        <<\h5b9c, \hca4f, \h7763, \he373>>, <<\h682e, \h6ff3, \hd6b2, \hb8a3>>,
        <<\h748f, \h82ee, \h5def, \hb2fc>>, <<\h78a5, \h636f, \h4317, \h2f60>>,
        <<\h84c8, \h7814, \ha1f0, \hab72>>, <<\h8cc7, \h0208, \h1a64, \h39ec>>,
        <<\h90be, \hfffa, \h2363, \h1e28>>, <<\ha450, \h6ceb, \hde82, \hbde9>>,
        <<\hbef9, \ha3f7, \hb2c6, \h7915>>, <<\hc671, \h78f2, \he372, \h532b>>,
        <<\hca27, \h3ece, \hea26, \h619c>>, <<\hd186, \hb8c7, \h21c0, \hc207>>,
        <<\heada, \h7dd6, \hcde0, \heb1e>>, <<\hf57d, \h4f7f, \hee6e, \hd178>>,
        <<\h06f0, \h67aa, \h7217, \h6fba>>, <<\h0a63, \h7dc5, \ha2c8, \h98a6>>,
        <<\h113f, \h9804, \hbef9, \h0dae>>, <<\h1b71, \h0b35, \h131c, \h471b>>,
        <<\h28db, \h77f5, \h2304, \h7d84>>, <<\h32ca, \hab7b, \h40c7, \h2493>>,
        <<\h3c9e, \hbe0a, \h15c9, \hbebc>>, <<\h431d, \h67c4, \h9c10, \h0d4c>>,
        <<\h4cc5, \hd4be, \hcb3e, \h42b6>>, <<\h597f, \h299c, \hfc65, \h7e2a>>,
        <<\h5fcb, \h6fab, \h3ad6, \hfaec>>, <<\h6c44, \h198c, \h4a47, \h5817>> >>
     IN  [t \in 0 .. Rounds - 1 |-> OfLimbs(digits[t + 1])]

CH(x, y, z)  == Xor(x \cap y, z \ x)
MAJ(x, y, z) == (x \cap (y \cup z)) \cup (y \cap z)

SIGB0(x) == Xor(Xor(RotateR(x, 28), RotateR(x, 34)), RotateR(x, 39))
SIGB1(x) == Xor(Xor(RotateR(x, 14), RotateR(x, 18)), RotateR(x, 41))
SIGS0(x) == Xor(Xor(RotateR(x, 1), RotateR(x, 8)), ShiftR(x, 7))
SIGS1(x) == Xor(Xor(RotateR(x, 19), RotateR(x, 61)), ShiftR(x, 6))

(* The macro Step(a,b,c,d,e,f,g,h,w,k): parameter j (a is 0) is the        *)
(* register p[j]; only d and h are written.                                *)
Step(reg, p, w, k) ==
    LET temp == Add(Add(Add(Add(reg[p[7]], SIGB1(reg[p[4]])),
                            CH(reg[p[4]], reg[p[5]], reg[p[6]])), k), w)
    IN  [reg EXCEPT ![p[3]] = Add(@, temp),
                    ![p[7]] = Add(Add(temp, SIGB0(reg[p[0]])),
                                  MAJ(reg[p[0]], reg[p[1]], reg[p[2]]))]

(* The t-th of the unrolled calls of Step: every call has the parameters   *)
(* of the one before rotated by one register.                              *)
StepAt(t, reg, w) == Step(reg, [j \in 0 .. 7 |-> (j - t) % 8], w[t % 16], K[t])

(* Statement i of SCHEDULE. *)
Schedule(i, w) ==
    [w EXCEPT ![i] = Add(Add(Add(@, SIGS1(w[(i + 14) % 16])), w[(i + 9) % 16]),
                         SIGS0(w[(i + 1) % 16]))]

(* The registers and the message words at the start of a block.            *)
Registers(hash) == hash
Load(host, bytes) ==
    LET mesg == ReadWords(host, 8, bytes)
    IN  [i \in 0 .. 15 |-> raaz_tobe64(host, mesg[i])]

(* hash[0] += a; ... hash[7] += h;                                         *)
Update(hash, reg) == [j \in 0 .. 7 |-> Add(hash[j], reg[j])]
=============================================================================
