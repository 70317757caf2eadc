----------------------------- MODULE CipherJobs -----------------------------
(***************************************************************************)
(* Texts for the portable ciphers: the examples of NIST SP 800-38A for the *)
(* modes of AES with keys of three lengths, those of RFC 7539 that the     *)
(* test tests/Raaz/Cipher/ChaCha20Spec.hs has, eSTREAM's for Salsa20, and  *)
(* texts on which a counter wraps and which end in the middle of a block.  *)
(***************************************************************************)
EXTENDS Integers, Sequences

Byte == INSTANCE Words WITH Bits <- 8

(* Bytes written as digits of 16 bits, and cut into blocks.                *)
Bytes(digits) ==
  [b \in 1 .. 2 * Len(digits) |->
     LET d == digits[(b + 1) \div 2] IN Byte!OfNat(IF b % 2 = 1 THEN d \div 256 ELSE d % 256)]
Cut(n, s) ==
  [b \in 1 .. (Len(s) + n - 1) \div n |->
     SubSeq(s, n * (b - 1) + 1, IF n * b < Len(s) THEN n * b ELSE Len(s))]
Zeros(n) == [b \in 1 .. n |-> {}]
Text(digits) == Cut(16, Bytes(digits))

Little == [order |-> "little", gnuc |-> TRUE, swap |-> "platform"]

AesJob(l, mode, encrypt, key, iv0, in, out) ==
  [lib |-> l, cipher |-> "aes", mode |-> mode, encrypt |-> encrypt, host |-> Little,
   key |-> key, iv |-> iv0, text |-> in, known |-> out # << >>, expected |-> out,
   counter |-> {}, rounds |-> 0]

Key == [bits \in {128, 192, 256} |->
  Bytes(CASE bits = 128 -> <<\h2b7e, \h1516, \h28ae, \hd2a6, \habf7, \h1588, \h09cf, \h4f3c>>
          [] bits = 192 -> <<\h8e73, \hb0f7, \hda0e, \h6452, \hc810, \hf32b, \h8090, \h79e5, \h62f8, \head2, \h522c, \h6b7b>>
          [] bits = 256 -> <<\h603d, \heb10, \h15ca, \h71be, \h2b73, \haef0, \h857d, \h7781, \h1f35, \h2c07, \h3b61, \h08d7, \h2d98, \h10a3, \h0914, \hdff4>>)]
Counting == Bytes(<<\h0001, \h0203, \h0405, \h0607, \h0809, \h0a0b, \h0c0d, \h0e0f>>)

(* The blocks of the examples and their encryption. *)
Plain(n) == SubSeq(Text(
  << \h6bc1, \hbee2, \h2e40, \h9f96, \he93d, \h7e11, \h7393, \h172a, \hae2d, \h8a57, \h1e03,
     \hac9c, \h9eb7, \h6fac, \h45af, \h8e51, \h30c8, \h1c46, \ha35c, \he411, \he5fb, \hc119,
     \h1a0a, \h52ef >>), 1, n)
CBC == [bits \in {128, 192, 256} |->
  Text(CASE bits = 128 ->
           << \h7649, \habac, \h8119, \hb246, \hcee9, \h8e9b, \h12e9, \h197d, \h5086, \hcb9b, \h5072,
              \h19ee, \h95db, \h113a, \h9176, \h78b2, \h73be, \hd6b8, \he3c1, \h743b, \h7116, \he69e,
              \h2222, \h9516 >>
         [] bits = 192 ->
           << \h4f02, \h1db2, \h43bc, \h633d, \h7178, \h183a, \h9fa0, \h71e8, \hb4d9, \hada9, \had7d,
              \hedf4, \he5e7, \h3876, \h3f69, \h145a >>
         [] bits = 256 ->
           << \hf58c, \h4c04, \hd6e5, \hf1ba, \h779e, \habfb, \h5f7b, \hfbd6, \h9cfc, \h4e96, \h7edb,
              \h808d, \h679f, \h777b, \hc670, \h2c7d >>)]
ECB == Text(
  << \hbd33, \h4f1d, \h6e45, \hf25f, \hf712, \ha214, \h571f, \ha5cc, \h9741, \h0484, \h6d0a,
     \hd3ad, \h7734, \hecb3, \hecee, \h4eef >>)
CTR == Text(
  << \h874d, \h6191, \hb620, \he326, \h1bef, \h6864, \h990d, \hb6ce, \h9806, \hf66b, \h7970,
     \hfdff, \h8617, \h187b, \hb9ff, \hfdff, \h5ae4, \hdf3e, \hdbd5, \hd35e, \h5b4f, \h0902,
     \h0db0, \h3eab >>)
CTRStart == Bytes(<<\hf0f1, \hf2f3, \hf4f5, \hf6f7, \hf8f9, \hfafb, \hfcfd, \hfeff>>)
Wrapping == [b \in 1 .. 16 |-> 0 .. 7]

Aes ==
  {AesJob("rows", "cbc", TRUE, Key[bits], Counting, Plain(Len(CBC[bits])), CBC[bits]) : bits \in {128, 256}} \cup
  {AesJob("rows", "cbc", FALSE, Key[192], Counting, CBC[192], Plain(2))} \cup
  {AesJob("portable", "ecb", TRUE, Key[192], Zeros(16), Plain(2), ECB),
   AesJob("portable", "cbc", TRUE, Key[128], Counting, Plain(3), CBC[128]),
   AesJob("portable", "cbc", FALSE, Key[256], Counting, CBC[256], Plain(2)),
   AesJob("portable", "stream", TRUE, Key[128], CTRStart, Plain(3), CTR),
   AesJob("portable", "stream", TRUE, Key[192], Wrapping, Cut(16, Zeros(37)), << >>)}

ChaChaJob(host, key, iv0, counter, in, out) ==
  [lib |-> "chacha20", cipher |-> "chacha20", mode |-> "stream", encrypt |-> TRUE, host |-> host,
   key |-> key, iv |-> iv0, text |-> Cut(64, in), known |-> out # << >>, expected |-> Cut(64, out),
   counter |-> counter, rounds |-> 20]

(* "Ladies and Gentlemen of the class of '99: If I could offer you only ..." *)
Ladies == Bytes(
  << \h4c61, \h6469, \h6573, \h2061, \h6e64, \h2047, \h656e, \h746c, \h656d, \h656e, \h206f,
     \h6620, \h7468, \h6520, \h636c, \h6173, \h7320, \h6f66, \h2027, \h3939, \h3a20, \h4966,
     \h2049, \h2063, \h6f75, \h6c64, \h206f, \h6666, \h6572, \h2079, \h6f75, \h206f, \h6e6c,
     \h7920, \h6f6e, \h6520, \h7469, \h7020, \h666f, \h7220, \h7468, \h6520, \h6675, \h7475,
     \h7265, \h2c20, \h7375, \h6e73, \h6372, \h6565, \h6e20, \h776f, \h756c, \h6420, \h6265,
     \h2069, \h742e >>)
LadiesEncrypted == Bytes(
  << \h6e2e, \h359a, \h2568, \hf980, \h41ba, \h0728, \hdd0d, \h6981, \he97e, \h7aec, \h1d43,
     \h60c2, \h0a27, \hafcc, \hfd9f, \hae0b, \hf91b, \h65c5, \h5247, \h33ab, \h8f59, \h3dab,
     \hcd62, \hb357, \h1639, \hd624, \he651, \h52ab, \h8f53, \h0c35, \h9f08, \h61d8, \h07ca,
     \h0dbf, \h500d, \h6a61, \h56a3, \h8e08, \h8a22, \hb65e, \h52bc, \h514d, \h16cc, \hf806,
     \h818c, \he91a, \hb779, \h3736, \h5af9, \h0bbf, \h74a3, \h5be6, \hb40b, \h8eed, \hf278,
     \h5e42, \h874d >>)
ZeroStream == Bytes(
  << \h76b8, \he0ad, \ha0f1, \h3d90, \h405d, \h6ae5, \h5386, \hbd28, \hbdd2, \h19b8, \ha08d,
     \hed1a, \ha836, \hefcc, \h8b77, \h0dc7, \hda41, \h597c, \h5157, \h488d, \h7724, \he03f,
     \hb8d8, \h4a37, \h6a43, \hb8f4, \h1518, \ha11c, \hc387, \hb669, \hb2ee, \h6586, \h9f07,
     \he7be, \h5551, \h387a, \h98ba, \h977c, \h732d, \h080d, \hcb0f, \h29a0, \h48e3, \h6569,
     \h12c6, \h533e, \h32ee, \h7aed, \h29b7, \h2176, \h9ce6, \h4e43, \hd571, \h33b0, \h74d8,
     \h39d5, \h31ed, \h1f28, \h510a, \hfb45, \hace1, \h0a1f, \h4b79, \h4d6f >>)

Hosts ==
  [order : {"little", "big"}, gnuc : {TRUE}, swap : {"platform", "portable"}] \cup
  [order : {"little", "big"}, gnuc : {FALSE}, swap : {"portable"}]

Ascending(n) == [b \in 1 .. n |-> Byte!OfNat(b - 1)]

ChaCha ==
  {ChaChaJob(host, Ascending(32), [Zeros(12) EXCEPT ![8] = Byte!OfNat(\h4a)], {0},
             Ladies, LadiesEncrypted) : host \in Hosts} \cup
  {ChaChaJob(host, Zeros(32), Zeros(12), {}, Zeros(128), ZeroStream) : host \in Hosts} \cup
  {ChaChaJob(Little, Zeros(32), Zeros(12), 0 .. 31, Zeros(150), << >>)}

SalsaJob(rounds, key, counter, in, out) ==
  [lib |-> "salsa20", cipher |-> "salsa20", mode |-> "stream", encrypt |-> TRUE, host |-> Little,
   key |-> key, iv |-> Zeros(8), text |-> Cut(64, in), known |-> out # << >>,
   expected |-> Cut(64, out), counter |-> counter, rounds |-> rounds]

TopBit(n) == [Zeros(n) EXCEPT ![1] = {7}]

Salsa == {
  SalsaJob(20, TopBit(16), {}, Zeros(64), Bytes(
    << \h4dfa, \h5e48, \h1da2, \h3ea0, \h9a31, \h0220, \h5085, \h9936, \hda52, \hfcee, \h2180,
     \h0516, \h4f26, \h7cb6, \h5f5c, \hfd7f, \h2b4f, \h97e0, \hff16, \h924a, \h52df, \h2695,
     \h1511, \h0a07, \hf9e4, \h60bc, \h65ef, \h95da, \h58f7, \h40b7, \hd1db, \hb0aa >>)),
  SalsaJob(20, TopBit(32), {}, Zeros(64), Bytes(
    << \he3be, \h8fdd, \h8bec, \ha2e3, \hea8e, \hf947, \h5b29, \ha6e7, \h0039, \h51e1, \h097a,
     \h5c38, \hd23b, \h7a5f, \had9f, \h6844, \hb22c, \h9755, \h9e27, \h23c7, \hcbbd, \h3fe4,
     \hfc8d, \h9a07, \h4465, \h2a83, \he72a, \h9c46, \h1876, \haf4d, \h7ef1, \ha117 >>)),
  SalsaJob(12, TopBit(16), 0 .. 31, Zeros(100), << >>),
  SalsaJob(8, TopBit(32), 0 .. 63, Zeros(150), << >>) }

Tasks == Aes \cup ChaCha \cup Salsa

(* Nothing to encrypt: where the part of the model that rests is left.     *)
Resting == [ChaChaJob(Little, Zeros(32), Zeros(12), {}, << >>, << >>) EXCEPT !.known = FALSE]
=============================================================================
