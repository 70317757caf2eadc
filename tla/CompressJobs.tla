---------------------------- MODULE CompressJobs ----------------------------
(***************************************************************************)
(* Streams for the portable compression functions: messages with published *)
(* digests (FIPS 180 for SHA-1, tests/Raaz/Digest/Sha256Spec.hs,           *)
(* Sha512Spec.hs and tests/standard-test-vectors/blake2/tests.json), and   *)
(* BLAKE2 streams whose counter is about to carry.                         *)
(***************************************************************************)
EXTENDS Integers, Sequences

Blake2b == INSTANCE Blake2bPortable
Blake2s == INSTANCE Blake2sPortable

Byte == INSTANCE Words WITH Bits <- 8
Long == INSTANCE Words WITH Bits <- 64

Bytes(numbers) == [k \in 1 .. Len(numbers) |-> Byte!OfNat(numbers[k])]
Zeros(n) == [k \in 1 .. n |-> 0]
Cut(n, s) == [k \in 1 .. Len(s) \div n |-> SubSeq(s, n * (k - 1) + 1, n * k)]

(* n bytes 97, 98, ...: "abc" and the messages of the Sha2 tests, runs of  *)
(* n letters that start one letter later each.                             *)
Run(from, n) == [k \in 1 .. n |-> 96 + from + k]
RECURSIVE Runs(_, _)
Runs(n, last) == IF last < 0 THEN << >> ELSE Runs(n, last - 1) \o Run(last, n)

(* Sha: a one bit, zeros, and the length in bits (here below 2^16).        *)
Padded(blockBytes, lengthBytes, m) ==
  LET n == Len(m)
      z == (-(n + 1 + lengthBytes)) % blockBytes
  IN  m \o <<128>> \o Zeros(z + lengthBytes - 2) \o <<(8 * n) \div 256, (8 * n) % 256>>

Digits(f(_), s) == [j \in 0 .. Len(s) - 1 |-> f(s[j + 1])]

ShaJob(name, blockBytes, m, start, digest) ==
  [fn |-> name, hash |-> Digits(Long!OfLimbs, start), last |-> FALSE, lastBytes |-> 0,
   blocks |-> Cut(blockBytes, Bytes(Padded(blockBytes, blockBytes \div 8, m))),
   total |-> {}, known |-> TRUE, digest |-> Digits(Long!OfLimbs, digest)]

Sha == {
  ShaJob("sha1", 64, Run(0, 3),
    << <<\h6745, \h2301>>, <<\hefcd, \hab89>>, <<\h98ba, \hdcfe>>, <<\h1032, \h5476>>, <<\hc3d2, \he1f0>> >>,
    << <<\ha999, \h3e36>>, <<\h4706, \h816a>>, <<\hba3e, \h2571>>, <<\h7850, \hc26c>>, <<\h9cd0, \hd89d>> >>),
  ShaJob("sha256", 64, Runs(4, 13),
    << <<\h6a09, \he667>>, <<\hbb67, \hae85>>, <<\h3c6e, \hf372>>, <<\ha54f, \hf53a>>,
       <<\h510e, \h527f>>, <<\h9b05, \h688c>>, <<\h1f83, \hd9ab>>, <<\h5be0, \hcd19>> >>,
    << <<\h248d, \h6a61>>, <<\hd206, \h38b8>>, <<\he5c0, \h2693>>, <<\h0c3e, \h6039>>,
       <<\ha33c, \he459>>, <<\h64ff, \h2167>>, <<\hf6ec, \hedd4>>, <<\h19db, \h06c1>> >>),
  ShaJob("sha512", 128, Runs(8, 13),
    << <<\h6a09, \he667, \hf3bc, \hc908>>, <<\hbb67, \hae85, \h84ca, \ha73b>>,
       <<\h3c6e, \hf372, \hfe94, \hf82b>>, <<\ha54f, \hf53a, \h5f1d, \h36f1>>,
       <<\h510e, \h527f, \hade6, \h82d1>>, <<\h9b05, \h688c, \h2b3e, \h6c1f>>,
       <<\h1f83, \hd9ab, \hfb41, \hbd6b>>, <<\h5be0, \hcd19, \h137e, \h2179>> >>,
    << <<\h8e95, \h9b75, \hdae3, \h13da>>, <<\h8cf4, \hf728, \h14fc, \h143f>>,
       <<\h8f77, \h79c6, \heb9f, \h7fa1>>, <<\h7299, \haead, \hb688, \h9018>>,
       <<\h501d, \h289e, \h4900, \hf7e4>>, <<\h331b, \h99de, \hc4b5, \h433a>>,
       <<\hc7d3, \h29ee, \hb6dd, \h2654>>, <<\h5e96, \he55b, \h874b, \he909>> >>) }

(* The bytes 0, 1, 2, ..., padded with zeros to whole blocks; the initial  *)
(* hash is the iv with the parameter block (Blake2/Internal.hs).           *)
Counting(n) == [k \in 1 .. n |-> k - 1]
BlakeJob(name, n, before, known, digest) ==
  LET B == IF name = "blake2b" THEN 128 ELSE 64
      iv == IF name = "blake2b" THEN Blake2b!iv ELSE Blake2s!iv
      p == Long!OfLimbs(<<\h0101, IF name = "blake2b" THEN \h0040 ELSE \h0020>>)
  IN  [fn |-> name, hash |-> [iv EXCEPT ![0] = Long!Xor(@, p)], last |-> TRUE,
       lastBytes |-> n - B * ((n - 1) \div B),
       blocks |-> Cut(B, Bytes(Counting(n) \o Zeros((-n) % B))),
       total |-> before, known |-> known,
       digest |-> Digits(Long!OfLimbs, digest)]

Full(n) == 0 .. n - 1     \* all bits set

Blake2 == {
  BlakeJob("blake2b", 255, {}, TRUE,
    << <<\h7636, \h6888, \hfdc5, \h215b>>, <<\hfa9c, \h0ee7, \ha24f, \h4712>>,
       <<\hb5fa, \hfae8, \heeff, \h0122>>, <<\h9b7c, \ha1ef, \h8fd5, \h7a79>>,
       <<\h2063, \hdba3, \ha47d, \h105b>>, <<\h1da5, \hd517, \h862c, \hafba>>,
       <<\hc267, \h38da, \h88ae, \h14f9>>, <<\h2879, \ha64f, \hc10c, \h1fd4>> >>),
  BlakeJob("blake2s", 130, {}, TRUE,
    << <<\hebbe, \h0ac8>>, <<\h5dad, \h69b6>>, <<\hecf5, \hb5ee>>, <<\ha0b7, \ha68e>>,
       <<\h317d, \hdf5d>>, <<\h2e0a, \h4cec>>, <<\h980b, \h0be2>>, <<\h4667, \hecca>> >>),
  \* 2^64 - 128 bytes, and 2^64 - 256 bytes, were compressed before
  BlakeJob("blake2b", 200, Full(64) \ Full(7), FALSE, << >>),
  BlakeJob("blake2b", 256, Full(64) \ Full(8), FALSE, << >>),
  \* 2^32 - 64 bytes before
  BlakeJob("blake2s", 100, Full(32) \ Full(6), FALSE, << >>) }

Messages == Sha \cup Blake2

Hosts ==
  [order : {"little", "big"}, gnuc : {TRUE}, swap : {"platform", "portable"}] \cup
  [order : {"little", "big"}, gnuc : {FALSE}, swap : {"portable"}]

(* Nothing to hash: where the part of the model that rests is left.        *)
Resting == [fn |-> "sha256", hash |-> [j \in 0 .. 7 |-> {}], last |-> FALSE, lastBytes |-> 0,
            blocks |-> << >>, total |-> {}, known |-> FALSE, digest |-> << >>]
=============================================================================
