------------------------------- MODULE Endian -------------------------------
(***************************************************************************)
(* raaz/core/endian.h and endian.c: reading the bytes of a buffer as words *)
(* and bringing them to the order a primitive wants.  Which code is        *)
(* compiled depends on the host, a record of three build facts:            *)
(*   order  the byte order of the machine, "little" or "big";              *)
(*   gnuc   __GNUC__ is defined: the byte order is known at compile time,  *)
(*          otherwise __RAAZ_REQUIRE_PORTABLE_ENDIAN__;                    *)
(*   swap   "platform" (bswap_32, OSSwapInt32, ...) or "portable"          *)
(*          (__RAAZ_REQUIRE_PORTABLE_SWAP__).                              *)
(* A word is the set of the positions of its one bits (module Words); a    *)
(* byte is a word of 8 bits.                                               *)
(***************************************************************************)
EXTENDS Integers, Sequences

Hosts == [order : {"little", "big"}, gnuc : BOOLEAN, swap : {"platform", "portable"}]

(* Byte i of a word, i = 0 being the least significant. *)
ByteAt(x, i) == {p \in 0 .. 7 : 8 * i + p \in x}

(* MASK, SEL, MOVL, MOVR, SWAP: bytes i < j change places, the rest is 0.  *)
SWAP(x, i, j) == {8 * j + p : p \in ByteAt(x, i)} \cup {8 * i + p : p \in ByteAt(x, j)}

(* What the compilers and the C libraries offer: reverse the n bytes.      *)
PlatformSwap(n, x) == UNION {{8 * (n - 1 - i) + p : p \in ByteAt(x, i)} : i \in 0 .. n - 1}

(* Broken variant: the bytes in the middle are forgotten.                  *)
Bswap64WithoutMiddle(host, x) ==
    IF host.swap = "platform" THEN PlatformSwap(8, x)
    ELSE SWAP(x, 0, 7) \cup SWAP(x, 1, 6) \cup SWAP(x, 2, 5)

raaz_bswap32(host, x) ==
    IF host.swap = "platform" THEN PlatformSwap(4, x)
    ELSE SWAP(x, 0, 3) \cup SWAP(x, 1, 2)
raaz_bswap64(host, x) ==
    IF host.swap = "platform" THEN PlatformSwap(8, x)
    ELSE SWAP(x, 0, 7) \cup SWAP(x, 1, 6) \cup SWAP(x, 2, 5) \cup SWAP(x, 3, 4)

(* A word from its bytes, given the most significant first (MK32, MK64).   *)
MK(b) == UNION {{8 * (Len(b) - k) + p : p \in b[k]} : k \in 1 .. Len(b)}

(* How the machine keeps a word of n bytes in memory.                      *)
BytesOf(host, n, x) ==
    [k \in 1 .. n |-> ByteAt(x, IF host.order = "little" THEN k - 1 ELSE n - k)]

(* The word the machine reads when it loads the bytes b.                   *)
ReadWord(host, b) ==
    MK(IF host.order = "little" THEN [k \in 1 .. Len(b) |-> b[Len(b) + 1 - k]] ELSE b)

(* The bytes of the word in memory taken as MSB first, and in the reverse  *)
(* order (B32, B64).                                                       *)
PortableBE(host, n, x) == MK(BytesOf(host, n, x))
PortableLE(host, n, x) == MK([k \in 1 .. n |-> BytesOf(host, n, x)[n + 1 - k]])

raaz_tobe32(host, x) ==
    IF ~host.gnuc THEN PortableBE(host, 4, x)
    ELSE IF host.order = "little" THEN raaz_bswap32(host, x) ELSE x
raaz_tole32(host, x) ==
    IF ~host.gnuc THEN PortableLE(host, 4, x)
    ELSE IF host.order = "little" THEN x ELSE raaz_bswap32(host, x)
raaz_tobe64(host, x) ==
    IF ~host.gnuc THEN PortableBE(host, 8, x)
    ELSE IF host.order = "little" THEN raaz_bswap64(host, x) ELSE x
raaz_tole64(host, x) ==
    IF ~host.gnuc THEN PortableLE(host, 8, x)
    ELSE IF host.order = "little" THEN x ELSE raaz_bswap64(host, x)

(* The words of a block of bytes as the machine reads them, n bytes each.  *)
ReadWords(host, n, bytes) ==
    [i \in 0 .. (Len(bytes) \div n) - 1 |->
        ReadWord(host, SubSeq(bytes, n * i + 1, n * i + n))]
=============================================================================
