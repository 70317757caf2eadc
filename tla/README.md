# Verification of raaz

raaz is a cryptographic library for Haskell: hashes, message authentication,
ciphers, authenticated encryption, a random generator, and the command line
tool built on them. This directory holds TLA+ modules that model the parts of
the library that keep state, the TLC configurations that check them on small
instances, and proofs, checked by TLAPS, that the main properties hold for all
values of the constants. Paths below are relative to the repository.

Contents: 1 inventory, 2 hard behaviours, 3 plan, 4 modules and their code,
5 runs, bounds and fairness, 6 proofs, 7 disagreements of code and
documentation, 8 what is not modelled.

## 1. Inventory

| Component | State | Operations | Talks to |
|---|---|---|---|
| Context buffer (`indef/buffer/Context.hs`) | block-aligned buffer, count of available bytes, internals of the primitive | `unsafeFillFrom`, `unsafeConsumeBlocks`, `unsafeContinue`, `unsafeUpdate`, `unsafeFinalise`; `unsafeGenerateBlocks`, `unsafeWriteTo`; `unsafeSetCxtEmpty/Full` | byte sources (reads), implementations (`processBlocks`, `processLast`), digest and random interfaces (callers) |
| Incremental digest (`api/digest/Interface.hs`, `indef/Utils.hs`) | a context | `startDigest`, `updateDigest`, `finaliseDigest`; one-shot `digest`, `digestSource` | context buffer, byte sources |
| Hash implementations (`implementation/{Blake2b,Blake2s,Sha256,Sha512}`, `core/Raaz/Primitive/{Blake2,Sha2,HashMemory}`) | hash cell, length cells | `processBlocks`, `processLast`, initialisation, extraction | transfers (padding), C code |
| Transfers (`core/Raaz/Core/Transfer*`, `MonoidalAction.hs`) | none: a transfer is a size and an action | `glueWrites`, `padWrite`, composition, `unsafeTransfer` | hash paddings |
| Type safe lengths, pointers (`core/Raaz/Core/Types/Pointer.hs`, `Primitive.hs`) | none | `inBytes`, `atMost`, `atLeast`, alignment, `allocaBuffer`, `allocaSecure`, `memcpy`, `wipeMemory` | everything |
| Memory elements (`core/Raaz/Core/Memory.hs`, `cbits/raaz/core/memory.c`) | allocated memory, its page locks | `withMemory`, `withSecureMemory`, `MemoryCell`, `Access` | every stateful component |
| Random generator (`api/random/PRGenerator.hs`, `raaz/Raaz/Random.hs`) | a context, the key of the cipher in it, count of generated blocks | `withRandomState`, `fillRandomBytes`, `sample`, `reseed`, `generateRandom` | context buffer, entropy, cipher's `randomBlocks` |
| Entropy (`implementation/entropy/*`) | none of its own | `getEntropy` | operating system |
| Byte sources (`core/Raaz/Core/ByteSource.hs`) | what is left of a source; a file handle's position | `fillBytes`, `fill`, `processChunks` | context buffer, one-shot utilities |
| Keyed hashing, MACs (`indef/keyed/hash`, `core/Raaz/Primitive/Keyed`, `api/auth`) | hash internals, key buffer | keyed initialisation, `auth`, `verify`, incremental | context buffer |
| Ciphers (`api/encrypt`, `indef/chacha20`, `implementation/ChaCha20`) | key, copy of the key, nounce, block counter | `encrypt`, `decrypt`, `xchacha20Setup` | AEAD, random generator |
| AEAD (`api/aead`, `core/Raaz/Primitive/AEAD`, `raaz/Raaz/{V1/,}AuthEncrypt.hs`) | cipher and MAC memory | `lock`, `unlock`, `lockWith`, `unlockWith` | cipher, Poly1305 |
| Poly1305 (`implementation/Poly1305`) | accumulator, r, s | `processBlocks`, `processLast`, key clamping | AEAD, auth |
| Parsing (`core/Raaz/Core/Parse*`) | none | bounded parser over a buffer | encodings, fingerprints |
| Encodings (`core/Raaz/Core/Encode*`) | none | base16, base64, `decode`, `translate` | command line tools |
| Equality, words (`core/Raaz/Core/Types`) | none | constant-time comparison, endian-explicit words | digests, MACs |
| Compression functions in C (`implementation/cbits/raaz/hash/*`) | the hash, and for blake2b the length, that the caller passes; registers and message schedule of a call | `raazHash*PortableCompress`, `...LastBlock` | hash implementations (call them), endian conversions |
| Ciphers in C (`implementation/cbits/raaz/cipher/*`) | iv or counter that the caller passes; block state of a call | ChaCha20 (built), AES on rows, AES with its modes, Salsa20 (not built) | cipher implementations, endian conversions |
| Endian conversions in C (`core/cbits/raaz/core/endian.{h,c}`) | none; chosen by compiler and host | loads, stores, `raaz_tobe*`, `raaz_tole*`, byte swaps | the C code above, `Types/Endian.hs` |
| Command line (`raaz/bin`) | process exit status | `checksum`, `rand`, `info` | digests, random generator |

The central interaction: a *context* is a buffer and a count of the valid bytes
at its front, and it is used in two opposite modes. In hashing mode callers
push bytes of arbitrary sizes at the end of the valid region and whole buffers
are compressed; the last block must stay behind, because only `processLast`
may compress it. In csprg mode whole buffers are generated and bytes of
arbitrary number are taken from the *end* of the valid region and wiped. Both
modes are sequential code with shared mutable memory; what happens between two
of its steps matters because sources throw, because asynchronous exceptions
strike anywhere, and because one promise (the security guarantee) is about
every moment and not only about the ends of calls.

What makes each component correct:

* context, digest: no byte is lost, repeated, reordered or taken from stale
  memory, whatever the sizes of the sources; the last block is held back; the
  incremental digest is the digest of the concatenation.
* paddings: whole blocks, message at the front, room behind the buffer.
* random generator: what was given out cannot be recomputed from the memory;
  nothing is given out twice; only random bytes are given out; reseeding is
  regular; requests end.
* secure memory: wiped and unlocked exactly when released, locked in between.
* byte sources: `Exhausted` exactly when fewer bytes than asked for remain.
* MACs: the tag is that of the key and the message, nothing else, whichever
  call comes first.
* AEAD: verification precedes decryption; no key stream block is used twice;
  what opens is what was locked, with the same key and additional data.
* C code: registers, schedules and counters kept in place, the cuts into calls
  and the byte order of the host do not show in the result.
* encodings, parsing, equality: round trips, bounds, agreement with equality.

## 2. Hard behaviours

There are no threads inside the library, but its callers have them, and the
pages of the heap are shared by all regions. The hazards (listed in PROJECT.json at
their lines) come from: arbitrary sequences of sizes meeting block and buffer
boundaries; whether a full buffer is the last one, which is known only after
asking the source again; sources that throw midway; reuse of contexts;
asynchronous exceptions between a copy, a wipe and an update of a count;
`getEntropy` failing through its result; the order in which key material is
replaced and bytes are given out; padding that overflows into one more block;
subtraction that must not meet zero; the carry between the two words of a
length; files that grow while they are read; locks of pages, which do not nest;
key blocks that are compressed late; the derivation of a subkey when its nounce
arrives; decryption in place, backwards; counters that carry between words or
bytes; code paths that only some compilers and hosts take.

## 3. Plan

Done:

1. `LengthUnits`, `Padding`, `Context`: the operators and the state that the two
   modes share.
2. `MessageDigest` (abstract session) and `HashContext` (implements it), with
   proofs in `PaddingProofs` and `HashContextProofs`.
3. `PRGenerator`, with proofs in `PRGeneratorProofs`.
4. `OneShotDigest`: byte sources (strings, lists, growing files) under
   `processChunks`; refines `MessageDigest` like `HashContext`, with proofs in
   `OneShotDigestProofs`.
5. `LengthCells`: the length in two words, with proofs in `PortableProofs`.
6. `SecureMemory`: regions, locks of pages, exceptions, with proofs in
   `SecureMemoryProofs`.
7. `KeyedMac`: the keyed hash with its delayed key block; refines `MacSession`,
   with proofs in `KeyedMacProofs`.
8. `AuthEncrypt`: locking and unlocking with both ciphers; refines `SealedBox`,
   with proofs in `AuthEncryptProofs`.
9. The portable C code: `PortableCompress` with one module for each
   compression function, refining `CompressStandard`, with the proof of that in
   `PortableProofs`; `PortableCipher` with one module for each cipher, refining
   `CipherStandard`, with the proof for ChaCha20 there too; `Endian` and `Words` below.

Next, in this order:

10. Proofs: the refinement of `CipherStandard` by Salsa20, for which the lemmas about
    the matrix of ChaCha20 can serve, and by AES; what remains of the security guarantee
    of `PRGenerator` when entropy fails or exceptions strike.
11. `Poly1305Buffer`: whole blocks, the last partial block, and clamping as bytes.
12. `MemoryLayout`: offsets of the allocation applicative, disjointness,
    alignment, `withMemoryPtr` ranges, with a proof of disjointness.
13. `Encodings`, `ParseBounds`, `Checksum`: pure functions, bounds, and the exit
    status of the command line tool.
14. Runs: `random` and `random_exceptions` are to become one, whose properties say
    in which histories they hold, as those of `one_shot` do with `torn`.

## 4. Modules and their code

**LengthUnits** — `BYTES`, `BLOCKS` and the roundings between them
(`core/Raaz/Core/Types/Pointer.hs`, `Primitive.hs`).

**Padding** — `glueWrites` and the two paddings. A byte is a number: message
bytes are positive identities in the order of arrival, and the bytes that a
padding writes are the symbols `ZeroByte`, `OneBit`, `LengthField`. `DigestOf`
is the reference: pad the whole message once, hash all of it with its length.
The compression function is abstracted to the stream of bytes it consumes and
the length that enters it, so two digests are equal exactly if these are. That
is the assumption "the C code computes the function of the standard".

**Context** — `buf`, `avail` (contents of `cxtBuf`, `cxtAvailableBytes`), and the
operators on them. `NBlocks` is the `n` of `Cxt n`.

**MessageDigest** — the abstract session: start, feed, failure of a source,
finalise. The bytes that sources supply are numbered as they are taken, and `Feed`
appends just those that were taken: the next ones, all of them, nothing else.
Where a file grows between a short read and the test for its end, the session is
torn (`FeedTorn`) and its message `Spoiled`, which promises nothing. After a failure
or a torn read, and only then, the digest may be `Spoiled` too.

**HashContext** — `StartDigest`, `UpdateDigest(size)`, then `unsafeFillFrom` in two
steps, the read (`FillBuffer`) and what follows from the test for the end of the
source (`FillExhausted`, `FillRemaining`), `ConsumeBlocks`, the same two steps for
each buffer of `unsafeContinue` (`ContinueBuffer`, then `ContinueFilled` or
`ContinueLastChunk`), `SourceFails` (an exception out of `fillBytes`, which may
have written some bytes), `FinaliseDigest` (`processLast`). Between any two steps of
an update somebody may let the file `Grow`. `pc` is the position
in `updateDigest`; `internals` is the consumed stream and the length cells; `count`
is what `hFillBuf` returned; `drawn`, `base`, `failed`, `grown`, `torn` are history. A
mutable source (handle) and an immutable one are both `left`, the number of its bytes
not read yet; the immutable one does not grow and does not fail. A read is `torn`
if it got less than it asked for and the source, which has grown, then reports that
more remains: the code goes on as if the buffer had been filled. The properties
state what holds of torn sessions as well: the lengths agree, and the last block is
held back. `MCHashContext` checks a context with
the padding of sha2 and an instance of it with that of blake2 in one run; what
is asked of the instance is `Blake2Sound`.

**PRGenerator** — `withRandomState` (`Open`, the first reseed, `Close`),
`unsafeRandomBytes` (`Request`, `Go`), `unsafeWriteTo` (`Copy`, `Wipe`,
`SetForRequest` / `SetForKey`), `sample` (`Sample`), `reseed`
(`InitWithEntropy`, `ZeroBlocks`), `generateRandom` (`RandomBlocks`, `SetFull`,
`CountBlocks`, then `unsafeWriteTo` into the key). A byte is a pair: byte `i`
of generation `g`, byte `i` of the entropy drawn before generation `g`, or
`Junk`. Whether the memory reveals a byte is a closure: a generation is known
if the whole key it was made from is known. `given` are the bytes of requests that
returned. An exception ends a call (`Abandon`), but what `memcpy` has put at the
caller's pointer stays there: these bytes are kept in `abandoned`, and those of them
that the exception found copied and not wiped in `unwiped` too. What the user does between two
requests is any sequence of `Request(n)` and `UserReseed`. The memory of the
cipher's nounce and counter is not part of the state: `writeAccess` covers the
key alone, and the implementations set the others to constants on every call.

**OneShotDigest** — `digestSource`: `Start` (initialise, allocate the buffer of
`bufSize` bytes), then one action per outcome of `fillBytes` for the member at
the head of the list: `FillStringExhausted`, `FillStringRemaining`, `FillNone`, and for
a file the two steps `FillBuf` (`hFillBuf`) and `HandleExhausted` or
`HandleRemaining` (`hIsEOF`), between which others may `Grow` the file;
`ProcessChunk` and `ProcessLast` are the two arguments of `processChunks`. The
recursion on the list is the pair `source`, `offset`: what is left of it and
how far `movePtr` has gone. The bytes are numbered as they reach the buffer.
A list of lists is its concatenation, since `fillBytes` recurs the same way; a
lazy byte string is the list of its chunks, `Nothing` the empty list.

**LengthCells** — `HashMemory128` with words of `8 * Eighth` values; `primitive` says
whose memory it is.
`UpdateLength128` and `LastOfSha512` are the Haskell code of sha512,
`CompressBlock` and `LastOfBlake2b` the counting in the C code of blake2b
(`blake2b/portable.c`). `written` is what goes into the last block.

**SecureMemory** — one process per call: `Allocate`, `Lock`, `Store`, `Return` or
`Throw`, `Wipe`, `Unlock`. `allocaSecure` is a bracket around the action;
`withMemory` wipes after an action that returned; after an exception its call is
"abandoned", with the memory free and as the action left it. `SwapOut` is the
operating system. Calls that are nested in one thread are some of the interleavings of
calls of several threads.

**MacSession**, **KeyedMac** — `Initialise` is the instance for a key (cut it with
`trim`, set the initial hash, `padWrite` it into the key buffer, raise `atStart`);
`processBlocks` and `processLast` are the functions of that name, with
`processKey` and `processKeyLast` inside them. The callers are the context and
the one-shot interface, of which only this matters: blocks first, the last
bytes in the end, no bytes only for an empty message. The underlying hash is
the stream it consumes (module `Padding`) with the initial hash, which depends
on the length of the key. `MacSession` says that the tag is `MacOf(key, message)`.
`Unwritten` stands for what memory holds before anything is written to it.

**SealedBox**, **AuthEncrypt** — one action per step of `unsafeLockWith` and
`unlockWith`: allocate, `InitialiseKey`, `InitialiseNounce` (which also keys the
authenticator with block zero of the key stream), `Encrypt`, `Seal`, or
`VerifySucceeds` / `VerifyFails` and `Decrypt`, which parses the text at the type that
was asked for (`Parses`) and gives `Nothing` if it is no encoding of that type. A byte is the set of the things that
were xored into it, and a tag is the key and the bytes it was computed from: the
assumption is that Poly1305 and the ciphers are as good as their names. In a
call the counter begins with any value, as the memory does. The request of the
abstract box is the running call if it is an unlock; locking is one step of the box,
taken by `Seal`. XChaCha20 keeps a
copy of the key and makes a subkey when the nounce arrives. `Arriving` are the
packets that somebody could put together from parts of locked ones.

**Words**, **Endian** — a word is the set of the positions of its one bits, so that
words keep their full width of 8, 32, 64 or 128 bits whatever the integers of
TLC are. `Add` carries from bit to bit, and `OfNat` halves a number, both as recursive
functions. `Endian` is `endian.h` and `endian.c`: a host is a record of three build
facts, and every load, store and swap is defined as the code chosen for that
host does it.

**Sha1Portable, Sha256Portable, Sha512Portable, Blake2bPortable, Blake2sPortable**,
**PortableCompress** — the first five hold what the macros `Step`, `G`, `SCHEDULE`
and `LoadInitial...` compute; the last one is the loop over blocks, one step of the
model for each use of a macro, with the Haskell callers that cut a stream into
calls and hold the length cells. `StreamsAssumption` is what these callers hand
over: a hash of five or eight words, whole blocks of 64 or 128 bytes, the length so
far in 64 or 128 bits, and for a last block no more bytes than it has room for. **CompressStandard** is the abstract machine: the
letters a, b, c, ... move, the message schedule grows, a total of bytes is kept
and there are no calls. `LettersOfRegisters` is the refinement mapping: the C
code renames the letters instead of moving registers. **CompressJobs** holds
messages with published digests and streams whose counters are about to carry.

**AesTables, AesRows** (`cipher/aes`), **AesPortable** (`cipher/cportable/aes.c`),
**ChaCha20Portable, Salsa20Portable**, **PortableCipher** — key expansion, rounds,
and the modes ECB, CBC and CTR, in place, in calls of any number of blocks that
keep the iv or the counter in between. When the text is done it is put through
the inverse (`phase` 2). **CipherStandard** with **AesStandard** (arithmetic in the
field, without tables) and **StreamStandard** (rows, columns and diagonals) is what
they refine: each block transformed once, in any order that its mode allows.
**CipherJobs** holds published texts and texts on which counters wrap.

**MCPortable** — puts `LengthCells`, `PortableCompress` and an instance of
`PortableCipher` into one run; a behaviour exercises one of them.

Some modules hold *broken variants* of an operator or action (marked so in a
comment): the change a plausible bug would make. Substituting one for the
definition that follows it makes TLC report the property it is paired with in
PROJECT.json, which shows that the property watches that code.

## 5. Runs, bounds and fairness

| Run | Shows |
|---|---|
| `hash` | for blake2 and for sha2, with sources that fail and files that grow: streaming, the held-back last block, padding that fits behind a full buffer, the digest unless a read was torn, termination; for sha2 the refinement of `MessageDigest`, proved for both |
| `portable_c` | the C code refines `CompressStandard` and `CipherStandard` step by step and yields the published results, on all hosts and for all cuts into calls; decryption recovers the text; the two words of a length count over all carries |
| `keyed_mac` | the key is hashed once and before the message, whichever call comes first and whatever session came before; refinement of `MacSession` |
| `auth_encrypt` | the key stream is never used twice, verification comes before decryption; refinement of `SealedBox` |
| `random` | security guarantee at every step, only random bytes, regular reseeding; no exceptions |
| `random_exceptions` | with failing entropy and asynchronous exceptions: no byte is delivered twice, those that interrupted calls had copied counted, unless the exception found it copied and not wiped; every call ends |
| `one_shot` | lists of strings or of growing files: no byte lost at any boundary, `Remaining` means that a byte is left, the digest, termination, refinement of `MessageDigest` |
| `secure_memory` | two secure calls and a plain one, failing locks, exceptions, pages of their own: no secret swapped, all wiped, no lock left; a plain call leaves its secret behind only after an exception |
| `random_key_kept`, `mac_empty_key`, `one_shot_race`, `secure_swapped` | violations, see section 7 |

Bounds. A context behaves by the position of `avail` and of a source's end
relative to block and buffer boundaries. In `hash` both contexts have
buffers of 2 blocks of 2 bytes and sources of 0 to 9 bytes, 10 in total: sources
of every size from empty past two buffers, so each of `FillRemaining`,
`ContinueFilled` (once and twice) and a last chunk of every size, in particular
one that fills the buffer exactly, and sessions started again after any of
these. `MaxGrowth` of 1 lets one byte be appended to one file, between any two steps: that
is enough to tear a read, and what follows a torn read is then as without growth.
The padding of sha2 writes a bit and a length of one byte: behind a tail of one byte
it needs a block more, behind whole blocks it fills one. That it also fits into a
block that is partly filled takes blocks of 3 bytes, which `PaddingProofs` covers
and this run does not. The `random` runs have a buffer of 4 bytes and a key of 2: a
request of 0 to 5 bytes spans up to three refills; `ReseedAfter` of 4 blocks makes
every second sample reseed; `MaxGen` generations let calls begin after that many
refills, so that requests, user reseeds and automatic reseeds occur in
every order. The interruption runs have smaller `MaxGen`, since `Interrupt`
multiplies the states. No run limits the number of failures or interruptions.
`one_shot` has a buffer of 4 bytes and lists of up to three sources of 0 to 5
bytes: empty ones, ones that end where the buffer does alone or together, ones
that go past it, in every order; `MaxGrowth` of 1 lets one file grow at any step. The words of `LengthCells` have 16 values, and
every state and every count is reached. `keyed_mac` has blocks of 4 bytes, keys
of 1, 2, 3 and 5 bytes (one is the size of the hash, one is cut to it), two keys of each
length so that what a session leaves behind would be seen, and messages of up to
17 bytes, which pass a buffer of two blocks twice. `auth_encrypt` has blocks of 4
bytes for the cipher and of 2 for the authenticator, texts of 0, 1 and 5 bytes (a second
block), a counter with 3 values, which starts anywhere, and two locked packets, the
fewest from which parts can be mixed. `portable_c` has no small words: it runs the
code at full width on the texts of `CompressJobs` and `CipherJobs`, of up to three
blocks, on the six hosts where a conversion is used (AES and Salsa20 on one),
and leaves open how many blocks each call gets. For the compression functions
the proof does without all of these bounds. For the ciphers the run does not show that
the arithmetic is right on every input; what their steps do with registers, counters
and chaining does not depend on the data. `secure_memory` has room for two
regions and a gap, and a quota that the second lock exceeds; in
`secure_swapped` two regions fit on a page.
`MaxDrawn`, `MaxSource`, `MaxGen` and `MaxRequest` bound what the environment
asks; they never stop a call that has begun. The proofs do without the bounds:
they hold for every value.

Fairness. `WF_vars(UpdateStep)` and `WF_vars(Step)`: a call that has begun is
stepped by its own thread, which nothing in the library blocks. No fairness is
put on the user (starting, updating, requesting), on failures or on
exceptions. `UpdatesReturn` and `RequestReturns` are checked under it. In the same
way `OneShotDigest` has `WF_vars(Step)`. Files can be read without waiting, and their
growth is bounded: a file that grows as fast as it is read is never at its end, and
its update does not end in the code either. `SecureMemory`, `KeyedMac`, `AuthEncrypt`
and the C code state none, since their properties are of safety. Deadlock is not
checked in `keyed_mac`, where the message may reach its bound, and in
`portable_c`, where a text comes to its end.

`TypeOK` is not only a typing: it bounds `avail` by the size of the buffer, and
the model's counts are integers, so a count that overruns is seen.

## 6. Proofs

All proofs hold for every value of the constants under the assumptions in the
modules: `BlockBytes > 0`, `NBlocks > 0` (`Cxt 0` is a type of the library but no
instance uses it), `LengthBytes < BlockBytes`, `0 < KeyBytes < cxtSize` (asked
for in the comment on `unsafeInitFromBuffer`), `ReseedAfter > 0`.

* `PaddingProofs`: lemmas about roundings and paddings. A padded tail is a
  positive number of whole blocks; the padding of a whole number of
  blocks followed by a tail is the blocks followed by the padding of the tail
  (the reason why compressing early is right); the padding needs at most one
  block more.
* `HashContextProofs`: `TypeCorrect`, `StreamIsIntact`, `LastBlockIsHeld`,
  `DigestIsOfMessage`, `PaddingAlwaysFits`. The inductive invariant is the
  conjunction of `TypeOK`; `Control`, what each position of `pc` implies for `avail` and
  `count` (the buffer is full at `consume` and empty at `continue`; a read that got less
  than it asked for had come to the end of what was there, so that a byte left
  afterwards has grown); `WholeBlocks`, that the consumed stream is a whole
  number of blocks and its length is counted; `Streamed`, that in a session that is not torn
  stream and available bytes are the message; `HasRead`, that between the read and
  the test the buffer holds the next `count` bytes of the source behind what was
  available; and the properties on the last block and the digest.
  `StreamIntact` alone is not inductive: without `WholeBlocks` nothing follows about the
  final padding, without `Control` an update that continues could overwrite valid
  bytes, and without `HasRead` nothing is known of what the test lets count.
* `PRGeneratorProofs`: `TypeCorrect` and `NoByteIsTwice` hold unconditionally,
  with failing entropy and with exceptions between any two steps. The invariant
  `Once` says that bytes of the current generation which are out lie above the
  count, or, if an interrupted call took them, are wiped or in `unwiped`; a fresh
  generation is new, so the count may grow then and only then. `WipedBehind`, that what
  was copied is wiped before the count is lowered, is what an exception between
  the two relies on.
  `GuaranteeHolds`, `OnlyRandomBytesLeave` and `ReseedingIsRegular` assume
  `Undisturbed` (no exceptions, entropy that delivers); section 7 shows that they
  need to. The invariant `Guarded` has five parts: `Control` (the count by
  phase), `BufferHolds` (wiped above `Low`, the current generation below),
  `KeyCell` (which key is in the cell at which step), `KeysUsed` (each key used came
  from the end of the generation before it or from fresh entropy) and `NeverKeys`
  (what is delivered is generated, and never a byte that became a key). With
  it the closure of what the memory reveals is written down: nothing beyond the
  memory between two generations (`MemoryIsSafe`), and the current generation,
  none of which is out, while the key is being replaced (`FullBufferIsSafe`).

* `PortableProofs`, first part: `TypeCorrect`, `CellsAreExact`, `WrittenLengthIsExact`
  of `LengthCells`, for words whose number of values is any multiple of 8. The properties
  are inductive as they are; the lemmas `CountIsExact` (the test `l > maxBound - n` sees
  exactly the overflows) and `BitsAreExact` (two shifts are a product with 8) do the work.
* `PortableProofs`, second part: `StandardImplemented`, that the portable C code of
  sha1, sha256, sha512, blake2b and blake2s implements `CompressStandard`, at full width,
  for any number of streams with any content, length and initial count, cut into calls
  in any way, on each of the builds in `Endian`. Assumed is `StreamsAssumption`, no
  more. The argument follows the ways in which the code differs from the standard:
  * Sums are written in another order. `CarryBits` characterises the carry of a sum
    without recursion; from it `AddCommutes` and `AddAssociates` (the carries of three
    words, in either order, have the same number at every position).
  * Counters: `AddNumbers` (the digits of a sum are the sum of the digits),
    `CountedBlake2b` (the two words with the test `l > UINT64_MAX - n` are one word of 128
    bits), `CountedTwice` (64 times the blocks, added by Haskell after a call, is what the
    C code added block by block).
  * The host: each of the 32 and 64 bit conversions, built in or portable, swaps
    where the host's order is not the one wanted and only there, so that LOAD gives
    the words of the standard (`LoadedWords`).
  * Registers: the macros rename the letters. At step `t` letter `j` is in register
    `(j - t) % n`; two writes are a shift of all letters by one place (`Moved8`, `Moved5`).
    In BLAKE2 the rows are not rotated and back for the diagonals: the
    quadruples are chosen instead (`ColumnOfRotated`, `Blake2bMixes`, `Blake2sMixes`).
  * The schedule is replaced in place, one statement at a time, while the standard
    makes a list that grows. `WordMade` says that the sixteen cells are always
    the last sixteen words of that list.

  The invariant `CompressInv` has four parts, checked with TLC before it was proved:
  `CallsOK` (where in which call the code is, and that the last block of BLAKE2 is left to
  its own call), `CountersOK` (how far the counter of a running call is ahead of the
  cells), `ArraysOK` (domains, the place in the block), `WordsOK` (the cells are the words
  of the block or their expansion). The refinement is not inductive without it: a step
  uses the word of the standard only because of `WordsOK`, and on return the cells agree
  with the total only because of `CountersOK`.
* `PortableProofs`, third part: ChaCha20. `ChaChaImplemented`: `PortableCipher` implements
  `CipherStandard`, and `ChaChaRecovered`: the way back gives the text (`Recovered`), for
  any set of texts as `ChaChaText` describes them: a key of 32 bytes, a nounce of 12, any
  first counter, any number of blocks of which any may be short, any host. `MCPortable`
  assumes `ChaChaTexts`, which has TLC check that the texts of the run are such texts.
  Where the code and the standard differ:
  * `ROUND` does four quarter rounds on columns and four on diagonals in the registers,
    the standard does lines of a matrix and turns it: `ChaChaRound`, by `LinePlaces`
    (which register is which place of which line).
  * The registers are loaded with words: `ChaChaStart` says that they are the
    matrix, `LeastWords` what a little endian word of the key is, `Constants` that
    `C0` to `C3` spell the sigma of the standard.
  * `valCtr` has 32 bits and wraps; the standard adds the number of the block to the
    counter in 128 bits and takes a part: `ChaChaCounts`.
  * `XOR` works on the words of the host's memory: `ChaChaXored`, from `StoredLeast`, for
    blocks of any length.

  `ChaChaInv` is the invariant: the key is kept, what is left of a call lies in the text,
  and `iv` between the calls, `valCtr` inside of them, is the counter of the next
  block. Without the last part neither the start of a block nor that of a call is
  a step of the standard. For `ChaChaRecovered` the invariant is joined by `CoverInv`: the
  registers are so many double rounds from the matrix of their block (`Doubles`, by the
  existence of the sequence of states, since the number of rounds is a variable), and
  block `k` is the one of the text, or that xored with its key stream, according to
  phase and place.
* `SecureMemoryProofs`: `SecretsAreWiped` and `LocksEnd` for any number of calls
  and pages, with the invariant `Tidy`: regions are apart, and a secret of a
  secure call lies in its region while it is at the action or the wipe.
  `SecretsAreNotSwapped` assumes `OwnPages`; it needs `Covered`, that all pages
  of a call are locked from lock to unlock, which sharing breaks.
  `ExceptionsAlone` needs no more than `Tidy`: a plain call that has not been
  abandoned is either inside its region or has wiped it.
* `KeyedMacProofs`: `TypeCorrect` and `KeyIsFirst`, for blocks, hashes, keys and
  messages of every size. The invariant adds `Underway` to the two properties:
  the hash has consumed whole blocks, and `atStart` is down only when part of the
  message has been consumed. Without the second, the last bytes of a session whose
  key was never hashed could not be told from those of one whose key was.
  `SessionRefined`, that `KeyedMac` implements `MacSession`, adds `KeyKnown` (what the
  key buffer holds is the padded key) and uses the lemma on padded tails from
  `PaddingProofs`. It assumes that no key is empty; `mac_empty_key` in
  section 7 shows that it needs to.

* `OneShotDigestProofs`: `TypeCorrect`, `SourcesKeepTheirWord`, `ChunksAreComplete`,
  `DigestIsOfSource`, and `SessionRefined`, that a call implements `MessageDigest`, for
  lists of any length whose members have any size. `MoreRemains` speaks of the moment
  after a fill. To carry it through a call the invariant needs `Supplied` (what was
  read and what is left in the sources add up to what there was to read; a sum
  over a list is stated by the existence of its partial sums) and `LastHeld`: a call
  that has compressed something still has bytes in the buffer or in a source,
  which is why the last block is never compressed early. `InOrder` says that
  the consumed stream and the front of the buffer are the bytes 1, 2, 3, ... of the
  input; it holds until a read is torn, and `ChunksAreComplete` says that
  only a torn read makes an incomplete chunk, the case of `one_shot_race`.
* `HashContextProofs.SessionRefined`: each step of the context is a step of
  `MessageDigest` or a stutter, under the invariant above. The steps that account for a
  read are `Feed`, with just the bytes that were read, or `FeedTorn`. A digest is `Spoiled`
  only in a torn session, or in a stranded one, whose source failed.
* `AuthEncryptProofs`: `TypeCorrect`, `StreamIsApart`, `OnlyLockedIsDecrypted`, and
  `BoxRefined`, that `AuthEncrypt` implements `SealedBox`. Assumed are block sizes with
  `2 * AuthBlock <= CipherBlock` (r and s come from one block) and texts of at most
  `Limit - 1` blocks, the limit that RFC 7539 sets; the code does not test it. None of
  the four properties is inductive. `Boxes` says that every locked packet is a
  function of its key, nounce, data and text, `Cells` that the cells of
  a call are those of its arguments from the moment they are used, whatever the
  memory held before, `Made` that what a call has produced so far was computed from
  these cells. `BlocksCounted` is the arithmetic of `StreamIsApart`: blocks of a text are
  numbered from one and do not come back to zero, which keys the authenticator. For
  `OnlyLockedIsDecrypted` a packet that verifies is compared with the locked packet
  its tag came from: each byte of the authenticator's key names the key and the
  nounce, and `AuthWrite`, with its paddings and two lengths, is injective. Packets
  arrive from anywhere, put together from parts of locked ones in any way. In `BoxRefined`,
  xoring the same stream twice gives the text back.

Left to TLC: liveness under fairness (`UpdatesReturn`, `RequestReturns`, `Terminates`),
which is out of the prover's reach. `KnownDigests` and `KnownTexts`
compare with published results of given texts: they are computations, which the proofs
complement, since an error common to the code and to `CompressStandard` would show there alone.
`ImplementsCipher` and `Recovered` are proved for ChaCha20 and checked on the texts of
`CipherJobs` for AES and Salsa20: AES asks for arithmetic in a field of 256 elements against
tables, bit by bit.
`Blake2Sound` is asked of an instance of `HashContext`:
each of its parts is a theorem of `HashContextProofs`, which holds for either padding, as
does the refinement of `MessageDigest`, which the run checks with that of sha2 alone.

## 7. Disagreements of code and documentation

* `random_key_kept`: the guarantee "at any point of time, a compromise of the
  cipher state and/or the auxiliary buffer does not reveal the random data that
  is given out previously" (`api/random/PRGenerator.hs:87`) fails if an
  asynchronous exception strikes in a `reseed` after the blocks are generated
  and before the key is replaced, and is caught inside the session: the
  next request gives out bytes of the key that is still in memory.
* `mac_empty_key`: "the message is essentially appended to the key and hashed"
  (`core/Raaz/Primitive/Keyed/Internal.hs:30`). Of an empty key nothing is written to
  the key buffer (`indef/keyed/hash/Mac/Implementation.hs:117`), which is hashed in
  front of the message all the same: the tag depends on old memory.
* `one_shot_race`: "action on a complete chunk" (`core/Raaz/Core/ByteSource.hs:101`).
  `fillBytes` of a handle drops the count it read if the file is not at its end
  afterwards; if the file grew in between, a chunk with old bytes is compressed.
  Sessions have the same race: `updateDigest` adds "the entirety of the byte source" to
  the context (`api/digest/Interface.hs:80`), but after such a read `unsafeFillFrom`
  sets the context full (`indef/buffer/Context.hs:235`) and `unsafeContinue` compresses
  the whole buffer, whatever was read. `StreamIntact` and `DigestOfMessage` except the
  sessions in which this happened (`torn`), and no others.
* `secure_swapped`: "will not be swapped during the action"
  (`core/Raaz/Core/Types/Pointer.hs:280`). Regions are not aligned to pages and
  `munlock` does not nest.

Without exceptions and with a working entropy source the first one holds; the run
`random` checks that, and `PRGeneratorProofs` proves it for every size. Two more
facts need the same conditions, and lose them as follows. `unsafeWriteTo` wipes
before it lowers the count (`indef/buffer/Context.hs:207`), so that after an
exception in between, caught inside the session, the next request delivers wiped
bytes. The result of `getEntropy` is dropped (`api/random/PRGenerator.hs:155`), so that
a failure it reports by its result (`getrandom` returns -1) counts as a reseed.

`unsafeWriteTo` also copies before it wipes (line 206). An exception in between, caught inside
the session, leaves bytes in the buffer, still counted, that the caller's memory
holds already: the next request delivers them again, although "every use of data from the
auxiliary buffer [...] is wiped out immediately" (`api/random/PRGenerator.hs:79`).
`NoByteTwice` states this as its only exception (`unwiped`).

The model of a failing source shows one more corner: a source that throws inside
`unsafeContinue` leaves a blake2 session whose last block has already been
compressed. Finalising it compresses a block of zeros. No document promises
anything here, so `DigestOfMessage` and `MessageDigest` state it, next to the torn
read, as an exception (`Stranded`, `Spoiled`).

`withMemory` does not wipe after an exception, while `raaz/Raaz.hs:83` says that
the buffer is "zeroed at the end of the action". `OnlyExceptionsLeave` states what
the code does instead: the secret of a plain call stays in free memory only
if an exception ended the call; those of secure calls never do.

## 8. Not modelled

* The arithmetic of Poly1305: `libverse` (a submodule, empty here, like `wiki`)
  computes it; in `AuthEncrypt` a tag stands for what it is computed from. The
  choice of blocks in `implementation/Poly1305/CPortable.hs` is planned.
* `encryptAt` and `decryptAt` of `api/encrypt`; the comparison in `verify` of the MACs
  (in `AuthEncrypt` it is an equality of tags).
* Memory layout, parsing, encodings, the monoid of comparisons, the command line
  tool: planned in section 3.
* CPU detection: queries of the compiler's built-ins without state.
* `old-raaz`, `monocypher` (third-party), tests and benchmarks: not part of the library.

Limits of what is modelled. `cipher/cportable/aes.c`, `cipher/aes/*.c` and
`cipher/cportable/salsa20.c` are in the repository but the library does not build
them. `salsa20.c` xors words of the host's byte order (lines 185-187), so it is
modelled on little-endian hosts alone. CBC decryption of no blocks reads before
its argument (`cportable/aes.c:528`), so a call has at least one block. That the
copy of the iv is never freed (`cportable/aes.c:529`) does not show in the model.
The (non-)masking of exceptions is modelled in `PRGenerator` and `SecureMemory`;
elsewhere an exception abandons a memory that the next call initialises. The
status of each component is in PROJECT.json.
