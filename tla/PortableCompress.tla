-------------------------- MODULE PortableCompress --------------------------
(***************************************************************************)
(* The compression functions in portable C and the Haskell code that calls *)
(* them (Sha256/CHandWritten.hs, Blake2b/CHandWritten.hs, ...): the blocks *)
(* of one stream are handed over in calls of one or several blocks, and    *)
(* BLAKE2 gets its last block in a call of its own.  A step of the model   *)
(* is one use of the macro Step or G, one statement of SCHEDULE, or the    *)
(* load or the update of a block.                                          *)
(***************************************************************************)
EXTENDS Integers, Sequences

CONSTANTS
  Jobs,   \* the streams: function, hash and count at the start, blocks
  Builds  \* the hosts it is built for (module Endian)

VARIABLES
  job, host,
  pc,     \* "caller", "loop", "step", "schedule"
  left,   \* nblocks of the running call
  asked,  \* nblocks that the caller passed
  done,   \* blocks compressed so far: where mesg points to
  hash,   \* the array hash
  cell,   \* the length cells of the BLAKE2 memory
  count,  \* upper and lower, or length: the counter inside the call
  reg,    \* a, b, c, ... or x0 .. x15
  w,      \* w0 .. w15
  t,      \* the number of the next use of Step or G
  i,      \* the next statement of SCHEDULE
  used    \* history: the message words of the steps of this block

vars == <<job, host, pc, left, asked, done, hash, cell, count, reg, w, t, i, used>>

Sha1    == INSTANCE Sha1Portable
Sha256  == INSTANCE Sha256Portable
Sha512  == INSTANCE Sha512Portable
Blake2b == INSTANCE Blake2bPortable
Blake2s == INSTANCE Blake2sPortable

(* What the Haskell code hands over: a hash of five or eight words, whole  *)
(* blocks, and for BLAKE2 the length so far, in 128 or in 64 bits, and the *)
(* bytes of the message that are in the last block.                        *)
Digests(n) == [0 .. n - 1 -> SUBSET (0 .. 63)]
Blocks(n)  == Seq([1 .. n -> SUBSET (0 .. 7)])

ShaStream(x) ==
  /\ x.hash \in Digests(IF x.fn = "sha1" THEN 5 ELSE 8)
  /\ x.blocks \in Blocks(IF x.fn = "sha512" THEN 128 ELSE 64)
  /\ x.total = {} /\ x.last = FALSE

Blake2Stream(x) ==
  LET n == IF x.fn = "blake2b" THEN 128 ELSE 64
  IN  /\ x.hash \in Digests(8)
      /\ x.blocks \in Blocks(n)
      /\ x.total \subseteq 0 .. n - 1
      /\ x.last \in BOOLEAN /\ x.lastBytes \in 0 .. n
      /\ x.last => x.blocks # << >>

ASSUME StreamsAssumption ==
  /\ Builds \subseteq Sha1!Hosts
  /\ \A x \in Jobs : \/ x.fn \in {"sha1", "sha256", "sha512"} /\ ShaStream(x)
                     \/ x.fn \in {"blake2b", "blake2s"} /\ Blake2Stream(x)

fn == job.fn
IsSha == fn \in {"sha1", "sha256", "sha512"}

Rounds == CASE fn = "sha1" -> Sha1!Rounds [] fn = "sha256" -> Sha256!Rounds
            [] fn = "sha512" -> Sha512!Rounds [] fn = "blake2b" -> Blake2b!Rounds
            [] fn = "blake2s" -> Blake2s!Rounds

(* Blocks that go through the block compression: BLAKE2 keeps the last one *)
(* of the message for its LastBlock function.                              *)
Ordinary == IF job.last THEN Len(job.blocks) - 1 ELSE Len(job.blocks)

Idle == /\ reg' = << >> /\ w' = << >> /\ t' = 0 /\ i' = 0 /\ used' = << >>

(* The length cells after a number of bytes, given as one wide word.       *)
CellOf(n) == CASE fn = "blake2b" -> Blake2b!CountOf(n)
               [] OTHER -> n

Init ==
  /\ job \in Jobs /\ host \in Builds
  /\ pc = "caller" /\ left = 0 /\ asked = 0 /\ done = 0
  /\ hash = job.hash
  /\ cell = CellOf(job.total) /\ count = cell
  /\ reg = << >> /\ w = << >> /\ t = 0 /\ i = 0 /\ used = << >>

(* processBlocks calls the C function on n blocks.                         *)
CallCompress(n) ==
  /\ pc = "caller"
  /\ n <= Ordinary - done
  /\ pc' = "loop"
  /\ left' = n /\ asked' = n
  /\ count' = cell
  /\ UNCHANGED <<job, host, done, hash, cell, reg, w, t, i, used>>

LoadWords(bytes) ==
  CASE fn = "sha1"    -> Sha1!Load(host, bytes)
    [] fn = "sha256"  -> Sha256!Load(host, bytes)
    [] fn = "sha512"  -> Sha512!Load(host, bytes)
    [] fn = "blake2b" -> Blake2b!Load(host, bytes)
    [] fn = "blake2s" -> Blake2s!Load(host, bytes)

(* The head of the loop body: the hash goes into the registers, BLAKE2     *)
(* counts the block that it is about to compress, the words are loaded.    *)
LoadSha ==
  /\ pc = "loop" /\ left > 0
  /\ IsSha
  /\ reg' = CASE fn = "sha1" -> Sha1!Registers(hash)
              [] fn = "sha256" -> Sha256!Registers(hash)
              [] fn = "sha512" -> Sha512!Registers(hash)
  /\ w' = LoadWords(job.blocks[done + 1])
  /\ pc' = "step" /\ t' = 0
  /\ UNCHANGED <<job, host, left, asked, done, hash, cell, count, i, used>>

LoadBlake2b ==
  /\ pc = "loop" /\ left > 0
  /\ fn = "blake2b"
  /\ count' = Blake2b!Counted(count, Len(job.blocks[done + 1]))
  /\ reg' = Blake2b!Registers(hash, count', {}, {})
  /\ w' = LoadWords(job.blocks[done + 1])
  /\ pc' = "step" /\ t' = 0
  /\ UNCHANGED <<job, host, left, asked, done, hash, cell, i, used>>

LoadBlake2s ==
  /\ pc = "loop" /\ left > 0
  /\ fn = "blake2s"
  /\ count' = Blake2s!Counted(count, Len(job.blocks[done + 1]))
  /\ reg' = Blake2s!Registers(hash, count', {}, {})
  /\ w' = LoadWords(job.blocks[done + 1])
  /\ pc' = "step" /\ t' = 0
  /\ UNCHANGED <<job, host, left, asked, done, hash, cell, i, used>>

(* processLast calls LastBlock with the bytes of the message that are in   *)
(* the last block, the cells and the flags f0 = complement 0, f1 = 0.      *)
LastBlake2b ==
  /\ pc = "caller" /\ job.last /\ done = Ordinary
  /\ fn = "blake2b"
  /\ count' = Blake2b!Counted(cell, job.lastBytes)
  /\ reg' = Blake2b!Registers(hash, count', 0 .. 63, {})
  /\ w' = LoadWords(job.blocks[done + 1])
  /\ pc' = "step" /\ t' = 0 /\ left' = 1 /\ asked' = 0
  /\ UNCHANGED <<job, host, done, hash, cell, i, used>>

LastBlake2s ==
  /\ pc = "caller" /\ job.last /\ done = Ordinary
  /\ fn = "blake2s"
  /\ count' = Blake2s!Counted(cell, job.lastBytes)
  /\ reg' = Blake2s!Registers(hash, count', 0 .. 31, {})
  /\ w' = LoadWords(job.blocks[done + 1])
  /\ pc' = "step" /\ t' = 0 /\ left' = 1 /\ asked' = 0
  /\ UNCHANGED <<job, host, done, hash, cell, i, used>>

(* One call of Step.  SCHEDULE follows every sixteenth, the last excepted. *)
StepSha ==
  /\ pc = "step" /\ t < Rounds
  /\ IsSha
  /\ reg' = CASE fn = "sha1" -> Sha1!StepAt(t, reg, w)
              [] fn = "sha256" -> Sha256!StepAt(t, reg, w)
              [] fn = "sha512" -> Sha512!StepAt(t, reg, w)
  /\ used' = Append(used, w[t % 16])
  /\ t' = t + 1
  /\ IF t % 16 = 15 /\ t < Rounds - 1 THEN pc' = "schedule" /\ i' = 0
     ELSE UNCHANGED <<pc, i>>
  /\ UNCHANGED <<job, host, left, asked, done, hash, cell, count, w>>

(* One use of G. *)
StepBlake2 ==
  /\ pc = "step" /\ t < Rounds
  /\ ~IsSha
  /\ reg' = IF fn = "blake2b" THEN Blake2b!StepAt(t, reg, w) ELSE Blake2s!StepAt(t, reg, w)
  /\ t' = t + 1
  /\ UNCHANGED <<job, host, pc, left, asked, done, hash, cell, count, w, i, used>>

ScheduleStatement ==
  /\ pc = "schedule"
  /\ w' = CASE fn = "sha1" -> Sha1!Schedule(i, w)
            [] fn = "sha256" -> Sha256!Schedule(i, w)
            [] fn = "sha512" -> Sha512!Schedule(i, w)
  /\ i' = i + 1
  /\ pc' = IF i = 15 THEN "step" ELSE "schedule"
  /\ UNCHANGED <<job, host, left, asked, done, hash, cell, count, reg, t, used>>

(* The hash is updated and mesg moves to the next block.  LastBlock        *)
(* (nobody asked for a number of blocks) is then over.                     *)
UpdateHash ==
  /\ pc = "step" /\ t = Rounds
  /\ hash' = CASE fn = "sha1" -> Sha1!Update(hash, reg)
               [] fn = "sha256" -> Sha256!Update(hash, reg)
               [] fn = "sha512" -> Sha512!Update(hash, reg)
               [] fn = "blake2b" -> Blake2b!Update(hash, reg)
               [] fn = "blake2s" -> Blake2s!Update(hash, reg)
  /\ left' = left - 1 /\ done' = done + 1
  /\ pc' = IF asked = 0 THEN "caller" ELSE "loop"
  /\ Idle
  /\ UNCHANGED <<job, host, asked, cell, count>>

(* The counter returns to the cells: BLAKE2b stores upper and lower, for   *)
(* BLAKE2s the Haskell code adds the blocks once more (updateLength).      *)
Return ==
  /\ pc = "loop" /\ left = 0
  /\ pc' = "caller"
  /\ cell' = CASE fn = "blake2b" -> count
               [] fn = "blake2s" -> Blake2s!Counted(cell, 64 * asked)
               [] OTHER -> cell
  /\ asked' = 0
  /\ UNCHANGED <<job, host, left, done, hash, count, reg, w, t, i, used>>

Next ==
  \/ \E n \in 0 .. Len(job.blocks) : CallCompress(n)
  \/ LoadSha \/ LoadBlake2b \/ LoadBlake2s \/ LastBlake2b \/ LastBlake2s
  \/ StepSha \/ StepBlake2 \/ ScheduleStatement \/ UpdateHash \/ Return

Spec == Init /\ [][Next]_vars
-----------------------------------------------------------------------------
Running == pc \in {"step", "schedule"}

(* The letters of the standard: at step t, letter j is in register         *)
(* (j - t) modulo the number of registers.                                 *)
LettersOfRegisters ==
  IF ~Running THEN << >>
  ELSE IF IsSha THEN LET n == IF fn = "sha1" THEN 5 ELSE 8
                     IN  [j \in 0 .. n - 1 |-> reg[(j - t) % n]]
  ELSE reg

TotalOf(c) == CASE fn = "blake2b" -> Blake2b!Total(c)
                [] fn = "blake2s" -> c
                [] OTHER -> {}

Standard == INSTANCE CompressStandard WITH
  chain <- hash, blocks <- done,
  total <- TotalOf(IF pc = "caller" /\ done <= Ordinary THEN cell ELSE count),
  round <- IF Running THEN t ELSE -1,
  letters <- LettersOfRegisters, schedule <- used

(* In-place registers and schedule, the calls, the counters kept twice and *)
(* the byte order of the host do not show: on every host the compression   *)
(* takes the steps of the standard, and every stream is hashed as one,     *)
(* however it was cut into calls.                                          *)
ImplementsStandard == Standard!Spec

(* The published digests come out on every host, after any calls.          *)
KnownDigests ==
  (pc = "caller" /\ done = Len(job.blocks) /\ job.known) => hash = job.digest
=============================================================================
