-------------------------- MODULE CompressStandard --------------------------
(***************************************************************************)
(* What the compression functions promise, written as the comments of the  *)
(* C files and the standards write them: the hash moves over the blocks    *)
(* of one stream, one after the other, whatever the calls; in SHA the      *)
(* letters a, b, c, ... move along by one place in every round and the     *)
(* message schedule grows; in BLAKE2 the state is a matrix of four rows    *)
(* whose columns are mixed, then its diagonals.  There are no calls, no    *)
(* registers, no byte order of a host.                                     *)
(***************************************************************************)
EXTENDS Integers, Sequences

VARIABLES
  job,      \* the function, the first hash and the blocks
  chain,    \* the hash after the blocks so far
  blocks,   \* how many blocks that were
  total,    \* how many bytes BLAKE2 has counted
  round,    \* the next round of the block, or none
  letters,  \* a, b, c, ... or the matrix, row by row
  schedule  \* the message words used so far

vars == <<job, chain, blocks, total, round, letters, schedule>>

Sha1    == INSTANCE Sha1Portable
Sha256  == INSTANCE Sha256Portable
Sha512  == INSTANCE Sha512Portable
Blake2b == INSTANCE Blake2bPortable
Blake2s == INSTANCE Blake2sPortable

none == -1

Letters(fn) == IF fn = "sha1" THEN 5 ELSE IF fn \in {"sha256", "sha512"} THEN 8 ELSE 16
Rounds(fn)  == CASE fn = "sha1" -> 80 [] fn = "sha256" -> 64 [] fn = "sha512" -> 80
                 [] fn = "blake2b" -> 96 [] fn = "blake2s" -> 80
IsSha(fn)   == fn \in {"sha1", "sha256", "sha512"}
WordBytes(fn) == IF fn \in {"sha512", "blake2b"} THEN 8 ELSE 4

(* Word t of a block of bytes: SHA takes the most significant byte first,  *)
(* BLAKE2 the least.                                                       *)
MessageWord(fn, block, t) ==
  LET n == WordBytes(fn)
  IN  UNION {{8 * (IF IsSha(fn) THEN n - 1 - k ELSE k) + p : p \in block[n * t + k + 1]}
               : k \in 0 .. n - 1}

(* w16 = rotateL (w13 `xor` w8 `xor` w2 `xor` w0) 1   (sha1/portable.c)    *)
(* w16 = SIGS1(w14) + w9 + SIGS0(w1) + w0   (sha256, sha512/portable.c)    *)
Expand(fn, w) ==
  LET W(n) == w[Len(w) + 1 - n]
  IN  CASE fn = "sha1" ->
             Sha1!RotateL(Sha1!Xor(Sha1!Xor(W(3), W(8)), Sha1!Xor(W(14), W(16))), 1)
        [] fn = "sha256" ->
             Sha256!Add(Sha256!Add(Sha256!SIGS1(W(2)), W(7)),
                        Sha256!Add(Sha256!SIGS0(W(15)), W(16)))
        [] fn = "sha512" ->
             Sha512!Add(Sha512!Add(Sha512!SIGS1(W(2)), W(7)),
                        Sha512!Add(Sha512!SIGS0(W(15)), W(16)))

ScheduleWord(fn, block, w) ==
  IF Len(w) < 16 THEN MessageWord(fn, block, Len(w)) ELSE Expand(fn, w)

(* The rounds, in the words of the comments before the macros Step.        *)
Sha1Round(t, v, w) ==
  LET f == CASE t < 20 -> Sha1!CH(v[1], v[2], v[3])
             [] t \in 40 .. 59 -> Sha1!MAJ(v[1], v[2], v[3])
             [] OTHER -> Sha1!PARITY(v[1], v[2], v[3])
      a == Sha1!Add(Sha1!Add(Sha1!RotateL(v[0], 5), f),
                    Sha1!Add(Sha1!Add(v[4], Sha1!K[t \div 20]), w))
  IN  [j \in 0 .. 4 |-> CASE j = 0 -> a
                          [] j = 2 -> Sha1!RotateL(v[1], 30)
                          [] OTHER -> v[j - 1]]

Sha256Round(t, v, w) ==
  LET t1 == Sha256!Add(Sha256!Add(Sha256!Add(v[7], Sha256!SIGB1(v[4])),
                                  Sha256!CH(v[4], v[5], v[6])),
                       Sha256!Add(Sha256!K[t], w))
      t2 == Sha256!Add(Sha256!SIGB0(v[0]), Sha256!MAJ(v[0], v[1], v[2]))
  IN  [j \in 0 .. 7 |-> CASE j = 0 -> Sha256!Add(t1, t2)
                          [] j = 4 -> Sha256!Add(v[3], t1)
                          [] OTHER -> v[j - 1]]

Sha512Round(t, v, w) ==
  LET t1 == Sha512!Add(Sha512!Add(Sha512!Add(v[7], Sha512!SIGB1(v[4])),
                                  Sha512!CH(v[4], v[5], v[6])),
                       Sha512!Add(Sha512!K[t], w))
      t2 == Sha512!Add(Sha512!SIGB0(v[0]), Sha512!MAJ(v[0], v[1], v[2]))
  IN  [j \in 0 .. 7 |-> CASE j = 0 -> Sha512!Add(t1, t2)
                          [] j = 4 -> Sha512!Add(v[3], t1)
                          [] OTHER -> v[j - 1]]

(* BLAKE2: step t mixes a column; for a diagonal, row i is first rotated   *)
(* left by i places, and put back afterwards.                              *)
Rotated(v, sign) ==
  [x \in 0 .. 15 |-> v[4 * (x \div 4) + (((x % 4) + sign * (x \div 4)) % 4)]]
Mixed(fn, v, c, m0, m1) ==
  IF fn = "blake2b" THEN Blake2b!G(v, c, c + 4, c + 8, c + 12, m0, m1)
  ELSE Blake2s!G(v, c, c + 4, c + 8, c + 12, m0, m1)
BlakeRound(fn, t, v, block) ==
  LET sigma == Blake2b!ROUND[((t \div 8) % 10) + 1]
      m(x) == MessageWord(fn, block, sigma[2 * (t % 8) + x + 1])
  IN  IF t % 8 < 4 THEN Mixed(fn, v, t % 8, m(0), m(1))
      ELSE Rotated(Mixed(fn, Rotated(v, 1), (t % 8) - 4, m(0), m(1)), -1)

Round(fn, t, v, block, w) ==
  CASE fn = "sha1"   -> Sha1Round(t, v, w)
    [] fn = "sha256" -> Sha256Round(t, v, w)
    [] fn = "sha512" -> Sha512Round(t, v, w)
    [] OTHER         -> BlakeRound(fn, t, v, block)

(* BLAKE2 counts the bytes of the stream, padding left out, on 128 (64)    *)
(* bits, and mixes the count and the flag of the last block into row 3.    *)
Counter == INSTANCE Words WITH Bits <- 128
CountWith(fn, n) ==
  {i \in Counter!Add(total, Counter!OfNat(n)) : fn = "blake2b" \/ i < 64}
BlakeStart(fn, h, count, last) ==
  LET w == IF fn = "blake2b" THEN 64 ELSE 32
      iv == IF fn = "blake2b" THEN Blake2b!iv ELSE Blake2s!iv
  IN  [j \in 0 .. 15 |->
         CASE j < 8  -> h[j]
           [] j = 12 -> Counter!Xor(iv[4], {i \in count : i < w})
           [] j = 13 -> Counter!Xor(iv[5], {i - w : i \in {p \in count : p >= w}})
           [] j = 14 -> IF last THEN (0 .. w - 1) \ iv[6] ELSE iv[6]
           [] OTHER  -> iv[j - 8]]

Block(k) == job.blocks[k]
Size(k) == IF k = Len(job.blocks) /\ job.last THEN job.lastBytes ELSE Len(Block(k))

Final(fn, h, v) ==
  [j \in DOMAIN h |->
     CASE fn = "sha1" -> Sha1!Add(h[j], v[j])
       [] fn = "sha256" -> Sha256!Add(h[j], v[j])
       [] fn = "sha512" -> Sha512!Add(h[j], v[j])
       [] OTHER -> Counter!Xor(h[j], Counter!Xor(v[j], v[j + 8]))]
-----------------------------------------------------------------------------
Idle == round = none /\ letters = << >> /\ schedule = << >>

Init ==
  /\ chain = job.hash
  /\ blocks = 0
  /\ total = job.total
  /\ Idle

Begin ==
  /\ round = none
  /\ blocks < Len(job.blocks)
  /\ round' = 0
  /\ schedule' = << >>
  /\ LET fn == job.fn
         k  == blocks + 1
     IN  IF IsSha(fn)
         THEN letters' = chain /\ UNCHANGED total
         ELSE /\ total' = CountWith(fn, Size(k))
              /\ letters' = BlakeStart(fn, chain, total', job.last /\ k = Len(job.blocks))
  /\ UNCHANGED <<job, chain, blocks>>

Advance ==
  /\ round # none
  /\ round < Rounds(job.fn)
  /\ round' = round + 1
  /\ LET fn == job.fn
         block == Block(blocks + 1)
     IN  /\ schedule' = IF IsSha(fn)
                        THEN Append(schedule, ScheduleWord(fn, block, schedule))
                        ELSE schedule
         /\ letters' = Round(fn, round, letters, block,
                             IF IsSha(fn) THEN schedule'[round + 1] ELSE {})
  /\ UNCHANGED <<job, chain, blocks, total>>

End ==
  /\ round = Rounds(job.fn)
  /\ chain' = Final(job.fn, chain, letters)
  /\ blocks' = blocks + 1
  /\ round' = none /\ letters' = << >> /\ schedule' = << >>
  /\ UNCHANGED <<job, total>>

Next == Begin \/ Advance \/ End

Spec == Init /\ [][Next]_vars
=============================================================================
