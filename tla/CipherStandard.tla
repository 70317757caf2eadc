--------------------------- MODULE CipherStandard ---------------------------
(***************************************************************************)
(* What the ciphers promise: each block of a text is transformed once, in  *)
(* rounds, as the mode of operation says, in any order in which the blocks *)
(* it needs are there.  There are no calls, no registers, no byte order of a host.  *)
(***************************************************************************)
EXTENDS Integers, Sequences

VARIABLES
  job,    \* cipher, mode, key and iv, the text at the start
  phase,  \* 1: the mode of the job, 2: back again
  keys,   \* the round keys of AES, 16 bytes each
  orig,   \* the text at the start of the phase
  text,   \* the text now
  did,    \* the blocks of it that were transformed
  cur,    \* the block that is being transformed, or 0
  round,  \* its rounds so far
  state   \* the state of AES, or the matrix

vars == <<job, phase, keys, orig, text, did, cur, round, state>>


Aes    == INSTANCE AesStandard
Stream == INSTANCE StreamStandard
Long   == INSTANCE Words WITH Bits <- 128

(* The direction of the phase. *)
Encrypting == (job.encrypt) = (phase = 1)

(* The 16 bytes of a counter block, most significant first, n steps on.    *)
CounterBlock(start, n) ==
  LET sum == Long!Add(UNION {{8 * (16 - b) + p : p \in start[b]} : b \in 1 .. 16},
                      Long!OfNat(n))
  IN  [b \in 1 .. 16 |-> {p \in 0 .. 7 : 8 * (16 - b) + p \in sum}]

IsAes == job.cipher = "aes"
Nr == (Len(job.key) \div 4) + 6
Rounds == IF IsAes THEN Nr ELSE job.rounds \div 2
Backwards == ~Encrypting /\ job.mode # "stream"

(* The matrix of a block of key stream, whose counter is a word of 64 bits. *)
Matrix(k) ==
  LET count == {p \in Long!Add(job.counter, Long!OfNat(k - 1)) : p < 64}
  IN  IF job.cipher = "chacha20" THEN Stream!ChaChaMatrix(job.key, job.iv, count)
      ELSE Stream!SalsaMatrix(job.key, job.iv, count)

Before(s, k) == IF k = 1 THEN job.iv ELSE s[k - 1]

(* What AES is applied to for block k, and what becomes of its result s.   *)
Input(k) ==
  CASE job.mode = "stream" -> CounterBlock(job.iv, k - 1)
    [] job.mode = "cbc" /\ Encrypting -> Aes!XorBytes(text[k], Before(text, k))
    [] OTHER -> text[k]
Output(k, s) ==
  CASE job.mode = "stream" ->
         Aes!XorBytes(text[k], IF IsAes THEN s ELSE Stream!LittleEndian(Stream!AddWords(s, Matrix(k))))
    [] job.mode = "cbc" /\ ~Encrypting -> Aes!XorBytes(s, Before(orig, k))
    [] OTHER -> s

Round(n, s) ==
  CASE IsAes -> IF Backwards THEN Aes!InvCipher(keys, s, n, Nr) ELSE Aes!Cipher(keys, s, n, Nr)
    [] job.cipher = "chacha20" -> Stream!ChaChaDouble(s)
    [] job.cipher = "salsa20" -> Stream!DoubleRound(s)
-----------------------------------------------------------------------------
Init ==
  /\ phase = 1
  /\ keys = << >>
  /\ text = job.text /\ orig = job.text
  /\ did = {}
  /\ cur = 0 /\ round = 0 /\ state = << >>

Expand ==
  /\ IsAes /\ keys = << >>
  /\ keys' = Aes!RoundKeys(job.key)
  /\ UNCHANGED <<job, phase, orig, text, did, cur, round, state>>

Begin(k) ==
  /\ cur = 0 /\ k \notin did
  /\ IsAes => keys # << >>
  /\ (job.mode = "cbc" /\ Encrypting) => (k = 1 \/ k - 1 \in did)
  /\ cur' = k
  /\ state' = IF IsAes THEN Aes!XorBytes(Input(k), keys[IF Backwards THEN Nr ELSE 0])
              ELSE Matrix(k)
  /\ UNCHANGED <<job, phase, keys, orig, text, did, round>>

Advance ==
  /\ cur # 0 /\ round < Rounds
  /\ round' = round + 1
  /\ state' = Round(round', state)
  /\ UNCHANGED <<job, phase, keys, orig, text, did, cur>>

End ==
  /\ cur # 0 /\ round = Rounds
  /\ text' = [text EXCEPT ![cur] = Output(cur, state)]
  /\ did' = did \cup {cur}
  /\ cur' = 0 /\ round' = 0 /\ state' = << >>
  /\ UNCHANGED <<job, phase, keys, orig>>

(* All is done: now the other way. *)
Turn ==
  /\ phase = 1 /\ did = DOMAIN text
  /\ phase' = 2
  /\ orig' = text /\ did' = {}
  /\ UNCHANGED <<job, keys, text, cur, round, state>>

Next == Expand \/ (\E k \in DOMAIN text : Begin(k)) \/ Advance \/ End \/ Turn

Spec == Init /\ [][Next]_vars
=============================================================================
