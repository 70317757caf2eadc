--------------------------- MODULE PortableCipher ---------------------------
(***************************************************************************)
(* The ciphers in portable C, driven as the memory of a cipher is: the key *)
(* is expanded once, then the text is handed over in calls of some blocks, *)
(* in place, the iv or the counter being kept from one call to the next.   *)
(* When all is done the result is put through the inverse, starting from   *)
(* the first iv again.  A step is an iteration of the key expansion, a     *)
(* round of a block, or what comes before and after the rounds.            *)
(***************************************************************************)
EXTENDS Integers, Sequences

CONSTANTS Jobs   \* the texts: lib, cipher, mode, key, iv, host, ...

VARIABLES
  job, phase,
  pc,      \* "expand", "caller", "loop", "rounds"
  eKey,    \* the expanded key so far
  i,       \* the iteration of the expansion
  prev,    \* prev of the expansion of a 192 bit key
  text,    \* the blocks; the last one may be short
  iv,      \* what is kept between calls: iv, counter, matrix
  done,    \* the blocks of the calls that are over
  asked,   \* nblocks of the running call
  left,    \* blocks it still has to do
  valCtr,  \* the counter that ChaCha20 has in a register
  x,       \* the state of a block: rows, x0 .. x15, out
  r,       \* its rounds so far
  saved,   \* endIV, ivCopy
  orig     \* history: the text at the start of the phase

vars == <<job, phase, pc, eKey, i, prev, text, iv, done, asked, left, valCtr, x, r, saved, orig>>

Rows     == INSTANCE AesRows
Portable == INSTANCE AesPortable
ChaCha   == INSTANCE ChaCha20Portable
Salsa    == INSTANCE Salsa20Portable

(* A text for raazChaCha20Block: Key and IV as their bytes, a Counter, and *)
(* blocks of 64 bytes, of which the last may be short.                     *)
Byte == SUBSET (0 .. 7)
Bytes(n) == {s \in Seq(Byte) : Len(s) = n}
ChaChaText(z) ==
  /\ z.lib = "chacha20" /\ z.cipher = "chacha20" /\ z.mode = "stream" /\ z.rounds = 20
  /\ z.encrypt \in BOOLEAN /\ z.host \in ChaCha!Hosts
  /\ z.key \in Bytes(32) /\ z.iv \in Bytes(12) /\ z.counter \subseteq 0 .. 31
  /\ z.text \in Seq(Seq(Byte)) /\ \A b \in 1 .. Len(z.text) : Len(z.text[b]) <= 64

lib == job.lib
Encrypting == (job.encrypt) = (phase = 1)
Mode(m, encrypting) == job.mode = m /\ Encrypting = encrypting

Nk == Len(job.key) \div 4
k  == CASE Nk = 4 -> "KEY128" [] Nk = 6 -> "KEY192" [] Nk = 8 -> "KEY256"
Nr == IF lib = "rows" THEN Rows!Nr(Nk) ELSE Portable!getnr(k)

(* The words of key and iv as the cells of the Haskell memory and the      *)
(* loads of salsa20.c have them.                                           *)
WordsLE(bytes) ==
  [n \in 1 .. Len(bytes) \div 4 |->
     Rows!MK([b \in 1 .. 4 |-> bytes[4 * n + 1 - b]])]

(* What the caller puts into the cells before the first block.             *)
InitialIv ==
  CASE lib = "rows"     -> Rows!Load(job.iv)
    [] lib = "portable" -> job.iv
    [] lib = "chacha20" -> job.counter
    [] lib = "salsa20"  ->
         LET counter == <<{p \in job.counter : p < 32}, {p - 32 : p \in {q \in job.counter : q > 31}}>>
             words == WordsLE(job.key \o job.iv) \o counter
         IN  IF Nk = 4 THEN Salsa!expand128(words) ELSE Salsa!expand256(words)

Init ==
  /\ job \in Jobs
  /\ phase = 1
  /\ pc = IF job.cipher = "aes" THEN "expand" ELSE "caller"
  /\ eKey = CASE lib = "rows" -> Rows!KeyColumns(Nk, job.key)
              [] lib = "portable" -> Portable!ExpandStart(job.key, k)
              [] OTHER -> WordsLE(job.key)
  /\ i = IF lib = "portable" THEN Portable!ExpandFrom(k) ELSE 0
  /\ prev = IF lib = "portable" /\ k = "KEY192" THEN Portable!ExpandPrev(job.key) ELSE << >>
  /\ text = job.text
  /\ iv = InitialIv
  /\ done = 0 /\ asked = 0 /\ left = 0 /\ valCtr = {} /\ x = << >> /\ r = 0 /\ saved = << >>
  /\ orig = job.text

(* raazAESExpand, then raazAESTranspose. *)
ExpandColumn ==
  /\ pc = "expand" /\ lib = "rows"
  /\ Len(eKey) < 4 * (Nr + 1)
  /\ eKey' = Rows!ExpandColumn(Nk, eKey)
  /\ UNCHANGED <<job, phase, pc, i, prev, text, iv, done, asked, left, valCtr, x, r, saved, orig>>

TransposeKey ==
  /\ pc = "expand" /\ lib = "rows"
  /\ Len(eKey) = 4 * (Nr + 1)
  /\ eKey' = Rows!Transpose(eKey)
  /\ pc' = "caller"
  /\ UNCHANGED <<job, phase, i, prev, text, iv, done, asked, left, valCtr, x, r, saved, orig>>

(* raazCipherAESExpand *)
ExpandRows ==
  /\ pc = "expand" /\ lib = "portable"
  /\ eKey' = CASE k = "KEY128" -> Portable!Expand128(eKey, i)
               [] k = "KEY192" -> Portable!Expand192(eKey, prev, i)
               [] k = "KEY256" -> Portable!Expand256(eKey, i)
  /\ prev' = IF k = "KEY192" THEN Portable!Curr192(prev, i) ELSE prev
  /\ i' = i + 1
  /\ pc' = IF i = Portable!ExpandTo(k) THEN "caller" ELSE "expand"
  /\ UNCHANGED <<job, phase, text, iv, done, asked, left, valCtr, x, r, saved, orig>>
-----------------------------------------------------------------------------
(* The head of a call.  The functions for CBC decryption start from the    *)
(* last block and keep it as the next iv; with no blocks at all CBC is     *)
(* undefined in both files (they read the block before the text), so that  *)
(* there n > 0.                                                            *)
Call(n) ==
  /\ pc = "caller"
  /\ n <= Len(text) - done
  /\ job.mode = "cbc" => n > 0
  /\ asked' = n /\ left' = n /\ pc' = "loop"
  /\ saved' = CASE Mode("cbc", FALSE) /\ lib = "rows"     -> Rows!Load(text[done + n])
                [] Mode("cbc", FALSE) /\ lib = "portable" -> text[done + n]
                [] OTHER -> << >>
  /\ x' = CASE Mode("cbc", FALSE) /\ lib = "rows" -> saved'
            [] Mode("cbc", TRUE) /\ lib = "rows"  -> iv
            [] OTHER -> << >>
  /\ valCtr' = IF lib = "chacha20" THEN iv ELSE {}
  /\ UNCHANGED <<job, phase, eKey, i, prev, text, iv, done, r, orig>>

Position == done + asked - left + 1      \* where the pointer is, going forward
Cursor   == done + left                  \* and going back
Forward  == Encrypting \/ job.mode = "stream"

Begin(l) == pc = "loop" /\ left > 0 /\ lib = l /\ pc' = "rounds" /\ r' = 0
Round(l, rounds) == pc = "rounds" /\ lib = l /\ r < rounds /\ r' = r + 1
End(l, rounds) == pc = "rounds" /\ lib = l /\ r = rounds /\ pc' = "loop" /\ r' = 0
Write(b, block) == text' = [text EXCEPT ![b] = block] /\ left' = left - 1

(* cportable/aes.c: what the block functions are given.  CBC xors the      *)
(* block in place before, which nobody sees.                               *)
InputPortable ==
  CASE Mode("cbc", TRUE) -> Portable!Xor128(text[Position], IF left = asked THEN iv
                                                            ELSE text[Position - 1])
    [] Mode("cbc", FALSE) -> text[Cursor]
    [] job.mode = "ecb"  -> text[Position]
    [] job.mode = "stream" -> iv

BeginPortable ==
  /\ Begin("portable")
  /\ x' = IF Forward THEN Portable!EncryptStart(eKey, InputPortable, Nr)
          ELSE Portable!DecryptStart(eKey, InputPortable, Nr)
  /\ UNCHANGED <<job, phase, eKey, i, prev, text, iv, done, asked, left, valCtr, saved, orig>>

EncryptRoundPortable ==
  /\ Round("portable", Nr) /\ Forward
  /\ x' = Portable!EncryptRound(eKey, x, r', Nr)
  /\ UNCHANGED <<job, phase, pc, eKey, i, prev, text, iv, done, asked, left, valCtr, saved, orig>>

DecryptRoundPortable ==
  /\ Round("portable", Nr) /\ ~Forward
  /\ x' = Portable!DecryptRound(eKey, x, r', Nr)
  /\ UNCHANGED <<job, phase, pc, eKey, i, prev, text, iv, done, asked, left, valCtr, saved, orig>>

EndECBBlock ==
  /\ End("portable", Nr) /\ job.mode = "ecb"
  /\ Write(Position, Portable!StoreRows(x)) /\ x' = << >>
  /\ UNCHANGED <<job, phase, eKey, i, prev, iv, done, asked, valCtr, saved, orig>>

EndCBCEncryptBlock ==
  /\ End("portable", Nr) /\ Mode("cbc", TRUE)
  /\ Write(Position, Portable!StoreRows(x)) /\ x' = << >>
  /\ UNCHANGED <<job, phase, eKey, i, prev, iv, done, asked, valCtr, saved, orig>>

(* Broken variant: the iv of the call goes to every block.                 *)
EndCBCDecryptBlockWithIv ==
  /\ End("portable", Nr) /\ Mode("cbc", FALSE)
  /\ Write(Cursor, Portable!Xor128(Portable!StoreRows(x), iv))
  /\ x' = << >>
  /\ UNCHANGED <<job, phase, eKey, i, prev, iv, done, asked, valCtr, saved, orig>>

(* Backwards: the block before is still the encrypted one.                 *)
EndCBCDecryptBlock ==
  /\ End("portable", Nr) /\ Mode("cbc", FALSE)
  /\ Write(Cursor, Portable!Xor128(Portable!StoreRows(x),
                                   IF left > 1 THEN text[Cursor - 1] ELSE iv))
  /\ x' = << >>
  /\ UNCHANGED <<job, phase, eKey, i, prev, iv, done, asked, valCtr, saved, orig>>

(* A last block of fewer bytes moves the counter on like any other.        *)
EndCTRBlock ==
  /\ End("portable", Nr) /\ job.mode = "stream"
  /\ Write(Position, Portable!Xor128(text[Position], Portable!StoreRows(x)))
  /\ iv' = Portable!Incr128(iv) /\ x' = << >>
  /\ UNCHANGED <<job, phase, eKey, i, prev, done, asked, valCtr, saved, orig>>

(* aes/cportable.c: state (x) holds the iv of the block, and then the      *)
(* block; in decryption the block, and then the one before it.             *)
BeginRows ==
  /\ Begin("rows")
  /\ x' = IF Encrypting
          THEN Rows!EncryptStart(eKey, Rows!XOR(x, Rows!Load(text[Position])), Nr)
          ELSE Rows!DecryptStart(eKey, x, Nr)
  /\ UNCHANGED <<job, phase, eKey, i, prev, text, iv, done, asked, left, valCtr, saved, orig>>

EncryptRoundRows ==
  /\ Round("rows", Nr) /\ Encrypting
  /\ x' = Rows!EncryptRound(eKey, x, r', Nr)
  /\ UNCHANGED <<job, phase, pc, eKey, i, prev, text, iv, done, asked, left, valCtr, saved, orig>>

DecryptRoundRows ==
  /\ Round("rows", Nr) /\ ~Encrypting
  /\ x' = Rows!DecryptRound(eKey, x, r', Nr)
  /\ UNCHANGED <<job, phase, pc, eKey, i, prev, text, iv, done, asked, left, valCtr, saved, orig>>

EndCBCEncryptRows ==
  /\ End("rows", Nr) /\ Encrypting
  /\ Write(Position, Rows!Store(x))
  /\ UNCHANGED <<job, phase, eKey, i, prev, iv, done, asked, valCtr, x, saved, orig>>

EndCBCDecryptRows ==
  /\ End("rows", Nr) /\ ~Encrypting
  /\ LET temp == IF left > 1 THEN Rows!Load(text[Cursor - 1]) ELSE iv
     IN  /\ Write(Cursor, Rows!Store(Rows!XOR(x, temp)))
         /\ x' = temp
  /\ UNCHANGED <<job, phase, eKey, i, prev, iv, done, asked, valCtr, saved, orig>>

BeginChaCha20 ==
  /\ Begin("chacha20")
  /\ x' = ChaCha!Start(eKey, WordsLE(job.iv), valCtr)
  /\ UNCHANGED <<job, phase, eKey, i, prev, text, iv, done, asked, left, valCtr, saved, orig>>

RoundChaCha20 ==
  /\ Round("chacha20", 10)
  /\ x' = ChaCha!ROUND(x)
  /\ UNCHANGED <<job, phase, pc, eKey, i, prev, text, iv, done, asked, left, valCtr, saved, orig>>

EndChaCha20 ==
  /\ End("chacha20", 10)
  /\ Write(Position, ChaCha!XOR(job.host, text[Position],
                                ChaCha!AddStart(x, eKey, WordsLE(job.iv), valCtr)))
  /\ valCtr' = ChaCha!Add(valCtr, {0}) /\ x' = << >>
  /\ UNCHANGED <<job, phase, eKey, i, prev, iv, done, asked, saved, orig>>

(* salsa20_20, salsa20_12 and salsa20_8: iv is the matrix.                 *)
BeginSalsa20 ==
  /\ Begin("salsa20")
  /\ x' = iv
  /\ UNCHANGED <<job, phase, eKey, i, prev, text, iv, done, asked, left, valCtr, saved, orig>>

RoundSalsa20 ==
  /\ Round("salsa20", job.rounds \div 2)
  /\ x' = Salsa!SalsaRound(x)
  /\ UNCHANGED <<job, phase, pc, eKey, i, prev, text, iv, done, asked, left, valCtr, saved, orig>>

EndSalsa20 ==
  /\ End("salsa20", job.rounds \div 2)
  /\ Write(Position, Salsa!XorOutput(text[Position], Salsa!Add16(x, iv)))
  /\ iv' = Salsa!incrCounter(iv) /\ x' = << >>
  /\ UNCHANGED <<job, phase, eKey, i, prev, done, asked, valCtr, saved, orig>>

(* The tail of a call: what the next one starts from.                      *)
Return ==
  /\ pc = "loop" /\ left = 0
  /\ iv' = CASE Mode("cbc", FALSE) -> saved
             [] Mode("cbc", TRUE) /\ lib = "rows" -> x
             [] Mode("cbc", TRUE) /\ lib = "portable" -> text[done + asked]
             [] lib = "chacha20" -> valCtr
             [] OTHER -> iv
  /\ done' = done + asked
  /\ asked' = 0 /\ x' = << >> /\ saved' = << >> /\ valCtr' = {}
  /\ pc' = "caller"
  /\ UNCHANGED <<job, phase, eKey, i, prev, text, left, r, orig>>

(* The caller turns round, with the iv of the beginning.                   *)
Turn ==
  /\ pc = "caller" /\ done = Len(text) /\ phase = 1
  /\ phase' = 2
  /\ orig' = text
  /\ done' = 0
  /\ iv' = InitialIv
  /\ UNCHANGED <<job, pc, eKey, i, prev, text, asked, left, valCtr, x, r, saved>>

Next ==
  \/ ExpandColumn \/ TransposeKey \/ ExpandRows
  \/ \E n \in 0 .. Len(text) : Call(n)
  \/ BeginPortable \/ EncryptRoundPortable \/ DecryptRoundPortable
  \/ EndECBBlock \/ EndCBCEncryptBlock \/ EndCBCDecryptBlock \/ EndCTRBlock
  \/ BeginRows \/ EncryptRoundRows \/ DecryptRoundRows
  \/ EndCBCEncryptRows \/ EndCBCDecryptRows
  \/ BeginChaCha20 \/ RoundChaCha20 \/ EndChaCha20
  \/ BeginSalsa20 \/ RoundSalsa20 \/ EndSalsa20
  \/ Return \/ Turn

Spec == Init /\ [][Next]_vars
-----------------------------------------------------------------------------
(* The round keys as blocks of bytes, once they are there.                 *)
RoundKeyBytes ==
  IF pc = "expand" \/ job.cipher # "aes" THEN << >>
  ELSE IF lib = "rows"
  THEN [m \in 0 .. Nr |-> Rows!Store(Rows!RoundKey(eKey, m))]
  ELSE [m \in 0 .. Nr |-> Portable!StoreRows([j \in 0 .. 3 |-> eKey[4 * m + j]])]

Back == Mode("cbc", FALSE)
Did  == 1 .. done \cup (IF Back THEN Cursor + 1 .. done + asked ELSE done + 1 .. Position - 1)

(* The bytes of the rows, or the words of the matrix, of a block on its way. *)
StateOfRegisters ==
  IF pc # "rounds" THEN << >>
  ELSE IF job.cipher = "aes" THEN Rows!Store(x)
  ELSE [j \in 1 .. 16 |-> x[j - 1]]

Standard == INSTANCE CipherStandard WITH
  keys <- RoundKeyBytes, did <- Did,
  cur <- IF pc # "rounds" THEN 0 ELSE IF Back THEN Cursor ELSE Position,
  round <- r, state <- StateOfRegisters

(* Every expansion of a key ends with the round keys of FIPS 197, and the  *)
(* text goes through the standard's rounds, each block once:               *)
(* in place and backwards where the code goes backwards, the iv and the    *)
(* counter carried over from call to call (through their wrap-around), on  *)
(* every host, however the text was cut into calls.                        *)
ImplementsCipher == Standard!Spec

(* The published cipher texts come out, after any calls.                   *)
KnownTexts ==
  (phase = 1 /\ pc = "caller" /\ done = Len(text) /\ job.known) => text = job.expected

(* What was encrypted is recovered, and the other way round, even if the   *)
(* calls of the way back are not those of the way there.                   *)
Recovered == (phase = 2 /\ pc = "caller" /\ done = Len(text)) => text = job.text
=============================================================================
