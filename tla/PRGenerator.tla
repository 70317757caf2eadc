---------------------------- MODULE PRGenerator ----------------------------
(***************************************************************************)
(* The context in csprg mode: the random generator of raaz                 *)
(* (api/random/PRGenerator.hs, opened by withRandomState of Raaz.Random).  *)
(* A sample fills the buffer with generated blocks and takes a new key     *)
(* from the end of the buffer; requests are served from what remains, and  *)
(* what leaves the buffer is wiped.  Copying, wiping and setting the count *)
(* are steps of their own, because the guarantee is stated for every       *)
(* moment, and because an exception can strike between them.               *)
(*                                                                         *)
(* Bytes are identified by where they come from.  <<g, i>>, g > 0, is byte *)
(* i of generation g, a function of the key used there; <<-g, i>> is byte  *)
(* i of the entropy drawn before generation g; Junk is a byte that anyone  *)
(* knows: uninitialised, or wiped.                                         *)
(***************************************************************************)
EXTENDS Context, FiniteSets

CONSTANTS
  KeyBytes,       \* size of what writeAccess gives of the internals: the key
  ReseedAfter,    \* blocks to generate before the entropy pool is used again
  EntropyMayFail, \* can getEntropy throw, or deliver less than it was asked?
  Interruptible,  \* can an asynchronous exception strike, and be caught?
  MaxGen,         \* bound: no call begins after so many generations
  MaxRequest      \* bound: bytes in one request

\* KeyBytes < cxtSize is what unsafeInitFromBuffer asks of implementations.
ASSUME PRGeneratorAssumption ==
  /\ KeyBytes \in Nat \ {0}
  /\ KeyBytes < NBlocks * BlockBytes
  /\ ReseedAfter \in Nat \ {0}
  /\ EntropyMayFail \in BOOLEAN
  /\ Interruptible \in BOOLEAN
  /\ MaxGen \in Nat /\ MaxRequest \in Nat

VARIABLES
  pc,         \* the step of the running call; "idle" between calls
  target,     \* where unsafeWriteTo writes: to the caller or to the key
  want,       \* bytes the running request still wants
  ready,      \* has withRandomState's own reseed succeeded?
  key,        \* the key cell of the internals
  randomGenBlocks,
  gen,        \* history: runs of randomBlocks so far
  keyUsed,    \* history: the bytes of the key used in each of them
  unseeded,   \* history: blocks generated since a whole seed was drawn
  dest,       \* the bytes delivered for the running request
  given,      \* history: the bytes of the requests that have returned
  abandoned,  \* history: the bytes delivered by calls that an exception ended
  unwiped     \* history: those of them that it left unwiped in the buffer

cxtVars == <<buf, avail>>
control == <<pc, target, want, ready>>
history == <<gen, keyUsed, unseeded>>
past    == <<given, abandoned, unwiped>>
output  == <<dest, past>>
vars == <<cxtVars, control, key, randomGenBlocks, history, output>>

Junk == <<0, 0>>
Generated(g) == {<<g, i>> : i \in Positions}
Entropy(g) == [i \in 1 .. KeyBytes |-> <<-g, i>>]
Image(s) == {s[i] : i \in DOMAIN s}

-----------------------------------------------------------------------------
Init ==
  /\ pc = "closed" /\ target = "dest" /\ want = 0 /\ ready = FALSE
  /\ buf = [i \in Positions |-> Junk]
  /\ avail = 0
  /\ key = [i \in 1 .. KeyBytes |-> Junk]
  /\ randomGenBlocks = 0
  /\ gen = 0 /\ keyUsed = << >> /\ unseeded = 0
  /\ dest = << >> /\ given = {} /\ abandoned = {} /\ unwiped = {}

(* withRandomState: fresh memory, with anything in its cells, is reseeded. *)
Open ==
  /\ pc = "closed"
  /\ pc' = "entropy" /\ target' = "dest" /\ want' = 0 /\ ready' = FALSE
  /\ buf' = [i \in Positions |-> Junk]
  /\ avail' \in 0 .. cxtSize
  /\ key' = [i \in 1 .. KeyBytes |-> Junk]
  /\ randomGenBlocks' \in {0, ReseedAfter}
  /\ gen' = 0 /\ keyUsed' = << >> /\ unseeded' = 0
  /\ dest' = << >> /\ given' = {} /\ abandoned' = {} /\ unwiped' = {}

Close ==
  /\ pc = "idle"
  /\ pc' = "closed"
  /\ UNCHANGED <<cxtVars, target, want, ready, key, randomGenBlocks, history, output>>

Call ==
  /\ pc = "idle"
  /\ gen < MaxGen
  /\ dest' = << >>
  /\ UNCHANGED <<cxtVars, target, ready, key, randomGenBlocks, history, past>>

(* unsafeRandomBytes; nothing happens if no byte is wanted.                *)
Request(n) ==
  /\ Call
  /\ want' = n
  /\ pc' = IF n = 0 THEN "idle" ELSE "copy"

(* A reseed that the user asks for.                                        *)
UserReseed ==
  /\ Call
  /\ pc' = "entropy"
  /\ UNCHANGED want

-----------------------------------------------------------------------------
\* unsafeWriteTo, for a request or for the key.

req == IF target = "dest" THEN want ELSE KeyBytes

(* memcpy: a key that is not covered keeps its old end.                    *)
Copy ==
  /\ pc = "copy"
  /\ pc' = "wipe"
  /\ \/ /\ target = "dest"
        /\ dest' = dest \o GivenTo(req)
        /\ UNCHANGED key
     \/ /\ target = "key"
        /\ key' = [i \in 1 .. KeyBytes |->
                     IF i <= Satisfy(req) THEN GivenTo(req)[i] ELSE key[i]]
        /\ UNCHANGED dest
  /\ UNCHANGED <<cxtVars, target, want, ready, randomGenBlocks, history, past>>

Wipe ==
  /\ pc = "wipe"
  /\ pc' = "set"
  /\ buf' = WipedBy(req, Junk)
  /\ UNCHANGED <<avail, target, want, ready, key, randomGenBlocks, history, output>>

(* Broken variant: more bytes are asked of the empty buffer.               *)
GoUnsampled(more) == IF more > 0 THEN "copy" ELSE "idle"

(* How unsafeRandomBytes goes on when so many bytes are wanted.            *)
Go(more) == IF more > 0 THEN "sample" ELSE "idle"

SetForRequest ==
  /\ pc = "set" /\ target = "dest"
  /\ setBytes(Leftover(req))
  /\ want' = want - Satisfy(req)
  /\ pc' = Go(want')
  /\ IF want' > 0 THEN UNCHANGED <<dest, given>>
     ELSE given' = given \cup Image(dest) /\ dest' = << >>
  /\ UNCHANGED <<buf, target, ready, key, randomGenBlocks, history, abandoned, unwiped>>

(* The new key is in place: generateRandom ends, and the request which it  *)
(* was for, if any, goes on.                                               *)
SetForKey ==
  /\ pc = "set" /\ target = "key"
  /\ setBytes(Leftover(req))
  /\ target' = "dest" /\ ready' = TRUE
  /\ pc' = IF want > 0 THEN "copy" ELSE "idle"
  /\ UNCHANGED <<buf, want, key, randomGenBlocks, history, output>>

-----------------------------------------------------------------------------
\* sample, reseed and generateRandom.

(* Broken variant: one sample too many.                                    *)
DueAfter == randomGenBlocks > ReseedAfter

Due == randomGenBlocks >= ReseedAfter

Sample ==
  /\ pc = "sample"
  /\ pc' = IF Due THEN "entropy" ELSE "generate"
  /\ UNCHANGED <<cxtVars, target, want, ready, key, randomGenBlocks, history, output>>

(* unsafeInitWithEntropy: the number of bytes that getEntropy reports to   *)
(* have delivered is not looked at.                                        *)
InitWithEntropy ==
  /\ pc = "entropy"
  /\ pc' = "zero"
  /\ \E n \in 0 .. KeyBytes :
        /\ n = KeyBytes \/ EntropyMayFail
        /\ key' = [i \in 1 .. KeyBytes |->
                     IF i <= n THEN Entropy(gen + 1)[i] ELSE key[i]]
        /\ unseeded' = IF n = KeyBytes THEN 0 ELSE unseeded
  /\ UNCHANGED <<cxtVars, target, want, ready, randomGenBlocks, gen, keyUsed, output>>

ZeroBlocks ==
  /\ pc = "zero"
  /\ pc' = "generate"
  /\ randomGenBlocks' = 0
  /\ UNCHANGED <<cxtVars, target, want, ready, key, history, output>>

(* randomBlocks overwrites the whole buffer and keeps the key.             *)
RandomBlocks ==
  /\ pc = "generate"
  /\ pc' = "full"
  /\ gen' = gen + 1
  /\ buf' = [i \in Positions |-> <<gen + 1, i>>]
  /\ keyUsed' = Append(keyUsed, Image(key))
  /\ unseeded' = unseeded + NBlocks
  /\ UNCHANGED <<avail, target, want, ready, key, randomGenBlocks, output>>

SetFull ==
  /\ pc = "full"
  /\ pc' = "count"
  /\ unsafeSetCxtFull
  /\ UNCHANGED <<buf, target, want, ready, key, randomGenBlocks, history, output>>

(* The blocks are counted, and unsafeInitFromBuffer begins.                *)
CountBlocks ==
  /\ pc = "count"
  /\ pc' = "copy" /\ target' = "key"
  /\ randomGenBlocks' = randomGenBlocks + NBlocks
  /\ UNCHANGED <<cxtVars, want, ready, key, history, output>>

(* An exception ends the call, and the session if it is withRandomState's  *)
(* own reseed that throws.  The state stays as it is: nothing masks        *)
(* exceptions, and nothing undoes what was done before.  What memcpy has   *)
(* put at the caller's pointer is there, wiped in the buffer or not.       *)
Abandon ==
  /\ pc' = IF ready THEN "idle" ELSE "closed"
  /\ target' = "dest" /\ want' = 0
  /\ dest' = << >>
  /\ abandoned' = abandoned \cup Image(dest)
  /\ unwiped' = IF pc = "wipe" /\ target = "dest" THEN unwiped \cup Image(GivenTo(req))
                ELSE unwiped
  /\ UNCHANGED <<cxtVars, ready, key, randomGenBlocks, history, given>>

(* The entropy source cannot be opened or reports an error by throwing.    *)
EntropyThrows ==
  /\ EntropyMayFail
  /\ pc = "entropy"
  /\ Abandon

(* An asynchronous exception (a timeout, killThread) between two steps.    *)
Interrupt ==
  /\ Interruptible
  /\ pc \notin {"closed", "idle"}
  /\ Abandon

Step ==
  \/ Copy \/ Wipe \/ SetForRequest \/ SetForKey
  \/ Sample \/ InitWithEntropy \/ ZeroBlocks
  \/ RandomBlocks \/ SetFull \/ CountBlocks

Next ==
  \/ Open \/ Close \/ UserReseed
  \/ \E n \in 0 .. MaxRequest : Request(n)
  \/ Step
  \/ EntropyThrows \/ Interrupt

Spec == Init /\ [][Next]_vars

(* A call runs on: only its own thread steps it.                           *)
FairSpec == Spec /\ WF_vars(Step)

-----------------------------------------------------------------------------
Label == Int \X Int

(* The type invariant.                                                     *)
TypeOK ==
  /\ pc \in {"closed", "idle", "copy", "wipe", "set", "sample", "entropy",
             "zero", "generate", "full", "count"}
  /\ target \in {"dest", "key"}
  /\ want \in Nat
  /\ ready \in BOOLEAN
  /\ buf \in [Positions -> Label]
  /\ avail \in 0 .. cxtSize
  /\ key \in [1 .. KeyBytes -> Label]
  /\ randomGenBlocks \in Nat
  /\ gen \in Nat
  /\ keyUsed \in [1 .. gen -> SUBSET Label]
  /\ unseeded \in Nat
  /\ dest \in Seq(Label)
  /\ given \in SUBSET Label
  /\ abandoned \in SUBSET Label /\ unwiped \in SUBSET Label

(* All that a compromise of the memory shows.                              *)
Memory == Image(key) \cup Image(buf) \cup {Junk}

(* What is known to who sees the memory and runs randomBlocks with the     *)
(* keys that are known: the least set that contains the memory and the     *)
(* bytes of every generation whose key it contains.  Bytes are outside the *)
(* least such set if they are outside one of them.                         *)
Known(H) == Memory \cup UNION {Generated(h) : h \in H}

Closed(H) == \A h \in 1 .. gen : keyUsed[h] \subseteq Known(H) => h \in H

(* "At any point of time, a compromise of the cipher state and/or the      *)
(* auxiliary buffer does not reveal the random data that is given out      *)
(* previously", given that neither the generator nor the entropy source    *)
(* can be predicted.  Given out are the bytes of requests that returned.   *)
SecurityGuarantee ==
  \E H \in SUBSET (1 .. gen) : Closed(H) /\ Known(H) \cap (given \ {Junk}) = {}

(* No random byte is delivered twice, by whatever requests, reseeds and    *)
(* refills.  A byte of a call that an exception ended counts as delivered  *)
(* as soon as it was copied; it may be delivered again only if the         *)
(* exception struck between the copying and the wiping of that very byte.  *)
NoByteTwice ==
  \A i \in DOMAIN dest : dest[i] # Junk =>
    /\ dest[i] \notin given
    /\ dest[i] \in abandoned => dest[i] \in unwiped
    /\ \A j \in DOMAIN dest : dest[j] = dest[i] => j = i

(* What a request delivers are bytes of the generator: never a wiped one,  *)
(* one of the uninitialised memory, or one of the seed.                    *)
OnlyRandomBytes ==
  given \cup Image(dest) \subseteq UNION {Generated(g) : g \in 1 .. gen}

(* "The CSPRG interface automatically takes care of reseeding from the     *)
(* entropy pool at regular intervals": the check in sample keeps the       *)
(* number of blocks generated from one seed below this bound.              *)
ReseedsRegularly == unseeded < ReseedAfter + NBlocks

(* A request is served, however much it exceeds the buffer: what is left   *)
(* after the key is taken from a full buffer is never nothing.             *)
RequestReturns == pc = "copy" ~> pc \in {"idle", "closed"}
=============================================================================
