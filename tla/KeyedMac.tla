------------------------------ MODULE KeyedMac ------------------------------
(***************************************************************************)
(* Message authentication by a keyed blake2 (indef/keyed/hash/Mac/         *)
(* Implementation.hs).  The key is written to a buffer of one block when   *)
(* the session starts, and compressed only when the first bytes arrive,    *)
(* because with an empty message the key is the last block.                *)
(*                                                                         *)
(* The callers are those of every hash, digestSource and the context: they *)
(* hand over whole blocks and hold the last ones back for processLast      *)
(* (OneShotDigest, HashContext).  Scheme is "blake2".                      *)
(***************************************************************************)
EXTENDS Padding

CONSTANTS
  HashBytes,    \* size of the hash, to which keys are cut
  KeyIds,       \* different keys of one length
  KeyLengths,   \* lengths of keys, before they are cut
  BufferBlocks, \* blocks of the callers' buffer
  MaxMessage,   \* bound: bytes of a message
  NoTag

ASSUME KeyedMacAssumption ==
  /\ Scheme = "blake2"
  /\ HashBytes \in 1 .. BlockBytes
  /\ KeyIds \subseteq Nat
  /\ KeyLengths \subseteq Nat
  /\ BufferBlocks \in Nat \ {0}
  /\ MaxMessage \in Nat

VARIABLES
  pc,         \* "raw", "open", "final"
  hash0,      \* the initial hash, which depends on the length of the key
  internals,  \* hashInternals: what the hash has consumed and counted
  keyBuffer,
  atStart,
  tag,        \* what was extracted
  key,        \* history: the bytes of the key, cut
  message     \* history: the message so far

vars == <<pc, hash0, internals, keyBuffer, atStart, tag, key, message>>

(* Byte i of a key (message bytes are 1, 2, ..., others as in Padding), and *)
(* what uninitialised memory holds.                                        *)
Unwritten == -4
KeyByte(id, i) == -(4 + id * BlockBytes + i)

(* Broken variant: keys are not cut.                                       *)
Untrimmed(id, n) == [i \in 1 .. n |-> KeyByte(id, i)]

trim(id, n) == [i \in 1 .. (IF n < HashBytes THEN n ELSE HashBytes) |-> KeyByte(id, i)]

(* padWrite 0 of one block behind the key: of an empty write, nothing.     *)
KeyWrite(k) == k \o [i \in 1 .. Glue(Len(k), 0) |-> ZeroByte]

Fresh == [data |-> << >>, length |-> 0]

(* Base.processBlocks and Base.processLast.                                *)
ProcessedBy(state, bytes) ==
  [data |-> state.data \o bytes, length |-> state.length + Len(bytes)]
LastProcessedBy(state, bytes) ==
  [data |-> state.data \o Pad(bytes), length |-> state.length + Len(bytes)]

Init ==
  /\ pc = "raw"
  /\ hash0 = 0 /\ internals = Fresh
  /\ keyBuffer = [i \in 1 .. BlockBytes |-> Unwritten]
  /\ atStart \in BOOLEAN
  /\ tag = NoTag
  /\ key = << >> /\ message = << >>

(* startAuth, and the beginning of authSource.                             *)
Initialise(id, n) ==
  /\ key' = trim(id, n)
  /\ hash0' = Len(key')
  /\ internals' = Fresh
  /\ LET w == KeyWrite(key')
     IN  keyBuffer' = w \o SubSeq(keyBuffer, Len(w) + 1, BlockBytes)
  /\ atStart' = TRUE
  /\ pc' = "open"
  /\ tag' = NoTag /\ message' = << >>

Arriving(n) == [i \in 1 .. n |-> Len(message) + i]

(* Broken variant: the flag is not cleared.                                *)
ProcessBlocksFlagKept(n) ==
  /\ pc = "open"
  /\ internals' = ProcessedBy(IF atStart THEN ProcessedBy(internals, keyBuffer) ELSE internals,
                              Arriving(inBytes(n)))
  /\ message' = message \o Arriving(inBytes(n))
  /\ UNCHANGED <<pc, hash0, keyBuffer, atStart, tag, key>>

processBlocks(n) ==
  /\ pc = "open"
  /\ internals' = ProcessedBy(IF atStart THEN ProcessedBy(internals, keyBuffer) ELSE internals,
                              Arriving(inBytes(n)))
  /\ atStart' = FALSE
  /\ message' = message \o Arriving(inBytes(n))
  /\ UNCHANGED <<pc, hash0, keyBuffer, tag, key>>

(* Broken variant: the key is always a block before the last one.          *)
LastWithKeyFirst(bytes) ==
  LastProcessedBy(IF atStart THEN ProcessedBy(internals, keyBuffer) ELSE internals, bytes)

Last(bytes) ==
  IF atStart /\ bytes = << >> THEN LastProcessedBy(internals, keyBuffer)
  ELSE LastProcessedBy(IF atStart THEN ProcessedBy(internals, keyBuffer) ELSE internals, bytes)

(* processLast on sz bytes, and the extraction.  The flag stays as it is.  *)
(* Only an empty message ends without bytes.                               *)
processLast(sz) ==
  /\ pc = "open"
  /\ sz = 0 => message = << >>
  /\ internals' = Last(Arriving(sz))
  /\ tag' = [hash0 |-> hash0, digest |-> internals']
  /\ message' = message \o Arriving(sz)
  /\ pc' = "final"
  /\ UNCHANGED <<hash0, keyBuffer, atStart, key>>

Next ==
  \/ \E id \in KeyIds, n \in KeyLengths : Initialise(id, n)
  \/ \E n \in 1 .. BufferBlocks :
        Len(message) + inBytes(n) <= MaxMessage /\ processBlocks(n)
  \/ \E sz \in 0 .. inBytes(BufferBlocks) :
        Len(message) + sz <= MaxMessage /\ processLast(sz)

Spec == Init /\ [][Next]_vars
-----------------------------------------------------------------------------
Record == [data : Seq(Int), length : Nat]

(* The type invariant.  The key never overflows its buffer.                *)
TypeOK ==
  /\ pc \in {"raw", "open", "final"}
  /\ hash0 \in 0 .. HashBytes
  /\ internals \in Record
  /\ keyBuffer \in [1 .. BlockBytes -> Int]
  /\ atStart \in BOOLEAN
  /\ tag \in [hash0 : 0 .. HashBytes, digest : Record] \cup {NoTag}
  /\ key \in Seq(Int) /\ Len(key) <= HashBytes
  /\ message \in Seq(Nat \ {0})

(* The abstract session; its tag is the record extracted from the hash.    *)
Session == INSTANCE MacSession
  WITH phase <- IF pc = "open" THEN "open" ELSE "closed"

(* Of keys that are not empty: the hash consumes the key of this session   *)
(* once and before the message, whichever call comes first, and nothing of *)
(* the keys and messages of sessions before.                               *)
KeyThenMessage ==
  pc = "open" /\ key # << >> =>
    /\ keyBuffer = Session!KeyBlock(key)
    /\ internals.data = IF atStart THEN << >> ELSE Session!KeyBlock(key) \o message
    /\ internals.length = Len(internals.data)
    /\ atStart => message = << >>

(* The session refines the abstract one (where no key is empty).           *)
ImplementsMacSession == Session!Spec

(* "The message is essentially appended to the key and hashed"             *)
(* (Keyed/Internal.hs:30): the tag depends on the key and the message and  *)
(* on nothing else.  An empty key breaks this: nothing is written to the   *)
(* key buffer, and what happens to be there is hashed in front.            *)
TagOfKeyAndMessage == pc = "final" => tag = Session!MacOf(key, message)
=============================================================================
