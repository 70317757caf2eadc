--------------------------- MODULE SecureMemory ---------------------------
(***************************************************************************)
(* The memory that actions get: allocaSecure (Raaz.Core.Types.Pointer) and *)
(* withMemory (Raaz.Core.Memory), called by several threads, or one inside *)
(* the other.                                                              *)
(*                                                                         *)
(* A call allocates a region of consecutive addresses, the action stores   *)
(* its secrets there, and the region is released when the action ends, by  *)
(* itself or by an exception.  The operating system locks and unlocks      *)
(* whole pages, a page at a time having a lock or none; at any moment it   *)
(* can write an unlocked page to the disk.                                 *)
(***************************************************************************)
EXTENDS Naturals, FiniteSets

CONSTANTS
  SecureCalls,  \* calls of allocaSecure that may go on at once
  PlainCalls,   \* calls of withMemory that may go on at once
  Size,         \* addresses in a region
  PageSize,     \* addresses in a page
  NPages,       \* bound: pages of the heap
  Quota,        \* pages that the process may lock
  NoSecret

ASSUME SecureMemoryAssumption ==
  /\ SecureCalls \cap PlainCalls = {}
  /\ NoSecret \notin SecureCalls \cup PlainCalls
  /\ Size \in Nat \ {0} /\ PageSize \in Nat \ {0}
  /\ NPages \in Nat /\ Quota \in Nat

Calls == SecureCalls \cup PlainCalls
Addresses == 0 .. NPages * PageSize - 1
Pages == 0 .. NPages - 1
PageOf(a) == a \div PageSize

VARIABLES
  pc,      \* where each call is
  region,  \* the addresses it has been given
  memory,  \* whose secret an address holds
  locked,  \* pages with a lock
  disk     \* history: secrets that have been written to the disk

vars == <<pc, region, memory, locked, disk>>

(* Broken variant: the pages are found one address too far.                *)
PagesBehind(c) == {PageOf(a + 1) : a \in region[c]}

(* The pages that mlock and munlock are about: all that the region touches. *)
PagesOf(c) == {PageOf(a) : a \in region[c]}

Taken == UNION {region[c] : c \in Calls}

(* Where a call has no region: it has not begun, or is over.               *)
Over == {"idle", "abandoned"}

Regions == {a .. a + Size - 1 : a \in Addresses}

Init ==
  /\ pc = [c \in Calls |-> "idle"]
  /\ region = [c \in Calls |-> {}]
  /\ memory = [a \in Addresses |-> NoSecret]
  /\ locked = {}
  /\ disk = {}

(* allocaBytes: any free memory, with what is in it.                       *)
Allocate(c) ==
  /\ pc[c] \in Over
  /\ \E r \in Regions :
        /\ r \subseteq Addresses \ Taken
        /\ region' = [region EXCEPT ![c] = r]
  /\ pc' = [pc EXCEPT ![c] = IF c \in SecureCalls THEN "lock" ELSE "action"]
  /\ UNCHANGED <<memory, locked, disk>>

EndsAs(c, how) ==
  /\ region' = [region EXCEPT ![c] = {}]
  /\ pc' = [pc EXCEPT ![c] = how]

(* A call that ends behind its release, and one that ends without it.      *)
Freed(c) == EndsAs(c, "idle")
Abandoned(c) == EndsAs(c, "abandoned")

(* Broken variant: a region whose memory cannot be locked is used.         *)
LockIgnored(c) ==
  /\ locked' = IF Cardinality(locked \cup PagesOf(c)) <= Quota
               THEN locked \cup PagesOf(c) ELSE locked
  /\ pc' = [pc EXCEPT ![c] = "action"]
  /\ UNCHANGED region

(* lockIt: if the system refuses, the call fails before the action.        *)
LockIt(c) ==
  IF Cardinality(locked \cup PagesOf(c)) <= Quota
  THEN /\ locked' = locked \cup PagesOf(c)
       /\ pc' = [pc EXCEPT ![c] = "action"]
       /\ UNCHANGED region
  ELSE Abandoned(c) /\ UNCHANGED locked

Lock(c) ==
  /\ pc[c] = "lock"
  /\ LockIt(c)
  /\ UNCHANGED <<memory, disk>>

(* The action stores a secret.                                             *)
Store(c) ==
  /\ pc[c] = "action"
  /\ \E a \in region[c] : memory' = [memory EXCEPT ![a] = c]
  /\ UNCHANGED <<pc, region, locked, disk>>

(* The action returns.                                                     *)
Return(c) ==
  /\ pc[c] = "action"
  /\ pc' = [pc EXCEPT ![c] = "wipe"]
  /\ UNCHANGED <<region, memory, locked, disk>>

(* Broken variant: only an action that returns is followed by the release. *)
AfterThrowUnreleased(c) == Abandoned(c)

(* Where an exception leads: a bracket releases, withMemory does not wipe. *)
AfterThrow(c) ==
  IF c \in SecureCalls
  THEN pc' = [pc EXCEPT ![c] = "wipe"] /\ UNCHANGED region
  ELSE Abandoned(c)

(* The action throws, or an asynchronous exception arrives, for withMemory *)
(* perhaps after it; the release of a bracket cannot be interrupted.       *)
Throw(c) ==
  /\ \/ pc[c] = "action"
     \/ pc[c] = "wipe" /\ c \in PlainCalls
  /\ AfterThrow(c)
  /\ UNCHANGED <<memory, locked, disk>>

(* Broken variant: the region is not wiped.                                *)
WipedOfNothing(c) == memory

WipedOf(c) == [a \in Addresses |-> IF a \in region[c] THEN NoSecret ELSE memory[a]]

(* wipeMemory, the first part of the release.                              *)
Wipe(c) ==
  /\ pc[c] = "wipe"
  /\ memory' = WipedOf(c)
  /\ IF c \in SecureCalls
     THEN pc' = [pc EXCEPT ![c] = "unlock"] /\ UNCHANGED region
     ELSE Freed(c)
  /\ UNCHANGED <<locked, disk>>

(* munlock: the pages have no lock any more, however often they got one.   *)
UnlockedOf(c) == locked \ PagesOf(c)

(* memunlock, and the end of the call.                                     *)
Unlock(c) ==
  /\ pc[c] = "unlock"
  /\ locked' = UnlockedOf(c)
  /\ Freed(c)
  /\ UNCHANGED <<memory, disk>>

(* The system writes a page without a lock to the disk.                    *)
SwapOut(p) ==
  /\ p \notin locked
  /\ disk' = disk \cup ({memory[a] : a \in {x \in Addresses : PageOf(x) = p}} \ {NoSecret})
  /\ UNCHANGED <<pc, region, memory, locked>>

Release(c) == Lock(c) \/ Wipe(c) \/ Unlock(c)

Next ==
  \/ \E c \in Calls :
        Allocate(c) \/ Lock(c) \/ Store(c) \/ Return(c) \/ Throw(c) \/ Wipe(c) \/ Unlock(c)
  \/ \E p \in Pages : SwapOut(p)

Spec == Init /\ [][Next]_vars

-----------------------------------------------------------------------------
(* The type invariant.                                                     *)
TypeOK ==
  /\ pc \in [Calls -> {"idle", "lock", "action", "wipe", "unlock", "abandoned"}]
  /\ region \in [Calls -> SUBSET Addresses]
  /\ memory \in [Addresses -> Calls \cup {NoSecret}]
  /\ locked \subseteq Pages
  /\ disk \subseteq Calls

(* "The associated memory ... will not be swapped during the action": no   *)
(* secret of a secure call ever gets to the disk, during the action or in  *)
(* the release after it.  Regions on pages of their own keep this promise. *)
NeverSwapped == disk \cap SecureCalls = {}

(* "will be wiped clean and deallocated when the action terminates either  *)
(* directly or indirectly via errors": what secure calls stored is nowhere *)
(* but in their own regions, so never in the memory that others are given. *)
WipedClean ==
  \A a \in Addresses : memory[a] \in SecureCalls => a \in region[memory[a]]

(* No lock outlives the calls that need it, also after exceptions: else    *)
(* the quota would be used up by regions that are gone.                    *)
LocksAreNeeded ==
  \A p \in locked : \E c \in SecureCalls : pc[c] # "lock" /\ p \in PagesOf(c)

(* "The underlying memory buffer is zeroed at the end of the action", for  *)
(* withMemory: a secret is left behind in memory only by a call that an    *)
(* exception ended, whatever others do with the memory around it.          *)
OnlyExceptionsLeave ==
  [][\A c \in PlainCalls :
        \/ pc'[c] = "abandoned"
        \/ \A a \in Addresses : memory'[a] = c /\ a \notin region'[c]
                                => memory[a] = c /\ a \notin region[c]]_vars
=============================================================================
