------------------------ MODULE SecureMemoryProofs ------------------------
(***************************************************************************)
(* What secure calls promise, for any number of calls, regions and pages.  *)
(* Wiping and the end of locks hold wherever the regions lie; that nothing *)
(* is swapped is proved for regions on pages of their own, and is not so   *)
(* otherwise.                                                              *)
(***************************************************************************)
EXTENDS SecureMemory, TLAPS

(* Only the release of a bracket locks and unlocks, and a call that is     *)
(* over has no region.                                                     *)
Control ==
  /\ \A c \in PlainCalls : pc[c] \in {"idle", "action", "wipe", "abandoned"}
  /\ \A c \in Calls : pc[c] \in Over => region[c] = {}

(* No address is given to two calls.                                       *)
Apart == \A c, d \in Calls : c # d => region[c] \cap region[d] = {}

(* Secrets of secure calls are in their regions, and before the wipe only. *)
Kept ==
  \A a \in Addresses : memory[a] \in SecureCalls =>
     a \in region[memory[a]] /\ pc[memory[a]] \in {"action", "wipe"}

(* The part of the invariant that holds for all sizes of pages.            *)
Tidy == TypeOK /\ Control /\ Apart /\ Kept /\ LocksAreNeeded

(* What an assumption says of one call.                                    *)
LEMMA CallKinds ==
  /\ SecureCalls \subseteq Calls /\ PlainCalls \subseteq Calls
  /\ \A c \in Calls : c \notin SecureCalls <=> c \in PlainCalls
  /\ NoSecret \notin Calls
BY SecureMemoryAssumption DEF Calls

(* The pages of a region are pages of the heap.                            *)
LEMMA PagesAreOfHeap ==
  ASSUME NEW a \in Addresses
  PROVE  PageOf(a) \in Pages
<1>. DEFINE p == a \div PageSize
            r == a % PageSize
<1>1. PageSize \in Nat \ {0} /\ NPages \in Nat /\ a \in Nat /\ a < NPages * PageSize
  BY SecureMemoryAssumption DEF Addresses
<1>2. p \in Nat /\ r \in Nat /\ a = PageSize * p + r
  BY <1>1
<1>. HIDE DEF p, r
<1>3. p < NPages
  <2>1. SUFFICES ASSUME p >= NPages PROVE FALSE
    BY <1>1, <1>2
  <2>2. PageSize * p >= PageSize * NPages
    BY <1>1, <1>2, <2>1
  <2>. QED  BY <1>1, <1>2, <2>2
<1>4. p \in Pages
  BY <1>1, <1>2, <1>3 DEF Pages
<1>. QED  BY <1>4 DEF p, PageOf

(* The invariant holds at first.                                           *)
LEMMA InitTidy == Init => Tidy
BY CallKinds DEF Init, Tidy, TypeOK, Control, Over, Apart, Kept, LocksAreNeeded

(* Every step keeps the types.                                             *)
LEMMA NextTyped == Tidy /\ [Next]_vars => TypeOK'
<1>. SUFFICES ASSUME Tidy, [Next]_vars
             PROVE  TypeOK'
  OBVIOUS
<1>. USE DEF TypeOK, Tidy
<1>1. ASSUME NEW c \in Calls, Allocate(c) PROVE TypeOK'
  <2>1. PICK r \in Regions : r \subseteq Addresses /\ region' = [region EXCEPT ![c] = r]
    BY <1>1 DEF Allocate
  <2>. QED  BY <1>1, <2>1 DEF Allocate
<1>2. ASSUME NEW c \in Calls, Lock(c) PROVE TypeOK'
  <2>1. region[c] \subseteq Addresses
    OBVIOUS
  <2>2. PagesOf(c) \subseteq Pages
    BY <2>1, PagesAreOfHeap DEF PagesOf
  <2>. QED  BY <1>2, <2>2 DEF Lock, LockIt, Freed, Abandoned, EndsAs
<1>3. ASSUME NEW c \in Calls, Store(c) PROVE TypeOK'
  BY <1>3 DEF Store
<1>4. ASSUME NEW c \in Calls, Return(c) PROVE TypeOK'
  BY <1>4 DEF Return
<1>5. ASSUME NEW c \in Calls, Throw(c) PROVE TypeOK'
  BY <1>5 DEF Throw, AfterThrow, Freed, Abandoned, EndsAs
<1>6. ASSUME NEW c \in Calls, Wipe(c) PROVE TypeOK'
  BY <1>6 DEF Wipe, WipedOf, Freed, Abandoned, EndsAs
<1>7. ASSUME NEW c \in Calls, Unlock(c) PROVE TypeOK'
  BY <1>7 DEF Unlock, UnlockedOf, Freed, Abandoned, EndsAs
<1>8. ASSUME NEW p \in Pages, SwapOut(p) PROVE TypeOK'
  BY <1>8 DEF SwapOut
<1>9. CASE UNCHANGED vars
  BY <1>9 DEF vars
<1>. QED  BY <1>1, <1>2, <1>3, <1>4, <1>5, <1>6, <1>7, <1>8, <1>9 DEF Next

(* What a call that ends leaves of the control state and the regions.      *)
LEMMA FreedControl ==
  ASSUME TypeOK, Control, Apart, NEW c \in Calls, Freed(c) \/ Abandoned(c)
  PROVE  Control' /\ Apart'
BY CallKinds DEF Freed, Abandoned, EndsAs, TypeOK, Control, Over, Apart

(* Every step keeps the order of a call and the regions apart.             *)
LEMMA NextApart == Tidy /\ [Next]_vars => Control' /\ Apart'
<1>. SUFFICES ASSUME Tidy, [Next]_vars
             PROVE  Control' /\ Apart'
  OBVIOUS
<1>. TypeOK /\ Control /\ Apart
  BY DEF Tidy
<1>1. ASSUME NEW c \in Calls, Allocate(c) PROVE Control' /\ Apart'
  <2>1. PICK r \in Regions : /\ r \subseteq Addresses \ Taken
                             /\ region' = [region EXCEPT ![c] = r]
    BY <1>1 DEF Allocate
  <2>2. \A d \in Calls : r \cap region[d] = {}
    BY <2>1 DEF Taken
  <2>3. Apart'
    BY <2>1, <2>2 DEF Apart, TypeOK
  <2>4. Control'
    BY <1>1, <2>1, CallKinds DEF Allocate, Control, Over, TypeOK
  <2>. QED  BY <2>3, <2>4
<1>2. ASSUME NEW c \in Calls, Lock(c) PROVE Control' /\ Apart'
  <2>1. c \in SecureCalls
    BY <1>2, CallKinds DEF Lock, Control, Over
  <2>2. CASE Freed(c) \/ Abandoned(c)
    BY <2>2, FreedControl
  <2>3. CASE pc' = [pc EXCEPT ![c] = "action"] /\ UNCHANGED region
    BY <2>1, <2>3, CallKinds DEF Control, Over, Apart, TypeOK
  <2>. QED  BY <1>2, <2>2, <2>3 DEF Lock, LockIt
<1>3. ASSUME NEW c \in Calls, Store(c) PROVE Control' /\ Apart'
  BY <1>3 DEF Store, Control, Over, Apart
<1>4. ASSUME NEW c \in Calls, Return(c) PROVE Control' /\ Apart'
  BY <1>4, CallKinds DEF Return, Control, Over, Apart, TypeOK
<1>5. ASSUME NEW c \in Calls, Throw(c) PROVE Control' /\ Apart'
  <2>1. CASE Freed(c) \/ Abandoned(c)
    BY <2>1, FreedControl
  <2>2. CASE pc' = [pc EXCEPT ![c] = "wipe"] /\ UNCHANGED region
    BY <2>2, CallKinds DEF Control, Over, Apart, TypeOK
  <2>. QED  BY <1>5, <2>1, <2>2 DEF Throw, AfterThrow
<1>6. ASSUME NEW c \in Calls, Wipe(c) PROVE Control' /\ Apart'
  <2>1. CASE Freed(c) \/ Abandoned(c)
    BY <2>1, FreedControl
  <2>2. CASE c \in SecureCalls /\ pc' = [pc EXCEPT ![c] = "unlock"] /\ UNCHANGED region
    BY <2>2, CallKinds DEF Control, Over, Apart, TypeOK
  <2>. QED  BY <1>6, <2>1, <2>2 DEF Wipe
<1>7. ASSUME NEW c \in Calls, Unlock(c) PROVE Control' /\ Apart'
  BY <1>7, FreedControl DEF Unlock
<1>8. ASSUME NEW p \in Pages, SwapOut(p) PROVE Control' /\ Apart'
  BY <1>8 DEF SwapOut, Control, Over, Apart
<1>9. CASE UNCHANGED vars
  BY <1>9 DEF vars, Control, Over, Apart
<1>. QED  BY <1>1, <1>2, <1>3, <1>4, <1>5, <1>6, <1>7, <1>8, <1>9 DEF Next

(* A call that has no secret anywhere can get, lose or keep a region.      *)
LEMMA OthersKept ==
  ASSUME TypeOK, Kept, NEW c \in Calls,
         \A a \in Addresses : memory[a] # c \/ c \notin SecureCalls,
         memory' = memory,
         \A d \in Calls : d # c => pc'[d] = pc[d] /\ region'[d] = region[d]
  PROVE  Kept'
BY CallKinds DEF TypeOK, Kept

(* Every step keeps the secrets of secure calls in their regions.          *)
LEMMA NextKept == Tidy /\ [Next]_vars => Kept'
<1>. SUFFICES ASSUME Tidy, [Next]_vars
             PROVE  Kept'
  OBVIOUS
<1>. TypeOK /\ Control /\ Apart /\ Kept
  BY DEF Tidy
<1>1. ASSUME NEW c \in Calls, Allocate(c) PROVE Kept'
  <2>1. \A a \in Addresses : memory[a] # c \/ c \notin SecureCalls
    BY <1>1 DEF Allocate, Over, Kept
  <2>2. /\ memory' = memory
        /\ \A d \in Calls : d # c => pc'[d] = pc[d] /\ region'[d] = region[d]
    BY <1>1 DEF Allocate, TypeOK
  <2>. QED  BY <2>1, <2>2, OthersKept
<1>2. ASSUME NEW c \in Calls, Lock(c) PROVE Kept'
  <2>1. \A a \in Addresses : memory[a] # c \/ c \notin SecureCalls
    BY <1>2 DEF Lock, Kept
  <2>2. /\ memory' = memory
        /\ \A d \in Calls : d # c => pc'[d] = pc[d] /\ region'[d] = region[d]
    BY <1>2 DEF Lock, LockIt, Freed, Abandoned, EndsAs, TypeOK
  <2>. QED  BY <2>1, <2>2, OthersKept
<1>3. ASSUME NEW c \in Calls, Store(c) PROVE Kept'
  <2>1. PICK x \in region[c] : memory' = [memory EXCEPT ![x] = c]
    BY <1>3 DEF Store
  <2>2. pc[c] = "action" /\ pc' = pc /\ region' = region
    BY <1>3 DEF Store
  <2>. QED  BY <2>1, <2>2 DEF TypeOK, Kept
<1>4. ASSUME NEW c \in Calls, Return(c) PROVE Kept'
  BY <1>4, CallKinds DEF Return, TypeOK, Kept
<1>5. ASSUME NEW c \in Calls, Throw(c) PROVE Kept'
  <2>1. CASE c \in SecureCalls
    BY <1>5, <2>1, CallKinds DEF Throw, AfterThrow, TypeOK, Kept
  <2>2. CASE c \notin SecureCalls
    <3>1. /\ memory' = memory
          /\ \A d \in Calls : d # c => pc'[d] = pc[d] /\ region'[d] = region[d]
      BY <1>5, <2>2 DEF Throw, AfterThrow, Freed, Abandoned, EndsAs, TypeOK
    <3>. QED  BY <2>2, <3>1, OthersKept
  <2>. QED  BY <2>1, <2>2
<1>6. ASSUME NEW c \in Calls, Wipe(c) PROVE Kept'
  <2>1. \A a \in Addresses : memory'[a] = IF a \in region[c] THEN NoSecret ELSE memory[a]
    BY <1>6 DEF Wipe, WipedOf, TypeOK
  <2>2. \A d \in Calls : d # c => pc'[d] = pc[d] /\ region'[d] = region[d]
    BY <1>6 DEF Wipe, Freed, Abandoned, EndsAs, TypeOK
  <2>. QED  BY <2>1, <2>2, CallKinds DEF TypeOK, Kept
<1>7. ASSUME NEW c \in Calls, Unlock(c) PROVE Kept'
  <2>1. \A a \in Addresses : memory[a] # c \/ c \notin SecureCalls
    BY <1>7 DEF Unlock, Kept
  <2>2. /\ memory' = memory
        /\ \A d \in Calls : d # c => pc'[d] = pc[d] /\ region'[d] = region[d]
    BY <1>7 DEF Unlock, Freed, Abandoned, EndsAs, TypeOK
  <2>. QED  BY <2>1, <2>2, OthersKept
<1>8. ASSUME NEW p \in Pages, SwapOut(p) PROVE Kept'
  BY <1>8 DEF SwapOut, Kept
<1>9. CASE UNCHANGED vars
  BY <1>9 DEF vars, Kept
<1>. QED  BY <1>1, <1>2, <1>3, <1>4, <1>5, <1>6, <1>7, <1>8, <1>9 DEF Next

(* A lock that a call does not release still has the call that needs it.   *)
LEMMA LocksStay ==
  ASSUME TypeOK, LocksAreNeeded, NEW c \in Calls,
         \A d \in Calls : d # c => pc'[d] = pc[d] /\ region'[d] = region[d],
         \A p \in locked' : /\ p \in locked
                            /\ \/ c \notin SecureCalls
                               \/ pc[c] = "lock"
                               \/ p \notin PagesOf(c)
                               \/ pc'[c] # "lock" /\ region'[c] = region[c]
  PROVE  LocksAreNeeded'
<1>. SUFFICES ASSUME NEW p \in locked'
             PROVE  \E d \in SecureCalls : pc'[d] # "lock" /\ p \in PagesOf(d)'
  BY DEF LocksAreNeeded
<1>1. PICK d \in SecureCalls : pc[d] # "lock" /\ p \in PagesOf(d)
  BY DEF LocksAreNeeded
<1>2. pc'[d] # "lock" /\ region'[d] = region[d]
  BY <1>1, CallKinds
<1>. QED  BY <1>1, <1>2 DEF PagesOf

(* Every step keeps locks to the calls that need them.                     *)
LEMMA NextLocks == Tidy /\ [Next]_vars => LocksAreNeeded'
<1>. SUFFICES ASSUME Tidy, [Next]_vars
             PROVE  LocksAreNeeded'
  OBVIOUS
<1>. TypeOK /\ Control /\ LocksAreNeeded
  BY DEF Tidy
<1>1. ASSUME NEW c \in Calls, Allocate(c) PROVE LocksAreNeeded'
  <2>1. PagesOf(c) = {}
    BY <1>1 DEF Allocate, Control, Over, PagesOf
  <2>2. /\ locked' = locked
        /\ \A d \in Calls : d # c => pc'[d] = pc[d] /\ region'[d] = region[d]
    BY <1>1 DEF Allocate, TypeOK
  <2>. QED  BY <2>1, <2>2, LocksStay
<1>2. ASSUME NEW c \in Calls, Lock(c) PROVE LocksAreNeeded'
  <2>1. c \in SecureCalls /\ pc[c] = "lock"
    BY <1>2, CallKinds DEF Lock, Control, Over
  <2>2. \A d \in Calls : d # c => pc'[d] = pc[d] /\ region'[d] = region[d]
    BY <1>2 DEF Lock, LockIt, Freed, Abandoned, EndsAs, TypeOK
  <2>3. CASE UNCHANGED locked
    BY <2>1, <2>2, <2>3, LocksStay
  <2>4. CASE /\ locked' = locked \cup PagesOf(c)
             /\ pc' = [pc EXCEPT ![c] = "action"]
             /\ UNCHANGED region
    <3>1. SUFFICES ASSUME NEW p \in locked'
                   PROVE  \E d \in SecureCalls : pc'[d] # "lock" /\ p \in PagesOf(d)'
      BY DEF LocksAreNeeded
    <3>2. CASE p \in PagesOf(c)
      BY <2>1, <2>4, <3>2, CallKinds DEF TypeOK, PagesOf
    <3>3. CASE p \in locked
      <4>1. PICK d \in SecureCalls : pc[d] # "lock" /\ p \in PagesOf(d)
        BY <3>3 DEF LocksAreNeeded
      <4>. QED  BY <2>1, <2>4, <4>1, CallKinds DEF TypeOK, PagesOf
    <3>. QED  BY <2>4, <3>2, <3>3
  <2>. QED  BY <1>2, <2>3, <2>4 DEF Lock, LockIt
<1>3. ASSUME NEW c \in Calls, Store(c) PROVE LocksAreNeeded'
  BY <1>3 DEF Store, LocksAreNeeded, PagesOf
<1>4. ASSUME NEW c \in Calls, Return(c) PROVE LocksAreNeeded'
  <2>1. /\ locked' = locked /\ pc'[c] # "lock" /\ region' = region
        /\ \A d \in Calls : d # c => pc'[d] = pc[d]
    BY <1>4 DEF Return, TypeOK
  <2>. QED  BY <2>1, LocksStay
<1>5. ASSUME NEW c \in Calls, Throw(c) PROVE LocksAreNeeded'
  <2>1. /\ locked' = locked
        /\ \A d \in Calls : d # c => pc'[d] = pc[d] /\ region'[d] = region[d]
    BY <1>5 DEF Throw, AfterThrow, Freed, Abandoned, EndsAs, TypeOK
  <2>2. c \in SecureCalls => pc'[c] # "lock" /\ region'[c] = region[c]
    BY <1>5 DEF Throw, AfterThrow, Freed, Abandoned, EndsAs, TypeOK
  <2>. QED  BY <2>1, <2>2, LocksStay
<1>6. ASSUME NEW c \in Calls, Wipe(c) PROVE LocksAreNeeded'
  <2>1. /\ locked' = locked
        /\ \A d \in Calls : d # c => pc'[d] = pc[d] /\ region'[d] = region[d]
    BY <1>6 DEF Wipe, Freed, Abandoned, EndsAs, TypeOK
  <2>2. c \in SecureCalls => pc'[c] # "lock" /\ region'[c] = region[c]
    BY <1>6 DEF Wipe, Freed, Abandoned, EndsAs, TypeOK
  <2>. QED  BY <2>1, <2>2, LocksStay
<1>7. ASSUME NEW c \in Calls, Unlock(c) PROVE LocksAreNeeded'
  <2>1. /\ locked' = locked \ PagesOf(c)
        /\ \A d \in Calls : d # c => pc'[d] = pc[d] /\ region'[d] = region[d]
    BY <1>7 DEF Unlock, UnlockedOf, Freed, Abandoned, EndsAs, TypeOK
  <2>. QED  BY <2>1, LocksStay
<1>8. ASSUME NEW p \in Pages, SwapOut(p) PROVE LocksAreNeeded'
  BY <1>8 DEF SwapOut, LocksAreNeeded, PagesOf
<1>9. CASE UNCHANGED vars
  BY <1>9 DEF vars, LocksAreNeeded, PagesOf
<1>. QED  BY <1>1, <1>2, <1>3, <1>4, <1>5, <1>6, <1>7, <1>8, <1>9 DEF Next

(* The invariant holds of every behaviour, whatever the page size is.      *)
THEOREM SpecTidy == Spec => []Tidy
<1>1. Tidy /\ [Next]_vars => Tidy'
  BY NextTyped, NextApart, NextKept, NextLocks DEF Tidy
<1>. QED  BY <1>1, InitTidy, PTL DEF Spec

(* The types of the memory model are kept by all calls.                    *)
THEOREM TypeCorrect == Spec => []TypeOK
<1>1. Tidy => TypeOK
  BY DEF Tidy
<1>. QED  BY <1>1, SpecTidy, PTL

(* What secure calls stored is wiped before their memory is given to       *)
(* others, however the actions end and whatever plain calls do.            *)
THEOREM SecretsAreWiped == Spec => []WipedClean
<1>1. Tidy => WipedClean
  BY DEF Tidy, Kept, WipedClean
<1>. QED  BY <1>1, SpecTidy, PTL

(* No lock outlives the calls that need it, however the actions end.       *)
THEOREM LocksEnd == Spec => []LocksAreNeeded
<1>1. Tidy => LocksAreNeeded
  BY DEF Tidy
<1>. QED  BY <1>1, SpecTidy, PTL

(* A secret of a plain call is left behind in memory only by a call that   *)
(* an exception ended.                                                     *)
THEOREM ExceptionsAlone == Spec => OnlyExceptionsLeave
<1>1. ASSUME Tidy, [Next]_vars, NEW d \in PlainCalls, pc'[d] # "abandoned",
             NEW a \in Addresses, memory'[a] = d, a \notin region'[d]
      PROVE  memory[a] = d /\ a \notin region[d]
  <2>. TypeOK /\ Control /\ d \in Calls
    BY <1>1, CallKinds DEF Tidy
  <2>1. ASSUME NEW c \in Calls, Allocate(c) \/ Lock(c) \/ Return(c) \/ Throw(c) \/ Unlock(c)
        PROVE  memory[a] = d /\ a \notin region[d]
    <3>1. memory' = memory
      BY <2>1 DEF Allocate, Lock, Return, Throw, Unlock
    <3>2. region'[d] = region[d] \/ region[d] = {}
      BY <1>1, <2>1, CallKinds
         DEF Allocate, Lock, LockIt, Return, Throw, AfterThrow, Unlock, Freed, Abandoned,
             EndsAs, TypeOK, Control, Over
    <3>. QED  BY <1>1, <3>1, <3>2
  <2>2. ASSUME NEW c \in Calls, Store(c) PROVE memory[a] = d /\ a \notin region[d]
    <3>1. PICK x \in region[c] : memory' = [memory EXCEPT ![x] = c]
      BY <2>2 DEF Store
    <3>. QED  BY <1>1, <2>2, <3>1 DEF Store, TypeOK
  <2>3. ASSUME NEW c \in Calls, Wipe(c) PROVE memory[a] = d /\ a \notin region[d]
    <3>1. memory'[a] = IF a \in region[c] THEN NoSecret ELSE memory[a]
      BY <2>3 DEF Wipe, WipedOf
    <3>2. c = d \/ region'[d] = region[d]
      BY <2>3 DEF Wipe, Freed, EndsAs, TypeOK
    <3>. QED  BY <1>1, <3>1, <3>2, CallKinds
  <2>4. CASE UNCHANGED <<memory, region>>
    BY <1>1, <2>4
  <2>. QED  BY <1>1, <2>1, <2>2, <2>3, <2>4 DEF Next, vars, SwapOut
<1>2. Tidy /\ [Next]_vars =>
        [\A c \in PlainCalls :
           \/ pc'[c] = "abandoned"
           \/ \A a \in Addresses : memory'[a] = c /\ a \notin region'[c]
                                   => memory[a] = c /\ a \notin region[c]]_vars
  BY <1>1
<1>. QED  BY <1>2, SpecTidy, PTL DEF Spec, OnlyExceptionsLeave

-----------------------------------------------------------------------------
(* Regions lie on pages of their own: the addresses are the pages.         *)
OwnPages == PageSize = 1

(* All pages of a call are locked from the lock on to the unlock.          *)
Covered ==
  \A c \in SecureCalls : pc[c] \in {"action", "wipe", "unlock"} => PagesOf(c) \subseteq locked

Sealed == Covered /\ NeverSwapped

(* With pages of their own regions that are apart have pages apart.        *)
LEMMA PagesApart ==
  ASSUME OwnPages, TypeOK, Apart, NEW c \in Calls, NEW d \in Calls, c # d
  PROVE  PagesOf(c) \cap PagesOf(d) = {}
<1>1. \A a \in Addresses : PageOf(a) = a
  BY SecureMemoryAssumption DEF OwnPages, Addresses, PageOf
<1>2. PagesOf(c) = region[c] /\ PagesOf(d) = region[d]
  BY <1>1 DEF PagesOf, TypeOK
<1>. QED  BY <1>2 DEF Apart

(* A call that moves on within its region keeps the locks of all.          *)
LEMMA StillCovered ==
  ASSUME TypeOK, Covered, NEW c \in Calls,
         \A d \in Calls : d # c => pc'[d] = pc[d] /\ region'[d] = region[d],
         \A d \in SecureCalls : d # c => locked \cap PagesOf(d) \subseteq locked',
         \/ c \notin SecureCalls
         \/ pc'[c] \notin {"action", "wipe", "unlock"}
         \/ /\ pc[c] \in {"action", "wipe", "unlock"}
            /\ region'[c] = region[c] /\ locked' = locked
  PROVE  Covered'
<1>. SUFFICES ASSUME NEW d \in SecureCalls,
                     pc'[d] \in {"action", "wipe", "unlock"}
             PROVE  PagesOf(d)' \subseteq locked'
  BY DEF Covered
<1>1. CASE d # c
  BY <1>1, CallKinds DEF Covered, PagesOf
<1>2. CASE d = c
  BY <1>2, CallKinds DEF Covered, PagesOf
<1>. QED  BY <1>1, <1>2

(* Every step keeps the pages of secure regions locked.                    *)
LEMMA NextCovered ==
  ASSUME OwnPages, Tidy, Covered, [Next]_vars
  PROVE  Covered'
<1>. TypeOK /\ Control /\ Apart
  BY DEF Tidy
<1>1. ASSUME NEW c \in Calls, Allocate(c) PROVE Covered'
  <2>1. /\ locked' = locked
        /\ \A d \in Calls : d # c => pc'[d] = pc[d] /\ region'[d] = region[d]
        /\ c \notin SecureCalls \/ pc'[c] = "lock"
    BY <1>1 DEF Allocate, TypeOK
  <2>. QED  BY <2>1, StillCovered
<1>2. ASSUME NEW c \in Calls, Lock(c) PROVE Covered'
  <2>1. \A d \in Calls : d # c => pc'[d] = pc[d] /\ region'[d] = region[d]
    BY <1>2 DEF Lock, LockIt, Freed, Abandoned, EndsAs, TypeOK
  <2>2. CASE Abandoned(c) /\ UNCHANGED locked
    <3>1. pc'[c] = "abandoned"
      BY <2>2 DEF Abandoned, EndsAs, TypeOK
    <3>. QED  BY <2>1, <2>2, <3>1, StillCovered
  <2>3. CASE /\ locked' = locked \cup PagesOf(c)
             /\ pc' = [pc EXCEPT ![c] = "action"]
             /\ UNCHANGED region
    BY <2>1, <2>3, CallKinds DEF Covered, PagesOf, TypeOK
  <2>. QED  BY <1>2, <2>2, <2>3 DEF Lock, LockIt
<1>3. ASSUME NEW c \in Calls, Store(c) PROVE Covered'
  BY <1>3 DEF Store, Covered, PagesOf
<1>4. ASSUME NEW c \in Calls, Return(c) PROVE Covered'
  <2>1. /\ locked' = locked /\ region' = region /\ pc[c] = "action"
        /\ \A d \in Calls : d # c => pc'[d] = pc[d]
    BY <1>4 DEF Return, TypeOK
  <2>. QED  BY <2>1, StillCovered
<1>5. ASSUME NEW c \in Calls, Throw(c) PROVE Covered'
  <2>1. /\ locked' = locked /\ pc[c] \in {"action", "wipe"}
        /\ \A d \in Calls : d # c => pc'[d] = pc[d] /\ region'[d] = region[d]
        /\ c \notin SecureCalls \/ region'[c] = region[c]
    BY <1>5 DEF Throw, AfterThrow, Freed, Abandoned, EndsAs, TypeOK
  <2>. QED  BY <2>1, StillCovered
<1>6. ASSUME NEW c \in Calls, Wipe(c) PROVE Covered'
  <2>1. /\ locked' = locked /\ pc[c] = "wipe"
        /\ \A d \in Calls : d # c => pc'[d] = pc[d] /\ region'[d] = region[d]
        /\ c \notin SecureCalls \/ region'[c] = region[c]
    BY <1>6 DEF Wipe, Freed, Abandoned, EndsAs, TypeOK
  <2>. QED  BY <2>1, StillCovered
<1>7. ASSUME NEW c \in Calls, Unlock(c) PROVE Covered'
  <2>1. /\ locked' = locked \ PagesOf(c) /\ pc'[c] = "idle"
        /\ \A d \in Calls : d # c => pc'[d] = pc[d] /\ region'[d] = region[d]
    BY <1>7 DEF Unlock, UnlockedOf, Freed, Abandoned, EndsAs, TypeOK
  <2>2. \A d \in SecureCalls : d # c => locked \cap PagesOf(d) \subseteq locked'
    <3>. SUFFICES ASSUME NEW d \in SecureCalls, d # c
                 PROVE  locked \cap PagesOf(d) \subseteq locked'
      OBVIOUS
    <3>1. PagesOf(c) \cap PagesOf(d) = {}
      BY PagesApart, CallKinds
    <3>. QED  BY <2>1, <3>1
  <2>. QED  BY <2>1, <2>2, StillCovered
<1>8. ASSUME NEW p \in Pages, SwapOut(p) PROVE Covered'
  BY <1>8 DEF SwapOut, Covered, PagesOf
<1>9. CASE UNCHANGED vars
  BY <1>9 DEF vars, Covered, PagesOf
<1>. QED  BY <1>1, <1>2, <1>3, <1>4, <1>5, <1>6, <1>7, <1>8, <1>9 DEF Next

(* No step writes a secret of a secure call to the disk.                   *)
LEMMA NextUnswapped ==
  ASSUME Tidy, Covered, NeverSwapped, [Next]_vars
  PROVE  NeverSwapped'
<1>1. ASSUME NEW p \in Pages, SwapOut(p) PROVE NeverSwapped'
  <2>1. SUFFICES ASSUME NEW a \in Addresses, PageOf(a) = p, memory[a] \in SecureCalls
                 PROVE  FALSE
    BY <1>1 DEF SwapOut, NeverSwapped
  <2>2. /\ a \in region[memory[a]]
        /\ pc[memory[a]] \in {"action", "wipe"}
    BY <2>1 DEF Tidy, Kept
  <2>3. p \in locked
    BY <2>1, <2>2 DEF Covered, PagesOf
  <2>. QED  BY <1>1, <2>3 DEF SwapOut
<1>2. CASE disk' = disk
  BY <1>2 DEF NeverSwapped
<1>3. ASSUME NEW c \in Calls,
             \/ Allocate(c) \/ Lock(c) \/ Store(c) \/ Return(c)
             \/ Throw(c) \/ Wipe(c) \/ Unlock(c)
      PROVE  disk' = disk
  BY <1>3 DEF Allocate, Lock, Store, Return, Throw, Wipe, Unlock
<1>. QED  BY <1>1, <1>2, <1>3 DEF Next, vars

(* The promise of allocaSecure, where regions do not share pages: no       *)
(* secret of a secure call is ever written to the disk.                    *)
THEOREM SecretsAreNotSwapped == OwnPages /\ Spec => []NeverSwapped
<1>. SUFFICES ASSUME OwnPages PROVE Spec => []NeverSwapped
  OBVIOUS
<1>1. Init => Sealed
  BY CallKinds DEF Init, Sealed, Covered, NeverSwapped
<1>2. Tidy /\ Sealed /\ [Next]_vars => Sealed'
  BY NextCovered, NextUnswapped DEF Sealed
<1>3. Sealed => NeverSwapped
  BY DEF Sealed
<1>. QED  BY <1>1, <1>2, <1>3, SpecTidy, PTL DEF Spec
=============================================================================
