-------------------------- MODULE ImagePoolProofs --------------------------
(***************************************************************************)
(* Proofs about ImagePool, for any number of threads, blocks and frame     *)
(* sizes, any length of the free list and any clamp.  First where every    *)
(* block is (no counting), then the count, from which the bound follows.   *)
(***************************************************************************)
EXTENDS ImagePool, FiniteSetTheorems, TLAPS

USE PoolAssumption

-----------------------------------------------------------------------------
(* Types, except that g_imgAllocated never goes below zero: that needs the *)
(* count.                                                                  *)

Types ==
    /\ bytes \in [Blocks -> Sizes \union {NoSize}]
    /\ ref \in [Blocks -> Nat]
    /\ free \in SUBSET Blocks
    /\ poolMax \in Nat
    /\ size \in Sizes
    /\ reloading \in BOOLEAN
    /\ pc \in [Threads -> Steps]
    /\ block \in [Threads -> Blocks \union {NoBlock}]
    /\ wanted \in [Threads -> Sizes \union {NoSize}]
    /\ held \in [Blocks -> Nat]

PlaceInv == Types /\ InHand /\ OwnedIsSafe /\ EveryBlockHasAPlace

\* The clamp yields a number between its bounds.
LEMMA ClampedRange ==
    ASSUME NEW c \in Nat
    PROVE  Clamped(c) \in Nat /\ Clamped(c) >= PoolMin /\ Clamped(c) <= PoolMax
BY SMT DEF Clamped

LEMMA InitPlaces == Init => PlaceInv
<1> SUFFICES ASSUME Init PROVE PlaceInv
  OBVIOUS
<1>1. poolMax \in Nat
  BY ClampedRange DEF Init
<1>2. Types
  BY <1>1 DEF Init, Types, Steps
<1>3. InMemory = {} /\ free = {}
  BY DEF Init, InMemory
<1>4. \A t \in Threads : pc[t] = "idle"
  BY DEF Init
<1>5. \A b \in Blocks : ~Owned(b)
  BY DEF Init, Owned
<1>6. InHand /\ OwnedIsSafe /\ EveryBlockHasAPlace
  BY <1>3, <1>4, <1>5 DEF InHand, OwnedIsSafe, EveryBlockHasAPlace, At
<1> QED BY <1>2, <1>6 DEF PlaceInv

\* What the call's return does to the thread that returns and to the others.
LEMMA ReturnEffect ==
    ASSUME Types, NEW t \in Threads, Return(t)
    PROVE  /\ pc' \in [Threads -> Steps]
           /\ block' \in [Threads -> Blocks \union {NoBlock}]
           /\ wanted' \in [Threads -> Sizes \union {NoSize}]
           /\ pc'[t] = "idle"
           /\ \A u \in Threads \ {t} : /\ pc'[u] = pc[u] /\ block'[u] = block[u]
                                       /\ wanted'[u] = wanted[u]
BY DEF Types, Return, Steps

LEMMA PlacesAreBlocks ==
    ASSUME PlaceInv
    PROVE  /\ InMemory \subseteq Blocks
           /\ free \subseteq Blocks
BY DEF PlaceInv, Types, InMemory

LEMMA MakePlaces ==
    ASSUME PlaceInv, NEW t \in Threads, Make(t)
    PROVE  PlaceInv'
<1> USE DEF PlaceInv
<1>a. InMemory \subseteq Blocks /\ free \subseteq Blocks
  BY PlacesAreBlocks
<1>1. CASE Reuse(t)
  <2>1. PICK b \in free : /\ bytes[b] = size /\ free' = free \ {b}
                          /\ block' = [block EXCEPT ![t] = b]
    BY <1>1 DEF Reuse
  <2>2. Types'
    BY <1>1, <2>1 DEF Reuse, Goto, Types, Steps, cfgVars
  <2>3. b \in InMemory /\ InMemory' = InMemory /\ ~Owned(b)
    BY <1>1, <2>1 DEF Reuse, InMemory, Types, EveryBlockHasAPlace, OwnedIsSafe
  <2>4. \A u \in Threads, c \in Blocks : At(u, c)' <=> At(u, c) \/ (u = t /\ c = b)
    BY <1>1, <2>1 DEF Reuse, Goto, At, Types
  <2>5. \A c \in Blocks : Owned(c)' <=> Owned(c)
    BY <1>1 DEF Reuse, Owned
  <2>6. InHand'
    BY <1>1, <2>1, <2>3 DEF Reuse, Goto, InHand, Types
  <2>7. OwnedIsSafe'
    BY <1>1, <2>1, <2>3, <2>4, <2>5 DEF Reuse, OwnedIsSafe
  <2>8. EveryBlockHasAPlace'
    BY <1>a, <2>1, <2>3, <2>4, <2>5 DEF EveryBlockHasAPlace
  <2> QED BY <2>2, <2>6, <2>7, <2>8
<1>2. CASE FindNone(t) \/ Drop(t) \/ Reserve(t) \/ MallocFails(t)
  <2>1. Types'
    BY <1>2, ReturnEffect DEF FindNone, Drop, Reserve, MallocFails, Goto, Types,
       Steps, poolVars, cfgVars
  <2>2. \A u \in Threads, c \in Blocks : At(u, c)' <=> At(u, c)
    BY <1>2, ReturnEffect DEF FindNone, Drop, Reserve, MallocFails, Goto, At,
       Types
  <2>3. InMemory' = InMemory /\ free' = free /\ UNCHANGED <<ref, held>>
    BY <1>2 DEF FindNone, Drop, Reserve, MallocFails, InMemory, poolVars
  <2>4. InHand'
    BY <1>2, <2>3, ReturnEffect DEF FindNone, Drop, Reserve, MallocFails, Goto,
       InHand, Types
  <2>5. OwnedIsSafe' /\ EveryBlockHasAPlace'
    BY <1>a, <2>2, <2>3 DEF OwnedIsSafe, EveryBlockHasAPlace, Owned
  <2> QED BY <2>1, <2>4, <2>5
<1>3. CASE Malloc(t)
  <2>1. PICK b \in Blocks : /\ bytes[b] = NoSize
                            /\ bytes' = [bytes EXCEPT ![b] = wanted[t]]
                            /\ block' = [block EXCEPT ![t] = b]
    BY <1>3 DEF Malloc
  <2>2. Types'
    BY <1>3, <2>1 DEF Malloc, Goto, Types, Steps, cfgVars
  <2>3. b \notin InMemory /\ InMemory' = InMemory \union {b}
    BY <1>3, <2>1 DEF Malloc, InMemory, Types, InHand
  <2>4. \A u \in Threads, c \in Blocks : At(u, c)' <=> At(u, c) \/ (u = t /\ c = b)
    BY <1>3, <2>1 DEF Malloc, Goto, At, Types
  <2>5. \A u \in Threads : ~At(u, b)
    BY <2>3 DEF At, InHand
  <2>6. \A c \in Blocks : Owned(c)' <=> Owned(c)
    BY <1>3 DEF Malloc, Owned
  <2>7. InHand'
    BY <1>3, <2>1, <2>3 DEF Malloc, Goto, InHand, Types
  <2>8. OwnedIsSafe'
    BY <1>3, <2>1, <2>3, <2>4, <2>6 DEF Malloc, OwnedIsSafe
  <2>9. EveryBlockHasAPlace'
    <3>1. free' = free
      BY <1>3 DEF Malloc
    <3> QED BY <1>a, <3>1, <2>1, <2>3, <2>4, <2>5, <2>6 DEF EveryBlockHasAPlace
  <2> QED BY <2>2, <2>7, <2>8, <2>9
<1>4. CASE HandOver(t)
  <2>1. block[t] \in InMemory /\ block[t] \in Blocks /\ At(t, block[t])
    BY <1>4 DEF HandOver, InHand, InMemory, At
  <2>2. ~Owned(block[t]) /\ block[t] \notin free
    BY <2>1 DEF OwnedIsSafe, EveryBlockHasAPlace
  <2>3. Types'
    BY <1>4, <2>1, ReturnEffect DEF HandOver, Types, cfgVars
  <2>4. \A u \in Threads, c \in Blocks : At(u, c)' <=> At(u, c) /\ u # t
    BY <1>4, ReturnEffect DEF HandOver, At
  <2>5. InMemory' = InMemory /\ free' = free
    BY <1>4 DEF HandOver, InMemory
  <2>6. \A c \in Blocks : /\ c # block[t] => held'[c] = held[c] /\ ref'[c] = ref[c]
                          /\ c = block[t] => held'[c] = 1 /\ ref'[c] = 1
    BY <1>4 DEF HandOver, Types
  <2>7. InHand'
    BY <1>4, <2>5, ReturnEffect DEF HandOver, InHand
  <2>8. OwnedIsSafe'
    BY <2>1, <2>2, <2>4, <2>5, <2>6 DEF OwnedIsSafe, Owned, EveryBlockHasAPlace
  <2>9. EveryBlockHasAPlace'
    <3>1. \A c \in InMemory : Owned(c)' \/ c \in free \/ \E u \in Threads : At(u, c)'
      BY <2>1, <2>4, <2>6 DEF EveryBlockHasAPlace, Owned, InMemory, At
    <3> QED BY <1>a, <3>1, <2>4, <2>5 DEF EveryBlockHasAPlace
  <2> QED BY <2>3, <2>7, <2>8, <2>9
<1> QED BY <1>1, <1>2, <1>3, <1>4 DEF Make

LEMMA LastReleasePlaces ==
    ASSUME PlaceInv, NEW t \in Threads, LastRelease(t)
    PROVE  PlaceInv'
<1> USE DEF PlaceInv
<1>a. InMemory \subseteq Blocks /\ free \subseteq Blocks
  BY PlacesAreBlocks
<1>1. CASE Recycle(t)
  <2>1. block[t] \in InMemory /\ block[t] \in Blocks /\ At(t, block[t])
    BY <1>1 DEF Recycle, InHand, InMemory, At
  <2>2. ~Owned(block[t]) /\ block[t] \notin free
    BY <2>1 DEF OwnedIsSafe, EveryBlockHasAPlace
  <2>3. InMemory' = InMemory /\ UNCHANGED <<ref, held>>
    BY <1>1 DEF Recycle, InMemory
  <2>4. \A c \in Blocks : Owned(c)' <=> Owned(c)
    BY <2>3 DEF Owned
  <2>5. CASE Return(t) /\ free' = free \union {block[t]}
    <3>1. Types'
      BY <1>1, <2>1, <2>5, ReturnEffect DEF Recycle, Types, cfgVars
    <3>2. \A u \in Threads, c \in Blocks : At(u, c)' <=> At(u, c) /\ u # t
      BY <2>5, ReturnEffect DEF At
    <3>3. InHand'
      BY <2>3, <2>5, ReturnEffect DEF InHand
    <3>4. OwnedIsSafe'
      BY <2>1, <2>2, <2>3, <2>4, <2>5, <3>2 DEF OwnedIsSafe
    <3>5. \A u \in Threads : u # t => ~At(u, block[t])
      BY <2>1 DEF EveryBlockHasAPlace
    <3>6. \A c \in InMemory : Owned(c) \/ c \in free \/ c = block[t]
                              \/ \E u \in Threads : At(u, c) /\ u # t
      BY DEF EveryBlockHasAPlace, At
    <3>7. EveryBlockHasAPlace'
      BY <1>a, <2>1, <2>3, <2>4, <2>5, <3>2, <3>5, <3>6 DEF EveryBlockHasAPlace
    <3> QED BY <3>1, <3>3, <3>4, <3>7
  <2>6. CASE Goto(t, "free") /\ UNCHANGED <<free, block, wanted>>
    <3>1. Types'
      BY <1>1, <2>6 DEF Recycle, Types, cfgVars, Goto, Steps
    <3>2. \A u \in Threads, c \in Blocks : At(u, c)' <=> At(u, c)
      BY <1>1, <2>6 DEF Recycle, Goto, At, Types
    <3>3. InHand'
      BY <1>1, <2>1, <2>3, <2>6 DEF Recycle, InHand, Goto, Types
    <3>4. OwnedIsSafe' /\ EveryBlockHasAPlace'
      BY <1>a, <2>3, <2>4, <2>6, <3>2 DEF OwnedIsSafe, EveryBlockHasAPlace
    <3> QED BY <3>1, <3>3, <3>4
  <2> QED BY <1>1, <2>5, <2>6 DEF Recycle
<1>2. CASE Free(t)
  <2>1. block[t] \in InMemory /\ block[t] \in Blocks /\ At(t, block[t])
    BY <1>2 DEF Free, InHand, InMemory, At
  <2>2. /\ ~Owned(block[t]) /\ block[t] \notin free
        /\ \A u \in Threads : u # t => ~At(u, block[t])
    BY <2>1 DEF OwnedIsSafe, EveryBlockHasAPlace
  <2>3. InMemory' = InMemory \ {block[t]}
    BY <1>2, <2>1 DEF Free, InMemory, Types
  <2>4. free' = free /\ UNCHANGED <<ref, held>>
    BY <1>2 DEF Free
  <2>5. \A c \in Blocks : Owned(c)' <=> Owned(c)
    BY <2>4 DEF Owned
  <2>6. Types'
    BY <1>2, <2>1 DEF Free, Types, cfgVars, Goto, Steps
  <2>7. \A u \in Threads, c \in Blocks : At(u, c)' <=> At(u, c) /\ u # t
    BY <1>2 DEF Free, Goto, At, Types
  <2>8. InHand'
    <3>1. \A u \in Threads :
            pc[u] \in {"fill", "recycle", "free"} => u = t \/ block[u] # block[t]
      BY <2>1, <2>2 DEF At
    <3> QED BY <1>2, <2>3, <3>1 DEF Free, Goto, InHand, Types
  <2>9. OwnedIsSafe'
    BY <2>2, <2>3, <2>4, <2>5, <2>7 DEF OwnedIsSafe
  <2>10. EveryBlockHasAPlace'
    <3>1. \A c \in InMemory : Owned(c) \/ c \in free \/ c = block[t]
                              \/ \E u \in Threads : At(u, c) /\ u # t
      BY DEF EveryBlockHasAPlace, At
    <3> QED BY <1>a, <2>2, <2>3, <2>4, <2>5, <2>7, <3>1 DEF EveryBlockHasAPlace
  <2> QED BY <2>6, <2>8, <2>9, <2>10
<1>3. CASE Uncount(t)
  <2>1. Types'
    BY <1>3, ReturnEffect DEF Uncount, Types, cfgVars
  <2>2. \A u \in Threads, c \in Blocks : At(u, c)' <=> At(u, c)
    BY <1>3, ReturnEffect DEF Uncount, At
  <2>3. InMemory' = InMemory /\ UNCHANGED <<free, ref, held>>
    BY <1>3 DEF Uncount, InMemory
  <2>4. InHand'
    BY <1>3, <2>3, ReturnEffect DEF Uncount, InHand
  <2>5. OwnedIsSafe' /\ EveryBlockHasAPlace'
    BY <1>a, <2>2, <2>3 DEF OwnedIsSafe, EveryBlockHasAPlace, Owned
  <2> QED BY <2>1, <2>4, <2>5
<1> QED BY <1>1, <1>2, <1>3 DEF LastRelease

LEMMA ReleasePlaces ==
    ASSUME PlaceInv, NEW t \in Threads, NEW b \in Blocks, Release(t, b)
    PROVE  PlaceInv'
<1> USE DEF PlaceInv
<1>a. InMemory \subseteq Blocks /\ free \subseteq Blocks
  BY PlacesAreBlocks
<1>1. Owned(b) /\ b \in InMemory /\ b \notin free /\ ref[b] = held[b]
      /\ \A u \in Threads : ~At(u, b)
  BY DEF Release, Owned, OwnedIsSafe
<1>2. InMemory' = InMemory /\ free' = free
  BY DEF Release, InMemory
<1>3. \A c \in Blocks : c # b => held'[c] = held[c] /\ ref'[c] = ref[c]
  BY DEF Release, Types
<1>4. held'[b] = held[b] - 1 /\ ref'[b] = ref[b] - 1 /\ held[b] \in Nat
  BY DEF Release, Types
<1>5. Types'
  <2>1. held' \in [Blocks -> Nat] /\ ref' \in [Blocks -> Nat]
    <3>1. held[b] - 1 \in Nat /\ ref[b] - 1 \in Nat
      BY <1>1, <1>4 DEF Owned
    <3> QED BY <3>1 DEF Release, Types
  <2> QED BY <2>1 DEF Release, Types, cfgVars, Goto, Steps
<1>6. CASE ref[b] = 1
  <2>1. \A u \in Threads, c \in Blocks : At(u, c)' <=> At(u, c) \/ (u = t /\ c = b)
    BY <1>6 DEF Release, Goto, At, Types
  <2>2. \A c \in Blocks : Owned(c)' <=> Owned(c) /\ c # b
    BY <1>1, <1>3, <1>4, <1>6 DEF Owned
  <2>3. InHand'
    BY <1>1, <1>2, <1>6 DEF Release, Goto, InHand, Types
  <2>4. OwnedIsSafe'
    BY <1>2, <1>3, <2>1, <2>2 DEF OwnedIsSafe
  <2>5. EveryBlockHasAPlace'
    <3>1. At(t, b)'
      BY <2>1
    <3> QED BY <1>a, <1>1, <1>2, <2>1, <2>2, <3>1 DEF EveryBlockHasAPlace
  <2> QED BY <1>5, <2>3, <2>4, <2>5
<1>7. CASE ref[b] # 1
  <2>1. UNCHANGED <<pc, block, wanted>>
    BY <1>7 DEF Release
  <2>2. \A u \in Threads, c \in Blocks : At(u, c)' <=> At(u, c)
    BY <2>1 DEF At
  <2>3. \A c \in Blocks : Owned(c)' <=> Owned(c)
    BY <1>1, <1>3, <1>4, <1>7 DEF Owned
  <2>4. InHand'
    BY <1>2, <2>1 DEF InHand
  <2>5. OwnedIsSafe' /\ EveryBlockHasAPlace'
    BY <1>a, <1>1, <1>2, <1>3, <1>4, <2>2, <2>3 DEF OwnedIsSafe, EveryBlockHasAPlace
  <2> QED BY <1>5, <2>4, <2>5
<1> QED BY <1>6, <1>7

LEMMA AddRefPlaces ==
    ASSUME PlaceInv, NEW b \in Blocks, AddRef(b)
    PROVE  PlaceInv'
<1> USE DEF PlaceInv
<1>a. InMemory \subseteq Blocks /\ free \subseteq Blocks
  BY PlacesAreBlocks
<1>1. held[b] \in Nat /\ held[b] > 0
  BY DEF AddRef, Types
<1>2. \A c \in Blocks : Owned(c)' <=> Owned(c)
  BY <1>1 DEF AddRef, Owned, Types
<1>3. \A c \in Blocks : Owned(c) => ref'[c] = held'[c]
  BY DEF AddRef, OwnedIsSafe, Types
<1>4. Types'
  BY DEF AddRef, Types, cfgVars
<1>5. InMemory' = InMemory /\ UNCHANGED <<free, pc, block, wanted>>
  BY DEF AddRef, InMemory
<1>6. \A u \in Threads, c \in Blocks : At(u, c)' <=> At(u, c)
  BY <1>5 DEF At
<1>7. InHand' /\ OwnedIsSafe' /\ EveryBlockHasAPlace'
  BY <1>a, <1>2, <1>3, <1>5, <1>6 DEF InHand, OwnedIsSafe, EveryBlockHasAPlace
<1> QED BY <1>4, <1>7

LEMMA ReloadPlaces ==
    ASSUME PlaceInv, ReloadParse \/ ReloadClamp
    PROVE  PlaceInv'
<1> USE DEF PlaceInv
<1>1. UNCHANGED <<bytes, ref, free, pc, block, wanted, held>>
  BY DEF ReloadParse, ReloadClamp, poolVars
<1>2. poolMax' \in Nat /\ size' \in Sizes /\ reloading' \in BOOLEAN
  BY ClampedRange DEF ReloadParse, ReloadClamp, Types
<1>3. Types'
  BY <1>1, <1>2 DEF Types
<1>4. InHand' /\ OwnedIsSafe' /\ EveryBlockHasAPlace'
  BY <1>1 DEF InHand, OwnedIsSafe, EveryBlockHasAPlace, InMemory, At, Owned
<1> QED BY <1>3, <1>4

LEMMA StutterPlaces ==
    ASSUME PlaceInv, UNCHANGED vars
    PROVE  PlaceInv'
BY DEF PlaceInv, Types, InHand, OwnedIsSafe, EveryBlockHasAPlace, InMemory, At,
   Owned, vars, poolVars, cfgVars

LEMMA PlacesInvariant == Spec => []PlaceInv
<1>1. Init => PlaceInv
  BY InitPlaces
<1>2. PlaceInv /\ [Next]_vars => PlaceInv'
  BY MakePlaces, LastReleasePlaces, ReleasePlaces, AddRefPlaces, ReloadPlaces,
     StutterPlaces DEF Next
<1> QED BY <1>1, <1>2, PTL DEF Spec

\* An image the game still refers to is never freed, reused or refilled, and
\* its count is exact: for any number of threads that release concurrently.
THEOREM OwnedImagesAreSafe == Spec => []OwnedIsSafe
BY PlacesInvariant, PTL DEF PlaceInv

\* No block is ever lost or in two places.
THEOREM NoBlockIsLost == Spec => []EveryBlockHasAPlace
BY PlacesInvariant, PTL DEF PlaceInv

-----------------------------------------------------------------------------
(* The loan.                                                               *)

\* What is in nobody's hands in the pool is what the game has references to.
LentView ==
    /\ LentRefs = held
    /\ LentBytes = [b \in Blocks |-> IF held[b] > 0 THEN bytes[b] ELSE NoSize]

LEMMA LentIsOwned == PlaceInv => LentView
<1> SUFFICES ASSUME PlaceInv PROVE LentView
  OBVIOUS
<1>1. \A b \in Blocks : Lent(b) <=> held[b] > 0
  BY DEF PlaceInv, Lent, Owned, OwnedIsSafe, EveryBlockHasAPlace
<1>2. \A b \in Blocks : Lent(b) => ref[b] = held[b]
  BY <1>1 DEF PlaceInv, Owned, OwnedIsSafe
<1>3. \A b \in Blocks : ~Lent(b) => held[b] = 0
  BY <1>1 DEF PlaceInv, Types
<1>4. LentRefs = [b \in Blocks |-> held[b]]
  BY <1>2, <1>3 DEF LentRefs
<1>5. LentRefs = held
  BY <1>4 DEF PlaceInv, Types
<1>6. LentBytes = [b \in Blocks |-> IF held[b] > 0 THEN bytes[b] ELSE NoSize]
  BY <1>1 DEF LentBytes
<1> QED BY <1>5, <1>6 DEF LentView

\* Before a step and after it.
LEMMA LentBeforeAndAfter ==
    ASSUME PlaceInv, PlaceInv'
    PROVE  LentView /\ LentView'
BY LentIsOwned, PTL

\* A step that leaves the references and the size of every lent image alone.
LEMMA NothingLent ==
    ASSUME PlaceInv, PlaceInv', held' = held,
           \A b \in Blocks : held[b] > 0 => bytes'[b] = bytes[b]
    PROVE  UNCHANGED <<LentRefs, LentBytes>>
<1>1. LentRefs' = held'
  BY LentBeforeAndAfter DEF LentView
<1>2. LentBytes' = [b \in Blocks |-> IF held'[b] > 0 THEN bytes'[b] ELSE NoSize]
  BY LentBeforeAndAfter DEF LentView
<1> QED BY <1>1, <1>2, LentBeforeAndAfter DEF LentView

LEMMA HandOverLends ==
    ASSUME PlaceInv, PlaceInv', NEW t \in Threads, HandOver(t)
    PROVE  Loan!Lend(block[t])
<1> DEFINE b == block[t]
<1>1. b \in Blocks /\ bytes[b] \in Sizes /\ At(t, b)
  BY DEF PlaceInv, HandOver, InHand, InMemory, At, Types
<1>2. held[b] = 0
  BY <1>1 DEF PlaceInv, Types, OwnedIsSafe, Owned
<1>3. held' = [held EXCEPT ![b] = 1] /\ bytes' = bytes
  BY DEF HandOver
<1>4. LentRefs[b] = 0 /\ LentRefs' = [LentRefs EXCEPT ![b] = 1]
  BY <1>2, <1>3, LentBeforeAndAfter DEF LentView
<1>5. LentBytes' = [LentBytes EXCEPT ![b] = bytes[b]]
  <2>1. LentBytes' = [c \in Blocks |-> IF held'[c] > 0 THEN bytes'[c] ELSE NoSize]
    BY LentBeforeAndAfter DEF LentView
  <2>2. \A c \in Blocks : held'[c] = IF c = b THEN 1 ELSE held[c]
    BY <1>1, <1>3 DEF PlaceInv, Types
  <2>3. \A c \in Blocks : LentBytes'[c] = IF c = b THEN bytes[c] ELSE LentBytes[c]
    BY <1>3, <2>1, <2>2, LentBeforeAndAfter DEF LentView
  <2>4. LentBytes = [c \in Blocks |-> LentBytes[c]] /\ LentBytes' = [c \in Blocks |-> LentBytes'[c]]
    BY LentBeforeAndAfter DEF LentView
  <2> HIDE DEF b
  <2> QED BY <2>3, <2>4
<1> QED BY <1>1, <1>4, <1>5 DEF Loan!Lend

LEMMA AddRefShares ==
    ASSUME PlaceInv, PlaceInv', NEW b \in Blocks, AddRef(b)
    PROVE  Loan!Share(b)
<1>1. /\ held[b] \in Nat /\ held[b] > 0
      /\ held' = [held EXCEPT ![b] = @ + 1] /\ bytes' = bytes
  BY DEF AddRef, PlaceInv, Types
<1>2. LentRefs[b] > 0 /\ LentRefs' = [LentRefs EXCEPT ![b] = @ + 1]
  BY <1>1, LentBeforeAndAfter DEF LentView
<1>3. LentBytes' = LentBytes
  <2>1. LentBytes' = [c \in Blocks |-> IF held'[c] > 0 THEN bytes'[c] ELSE NoSize]
    BY LentBeforeAndAfter DEF LentView
  <2>2. \A c \in Blocks : held'[c] > 0 <=> held[c] > 0
    BY <1>1 DEF PlaceInv, Types
  <2> QED BY <1>1, <2>1, <2>2, LentBeforeAndAfter DEF LentView
<1> QED BY <1>2, <1>3 DEF Loan!Share

LEMMA ReleaseGivesBack ==
    ASSUME PlaceInv, PlaceInv', NEW t \in Threads, NEW b \in Blocks, Release(t, b)
    PROVE  Loan!GiveBack(b)
<1>1. /\ held[b] \in Nat /\ held[b] > 0
      /\ held' = [held EXCEPT ![b] = @ - 1] /\ bytes' = bytes
  BY DEF Release, PlaceInv, Types
<1>2. LentRefs[b] > 0 /\ LentRefs' = [LentRefs EXCEPT ![b] = @ - 1]
  BY <1>1, LentBeforeAndAfter DEF LentView
<1>3. LentBytes' = [LentBytes EXCEPT ![b] = IF LentRefs[b] = 1 THEN NoSize ELSE @]
  <2>1. LentBytes' = [c \in Blocks |-> IF held'[c] > 0 THEN bytes'[c] ELSE NoSize]
    BY LentBeforeAndAfter DEF LentView
  <2>2. \A c \in Blocks : held'[c] > 0 <=> (held[c] > 0 /\ ~(c = b /\ held[b] = 1))
    BY <1>1 DEF PlaceInv, Types
  <2>3. LentRefs[b] = held[b]
    BY LentBeforeAndAfter DEF LentView
  <2> QED BY <1>1, <2>1, <2>2, <2>3, LentBeforeAndAfter DEF LentView
<1> QED BY <1>2, <1>3 DEF Loan!GiveBack

LEMMA LoanStep ==
    ASSUME PlaceInv, PlaceInv', [Next]_vars
    PROVE  [Loan!LoanNext]_(Loan!loanVars)
<1> USE DEF Loan!loanVars
<1>1. ASSUME NEW t \in Threads, Make(t) PROVE Loan!LoanNext \/ UNCHANGED Loan!loanVars
  <2>1. CASE HandOver(t)
    <3>1. block[t] \in Blocks
      BY <2>1 DEF PlaceInv, HandOver, InHand, InMemory
    <3> QED BY <2>1, <3>1, HandOverLends DEF Loan!LoanNext
  <2>2. CASE Reuse(t) \/ FindNone(t) \/ Drop(t) \/ Reserve(t) \/ MallocFails(t)
    <3>1. held' = held /\ bytes' = bytes
      BY <2>2 DEF Reuse, FindNone, Drop, Reserve, MallocFails, poolVars
    <3> QED BY <3>1, NothingLent
  <2>3. CASE Malloc(t)
    <3>1. PICK b \in Blocks : bytes[b] = NoSize /\ bytes' = [bytes EXCEPT ![b] = wanted[t]]
      BY <2>3 DEF Malloc
    <3>2. ~(held[b] > 0)
      BY <3>1 DEF PlaceInv, OwnedIsSafe, Owned, InMemory
    <3>3. held' = held
      BY <2>3 DEF Malloc
    <3>4. \A c \in Blocks : held[c] > 0 => bytes'[c] = bytes[c]
      BY <3>1, <3>2 DEF PlaceInv, Types
    <3> QED BY <3>3, <3>4, NothingLent
  <2> QED BY <1>1, <2>1, <2>2, <2>3 DEF Make
<1>2. ASSUME NEW t \in Threads, LastRelease(t) PROVE UNCHANGED Loan!loanVars
  <2>1. held' = held
    BY <1>2 DEF LastRelease, Recycle, Free, Uncount
  <2>2. \A c \in Blocks : held[c] > 0 => bytes'[c] = bytes[c]
    <3>1. CASE Free(t)
      <4>1. At(t, block[t]) /\ block[t] \in Blocks
        BY <3>1 DEF PlaceInv, Free, At, InHand, InMemory
      <4>2. ~(held[block[t]] > 0)
        BY <4>1 DEF PlaceInv, OwnedIsSafe, Owned
      <4> QED BY <3>1, <4>2 DEF Free, PlaceInv, Types
    <3>2. CASE Recycle(t) \/ Uncount(t)
      BY <3>2 DEF Recycle, Uncount
    <3> QED BY <1>2, <3>1, <3>2 DEF LastRelease
  <2> QED BY <2>1, <2>2, NothingLent
<1>3. CASE ReloadParse \/ ReloadClamp \/ UNCHANGED vars
  <2>1. held' = held /\ bytes' = bytes
    BY <1>3 DEF ReloadParse, ReloadClamp, vars, poolVars
  <2> QED BY <2>1, NothingLent
<1>4. ASSUME NEW t \in Threads, NEW b \in Blocks, Release(t, b) PROVE Loan!LoanNext
  BY <1>4, ReleaseGivesBack DEF Loan!LoanNext
<1>5. ASSUME NEW b \in Blocks, AddRef(b) PROVE Loan!LoanNext
  BY <1>5, AddRefShares DEF Loan!LoanNext
<1> QED BY <1>1, <1>2, <1>3, <1>4, <1>5 DEF Next

\* Reference counts, free list, heap and threads together implement the loan of
\* images (ImageLoan): an image is lent once, keeps its size while it is, and only
\* its references decide when it returns.
THEOREM PoolImplementsLoan == Spec => ImplementsLoan
<1>1. Init => Loan!LoanInit
  <2> SUFFICES ASSUME Init PROVE Loan!LoanInit
    OBVIOUS
  <2>1. held = [b \in Blocks |-> 0]
    BY DEF Init
  <2> QED BY <2>1, InitPlaces, LentIsOwned DEF LentView, Loan!LoanInit
<1>2. PlaceInv /\ PlaceInv' /\ [Next]_vars => [Loan!LoanNext]_(Loan!loanVars)
  BY LoanStep
<1> QED BY <1>1, <1>2, PlacesInvariant, PTL DEF Spec, ImplementsLoan, Loan!LoanSpec

-----------------------------------------------------------------------------
(* The count.                                                              *)

CountInv == PlaceInv /\ CountExact

LEMMA FiniteParts ==
    ASSUME PlaceInv
    PROVE  /\ IsFiniteSet(InMemory) /\ Cardinality(InMemory) \in Nat
           /\ IsFiniteSet(InPassing) /\ Cardinality(InPassing) \in Nat
<1>1. InMemory \in SUBSET Blocks /\ InPassing \in SUBSET Threads
  BY DEF InMemory, InPassing
<1>2. IsFiniteSet(InMemory) /\ IsFiniteSet(InPassing)
  BY <1>1, FS_Subset
<1> QED BY <1>2, FS_CardinalityType

\* The count stays exact whichever of its two parts a step moves.
LEMMA PassingGains ==
    ASSUME PlaceInv, NEW t \in Threads, t \notin InPassing
    PROVE  Cardinality(InPassing \union {t}) = Cardinality(InPassing) + 1
BY FiniteParts, FS_AddElement

LEMMA PassingLoses ==
    ASSUME PlaceInv, NEW t \in Threads, t \in InPassing
    PROVE  Cardinality(InPassing \ {t}) = Cardinality(InPassing) - 1
BY FiniteParts, FS_RemoveElement

LEMMA MakeCount ==
    ASSUME CountInv, NEW t \in Threads, Make(t)
    PROVE  CountExact'
<1> USE DEF CountInv
<1>a. PlaceInv /\ Types /\ InHand
  BY DEF PlaceInv
<1>b. /\ IsFiniteSet(InMemory) /\ Cardinality(InMemory) \in Nat
      /\ IsFiniteSet(InPassing) /\ Cardinality(InPassing) \in Nat
  BY FiniteParts
<1>1. CASE Reuse(t) \/ FindNone(t) \/ Drop(t) \/ HandOver(t)
  <2>1. InMemory' = InMemory /\ allocated' = allocated
    BY <1>1 DEF Reuse, FindNone, Drop, HandOver, InMemory, poolVars
  <2>2. InPassing' = InPassing
    BY <1>1, <1>a, ReturnEffect DEF Reuse, FindNone, Drop, HandOver, Goto,
       InPassing, Types
  <2> QED BY <2>1, <2>2 DEF CountExact
<1>2. CASE Reserve(t)
  <2>1. InMemory' = InMemory /\ allocated' = allocated + 1
    BY <1>2 DEF Reserve, InMemory
  <2>2. t \notin InPassing /\ InPassing' = InPassing \union {t}
    BY <1>2, <1>a DEF Reserve, Goto, InPassing, Types
  <2> QED BY <1>a, <1>b, <2>1, <2>2, PassingGains DEF CountExact
<1>3. CASE Malloc(t)
  <2>1. PICK b \in Blocks : bytes[b] = NoSize
                            /\ bytes' = [bytes EXCEPT ![b] = wanted[t]]
    BY <1>3 DEF Malloc
  <2>2. b \notin InMemory /\ InMemory' = InMemory \union {b}
    BY <1>3, <1>a, <2>1 DEF Malloc, InMemory, Types, InHand
  <2>3. Cardinality(InMemory') = Cardinality(InMemory) + 1
    BY <1>b, <2>2, FS_AddElement
  <2>4. t \in InPassing /\ InPassing' = InPassing \ {t}
    BY <1>3, <1>a DEF Malloc, Goto, InPassing, Types
  <2>5. allocated' = allocated
    BY <1>3 DEF Malloc
  <2> QED BY <1>a, <1>b, <2>3, <2>4, <2>5, PassingLoses DEF CountExact
<1>4. CASE MallocFails(t)
  <2>1. InMemory' = InMemory /\ allocated' = allocated - 1
    BY <1>4 DEF MallocFails, InMemory
  <2>2. t \in InPassing /\ InPassing' = InPassing \ {t}
    BY <1>4, <1>a, ReturnEffect DEF MallocFails, InPassing
  <2> QED BY <1>a, <1>b, <2>1, <2>2, PassingLoses DEF CountExact
<1> QED BY <1>1, <1>2, <1>3, <1>4 DEF Make

LEMMA LastReleaseCount ==
    ASSUME CountInv, NEW t \in Threads, LastRelease(t)
    PROVE  CountExact'
<1> USE DEF CountInv
<1>a. PlaceInv /\ Types /\ InHand
  BY DEF PlaceInv
<1>b. /\ IsFiniteSet(InMemory) /\ Cardinality(InMemory) \in Nat
      /\ IsFiniteSet(InPassing) /\ Cardinality(InPassing) \in Nat
  BY FiniteParts
<1>1. CASE Recycle(t)
  <2>1. InMemory' = InMemory /\ allocated' = allocated
    BY <1>1 DEF Recycle, InMemory
  <2>2. InPassing' = InPassing
    BY <1>1, <1>a, ReturnEffect DEF Recycle, Goto, InPassing, Types
  <2> QED BY <2>1, <2>2 DEF CountExact
<1>2. CASE Free(t)
  <2>1. block[t] \in InMemory
    BY <1>2, <1>a DEF Free, InHand
  <2>2. InMemory' = InMemory \ {block[t]}
    BY <1>2, <1>a, <2>1 DEF Free, InMemory, Types
  <2>3. Cardinality(InMemory') = Cardinality(InMemory) - 1
    BY <1>b, <2>1, <2>2, FS_RemoveElement
  <2>4. t \notin InPassing /\ InPassing' = InPassing \union {t}
    BY <1>2, <1>a DEF Free, Goto, InPassing, Types
  <2>5. allocated' = allocated
    BY <1>2 DEF Free
  <2> QED BY <1>a, <1>b, <2>3, <2>4, <2>5, PassingGains DEF CountExact
<1>3. CASE Uncount(t)
  <2>1. InMemory' = InMemory /\ allocated' = allocated - 1
    BY <1>3 DEF Uncount, InMemory
  <2>2. t \in InPassing /\ InPassing' = InPassing \ {t}
    BY <1>3, <1>a, ReturnEffect DEF Uncount, InPassing
  <2> QED BY <1>a, <1>b, <2>1, <2>2, PassingLoses DEF CountExact
<1> QED BY <1>1, <1>2, <1>3 DEF LastRelease

\* Steps that neither allocate nor free.
LEMMA OtherCount ==
    ASSUME CountInv,
           \/ \E t \in Threads, b \in Blocks : Release(t, b)
           \/ \E b \in Blocks : AddRef(b)
           \/ ReloadParse \/ ReloadClamp \/ UNCHANGED vars
    PROVE  CountExact' /\ allocated' = allocated
<1>a. Types
  BY DEF CountInv, PlaceInv
<1>1. InMemory' = InMemory /\ allocated' = allocated
  BY DEF Release, AddRef, ReloadParse, ReloadClamp, vars, InMemory, poolVars
<1>2. InPassing' = InPassing
  BY <1>a DEF Release, AddRef, ReloadParse, ReloadClamp, vars, InPassing, Goto,
     Types, poolVars
<1> QED BY <1>1, <1>2 DEF CountInv, CountExact

LEMMA CountInvariant == Spec => []CountInv
<1>1. Init => CountInv
  <2> SUFFICES ASSUME Init PROVE CountExact
    BY InitPlaces DEF CountInv
  <2>1. InMemory = {} /\ InPassing = {} /\ allocated = 0
    BY DEF Init, InMemory, InPassing
  <2> QED BY <2>1, FS_EmptySet DEF CountExact
<1>2. CountInv /\ [Next]_vars => CountInv'
  <2> SUFFICES ASSUME CountInv, [Next]_vars PROVE CountInv'
    OBVIOUS
  <2>1. PlaceInv'
    BY MakePlaces, LastReleasePlaces, ReleasePlaces, AddRefPlaces, ReloadPlaces,
       StutterPlaces DEF Next, CountInv
  <2>2. CountExact'
    BY MakeCount, LastReleaseCount, OtherCount DEF Next
  <2> QED BY <2>1, <2>2 DEF CountInv
<1> QED BY <1>1, <1>2, PTL DEF Spec

\* g_imgAllocated never goes below zero, and everything has its type.
THEOREM TypeCorrect == Spec => []TypeOK
<1>1. CountInv => TypeOK
  <2> SUFFICES ASSUME CountInv PROVE TypeOK
    OBVIOUS
  <2>1. PlaceInv /\ CountExact
    BY DEF CountInv
  <2>2. allocated \in Nat
    BY <2>1, FiniteParts DEF CountExact
  <2> QED BY <2>1, <2>2 DEF PlaceInv, Types, TypeOK
<1> QED BY <1>1, CountInvariant, PTL

-----------------------------------------------------------------------------
(* The bound, for configuration files that stay below the upper clamp: a   *)
(* reload stores a value before it clamps it.                              *)

Bounded == allocated <= PoolMax /\ poolMax <= PoolMax

\* The pool never holds more blocks than the clamp allows, however many threads
\* reserve, fail and free at once.
THEOREM PoolIsBounded ==
    ASSUME \A c \in FileCaps : c <= PoolMax
    PROVE  Spec => []PoolWithinClamp
<1>1. Init => Bounded
  BY ClampedRange DEF Init, Bounded
<1>2. CountInv /\ Bounded /\ [Next]_vars => Bounded'
  <2> SUFFICES ASSUME CountInv, Bounded, [Next]_vars PROVE Bounded'
    OBVIOUS
  <2>a. /\ Types /\ CountExact
        /\ Cardinality(InMemory) \in Nat /\ Cardinality(InPassing) \in Nat
    BY FiniteParts DEF CountInv, PlaceInv
  <2>b. allocated \in Nat /\ poolMax \in Nat
    BY <2>a DEF CountExact, Types
  <2>1. ASSUME NEW t \in Threads, Make(t) PROVE Bounded'
    <3>1. poolMax' = poolMax
      BY <2>1 DEF Make, Reuse, FindNone, Drop, Reserve, Malloc, MallocFails,
         HandOver, cfgVars
    <3>2. \/ allocated' = allocated
          \/ allocated' = allocated - 1
          \/ allocated' = allocated + 1 /\ ~(allocated >= poolMax)
      BY <2>1 DEF Make, Reuse, FindNone, Drop, Reserve, Malloc, MallocFails,
         HandOver, poolVars, AtCap
    <3> QED BY <2>b, <3>1, <3>2 DEF Bounded
  <2>2. ASSUME NEW t \in Threads, LastRelease(t) PROVE Bounded'
    <3>1. poolMax' = poolMax
      BY <2>2 DEF LastRelease, Recycle, Free, Uncount, cfgVars
    <3>2. allocated' = allocated \/ allocated' = allocated - 1
      BY <2>2 DEF LastRelease, Recycle, Free, Uncount
    <3> QED BY <2>b, <3>1, <3>2 DEF Bounded
  <2>3. CASE \/ \E t \in Threads, b \in Blocks : Release(t, b)
             \/ \E b \in Blocks : AddRef(b)
             \/ ReloadParse \/ ReloadClamp \/ UNCHANGED vars
    <3>1. allocated' = allocated
      BY <2>3, OtherCount
    <3>2. poolMax' <= PoolMax
      BY <2>3, <2>b, ClampedRange DEF Release, AddRef, ReloadParse, ReloadClamp,
         vars, cfgVars, Bounded
    <3> QED BY <3>1, <3>2 DEF Bounded
  <2> QED BY <2>1, <2>2, <2>3 DEF Next
<1>3. CountInv /\ Bounded => PoolWithinClamp
  BY FiniteParts DEF CountInv, CountExact, Bounded, PoolWithinClamp
<1> QED BY <1>1, <1>2, <1>3, CountInvariant, PTL DEF Spec

\* "callback consumer backlogged: drop this frame" is right for a game that keeps
\* one frame size and asks for at least one image: then a refused image means that
\* counted blocks are in use, or that one that fits came back just now. That two
\* sizes break it is what MCImagePoolResize.cfg shows.
THEOREM RefusalMeansBacklog ==
    ASSUME \A s1, s2 \in Sizes : s1 = s2, 0 \notin FileCaps
    PROVE  Spec => DropMeansBacklog
<1> DEFINE Positive == poolMax > 0
<1>1. Init => Positive
  BY ClampedRange DEF Init
<1>2. PlaceInv /\ Positive /\ [Next]_vars => Positive'
  <2> SUFFICES ASSUME PlaceInv, Positive, [Next]_vars PROVE Positive'
    OBVIOUS
  <2>1. CASE ReloadParse
    <3>1. poolMax' \in FileCaps
      BY <2>1 DEF ReloadParse
    <3>2. poolMax' \in Nat /\ poolMax' # 0
      BY <3>1
    <3> QED BY <3>2
  <2>a. CASE ReloadClamp
    <3>1. poolMax \in Nat /\ poolMax' = Clamped(poolMax)
      BY <2>a DEF ReloadClamp, PlaceInv, Types
    <3>2. poolMax' \in Nat /\ poolMax' >= PoolMin
      BY <3>1, ClampedRange
    <3> QED BY <3>2
  <2>2. CASE UNCHANGED poolMax
    BY <2>2
  <2>3. (\E t \in Threads : Make(t) \/ LastRelease(t)) => UNCHANGED poolMax
    BY DEF Make, Reuse, FindNone, Drop, Reserve, Malloc, MallocFails, HandOver,
       LastRelease, Recycle, Free, Uncount, cfgVars
  <2>4. /\ (\E t \in Threads, b \in Blocks : Release(t, b)) => UNCHANGED poolMax
        /\ (\E b \in Blocks : AddRef(b)) => UNCHANGED poolMax
        /\ UNCHANGED vars => UNCHANGED poolMax
    BY DEF Release, AddRef, vars, cfgVars
  <2> QED BY <2>1, <2>a, <2>2, <2>3, <2>4 DEF Next
<1>3. ASSUME CountInv, Positive, [Next]_vars, NEW t \in Threads,
             pc[t] = "reserve", pc'[t] = "idle"
      PROVE  Cardinality(free) < allocated \/ \E b \in free : bytes[b] = wanted[t]
  <2>a. PlaceInv /\ allocated \in Nat /\ poolMax \in Nat
    BY <1>3, FiniteParts DEF CountInv, CountExact, PlaceInv, Types
  <2>1. Drop(t)
    <3>1. ASSUME NEW u \in Threads, Make(u) PROVE Drop(t)
      <4>1. CASE u = t
        BY <1>3, <2>a, <3>1, <4>1 DEF Make, Reuse, FindNone, Reserve, Malloc, MallocFails,
           HandOver, Goto, PlaceInv, Types
      <4>2. CASE u # t
        <5>1. pc'[t] = pc[t]
          BY <1>3, <2>a, <3>1, <4>2, ReturnEffect DEF Make, Reuse, FindNone, Drop, Reserve,
             Malloc, MallocFails, HandOver, Goto, PlaceInv, Types
        <5> QED BY <1>3, <2>a, <5>1
      <4> QED BY <4>1, <4>2
    <3>2. ASSUME NEW u \in Threads, LastRelease(u) PROVE FALSE
      BY <1>3, <2>a, <3>2, ReturnEffect DEF LastRelease, Recycle, Free, Uncount, Goto,
         Return, PlaceInv, Types
    <3>3. ASSUME NEW u \in Threads, NEW b \in Blocks, Release(u, b) PROVE FALSE
      BY <1>3, <2>a, <3>3 DEF Release, Goto, PlaceInv, Types
    <3>4. CASE (\E b \in Blocks : AddRef(b)) \/ ReloadParse \/ ReloadClamp \/ UNCHANGED vars
      BY <1>3, <2>a, <3>4 DEF AddRef, ReloadParse, ReloadClamp, vars
    <3> QED BY <1>3, <2>a, <3>1, <3>2, <3>3, <3>4 DEF Next
  <2>2. allocated >= poolMax
    BY <2>1 DEF Drop, AtCap
  <2>3. CASE free = {}
    <3>1. Cardinality(free) = 0
      BY <2>3, FS_EmptySet
    <3> QED BY <1>3, <2>a, <2>2, <3>1
  <2>4. CASE free # {}
    <3>1. PICK b \in free : bytes[b] \in Sizes
      BY <1>3, <2>a, <2>4 DEF PlaceInv, EveryBlockHasAPlace, InMemory, Types
    <3>2. wanted[t] \in Sizes
      BY <1>3, <2>a DEF PlaceInv, InHand
    <3> QED BY <3>1, <3>2
  <2> QED BY <2>3, <2>4
<1>4. CountInv /\ Positive /\ [Next]_vars =>
          [\A t \in Threads : pc[t] = "reserve" /\ pc'[t] = "idle" =>
              \/ Cardinality(free) < allocated
              \/ \E b \in free : bytes[b] = wanted[t]]_vars
  BY <1>3
<1> QED BY <1>1, <1>2, <1>4, PlacesInvariant, CountInvariant, PTL DEF Spec, DropMeansBacklog
=============================================================================
