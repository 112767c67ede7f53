----------------------------- MODULE ImagePool -----------------------------
(***************************************************************************)
(* The reference-counted image blocks of vp4uwrap.cpp: make_image_desc on  *)
(* the analysis and preview threads, AddRefImageDesc and ReleaseImageDesc  *)
(* on any thread of the game, ReloadConfig on another.                     *)
(*                                                                         *)
(* A block that is released for the last time goes to a free list of at    *)
(* most kImgPoolKeep blocks, or back to the heap.  g_imgAllocated counts   *)
(* every block from before its malloc until after its free, the free list  *)
(* included, and image_pool_max bounds that count.  Only the free list is  *)
(* under a mutex; counts and reference counts are atomics, and             *)
(* image_pool_max is a plain int that a reload rewrites under the threads. *)
(***************************************************************************)
EXTENDS Naturals, FiniteSets

CONSTANTS
    Blocks,         \* addresses malloc may return
    Threads,        \* the threads of the process that touch images
    Producers,      \* those that make images: analysis and preview
    Sizes,          \* frame sizes in bytes a configuration can ask for
    NoSize,         \* the size of a block that is not in memory
    NoBlock,        \* a null pointer
    Keep,           \* kImgPoolKeep
    PoolMin,        \* the clamps of image_pool_max (4 and 24 in the code)
    PoolMax,
    FileCaps,       \* values of ImagePoolMax found in configuration files
    MaxRef          \* bound on references to one block

ASSUME PoolAssumption ==
    /\ IsFiniteSet(Blocks)
    /\ Producers \subseteq Threads
    /\ IsFiniteSet(Threads)
    /\ NoSize \notin Sizes
    /\ NoBlock \notin Blocks
    /\ Keep \in Nat
    /\ PoolMin \in Nat \ {0}
    /\ PoolMax \in Nat
    /\ PoolMin <= PoolMax
    /\ FileCaps \subseteq Nat
    /\ MaxRef \in Nat \ {0}

VARIABLES
    bytes,      \* [Blocks -> Sizes \union {NoSize}]: desc.BytesPerFrame
    ref,        \* [Blocks -> Nat]: ImgBlock::ref
    free,       \* g_imgPool
    allocated,  \* g_imgAllocated
    poolMax,    \* g_cfg.image_pool_max
    size,       \* the frame size g_cfg asks for
    reloading,  \* config_load_file is between the JSON and the clamp
    pc,         \* [Threads -> step]
    block,      \* [Threads -> Blocks \union {NoBlock}]: what it works on
    wanted,     \* [Threads -> Sizes \union {NoSize}]: the image it is making
    held        \* [Blocks -> Nat]: references the game owns

poolVars == <<bytes, ref, free, allocated>>
cfgVars  == <<poolMax, size, reloading>>
vars == <<poolVars, cfgVars, pc, block, wanted, held>>

Steps == {"idle", "reserve", "malloc", "fill", "recycle", "free", "uncount"}

Goto(t, step) == pc' = [pc EXCEPT ![t] = step]

\* The call returns; its locals are gone.
Return(t) ==
    /\ pc' = [pc EXCEPT ![t] = "idle"]
    /\ block' = [block EXCEPT ![t] = NoBlock]
    /\ wanted' = [wanted EXCEPT ![t] = NoSize]

\* std::clamp(c, PoolMin, PoolMax)
Clamped(c) ==
    IF c < PoolMin THEN PoolMin ELSE IF c > PoolMax THEN PoolMax ELSE c

Init ==
    /\ bytes = [b \in Blocks |-> NoSize]
    /\ ref = [b \in Blocks |-> 0]
    /\ free = {}
    /\ allocated = 0
    /\ poolMax \in {Clamped(c) : c \in FileCaps}
    /\ size \in Sizes
    /\ reloading = FALSE
    /\ pc = [t \in Threads |-> "idle"]
    /\ block = [t \in Threads |-> NoBlock]
    /\ wanted = [t \in Threads |-> NoSize]
    /\ held = [b \in Blocks |-> 0]

-----------------------------------------------------------------------------
(* make_image_desc.                                                        *)

\* A free block of exactly the wanted size is reused.
Reuse(t) ==
    /\ t \in Producers
    /\ pc[t] = "idle"
    /\ \E b \in free :
         /\ bytes[b] = size
         /\ free' = free \ {b}
         /\ block' = [block EXCEPT ![t] = b]
    /\ Goto(t, "fill")
    /\ UNCHANGED <<bytes, ref, allocated, cfgVars, wanted, held>>

FindNone(t) ==
    /\ t \in Producers
    /\ pc[t] = "idle"
    /\ \A b \in free : bytes[b] # size
    /\ wanted' = [wanted EXCEPT ![t] = size]
    /\ Goto(t, "reserve")
    /\ UNCHANGED <<poolVars, cfgVars, block, held>>

\* Variant: the bound missed by one.
AtCapTooLate == allocated > poolMax

AtCap == allocated >= poolMax

\* nullptr: the callback gets no image.
Drop(t) ==
    /\ pc[t] = "reserve"
    /\ AtCap
    /\ Return(t)
    /\ UNCHANGED <<poolVars, cfgVars, held>>

\* The compare-exchange that succeeds.
Reserve(t) ==
    /\ pc[t] = "reserve"
    /\ ~AtCap
    /\ allocated' = allocated + 1
    /\ Goto(t, "malloc")
    /\ UNCHANGED <<bytes, ref, free, cfgVars, block, wanted, held>>

Malloc(t) ==
    /\ pc[t] = "malloc"
    /\ \E b \in Blocks :
         /\ bytes[b] = NoSize
         /\ bytes' = [bytes EXCEPT ![b] = wanted[t]]
         /\ block' = [block EXCEPT ![t] = b]
    /\ Goto(t, "fill")
    /\ UNCHANGED <<ref, free, allocated, cfgVars, wanted, held>>

MallocFails(t) ==
    /\ pc[t] = "malloc"
    /\ allocated' = allocated - 1
    /\ Return(t)
    /\ UNCHANGED <<bytes, ref, free, cfgVars, held>>

\* The block is filled and handed to the callback with one reference.
HandOver(t) ==
    /\ pc[t] = "fill"
    /\ ref' = [ref EXCEPT ![block[t]] = 1]
    /\ held' = [held EXCEPT ![block[t]] = 1]
    /\ Return(t)
    /\ UNCHANGED <<bytes, free, allocated, cfgVars>>

-----------------------------------------------------------------------------
(* AddRefImageDesc and ReleaseImageDesc, called for an image the game has a *)
(* reference to.                                                           *)

AddRef(b) ==
    /\ held[b] \in 1 .. MaxRef - 1
    /\ ref' = [ref EXCEPT ![b] = @ + 1]
    /\ held' = [held EXCEPT ![b] = @ + 1]
    /\ UNCHANGED <<bytes, free, allocated, cfgVars, pc, block, wanted>>

\* Variant: the last-but-one reference already recycles the block.
ReleaseTooEarly(t, b) ==
    /\ pc[t] = "idle"
    /\ held[b] > 0
    /\ held' = [held EXCEPT ![b] = @ - 1]
    /\ ref' = [ref EXCEPT ![b] = @ - 1]
    /\ Goto(t, "recycle")
    /\ block' = [block EXCEPT ![t] = b]
    /\ UNCHANGED <<bytes, free, allocated, cfgVars, wanted>>

Release(t, b) ==
    /\ pc[t] = "idle"
    /\ held[b] > 0
    /\ held' = [held EXCEPT ![b] = @ - 1]
    /\ ref' = [ref EXCEPT ![b] = @ - 1]
    /\ IF ref[b] = 1
       THEN Goto(t, "recycle") /\ block' = [block EXCEPT ![t] = b]
       ELSE UNCHANGED <<pc, block>>
    /\ UNCHANGED <<bytes, free, allocated, cfgVars, wanted>>

\* Variant: a block that finds the free list full is forgotten.
RecycleLeaks(t) ==
    /\ pc[t] = "recycle"
    /\ free' = IF Cardinality(free) < Keep THEN free \union {block[t]} ELSE free
    /\ Return(t)
    /\ UNCHANGED <<bytes, ref, allocated, cfgVars, held>>

Recycle(t) ==
    /\ pc[t] = "recycle"
    /\ \/ /\ Cardinality(free) < Keep
          /\ free' = free \union {block[t]}
          /\ Return(t)
       \/ /\ Cardinality(free) >= Keep
          /\ Goto(t, "free")
          /\ UNCHANGED <<free, block, wanted>>
    /\ UNCHANGED <<bytes, ref, allocated, cfgVars, held>>

Free(t) ==
    /\ pc[t] = "free"
    /\ bytes' = [bytes EXCEPT ![block[t]] = NoSize]
    /\ Goto(t, "uncount")
    /\ block' = [block EXCEPT ![t] = NoBlock]
    /\ UNCHANGED <<ref, free, allocated, cfgVars, wanted, held>>

Uncount(t) ==
    /\ pc[t] = "uncount"
    /\ allocated' = allocated - 1
    /\ Return(t)
    /\ UNCHANGED <<bytes, ref, free, cfgVars, held>>

-----------------------------------------------------------------------------
(* config_load_file stores what the file says and clamps it further down.  *)

ReloadParse ==
    /\ ~reloading
    /\ reloading' = TRUE
    /\ poolMax' \in FileCaps
    /\ size' \in Sizes
    /\ UNCHANGED <<poolVars, pc, block, wanted, held>>

ReloadClamp ==
    /\ reloading
    /\ reloading' = FALSE
    /\ poolMax' = Clamped(poolMax)
    /\ UNCHANGED <<poolVars, size, pc, block, wanted, held>>

-----------------------------------------------------------------------------
Make(t) ==
    \/ Reuse(t) \/ FindNone(t) \/ Drop(t) \/ Reserve(t)
    \/ Malloc(t) \/ MallocFails(t) \/ HandOver(t)

LastRelease(t) == Recycle(t) \/ Free(t) \/ Uncount(t)

Next ==
    \/ \E t \in Threads : Make(t) \/ LastRelease(t)
    \/ \E t \in Threads, b \in Blocks : Release(t, b)
    \/ \E b \in Blocks : AddRef(b)
    \/ ReloadParse \/ ReloadClamp

Spec == Init /\ [][Next]_vars

-----------------------------------------------------------------------------
TypeOK ==
    /\ bytes \in [Blocks -> Sizes \union {NoSize}]
    /\ ref \in [Blocks -> Nat]
    /\ free \in SUBSET Blocks
    /\ allocated \in Nat
    /\ poolMax \in Nat
    /\ size \in Sizes
    /\ reloading \in BOOLEAN
    /\ pc \in [Threads -> Steps]
    /\ block \in [Threads -> Blocks \union {NoBlock}]
    /\ wanted \in [Threads -> Sizes \union {NoSize}]
    /\ held \in [Blocks -> Nat]

-----------------------------------------------------------------------------
(* Where a block in memory can be.                                         *)

InMemory == {b \in Blocks : bytes[b] # NoSize}
At(t, b) == pc[t] \in {"fill", "recycle", "free"} /\ block[t] = b
Owned(b) == held[b] > 0

\* A block the game has a reference to is never freed, offered for reuse or
\* refilled under it, and its count is the number of those references.
OwnedIsSafe ==
    \A b \in Blocks : Owned(b) =>
        /\ b \in InMemory \ free
        /\ ref[b] = held[b]
        /\ \A t \in Threads : ~At(t, b)

\* No block is lost: one in memory is with the game, in the free list, or in
\* the hands of exactly one thread; a free block is in memory.
EveryBlockHasAPlace ==
    /\ free \subseteq InMemory
    /\ \A b \in InMemory : Owned(b) \/ b \in free \/ \E t \in Threads : At(t, b)
    /\ \A b \in Blocks, t, u \in Threads : At(t, b) /\ At(u, b) => t = u
    /\ \A b \in free, t \in Threads : ~At(t, b)

\* Whatever the interleaving of reservations, failed mallocs and frees, memory
\* holds no more blocks than were counted, and the count stays within the clamp.
PoolWithinClamp ==
    /\ Cardinality(InMemory) <= allocated
    /\ allocated <= PoolMax

\* Who has a block can be read off the pool itself: what is in memory, and neither
\* in the free list nor in a thread's hands, is lent, and by its count.
Lent(b) == b \in InMemory \ free /\ \A t \in Threads : ~At(t, b)

LentRefs  == [b \in Blocks |-> IF Lent(b) THEN ref[b] ELSE 0]
LentBytes == [b \in Blocks |-> IF Lent(b) THEN bytes[b] ELSE NoSize]

Loan == INSTANCE ImageLoan WITH Images <- Blocks, lent <- LentRefs, extent <- LentBytes

\* Counts, free list, heap and threads together do nothing but lend images: a
\* block goes to the game with one reference, changes neither hands nor size
\* while references are added and released, and is nobody's but the pool's after
\* the last release.
ImplementsLoan == Loan!LoanSpec

\* "callback consumer backlogged: drop this frame": when an image is refused,
\* some counted block is not idle in the free list, or one of the right size
\* has just been put there.
DropMeansBacklog ==
    [][\A t \in Threads : pc[t] = "reserve" /\ pc'[t] = "idle" =>
         \/ Cardinality(free) < allocated
         \/ \E b \in free : bytes[b] = wanted[t]]_vars
-----------------------------------------------------------------------------
(* The inductive invariant.                                                *)

\* Threads between the count and the block, on the way in or out.
InPassing == {t \in Threads : pc[t] \in {"malloc", "uncount"}}

CountExact == allocated = Cardinality(InMemory) + Cardinality(InPassing)

\* A thread works on a block in memory, and knows the size it still needs.
InHand ==
    \A t \in Threads :
        /\ pc[t] \in {"fill", "recycle", "free"} => block[t] \in InMemory
        /\ pc[t] \in {"reserve", "malloc"} => wanted[t] \in Sizes

PoolInv == TypeOK /\ InHand /\ OwnedIsSafe /\ EveryBlockHasAPlace /\ CountExact
=============================================================================
