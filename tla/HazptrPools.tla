---------------------------- MODULE HazptrPools ----------------------------
(***************************************************************************)
(* The hazard pointer storage of a hazptr_domain: the list of hazptr_pool  *)
(* instances, the bitmap by which each hands out its blocks of hazard      *)
(* pointers, and hp_count.  A context is a hazard_pointer_context: its     *)
(* constructor reserves a block, its destructor releases it.  Contexts of  *)
(* different threads run concurrently; every step makes at most one access *)
(* to shared memory.                                                       *)
(***************************************************************************)
EXTENDS Integers, FiniteSets, Lists

CONSTANTS
  Contexts,            \* the hazard_pointer_context objects
  HAZPTR_POOL_BLOCKS,  \* blocks in a pool (32, one per bit of the bitmap)
  Lengths,             \* the block lengths (parameter S) that contexts use
  Pools,               \* bound: the pools that can be allocated
  NULL

ASSUME BlocksAssumption == HAZPTR_POOL_BLOCKS \in Nat \ {0}
ASSUME LengthsAssumption == Lengths \subseteq Nat \ {0}
ASSUME NullAssumption == NULL \notin Pools

Block == 0 .. HAZPTR_POOL_BLOCKS - 1
HAZPTR_POOL_BITMAP_FULL == Block

VARIABLES
  pools_head,  \* the head of the list of pools
  next,        \* the field next of every pool
  blk_size,    \* its block length, 0 for a pool that is not allocated
  bitmap,      \* the blocks that are marked as reserved
  hp_count,    \* the hazard pointers of the domain, as it counts them
  ctx          \* the contexts, with the locals of the call in progress

vars == <<pools_head, next, blk_size, bitmap, hp_count, ctx>>

NoContext ==
  [pc |-> "none", len |-> 0, pool |-> NULL, block |-> 0, p |-> NULL,
   expected |-> {}, count |-> 0, second |-> FALSE]

Context ==
  [pc : {"none", "load_head", "load_bitmap", "reserve_cas", "new_load",
         "new_cas", "count_read", "count_write", "held", "release_head",
         "release_pool", "release_assert", "release_load", "release_cas"},
   len : Lengths \cup {0}, pool : Pools \cup {NULL}, block : Block,
   p : Pools \cup {NULL}, expected : SUBSET Block, count : Nat,
   second : BOOLEAN]

TypeOK ==
  /\ pools_head \in Pools \cup {NULL}
  /\ next \in [Pools -> Pools \cup {NULL}]
  /\ blk_size \in [Pools -> Lengths \cup {0}]
  /\ bitmap \in [Pools -> SUBSET Block]
  /\ hp_count \in Nat
  /\ ctx \in [Contexts -> Context]

Init ==
  /\ pools_head = NULL
  /\ next = [p \in Pools |-> NULL]
  /\ blk_size = [p \in Pools |-> 0]
  /\ bitmap = [p \in Pools |-> {}]
  /\ hp_count = 0
  /\ ctx = [c \in Contexts |-> NoContext]

At(c, pc) == ctx[c].pc = pc

-----------------------------------------------------------------------------
(***************************************************************************)
(* hazptr_domain::reserve(len), called by the constructor of a context.    *)
(***************************************************************************)
Construct(c, len) ==
  /\ At(c, "none")
  /\ ctx' = [ctx EXCEPT ![c].pc = "load_head", ![c].len = len]
  /\ UNCHANGED <<pools_head, next, blk_size, bitmap, hp_count>>

(* pools_reserve is called with the head of the list; it returns nullptr   *)
(* only when the list is empty.                                            *)
LoadHead(c) ==
  /\ At(c, "load_head") /\ pools_head # NULL
  /\ ctx' = [ctx EXCEPT ![c].pc = "load_bitmap", ![c].pool = pools_head]
  /\ UNCHANGED <<pools_head, next, blk_size, bitmap, hp_count>>

(* The head of the list is then NULL: allocate a pool. *)
NewPool(c) ==
  /\ At(c, "load_head") /\ pools_head = NULL /\ ~ctx[c].second
  /\ \E q \in Pools :
       /\ blk_size[q] = 0
       /\ blk_size' = [blk_size EXCEPT ![q] = ctx[c].len]
       /\ ctx' = [ctx EXCEPT ![c].pc = "new_load", ![c].pool = q]
  /\ UNCHANGED <<pools_head, next, bitmap, hp_count>>

NewLoad(c) ==
  /\ At(c, "new_load")
  /\ next' = [next EXCEPT ![ctx[c].pool] = pools_head]
  /\ ctx' = [ctx EXCEPT ![c].pc = "new_cas"]
  /\ UNCHANGED <<pools_head, blk_size, bitmap, hp_count>>

(* A store in place of the compare and exchange of the head. *)
HeadMatchesAlways(c) == TRUE

HeadMatches(c) == pools_head = next[ctx[c].pool]

(* Push the pool; a failed CAS loads the head into pool->next. *)
NewCas(c) ==
  /\ At(c, "new_cas")
  /\ \/ /\ HeadMatches(c)
        /\ pools_head' = ctx[c].pool
        /\ ctx' = [ctx EXCEPT ![c].pc = "count_read"]
        /\ UNCHANGED next
     \/ /\ ~HeadMatches(c)
        /\ next' = [next EXCEPT ![ctx[c].pool] = pools_head]
        /\ ctx' = [ctx EXCEPT ![c].pc = "new_load"]
        /\ UNCHANGED pools_head
  /\ UNCHANGED <<blk_size, bitmap, hp_count>>

(* hazptr_pool::count(). *)
PoolCount(p) == blk_size[p] * HAZPTR_POOL_BLOCKS

(* hp_count += pool->count() is not atomic: a read and a write. *)
CountRead(c) ==
  /\ At(c, "count_read")
  /\ ctx' = [ctx EXCEPT ![c].pc = "count_write",
                        ![c].count = hp_count + PoolCount(ctx[c].pool)]
  /\ UNCHANGED <<pools_head, next, blk_size, bitmap, hp_count>>

CountWrite(c) ==
  /\ At(c, "count_write")
  /\ hp_count' = ctx[c].count
  /\ ctx' = [ctx EXCEPT ![c].pc = "load_head", ![c].second = TRUE]
  /\ UNCHANGED <<pools_head, next, blk_size, bitmap>>

(***************************************************************************)
(* reserve_impl, in the loop of pools_reserve.  That loop never advances   *)
(* to the next pool: a pool that is full or of another block length is     *)
(* tried again and again.                                                  *)
(***************************************************************************)
LoadBitmap(c) ==
  LET p == ctx[c].pool IN
  /\ At(c, "load_bitmap")
  /\ ctx[c].len = blk_size[p]
  /\ bitmap[p] # HAZPTR_POOL_BITMAP_FULL
  /\ ctx' = [ctx EXCEPT ![c].pc = "reserve_cas", ![c].expected = bitmap[p]]
  /\ UNCHANGED <<pools_head, next, blk_size, bitmap, hp_count>>

ReserveSpin(c) ==
  LET p == ctx[c].pool IN
  /\ At(c, "load_bitmap")
  /\ ctx[c].len # blk_size[p] \/ bitmap[p] = HAZPTR_POOL_BITMAP_FULL
  /\ UNCHANGED vars

(* An index that counts from 1. *)
FreeBlockFromOne(reserved) == Cardinality(reserved) + 1

(* The index of the first bit that is 0. *)
FreeBlock(reserved) ==
  CHOOSE ix \in Block \ reserved : \A j \in Block \ reserved : ix <= j

(* The outcome of the compare and exchange ignored. *)
BitmapMatchesAlways(c) == TRUE

BitmapMatches(c) == bitmap[ctx[c].pool] = ctx[c].expected

ReserveCas(c) ==
  LET p == ctx[c].pool
      ix == FreeBlock(ctx[c].expected)
  IN
  /\ At(c, "reserve_cas")
  /\ \/ /\ BitmapMatches(c)
        /\ bitmap' = [bitmap EXCEPT ![p] = ctx[c].expected \cup {ix}]
        /\ ctx' = [ctx EXCEPT ![c] = [NoContext EXCEPT
                     !.pc = "held", !.len = ctx[c].len, !.pool = p, !.block = ix]]
     \/ /\ ~BitmapMatches(c) /\ bitmap[p] # HAZPTR_POOL_BITMAP_FULL
        /\ ctx' = [ctx EXCEPT ![c].expected = bitmap[p]]
        /\ UNCHANGED bitmap
     \/ /\ ~BitmapMatches(c) /\ bitmap[p] = HAZPTR_POOL_BITMAP_FULL
        /\ ctx' = [ctx EXCEPT ![c].pc = "load_bitmap"]
        /\ UNCHANGED bitmap
  /\ UNCHANGED <<pools_head, next, blk_size, hp_count>>

-----------------------------------------------------------------------------
(***************************************************************************)
(* hazptr_domain::release, called by the destructor of a context.          *)
(***************************************************************************)
Destroy(c) ==
  /\ At(c, "held")
  /\ ctx' = [ctx EXCEPT ![c].pc = "release_head"]
  /\ UNCHANGED <<pools_head, next, blk_size, bitmap, hp_count>>

ReleaseHead(c) ==
  /\ At(c, "release_head")
  /\ ctx' = [ctx EXCEPT ![c].pc = "release_pool", ![c].p = pools_head]
  /\ UNCHANGED <<pools_head, next, blk_size, bitmap, hp_count>>

(* pools_release walks the list to the pool whose storage holds the block. *)
ReleasePool(c) ==
  /\ At(c, "release_pool") /\ ctx[c].p # NULL
  /\ ctx' = IF ctx[c].p = ctx[c].pool
            THEN [ctx EXCEPT ![c].pc = "release_assert"]
            ELSE [ctx EXCEPT ![c].p = next[@]]
  /\ UNCHANGED <<pools_head, next, blk_size, bitmap, hp_count>>

(* assert(mask == (bitmap & mask)) in release_impl. *)
ReleaseAssert(c) ==
  /\ At(c, "release_assert") /\ ctx[c].block \in bitmap[ctx[c].pool]
  /\ ctx' = [ctx EXCEPT ![c].pc = "release_load"]
  /\ UNCHANGED <<pools_head, next, blk_size, bitmap, hp_count>>

ReleaseLoad(c) ==
  /\ At(c, "release_load")
  /\ ctx' = [ctx EXCEPT ![c].pc = "release_cas",
                        ![c].expected = bitmap[ctx[c].pool]]
  /\ UNCHANGED <<pools_head, next, blk_size, bitmap, hp_count>>

(* The loop of release_impl loads the bitmap again. *)
Retry(pc) == "release_load"

(* expected | mask. *)
ToggleOn(reserved, ix) == reserved \cup {ix}

(* expected ^ mask. *)
Toggle(reserved, ix) == (reserved \ {ix}) \cup ({ix} \ reserved)

ReleaseCas(c) ==
  /\ At(c, "release_cas")
  /\ \/ /\ BitmapMatches(c)
        /\ bitmap' = [bitmap EXCEPT ![ctx[c].pool] =
                        Toggle(ctx[c].expected, ctx[c].block)]
        /\ ctx' = [ctx EXCEPT ![c] = NoContext]
     \/ /\ ~BitmapMatches(c)
        /\ ctx' = [ctx EXCEPT ![c].pc = Retry(@)]
        /\ UNCHANGED bitmap
  /\ UNCHANGED <<pools_head, next, blk_size, hp_count>>

-----------------------------------------------------------------------------
(* The next step of a constructor or destructor in progress. *)
Step(c) ==
  \/ LoadHead(c) \/ NewPool(c) \/ NewLoad(c) \/ NewCas(c) \/ CountRead(c)
  \/ CountWrite(c) \/ LoadBitmap(c) \/ ReserveSpin(c) \/ ReserveCas(c)
  \/ ReleaseHead(c) \/ ReleasePool(c) \/ ReleaseAssert(c) \/ ReleaseLoad(c)
  \/ ReleaseCas(c)

Next ==
  \E c \in Contexts :
    \/ \E len \in Lengths : Construct(c, len)
    \/ Destroy(c)
    \/ Step(c)

Spec == Init /\ [][Next]_vars

(* A thread that is inside a constructor or destructor keeps running; it   *)
(* may keep a context for ever.                                            *)
FairSpec == Spec /\ \A c \in Contexts : WF_vars(Step(c))

-----------------------------------------------------------------------------
(***************************************************************************)
(* What is checked.                                                        *)
(***************************************************************************)

(* The context owns its block, up to the CAS that releases it. *)
Holds(c) ==
  ctx[c].pc \in {"held", "release_head", "release_pool", "release_assert",
                 "release_load", "release_cas"}

Busy(c) == ~At(c, "none") /\ ~At(c, "held")

(* No two contexts ever own the same block of hazard pointers, however the *)
(* reservations and releases of reserve_impl and release_impl interleave:  *)
(* otherwise one thread would overwrite the protection of another.         *)
BlockExclusive ==
  \A c, d \in Contexts :
    c # d /\ Holds(c) /\ Holds(d) =>
      ctx[c].pool # ctx[d].pool \/ ctx[c].block # ctx[d].block

(* The bitmaps mark exactly the blocks that contexts own: nothing is lost  *)
(* and, once all contexts are gone, has_reservations() is false in every   *)
(* pool, as the destructor of the domain asserts (hazard_pointer.cpp:324). *)
BitmapExact ==
  \A p \in Pools :
    bitmap[p] = {ctx[c].block : c \in {d \in Contexts : Holds(d) /\ ctx[d].pool = p}}

(* The asserts of the component: reserve has found a block in its second   *)
(* attempt (hazard_pointer.cpp:358), release finds the pool of the block   *)
(* (hazard_pointer.hpp:407), and its bit is set (hazard_pointer.cpp:146).  *)
AssertsHold ==
  \A c \in Contexts :
    /\ At(c, "load_head") /\ ctx[c].second => pools_head # NULL
    /\ At(c, "release_pool") => ctx[c].p # NULL
    /\ At(c, "release_assert") => ctx[c].block \in bitmap[ctx[c].pool]

(* The pools that a walk from the head meets, as snapshots do. *)
ListedPools == ListFrom(Pools, NULL, next, pools_head)

(* "The set of hazard pointer pools only ever grows, it never shrinks",    *)
(* also when several threads push their first pool at once: a pool that    *)
(* dropped out of the list would hide its hazard pointers from snapshots.  *)
PoolsGrow == [][ListedPools \subseteq ListedPools']_vars

(* Lock freedom of reserve and release: unless all contexts come to rest   *)
(* again and again, constructors and destructors keep completing.          *)
LockFree ==
  \/ []<>(\A c \in Contexts : ~Busy(c))
  \/ []<><<\E c \in Contexts : Busy(c) /\ ~Busy(c)'>>_vars

=============================================================================
