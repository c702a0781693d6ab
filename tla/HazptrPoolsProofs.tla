------------------------- MODULE HazptrPoolsProofs -------------------------
(***************************************************************************)
(* Proofs, for any number of contexts, pools and blocks, that the bitmaps  *)
(* of the hazard pointer pools give every block to one context at most,    *)
(* and that the list of pools only grows.                                  *)
(***************************************************************************)
EXTENDS HazptrPools, ListLemmas, TLAPS

(* A context that works on a pool has one. *)
PoolChosen ==
  \A c \in Contexts :
    ctx[c].pc \notin {"none", "load_head"} => ctx[c].pool \in Pools

(* reserve_impl leaves its loop when the bitmap it has read is full. *)
NotFull ==
  \A c \in Contexts :
    ctx[c].pc = "reserve_cas" => ctx[c].expected # HAZPTR_POOL_BITMAP_FULL

(* The bit of a block that is owned is set. *)
OwnedIsReserved ==
  \A c \in Contexts : Holds(c) => ctx[c].block \in bitmap[ctx[c].pool]

(* A block whose bit is set is owned. *)
ReservedIsOwned ==
  \A p \in Pools : \A b \in bitmap[p] :
    \E c \in Contexts : Holds(c) /\ ctx[c].pool = p /\ ctx[c].block = b

IInv ==
  /\ TypeOK
  /\ PoolChosen
  /\ NotFull
  /\ OwnedIsReserved
  /\ ReservedIsOwned
  /\ BlockExclusive

-----------------------------------------------------------------------------
(* The search of reserve_impl for a bit that is 0 succeeds, with a block   *)
(* that is not reserved, unless the bitmap is full.                        *)
LEMMA FreeBlockIsFree ==
  ASSUME NEW reserved \in SUBSET Block, reserved # HAZPTR_POOL_BITMAP_FULL
  PROVE  FreeBlock(reserved) \in Block \ reserved
<1> DEFINE T == Block \ reserved
<1>1. T \in SUBSET Nat
  BY BlocksAssumption DEF Block
<1>2. T # {}
  BY DEF HAZPTR_POOL_BITMAP_FULL
<1>3. \E x \in T : \A y \in T : x <= y
  <2> HIDE DEF T
  <2> QED BY <1>1, <1>2, LeastElement
<1> QED BY <1>3 DEF FreeBlock

(* The initial state: no pools and no contexts. *)
LEMMA InitInvariant == Init => IInv
<1> SUFFICES ASSUME Init PROVE IInv
  OBVIOUS
<1>1. TypeOK
  BY BlocksAssumption DEF Init, TypeOK, NoContext, Context, Block
<1> QED BY <1>1 DEF Init, IInv, NoContext, PoolChosen, NotFull, OwnedIsReserved,
            ReservedIsOwned, BlockExclusive, Holds

(* Every step preserves the types of the variables. *)
LEMMA TypeInvariant ==
  ASSUME IInv, [Next]_vars
  PROVE  TypeOK'
<1> USE DEF IInv, TypeOK, At
<1>1. CASE UNCHANGED vars
  BY <1>1 DEF vars
<1>2. ASSUME NEW c \in Contexts, NEW len \in Lengths, Construct(c, len)
      PROVE  TypeOK'
  <2>1. ctx' = [ctx EXCEPT ![c] = [ctx[c] EXCEPT !.pc = "load_head", !.len = len]]
    BY <1>2 DEF Construct
  <2>2. [ctx[c] EXCEPT !.pc = "load_head", !.len = len] \in Context
    BY DEF Context
  <2> QED BY <1>2, <2>1, <2>2 DEF Construct
<1>3. ASSUME NEW c \in Contexts, Destroy(c) PROVE TypeOK'
  BY <1>3 DEF Destroy, Context
<1>4. ASSUME NEW c \in Contexts, Step(c) PROVE TypeOK'
  <2> ctx[c] \in Context
    BY <1>4
  <2>1. CASE LoadHead(c)
    BY <2>1 DEF LoadHead, Context
  <2>2. CASE NewPool(c)
    <3>1. PICK q \in Pools :
            /\ blk_size' = [blk_size EXCEPT ![q] = ctx[c].len]
            /\ ctx' = [ctx EXCEPT ![c].pc = "new_load", ![c].pool = q]
      BY <2>2 DEF NewPool
    <3>2. ctx' = [ctx EXCEPT ![c] = [ctx[c] EXCEPT !.pc = "new_load", !.pool = q]]
      BY <3>1
    <3>3. [ctx[c] EXCEPT !.pc = "new_load", !.pool = q] \in Context
      BY DEF Context
    <3>4. ctx[c].len \in Lengths \cup {0}
      BY DEF Context
    <3> QED BY <2>2, <3>1, <3>2, <3>3, <3>4 DEF NewPool
  <2>3. CASE NewLoad(c)
    BY <2>3 DEF NewLoad, Context
  <2>4. CASE NewCas(c)
    BY <2>4 DEF NewCas, PoolChosen, Context
  <2>5. CASE CountRead(c)
    <3>1. PoolCount(ctx[c].pool) \in Nat
      BY <2>5, BlocksAssumption, LengthsAssumption
         DEF CountRead, PoolChosen, PoolCount
    <3> DEFINE n == hp_count + PoolCount(ctx[c].pool)
    <3>2. n \in Nat
      BY <3>1
    <3>3. ctx' = [ctx EXCEPT ![c] = [ctx[c] EXCEPT !.pc = "count_write", !.count = n]]
      BY <2>5 DEF CountRead
    <3> HIDE DEF n
    <3>4. [ctx[c] EXCEPT !.pc = "count_write", !.count = n] \in Context
      BY <3>2 DEF Context
    <3> QED BY <2>5, <3>3, <3>4 DEF CountRead
  <2>6. CASE CountWrite(c)
    BY <2>6 DEF CountWrite, Context
  <2>7. CASE LoadBitmap(c)
    BY <2>7 DEF LoadBitmap, PoolChosen, Context
  <2>8. CASE ReserveSpin(c)
    BY <2>8 DEF ReserveSpin, vars
  <2>9. CASE ReserveCas(c)
    <3> DEFINE ix == FreeBlock(ctx[c].expected)
    <3>1. ix \in Block
      BY <2>9, FreeBlockIsFree DEF ReserveCas, NotFull, Context
    <3> HIDE DEF ix
    <3>2. ctx[c].pool \in Pools /\ ctx[c].len \in Lengths \cup {0}
      BY <2>9 DEF ReserveCas, PoolChosen, Context
    <3>3. CASE BitmapMatches(c)
      <4>1. [NoContext EXCEPT !.pc = "held", !.len = ctx[c].len,
                              !.pool = ctx[c].pool, !.block = ix] \in Context
        BY <3>1, <3>2 DEF NoContext, Context
      <4>2. ctx[c].expected \cup {ix} \in SUBSET Block
        BY <3>1 DEF Context
      <4>3. /\ bitmap' = [bitmap EXCEPT ![ctx[c].pool] = ctx[c].expected \cup {ix}]
            /\ ctx' = [ctx EXCEPT ![c] = [NoContext EXCEPT !.pc = "held",
                          !.len = ctx[c].len, !.pool = ctx[c].pool, !.block = ix]]
            /\ UNCHANGED <<pools_head, next, blk_size, hp_count>>
        BY <2>9, <3>3 DEF ReserveCas, ix
      <4> QED BY <4>1, <4>2, <4>3
    <3>4. CASE ~BitmapMatches(c)
      BY <2>9, <3>2, <3>4 DEF ReserveCas, Context
    <3> QED BY <3>3, <3>4
  <2>10. CASE ReleaseHead(c)
    BY <2>10 DEF ReleaseHead, Context
  <2>11. CASE ReleasePool(c)
    BY <2>11 DEF ReleasePool, Context
  <2>12. CASE ReleaseAssert(c)
    BY <2>12 DEF ReleaseAssert, Context
  <2>13. CASE ReleaseLoad(c)
    BY <2>13 DEF ReleaseLoad, PoolChosen, Context
  <2>14. CASE ReleaseCas(c)
    <3>1. NoContext \in Context
      BY BlocksAssumption DEF NoContext, Context, Block
    <3>2. Toggle(ctx[c].expected, ctx[c].block) \in SUBSET Block
      BY DEF Toggle, Context
    <3> QED BY <2>14, <3>1, <3>2 DEF ReleaseCas, Retry, Context
  <2> QED BY <1>4, <2>1, <2>2, <2>3, <2>4, <2>5, <2>6, <2>7, <2>8, <2>9, <2>10,
             <2>11, <2>12, <2>13, <2>14 DEF Step
<1> QED BY <1>1, <1>2, <1>3, <1>4 DEF Next

-----------------------------------------------------------------------------
(***************************************************************************)
(* Seen from the blocks there are three kinds of step.                     *)
(***************************************************************************)
SameOwner(d) ==
  /\ Holds(d)' <=> Holds(d)
  /\ Holds(d) => ctx'[d].pool = ctx[d].pool /\ ctx'[d].block = ctx[d].block

QuietStep == bitmap' = bitmap /\ \A d \in Contexts : SameOwner(d)

AcquireStep(c) ==
  /\ ~Holds(c) /\ Holds(c)'
  /\ ctx'[c].pool \in Pools
  /\ ctx'[c].block \in Block \ bitmap[ctx'[c].pool]
  /\ bitmap' = [bitmap EXCEPT ![ctx'[c].pool] = @ \cup {ctx'[c].block}]
  /\ \A d \in Contexts \ {c} : SameOwner(d)

ReleaseStep(c) ==
  /\ Holds(c) /\ ~Holds(c)'
  /\ bitmap' = [bitmap EXCEPT ![ctx[c].pool] = @ \ {ctx[c].block}]
  /\ \A d \in Contexts \ {c} : SameOwner(d)

(* The steps of a constructor or destructor other than its successful CAS  *)
(* on a bitmap own and free nothing.                                       *)
LEMMA QuietSteps ==
  ASSUME TypeOK, NEW c \in Contexts,
         \/ \E len \in Lengths : Construct(c, len)
         \/ Destroy(c) \/ LoadHead(c) \/ NewPool(c) \/ NewLoad(c) \/ NewCas(c)
         \/ CountRead(c) \/ CountWrite(c) \/ LoadBitmap(c) \/ ReserveSpin(c)
         \/ ReleaseHead(c) \/ ReleasePool(c) \/ ReleaseAssert(c) \/ ReleaseLoad(c)
         \/ ReserveCas(c) /\ ~BitmapMatches(c)
         \/ ReleaseCas(c) /\ ~BitmapMatches(c)
  PROVE  QuietStep
<1> USE DEF TypeOK, At, Context
<1>1. bitmap' = bitmap
  BY DEF Construct, Destroy, LoadHead, NewPool, NewLoad, NewCas, CountRead,
         CountWrite, LoadBitmap, ReserveSpin, ReleaseHead, ReleasePool,
         ReleaseAssert, ReleaseLoad, ReserveCas, ReleaseCas, vars
<1>2. ASSUME NEW d \in Contexts PROVE SameOwner(d)
  <2> USE DEF SameOwner, Holds
  <2>1. CASE \E len \in Lengths : Construct(c, len)
    <3>1. PICK len \in Lengths :
            ctx' = [ctx EXCEPT ![c].pc = "load_head", ![c].len = len]
      BY <2>1 DEF Construct
    <3>2. ctx[c].pc = "none" /\ ctx'[c].pc = "load_head"
      BY <2>1, <3>1 DEF Construct
    <3>3. d # c => ctx'[d] = ctx[d]
      BY <3>1
    <3> QED BY <3>2, <3>3
  <2>2. CASE Destroy(c)
    BY <2>2 DEF Destroy
  <2>3. CASE LoadHead(c)
    BY <2>3 DEF LoadHead
  <2>4. CASE NewPool(c)
    <3>1. PICK q \in Pools : ctx' = [ctx EXCEPT ![c].pc = "new_load", ![c].pool = q]
      BY <2>4 DEF NewPool
    <3>2. ctx[c].pc = "load_head" /\ ctx'[c].pc = "new_load"
      BY <2>4, <3>1 DEF NewPool
    <3>3. d # c => ctx'[d] = ctx[d]
      BY <3>1
    <3> QED BY <3>2, <3>3
  <2>5. CASE NewLoad(c)
    BY <2>5 DEF NewLoad
  <2>6. CASE NewCas(c)
    BY <2>6 DEF NewCas
  <2>7. CASE CountRead(c)
    BY <2>7 DEF CountRead
  <2>8. CASE CountWrite(c)
    BY <2>8 DEF CountWrite
  <2>9. CASE LoadBitmap(c)
    BY <2>9 DEF LoadBitmap
  <2>10. CASE ReserveSpin(c)
    BY <2>10 DEF ReserveSpin, vars
  <2>11. CASE ReleaseHead(c)
    BY <2>11 DEF ReleaseHead
  <2>12. CASE ReleasePool(c)
    BY <2>12 DEF ReleasePool
  <2>13. CASE ReleaseAssert(c)
    BY <2>13 DEF ReleaseAssert
  <2>14. CASE ReleaseLoad(c)
    BY <2>14 DEF ReleaseLoad
  <2>15. CASE ReserveCas(c) /\ ~BitmapMatches(c)
    BY <2>15 DEF ReserveCas
  <2>16. CASE ReleaseCas(c) /\ ~BitmapMatches(c)
    BY <2>16 DEF ReleaseCas, Retry
  <2> QED BY <2>1, <2>2, <2>3, <2>4, <2>5, <2>6, <2>7, <2>8, <2>9, <2>10, <2>11,
             <2>12, <2>13, <2>14, <2>15, <2>16
<1> QED BY <1>1, <1>2 DEF QuietStep

(* A successful CAS in reserve_impl sets the bit of a block that was free. *)
LEMMA ReserveAcquires ==
  ASSUME IInv, NEW c \in Contexts, ReserveCas(c), BitmapMatches(c)
  PROVE  AcquireStep(c)
<1> USE DEF IInv, TypeOK, At
<1> DEFINE p == ctx[c].pool
           ix == FreeBlock(ctx[c].expected)
<1>1. ix \in Block \ ctx[c].expected
  BY FreeBlockIsFree DEF ReserveCas, NotFull, Context
<1>2. p \in Pools /\ ctx[c].expected = bitmap[p]
  BY DEF ReserveCas, PoolChosen, BitmapMatches
<1>3. /\ bitmap' = [bitmap EXCEPT ![p] = ctx[c].expected \cup {ix}]
      /\ ctx' = [ctx EXCEPT ![c] = [NoContext EXCEPT !.pc = "held",
                    !.len = ctx[c].len, !.pool = p, !.block = ix]]
  BY DEF ReserveCas
<1> HIDE DEF ix, p
<1>4. ctx'[c].pc = "held" /\ ctx'[c].pool = p /\ ctx'[c].block = ix
  BY <1>3 DEF NoContext
<1>5. \A d \in Contexts \ {c} : SameOwner(d)
  BY <1>3 DEF SameOwner, Holds
<1>6. ~Holds(c) /\ Holds(c)'
  BY <1>4 DEF Holds, ReserveCas
<1>7. bitmap' = [bitmap EXCEPT ![p] = @ \cup {ix}]
  BY <1>2, <1>3
<1> QED BY <1>1, <1>2, <1>4, <1>5, <1>6, <1>7 DEF AcquireStep

(* A successful CAS in release_impl clears the bit of the block of the     *)
(* context: the exclusive or cannot set it.                                *)
LEMMA ReleaseReleases ==
  ASSUME IInv, NEW c \in Contexts, ReleaseCas(c), BitmapMatches(c)
  PROVE  ReleaseStep(c)
<1> USE DEF IInv, TypeOK, At
<1> DEFINE p == ctx[c].pool
           b == ctx[c].block
<1>1. Holds(c)
  BY DEF ReleaseCas, Holds
<1>2. p \in Pools /\ ctx[c].expected = bitmap[p] /\ b \in bitmap[p]
  BY <1>1 DEF ReleaseCas, PoolChosen, BitmapMatches, OwnedIsReserved
<1>3. /\ bitmap' = [bitmap EXCEPT ![p] = Toggle(ctx[c].expected, b)]
      /\ ctx' = [ctx EXCEPT ![c] = NoContext]
  BY DEF ReleaseCas
<1>4. Toggle(ctx[c].expected, b) = bitmap[p] \ {b}
  BY <1>2 DEF Toggle
<1>5. bitmap' = [bitmap EXCEPT ![p] = @ \ {b}]
  BY <1>2, <1>3, <1>4
<1>6. ~Holds(c)'
  BY <1>3 DEF Holds, NoContext
<1>7. \A d \in Contexts \ {c} : SameOwner(d)
  BY <1>3 DEF SameOwner, Holds
<1> QED BY <1>1, <1>5, <1>6, <1>7 DEF ReleaseStep

LEMMA StepKinds ==
  ASSUME IInv, [Next]_vars
  PROVE  QuietStep \/ \E c \in Contexts : AcquireStep(c) \/ ReleaseStep(c)
<1>1. CASE UNCHANGED vars
  BY <1>1 DEF vars, QuietStep, SameOwner, Holds
<1>2. ASSUME NEW c \in Contexts,
             \/ \E len \in Lengths : Construct(c, len)
             \/ Destroy(c)
             \/ Step(c)
      PROVE  QuietStep \/ AcquireStep(c) \/ ReleaseStep(c)
  <2>1. TypeOK
    BY DEF IInv
  <2> QED BY <1>2, <2>1, QuietSteps, ReserveAcquires, ReleaseReleases DEF Step
<1> QED BY <1>1, <1>2 DEF Next

-----------------------------------------------------------------------------
(* Every step preserves the facts about single contexts. *)
LEMMA LocalInvariant ==
  ASSUME IInv, [Next]_vars
  PROVE  PoolChosen' /\ NotFull'
<1> USE DEF IInv, TypeOK, At, Context
<1>1. CASE UNCHANGED vars
  BY <1>1 DEF vars, PoolChosen, NotFull
<1>2. ASSUME NEW c \in Contexts,
             \/ \E len \in Lengths : Construct(c, len)
             \/ Destroy(c)
             \/ Step(c)
      PROVE  /\ \A d \in Contexts \ {c} : ctx'[d] = ctx[d]
             /\ ctx'[c].pc \notin {"none", "load_head"} => ctx'[c].pool \in Pools
             /\ ctx'[c].pc = "reserve_cas" =>
                  ctx'[c].expected # HAZPTR_POOL_BITMAP_FULL
  <2> USE DEF PoolChosen, NotFull
  <2>1. CASE \E len \in Lengths : Construct(c, len)
    <3>1. PICK len \in Lengths :
            ctx' = [ctx EXCEPT ![c].pc = "load_head", ![c].len = len]
      BY <2>1 DEF Construct
    <3> QED BY <3>1
  <2>2. CASE Destroy(c)
    BY <2>2 DEF Destroy
  <2>3. CASE LoadHead(c)
    BY <2>3 DEF LoadHead
  <2>4. CASE NewPool(c)
    <3>1. PICK q \in Pools : ctx' = [ctx EXCEPT ![c].pc = "new_load", ![c].pool = q]
      BY <2>4 DEF NewPool
    <3> QED BY <3>1
  <2>5. CASE NewLoad(c)
    BY <2>5 DEF NewLoad
  <2>6. CASE NewCas(c)
    BY <2>6 DEF NewCas
  <2>7. CASE CountRead(c)
    BY <2>7 DEF CountRead
  <2>8. CASE CountWrite(c)
    BY <2>8 DEF CountWrite
  <2>9. CASE LoadBitmap(c)
    BY <2>9 DEF LoadBitmap
  <2>10. CASE ReserveSpin(c)
    BY <2>10 DEF ReserveSpin, vars
  <2>11. CASE ReleaseHead(c)
    BY <2>11 DEF ReleaseHead
  <2>12. CASE ReleasePool(c)
    BY <2>12 DEF ReleasePool
  <2>13. CASE ReleaseAssert(c)
    BY <2>13 DEF ReleaseAssert
  <2>14. CASE ReleaseLoad(c)
    BY <2>14 DEF ReleaseLoad
  <2>15. CASE ReserveCas(c)
    <3>1. CASE BitmapMatches(c)
      <4>1. ctx' = [ctx EXCEPT ![c] = [NoContext EXCEPT !.pc = "held",
                      !.len = ctx[c].len, !.pool = ctx[c].pool,
                      !.block = FreeBlock(ctx[c].expected)]]
        BY <2>15, <3>1 DEF ReserveCas
      <4>2. ctx'[c].pc = "held" /\ ctx'[c].pool = ctx[c].pool
        BY <4>1 DEF NoContext
      <4> QED BY <2>15, <4>1, <4>2 DEF ReserveCas
    <3>2. CASE ~BitmapMatches(c)
      BY <2>15, <3>2 DEF ReserveCas
    <3> QED BY <3>1, <3>2
  <2>16. CASE ReleaseCas(c)
    BY <2>16 DEF ReleaseCas, Retry, NoContext
  <2> QED BY <1>2, <2>1, <2>2, <2>3, <2>4, <2>5, <2>6, <2>7, <2>8, <2>9, <2>10,
             <2>11, <2>12, <2>13, <2>14, <2>15, <2>16 DEF Step
<1>3. ASSUME NEW c \in Contexts,
             \/ \E len \in Lengths : Construct(c, len)
             \/ Destroy(c)
             \/ Step(c)
      PROVE  PoolChosen' /\ NotFull'
  BY <1>2, <1>3 DEF PoolChosen, NotFull
<1> QED BY <1>1, <1>3 DEF Next

(* Every step preserves the facts that relate the contexts to the bitmaps. *)
LEMMA OwnershipInvariant ==
  ASSUME IInv, [Next]_vars, TypeOK', PoolChosen'
  PROVE  OwnedIsReserved' /\ ReservedIsOwned' /\ BlockExclusive'
<1> USE DEF IInv, OwnedIsReserved, ReservedIsOwned, BlockExclusive
<1>0. /\ bitmap \in [Pools -> SUBSET Block]
      /\ \A d \in Contexts : Holds(d) => ctx[d].pool \in Pools
      /\ \A d \in Contexts : Holds(d)' => ctx'[d].pool \in Pools
  BY DEF TypeOK, PoolChosen, Holds
<1>1. CASE QuietStep
  BY <1>0, <1>1 DEF QuietStep, SameOwner
<1>2. ASSUME NEW c \in Contexts, AcquireStep(c)
      PROVE  OwnedIsReserved' /\ ReservedIsOwned' /\ BlockExclusive'
  <2> DEFINE p == ctx'[c].pool
             b == ctx'[c].block
  <2>1. /\ p \in Pools /\ b \notin bitmap[p] /\ ~Holds(c) /\ Holds(c)'
        /\ bitmap'[p] = bitmap[p] \cup {b}
        /\ \A q \in Pools \ {p} : bitmap'[q] = bitmap[q]
    BY <1>0, <1>2 DEF AcquireStep
  <2>2. ASSUME NEW d \in Contexts, d # c
        PROVE  /\ Holds(d)' <=> Holds(d)
               /\ Holds(d) => ctx'[d].pool = ctx[d].pool /\ ctx'[d].block = ctx[d].block
    BY <1>2, <2>2 DEF AcquireStep, SameOwner
  <2>3. OwnedIsReserved'
    BY <1>0, <2>1, <2>2
  <2>4. ReservedIsOwned'
    BY <1>0, <2>1, <2>2
  <2>5. BlockExclusive'
    BY <1>0, <2>1, <2>2
  <2> QED BY <2>3, <2>4, <2>5
<1>3. ASSUME NEW c \in Contexts, ReleaseStep(c)
      PROVE  OwnedIsReserved' /\ ReservedIsOwned' /\ BlockExclusive'
  <2> DEFINE p == ctx[c].pool
             b == ctx[c].block
  <2>1. /\ p \in Pools /\ Holds(c) /\ ~Holds(c)'
        /\ bitmap'[p] = bitmap[p] \ {b}
        /\ \A q \in Pools \ {p} : bitmap'[q] = bitmap[q]
    BY <1>0, <1>3 DEF ReleaseStep
  <2>2. ASSUME NEW d \in Contexts, d # c
        PROVE  /\ Holds(d)' <=> Holds(d)
               /\ Holds(d) => ctx'[d].pool = ctx[d].pool /\ ctx'[d].block = ctx[d].block
    BY <1>3, <2>2 DEF ReleaseStep, SameOwner
  <2>3. OwnedIsReserved'
    BY <1>0, <2>1, <2>2
  <2>4. ReservedIsOwned'
    BY <1>0, <2>1, <2>2
  <2>5. BlockExclusive'
    BY <1>0, <2>1, <2>2
  <2> QED BY <2>3, <2>4, <2>5
<1> QED BY <1>1, <1>2, <1>3, StepKinds

-----------------------------------------------------------------------------
(* IInv is an inductive invariant of the pools. *)
THEOREM Invariance == Spec => []IInv
<1>1. IInv /\ [Next]_vars => IInv'
  <2> SUFFICES ASSUME IInv, [Next]_vars PROVE IInv'
    OBVIOUS
  <2>1. TypeOK'
    BY TypeInvariant
  <2>2. PoolChosen' /\ NotFull'
    BY LocalInvariant
  <2>3. OwnedIsReserved' /\ ReservedIsOwned' /\ BlockExclusive'
    BY <2>1, <2>2, OwnershipInvariant
  <2> QED BY <2>1, <2>2, <2>3 DEF IInv
<1> QED BY InitInvariant, <1>1, PTL DEF Spec

(* The variables of the pools keep their types. *)
THEOREM TypeCorrectness == Spec => []TypeOK
<1>1. IInv => TypeOK
  BY DEF IInv
<1> QED BY Invariance, <1>1, PTL

(* reserve_impl and release_impl never let two contexts own one block,     *)
(* whatever the number of threads, pools and blocks.                       *)
THEOREM ExclusiveBlocks == Spec => []BlockExclusive
<1>1. IInv => BlockExclusive
  BY DEF IInv
<1> QED BY Invariance, <1>1, PTL

(* The bitmaps are exactly the blocks that contexts own, so that none is   *)
(* leaked and none is left when the last context is gone.                  *)
THEOREM ExactBitmaps == Spec => []BitmapExact
<1>1. IInv => BitmapExact
  <2> SUFFICES ASSUME IInv, NEW p \in Pools
               PROVE  bitmap[p] = {ctx[c].block : c \in
                        {d \in Contexts : Holds(d) /\ ctx[d].pool = p}}
    BY DEF BitmapExact
  <2>1. \A b \in bitmap[p] :
          \E c \in Contexts : Holds(c) /\ ctx[c].pool = p /\ ctx[c].block = b
    BY DEF IInv, ReservedIsOwned
  <2>2. \A c \in Contexts : Holds(c) /\ ctx[c].pool = p => ctx[c].block \in bitmap[p]
    BY DEF IInv, OwnedIsReserved
  <2> QED BY <2>1, <2>2
<1> QED BY Invariance, <1>1, PTL

-----------------------------------------------------------------------------
(***************************************************************************)
(* The list of pools.                                                      *)
(***************************************************************************)
(* A pool that its context has not pushed yet. *)
Publishing(c) == ctx[c].pc \in {"new_load", "new_cas"}

(* A context in a call works on a pool with a block length.  The pool is   *)
(* on the list once it has been pushed, and a release comes to it when it  *)
(* goes on from p.                                                         *)
PoolInUse(c) ==
  LET t == ctx[c] IN
  /\ t.pc # "none" => t.len \in Lengths
  /\ t.pc \notin {"none", "load_head"} => blk_size[t.pool] # 0
  /\ Publishing(c) => t.pool \notin ListedPools
  /\ t.pc \notin {"none", "load_head"} /\ ~Publishing(c) => t.pool \in ListedPools
  /\ t.second => pools_head # NULL
  /\ t.pc = "release_pool" => /\ t.p \in ListedPools
                              /\ t.pool \in ListFrom(Pools, NULL, next, t.p)

ListInv ==
  /\ \A q \in ListedPools : blk_size[q] # 0
  /\ \A c \in Contexts : PoolInUse(c)
  /\ \A c, d \in Contexts :
       c # d /\ Publishing(c) /\ Publishing(d) => ctx[c].pool # ctx[d].pool

(* What a step does to the list: the pools on it stay, with their links    *)
(* and block lengths.                                                      *)
ListKept ==
  /\ ListedPools \subseteq ListedPools'
  /\ \A q \in ListedPools : next'[q] = next[q]
  /\ \A q \in Pools : blk_size[q] # 0 => blk_size'[q] # 0
  /\ pools_head # NULL => pools_head' # NULL

(* The context d, which does not take part in the step. *)
LEMMA OtherPoolInUse ==
  ASSUME TypeOK, TypeOK', PoolChosen, NEW d \in Contexts, PoolInUse(d), ctx'[d] = ctx[d], ListKept,
         Publishing(d) => ctx[d].pool \notin ListedPools'
  PROVE  PoolInUse(d)'
<1> DEFINE t == ctx[d]
<1>1. Publishing(d)' <=> Publishing(d)
  BY DEF Publishing
<1>2. t.pc = "release_pool" =>
        ListFrom(Pools, NULL, next', t.p) = ListFrom(Pools, NULL, next, t.p)
  <2> SUFFICES ASSUME t.pc = "release_pool"
               PROVE  ListFrom(Pools, NULL, next', t.p) = ListFrom(Pools, NULL, next, t.p)
    OBVIOUS
  <2>1. /\ next \in Links(Pools, NULL) /\ next' \in Links(Pools, NULL)
        /\ pools_head \in Pools \cup {NULL} /\ t.p \in Pools \cup {NULL}
    BY DEF TypeOK, Links, Context
  <2>2. t.p \in ListFrom(Pools, NULL, next, pools_head)
    BY DEF PoolInUse, ListedPools
  <2>3. ListFrom(Pools, NULL, next, t.p) \subseteq ListedPools
    BY <2>1, <2>2, ListSuffix, NullAssumption DEF ListedPools
  <2>4. \A q \in ListFrom(Pools, NULL, next, t.p) : next'[q] = next[q]
    BY <2>3 DEF ListKept
  <2> QED BY <2>1, <2>4, ListFrame, NullAssumption
<1> QED BY <1>1, <1>2 DEF PoolInUse, ListKept, PoolChosen

(* A step that neither links nor allocates a pool. *)
LEMMA ListUnchanged ==
  ASSUME UNCHANGED <<pools_head, next, blk_size>>
  PROVE  ListKept /\ ListedPools' = ListedPools
BY DEF ListKept, ListedPools

(* The link of a pool that is not on the list changes nothing. *)
LEMMA LinkKept ==
  ASSUME TypeOK, PoolChosen, NEW c \in Contexts, Publishing(c), PoolInUse(c),
         next' = [next EXCEPT ![ctx[c].pool] = pools_head],
         UNCHANGED <<pools_head, blk_size>>
  PROVE  ListKept /\ ListedPools' = ListedPools
<1>1. /\ next \in Links(Pools, NULL) /\ next' \in Links(Pools, NULL)
      /\ pools_head \in Pools \cup {NULL} /\ ctx[c].pool \in Pools
  BY DEF TypeOK, Links, PoolChosen, Publishing
<1>2. ListFrom(Pools, NULL, next, pools_head) \in SUBSET Pools
  BY <1>1, ListClosed, NullAssumption
<1>3. ctx[c].pool \notin ListFrom(Pools, NULL, next, pools_head)
  BY DEF PoolInUse, ListedPools
<1>4. \A q \in ListFrom(Pools, NULL, next, pools_head) : next'[q] = next[q]
  BY <1>1, <1>2, <1>3 DEF Links
<1>5. ListFrom(Pools, NULL, next', pools_head) = ListFrom(Pools, NULL, next, pools_head)
  <2>1. ASSUME NEW ny \in Links(Pools, NULL),
               \A q \in ListFrom(Pools, NULL, next, pools_head) : ny[q] = next[q]
        PROVE  ListFrom(Pools, NULL, ny, pools_head) = ListFrom(Pools, NULL, next, pools_head)
    BY <1>1, <2>1, ListFrame, NullAssumption
  <2> QED BY <1>1, <1>4, <2>1
<1> QED BY <1>4, <1>5 DEF ListKept, ListedPools

(* The exchange of the head adds the pool and drops none. *)
LEMMA PushKept ==
  ASSUME TypeOK, PoolChosen, NEW c \in Contexts, Publishing(c), HeadMatches(c),
         pools_head' = ctx[c].pool, UNCHANGED <<next, blk_size>>
  PROVE  ListKept /\ ListedPools' = {ctx[c].pool} \cup ListedPools
<1>1. next \in Links(Pools, NULL) /\ ctx[c].pool \in Pools /\ next[ctx[c].pool] = pools_head
  BY DEF TypeOK, Links, PoolChosen, Publishing, HeadMatches
<1>2. ListFrom(Pools, NULL, next, ctx[c].pool)
        = {ctx[c].pool} \cup ListFrom(Pools, NULL, next, next[ctx[c].pool])
  BY <1>1, ListHead, NullAssumption
<1> QED BY <1>1, <1>2, NullAssumption DEF ListKept, ListedPools

(* A step of c that keeps the list, or adds the pool that c pushes. *)
LEMMA ListStep ==
  ASSUME IInv, ListInv, TypeOK', NEW c \in Contexts, ListKept,
         \A d \in Contexts \ {c} : ctx'[d] = ctx[d],
         \/ ListedPools' = ListedPools
         \/ Publishing(c) /\ ListedPools' = {ctx[c].pool} \cup ListedPools,
         PoolInUse(c)',
         Publishing(c)' => \/ Publishing(c) /\ ctx'[c].pool = ctx[c].pool
                           \/ blk_size[ctx'[c].pool] = 0
  PROVE  ListInv'
<1> USE DEF IInv
<1>1. ASSUME NEW d \in Contexts \ {c} PROVE PoolInUse(d)'
  <2>1. Publishing(d) => ctx[d].pool \notin ListedPools'
    BY DEF ListInv, PoolInUse
  <2> QED BY <2>1, OtherPoolInUse DEF ListInv
<1>2. ListedPools \subseteq Pools
  BY DEF ListedPools, ListFrom
<1>3. \A q \in ListedPools' : blk_size'[q] # 0
  <2>1. Publishing(c) => ctx[c].pool \in Pools /\ blk_size[ctx[c].pool] # 0
    BY DEF ListInv, PoolInUse, Publishing, PoolChosen
  <2> QED BY <1>2, <2>1 DEF ListInv, ListKept
<1>4. ASSUME NEW d \in Contexts \ {c}, Publishing(c)', Publishing(d)'
      PROVE  ctx'[c].pool # ctx'[d].pool
  <2>1. Publishing(d) /\ ctx'[d].pool = ctx[d].pool /\ blk_size[ctx[d].pool] # 0
    BY <1>4 DEF ListInv, PoolInUse, Publishing
  <2> QED BY <1>4, <2>1 DEF ListInv
<1>5. \A d \in Contexts \ {c} : Publishing(d)' <=> Publishing(d)
  BY DEF Publishing
<1>6. \A d, e \in Contexts :
        d # e /\ Publishing(d)' /\ Publishing(e)' => ctx'[d].pool # ctx'[e].pool
  BY <1>4, <1>5 DEF ListInv
<1> QED BY <1>1, <1>3, <1>6 DEF ListInv

(* A pool on the list has a successor on the list, or none; a list with a  *)
(* pool has a head.                                                        *)
LEMMA ListFacts ==
  ASSUME TypeOK
  PROVE  /\ ListedPools \subseteq Pools
         /\ pools_head # NULL => pools_head \in ListedPools
         /\ ListedPools # {} => pools_head # NULL
         /\ \A q \in ListedPools : next[q] # NULL => next[q] \in ListedPools
<1>1. next \in Links(Pools, NULL) /\ pools_head \in Pools \cup {NULL}
  BY DEF TypeOK, Links
<1>2. /\ ListedPools \in SUBSET Pools
      /\ Follows(NULL, next, pools_head, ListedPools)
  BY <1>1, ListClosed, NullAssumption DEF ListedPools
<1>3. pools_head = NULL => ListedPools = {}
  BY ListNull, NullAssumption DEF ListedPools
<1> QED BY <1>2, <1>3 DEF Follows

(* The walk of pools_release: a pool that lies ahead of p is p, or lies    *)
(* ahead of the successor of p.                                            *)
LEMMA WalkAhead ==
  ASSUME TypeOK, NEW p \in Pools, NEW q \in ListFrom(Pools, NULL, next, p), q # p
  PROVE  next[p] # NULL /\ q \in ListFrom(Pools, NULL, next, next[p])
<1>1. next \in Links(Pools, NULL)
  BY DEF TypeOK, Links
<1>2. q \in ListFrom(Pools, NULL, next, next[p])
  BY <1>1, ListHead, NullAssumption
<1>3. ListFrom(Pools, NULL, next, NULL) = {}
  BY ListNull, NullAssumption
<1> QED BY <1>2, <1>3

(* What a step of c does to the list and to c. *)
ListStepOf(c) ==
  /\ ListKept
  /\ \A d \in Contexts \ {c} : ctx'[d] = ctx[d]
  /\ \/ ListedPools' = ListedPools
     \/ Publishing(c) /\ ListedPools' = {ctx[c].pool} \cup ListedPools
  /\ PoolInUse(c)'
  /\ Publishing(c)' => \/ Publishing(c) /\ ctx'[c].pool = ctx[c].pool
                       \/ blk_size[ctx'[c].pool] = 0

(* The steps that leave the list alone. *)
LEMMA QuietListSteps ==
  ASSUME IInv, ListInv, NEW c \in Contexts,
         \/ \E len \in Lengths : Construct(c, len)
         \/ Destroy(c) \/ LoadHead(c) \/ CountRead(c) \/ CountWrite(c)
         \/ LoadBitmap(c) \/ ReserveSpin(c) \/ ReserveCas(c) \/ ReleaseHead(c)
         \/ ReleasePool(c) \/ ReleaseAssert(c) \/ ReleaseLoad(c) \/ ReleaseCas(c)
  PROVE  ListStepOf(c)
<1> USE DEF IInv, TypeOK, At
<1>1. UNCHANGED <<pools_head, next, blk_size>>
  BY DEF Construct, Destroy, LoadHead, CountRead, CountWrite, LoadBitmap,
         ReserveSpin, ReserveCas, ReleaseHead, ReleasePool, ReleaseAssert,
         ReleaseLoad, ReleaseCas, vars
<1>2. ListKept /\ ListedPools' = ListedPools
  BY <1>1, ListUnchanged
<1>3. PoolInUse(c) /\ ctx[c] \in Context
  BY DEF ListInv
<1>4. /\ ListedPools \subseteq Pools
      /\ pools_head # NULL => pools_head \in ListedPools
      /\ ListedPools # {} => pools_head # NULL
      /\ \A q \in ListedPools : next[q] # NULL => next[q] \in ListedPools
  BY ListFacts
<1> DEFINE Shared ==
             /\ \A d \in Contexts \ {c} : ctx'[d] = ctx[d]
             /\ PoolInUse(c)'
             /\ ~Publishing(c)'
<1>5. ASSUME \E len \in Lengths : Construct(c, len) PROVE Shared
  <2>1. PICK len \in Lengths :
          ctx' = [ctx EXCEPT ![c] = [ctx[c] EXCEPT !.pc = "load_head", !.len = len]]
    BY <1>5 DEF Construct
  <2>2. ctx'[c].pc = "load_head" /\ ctx'[c].len = len /\ ctx'[c].second = ctx[c].second
    BY <2>1, <1>3 DEF Context
  <2> QED BY <1>1, <1>3, <2>1, <2>2 DEF PoolInUse, Publishing
<1>6. ASSUME Destroy(c) PROVE Shared
  BY <1>1, <1>2, <1>3, <1>6 DEF Destroy, PoolInUse, Publishing, Context
<1>7. ASSUME LoadHead(c) PROVE Shared
  <2>1. pools_head \in ListedPools /\ blk_size[pools_head] # 0
    BY <1>4, <1>7 DEF LoadHead, ListInv
  <2> QED BY <1>1, <1>2, <1>3, <1>7, <2>1 DEF LoadHead, PoolInUse, Publishing, Context
<1>8. ASSUME CountRead(c) PROVE Shared
  <2> DEFINE n == hp_count + PoolCount(ctx[c].pool)
  <2>1. ctx' = [ctx EXCEPT ![c] = [ctx[c] EXCEPT !.pc = "count_write", !.count = n]]
    BY <1>8 DEF CountRead
  <2> HIDE DEF n
  <2> QED BY <1>1, <1>2, <1>3, <1>8, <2>1 DEF CountRead, PoolInUse, Publishing, Context
<1>9. ASSUME CountWrite(c) PROVE Shared
  <2>1. pools_head # NULL
    BY <1>3, <1>4, <1>9 DEF CountWrite, PoolInUse, Publishing
  <2> QED BY <1>1, <1>2, <1>3, <1>9, <2>1 DEF CountWrite, PoolInUse, Publishing, Context
<1>10. ASSUME LoadBitmap(c) PROVE Shared
  BY <1>1, <1>2, <1>3, <1>10 DEF LoadBitmap, PoolInUse, Publishing, Context
<1>11. ASSUME ReserveSpin(c) PROVE Shared
  BY <1>1, <1>2, <1>3, <1>11 DEF ReserveSpin, PoolInUse, Publishing, vars
<1>12. ASSUME ReserveCas(c) PROVE Shared
  <2>1. CASE BitmapMatches(c)
    <3> DEFINE ix == FreeBlock(ctx[c].expected)
    <3>1. ctx' = [ctx EXCEPT ![c] = [NoContext EXCEPT !.pc = "held",
                    !.len = ctx[c].len, !.pool = ctx[c].pool, !.block = ix]]
      BY <1>12, <2>1 DEF ReserveCas
    <3> HIDE DEF ix
    <3>2. /\ ctx'[c].pc = "held" /\ ctx'[c].pool = ctx[c].pool
          /\ ctx'[c].len = ctx[c].len /\ ctx'[c].second = FALSE
      BY <3>1 DEF NoContext
    <3> QED BY <1>1, <1>2, <1>3, <1>12, <3>1, <3>2 DEF ReserveCas, PoolInUse, Publishing
  <2>2. CASE ~BitmapMatches(c)
    BY <1>1, <1>2, <1>3, <1>12, <2>2 DEF ReserveCas, PoolInUse, Publishing, Context
  <2> QED BY <2>1, <2>2
<1>13. ASSUME ReleaseHead(c) PROVE Shared
  <2>1. ctx[c].pool \in ListedPools /\ pools_head \in ListedPools
    BY <1>3, <1>4, <1>13 DEF ReleaseHead, PoolInUse, Publishing
  <2>2. ctx[c].pool \in ListFrom(Pools, NULL, next, pools_head)
    BY <2>1 DEF ListedPools
  <2> QED BY <1>1, <1>2, <1>3, <1>13, <2>1, <2>2
          DEF ReleaseHead, PoolInUse, Publishing, Context
<1>14. ASSUME ReleasePool(c) PROVE Shared
  <2>1. CASE ctx[c].p = ctx[c].pool
    BY <1>1, <1>2, <1>3, <1>14, <2>1 DEF ReleasePool, PoolInUse, Publishing, Context
  <2>2. CASE ctx[c].p # ctx[c].pool
    <3>1. /\ ctx[c].p \in ListedPools /\ ctx[c].p \in Pools
          /\ ctx[c].pool \in ListFrom(Pools, NULL, next, ctx[c].p)
      BY <1>3, <1>4, <1>14 DEF ReleasePool, PoolInUse
    <3>2. /\ next[ctx[c].p] # NULL
          /\ ctx[c].pool \in ListFrom(Pools, NULL, next, next[ctx[c].p])
      BY <2>2, <3>1, WalkAhead
    <3>3. next[ctx[c].p] \in ListedPools
      BY <1>4, <3>1, <3>2
    <3>4. ctx' = [ctx EXCEPT ![c].p = next[ctx[c].p]]
      BY <1>14, <2>2 DEF ReleasePool
    <3> QED BY <1>1, <1>2, <1>3, <1>14, <3>2, <3>3, <3>4
            DEF ReleasePool, PoolInUse, Publishing, Context
  <2> QED BY <2>1, <2>2
<1>15. ASSUME ReleaseAssert(c) PROVE Shared
  BY <1>1, <1>2, <1>3, <1>15 DEF ReleaseAssert, PoolInUse, Publishing, Context
<1>16. ASSUME ReleaseLoad(c) PROVE Shared
  BY <1>1, <1>2, <1>3, <1>16 DEF ReleaseLoad, PoolInUse, Publishing, Context
<1>17. ASSUME ReleaseCas(c) PROVE Shared
  BY <1>1, <1>2, <1>3, <1>17 DEF ReleaseCas, PoolInUse, Publishing, Context, Retry, NoContext
<1> HIDE DEF IInv, TypeOK, At
<1>18. Shared
  BY <1>5, <1>6, <1>7, <1>8, <1>9, <1>10, <1>11, <1>12, <1>13, <1>14, <1>15,
     <1>16, <1>17
<1> QED BY <1>2, <1>18 DEF ListStepOf

(* Pushing a pool, and allocating one. *)
LEMMA PushSteps ==
  ASSUME IInv, ListInv, NEW c \in Contexts, NewPool(c) \/ NewLoad(c) \/ NewCas(c)
  PROVE  ListStepOf(c)
<1> USE DEF IInv
<1>1. PoolInUse(c) /\ ctx[c] \in Context
  BY DEF ListInv, TypeOK
<1>2. ASSUME NewPool(c) PROVE ListStepOf(c)
  <2>1. PICK q \in Pools :
          /\ blk_size[q] = 0
          /\ blk_size' = [blk_size EXCEPT ![q] = ctx[c].len]
          /\ ctx' = [ctx EXCEPT ![c] = [ctx[c] EXCEPT !.pc = "new_load", !.pool = q]]
          /\ UNCHANGED <<pools_head, next>>
    BY <1>2 DEF NewPool
  <2>2. ctx[c].len \in Lengths /\ ctx[c].len # 0
    BY <1>1, <1>2, LengthsAssumption DEF NewPool, At, PoolInUse
  <2>3. /\ ctx'[c].pc = "new_load" /\ ctx'[c].pool = q
        /\ ctx'[c].len = ctx[c].len /\ ctx'[c].second = ctx[c].second
        /\ \A d \in Contexts \ {c} : ctx'[d] = ctx[d]
    BY <1>1, <2>1 DEF Context, TypeOK
  <2>4. ListedPools' = ListedPools
    BY <2>1 DEF ListedPools
  <2>5. q \notin ListedPools
    BY <2>1 DEF ListInv
  <2>6. blk_size'[q] # 0 /\ \A r \in Pools : blk_size[r] # 0 => blk_size'[r] # 0
    BY <2>1, <2>2 DEF TypeOK
  <2>7. ListKept
    BY <2>1, <2>4, <2>6 DEF ListKept
  <2>8. PoolInUse(c)'
    BY <1>1, <2>1, <2>2, <2>3, <2>4, <2>5, <2>6 DEF PoolInUse, Publishing
  <2> QED BY <2>1, <2>3, <2>4, <2>7, <2>8 DEF ListStepOf
<1>3. ASSUME /\ Publishing(c)
             /\ next' = [next EXCEPT ![ctx[c].pool] = pools_head]
             /\ UNCHANGED <<pools_head, blk_size>>,
             NEW pc \in {"new_load", "new_cas"},
             ctx' = [ctx EXCEPT ![c].pc = pc]
      PROVE  ListStepOf(c)
  <2>1. ListKept /\ ListedPools' = ListedPools
    BY <1>1, <1>3, LinkKept
  <2>2. /\ ctx'[c].pc = pc /\ ctx'[c].pool = ctx[c].pool
        /\ ctx'[c].len = ctx[c].len /\ ctx'[c].second = ctx[c].second
        /\ \A d \in Contexts \ {c} : ctx'[d] = ctx[d]
    BY <1>1, <1>3 DEF Context, TypeOK
  <2>3. PoolInUse(c)'
    BY <1>1, <1>3, <2>1, <2>2 DEF PoolInUse, Publishing
  <2> QED BY <1>3, <2>1, <2>2, <2>3 DEF ListStepOf
<1>4. ASSUME NewLoad(c) PROVE ListStepOf(c)
  BY <1>3, <1>4 DEF NewLoad, At, Publishing
<1>5. ASSUME NewCas(c), ~HeadMatches(c) PROVE ListStepOf(c)
  BY <1>3, <1>5 DEF NewCas, At, Publishing
<1>6. ASSUME NewCas(c), HeadMatches(c) PROVE ListStepOf(c)
  <2>1. /\ Publishing(c) /\ pools_head' = ctx[c].pool
        /\ UNCHANGED <<next, blk_size>>
        /\ ctx' = [ctx EXCEPT ![c].pc = "count_read"]
    BY <1>6 DEF NewCas, At, Publishing
  <2>2. ListKept /\ ListedPools' = {ctx[c].pool} \cup ListedPools
    BY <1>6, <2>1, PushKept
  <2>3. /\ ctx'[c].pc = "count_read" /\ ctx'[c].pool = ctx[c].pool
        /\ ctx'[c].len = ctx[c].len /\ ctx'[c].second = ctx[c].second
        /\ \A d \in Contexts \ {c} : ctx'[d] = ctx[d]
    BY <1>1, <2>1 DEF Context, TypeOK
  <2>4. ctx[c].pool \in Pools
    BY <2>1 DEF PoolChosen, Publishing
  <2>5. PoolInUse(c)'
    BY <1>1, <2>1, <2>2, <2>3, <2>4, NullAssumption DEF PoolInUse, Publishing
  <2> QED BY <2>1, <2>2, <2>3, <2>5 DEF ListStepOf, Publishing
<1> QED BY <1>2, <1>4, <1>5, <1>6

(* What Next makes of the list. *)
LEMMA ListSteps ==
  ASSUME IInv, ListInv, [Next]_vars
  PROVE  UNCHANGED vars \/ \E c \in Contexts : ListStepOf(c)
<1>1. ASSUME NEW c \in Contexts,
             \/ \E len \in Lengths : Construct(c, len)
             \/ Destroy(c)
             \/ Step(c)
      PROVE  ListStepOf(c)
  BY <1>1, QuietListSteps, PushSteps DEF Step
<1> QED BY <1>1 DEF Next

-----------------------------------------------------------------------------
(* The list of pools is well formed in every reachable state: its pools    *)
(* have block lengths, a pool that is not pushed yet is private to its     *)
(* context, and a release has its pool ahead of it.                        *)
THEOREM ListInvariance == Spec => []ListInv
<1>1. Init => ListInv
  <2> SUFFICES ASSUME Init PROVE ListInv
    OBVIOUS
  <2>1. ListedPools = {}
    BY ListNull, NullAssumption DEF Init, ListedPools
  <2> QED BY <2>1 DEF Init, ListInv, PoolInUse, Publishing, NoContext
<1>2. IInv /\ IInv' /\ ListInv /\ [Next]_vars => ListInv'
  <2> SUFFICES ASSUME IInv, IInv', ListInv, [Next]_vars PROVE ListInv'
    OBVIOUS
  <2>1. CASE UNCHANGED vars
    BY <2>1 DEF vars, ListInv, PoolInUse, Publishing, ListedPools
  <2>2. ASSUME NEW c \in Contexts, ListStepOf(c) PROVE ListInv'
    <3>1. TypeOK'
      BY DEF IInv
    <3> QED BY <2>2, <3>1, ListStep DEF ListStepOf
  <2> QED BY <2>1, <2>2, ListSteps
<1> QED BY Invariance, <1>1, <1>2, PTL DEF Spec

(* None of the asserts of reserve and release fails, for any number of     *)
(* threads: the second attempt of reserve finds a pool, pools_release      *)
(* comes to the pool of its block before the end of the list, and the bit  *)
(* that release_impl clears is set.                                        *)
THEOREM AssertsNeverFail == Spec => []AssertsHold
<1>1. IInv /\ ListInv => AssertsHold
  <2> SUFFICES ASSUME IInv, ListInv, NEW c \in Contexts
               PROVE  /\ At(c, "load_head") /\ ctx[c].second => pools_head # NULL
                      /\ At(c, "release_pool") => ctx[c].p # NULL
                      /\ At(c, "release_assert") => ctx[c].block \in bitmap[ctx[c].pool]
    BY DEF AssertsHold
  <2>1. ListedPools \subseteq Pools
    BY DEF ListedPools, ListFrom
  <2>2. ctx[c].second => pools_head # NULL
    BY DEF ListInv, PoolInUse
  <2>3. At(c, "release_pool") => ctx[c].p # NULL
    BY <2>1, NullAssumption DEF ListInv, PoolInUse, At
  <2>4. At(c, "release_assert") => ctx[c].block \in bitmap[ctx[c].pool]
    BY DEF IInv, OwnedIsReserved, Holds, At
  <2> QED BY <2>2, <2>3, <2>4
<1> QED BY Invariance, ListInvariance, <1>1, PTL

(* The set of pools only grows, also when several threads push a pool at   *)
(* once: no step takes a pool off the list that snapshots walk.            *)
THEOREM PoolsOnlyGrow == Spec => PoolsGrow
<1>1. IInv /\ ListInv /\ [Next]_vars => [ListedPools \subseteq ListedPools']_vars
  BY ListSteps DEF ListStepOf, ListKept
<1> QED BY Invariance, ListInvariance, <1>1, PTL DEF Spec, PoolsGrow

============================================================================
