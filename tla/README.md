# A TLA+ model of SplitOrderedLists

This directory verifies the C++ code of the repository: a resizable hash table
built as one split-ordered linked list (`solist.hpp`, after Shalev and Shavit)
and a hazard pointer library (`hazard_pointer.hpp`, `hazard_pointer.cpp`, after
Michael) that the list is meant to use and does not use yet. TLC checks the
modules on small instances; TLAPS proves the central facts for instances of any size:
that the list is a linearizable set as long as certain operations do not overlap others,
that hazard pointers protect, that pools hand out each block once, that `castest` loses no
push, and that the bits are reversed.

Line numbers refer to the files under `src/`.

## 1. The system

| Component | State | Operations | Hard part |
|---|---|---|---|
| `solist<T>`, `solist_accessor<T>` (`solist.hpp`) | bucket array, `n_buckets`, `n_items`, one linked list of bucket nodes (even keys) and data nodes (odd keys) ordered by bit-reversed hash; per accessor `prev`, `cur`, `next`, `steps` | `insert_node`, `delete_node`, `find_item_node`, `initialise_bucket`; internal `find_node`, `get_parent`, `expand` | threads interleave at every load and CAS; buckets are initialised lazily by whoever needs them; the table grows under running calls |
| `mark_ptr_type<T>` (`mark_ptr_type.hpp`) | a word with a pointer and a mark bit | `()`, `=`, `CAS` | the comparison includes the mark |
| bit reversal (`solist.cpp`) | none | `brev_knuth`, `brev_classic`, `reverse_hasht_bits` | masks, rotation, additions that must not carry |
| pools of `hazptr_domain` (`hazard_pointer.*`) | list of `hazptr_pool`, a bitmap per pool, `hp_count` | `reserve`, `release` (from the constructor and destructor of a `hazard_pointer_context`) | CAS loops on bitmaps and on the head of the list, full pools, pools of another block length |
| delete list of `hazptr_domain` | `delete_head`, `delete_count` | `enqueue_for_delete`, `push_delete_node`, `collect`, `collect_if_required` | concurrent collects, return of entries, a count that is only approximately right |
| contexts and reclamation | hazard slots, `deleted[R]`, `del_index` | `store`, `delete_item`, `reclaim`, snapshots | a snapshot is not atomic; a context is destroyed with pending deletes |
| `castest` (`castest.cpp`) | a list of marked links, a `Rendezvous` per test, the threads' nodes | `test_0`, `test_1`, `main` | many threads push at one head; main and threads wait for each other |
| `solist_dbg.hpp`, `test1`, `test_expansion`, `hptest`, build | - | printing and single-threaded tests | - |

How they interact: an accessor holds a `shared_ptr` to its `solist`; accessors
of different threads share nothing else, and communicate through the bucket
array, the `next` words and the counters. The list calls the bit reversal for
every key and the marked pointer for every access to a link. Contexts share the
pools and the delete list of their domain. The list does not call the hazard
pointer library: the repository's README says so ("hazard pointers have not been
implemented (yet)"), and also that the list has been tested by one thread only.

What makes each correct: the list is a linearizable set, whatever the history of
expansions and bucket splits; it stays in split order; a published bucket is the
bucket of its slot and is in the list; nothing leaks; calls return. The bit
reversal reverses bits. A pool gives a block to one context at a time, its bitmap
is exactly what is owned, and pools never drop out of the list. A deleted object is
freed once, never while a hazard slot that was validated points at it, and at the
latest when the domain is destroyed; no entry of the delete list is lost on the way.
`castest` loses no push, main checks a list that nobody changes any more, and the
program ends.

`PROJECT.json` lists the hazards line by line.

## 2. The modules

| Module | Models | Remarks |
|---|---|---|
| `MarkPtr` | `mark_ptr_type` | A word is a record of pointer and mark. `CASMatches` compares the whole word: `expected` is unmarked, so a CAS on a marked word fails. |
| `SoList` | `solist`, `solist_accessor` | One action per step of a call; see below. |
| `HashSet` | - | The abstract specification: a set with atomic insert, delete and find between call and return. |
| `SoListRefinement` | - | The mapping from the list to `HashSet` and the property `ImplementsSet`. |
| `MCSoList` | - | The bit reversal at a small width, symmetry. |
| `BitReverse`, `MCBitReverse` | `solist.cpp` | A 32-bit word is the set of positions of its ones, because TLC's integers are 32 bits and signed. |
| `HazptrPools`, `MCHazptrPools` | pools of `hazptr_domain` | One action per access to shared memory. |
| `HazptrReclaim`, `MCHazptrReclaim` | hazard slots, snapshots, contexts, delete list, destructors | One action per access to shared memory; clients on several threads. |
| `Snapshot` | the array of `hazptrs_snapshot` | Sorting, masking and the binary search, on addresses as numbers; see `HazptrReclaim`. |
| `SafeReclamation` | - | The abstract specification: an object is freed at most once, only after it was retired, and never while a context guards it. |
| `CasTest` | `castest.cpp` | Threads, rendezvous and main; uses `MarkPtr`. |
| `Lists` | the `next` links of pools, delete nodes and `castest` nodes | The nodes that a walk meets, as the least set closed under `next`. |
| `ListLemmas` | - | Induction and recursion over the natural numbers, by sets and functions; what pushing and popping and setting a link elsewhere do to a linked list. |
| `ReclaimLemmas` | - | What unlinking and taking over do to the delete lists, what the compaction loop of `reclaim` computes, and what the search of a snapshot finds. |
| `SoListProofs`, `SoListSetProofs` | - | The theorems about the list: its nodes, under all interleavings; its order and its meaning as a set. |
| `HazptrPoolsProofs`, `HazptrReclaimProofs`, `CasTestProofs`, `BitReverseProofs` | - | The theorems about the other components; see section 4. |

In the modules an operator whose comment describes an error ("the missing
delete", "the outcome of the compare and exchange ignored") is a deliberately
wrong version of the definition that follows it. It is used by no action; it is
there to confirm that the properties notice that error.

### SoList

State: `n_buckets`, `buckets`, `n_items` are the fields of `solist`. `link` is the
`next` word of every allocated node; its domain `live` is the set of allocated
nodes. A node is named by its immutable fields (`kind`, `hashv`) and a copy
number, since several threads may each allocate a node for one hash value.
`acc[t]` has the members of thread t's accessor and the locals of its call, `pc`
says where in the call it is. Payloads are left out: no control depends on them.

| Code | Actions |
|---|---|
| `find_node` (398-429) | `FindStart`, `FindHead`, `FindAdvance`, and the test `Found` in the actions of its three callers |
| `find_item_node` (554-565) | `FindItem` |
| `insert_node` (437-519) | `InsertNew`, `InsertFound`, `InsertNotFound`, `InsertLink`, `InsertCount`, `ScanHead`, `ScanAdvance`, `ScanDone`, `Overflow` |
| `expand` (174-201) | `ExpandCopy`, `ExpandSwap`, `ExpandSize` |
| `delete_node` (521-550) | `DeleteNotFound`, `DeleteFound`, `DeleteMark`, `DeleteUnlink`, `DeleteCount`, `DeleteReclaim` |
| `initialise_bucket` (341-395) | `InitEnter`, `InitTest`, `InitCas`, `InitFinish`, `InitCheck`, `InitOwn`, `InitOther`, `InitDiscard`, `InitAssert` |
| `get_parent` (308-338) | `GetParent`, `Probe`, `ParentHead`, `ParentAdvance` |

Choices a reader should know:

- *Faults.* The Makefile builds with assertions and AddressSanitizer. A failed
  assert and a dereference of a freed or null node abort the process: `Fault`
  says whether the next step of a thread would do either, and `Abort` records it
  in `fault`, after which nothing happens. Runs with concurrent deletes or lazy
  initialisation check their properties up to that point.
- *Memory.* The sanitizer quarantines freed memory, so an address is not reused
  while something still refers to it (`Referenced`). Recycling of addresses (ABA)
  is therefore not in the model.
- *Atomicity.* A step accesses one shared `next` word. `InitTest` writes the
  `next` of a node that is still private. `expand`, which the source declares not
  thread safe, is three steps: the copy of the slots, the swap of the arrays, the
  assignment of `n_buckets`. Between the last two other threads use the new array
  with the old size; a slot they publish after the copy is lost. An index past the
  end of the present array is a memory fault (`SlotsUsed`). The copy loop itself, and
  an access to the old array that is under way when it is freed, are not split.
- *Memory order.* Steps are sequentially consistent.
- The destructor walks the list from bucket 0; `NoLeak` says that this walk meets
  every allocated node.
- Widths: `HashBits` stands for 32; keys, `n_items` and the doubled size of `expand` wrap
  modulo `2^HashBits`. A size that wraps to 0 leaves an array without slots; the copy
  into it is a memory fault.

### HazptrPools

A context goes through the constructor (`Construct` .. `ReserveCas`), is held,
and is destroyed (`Destroy` .. `ReleaseCas`). `bitmap[p]` is the set of reserved
blocks. `hp_count += ...` is a read and a write, as the code is compiled. The
range test of `release_impl`, which finds the pool a block belongs to, is the
comparison `p = pool`. The contents of the hazard slots are not part of this module,
nor is what the destructor of a context does to the delete list.

### HazptrReclaim

State: `hp` are the hazard slots of the domain (marked words), `delete_head`, `next`
and `delete_count` the delete list, `hp_count` the threshold of a collect, `ctx[c]` the context of one thread with
`deleted`, `del_index` and the locals of the call in progress. A delete node is named
by its payload. `cell` is one link of some lock-free container; `obj` says of every
object whether it is free, live (in the container) or retired (passed to
`delete_item` and not yet freed). `valid` are the slots whose pointer the client has
seen again in the cell after the store: what it may dereference.

| Code | Actions |
|---|---|
| the clients of the library | `Load`, `Store`, `Validate` (the protocol of hazard pointers), `Move` and `Clear` (`at`, `store`), `Exchange` (replaces the object in the cell and deletes the old one) |
| `hazard_pointer_context` (hpp 561-701) | `Construct`, `DeleteItem`, `Reclaim` with `Compact`, `Destroy` |
| `hazptrs_snapshot` (cpp 56-82, 182-237) | `Scan`, one slot per step; the mark bits are masked off |
| `enqueue_for_delete`, `push_delete_node` (cpp 332-387) | `Enqueue`, `PushLoad`, `PushCas`, `PushCount` |
| `pools_new` (cpp 246-261), seen from the delete list | `AddPool`: `hp_count` moves while other threads delete and collect |
| `collect_if_required` (cpp 389-411) | `Check`, `ReadDc`, `CountCas` |
| `collect` (cpp 418-470) | `Collect`, `Scan`, `Sweep`, `PushBack` |
| `release`, destructors (hpp 458-503, 594-606) | `Release`, `Enqueue` .. `Collect`, `DestroyDomain` |

Choices: a snapshot is the set of the pointers that were read. The code sorts the words
with their marks on (cpp 211), masks them afterwards (230-236) and searches by halving
(hpp 207); module `Snapshot` has that array, and `SearchIsMembership` (section 4) shows
that its search answers membership in the set. `AddPool` stands for the constructor of any
context of the domain that found no pool (cpp 352) and adds the size of its pool late:
several of these may race and the addition is a read and a write, so `hp_count` may take
any value of `HpCounts`. `Reclaim` and each step of `Sweep` compare with a private snapshot and write
private memory, so freeing several objects is one step. The blocks of the contexts are
disjoint constants, as the theorems about `HazptrPools` allow. A client moves a
pointer to a slot with a higher index, the order in which a snapshot reads; the other
direction can be missed by a snapshot, and the mutant that reads the slots from the
end shows it (`ReadAtReversed`). Memory is sequentially consistent: the stores of
`hazard_pointer` are releases (hpp 254), so the results are for clients with a full
fence before the second read. The destructor of a context starts with the block and then goes
through `enqueue_for_delete` and `collect` like any other call. The domain is destroyed
when no context exists. `ReclaimCall` and `ReclaimNull` model a client that calls the
public `reclaim()` itself; they belong to `SpecReclaim`, not to `Spec`.

Under `ImplementsReclamation` a context guards what its validated slots point to:
`Validate` is `Guard` or a stutter, `Store`, `Clear` and `Release` are `Unguard`,
`Reclaim`, `Sweep` and `DestroyDomain` are `Free`, everything else stutters.

### CasTest

`head` and `next` are the links, `rendezvous[i]` the counters of test i, `thread` and
`main` the control states. Each access to a counter, to `go` or to the head of the list
is a step. A node that is in the list is not written again, so that a walk (`Scan`,
`Check`) is fixed by its read of the head and is one step. The waits are guards: a thread
that polls does nothing else.

## 3. The runs

| Run | Instance | Shows |
|---|---|---|
| `solist_seq` | 1 accessor, all operations, 2 buckets, `max_bucket_length` 2, hashes 0, 1, 5, 9, 13, 5-bit keys | sequential correctness: refinement of the set, findability across two expansions and all bucket splits, exact counts, no leak, every call returns |
| `solist_insert` | 2 accessors, insert and find in one bucket, 3 hashes | linearizability, no fault, no leak, termination of concurrent inserts and finds |
| `solist_delete` | 2 accessors, insert and delete in one bucket, 2 hashes | split order, frozen marked nodes, exact count at rest |
| `solist_grow` | 2 accessors, 2 buckets of which one is not initialised, `max_bucket_length` 1, so that inserts race to initialise buckets and to expand the table | no duplicate key or bucket node, findability, private new nodes, and no replaced slot under concurrent initialisation and step-by-step expansion |
| `bitreverse` | all words with at most 3 ones or at most 3 zeros | both algorithms reverse bits |
| `pools_safety` | 3 contexts, pools of 2 blocks, 2 lengths, 3 pools | exclusive blocks, exact bitmaps, asserts, growing list of pools |
| `reclaim` | 2 contexts (1 slot, no array; 2 slots, array of 2), 3 objects, 4 changes of the cell, marked and unmarked pointers, a threshold that moves from 0 to 2 at any time | `SafeAccess`, `Accounted`, `DeletedExact`, `NotForgotten`, `CollectKept`, `DomainClean`, refinement of `SafeReclamation` |
| `castest` | 3 threads of 2 nodes, 2 tests | no lost push, order of each thread's nodes, complete list at the check, termination |

Bounds. Two threads suffice for the races of the list: each is between one
thread's read and its CAS and one other thread's call. `Copies` is the number of
accessors plus one, the most nodes of one hash value that can exist at once (one in
the list and one in the hands of each accessor); with one accessor two are
enough. `Pools` is the number of contexts, each of which creates at most one pool.
The words with at most three ones are enough to meet every pair of bits that an
addition of `brev_knuth` could make carry into a third; the complements exercise
the full words. `solist_seq` uses hash values that collide in
one bucket of length 2, so that tables of 2, 4 and 8 buckets occur and an
overflowing bucket is split as well as found to have no second half yet; in `solist_grow`
it grows from 2 to 4 buckets under both threads.

`reclaim`: the four changes of the cell (emptying it counts for two, `Changes`) fill the
array of two and go on after it was reclaimed, send deletes through the domain and leave
deletes pending when a context is destroyed; three objects are one in the cell and two
retired, and addresses are reused. A context is constructed once. `hp_count` starts at 0, the
value a second thread sees between the push of the first pool and the update of the
counter (`hazard_pointer.cpp:258-260`), and is raised by `AddPool` (`HpCounts`) to 2 instead of
32 times the block length, so that pushes and push-backs meet the threshold before and after.
A result of the exchange that is overwritten (393-407) needs three retired objects: with
`Exchanges` = 5 the instance has them, 1.8 million states, and the same properties
hold; for the run the case is left to the theorem `CollectIsKept`.
The compaction of `deleted` is in addition checked for all arrays of up to five entries over
three objects (`CompactionAssumption` in `MCHazptrReclaim`), the search of a snapshot for
all arrays of up to three words (`SearchAssumption`). `castest`: three
threads, so that one may still push when another scans and a third has not started.

Fairness. A thread that is inside a call keeps running (weak fairness of its next
step); nobody has to make a call, and a context may be kept for ever. This is what a
preemptive scheduler gives. In `castest` every thread and main keep running: the waits
are polls with `yield` or `sleep`. A push can fail only because another
one succeeded, so that this suffices for termination. No fairness is assumed between outcomes of a CAS. Every
`CHECK_DEADLOCK FALSE` belongs to a run in which the process may abort.

Runs that find a violation, each of something the repository says:

| Run | Property | What happens |
|---|---|---|
| `solist_bucket_freed` | `BucketsIndexed` | Thread 1 links its bucket node; thread 2 finds it in the list and publishes it; thread 1 sees the slot set and deletes its node (390), which is the published one. |
| `solist_delete_stuck` | `LockFree` | The mark is set, the unlinking CAS (539) fails; afterwards the marking CAS (533) can never succeed and the delete loops for ever. |
| `pools_full` | `LockFree` | `pools_reserve` never advances `p` (276): a full pool at the head is tried for ever and no pool is added. |
| `reclaim_early` | `ReclaimsDeleted` | `reclaim()` is public; called with an array that is not full it passes the unused entries, which are null and in no snapshot, to `reclaim_object` (643-648), and decrements `del_index` for each. |

### Observations

Reachable in the model, without a run of their own:

- Concurrent deletes touch freed memory. The repository announces it.
- After thread 1 linked its bucket node, thread 2 links another bucket between
  `cur` and it; thread 1 concludes that it lost a race (`solist.hpp:370`) and the assert
  at 383 fails (constants of `solist_grow`, but `Size` 4 and hash values 1, 2, 3).
- `slot + nbuckets` (499) adds a slot of the present table to the size at the start of
  the call; after an expansion by another thread the assert at 343 fails (in
  `solist_grow`, which goes up to such aborts).
- `expand` with three inserts (`Size` 1, hash values 1, 2, 3): an expansion that is
  overtaken by two others puts the smaller array and size back. `get_parent` then steps
  down with the wrong `key_step`, wraps below zero and starts behind the key it
  looks for; the bucket is linked out of order and `Ascending` fails. The source says
  "expand is not thread safe!!!" (173). `solist_grow` has two inserts and two
  expansions, for which the order holds.
- One of two concurrent updates of `hp_count` is lost (`hazard_pointer.cpp:260`,
  `CountRead` and `CountWrite`), and the threshold of `collect_if_required` stays too low.
- A collect can be left to nobody when a pool is added meanwhile. Context A clears
  `delete_count` and has `do_collect` TRUE; pushes bring the counter above `hp_count`, so A
  goes round the loop again (393-407) and reads `dc`; one more push makes its exchange fail,
  which overwrites `do_collect` with FALSE; now the late `hp_count +=` of a constructor
  (260) raises the threshold to the counter. Everybody leaves the loop, and the list is longer than
  `delete_count` says (with `Exchanges` = 5: three nodes, the counter at 2). Its nodes are
  not lost: they are freed when the counter passes the new threshold, when a context is
  destroyed, or with the domain (`Accounted`, `DomainClean`). Hence `CollectKept` is about steps that
  leave `hp_count` alone, and `NotForgotten` says what holds in spite of such a pool.
- `push_delete_node` is called "lock free and wait free" (`hazard_pointer.cpp:331`).
  Its loop is lock free only: a thread can lose the CAS to others without bound.

## 4. The proofs

Every theorem holds for all values of the constants that satisfy the named assumptions
of its module. Each proof has the same shape: an inductive invariant, `Invariance` from
one lemma per action, and the theorems as its consequences.

### Pools (`HazptrPoolsProofs`)

For any sets of contexts, lengths and pools and any positive number of blocks
(`BlocksAssumption`, `LengthsAssumption`, `NullAssumption`):

| Theorem | Statement |
|---|---|
| `TypeCorrectness` | `Spec => []TypeOK` |
| `ExclusiveBlocks` | `Spec => []BlockExclusive` |
| `ExactBitmaps` | `Spec => []BitmapExact` |
| `AssertsNeverFail` | `Spec => []AssertsHold` |
| `PoolsOnlyGrow` | `Spec => PoolsGrow` |

`BlockExclusive` is not inductive: that the CAS of `reserve_impl` takes a free block
needs to know that blocks that are owned have their bit set, that the bit index computed
from the expected bitmap exists, and that the pool is known at that point. `IInv` adds
`PoolChosen` (from the load of the bitmap on, the context has a pool), `NotFull` (the value
that `ReserveCas` expects has a clear bit), `OwnedIsReserved` and `ReservedIsOwned`; the
last two together are `BitmapExact`. Every step is one of three kinds (`StepKinds`): it
leaves bitmaps and ownership alone (`QuietSteps`), it is a successful CAS that sets the
lowest clear bit and acquires that block (`ReserveAcquires`, `FreeBlockIsFree`), or a
successful CAS that clears the bit of a block its context owns (`ReleaseReleases`:
toggling is clearing, because the owned bit is set).

For the asserts and the list of pools a second invariant, `ListInv` (`ListInvariance`),
is needed: a pool is on the list once it has been pushed and on nobody's hands before,
two contexts never push the same pool, and the pool that `pools_release` looks for lies
ahead of the walk. Each step keeps the list or puts the pool of its context in front
(`ListSteps`), from which both theorems follow.

### Reclamation (`HazptrReclaimProofs`)

For any number of contexts with any numbers of hazard pointers and array lengths, any
finite set of objects and any number of exchanges (`SizesAssumption`, `ClientsAssumption`,
`ObjectsAssumption`, and `BlocksAssumption`, which is what `ExclusiveBlocks` provides):

| Theorem | Statement |
|---|---|
| `TypeCorrectness` | `Spec => []TypeOK` |
| `HazardPointersProtect` | `Spec => []SafeAccess` |
| `EveryDeleteAccounted` | `Spec => []Accounted` |
| `ArrayStaysExact` | `Spec => []DeletedExact` |
| `CollectIsKept` | `Spec => CollectKept` |
| `ClearedIsNotForgotten` | `Spec => []NotForgotten` |
| `DestroyedDomainIsClean` | `Spec => []DomainClean` |
| `Implementation` | `Spec => ImplementsReclamation` |

The parts of the inductive invariant:

- `ControlOK`: what the locals hold at each point of a call, and how much of `deleted` is
  in use there;
- `SlotsOK`: the slots of contexts that do not exist, or whose destructor has passed
  them, are null;
- `CellLive`, `ValidGuards`: the object in the cell is live, a validated pointer is to an
  object that has not been freed;
- `Covered`, the heart of `SafeAccess`: a validated pointer to an object that a context is
  about to free (`Doomed`) is in that context's snapshot, or in a slot its scan has still
  to read. Nobody validates a pointer to such an object later, because a doomed object
  is retired and the object in the cell is live; a client that moves a pointer does so in
  the direction of the scan;
- `OnePlace`: the arrays, the objects in flight, the local lists of collects and the delete
  list are disjoint (`Apart`) and together are the retired objects (`Complete`);
- `ListsOK`: no list runs into itself, and the node a sweep kept last is on its list;
- `CountZero`: when `delete_count` is 0, the delete list is no longer than the pushes not
  yet counted, or some context is bound to collect it (`Responsible`). With any other count this
  (`CountOK`) is not an invariant, because a new pool may raise `hp_count`; each
  action is shown to keep it as long as none does (`CountStep`), which is `CollectKept`;
- `DestroyedLast`: the domain outlives its contexts.

Steps are grouped by what they disturb: `QuietStep` (only the locals of a context),
`HazardStep` (a slot or the set of validated slots), `MoveStep` (an object changes its
place), `LinkStep` (a link of a node in flight). The remaining ones, `Sweep`, `Reclaim`,
`Collect` and `PushCas`, are proved on their own with the lemmas about lists.
`Reclaim` needs what the compaction loop leaves behind: its two searches and its steps
are functions iterated a bounded number of times, and `CompactedExact` shows by
induction (`SetInduction`) that the used entries end up in front, none lost or doubled. The
library states induction with an operator parameter; `ListLemmas` states it with a
set in its place, which the provers can instantiate.

`SearchIsMembership` (in `ReclaimLemmas`), for an array of any length and any even, distinct addresses:
the search of the sorted and then masked array finds an object if and only if a word that
was read points to it. Masking keeps the array in order, because `2 * (v \div 2)` is
monotonic, and the position that the halving reaches splits the array into what is below
the value and what is not.

The refinement maps each step to a step of `SafeReclamation` or to a stutter, as section 2
lists; that `Free` is allowed there is `Covered`, that `Guard` is allowed is `CellLive`.

### The nodes of the list (`SoListProofs`)

For any number of accessors, any table, any width and any bit reversal that is an
involution and fixes 0, with all operations, expansions and lazy initialisations
(`SizeAssumption`, `HashAssumption`, `OpsAssumption`, `NullAssumption`):

| Theorem | Statement |
|---|---|
| `TypeCorrectness` | `Spec => []TypeOK` |
| `NodesPrivate` | `Spec => []PrivateNodes` |
| `MarkFreezes` | `Spec => MarkedFrozen` |

`PrivateNodes` says that nobody else has a reference to a node before the CAS of its
owner links it; it is what makes the plain stores to its `next` (356, 450) and the
`delete` of a refused insert (461) harmless. It is inductive together with `Locals` (which node a call works on at each
point), `BucketNodes` (bucket nodes have even keys and are never marked: `delete_node` marks
odd keys only), `OwnedNodes` (a node in the hands of an accessor is allocated and in nobody
else's hands) and `NewNodesUnmarked`. Every action of an accessor has the same kind of effect (`Effect`): one
accessor changes; whatever becomes visible was visible before or is a node that this step
links; nodes appear by `new` and go by `delete` of an owned or visible node; a marked
word keeps its value. `StepEffect` shows this for each action, `EffectInvariant` concludes the
invariant from it once and for all, and `MarkedFrozen` is one of its parts.

### The list as a set (`SoListSetProofs`)

Order, slots, faults, counts and linearizability do not hold for every interleaving: the
runs that find a violation and the observations of section 3 show which overlaps break
them. The theorems state the discipline under which they hold, as a hypothesis `[]Calm`
on the behaviour:

- a delete, the steps that initialise a bucket (from `get_parent` on) and the last two
  steps of `expand` run while all other accessors are idle. A client has this
  if it makes deletes, and the calls that may split a bucket or expand the table, under an
  exclusive lock and all other calls under a shared one;
- no expansion makes the size of the table wrap (the doubled size of `expand` is a 32-bit
  word).

Any number of inserts and searches overlap freely, with each other and with the check
for an overflowing bucket; in between, anybody may delete, split and expand. With a single
accessor the first condition is no restriction at all (`OneThread`).
Two conditions on the constants are hypotheses, not assumptions, since the code runs
without them: `PowerOfTwoSize` (the initial number of buckets divides the number of hash
values; otherwise `get_parent` probes slots of other buckets, 319) and, where the theorem
says so, `EvenHashes` (no hash value of a client has an odd reversal; one that has aborts
in `sol_bucket_key`, 52, and shares its data key with another).

| Theorem | Hypotheses besides `[]Calm` | Statement |
|---|---|---|
| `ListInvariance` | `PowerOfTwoSize` | `[]ListInv`, the inductive invariant |
| `SplitOrder` | `PowerOfTwoSize` | `[]Ascending` |
| `SlotsLeadIntoList` | `PowerOfTwoSize` | `[]BucketsIndexed` |
| `FoundFromItsBucket` | `PowerOfTwoSize` | `[]ItemsFindable` |
| `NothingLeaks` | `PowerOfTwoSize` | `[]NoLeak` |
| `NoAbort` | `PowerOfTwoSize`, `EvenHashes` | `[]NoFault` |
| `SlotsStay` | `PowerOfTwoSize` | `SlotStable` |
| `ItemsCounted` | `PowerOfTwoSize` | `[]CountExact` |
| `Linearizable` | `PowerOfTwoSize`, `EvenHashes` | `ImplementsSet` |
| `OneThreadSet` | one accessor, `PowerOfTwoSize`, `EvenHashes`; instead of `[]Calm` only that no expansion wraps | `ImplementsSet` and `[]NoFault` |

About the bit reversal the proofs use `HashAssumption` and `ReverseAssumption`: for a table
of n buckets, n a divisor of the number of hash values, the bucket keys are the multiples
of `Modulus / n`, and the bucket of a hash value has the largest key not beyond the
reversed value. TLC evaluates both for the reversal of the runs. That
the C++ code reverses bits in the first place is what `BitReverseProofs` shows.

`ListInv` is inductive together with the invariant of `SoListProofs`:

- `SplitOrdered(Listed, link)`: the links lead through the nodes of the list (allocated and in
  nobody's hands) in the strict order of their keys and skip none. `Ascending` alone is
  not inductive: an insert also has to know that no node lies between the two it found;
- `Slots`: slot 0 holds the head, a published slot its own bucket node, and a bucket node of
  the list is published or about to be;
- `Table`: the size divides `Modulus`, and the array has that size except between the last
  two steps of an expansion;
- `DataNodes`, and for each call `Facts`: what it knows of the list at each point. A search has
  reached a node of the list at or before its key (`Reached`); an insert and a split
  have found a place (`Place`) that the CAS confirms, since a link that still is what was
  read has had no node put behind it; `get_parent` is at a multiple of `key_step`
  (`Probing`), so it meets slot 0 at the latest.

`OrderInsert` and `OrderDelete` say what linking and unlinking do to a split-ordered set,
`ReachableListed` that a walk from slot 0 meets exactly the nodes of the list. From `ListInv` the
invariants follow as they stand; `NoAbort` goes through every disjunct of `Fault`.

`Linearizable` uses the mapping of `SoListRefinement`. An insert takes effect with its
successful CAS, a delete with the CAS that unlinks, and a search, or an insert or
delete that fails, with the read of the `next` pointer that spans its key (`Settling`);
each such step is a step of `HashSet`, every other step of a call stutters or
is its call or its return (one lemma for each group of actions, `FindStepSet` ..
`InitCallSet`).

`ItemsCounted` needs `CountInv`: `n_items` plus the inserts that have still to count is, modulo
`2^HashBits`, the number of data nodes plus the deletes that have still to count.

### Bit reversal (`BitReverseProofs`)

| Theorem | Statement |
|---|---|
| `AlgorithmsReverse` | for every 32-bit word both algorithms return the reversed word |
| `ReversesBitsHolds` | `Spec => []ReversesBits` |
| `ClassicAgreesHolds` | `Spec => []ClassicAgrees` |

The run goes through the words with few ones or zeros, the theorems cover all 2^32. Each operation moves bits:
`i` is in the result iff some other position is in the argument. An addition of words without
a common bit is their union (`AddDisjoint`, by induction over the carries), and the masks
see to it that no two summands have one.

### `castest` (`CasTestProofs`)

For any positive number of threads and nodes (`CountsAssumption`, `NullAssumption`):

| Theorem | Statement |
|---|---|
| `TypeCorrectness` | `Spec => []TypeOK` |
| `OwnNodesStayInOrder` | `Spec => []OwnNodesInOrder` |
| `MainChecksCompleteList` | `Spec => []CheckedWhenDone` |

`CountersExact` (each counter of a rendezvous is the number of threads that have been
through `ready`, are in their task, have completed) turns the comparison `complete_count() >=
num_threads` into a fact about every thread (`MainWaited`), and gives the ranges of the
counters. `OwnNodesInOrder` is inductive with `Places` (which pcs a test has): the link of a node
that is not in the list changes nothing (`ListUntouched`), and a CAS that succeeds finds
the head the link was loaded from, so that the new list is the node and the whole old
list (`ListPush`). `AllFound` adds that a thread past its scan has found all its nodes.

### Only model-checked

- All liveness: fairness and ENABLED are out of the prover's reach.
- Of the list, whatever is checked of overlaps that `Calm` excludes: the order and the count
  under concurrent deletes (`solist_delete`), `Ascending`, `ItemsFindable` and `SlotNotReplaced`
  while two threads split buckets and expand (`solist_grow`). They are not true for
  all constants: three overlapping expansions break the order (section 3), so the bounds
  of these runs are part of what they say.
- The facts about the reversal in `ReverseAssumption`, at the widths of the runs: `BitReverse` has
  words of 32 bits as sets of positions, `SoList` has numbers of any width.

## 5. Not modelled

Weak memory orders; reuse of addresses in the list; an access to a bucket array that is
freed while it is under way; the operations of `mark_ptr_type` that nothing calls;
construction and copying of accessors; the move constructors of contexts and snapshots
(ownership passes within one thread, before a second one sees the object); the
destructor of the list (`NoLeak` states what it needs) and the release of the pools by the
destructor of the domain (`BitmapExact` states what its assert needs); `solist_dbg.hpp`
(printing), `test1`, `test_expansion` and `hptest` (single-threaded clients whose kinds of
calls are among those of `solist_seq` and `reclaim`), and the build scripts.

## 6. Plan

Done: `MarkPtr`, `SoList` with `expand` step by step, `HashSet` and the refinement,
`BitReverse`, `HazptrPools`, `HazptrReclaim` with `SafeReclamation`, `CasTest`, and the
proofs of section 4. What is left:

1. Concurrent initialisation of buckets in a table that does not grow: the order of the list
   needs only that a place is confirmed by its CAS; `BucketsIndexed` fails there
   (`solist_bucket_freed`) until `initialise_bucket` is changed.
2. An abstract block allocator implemented by `HazptrPools` (from `StepKinds`).

Further modelling: a number of buckets that is not a power of two; a store buffer for
`hazard_pointer`.
