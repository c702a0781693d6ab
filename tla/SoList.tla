------------------------------- MODULE SoList -------------------------------
(***************************************************************************)
(* The split-ordered list of solist.hpp: solist<T> (bucket array, item     *)
(* counter) and solist_accessor<T> (find, insert, delete, lazy bucket      *)
(* initialisation, expansion), one accessor per thread.                    *)
(*                                                                         *)
(* A step makes at most one access to a next pointer that is shared.  The  *)
(* reads of the bucket array, n_buckets and n_items that go with it are    *)
(* part of the step: a slot is one word and the counts only select a       *)
(* slot or an expansion.  expand, which the source declares not thread     *)
(* safe, is three steps: the copy, the swap of the arrays, the new size.   *)
(* The build has assertions on and runs under AddressSanitizer (Makefile), *)
(* so a failed assert and an access to freed memory both abort the         *)
(* process; fault records which.                                           *)
(***************************************************************************)
EXTENDS Integers, FiniteSets, MarkPtr

CONSTANTS
  Accessors,           \* the accessors, each used by one thread
  HashBits,            \* width of hash_t, so_key and the counters (32)
  reverse_hasht_bits,  \* the bit reversal, a function on hash values
  Size,                \* the initial number of buckets
  max_bucket_length,
  Ops,                 \* the operations that clients call
  Hashes,              \* the hash values that clients use
  Copies,              \* bound: nodes allocated at once for one hash value
  NULL

Modulus == 2 ^ HashBits
HashValues == 0 .. Modulus - 1

(***************************************************************************)
(* A node is named by its immutable fields and the number of its copy: two *)
(* accessors may each allocate a node for one hash value.                  *)
(***************************************************************************)
Node == [kind : {"bucket", "node"}, hashv : HashValues, copy : 1 .. Copies]
Pointer == Node \cup {NULL}

ASSUME SizeAssumption ==
  /\ HashBits \in Nat \ {0}
  /\ Modulus \in Nat \ {0}
  /\ Size \in 1 .. Modulus - 1
  /\ max_bucket_length \in Nat
  /\ Copies \in Nat \ {0}

ASSUME HashAssumption ==
  /\ reverse_hasht_bits \in [HashValues -> HashValues]
  /\ \A h \in HashValues : reverse_hasht_bits[reverse_hasht_bits[h]] = h
  /\ reverse_hasht_bits[0] = 0
  /\ Hashes \subseteq HashValues

(* What the reversal makes of a table whose size n divides Modulus, a      *)
(* power of two: the buckets have the multiples of Modulus \div n as their *)
(* keys, and the bucket of a hash value has the largest that is not beyond *)
(* the reversed value.                                                     *)
ASSUME ReverseAssumption ==
  \A n, q \in 1 .. Modulus : n * q = Modulus =>
    /\ q > 1 => q % 2 = 0 /\ \A h \in 0 .. n - 1 : reverse_hasht_bits[h] % 2 = 0
    /\ \A h \in HashValues : reverse_hasht_bits[h % n] <= reverse_hasht_bits[h]
    /\ \A h \in HashValues :
         h < n <=> \E m \in 0 .. n - 1 : reverse_hasht_bits[h] = m * q
    /\ n > 1 => reverse_hasht_bits[n \div 2] = q

ASSUME OpsAssumption == Ops \subseteq {"insert", "delete", "find", "init"}

ASSUME NullAssumption == NULL \notin Node

(***************************************************************************)
(* Split-order keys.  Data nodes are odd (DATABIT), bucket nodes even.     *)
(***************************************************************************)
sol_node_key(hashv) ==
  LET r == reverse_hasht_bits[hashv] IN IF r % 2 = 1 THEN r ELSE r + 1

sol_bucket_key(hashv) == reverse_hasht_bits[hashv]

(* The assert in sol_bucket_key; the constructors of both node types call it. *)
BucketKeyAsserted(hashv) == sol_bucket_key(hashv) % 2 = 0

key(n) ==
  IF n.kind = "node" THEN sol_node_key(n.hashv) ELSE sol_bucket_key(n.hashv)

is_node(n) == key(n) % 2 = 1

VARIABLES
  n_buckets, buckets, n_items,  \* solist<T>
  link,                         \* the field next of every allocated node
  acc,                          \* the accessors, with the locals of their call
  fault                         \* "none", or why the process aborted

vars == <<n_buckets, buckets, n_items, link, acc, fault>>

(* The allocated nodes. *)
live == DOMAIN link

(* The arrays of buckets; NoArray has no slot. *)
IsArray(b) == \E size \in 0 .. Modulus : b \in [0 .. size - 1 -> Pointer]
NoArray == [s \in {} |-> NULL]

(***************************************************************************)
(* An accessor between two calls.  Its members prev, cur, next and steps   *)
(* are dead there: every operation assigns them before it reads them.      *)
(***************************************************************************)
IdleAccessor ==
  [pc |-> "idle", op |-> "none", hashv |-> 0, slot |-> 0, nbuckets |-> 0,
   prev |-> NULL, cur |-> NULL, next |-> NULL, steps |-> 0, dnode |-> NULL,
   bslot |-> 0, bnode |-> NULL, key_step |-> 0, pb_key |-> 0, ret |-> "none",
   new_buckets |-> NoArray]

Accessor(new_buckets) ==
  [pc : {"idle", "insert_new", "find", "find_head", "find_loop", "link",
         "count", "scan_head", "scan_loop", "overflow", "expand", "expand_swap",
         "expand_size", "mark", "unlink", "uncount", "reclaim", "init_enter", "get_parent",
         "probe", "parent_head", "parent_loop", "init_cas",
         "init_finish", "init_check", "init_own", "init_other", "init_discard",
         "init_assert"},
   op : {"none", "insert", "delete", "find", "init"},
   hashv : HashValues, slot : HashValues, nbuckets : Nat,
   prev : Pointer, cur : Pointer, next : Pointer, steps : Nat,
   dnode : Pointer, bslot : HashValues, bnode : Pointer, key_step : HashValues,
   pb_key : HashValues, ret : {"none", "find_head", "idle"},
   new_buckets : {new_buckets}]

TypeOK ==
  /\ n_buckets \in 1 .. Modulus - 1
  /\ IsArray(buckets)
  /\ n_items \in HashValues
  /\ live \subseteq Node
  /\ link \in [live -> WordOver(Pointer)]
  /\ acc = [t \in Accessors |-> acc[t]]
  /\ \A t \in Accessors : /\ IsArray(acc[t].new_buckets)
                          /\ acc[t] \in Accessor(acc[t].new_buckets)
  /\ fault \in {"none", "assert", "memory"}

Head == [kind |-> "bucket", hashv |-> 0, copy |-> 1]

(* solist(size): bucket 0 is allocated, the others are initialised lazily. *)
Init ==
  /\ n_buckets = Size
  /\ buckets = [s \in 0 .. Size - 1 |-> IF s = 0 THEN Head ELSE NULL]
  /\ n_items = 0
  /\ link = [n \in {Head} |-> Word(NULL, FALSE)]
  /\ acc = [t \in Accessors |-> IdleAccessor]
  /\ fault = "none"

-----------------------------------------------------------------------------
(***************************************************************************)
(* new and delete, external.  The sanitizer keeps freed memory in          *)
(* quarantine: an address is not handed out again while something still    *)
(* points at it.                                                           *)
(***************************************************************************)
Referenced(n) ==
  \/ \E s \in DOMAIN buckets : buckets[s] = n
  \/ \E m \in live : link[m].ptr = n
  \/ \E t \in Accessors :
       \/ n \in {acc[t].prev, acc[t].cur, acc[t].next}
       \/ \E s \in DOMAIN acc[t].new_buckets : acc[t].new_buckets[s] = n

Unused(kind, hashv) ==
  {c \in 1 .. Copies :
     LET n == [kind |-> kind, hashv |-> hashv, copy |-> c]
     IN  n \notin live /\ ~Referenced(n)}

NewNode(kind, hashv) ==
  [kind |-> kind, hashv |-> hashv,
   copy |-> CHOOSE c \in Unused(kind, hashv) :
              \A d \in Unused(kind, hashv) : c <= d]

Allocate(n) ==
  link' = [m \in live \cup {n} |-> IF m = n THEN Word(NULL, FALSE) ELSE link[m]]

Free(n) == link' = [m \in live \ {n} |-> link[m]]

(* Every return ends in the idle accessor. *)
Return(t) == acc' = [acc EXCEPT ![t] = IdleAccessor]

At(t, pc) == acc[t].pc = pc

(***************************************************************************)
(* advance(): it always returns true, so the callers' "try again" jumps    *)
(* are never taken.                                                        *)
(***************************************************************************)
Advanced(a) ==
  [a EXCEPT !.prev = a.cur, !.cur = a.next, !.next = get(link[a.next])]

(* prev = cur = head; next = cur->next(). *)
Positioned(a, head) ==
  [a EXCEPT !.prev = head, !.cur = head, !.next = get(link[head])]

-----------------------------------------------------------------------------
(***************************************************************************)
(* Calls.                                                                  *)
(***************************************************************************)
Call(t, op, h) ==
  /\ At(t, "idle")
  /\ op \in Ops \ {"init"}
  /\ acc' = [acc EXCEPT ![t].op = op, ![t].hashv = h,
                        ![t].pc = IF op = "insert" THEN "insert_new" ELSE "find"]
  /\ UNCHANGED <<n_buckets, buckets, n_items, link, fault>>

(* The public initialise_bucket(slot); its callers keep slot < n_buckets. *)
InitCall(t, s) ==
  /\ At(t, "idle")
  /\ "init" \in Ops
  /\ acc' = [acc EXCEPT ![t].op = "init", ![t].bslot = s, ![t].ret = "idle",
                        ![t].pc = "init_enter"]
  /\ UNCHANGED <<n_buckets, buckets, n_items, link, fault>>

-----------------------------------------------------------------------------
(***************************************************************************)
(* initialise_bucket(slot) and get_parent(slot, key).                      *)
(***************************************************************************)

(* Back to the caller: find_node, or the end of insert_node or of the call. *)
InitReturned(a) ==
  IF a.ret = "find_head"
  THEN [a EXCEPT !.pc = "find_head", !.bslot = 0, !.bnode = NULL,
                 !.key_step = 0, !.pb_key = 0, !.ret = "none"]
  ELSE IdleAccessor

InitEnter(t) ==
  LET s == acc[t].bslot IN
  /\ At(t, "init_enter")
  /\ \/ /\ buckets[s] # NULL
        /\ acc' = [acc EXCEPT ![t] = InitReturned(@)]
        /\ UNCHANGED link
     \/ /\ buckets[s] = NULL
        /\ Unused("bucket", s) # {}
        /\ Allocate(NewNode("bucket", s))
        /\ acc' = [acc EXCEPT ![t].bnode = NewNode("bucket", s),
                              ![t].pc = "get_parent"]
  /\ UNCHANGED <<n_buckets, buckets, n_items, fault>>

GetParent(t) ==
  /\ At(t, "get_parent")
  /\ acc' = [acc EXCEPT ![t].key_step = sol_bucket_key(n_buckets \div 2),
                        ![t].pb_key = key(acc[t].bnode),
                        ![t].pc = "probe"]
  /\ UNCHANGED <<n_buckets, buckets, n_items, link, fault>>

(* The missing decrement. *)
SameBucketKey(a) == a.pb_key

(* pb_key -= key_step, as unsigned arithmetic. *)
PreviousBucketKey(a) == (a.pb_key - a.key_step) % Modulus

(* One iteration of the search for an initialised bucket before the key. *)
Probe(t) ==
  LET pb_key == PreviousBucketKey(acc[t]) IN
  /\ At(t, "probe")
  /\ acc' = [acc EXCEPT ![t].pb_key = pb_key,
                        ![t].pc = IF \/ buckets[reverse_hasht_bits[pb_key]] # NULL
                                     \/ pb_key = 0
                                  THEN "parent_head" ELSE "probe"]
  /\ UNCHANGED <<n_buckets, buckets, n_items, link, fault>>

ParentHead(t) ==
  LET pb_slot == reverse_hasht_bits[acc[t].pb_key] IN
  /\ At(t, "parent_head")
  /\ acc' = [acc EXCEPT ![t] =
               [Positioned(@, buckets[pb_slot]) EXCEPT !.pc = "parent_loop"]]
  /\ UNCHANGED <<n_buckets, buckets, n_items, link, fault>>

(* An advance over all the data nodes, whatever their key. *)
BeforeEndOfBucket(a) == a.next # NULL /\ is_node(a.next)

BeforeBucket(a) == a.next # NULL /\ key(a.next) < key(a.bnode)

ParentAdvance(t) ==
  /\ At(t, "parent_loop")
  /\ BeforeBucket(acc[t])
  /\ acc' = [acc EXCEPT ![t] = Advanced(@)]
  /\ UNCHANGED <<n_buckets, buckets, n_items, link, fault>>

(* The missing test for the bucket node of another thread. *)
NoOtherInstance(a) == FALSE

(* "a.n.other thread successfully inserted its instance of the dummy node" *)
OtherInstance(a) == a.next # NULL /\ key(a.next) = key(a.bnode)

(* The loop condition of initialise_bucket up to its CAS. *)
InitTest(t) ==
  LET a == acc[t] IN
  /\ At(t, "parent_loop")
  /\ ~BeforeBucket(a)
  /\ link' = [link EXCEPT ![a.bnode] = assign(@, a.next)]
  /\ acc' = [acc EXCEPT ![t].pc =
               IF buckets[a.bslot] # NULL \/ OtherInstance(a)
               THEN "init_finish" ELSE "init_cas"]
  /\ UNCHANGED <<n_buckets, buckets, n_items, fault>>

InitCas(t) ==
  LET a == acc[t] IN
  /\ At(t, "init_cas")
  /\ link' = [link EXCEPT ![a.cur] = CAS(@, a.next, a.bnode, FALSE)]
  /\ acc' = [acc EXCEPT ![t].pc = IF CASMatches(link[a.cur], a.next)
                                  THEN "init_finish" ELSE "get_parent"]
  /\ UNCHANGED <<n_buckets, buckets, n_items, fault>>

InitFinish(t) ==
  LET a == acc[t] IN
  /\ At(t, "init_finish")
  /\ \/ /\ buckets[a.bslot] = NULL
        /\ acc' = [acc EXCEPT ![t].pc = "init_check"]
        /\ UNCHANGED link
     \/ /\ buckets[a.bslot] # NULL
        /\ Free(a.bnode)
        /\ acc' = [acc EXCEPT ![t].pc = "init_assert"]
  /\ UNCHANGED <<n_buckets, buckets, n_items, fault>>

InitCheck(t) ==
  /\ At(t, "init_check")
  /\ acc' = [acc EXCEPT ![t].pc = IF get(link[acc[t].cur]) = acc[t].bnode
                                  THEN "init_own" ELSE "init_other"]
  /\ UNCHANGED <<n_buckets, buckets, n_items, link, fault>>

(* The predecessor published instead of the new node. *)
PublishedCur(a) == a.cur

(* What the slot is set to when cur->next() is the node of this thread. *)
Published(a) == a.bnode

InitOwn(t) ==
  /\ At(t, "init_own")
  /\ buckets' = [buckets EXCEPT ![acc[t].bslot] = Published(acc[t])]
  /\ acc' = [acc EXCEPT ![t].next = acc[t].bnode, ![t].pc = "init_assert"]
  /\ UNCHANGED <<n_buckets, n_items, link, fault>>

(* The slot is set before the assert looks at the node. *)
InitOther(t) ==
  /\ At(t, "init_other")
  /\ buckets' = [buckets EXCEPT ![acc[t].bslot] = acc[t].next]
  /\ acc' = [acc EXCEPT ![t].pc = "init_discard"]
  /\ UNCHANGED <<n_buckets, n_items, link, fault>>

InitDiscard(t) ==
  /\ At(t, "init_discard")
  /\ Free(acc[t].bnode)
  /\ acc' = [acc EXCEPT ![t].pc = "init_assert"]
  /\ UNCHANGED <<n_buckets, buckets, n_items, fault>>

InitAssert(t) ==
  /\ At(t, "init_assert")
  /\ acc' = [acc EXCEPT ![t] = InitReturned(@)]
  /\ UNCHANGED <<n_buckets, buckets, n_items, link, fault>>

-----------------------------------------------------------------------------
(***************************************************************************)
(* find_node(hashv).                                                       *)
(***************************************************************************)
FindStart(t) ==
  LET s == acc[t].hashv % n_buckets IN
  /\ At(t, "find")
  /\ acc' = IF buckets[s] # NULL
            THEN [acc EXCEPT ![t].slot = s, ![t].pc = "find_head"]
            ELSE [acc EXCEPT ![t].slot = s, ![t].bslot = s,
                             ![t].ret = "find_head", ![t].pc = "init_enter"]
  /\ UNCHANGED <<n_buckets, buckets, n_items, link, fault>>

FindHead(t) ==
  /\ At(t, "find_head")
  /\ acc' = [acc EXCEPT ![t] = [Positioned(@, buckets[acc[t].slot]) EXCEPT
                                  !.steps = 0, !.pc = "find_loop"]]
  /\ UNCHANGED <<n_buckets, buckets, n_items, link, fault>>

(* The search that stops in front of the key. *)
NotAt(a) == a.next # NULL /\ key(a.next) < sol_node_key(a.hashv)

NotPast(a) == a.next # NULL /\ key(a.next) <= sol_node_key(a.hashv)

FindAdvance(t) ==
  /\ At(t, "find_loop")
  /\ NotPast(acc[t])
  /\ acc' = [acc EXCEPT ![t] = [Advanced(@) EXCEPT !.steps = acc[t].steps + 1]]
  /\ UNCHANGED <<n_buckets, buckets, n_items, link, fault>>

Found(a) == key(a.cur) = sol_node_key(a.hashv)

(* find_node returned to find_item_node. *)
FindItem(t) ==
  /\ At(t, "find_loop") /\ ~NotPast(acc[t])
  /\ acc[t].op = "find"
  /\ Return(t)
  /\ UNCHANGED <<n_buckets, buckets, n_items, link, fault>>

-----------------------------------------------------------------------------
(***************************************************************************)
(* insert_node(hashv, payload).                                            *)
(***************************************************************************)
InsertNew(t) ==
  LET n == NewNode("node", acc[t].hashv) IN
  /\ At(t, "insert_new")
  /\ Unused("node", acc[t].hashv) # {}
  /\ Allocate(n)
  /\ acc' = [acc EXCEPT ![t].nbuckets = n_buckets, ![t].dnode = n,
                        ![t].pc = "find"]
  /\ UNCHANGED <<n_buckets, buckets, n_items, fault>>

(* The missing delete. *)
DiscardedNothing(a) == NULL

(* The node in the list deleted. *)
DiscardedCur(a) == a.cur

(* What insert_node deletes when the key is already in the list. *)
Discarded(a) == a.dnode

InsertFound(t) ==
  /\ At(t, "find_loop") /\ ~NotPast(acc[t])
  /\ acc[t].op = "insert" /\ Found(acc[t])
  /\ Free(Discarded(acc[t]))
  /\ Return(t)
  /\ UNCHANGED <<n_buckets, buckets, n_items, fault>>

InsertNotFound(t) ==
  /\ At(t, "find_loop") /\ ~NotPast(acc[t])
  /\ acc[t].op = "insert" /\ ~Found(acc[t])
  /\ acc' = [acc EXCEPT ![t].pc = "link"]
  /\ UNCHANGED <<n_buckets, buckets, n_items, link, fault>>

(* The same CAS again, without a new search. *)
TryAgainUnchanged(a) == a

(* The CAS again with the expected pointer refreshed, the way              *)
(* __atomic_compare_exchange leaves it, without a new search.              *)
TryAgainRefreshed(a) == [a EXCEPT !.next = get(link[a.cur])]

(* After a failed CAS the loops of insert_node and delete_node search anew. *)
TryAgain(a) == [a EXCEPT !.pc = "find"]

InsertLink(t) ==
  LET a == acc[t] IN
  /\ At(t, "link")
  /\ link' = [link EXCEPT ![a.dnode] = assign(@, a.next),
                          ![a.cur] = CAS(@, a.next, a.dnode, FALSE)]
  /\ acc' = [acc EXCEPT ![t] = IF CASMatches(link[a.cur], a.next)
                               THEN [a EXCEPT !.pc = "count"] ELSE TryAgain(a)]
  /\ UNCHANGED <<n_buckets, buckets, n_items, fault>>

inc_item_count == (n_items + 1) % Modulus

InsertCount(t) ==
  /\ At(t, "count")
  /\ n_items' = inc_item_count
  /\ acc' = [acc EXCEPT ![t].pc = "scan_head"]
  /\ UNCHANGED <<n_buckets, buckets, link, fault>>

(* The scan to the end of the bucket that precedes the expansion check. *)
ScanHead(t) ==
  /\ At(t, "scan_head")
  /\ acc' = [acc EXCEPT ![t].next = get(link[acc[t].cur]), ![t].pc = "scan_loop"]
  /\ UNCHANGED <<n_buckets, buckets, n_items, link, fault>>

InBucket(a) == a.next # NULL /\ is_node(a.next)

ScanAdvance(t) ==
  /\ At(t, "scan_loop")
  /\ InBucket(acc[t])
  /\ acc' = [acc EXCEPT ![t] = [Advanced(@) EXCEPT !.steps = acc[t].steps + 1]]
  /\ UNCHANGED <<n_buckets, buckets, n_items, link, fault>>

Overflows(a) == a.steps > max_bucket_length

NeedsExpansion(a) ==
  \/ a.steps >= max_bucket_length * 2
  \/ n_items >= (max_bucket_length * n_buckets) % Modulus

(* The missing check that ib_slot exists. *)
AnyBucketExists(s) == TRUE

(* "Check that the bucket exists before attempting to initialise it." *)
BucketExists(s) == s < n_buckets

ScanDone(t) ==
  /\ At(t, "scan_loop")
  /\ ~InBucket(acc[t])
  /\ IF Overflows(acc[t])
     THEN acc' = [acc EXCEPT ![t].slot = acc[t].hashv % n_buckets,
                             ![t].pc = "overflow"]
     ELSE Return(t)
  /\ UNCHANGED <<n_buckets, buckets, n_items, link, fault>>

(* Expand the table, or else split the bucket if it has not been split. *)
Overflow(t) ==
  LET a == acc[t]
      ib_slot == (a.slot + a.nbuckets \div 2) % Modulus
  IN
  /\ At(t, "overflow")
  /\ \/ /\ NeedsExpansion(a)
        /\ acc' = [acc EXCEPT ![t].pc = "expand"]
     \/ /\ ~NeedsExpansion(a) /\ BucketExists(ib_slot)
        /\ acc' = [acc EXCEPT ![t].bslot = ib_slot, ![t].ret = "idle",
                              ![t].pc = "init_enter"]
     \/ /\ ~NeedsExpansion(a) /\ ~BucketExists(ib_slot)
        /\ Return(t)
  /\ UNCHANGED <<n_buckets, buckets, n_items, link, fault>>

(* n_buckets * 2, as unsigned arithmetic. *)
new_size == (n_buckets * 2) % Modulus

(* The last slot not copied. *)
copy_of_buckets_short ==
  [s \in 0 .. new_size - 1 |->
     IF s < n_buckets - 1 THEN buckets[s] ELSE NULL]

(* The copy that goes on to new_size and takes what lies behind the old    *)
(* array, words that point to no node.                                     *)
copy_of_buckets_long ==
  [s \in 0 .. new_size - 1 |->
     IF s < n_buckets THEN buckets[s] ELSE [kind |-> "bucket", hashv |-> s, copy |-> 0]]

(* What expand fills new_buckets with. *)
copy_of_buckets ==
  [s \in 0 .. new_size - 1 |-> IF s < n_buckets THEN buckets[s] ELSE NULL]

(* expand(nbuckets) returned: on to initialise_bucket(slot + nbuckets). *)
Expanded(a) ==
  [a EXCEPT !.bslot = (a.slot + a.nbuckets) % Modulus, !.ret = "idle", !.new_buckets = NoArray,
            !.pc = "init_enter"]

MustExpand(a) == a.nbuckets >= n_buckets

ExpandCopy(t) ==
  /\ At(t, "expand")
  /\ acc' = [acc EXCEPT ![t] =
       IF MustExpand(@) THEN [@ EXCEPT !.new_buckets = copy_of_buckets,
                                          !.pc = "expand_swap"]
       ELSE Expanded(@)]
  /\ UNCHANGED <<n_buckets, buckets, n_items, link, fault>>

(* buckets.swap(new_buckets); the old array is freed on return. *)
ExpandSwap(t) ==
  /\ At(t, "expand_swap")
  /\ buckets' = acc[t].new_buckets
  /\ acc' = [acc EXCEPT ![t].pc = "expand_size"]
  /\ UNCHANGED <<n_buckets, n_items, link, fault>>

(* n_buckets = new_size. *)
ExpandSize(t) ==
  /\ At(t, "expand_size")
  /\ n_buckets' = Cardinality(DOMAIN acc[t].new_buckets)
  /\ acc' = [acc EXCEPT ![t] = Expanded(@)]
  /\ UNCHANGED <<buckets, n_items, link, fault>>

-----------------------------------------------------------------------------
(***************************************************************************)
(* delete_node(hashv).                                                     *)
(***************************************************************************)
DeleteNotFound(t) ==
  /\ At(t, "find_loop") /\ ~NotPast(acc[t])
  /\ acc[t].op = "delete" /\ ~Found(acc[t])
  /\ Return(t)
  /\ UNCHANGED <<n_buckets, buckets, n_items, link, fault>>

DeleteFound(t) ==
  /\ At(t, "find_loop") /\ ~NotPast(acc[t])
  /\ acc[t].op = "delete" /\ Found(acc[t])
  /\ acc' = [acc EXCEPT ![t].pc = "mark"]
  /\ UNCHANGED <<n_buckets, buckets, n_items, link, fault>>

DeleteMark(t) ==
  LET a == acc[t] IN
  /\ At(t, "mark")
  /\ link' = [link EXCEPT ![a.cur] = CAS(@, a.next, a.next, TRUE)]
  /\ acc' = [acc EXCEPT ![t] = IF CASMatches(link[a.cur], a.next)
                               THEN [a EXCEPT !.pc = "unlink"] ELSE TryAgain(a)]
  /\ UNCHANGED <<n_buckets, buckets, n_items, fault>>

(* The result of the CAS ignored. *)
UnlinksAlways(a) == TRUE

(* Does the CAS that unlinks cur succeed? *)
Unlinks(a) == CASMatches(link[a.prev], a.cur)

DeleteUnlink(t) ==
  LET a == acc[t] IN
  /\ At(t, "unlink")
  /\ link' = [link EXCEPT ![a.prev] = CAS(@, a.cur, a.next, FALSE)]
  /\ acc' = [acc EXCEPT ![t] = IF Unlinks(a)
                               THEN [a EXCEPT !.pc = "uncount"] ELSE TryAgain(a)]
  /\ UNCHANGED <<n_buckets, buckets, n_items, fault>>

(* The missing decrement. *)
dec_item_count_skipped == n_items

dec_item_count == (n_items - 1) % Modulus

DeleteCount(t) ==
  /\ At(t, "uncount")
  /\ n_items' = dec_item_count
  /\ acc' = [acc EXCEPT ![t].pc = "reclaim"]
  /\ UNCHANGED <<n_buckets, buckets, link, fault>>

(* delete cur; zap(). *)
DeleteReclaim(t) ==
  /\ At(t, "reclaim")
  /\ Free(acc[t].cur)
  /\ Return(t)
  /\ UNCHANGED <<n_buckets, buckets, n_items, fault>>

-----------------------------------------------------------------------------
(***************************************************************************)
(* What the next step of an accessor dereferences.  A node outside live    *)
(* has been freed; a NULL here is a null pointer dereference.              *)
(***************************************************************************)
Touched(a) ==
  CASE a.pc = "find_head"   -> {buckets[a.slot]}
    [] a.pc = "find_loop"   -> (IF a.next # NULL THEN {a.next} ELSE {})
                               \cup (IF NotPast(a) THEN {} ELSE {a.cur})
    [] a.pc \in {"link", "scan_head", "mark", "reclaim", "init_cas", "init_check"}
                            -> {a.cur}
    [] a.pc \in {"scan_loop", "parent_loop"} /\ a.next # NULL -> {a.next}
    [] a.pc = "unlink"      -> {a.prev}
    [] a.pc = "parent_head" -> {buckets[reverse_hasht_bits[a.pb_key]]}
    [] a.pc \in {"init_discard", "init_assert"} -> {buckets[a.bslot]}
    [] OTHER                -> {}

(* The slots of the bucket array that the next step of an accessor uses. *)
SlotsUsed(a) ==
  CASE a.pc = "find"        -> {a.hashv % n_buckets}
    [] a.pc = "find_head"   -> {a.slot}
    [] a.pc = "probe"       -> {reverse_hasht_bits[PreviousBucketKey(a)]}
    [] a.pc = "parent_head" -> {reverse_hasht_bits[a.pb_key]}
    [] \/ a.pc = "init_enter" /\ a.bslot < n_buckets
       \/ a.pc = "parent_loop" /\ ~BeforeBucket(a)
       \/ a.pc \in {"init_finish", "init_own", "init_other", "init_discard",
                     "init_assert"}
                            -> {a.bslot}
    [] a.pc = "expand" /\ MustExpand(a) -> 0 .. n_buckets - 1
    [] OTHER                -> {}

(* The memory error that AddressSanitizer reports at the next step of t:   *)
(* an index past the end of the bucket array, also of the new one when its *)
(* size has wrapped, or a freed or NULL node.                              *)
BadAccess(t) ==
  \/ At(t, "expand") /\ MustExpand(acc[t]) /\ new_size < n_buckets
  \/ ~(SlotsUsed(acc[t]) \subseteq DOMAIN buckets)
  \/ ~(Touched(acc[t]) \subseteq live)

(* The asserts of sol_bucket_key and initialise_bucket.  bnode may already *)
(* be freed in the last one, but its key is a local.                       *)
AssertFails(a) ==
  \/ a.pc = "insert_new" /\ ~BucketKeyAsserted(a.hashv)
  \/ a.pc = "init_enter" /\ a.bslot >= n_buckets
  \/ a.pc = "init_enter" /\ buckets[a.bslot] = NULL /\ ~BucketKeyAsserted(a.bslot)
  \/ a.pc = "get_parent" /\ ~BucketKeyAsserted(n_buckets \div 2)
  \/ /\ a.pc \in {"init_discard", "init_assert"}
     /\ key(buckets[a.bslot]) # key(a.bnode)

Fault(t) ==
  IF BadAccess(t) THEN "memory"
  ELSE IF AssertFails(acc[t]) THEN "assert"
  ELSE "none"

Abort(t) ==
  /\ Fault(t) # "none"
  /\ fault' = Fault(t)
  /\ UNCHANGED <<n_buckets, buckets, n_items, link, acc>>

(***************************************************************************)
(* The next step of a call in progress.                                    *)
(***************************************************************************)
InitStep(t) ==
  \/ InitEnter(t) \/ GetParent(t) \/ Probe(t) \/ ParentHead(t)
  \/ ParentAdvance(t) \/ InitTest(t) \/ InitCas(t) \/ InitFinish(t)
  \/ InitCheck(t) \/ InitOwn(t) \/ InitOther(t) \/ InitDiscard(t)
  \/ InitAssert(t)

FindStep(t) ==
  FindStart(t) \/ FindHead(t) \/ FindAdvance(t) \/ FindItem(t)

InsertStep(t) ==
  \/ InsertNew(t) \/ InsertFound(t) \/ InsertNotFound(t) \/ InsertLink(t)
  \/ InsertCount(t) \/ ScanHead(t) \/ ScanAdvance(t) \/ ScanDone(t)
  \/ Overflow(t) \/ ExpandCopy(t) \/ ExpandSwap(t) \/ ExpandSize(t)

DeleteStep(t) ==
  \/ DeleteNotFound(t) \/ DeleteFound(t) \/ DeleteMark(t) \/ DeleteUnlink(t)
  \/ DeleteCount(t) \/ DeleteReclaim(t)

Step(t) ==
  /\ fault = "none"
  /\ \/ Fault(t) = "none" /\ (InitStep(t) \/ FindStep(t) \/ InsertStep(t) \/ DeleteStep(t))
     \/ Abort(t)

Next ==
  \E t \in Accessors :
    \/ Step(t)
    \/ fault = "none" /\ \E op \in Ops, h \in Hashes : Call(t, op, h)
    \/ fault = "none" /\ \E s \in 0 .. n_buckets - 1 : InitCall(t, s)

Spec == Init /\ [][Next]_vars

(* A thread that is inside a call keeps running. *)
FairSpec == Spec /\ \A t \in Accessors : WF_vars(Step(t))

-----------------------------------------------------------------------------
(***************************************************************************)
(* What is checked.                                                        *)
(***************************************************************************)

(* The nodes that a walk from p meets, up to a freed one. *)
NodesFrom(p) ==
  LET after[i \in Nat] ==
        IF i = 0 THEN {p} \ {NULL}
        ELSE LET met == after[i - 1]
             IN  met \cup ({get(link[n]) : n \in met \cap live} \ {NULL})
  IN  after[Cardinality(live)]

Reachable == NodesFrom(buckets[0])
Items == {n.hashv : n \in {m \in Reachable : m.kind = "node"}}
Quiescent == fault = "none" /\ \A t \in Accessors : At(t, "idle")

(* The list is in split order: the next pointer of every node in it, also  *)
(* of a marked one, leads to a larger key.  The searches and all the CAS   *)
(* sites (solist.hpp:366, 451, 539) rely on it; with it no key, and so no  *)
(* item and no bucket, is in the list twice.  It rests on a table that     *)
(* only grows: an expansion that is overtaken by two others puts a smaller *)
(* size back, and get_parent may then start behind the new bucket.         *)
Ascending ==
  \A n \in Reachable \cap live :
    get(link[n]) # NULL => key(n) < key(get(link[n]))

(* A published slot of the bucket array points to the bucket node of that  *)
(* slot, which is allocated and in the list (initialise_bucket: "so the    *)
(* bucket is guaranteed to be initialised on return").                     *)
BucketsIndexed ==
  \A s \in DOMAIN buckets :
    buckets[s] # NULL =>
      /\ buckets[s] \in live \cap Reachable
      /\ buckets[s].kind = "bucket" /\ buckets[s].hashv = s

(* Split ordering: a data node is behind the bucket from which find_node   *)
(* starts to look for it, whatever the order in which the table was        *)
(* expanded and its buckets were split.                                    *)
ItemsFindable ==
  \A n \in Reachable :
    LET s == n.hashv % n_buckets IN
    /\ n.kind = "node"
    /\ s \in DOMAIN buckets /\ buckets[s] # NULL
    => n \in NodesFrom(buckets[s])

(* No assert fails and no freed or NULL node is dereferenced. *)
NoFault == fault = "none"

(* Between calls n_items is the number of items in the list, in spite of   *)
(* the increments and decrements that follow the linking and unlinking.    *)
CountExact ==
  Quiescent => n_items = Cardinality(Items) % Modulus

(* Between calls every allocated node is in the list: the destructor of    *)
(* solist, which walks the list from bucket 0, frees everything.           *)
NoLeak == Quiescent => live = Reachable

(* The nodes that an accessor has allocated and not linked yet. *)
Unlinked(a) ==
  {n \in {a.dnode} :
     /\ a.op = "insert"
     /\ \/ a.pc \in {"find", "find_head", "find_loop", "link"}
        \/ a.ret = "find_head"}
  \cup {n \in {a.bnode} :
          a.pc \in {"get_parent", "probe", "parent_head", "parent_loop", "init_cas"}}

(* A new node is private until the CAS that links it: no list, bucket or   *)
(* other thread points to it, and nobody frees it.  The plain stores       *)
(* dnode->next = next and node->next = next and the deletes after a lost   *)
(* race (solist.hpp:356, 450, 461) rely on it, however often the CAS is    *)
(* tried again.                                                            *)
PrivateNodes ==
  \A t \in Accessors : \A n \in Unlinked(acc[t]) :
    /\ n \in live
    /\ ~Referenced(n)
    /\ \A u \in Accessors \ {t} : n \notin Unlinked(acc[u])

(* The point of the mark: once delete_node has marked a node, no CAS of    *)
(* any thread changes its next pointer while the node exists.              *)
MarkedFrozen ==
  [][\A n \in live : link[n].mark /\ n \in live' => link'[n] = link[n]]_vars

(* A published slot survives every call and every expansion. *)
SlotStable ==
  [][\A s \in DOMAIN buckets : buckets[s] # NULL => buckets'[s] = buckets[s]]_vars

(* With several threads an expansion may lose a slot that was published    *)
(* after the copy, and two expansions may undo each other; but a slot      *)
(* never comes to point to another node than the one it was initialised    *)
(* with.                                                                   *)
SlotNotReplaced ==
  [][\A s \in DOMAIN buckets \cap DOMAIN buckets' :
       NULL \in {buckets[s], buckets'[s]} \/ buckets'[s] = buckets[s]]_vars

(* Lock freedom: unless all threads come to rest again and again, calls    *)
(* keep returning.                                                         *)
LockFree ==
  \/ []<>(fault # "none" \/ \A t \in Accessors : At(t, "idle"))
  \/ []<><<\E t \in Accessors : ~At(t, "idle") /\ At(t, "idle")'>>_vars

(* Every call returns, or the process aborts. *)
CallReturns ==
  \A t \in Accessors : ~At(t, "idle") ~> (At(t, "idle") \/ fault # "none")

=============================================================================
