--------------------------- MODULE HazptrReclaim ---------------------------
(***************************************************************************)
(* Hazard pointers and the reclamation of deleted objects: hazard_pointer, *)
(* hazptrs_snapshot, the delete list of hazptr_domain,                     *)
(* hazard_pointer_domain and hazard_pointer_context.  The clients share    *)
(* one cell, the link of some container; each context belongs to a thread. *)
(*                                                                         *)
(* A step makes at most one access to shared memory.  Accesses are         *)
(* sequentially consistent: a client is taken to put a full fence between  *)
(* the store of a hazard pointer and the second read of the cell.          *)
(* The blocks of hazard pointers are those that HazptrPools hands out:     *)
(* context c owns the S[c] slots from First[c], in the order of a          *)
(* snapshot, which reads pool after pool.                                  *)
(***************************************************************************)
EXTENDS Integers, FiniteSets, Lists, MarkPtr

CONSTANTS
  N,          \* the number of contexts
  S,          \* S[c]: the hazard pointers in the block of context c
  First,      \* First[c]: the first of them among those of the domain
  NSlots,     \* the hazard pointers that a snapshot reads
  R,          \* R[c]: the length of the array deleted of context c
  HpCounts,   \* bound: the values that new pools give to hp_count
  Objects,    \* the addresses of the objects that clients allocate
  Exchanges,  \* bound: the times that clients change the cell, see Changes
  Mark,       \* Mark[c]: the mark on the pointers that the client of c protects
  NULL

Contexts == 0 .. N - 1
Slot == 0 .. NSlots - 1
Index(c) == 0 .. R[c] - 1

ASSUME SizesAssumption ==
  /\ N \in Nat \ {0}
  /\ S \in [Contexts -> Nat \ {0}]
  /\ First \in [Contexts -> Nat]
  /\ NSlots \in Nat
  /\ R \in [Contexts -> Nat]
  /\ HpCounts \subseteq Nat

ASSUME ClientsAssumption ==
  /\ Exchanges \in Nat
  /\ Mark \in [Contexts -> BOOLEAN]

ASSUME ObjectsAssumption ==
  /\ IsFiniteSet(Objects)
  /\ NULL \notin Objects

Pointer == Objects \cup {NULL}
NullWord == Word(NULL, FALSE)

(* The slot of hazard pointer i of context c. *)
SlotOf(c, i) == First[c] + i
SlotsOf(c) == {SlotOf(c, i) : i \in 0 .. S[c] - 1}

(* What HazptrPools establishes: no two contexts share a block.  *)
ASSUME BlocksAssumption ==
  /\ \A c \in Contexts : SlotsOf(c) \subseteq Slot
  /\ \A c, d \in Contexts : c # d => SlotsOf(c) \cap SlotsOf(d) = {}

VARIABLES
  cell,          \* the clients' shared link
  exchanges,     \* the times it has been changed, counted by Changes
  obj,           \* "free", "live" or "retired", for every object
  hp,            \* the hazard pointers of the pool
  valid,         \* the slots whose pointer was seen in the cell after the store
  delete_head,   \* the delete list; a node is named by its payload
  next,          \* the field next of the delete nodes
  delete_count,
  hp_count,      \* hazard pointers of the domain, the threshold of a collect
  ctx,           \* the contexts, with the locals of the call in progress
  destroyed,     \* the domain has been destroyed
  null_reclaimed \* reclaim_object has been called with nullptr

client == <<cell, exchanges, valid>>
list == <<delete_head, next, delete_count, hp_count>>
ended == <<destroyed, null_reclaimed>>
vars == <<cell, exchanges, obj, hp, valid, delete_head, next, delete_count, hp_count, ctx,
          destroyed, null_reclaimed>>

(* What the constructor of a context leaves. *)
NewContext(c, pc) ==
  [pc |-> pc, deleted |-> [ix \in Index(c) |-> NULL], del_index |-> 0,
   p |-> NULL, i |-> 0, call |-> "none", ret |-> "none",
   snap |-> {}, scan |-> 0, node |-> NULL, local |-> NULL, prev |-> NULL,
   dc |-> 0, do_collect |-> FALSE]

(* The contexts and the locals of their calls. *)
Context(c) ==
  [pc : {"none", "gone", "idle", "store", "validate", "delete", "snapshot", "reclaim",
         "enqueue", "push_load", "push_cas", "push_count", "check", "read_dc",
         "count_cas", "collect", "sweep", "push_back", "release"},
   deleted : [Index(c) -> Pointer], del_index : 0 .. R[c],
   p : Pointer, i : 0 .. S[c] - 1,
   call : {"none", "delete", "overflow", "dtor", "dtor_collect"},
   ret : {"none", "reclaim", "sweep", "check", "enqueue", "push_back"},
   snap : SUBSET Objects, scan : 0 .. NSlots, node : Pointer, local : Pointer,
   prev : Pointer, dc : Nat, do_collect : BOOLEAN]

TypeOK ==
  /\ cell \in Pointer
  /\ exchanges \in 0 .. Exchanges
  /\ obj \in [Objects -> {"free", "live", "retired"}]
  /\ hp \in [Slot -> WordOver(Pointer)]
  /\ valid \subseteq Slot
  /\ delete_head \in Pointer
  /\ next \in [Objects -> Pointer]
  /\ delete_count \in Nat
  /\ hp_count \in Nat
  /\ ctx = [c \in Contexts |-> ctx[c]]
  /\ \A c \in Contexts : ctx[c] \in Context(c)
  /\ destroyed \in BOOLEAN
  /\ null_reclaimed \in BOOLEAN

Init ==
  /\ cell = NULL
  /\ exchanges = 0
  /\ obj = [o \in Objects |-> "free"]
  /\ hp = [s \in Slot |-> NullWord]
  /\ valid = {}
  /\ delete_head = NULL
  /\ next = [o \in Objects |-> NULL]
  /\ delete_count = 0
  /\ hp_count = 0
  /\ ctx = [c \in Contexts |-> NewContext(c, "none")]
  /\ destroyed = FALSE
  /\ null_reclaimed = FALSE

At(c, pc) == ctx[c].pc = pc

(* The context after a call: the array deleted stays, the locals go. *)
Idle(c) ==
  [NewContext(c, "idle") EXCEPT !.deleted = ctx[c].deleted,
                                !.del_index = ctx[c].del_index]

-----------------------------------------------------------------------------
(***************************************************************************)
(* The clients.  Every object is found through the cell: a pointer is      *)
(* loaded from it, stored in a hazard pointer and read again.              *)
(***************************************************************************)
Construct(c) ==
  /\ At(c, "none") /\ ~destroyed
  /\ hp' = [s \in Slot |-> IF s \in SlotsOf(c) THEN NullWord ELSE hp[s]]
  /\ ctx' = [ctx EXCEPT ![c] = NewContext(c, "idle")]
  /\ UNCHANGED <<client, obj, list, ended>>

Load(c) ==
  /\ At(c, "idle") /\ cell # NULL
  /\ \E i \in 0 .. S[c] - 1 :
       ctx' = [ctx EXCEPT ![c].pc = "store", ![c].p = cell, ![c].i = i]
  /\ UNCHANGED <<client, obj, hp, list, ended>>

(* hazard_pointer::operator=(T* ); a null pointer protects nothing. *)
Store(c) ==
  LET t == ctx[c]  s == SlotOf(c, t.i) IN
  /\ At(c, "store")
  /\ hp' = [hp EXCEPT ![s] = IF t.p = NULL THEN NullWord ELSE Word(t.p, Mark[c])]
  /\ valid' = valid \ {s}
  /\ ctx' = [ctx EXCEPT ![c] = IF t.p = NULL THEN Idle(c)
                               ELSE [t EXCEPT !.pc = "validate"]]
  /\ UNCHANGED <<cell, exchanges, obj, list, ended>>

(* The second read: the same pointer, or another one to store. *)
Validate(c) ==
  LET t == ctx[c] IN
  /\ At(c, "validate")
  /\ \/ /\ cell = t.p
        /\ valid' = valid \cup {SlotOf(c, t.i)}
        /\ ctx' = [ctx EXCEPT ![c] = Idle(c)]
     \/ /\ cell # t.p
        /\ ctx' = [ctx EXCEPT ![c].pc = "store", ![c].p = cell]
        /\ UNCHANGED valid
  /\ UNCHANGED <<cell, exchanges, obj, hp, list, ended>>

(* Protection passes from one hazard pointer of the context to another     *)
(* with a higher index, in the order in which a snapshot reads them.       *)
Move(c) ==
  /\ At(c, "idle")
  /\ \E i, j \in 0 .. S[c] - 1 :
       LET from == SlotOf(c, i)  to == SlotOf(c, j) IN
       /\ i < j /\ from \in valid
       /\ hp' = [hp EXCEPT ![to] = hp[from]]
       /\ valid' = valid \cup {to}
  /\ UNCHANGED <<cell, exchanges, obj, list, ctx, ended>>

(* store(index, nullptr). *)
Clear(c) ==
  /\ At(c, "idle")
  /\ \E s \in SlotsOf(c) :
       /\ get(hp[s]) # NULL
       /\ hp' = [hp EXCEPT ![s] = NullWord]
       /\ valid' = valid \ {s}
  /\ UNCHANGED <<cell, exchanges, obj, list, ctx, ended>>

(* What a change of the cell counts for in the bound: emptying it is two. *)
Changes(new) == IF new = NULL THEN 2 ELSE 1

(* A new object, or none, takes the place of the one in the cell, which is *)
(* then passed to delete_item.                                             *)
Exchange(c) ==
  /\ At(c, "idle")
  /\ \E new \in {o \in Objects : obj[o] = "free"} \cup {NULL} :
       /\ new # cell
       /\ exchanges + Changes(new) <= Exchanges
       /\ exchanges' = exchanges + Changes(new)
       /\ cell' = new
       /\ obj' = [o \in Objects |-> IF o = cell THEN "retired"
                                    ELSE IF o = new THEN "live" ELSE obj[o]]
  /\ ctx' = IF cell = NULL THEN ctx
            ELSE [ctx EXCEPT ![c].pc = "delete", ![c].p = cell]
  /\ UNCHANGED <<hp, valid, list, ended>>

-----------------------------------------------------------------------------
(* The index is not reset. *)
OverflowIndexKept(c) == ctx[c].del_index

(* del_index once the whole array has been passed to the domain. *)
OverflowIndex(c) == 0

(***************************************************************************)
(* The end of a call of enqueue_for_delete or collect.  A destructor goes  *)
(* on to collect once more.                                                *)
(***************************************************************************)
Return(c) ==
  CASE ctx[c].call = "delete" -> Idle(c)
    [] ctx[c].call = "overflow" -> [Idle(c) EXCEPT !.del_index = OverflowIndex(c)]
    [] ctx[c].call = "dtor" -> [NewContext(c, "collect") EXCEPT !.call = "dtor_collect"]
    [] OTHER -> NewContext(c, "gone")

(***************************************************************************)
(* hazptrs_snapshot: copy_hazard_pointers reads the slots one at a time,   *)
(* the constructor masks off the marks.  begin_snapshot is the state of a  *)
(* context about to take one and to go on at ret.                          *)
(***************************************************************************)
begin_snapshot(t, ret) ==
  [t EXCEPT !.pc = "snapshot", !.ret = ret, !.snap = {}, !.scan = 0]

(* A copy from the last slot down to the first. *)
ReadAtReversed(n) == NSlots - 1 - n

(* The slot that is read n-th. *)
ReadAt(n) == n

(* Marks left on: a marked pointer is not found by the search. *)
SnapshotValuesUnmasked(s) == IF hp[s].mark THEN {} ELSE {get(hp[s])} \ {NULL}

SnapshotValues(s) == {get(hp[s])} \ {NULL}

Scan(c) ==
  /\ At(c, "snapshot")
  /\ LET n == ctx[c].scan IN
     ctx' = [ctx EXCEPT ![c].snap = @ \cup SnapshotValues(ReadAt(n)),
                        ![c].scan = n + 1,
                        ![c].pc = IF n = NSlots - 1 THEN ctx[c].ret ELSE "snapshot"]
  /\ UNCHANGED <<client, obj, hp, list, ended>>

(***************************************************************************)
(* hazard_pointer_context::delete_item and reclaim.                        *)
(***************************************************************************)
ArrayFull(c, del_index) == del_index = R[c]

DeleteItem(c) ==
  LET t == ctx[c]
      u == [Idle(c) EXCEPT !.deleted[t.del_index] = t.p, !.del_index = @ + 1]
  IN
  /\ At(c, "delete")
  /\ ctx' = [ctx EXCEPT ![c] =
       IF R[c] = 0 THEN [t EXCEPT !.pc = "push_load", !.node = t.p, !.p = NULL,
                                  !.ret = "check", !.call = "delete"]
       ELSE IF ArrayFull(c, u.del_index) THEN begin_snapshot(u, "reclaim") ELSE u]
  /\ UNCHANGED <<client, obj, hp, list, ended>>

(* The two index scans of the compaction: the first unused entry from ixd  *)
(* upwards, or ixs; the last used entry from ixs downwards, or ixd.        *)
FirstUnused(d, ixd, ixs) ==
  CHOOSE x \in ixd .. ixs : /\ d[x] = NULL \/ x = ixs
                            /\ \A y \in ixd .. x - 1 : d[y] # NULL
LastUsed(d, ixd, ixs) ==
  CHOOSE x \in ixd .. ixs : /\ d[x] # NULL \/ x = ixd
                            /\ \A y \in x + 1 .. ixs : d[y] = NULL

(* Swap a used entry at the end with an unused entry at the front: one     *)
(* iteration of the loop.                                                  *)
CompactStep(s) ==
  LET x == FirstUnused(s.d, s.ixd, s.ixs)
      y == LastUsed(s.d, x, s.ixs)
  IN  IF s.d[x] = NULL /\ s.d[y] # NULL
      THEN [d |-> [s.d EXCEPT ![x] = s.d[y], ![y] = s.d[x]], ixd |-> x + 1, ixs |-> y - 1]
      ELSE [d |-> s.d, ixd |-> x, ixs |-> y]

(* The array after the loop, which ends within n iterations. *)
Compact(d, n) ==
  LET loop[k \in 0 .. n] ==
        IF k = 0 THEN [d |-> d, ixd |-> 0, ixs |-> n - 1]
        ELSE IF loop[k - 1].ixd >= loop[k - 1].ixs THEN loop[k - 1]
        ELSE CompactStep(loop[k - 1])
  IN  loop[n].d

(* Free what no hazard pointer of the snapshot protects; when nothing      *)
(* could be freed, pass the whole array to the domain.                     *)
Unprotected(c) ==
  {ctx[c].deleted[ix] : ix \in {x \in Index(c) : ctx[c].deleted[x] \notin ctx[c].snap}}

Reclaim(c) ==
  LET t == ctx[c]
      freed == Unprotected(c)
      kept == [ix \in Index(c) |-> IF t.deleted[ix] \in freed THEN NULL ELSE t.deleted[ix]]
      left == t.del_index - Cardinality(freed)
  IN
  /\ At(c, "reclaim") /\ NULL \notin freed
  /\ \/ /\ left = R[c]
        /\ ctx' = [ctx EXCEPT ![c] = [Idle(c) EXCEPT !.pc = "enqueue", !.call = "overflow"]]
        /\ UNCHANGED obj
     \/ /\ left # R[c]
        /\ obj' = [o \in Objects |-> IF o \in freed THEN "free" ELSE obj[o]]
        /\ ctx' = [ctx EXCEPT ![c] = [Idle(c) EXCEPT !.deleted = Compact(kept, R[c]),
                                                     !.del_index = left]]
  /\ UNCHANGED <<client, hp, list, ended>>

(* reclaim() is public.  Called by a client, it finds entries that are not *)
(* in use; they are in no snapshot, and reclaim_object is called with      *)
(* nullptr, which aborts the process.                                      *)
ReclaimCall(c) ==
  /\ At(c, "idle")
  /\ ctx' = [ctx EXCEPT ![c] = begin_snapshot(@, "reclaim")]
  /\ UNCHANGED <<client, obj, hp, list, ended>>

ReclaimNull(c) ==
  /\ At(c, "reclaim") /\ NULL \in Unprotected(c)
  /\ null_reclaimed' = TRUE
  /\ UNCHANGED <<client, obj, hp, list, ctx, destroyed>>

(***************************************************************************)
(* hazptr_domain::enqueue_for_delete and push_delete_node.                 *)
(***************************************************************************)
Enqueue(c) ==
  LET t == ctx[c]
      used == {x \in Index(c) : t.deleted[x] # NULL}
      first == CHOOSE x \in used : \A y \in used : x <= y
  IN
  /\ At(c, "enqueue")
  /\ ctx' = [ctx EXCEPT ![c] =
       IF used = {} THEN [t EXCEPT !.pc = "check"]
       ELSE [t EXCEPT !.pc = "push_load", !.node = t.deleted[first],
                      !.deleted[first] = NULL, !.ret = "enqueue"]]
  /\ UNCHANGED <<client, obj, hp, list, ended>>

PushLoad(c) ==
  /\ At(c, "push_load")
  /\ next' = [next EXCEPT ![ctx[c].node] = delete_head]
  /\ ctx' = [ctx EXCEPT ![c].pc = "push_cas"]
  /\ UNCHANGED <<client, obj, hp, delete_head, delete_count, hp_count, ended>>

(* A store in place of the compare and exchange of the head. *)
HeadMatchesAlways(c) == TRUE

HeadMatches(c) == delete_head = next[ctx[c].node]

PushCas(c) ==
  LET node == ctx[c].node IN
  /\ At(c, "push_cas")
  /\ \/ /\ HeadMatches(c)
        /\ delete_head' = node
        /\ ctx' = [ctx EXCEPT ![c].pc = "push_count"]
        /\ UNCHANGED next
     \/ /\ ~HeadMatches(c)
        /\ next' = [next EXCEPT ![node] = delete_head]
        /\ ctx' = [ctx EXCEPT ![c].pc = "push_load"]
        /\ UNCHANGED delete_head
  /\ UNCHANGED <<client, obj, hp, delete_count, hp_count, ended>>

PushCount(c) ==
  /\ At(c, "push_count")
  /\ delete_count' = delete_count + 1
  /\ ctx' = [ctx EXCEPT ![c].pc = ctx[c].ret, ![c].node = NULL]
  /\ UNCHANGED <<client, obj, hp, delete_head, next, hp_count, ended>>

(***************************************************************************)
(* pools_new: the constructor of a context, of one of these or of another  *)
(* one of the domain, found no pool and has pushed one, which it adds to   *)
(* hp_count late, after others have used the pool.  The addition is a read *)
(* and a write, so that racing ones may be lost: any value may follow.     *)
(***************************************************************************)
AddPool ==
  /\ ~destroyed
  /\ hp_count' \in HpCounts \ {hp_count}
  /\ UNCHANGED <<client, obj, hp, delete_head, next, delete_count, ctx, ended>>

(***************************************************************************)
(* hazptr_domain::collect_if_required: the test of the loop, the read of   *)
(* dc and the compare and exchange, whose result every iteration           *)
(* overwrites.                                                             *)
(***************************************************************************)
Check(c) ==
  /\ At(c, "check")
  /\ ctx' = [ctx EXCEPT ![c] =
       IF delete_count > hp_count THEN [@ EXCEPT !.pc = "read_dc"]
       ELSE IF ctx[c].do_collect THEN [@ EXCEPT !.pc = "collect"] ELSE Return(c)]
  /\ UNCHANGED <<client, obj, hp, list, ended>>

ReadDc(c) ==
  /\ At(c, "read_dc")
  /\ ctx' = [ctx EXCEPT ![c].pc = "count_cas", ![c].dc = delete_count]
  /\ UNCHANGED <<client, obj, hp, list, ended>>

(* A store in place of the compare and exchange of the counter. *)
CountCasClears(c) ==
  /\ At(c, "count_cas")
  /\ delete_count' = 0
  /\ ctx' = [ctx EXCEPT ![c].pc = "check", ![c].dc = 0,
                        ![c].do_collect = delete_count = ctx[c].dc]
  /\ UNCHANGED <<client, obj, hp, delete_head, next, hp_count, ended>>

CountCas(c) ==
  /\ At(c, "count_cas")
  /\ delete_count' = IF delete_count = ctx[c].dc THEN 0 ELSE delete_count
  /\ ctx' = [ctx EXCEPT ![c].pc = "check", ![c].dc = 0,
                        ![c].do_collect = delete_count = ctx[c].dc]
  /\ UNCHANGED <<client, obj, hp, delete_head, next, hp_count, ended>>

(***************************************************************************)
(* hazptr_domain::collect: take the delete list, take a snapshot, free     *)
(* what is not protected, push back the rest.                              *)
(***************************************************************************)
(* What the exchange leaves in delete_head. *)
TakenList == NULL

Collect(c) ==
  /\ At(c, "collect")
  /\ delete_head' = TakenList
  /\ ctx' = [ctx EXCEPT ![c] =
       IF delete_head = NULL THEN Return(c)
       ELSE begin_snapshot([@ EXCEPT !.local = delete_head, !.do_collect = FALSE], "sweep")]
  /\ UNCHANGED <<client, obj, hp, next, delete_count, hp_count, ended>>

(* One node of the local list: delinked and freed, or kept. *)
Sweep(c) ==
  LET t == ctx[c]
      cur == IF t.prev = NULL THEN t.local ELSE next[t.prev]
  IN
  /\ At(c, "sweep")
  /\ \/ /\ cur = NULL
        /\ ctx' = [ctx EXCEPT ![c].pc = "push_back", ![c].snap = {}, ![c].prev = NULL]
        /\ UNCHANGED <<obj, next>>
     \/ /\ cur # NULL /\ cur \in t.snap
        /\ ctx' = [ctx EXCEPT ![c].prev = cur]
        /\ UNCHANGED <<obj, next>>
     \/ /\ cur # NULL /\ cur \notin t.snap
        /\ obj' = [obj EXCEPT ![cur] = "free"]
        /\ \/ /\ t.prev = NULL
              /\ ctx' = [ctx EXCEPT ![c].local = next[cur]]
              /\ next' = [next EXCEPT ![cur] = NULL]
           \/ /\ t.prev # NULL
              /\ next' = [next EXCEPT ![t.prev] = next[cur], ![cur] = NULL]
              /\ UNCHANGED ctx
  /\ UNCHANGED <<client, hp, delete_head, delete_count, hp_count, ended>>

PushBack(c) ==
  LET t == ctx[c] IN
  /\ At(c, "push_back")
  /\ ctx' = [ctx EXCEPT ![c] =
       IF t.local = NULL THEN Return(c)
       ELSE [t EXCEPT !.pc = "push_load", !.node = t.local, !.local = next[t.local],
                      !.ret = "push_back"]]
  /\ UNCHANGED <<client, obj, hp, list, ended>>

(***************************************************************************)
(* ~hazard_pointer_context: the hazard pointers are cleared one by one,    *)
(* then the pending deletes are passed to the domain, then collect.        *)
(***************************************************************************)
Destroy(c) ==
  /\ At(c, "idle")
  /\ ctx' = [ctx EXCEPT ![c].pc = "release"]
  /\ UNCHANGED <<client, obj, hp, list, ended>>

(* One hazard pointer more than the block has. *)
ReleasePastEnd(c) ==
  LET t == ctx[c]  s == SlotOf(c, t.i) IN
  /\ At(c, "release")
  /\ hp' = [hp EXCEPT ![s] = NullWord]
  /\ valid' = valid \ {s}
  /\ ctx' = [ctx EXCEPT ![c] =
       IF t.i < S[c] THEN [t EXCEPT !.i = t.i + 1]
       ELSE [t EXCEPT !.i = 0, !.pc = "enqueue", !.call = "dtor"]]
  /\ UNCHANGED <<cell, exchanges, obj, list, ended>>

Release(c) ==
  LET t == ctx[c]  s == SlotOf(c, t.i) IN
  /\ At(c, "release")
  /\ hp' = [hp EXCEPT ![s] = NullWord]
  /\ valid' = valid \ {s}
  /\ ctx' = [ctx EXCEPT ![c] =
       IF t.i < S[c] - 1 THEN [t EXCEPT !.i = t.i + 1]
       ELSE [t EXCEPT !.i = 0, !.pc = "enqueue", !.call = "dtor"]]
  /\ UNCHANGED <<cell, exchanges, obj, list, ended>>

(* The nodes of the list that starts at h, for links nx, and now. *)
ChainOf(nx, h) == ListFrom(Objects, NULL, nx, h)
Chain(h) == ChainOf(next, h)

Protected == {get(hp[s]) : s \in Slot}

(* A destructor of the domain that does not collect. *)
DestroyDomainNoCollect ==
  /\ ~destroyed
  /\ \A c \in Contexts : At(c, "none") \/ At(c, "gone")
  /\ destroyed' = TRUE
  /\ UNCHANGED <<client, obj, hp, list, ctx, null_reclaimed>>

(* The last reference to the domain goes: ~hazard_pointer_domain collects. *)
(* No context exists, so that no step of another thread comes between;     *)
(* which of several nodes that are pushed back ends up first is left open. *)
DestroyDomain ==
  /\ ~destroyed
  /\ \A c \in Contexts : At(c, "none") \/ At(c, "gone")
  /\ destroyed' = TRUE
  /\ LET kept == Chain(delete_head) \cap Protected IN
     /\ obj' = [o \in Objects |-> IF o \in Chain(delete_head) \ kept THEN "free" ELSE obj[o]]
     /\ delete_head' \in IF kept = {} THEN {NULL} ELSE kept
  /\ UNCHANGED <<cell, exchanges, valid, hp, next, delete_count, hp_count, ctx, null_reclaimed>>

(* The program ends. *)
Terminated ==
  /\ destroyed
  /\ UNCHANGED vars

Client(c) ==
  \/ Construct(c) \/ Load(c) \/ Store(c) \/ Validate(c) \/ Move(c) \/ Clear(c)
  \/ Exchange(c) \/ Destroy(c)

Library(c) ==
  \/ Scan(c) \/ DeleteItem(c) \/ Reclaim(c) \/ Enqueue(c) \/ PushLoad(c)
  \/ PushCas(c) \/ PushCount(c) \/ Check(c) \/ ReadDc(c) \/ CountCas(c)
  \/ Collect(c) \/ Sweep(c) \/ PushBack(c) \/ Release(c)

Next ==
  \/ \E c \in Contexts : Client(c) \/ Library(c)
  \/ AddPool
  \/ DestroyDomain
  \/ Terminated

Spec == Init /\ [][Next]_vars

(* Clients that call reclaim() themselves. *)
NextReclaim == Next \/ \E c \in Contexts : ReclaimCall(c) \/ ReclaimNull(c)
SpecReclaim == Init /\ [][NextReclaim]_vars

-----------------------------------------------------------------------------
(***************************************************************************)
(* Properties.                                                             *)
(***************************************************************************)
(* A pointer that a client stored in a hazard pointer, and then saw again  *)
(* in the container, points to an object that has not been freed, however  *)
(* the snapshots of collect and reclaim interleave with the stores.        *)
SafeAccess == \A s \in valid : obj[get(hp[s])] # "free"

(* The places where a context keeps deleted objects: its own array, the    *)
(* node it is pushing, the part of the delete list it has taken.           *)
InArray(c) == {ctx[c].deleted[ix] : ix \in Index(c)} \ {NULL}
InFlight(c) ==
  IF At(c, "delete") THEN {ctx[c].p}
  ELSE IF At(c, "push_load") \/ At(c, "push_cas") THEN {ctx[c].node} ELSE {}
InLocal(c) == Chain(ctx[c].local)

Places == (Contexts \X {"array", "flight", "local"}) \cup {<<N, "list">>}
Held == [x \in Places |->
           CASE x[2] = "array" -> InArray(x[1])
             [] x[2] = "flight" -> InFlight(x[1])
             [] x[2] = "local" -> InLocal(x[1])
             [] x[2] = "list" -> Chain(delete_head)]

(* Every retired object, and no other, is in exactly one place from which  *)
(* a reclaim or a collect will find it: no delete is lost when contexts    *)
(* push, take over and push back the delete list concurrently, and none is *)
(* done twice.                                                             *)
Accounted ==
  \A o \in Objects :
    Cardinality({x \in Places : o \in Held[x]}) = IF obj[o] = "retired" THEN 1 ELSE 0

(* Between calls the first del_index entries of the array deleted, and no  *)
(* others, are in use, and there is room for one more: the compaction of   *)
(* reclaim leaves what delete_item relies on.                              *)
DeletedExact ==
  \A c \in Contexts : At(c, "idle") =>
    /\ \A ix \in Index(c) : ctx[c].deleted[ix] # NULL <=> ix < ctx[c].del_index
    /\ R[c] > 0 => ctx[c].del_index < R[c]

(* The nodes of the delete list that delete_count does not count yet, and  *)
(* who is about to take the list.                                          *)
Uncounted == {c \in Contexts : At(c, "push_count")}
Collecting(c) == At(c, "collect") \/ (At(c, "check") /\ ctx[c].do_collect)
Looping(c) == delete_count > hp_count /\ ctx[c].pc \in {"check", "read_dc", "count_cas"}
CountCovers ==
  \/ Cardinality(Chain(delete_head)) <= delete_count + Cardinality(Uncounted)
  \/ \E c \in Contexts : Collecting(c) \/ Looping(c)

(* A delete list longer than delete_count says is about to be collected,   *)
(* and stays so: collect_if_required may overwrite the result of the       *)
(* exchange that cleared the counter, but another thread takes the collect *)
(* over.  Only a pool that raises hp_count meanwhile can undo this.        *)
CollectKept == [][CountCovers /\ hp_count' = hp_count => CountCovers']_vars

(* Whatever hp_count becomes: when the counter has been cleared, somebody  *)
(* is about to collect what was on the list.                               *)
NotForgotten ==
  delete_count = 0 => \/ Cardinality(Chain(delete_head)) <= Cardinality(Uncounted)
                      \/ \E c \in Contexts : Collecting(c)

(* When the domain is destroyed nothing is left on the delete list         *)
(* (assertion of ~hazptr_domain) and every deleted object has been freed.  *)
DomainClean ==
  destroyed => /\ delete_head = NULL
               /\ \A o \in Objects : obj[o] # "retired"

(* reclaim() frees deleted objects: it never passes nullptr to             *)
(* reclaim_object.                                                         *)
ReclaimsDeleted == ~null_reclaimed

(* The library implements safe reclamation: what a context guards is what  *)
(* its validated hazard pointers point to.                                 *)
Guarded == [c \in Contexts |-> {get(hp[s]) : s \in SlotsOf(c) \cap valid}]

Safe == INSTANCE SafeReclamation WITH guard <- Guarded
ImplementsReclamation == Safe!Spec

============================================================================
