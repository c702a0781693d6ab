---------------------------- MODULE SoListProofs ----------------------------
(***************************************************************************)
(* Proofs about the split-ordered list, for any number of accessors, any   *)
(* table and any sequence of operations: the variables keep their types,   *)
(* a new node is private until it is linked, and a marked node is frozen.  *)
(***************************************************************************)
EXTENDS SoList, ListLemmas, FiniteSetTheorems, TLAPS

(* The calls in initialise_bucket. *)
Initialising(a) ==
  a.pc \in {"init_enter", "get_parent", "probe", "parent_head", "parent_loop",
            "init_cas", "init_finish", "init_check", "init_own", "init_other",
            "init_discard", "init_assert"}

(* The nodes that an accessor has allocated and may still free. *)
Owned(a) ==
  Unlinked(a) \cup
  {n \in {a.bnode} : a.pc \in {"init_finish", "init_check", "init_own",
                               "init_other", "init_discard"}}

Typed(a) == IsArray(a.new_buckets) /\ a \in Accessor(a.new_buckets)

(* An array with at least one slot. *)
Slotted(b) == \E size \in 1 .. Modulus - 1 : b \in [0 .. size - 1 -> Pointer]

(* What is known of the locals of a call. *)
Local(a) ==
  /\ a.ret = "find_head" => Initialising(a)
  /\ a.pc \in {"expand_swap", "expand_size"} => Slotted(a.new_buckets)
  /\ Initialising(a) /\ a.pc # "init_enter" =>
       /\ a.bnode \in Node /\ a.bnode.kind = "bucket" /\ a.bnode.hashv = a.bslot
       /\ BucketKeyAsserted(a.bslot)
  /\ a.pc \in {"insert_new", "link"} => a.op = "insert"
  /\ a.op = "insert" /\ a.pc # "insert_new" => a.dnode \in Node /\ a.dnode.kind = "node"
  /\ a.pc \in {"mark", "unlink", "uncount", "reclaim"} =>
       a.op = "delete" /\ a.cur \in Node /\ a.cur.kind = "node"

Locals == \A t \in Accessors : Local(acc[t])

(* A bucket node has an even key and is never marked. *)
BucketNodes ==
  \A n \in live : n.kind = "bucket" => key(n) % 2 = 0 /\ ~link[n].mark

(* A node is owned by one accessor and allocated. *)
OwnedNodes ==
  \A t \in Accessors : \A n \in Owned(acc[t]) :
    n \in live /\ \A u \in Accessors \ {t} : n \notin Owned(acc[u])

(* A node that is not linked yet is not marked. *)
NewNodesUnmarked ==
  \A t \in Accessors : \A n \in Unlinked(acc[t]) : ~link[n].mark

IInv ==
  /\ TypeOK /\ Locals
  /\ BucketNodes /\ OwnedNodes /\ NewNodesUnmarked
  /\ PrivateNodes

-----------------------------------------------------------------------------
(***************************************************************************)
(* What the step of an accessor may do.                                    *)
(***************************************************************************)
Globals ==
  /\ n_buckets \in 1 .. Modulus - 1
  /\ IsArray(buckets)
  /\ n_items \in HashValues
  /\ live \subseteq Node
  /\ link \in [live -> WordOver(Pointer)]
  /\ fault \in {"none", "assert", "memory"}

(* t has a reference to n, or links n with this step, to be a. *)
Known(t, a, n) ==
  n \in Node => Referenced(n) \/ n \in Owned(acc[t]) \ Unlinked(a)

(* Nodes come from new, go by delete, and become visible only by the step  *)
(* of the accessor that owns them.                                         *)
NodeStep(t, a) ==
  /\ \A n \in Owned(a) : n \in live' /\ (n \in Owned(acc[t]) \/ n \notin live)
  /\ \A n \in Unlinked(a) : \/ n \in Unlinked(acc[t])
                            \/ n \notin live /\ ~Referenced(n)
  /\ \A n \in live \ live' : n \in Owned(acc[t]) \/ (Referenced(n) /\ n.kind = "node")
  /\ \A n \in live \cap live' : link[n].mark => link'[n] = link[n]
  /\ \A n \in live' : link'[n].mark => n \in live /\ (link[n].mark \/ Referenced(n))

Effect(t) ==
  \E a : /\ acc' = [acc EXCEPT ![t] = a]
         /\ Typed(a) /\ Local(a)
         /\ Globals' /\ BucketNodes'
         /\ \A n \in Node : Referenced(n)' => Known(t, a, n)
         /\ NodeStep(t, a)

(* The parts of an effect. *)
LEMMA Visible ==
  ASSUME TypeOK, NEW t \in Accessors, NEW a, acc' = [acc EXCEPT ![t] = a],
         \A s \in DOMAIN buckets' : Known(t, a, buckets'[s]),
         \A m \in live' : Known(t, a, link'[m].ptr),
         Known(t, a, a.prev), Known(t, a, a.cur), Known(t, a, a.next),
         \A s \in DOMAIN a.new_buckets : Known(t, a, a.new_buckets[s])
  PROVE  \A n \in Node : Referenced(n)' => Known(t, a, n)
<1> SUFFICES ASSUME NEW n \in Node, Referenced(n)' PROVE Known(t, a, n)
  OBVIOUS
<1>1. \A u \in Accessors : acc'[u] = IF u = t THEN a ELSE acc[u]
  BY DEF TypeOK
<1>2. CASE \E s \in DOMAIN buckets' : buckets'[s] = n
  BY <1>2
<1>3. CASE \E m \in live' : link'[m].ptr = n
  BY <1>3
<1>4. ASSUME NEW u \in Accessors,
             \/ n \in {acc'[u].prev, acc'[u].cur, acc'[u].next}
             \/ \E s \in DOMAIN acc'[u].new_buckets : acc'[u].new_buckets[s] = n
      PROVE  Known(t, a, n)
  <2>1. CASE u = t
    BY <1>1, <1>4, <2>1
  <2>2. CASE u # t
    BY <1>1, <1>4, <2>2 DEF Known, Referenced
  <2> QED BY <2>1, <2>2
<1> QED BY <1>2, <1>3, <1>4 DEF Referenced

(* What is already visible. *)
LEMMA Seen ==
  ASSUME TypeOK, NEW t \in Accessors, NEW a
  PROVE  /\ \A s \in DOMAIN buckets : Known(t, a, buckets[s])
         /\ \A m \in live : Known(t, a, link[m].ptr)
         /\ Known(t, a, acc[t].prev) /\ Known(t, a, acc[t].cur)
         /\ Known(t, a, acc[t].next)
         /\ \A s \in DOMAIN acc[t].new_buckets : Known(t, a, acc[t].new_buckets[s])
         /\ Known(t, a, NULL)
BY NullAssumption DEF Known, Referenced

(* An accessor that changes no link and no slot. *)
LEMMA QuietEffect ==
  ASSUME IInv, NEW t \in Accessors, NEW a, acc' = [acc EXCEPT ![t] = a],
         Typed(a), Local(a),
         UNCHANGED <<buckets, link>>,
         n_buckets' \in 1 .. Modulus - 1, n_items' \in HashValues,
         fault' \in {"none", "assert", "memory"},
         Known(t, a, a.prev), Known(t, a, a.cur), Known(t, a, a.next),
         \A s \in DOMAIN a.new_buckets : Known(t, a, a.new_buckets[s]),
         Owned(a) \subseteq Owned(acc[t]), Unlinked(a) \subseteq Unlinked(acc[t])
  PROVE  Effect(t)
<1> USE DEF IInv
<1>1. live' = live
  BY DEF live
<1>2. Globals' /\ BucketNodes'
  BY <1>1 DEF TypeOK, Globals, BucketNodes, IsArray
<1>3. \A n \in Node : Referenced(n)' => Known(t, a, n)
  <2>1. \A s \in DOMAIN buckets' : Known(t, a, buckets'[s])
    BY Seen
  <2>2. \A m \in live' : Known(t, a, link'[m].ptr)
    BY <1>1, Seen
  <2> QED BY <2>1, <2>2, Visible
<1>4. NodeStep(t, a)
  BY <1>1 DEF NodeStep, OwnedNodes
<1> QED BY <1>2, <1>3, <1>4 DEF Effect

(* What an effect preserves. *)
LEMMA EffectInvariant ==
  ASSUME IInv, NEW t \in Accessors, Effect(t)
  PROVE  IInv' /\ \A n \in live : link[n].mark /\ n \in live' => link'[n] = link[n]
<1> USE DEF IInv
<1>1. PICK a : /\ acc' = [acc EXCEPT ![t] = a]
               /\ Typed(a) /\ Local(a)
               /\ Globals' /\ BucketNodes'
               /\ \A n \in Node : Referenced(n)' => Known(t, a, n)
               /\ NodeStep(t, a)
  BY DEF Effect
<1>2. \A u \in Accessors : acc'[u] = IF u = t THEN a ELSE acc[u]
  BY <1>1 DEF TypeOK
<1>3. acc' = [u \in Accessors |-> acc'[u]]
  BY <1>1 DEF TypeOK
<1>4. TypeOK'
  BY <1>1, <1>2, <1>3 DEF TypeOK, Globals, Typed
<1>5. Locals'
  BY <1>1, <1>2 DEF Locals
<1>6. \A u \in Accessors \ {t} : \A n \in Owned(acc[u]) :
        n \in live' /\ n \in Node /\ n \notin Owned(acc[t])
  <2> SUFFICES ASSUME NEW u \in Accessors \ {t}, NEW n \in Owned(acc[u])
               PROVE  n \in live' /\ n \in Node /\ n \notin Owned(acc[t])
    OBVIOUS
  <2>1. n \in live /\ n \in Node /\ n \notin Owned(acc[t])
    BY DEF OwnedNodes, TypeOK
  <2>2. n.kind = "node" => n \in Unlinked(acc[u])
    BY DEF Owned, Locals, Local, Initialising
  <2>3. n.kind = "node" => ~Referenced(n)
    BY <2>2 DEF PrivateNodes
  <2> QED BY <1>1, <2>1, <2>3 DEF NodeStep
<1>7. OwnedNodes'
  <2> SUFFICES ASSUME NEW u \in Accessors, NEW n \in Owned(acc'[u])
               PROVE  n \in live' /\ \A v \in Accessors \ {u} : n \notin Owned(acc'[v])
    BY DEF OwnedNodes
  <2>1. CASE u = t
    BY <1>1, <1>2, <1>6, <2>1 DEF NodeStep, OwnedNodes
  <2>2. CASE u # t
    <3>1. n \in Owned(acc[u])
      BY <1>2, <2>2
    <3>2. n \in live' /\ n \notin Owned(acc[t])
      BY <1>6, <2>2, <3>1
    <3>3. n \in live
      BY <3>1 DEF OwnedNodes
    <3>4. n \notin Owned(a)
      BY <1>1, <3>2, <3>3 DEF NodeStep
    <3>5. \A v \in Accessors \ {u} : n \notin Owned(acc[v])
      BY <3>1 DEF OwnedNodes
    <3> QED BY <1>2, <3>2, <3>4, <3>5
  <2> QED BY <2>1, <2>2
<1>8. PrivateNodes'
  <2> SUFFICES ASSUME NEW u \in Accessors, NEW n \in Unlinked(acc'[u])
               PROVE  /\ n \in live' /\ ~Referenced(n)'
                      /\ \A v \in Accessors \ {u} : n \notin Unlinked(acc'[v])
    BY DEF PrivateNodes
  <2>1. n \in Owned(acc'[u]) /\ \A v \in Accessors : n \in Unlinked(acc'[v]) => n \in Owned(acc'[v])
    BY DEF Owned
  <2>2. n \in live' /\ n \in Node /\ \A v \in Accessors \ {u} : n \notin Unlinked(acc'[v])
    BY <1>4, <1>7, <2>1 DEF OwnedNodes, TypeOK
  <2>3. CASE u = t
    <3>1. n \in Unlinked(a) /\ ~Referenced(n)
      BY <1>1, <1>2, <2>3 DEF NodeStep, PrivateNodes
    <3> QED BY <1>1, <2>2, <3>1 DEF Known
  <2>4. CASE u # t
    <3>1. n \in Unlinked(acc[u]) /\ n \in Owned(acc[u])
      BY <1>2, <2>1, <2>4
    <3>2. ~Referenced(n) /\ n \notin Owned(acc[t])
      BY <1>6, <2>4, <3>1 DEF PrivateNodes
    <3> QED BY <1>1, <2>2, <3>2 DEF Known
  <2> QED BY <2>3, <2>4
<1>9. NewNodesUnmarked'
  <2> SUFFICES ASSUME NEW u \in Accessors, NEW n \in Unlinked(acc'[u])
               PROVE  ~link'[n].mark
    BY DEF NewNodesUnmarked
  <2>1. n \in live'
    BY <1>8 DEF PrivateNodes
  <2>2. CASE u = t
    <3>1. n \in Unlinked(a)
      BY <1>2, <2>2
    <3>2. n \in Unlinked(acc[t]) => ~link[n].mark /\ ~Referenced(n)
      BY DEF NewNodesUnmarked, PrivateNodes
    <3> QED BY <1>1, <2>1, <3>1, <3>2 DEF NodeStep
  <2>3. CASE u # t
    <3>1. n \in Unlinked(acc[u])
      BY <1>2, <2>3
    <3>2. ~link[n].mark /\ ~Referenced(n)
      BY <3>1 DEF NewNodesUnmarked, PrivateNodes
    <3> QED BY <1>1, <2>1, <3>2 DEF NodeStep
  <2> QED BY <2>2, <2>3
<1> QED BY <1>1, <1>4, <1>5, <1>7, <1>8, <1>9 DEF NodeStep

-----------------------------------------------------------------------------
(***************************************************************************)
(* Facts about keys, memory and faults.                                    *)
(***************************************************************************)
(* new hands out an address that is not in use. *)
LEMMA NewNodeFresh ==
  ASSUME NEW kind \in {"bucket", "node"}, NEW h \in HashValues, Unused(kind, h) # {}
  PROVE  LET n == NewNode(kind, h) IN
         n \in Node /\ n.kind = kind /\ n.hashv = h /\ n \notin live /\ ~Referenced(n)
<1> DEFINE T == Unused(kind, h)
           c == CHOOSE x \in T : \A y \in T : x <= y
<1>1. T \in SUBSET (1 .. Copies) /\ T \in SUBSET Nat
  BY SizeAssumption DEF Unused
<1>2. \E x \in T : \A y \in T : x <= y
  <2>1. T # {}
    OBVIOUS
  <2> HIDE DEF T
  <2> QED BY <1>1, <2>1, LeastElement
<1>3. c \in T
  BY <1>2
<1>4. NewNode(kind, h) = [kind |-> kind, hashv |-> h, copy |-> c]
  BY DEF NewNode
<1> HIDE DEF c
<1>5. c \in 1 .. Copies /\ [kind |-> kind, hashv |-> h, copy |-> c] \notin live
      /\ ~Referenced([kind |-> kind, hashv |-> h, copy |-> c])
  BY <1>3 DEF Unused
<1>6. [kind |-> kind, hashv |-> h, copy |-> c] \in Node
  BY <1>5 DEF Node
<1> QED BY <1>4, <1>5, <1>6

(* The keys of nodes. *)
LEMMA Keys ==
  ASSUME NEW n \in Node
  PROVE  /\ n.kind = "node" => key(n) % 2 = 1
         /\ n.kind = "bucket" => key(n) \in HashValues /\ key(n) = reverse_hasht_bits[n.hashv]
<1>1. n.hashv \in HashValues /\ n.kind \in {"bucket", "node"}
  BY DEF Node
<1>2. reverse_hasht_bits[n.hashv] \in HashValues
  BY <1>1, HashAssumption
<1>3. sol_node_key(n.hashv) % 2 = 1
  BY <1>2, SizeAssumption DEF sol_node_key, HashValues
<1> QED BY <1>1, <1>2, <1>3 DEF key, sol_bucket_key

(* A step that is taken touches allocated nodes and existing slots only. *)
LEMMA NotFaulty ==
  ASSUME NEW t \in Accessors, Fault(t) = "none"
  PROVE  /\ ~AssertFails(acc[t])
         /\ SlotsUsed(acc[t]) \subseteq DOMAIN buckets
         /\ Touched(acc[t]) \subseteq live
         /\ At(t, "expand") /\ MustExpand(acc[t]) => ~(new_size < n_buckets)
<1>1. ~BadAccess(t) /\ ~AssertFails(acc[t])
  BY DEF Fault
<1>2. ~(At(t, "expand") /\ MustExpand(acc[t]) /\ new_size < n_buckets)
  BY <1>1 DEF BadAccess
<1>3. SlotsUsed(acc[t]) \subseteq DOMAIN buckets /\ Touched(acc[t]) \subseteq live
  BY <1>1 DEF BadAccess
<1> QED BY <1>1, <1>2, <1>3

(* The types of what is read. *)
LEMMA Reads ==
  ASSUME TypeOK
  PROVE  /\ \A s \in DOMAIN buckets : buckets[s] \in Pointer
         /\ \A n \in live : link[n] \in WordOver(Pointer) /\ link[n].ptr \in Pointer
         /\ \A t \in Accessors : Typed(acc[t])
         /\ Pointer = Node \cup {NULL}
BY DEF TypeOK, IsArray, WordOver, Typed, Pointer

-----------------------------------------------------------------------------
(***************************************************************************)
(* initialise_bucket.                                                      *)
(***************************************************************************)
LEMMA GetParentEffect ==
  ASSUME IInv, NEW t \in Accessors, Fault(t) = "none", GetParent(t)
  PROVE  Effect(t)
<1> USE DEF IInv
<1> DEFINE a == acc[t]
           step == sol_bucket_key(n_buckets \div 2)
           b == [a EXCEPT !.key_step = step, !.pb_key = key(a.bnode), !.pc = "probe"]
<1>1. acc' = [acc EXCEPT ![t] = b]
  BY DEF GetParent
<1>2. Typed(a) /\ Local(a) /\ a.pc = "get_parent"
  BY Reads DEF Locals, GetParent, At
<1>3. a.bnode \in Node /\ a.bnode.kind = "bucket"
  BY <1>2 DEF Local, Initialising
<1>4. key(a.bnode) \in HashValues
  BY <1>3, Keys
<1>5. step \in HashValues
  <2>1. n_buckets \div 2 \in HashValues
    BY SizeAssumption DEF TypeOK, HashValues
  <2> QED BY <2>1, HashAssumption DEF sol_bucket_key
<1> HIDE DEF step
<1>6. Typed(b)
  BY <1>2, <1>4, <1>5 DEF Typed, Accessor
<1>7. Local(b)
  BY <1>2 DEF Typed, Accessor, Local, Initialising
<1>8. Owned(b) = Owned(a) /\ Unlinked(b) = Unlinked(a)
  BY <1>2 DEF Typed, Accessor, Owned, Unlinked
<1>9. b.prev = a.prev /\ b.cur = a.cur /\ b.next = a.next /\ b.new_buckets = a.new_buckets
  BY <1>2 DEF Typed, Accessor
<1> HIDE DEF b
<1> QED BY <1>1, <1>6, <1>7, <1>8, <1>9, Seen, QuietEffect DEF GetParent, TypeOK

(* One bucket key down. *)
LEMMA ProbeEffect ==
  ASSUME IInv, NEW t \in Accessors, Fault(t) = "none", Probe(t)
  PROVE  Effect(t)
<1> USE DEF IInv
<1> DEFINE a == acc[t]
           pb == PreviousBucketKey(a)
           pc == IF buckets[reverse_hasht_bits[pb]] # NULL \/ pb = 0 THEN "parent_head" ELSE "probe"
           b == [a EXCEPT !.pb_key = pb, !.pc = pc]
<1>1. acc' = [acc EXCEPT ![t] = b] /\ UNCHANGED <<buckets, link, fault>>
  BY DEF Probe
<1>2. Typed(a) /\ Local(a) /\ a.pc = "probe"
  BY Reads DEF Locals, Probe, At
<1>3. pb \in HashValues
  BY <1>2, SizeAssumption DEF PreviousBucketKey, HashValues, Typed, Accessor
<1>4. pc \in {"parent_head", "probe"}
  OBVIOUS
<1> HIDE DEF pb, pc
<1>5. Typed(b)
  BY <1>2, <1>3, <1>4 DEF Typed, Accessor
<1>6. Local(b)
  BY <1>2, <1>4 DEF Typed, Accessor, Local, Initialising
<1>7. Owned(b) \subseteq Owned(a) /\ Unlinked(b) \subseteq Unlinked(a)
  BY <1>2, <1>4 DEF Typed, Accessor, Local, Initialising, Owned, Unlinked
<1>8. b.prev = a.prev /\ b.cur = a.cur /\ b.next = a.next /\ b.new_buckets = a.new_buckets
  BY <1>2 DEF Typed, Accessor
<1> HIDE DEF b
<1> QED BY <1>1, <1>5, <1>6, <1>7, <1>8, Seen, QuietEffect DEF TypeOK, Probe

(* To the node of the bucket. *)
LEMMA ParentHeadEffect ==
  ASSUME IInv, NEW t \in Accessors, Fault(t) = "none", ParentHead(t)
  PROVE  Effect(t)
<1> USE DEF IInv
<1> DEFINE a == acc[t]
           h == buckets[reverse_hasht_bits[a.pb_key]]
           b == [a EXCEPT !.prev = h, !.cur = h, !.next = link[h].ptr, !.pc = "parent_loop"]
<1>1. acc' = [acc EXCEPT ![t] = b] /\ UNCHANGED <<buckets, link, fault>>
  BY DEF ParentHead, Positioned, get
<1>2. Typed(a) /\ Local(a) /\ a.pc = "parent_head"
  BY Reads DEF Locals, ParentHead, At
<1>3. h \in live /\ h \in Node /\ link[h].ptr \in Pointer
  <2>1. Touched(a) \subseteq live
    BY NotFaulty
  <2>2. h \in live
    BY <1>2, <2>1 DEF Touched
  <2> QED BY <2>2, Reads DEF TypeOK
<1>4. reverse_hasht_bits[a.pb_key] \in DOMAIN buckets
  <2>1. SlotsUsed(a) \subseteq DOMAIN buckets
    BY NotFaulty
  <2> QED BY <1>2, <2>1 DEF SlotsUsed
<1>5. Known(t, b, h) /\ Known(t, b, link[h].ptr)
  BY <1>3, <1>4, Seen
<1>6. b.prev = h /\ b.cur = h /\ b.next = link[h].ptr /\ b.new_buckets = a.new_buckets
  BY <1>2 DEF Typed, Accessor
<1> HIDE DEF h
<1>7. Typed(b)
  BY <1>2, <1>3, Reads DEF Typed, Accessor
<1>8. Local(b)
  BY <1>2 DEF Typed, Accessor, Local, Initialising
<1>9. Owned(b) \subseteq Owned(a) /\ Unlinked(b) \subseteq Unlinked(a)
  BY <1>2 DEF Typed, Accessor, Local, Initialising, Owned, Unlinked
<1>10. /\ Known(t, b, b.prev) /\ Known(t, b, b.cur) /\ Known(t, b, b.next)
      /\ b.new_buckets = a.new_buckets
  BY <1>5, <1>6
<1> HIDE DEF b
<1> QED BY <1>1, <1>7, <1>8, <1>9, <1>10, Seen, QuietEffect DEF TypeOK, ParentHead

(* To the node of the bucket. *)
LEMMA FindHeadEffect ==
  ASSUME IInv, NEW t \in Accessors, Fault(t) = "none", FindHead(t)
  PROVE  Effect(t)
<1> USE DEF IInv
<1> DEFINE a == acc[t]
           h == buckets[a.slot]
           b == [a EXCEPT !.prev = h, !.cur = h, !.next = link[h].ptr, !.steps = 0, !.pc = "find_loop"]
<1>1. acc' = [acc EXCEPT ![t] = b] /\ UNCHANGED <<buckets, link, fault>>
  BY DEF FindHead, Positioned, get
<1>2. Typed(a) /\ Local(a) /\ a.pc = "find_head"
  BY Reads DEF Locals, FindHead, At
<1>3. h \in live /\ h \in Node /\ link[h].ptr \in Pointer
  <2>1. Touched(a) \subseteq live
    BY NotFaulty
  <2>2. h \in live
    BY <1>2, <2>1 DEF Touched
  <2> QED BY <2>2, Reads DEF TypeOK
<1>4. a.slot \in DOMAIN buckets
  <2>1. SlotsUsed(a) \subseteq DOMAIN buckets
    BY NotFaulty
  <2> QED BY <1>2, <2>1 DEF SlotsUsed
<1>5. Known(t, b, h) /\ Known(t, b, link[h].ptr)
  BY <1>3, <1>4, Seen
<1>6. b.prev = h /\ b.cur = h /\ b.next = link[h].ptr /\ b.new_buckets = a.new_buckets
  BY <1>2 DEF Typed, Accessor
<1> HIDE DEF h
<1>7. Typed(b)
  BY <1>2, <1>3, Reads DEF Typed, Accessor
<1>8. Local(b)
  BY <1>2 DEF Typed, Accessor, Local, Initialising
<1>9. Owned(b) \subseteq Owned(a) /\ Unlinked(b) \subseteq Unlinked(a)
  BY <1>2 DEF Typed, Accessor, Local, Initialising, Owned, Unlinked
<1>10. /\ Known(t, b, b.prev) /\ Known(t, b, b.cur) /\ Known(t, b, b.next)
      /\ b.new_buckets = a.new_buckets
  BY <1>5, <1>6
<1> HIDE DEF b
<1> QED BY <1>1, <1>7, <1>8, <1>9, <1>10, Seen, QuietEffect DEF TypeOK, FindHead

(* advance() in get_parent. *)
LEMMA ParentAdvanceEffect ==
  ASSUME IInv, NEW t \in Accessors, Fault(t) = "none", ParentAdvance(t)
  PROVE  Effect(t)
<1> USE DEF IInv
<1> DEFINE a == acc[t]
           b == [a EXCEPT !.prev = a.cur, !.cur = a.next, !.next = link[a.next].ptr]
<1>1. acc' = [acc EXCEPT ![t] = b] /\ UNCHANGED <<buckets, link, fault>>
  BY DEF ParentAdvance, Advanced, get
<1>2. Typed(a) /\ Local(a) /\ a.pc = "parent_loop"
  BY Reads DEF Locals, ParentAdvance, At
<1>3. a.next \in live /\ link[a.next].ptr \in Pointer
  <2>1. Touched(a) \subseteq live
    BY NotFaulty
  <2>2. a.next # NULL
    BY DEF ParentAdvance, BeforeBucket
  <2>3. a.next \in live
    BY <1>2, <2>1, <2>2 DEF Touched
  <2> QED BY <2>3, Reads
<1>4. Known(t, b, a.cur) /\ Known(t, b, a.next) /\ Known(t, b, link[a.next].ptr)
  BY <1>3, Seen
<1>5. b.prev = a.cur /\ b.cur = a.next /\ b.next = link[a.next].ptr /\ b.new_buckets = a.new_buckets
  BY <1>2 DEF Typed, Accessor
<1>6. Typed(b)
  BY <1>2, <1>3 DEF Typed, Accessor
<1>7. Local(b)
  BY <1>2 DEF Typed, Accessor, Local, Initialising
<1>8. Owned(b) \subseteq Owned(a) /\ Unlinked(b) \subseteq Unlinked(a)
  BY <1>2 DEF Typed, Accessor, Local, Initialising, Owned, Unlinked
<1>9. /\ Known(t, b, b.prev) /\ Known(t, b, b.cur) /\ Known(t, b, b.next)
      /\ b.new_buckets = a.new_buckets
  BY <1>4, <1>5
<1> HIDE DEF b
<1> QED BY <1>1, <1>6, <1>7, <1>8, <1>9, Seen, QuietEffect DEF TypeOK, ParentAdvance

(* advance() in find_node. *)
LEMMA FindAdvanceEffect ==
  ASSUME IInv, NEW t \in Accessors, Fault(t) = "none", FindAdvance(t)
  PROVE  Effect(t)
<1> USE DEF IInv
<1> DEFINE a == acc[t]
           steps == a.steps + 1
           b == [a EXCEPT !.prev = a.cur, !.cur = a.next, !.next = link[a.next].ptr, !.steps = steps]
<1>1. acc' = [acc EXCEPT ![t] = b] /\ UNCHANGED <<buckets, link, fault>>
  <2>1. Typed(a)
    BY Reads
  <2>2. acc' = [acc EXCEPT ![t] = [Advanced(a) EXCEPT !.steps = steps]]
    BY DEF FindAdvance
  <2>3. [Advanced(a) EXCEPT !.steps = steps] = b
    BY <2>1 DEF Advanced, get, Typed, Accessor
  <2> QED BY <2>2, <2>3 DEF FindAdvance
<1>2. Typed(a) /\ Local(a) /\ a.pc = "find_loop"
  BY Reads DEF Locals, FindAdvance, At
<1>3. steps \in Nat
  BY <1>2 DEF Typed, Accessor
<1> HIDE DEF steps
<1>4. a.next \in live /\ link[a.next].ptr \in Pointer
  <2>1. Touched(a) \subseteq live
    BY NotFaulty
  <2>2. a.next # NULL
    BY DEF FindAdvance, NotPast
  <2>3. a.next \in live
    BY <1>2, <2>1, <2>2 DEF Touched
  <2> QED BY <2>3, Reads
<1>5. Known(t, b, a.cur) /\ Known(t, b, a.next) /\ Known(t, b, link[a.next].ptr)
  BY <1>4, Seen
<1>6. b.prev = a.cur /\ b.cur = a.next /\ b.next = link[a.next].ptr /\ b.new_buckets = a.new_buckets
  BY <1>2 DEF Typed, Accessor
<1>7. Typed(b)
  BY <1>2, <1>4, <1>3 DEF Typed, Accessor
<1>8. Local(b)
  BY <1>2 DEF Typed, Accessor, Local, Initialising
<1>9. Owned(b) \subseteq Owned(a) /\ Unlinked(b) \subseteq Unlinked(a)
  BY <1>2 DEF Typed, Accessor, Local, Initialising, Owned, Unlinked
<1>10. /\ Known(t, b, b.prev) /\ Known(t, b, b.cur) /\ Known(t, b, b.next)
      /\ b.new_buckets = a.new_buckets
  BY <1>5, <1>6
<1> HIDE DEF b
<1> QED BY <1>1, <1>7, <1>8, <1>9, <1>10, Seen, QuietEffect DEF TypeOK, FindAdvance

(* advance() to the end of the bucket. *)
LEMMA ScanAdvanceEffect ==
  ASSUME IInv, NEW t \in Accessors, Fault(t) = "none", ScanAdvance(t)
  PROVE  Effect(t)
<1> USE DEF IInv
<1> DEFINE a == acc[t]
           steps == a.steps + 1
           b == [a EXCEPT !.prev = a.cur, !.cur = a.next, !.next = link[a.next].ptr, !.steps = steps]
<1>1. acc' = [acc EXCEPT ![t] = b] /\ UNCHANGED <<buckets, link, fault>>
  <2>1. Typed(a)
    BY Reads
  <2>2. acc' = [acc EXCEPT ![t] = [Advanced(a) EXCEPT !.steps = steps]]
    BY DEF ScanAdvance
  <2>3. [Advanced(a) EXCEPT !.steps = steps] = b
    BY <2>1 DEF Advanced, get, Typed, Accessor
  <2> QED BY <2>2, <2>3 DEF ScanAdvance
<1>2. Typed(a) /\ Local(a) /\ a.pc = "scan_loop"
  BY Reads DEF Locals, ScanAdvance, At
<1>3. steps \in Nat
  BY <1>2 DEF Typed, Accessor
<1> HIDE DEF steps
<1>4. a.next \in live /\ link[a.next].ptr \in Pointer
  <2>1. Touched(a) \subseteq live
    BY NotFaulty
  <2>2. a.next # NULL
    BY DEF ScanAdvance, InBucket
  <2>3. a.next \in live
    BY <1>2, <2>1, <2>2 DEF Touched
  <2> QED BY <2>3, Reads
<1>5. Known(t, b, a.cur) /\ Known(t, b, a.next) /\ Known(t, b, link[a.next].ptr)
  BY <1>4, Seen
<1>6. b.prev = a.cur /\ b.cur = a.next /\ b.next = link[a.next].ptr /\ b.new_buckets = a.new_buckets
  BY <1>2 DEF Typed, Accessor
<1>7. Typed(b)
  BY <1>2, <1>4, <1>3 DEF Typed, Accessor
<1>8. Local(b)
  BY <1>2 DEF Typed, Accessor, Local, Initialising
<1>9. Owned(b) \subseteq Owned(a) /\ Unlinked(b) \subseteq Unlinked(a)
  BY <1>2 DEF Typed, Accessor, Local, Initialising, Owned, Unlinked
<1>10. /\ Known(t, b, b.prev) /\ Known(t, b, b.cur) /\ Known(t, b, b.next)
      /\ b.new_buckets = a.new_buckets
  BY <1>5, <1>6
<1> HIDE DEF b
<1> QED BY <1>1, <1>7, <1>8, <1>9, <1>10, Seen, QuietEffect DEF TypeOK, ScanAdvance

(* The scan starts at cur. *)
LEMMA ScanHeadEffect ==
  ASSUME IInv, NEW t \in Accessors, Fault(t) = "none", ScanHead(t)
  PROVE  Effect(t)
<1> USE DEF IInv
<1> DEFINE a == acc[t]
           b == [a EXCEPT !.next = link[a.cur].ptr, !.pc = "scan_loop"]
<1>1. acc' = [acc EXCEPT ![t] = b] /\ UNCHANGED <<buckets, link, fault>>
  BY DEF ScanHead, get
<1>2. Typed(a) /\ Local(a) /\ a.pc = "scan_head"
  BY Reads DEF Locals, ScanHead, At
<1>3. a.cur \in live /\ link[a.cur].ptr \in Pointer
  <2>1. Touched(a) \subseteq live
    BY NotFaulty
  <2>2. a.cur \in live
    BY <1>2, <2>1 DEF Touched
  <2> QED BY <2>2, Reads
<1>4. Known(t, b, a.prev) /\ Known(t, b, a.cur) /\ Known(t, b, link[a.cur].ptr)
  BY <1>3, Seen
<1>5. b.prev = a.prev /\ b.cur = a.cur /\ b.next = link[a.cur].ptr /\ b.new_buckets = a.new_buckets
  BY <1>2 DEF Typed, Accessor
<1>6. Typed(b)
  BY <1>2, <1>3 DEF Typed, Accessor
<1>7. Local(b)
  BY <1>2 DEF Typed, Accessor, Local, Initialising
<1>8. Owned(b) \subseteq Owned(a) /\ Unlinked(b) \subseteq Unlinked(a)
  BY <1>2 DEF Typed, Accessor, Local, Initialising, Owned, Unlinked
<1>9. /\ Known(t, b, b.prev) /\ Known(t, b, b.cur) /\ Known(t, b, b.next)
      /\ b.new_buckets = a.new_buckets
  BY <1>4, <1>5
<1> HIDE DEF b
<1> QED BY <1>1, <1>6, <1>7, <1>8, <1>9, Seen, QuietEffect DEF TypeOK, ScanHead

(* Whose node was linked? *)
LEMMA InitCheckEffect ==
  ASSUME IInv, NEW t \in Accessors, Fault(t) = "none", InitCheck(t)
  PROVE  Effect(t)
<1> USE DEF IInv
<1> DEFINE a == acc[t]
           pc == IF get(link[a.cur]) = a.bnode THEN "init_own" ELSE "init_other"
           b == [a EXCEPT !.pc = pc]
<1>1. acc' = [acc EXCEPT ![t] = b] /\ UNCHANGED <<buckets, link, fault>>
  BY DEF InitCheck
<1>2. Typed(a) /\ Local(a) /\ a.pc = "init_check"
  BY Reads DEF Locals, InitCheck, At
<1>3. pc \in {"init_own", "init_other"}
  OBVIOUS
<1> HIDE DEF pc
<1>4. Typed(b)
  BY <1>2, <1>3 DEF Typed, Accessor
<1>5. Local(b)
  BY <1>2, <1>3 DEF Typed, Accessor, Local, Initialising
<1>6. Owned(b) \subseteq Owned(a) /\ Unlinked(b) \subseteq Unlinked(a)
  BY <1>2, <1>3 DEF Typed, Accessor, Local, Initialising, Owned, Unlinked
<1>7. b.prev = a.prev /\ b.cur = a.cur /\ b.next = a.next /\ b.new_buckets = a.new_buckets
  BY <1>2 DEF Typed, Accessor
<1> HIDE DEF b
<1> QED BY <1>1, <1>4, <1>5, <1>6, <1>7, Seen, QuietEffect DEF TypeOK, InitCheck

(* Not found: on to the CAS. *)
LEMMA InsertNotFoundEffect ==
  ASSUME IInv, NEW t \in Accessors, Fault(t) = "none", InsertNotFound(t)
  PROVE  Effect(t)
<1> USE DEF IInv
<1> DEFINE a == acc[t]
           b == [a EXCEPT !.pc = "link"]
<1>1. acc' = [acc EXCEPT ![t] = b] /\ UNCHANGED <<buckets, link, fault>>
  BY DEF InsertNotFound
<1>2. Typed(a) /\ Local(a) /\ a.pc = "find_loop"
  BY Reads DEF Locals, InsertNotFound, At
<1>3. a.op = "insert"
  BY DEF InsertNotFound
<1>4. Typed(b)
  BY <1>2 DEF Typed, Accessor
<1>5. Local(b)
  BY <1>2, <1>3 DEF Typed, Accessor, Local, Initialising
<1>6. Owned(b) \subseteq Owned(a) /\ Unlinked(b) \subseteq Unlinked(a)
  BY <1>2 DEF Typed, Accessor, Local, Initialising, Owned, Unlinked
<1>7. b.prev = a.prev /\ b.cur = a.cur /\ b.next = a.next /\ b.new_buckets = a.new_buckets
  BY <1>2 DEF Typed, Accessor
<1> HIDE DEF b
<1> QED BY <1>1, <1>4, <1>5, <1>6, <1>7, Seen, QuietEffect DEF TypeOK, InsertNotFound

(* The item is counted. *)
LEMMA InsertCountEffect ==
  ASSUME IInv, NEW t \in Accessors, Fault(t) = "none", InsertCount(t)
  PROVE  Effect(t)
<1> USE DEF IInv
<1> DEFINE a == acc[t]
           b == [a EXCEPT !.pc = "scan_head"]
<1>1. acc' = [acc EXCEPT ![t] = b] /\ UNCHANGED <<buckets, link, fault>>
  BY DEF InsertCount
<1>2. Typed(a) /\ Local(a) /\ a.pc = "count"
  BY Reads DEF Locals, InsertCount, At
<1>3. n_items' \in HashValues
  BY SizeAssumption DEF InsertCount, inc_item_count, TypeOK, HashValues
<1>4. Typed(b)
  BY <1>2 DEF Typed, Accessor
<1>5. Local(b)
  BY <1>2 DEF Typed, Accessor, Local, Initialising
<1>6. Owned(b) \subseteq Owned(a) /\ Unlinked(b) \subseteq Unlinked(a)
  BY <1>2 DEF Typed, Accessor, Local, Initialising, Owned, Unlinked
<1>7. b.prev = a.prev /\ b.cur = a.cur /\ b.next = a.next /\ b.new_buckets = a.new_buckets
  BY <1>2 DEF Typed, Accessor
<1> HIDE DEF b
<1> QED BY <1>1, <1>3, <1>4, <1>5, <1>6, <1>7, Seen, QuietEffect DEF TypeOK, InsertCount

(* A key that is found is the key of a data node. *)
LEMMA DeleteFoundEffect ==
  ASSUME IInv, NEW t \in Accessors, Fault(t) = "none", DeleteFound(t)
  PROVE  Effect(t)
<1> USE DEF IInv
<1> DEFINE a == acc[t]
           b == [a EXCEPT !.pc = "mark"]
<1>1. acc' = [acc EXCEPT ![t] = b] /\ UNCHANGED <<buckets, link, fault>>
  BY DEF DeleteFound
<1>2. Typed(a) /\ Local(a) /\ a.pc = "find_loop"
  BY Reads DEF Locals, DeleteFound, At
<1>3. a.op = "delete" /\ a.cur \in live
  <2>1. Touched(a) \subseteq live
    BY NotFaulty
  <2> QED BY <1>2, <2>1 DEF DeleteFound, Touched
<1>4. a.cur \in Node /\ a.cur.kind = "node"
  <2>1. a.cur \in Node /\ a.cur.kind \in {"bucket", "node"} /\ a.hashv \in HashValues
    BY <1>2, <1>3 DEF TypeOK, Node, Typed, Accessor
  <2>2. sol_node_key(a.hashv) % 2 = 1
    <3>1. reverse_hasht_bits[a.hashv] \in HashValues
      BY <2>1, HashAssumption
    <3> QED BY <3>1, SizeAssumption DEF sol_node_key, HashValues
  <2>3. key(a.cur) = sol_node_key(a.hashv)
    BY DEF DeleteFound, Found
  <2>4. key(a.cur) % 2 # 0
    BY <2>2, <2>3
  <2> QED BY <1>3, <2>1, <2>4 DEF BucketNodes
<1>5. Typed(b)
  BY <1>2 DEF Typed, Accessor
<1>6. Local(b)
  BY <1>2, <1>3, <1>4 DEF Typed, Accessor, Local, Initialising
<1>7. Owned(b) \subseteq Owned(a) /\ Unlinked(b) \subseteq Unlinked(a)
  BY <1>2 DEF Typed, Accessor, Local, Initialising, Owned, Unlinked
<1>8. b.prev = a.prev /\ b.cur = a.cur /\ b.next = a.next /\ b.new_buckets = a.new_buckets
  BY <1>2 DEF Typed, Accessor
<1> HIDE DEF b
<1> QED BY <1>1, <1>5, <1>6, <1>7, <1>8, Seen, QuietEffect DEF TypeOK, DeleteFound

(* A call. *)
LEMMA CallEffect ==
  ASSUME IInv, NEW t \in Accessors, NEW op \in Ops, NEW h \in Hashes, Call(t, op, h)
  PROVE  Effect(t)
<1> USE DEF IInv
<1> DEFINE a == acc[t]
           pc == IF op = "insert" THEN "insert_new" ELSE "find"
           b == [a EXCEPT !.op = op, !.hashv = h, !.pc = pc]
<1>1. acc' = [acc EXCEPT ![t] = b] /\ UNCHANGED <<buckets, link, fault>>
  BY DEF Call
<1>2. Typed(a) /\ Local(a) /\ a.pc = "idle"
  BY Reads DEF Locals, Call, At
<1>3. pc \in {"insert_new", "find"} /\ (pc = "insert_new" <=> op = "insert")
  OBVIOUS
<1>4. op \in {"insert", "delete", "find"} /\ h \in HashValues
  BY OpsAssumption, HashAssumption DEF Call
<1> HIDE DEF pc
<1>5. Typed(b)
  BY <1>2, <1>3, <1>4 DEF Typed, Accessor
<1>6. Local(b)
  BY <1>2, <1>3, <1>4 DEF Typed, Accessor, Local, Initialising
<1>7. Owned(b) \subseteq Owned(a) /\ Unlinked(b) \subseteq Unlinked(a)
  BY <1>2, <1>3 DEF Typed, Accessor, Local, Initialising, Owned, Unlinked
<1>8. b.prev = a.prev /\ b.cur = a.cur /\ b.next = a.next /\ b.new_buckets = a.new_buckets
  BY <1>2 DEF Typed, Accessor
<1> HIDE DEF b
<1> QED BY <1>1, <1>5, <1>6, <1>7, <1>8, Seen, QuietEffect DEF TypeOK, Call

(* A call of initialise_bucket. *)
LEMMA InitCallEffect ==
  ASSUME IInv, NEW t \in Accessors, NEW s \in 0 .. n_buckets - 1, InitCall(t, s)
  PROVE  Effect(t)
<1> USE DEF IInv
<1> DEFINE a == acc[t]
           b == [a EXCEPT !.op = "init", !.bslot = s, !.ret = "idle", !.pc = "init_enter"]
<1>1. acc' = [acc EXCEPT ![t] = b] /\ UNCHANGED <<buckets, link, fault>>
  BY DEF InitCall
<1>2. Typed(a) /\ Local(a) /\ a.pc = "idle"
  BY Reads DEF Locals, InitCall, At
<1>3. s \in HashValues
  BY SizeAssumption DEF TypeOK, HashValues
<1>4. Typed(b)
  BY <1>2, <1>3 DEF Typed, Accessor
<1>5. Local(b)
  BY <1>2 DEF Typed, Accessor, Local, Initialising
<1>6. Owned(b) \subseteq Owned(a) /\ Unlinked(b) \subseteq Unlinked(a)
  BY <1>2 DEF Typed, Accessor, Local, Initialising, Owned, Unlinked
<1>7. b.prev = a.prev /\ b.cur = a.cur /\ b.next = a.next /\ b.new_buckets = a.new_buckets
  BY <1>2 DEF Typed, Accessor
<1> HIDE DEF b
<1> QED BY <1>1, <1>4, <1>5, <1>6, <1>7, Seen, QuietEffect DEF TypeOK, InitCall

(* An accessor that writes links or slots of existing nodes. *)
LEMMA WriteEffect ==
  ASSUME IInv, NEW t \in Accessors, NEW a, acc' = [acc EXCEPT ![t] = a],
         Typed(a), Local(a),
         n_buckets' \in 1 .. Modulus - 1, n_items' \in HashValues,
         fault' \in {"none", "assert", "memory"},
         IsArray(buckets'), \A s \in DOMAIN buckets' : Known(t, a, buckets'[s]),
         link' \in [live -> WordOver(Pointer)],
         \A m \in live : Known(t, a, link'[m].ptr),
         \A m \in live : link'[m].mark => link[m].mark \/ (m.kind = "node" /\ Referenced(m)),
         \A m \in live : link[m].mark => link'[m] = link[m],
         Known(t, a, a.prev), Known(t, a, a.cur), Known(t, a, a.next),
         \A s \in DOMAIN a.new_buckets : Known(t, a, a.new_buckets[s]),
         Owned(a) \subseteq Owned(acc[t]), Unlinked(a) \subseteq Unlinked(acc[t])
  PROVE  Effect(t)
<1> USE DEF IInv
<1>1. live' = live
  BY DEF live
<1>2. Globals'
  BY <1>1 DEF TypeOK, Globals
<1>3. BucketNodes'
  BY <1>1 DEF BucketNodes
<1>4. \A n \in Node : Referenced(n)' => Known(t, a, n)
  BY <1>1, Visible
<1>5. NodeStep(t, a)
  BY <1>1 DEF NodeStep, OwnedNodes
<1> QED BY <1>2, <1>3, <1>4, <1>5 DEF Effect

(* delete. *)
LEMMA FreeEffect ==
  ASSUME IInv, NEW t \in Accessors, NEW a, acc' = [acc EXCEPT ![t] = a],
         Typed(a), Local(a), NEW x, Free(x), x \notin Owned(a),
         x \in Owned(acc[t]) \/ (x = acc[t].cur /\ x.kind = "node"),
         UNCHANGED <<n_buckets, buckets, fault>>, n_items' \in HashValues,
         Known(t, a, a.prev), Known(t, a, a.cur), Known(t, a, a.next),
         \A s \in DOMAIN a.new_buckets : Known(t, a, a.new_buckets[s]),
         Owned(a) \subseteq Owned(acc[t]), Unlinked(a) \subseteq Unlinked(acc[t])
  PROVE  Effect(t)
<1> USE DEF IInv
<1>1. live' = live \ {x} /\ \A m \in live' : link'[m] = link[m]
  BY DEF Free, live
<1>2. link' \in [live' -> WordOver(Pointer)]
  <2>1. \A m \in live \ {x} : link[m] \in WordOver(Pointer)
    BY Reads
  <2> QED BY <1>1, <2>1 DEF Free
<1>3. Globals' /\ BucketNodes'
  BY <1>1, <1>2 DEF TypeOK, Globals, BucketNodes, IsArray
<1>4. \A n \in Node : Referenced(n)' => Known(t, a, n)
  <2>1. \A s \in DOMAIN buckets' : Known(t, a, buckets'[s])
    BY Seen
  <2>2. \A m \in live' : Known(t, a, link'[m].ptr)
    BY <1>1, Seen
  <2> QED BY <2>1, <2>2, Visible
<1>5. x = acc[t].cur => Referenced(x)
  BY DEF Referenced
<1>6. NodeStep(t, a)
  BY <1>1, <1>5 DEF NodeStep, OwnedNodes
<1> QED BY <1>3, <1>4, <1>6 DEF Effect

(* new. *)
LEMMA AllocateEffect ==
  ASSUME IInv, NEW t \in Accessors, NEW a, acc' = [acc EXCEPT ![t] = a],
         Typed(a), Local(a), NEW x \in Node, Allocate(x), x \notin live, ~Referenced(x),
         x.kind = "bucket" => key(x) % 2 = 0,
         UNCHANGED <<n_buckets, buckets, n_items, fault>>,
         Known(t, a, a.prev), Known(t, a, a.cur), Known(t, a, a.next),
         \A s \in DOMAIN a.new_buckets : Known(t, a, a.new_buckets[s]),
         Owned(a) \subseteq Owned(acc[t]) \cup {x},
         Unlinked(a) \subseteq Unlinked(acc[t]) \cup {x}
  PROVE  Effect(t)
<1> USE DEF IInv
<1>1. /\ live' = live \cup {x}
      /\ \A m \in live : link'[m] = link[m]
      /\ link'[x] = Word(NULL, FALSE)
  BY DEF Allocate, live
<1>2. link' \in [live' -> WordOver(Pointer)]
  <2>1. \A m \in live : link[m] \in WordOver(Pointer)
    BY Reads
  <2>2. Word(NULL, FALSE) \in WordOver(Pointer)
    BY DEF Word, WordOver, Pointer
  <2> QED BY <1>1, <2>1, <2>2 DEF Allocate
<1>3. Globals'
  BY <1>1, <1>2 DEF TypeOK, Globals, IsArray
<1>4. BucketNodes'
  BY <1>1 DEF BucketNodes, Word
<1>5. \A n \in Node : Referenced(n)' => Known(t, a, n)
  <2>1. \A s \in DOMAIN buckets' : Known(t, a, buckets'[s])
    BY Seen
  <2>2. \A m \in live' : Known(t, a, link'[m].ptr)
    BY <1>1, Seen DEF Word
  <2> QED BY <2>1, <2>2, Visible
<1>6. ~link'[x].mark
  BY <1>1 DEF Word
<1>7. NodeStep(t, a)
  BY <1>1, <1>6 DEF NodeStep, OwnedNodes
<1> QED BY <1>3, <1>4, <1>5, <1>7 DEF Effect

(* The accessor that has returned. *)
LEMMA Idle ==
  /\ Typed(IdleAccessor) /\ Local(IdleAccessor)
  /\ Owned(IdleAccessor) = {} /\ Unlinked(IdleAccessor) = {}
  /\ IdleAccessor.prev = NULL /\ IdleAccessor.cur = NULL /\ IdleAccessor.next = NULL
  /\ DOMAIN IdleAccessor.new_buckets = {}
<1>1. NoArray = [s \in {} |-> NULL] /\ DOMAIN NoArray = {}
  BY DEF NoArray
<1>2. IsArray(NoArray)
  <2>1. 0 \in 0 .. Modulus /\ 0 .. 0 - 1 = {}
    BY SizeAssumption
  <2>2. NoArray \in [0 .. 0 - 1 -> Pointer]
    BY <2>1 DEF NoArray
  <2> QED BY <2>1, <2>2 DEF IsArray
<1>3. 0 \in HashValues
  BY SizeAssumption DEF HashValues
<1>4. IdleAccessor \in Accessor(NoArray) /\ IdleAccessor.new_buckets = NoArray
  BY <1>3 DEF IdleAccessor, Accessor, Pointer
<1>5. Local(IdleAccessor)
  BY DEF IdleAccessor, Local, Initialising
<1>6. Owned(IdleAccessor) = {} /\ Unlinked(IdleAccessor) = {}
  BY DEF IdleAccessor, Owned, Unlinked
<1>7. IdleAccessor.prev = NULL /\ IdleAccessor.cur = NULL /\ IdleAccessor.next = NULL
  BY DEF IdleAccessor
<1> QED BY <1>1, <1>2, <1>4, <1>5, <1>6, <1>7 DEF Typed

(* A call that only returns. *)
LEMMA ReturnEffect ==
  ASSUME IInv, NEW t \in Accessors, acc' = [acc EXCEPT ![t] = IdleAccessor],
         UNCHANGED <<n_buckets, buckets, n_items, link, fault>>
  PROVE  Effect(t)
BY Idle, Seen, QuietEffect DEF IInv, TypeOK

(* The return of initialise_bucket to find_node or to the caller. *)
LEMMA InitReturnedFacts ==
  ASSUME IInv, NEW t \in Accessors, Initialising(acc[t])
  PROVE  LET a == acc[t]
             b == InitReturned(a)
         IN  /\ Typed(b) /\ Local(b)
             /\ Owned(b) \subseteq Unlinked(a) /\ Unlinked(b) \subseteq Unlinked(a)
             /\ \A n \in Owned(b) : n = a.dnode /\ a.op = "insert"
             /\ Known(t, b, b.prev) /\ Known(t, b, b.cur) /\ Known(t, b, b.next)
             /\ \A s \in DOMAIN b.new_buckets : Known(t, b, b.new_buckets[s])
<1> DEFINE a == acc[t]
           b == InitReturned(a)
<1>1. Typed(a) /\ Local(a)
  BY Reads DEF IInv, Locals
<1>2. CASE a.ret = "find_head"
  <2> DEFINE c == [a EXCEPT !.pc = "find_head", !.bslot = 0, !.bnode = NULL,
                            !.key_step = 0, !.pb_key = 0, !.ret = "none"]
  <2>1. b = c
    BY <1>2 DEF InitReturned
  <2>2. 0 \in HashValues /\ NULL \in Pointer
    BY SizeAssumption DEF HashValues, Pointer
  <2>3. Typed(c)
    BY <1>1, <2>2 DEF Typed, Accessor
  <2>4. Local(c)
    BY <1>1 DEF Typed, Accessor, Local, Initialising
  <2>5. /\ Owned(c) \subseteq Unlinked(a) /\ Unlinked(c) \subseteq Unlinked(a)
        /\ \A n \in Owned(c) : n = a.dnode /\ a.op = "insert"
    BY <1>1, <1>2 DEF Typed, Accessor, Owned, Unlinked
  <2>6. c.prev = a.prev /\ c.cur = a.cur /\ c.next = a.next /\ c.new_buckets = a.new_buckets
    BY <1>1 DEF Typed, Accessor
  <2> HIDE DEF c
  <2> QED BY <2>1, <2>3, <2>4, <2>5, <2>6, Seen DEF IInv
<1>3. CASE a.ret # "find_head"
  <2>1. b = IdleAccessor
    BY <1>3 DEF InitReturned
  <2> QED BY <2>1, Idle, Seen DEF IInv
<1> QED BY <1>2, <1>3

-----------------------------------------------------------------------------
(***************************************************************************)
(* Steps with several outcomes, and those that write.                      *)
(***************************************************************************)
(* find_node starts in its bucket, or initialises it first. *)
LEMMA FindStartEffect ==
  ASSUME IInv, NEW t \in Accessors, FindStart(t)
  PROVE  Effect(t)
<1> USE DEF IInv
<1> DEFINE a == acc[t]
           s == a.hashv % n_buckets
<1>1. Typed(a) /\ Local(a) /\ a.pc = "find"
  BY Reads DEF Locals, FindStart, At
<1>2. s \in HashValues
  <2>1. a.hashv \in Nat /\ n_buckets \in Nat /\ n_buckets > 0 /\ n_buckets < Modulus
    BY <1>1, SizeAssumption DEF Typed, Accessor, TypeOK, HashValues
  <2>2. s \in 0 .. n_buckets - 1
    BY <2>1
  <2> QED BY <2>1, <2>2, SizeAssumption DEF HashValues
<1> HIDE DEF s
<1>3. UNCHANGED <<n_buckets, n_items, buckets, link, fault>>
  BY DEF FindStart
<1>4. ASSUME NEW b, acc' = [acc EXCEPT ![t] = b],
             \/ b = [a EXCEPT !.slot = s, !.pc = "find_head"]
             \/ b = [a EXCEPT !.slot = s, !.bslot = s, !.ret = "find_head", !.pc = "init_enter"]
      PROVE  Effect(t)
  <2>1. Typed(b)
    BY <1>1, <1>2, <1>4 DEF Typed, Accessor
  <2>2. /\ b.prev = a.prev /\ b.cur = a.cur /\ b.next = a.next
        /\ b.new_buckets = a.new_buckets
        /\ b.op = a.op /\ b.dnode = a.dnode
        /\ \/ b.pc = "find_head" /\ b.ret = a.ret
           \/ b.pc = "init_enter" /\ b.ret = "find_head"
    BY <1>1, <1>4 DEF Typed, Accessor
  <2>3. Local(b)
    BY <1>1, <2>2 DEF Local, Initialising
  <2>4. Owned(b) \subseteq Owned(a) /\ Unlinked(b) \subseteq Unlinked(a)
    BY <1>1, <2>2 DEF Owned, Unlinked
  <2> QED BY <1>3, <1>4, <2>1, <2>2, <2>3, <2>4, Seen, QuietEffect DEF TypeOK
<1>5. CASE buckets[a.hashv % n_buckets] # NULL
  <2>1. acc' = [acc EXCEPT ![t] = [a EXCEPT !.slot = s, !.pc = "find_head"]]
    BY <1>5 DEF FindStart, s
  <2> QED BY <1>4, <2>1
<1>6. CASE buckets[a.hashv % n_buckets] = NULL
  <2>1. acc' = [acc EXCEPT ![t] = [a EXCEPT !.slot = s, !.bslot = s, !.ret = "find_head",
                                           !.pc = "init_enter"]]
    BY <1>6 DEF FindStart, s
  <2> QED BY <1>4, <2>1
<1> QED BY <1>5, <1>6

(* The end of the scan. *)
LEMMA ScanDoneEffect ==
  ASSUME IInv, NEW t \in Accessors, ScanDone(t)
  PROVE  Effect(t)
<1> USE DEF IInv
<1> DEFINE a == acc[t]
           s == a.hashv % n_buckets
           b == [a EXCEPT !.slot = s, !.pc = "overflow"]
<1>1. Typed(a) /\ Local(a) /\ a.pc = "scan_loop"
  BY Reads DEF Locals, ScanDone, At
<1>2. UNCHANGED <<n_buckets, n_items, buckets, link, fault>>
  BY DEF ScanDone
<1>3. CASE Overflows(a)
  <2>1. acc' = [acc EXCEPT ![t] = b]
    BY <1>3 DEF ScanDone
  <2>2. s \in HashValues
    <3>1. a.hashv \in Nat /\ n_buckets \in Nat /\ n_buckets > 0 /\ n_buckets < Modulus
      BY <1>1, SizeAssumption DEF Typed, Accessor, TypeOK, HashValues
    <3>2. s \in 0 .. n_buckets - 1
      BY <3>1
    <3> QED BY <3>1, <3>2, SizeAssumption DEF HashValues
  <2> HIDE DEF s
  <2>3. Typed(b)
    BY <1>1, <2>2 DEF Typed, Accessor
  <2>4. Local(b)
    BY <1>1 DEF Typed, Accessor, Local, Initialising
  <2>5. Owned(b) \subseteq Owned(a) /\ Unlinked(b) \subseteq Unlinked(a)
    BY <1>1 DEF Typed, Accessor, Local, Initialising, Owned, Unlinked
  <2>6. b.prev = a.prev /\ b.cur = a.cur /\ b.next = a.next /\ b.new_buckets = a.new_buckets
    BY <1>1 DEF Typed, Accessor
  <2> HIDE DEF b
  <2> QED BY <1>2, <2>1, <2>3, <2>4, <2>5, <2>6, Seen, QuietEffect DEF TypeOK
<1>4. CASE ~Overflows(a)
  <2>1. acc' = [acc EXCEPT ![t] = IdleAccessor]
    BY <1>4 DEF ScanDone, Return
  <2> QED BY <1>2, <2>1, ReturnEffect
<1> QED BY <1>3, <1>4

(* An overflowing bucket: expand, split, or leave it. *)
LEMMA OverflowEffect ==
  ASSUME IInv, NEW t \in Accessors, Overflow(t)
  PROVE  Effect(t)
<1> USE DEF IInv
<1> DEFINE a == acc[t]
           s == (a.slot + a.nbuckets \div 2) % Modulus
<1>1. Typed(a) /\ Local(a) /\ a.pc = "overflow"
  BY Reads DEF Locals, Overflow, At
<1>2. UNCHANGED <<n_buckets, n_items, buckets, link, fault>>
  BY DEF Overflow
<1>3. s \in HashValues
  <2>1. a.slot \in Nat /\ a.nbuckets \in Nat
    BY <1>1, SizeAssumption DEF Typed, Accessor, HashValues
  <2> QED BY <2>1, SizeAssumption DEF HashValues
<1>4. \/ acc' = [acc EXCEPT ![t] = [a EXCEPT !.pc = "expand"]]
      \/ acc' = [acc EXCEPT ![t] = [a EXCEPT !.bslot = s, !.ret = "idle", !.pc = "init_enter"]]
      \/ acc' = [acc EXCEPT ![t] = IdleAccessor]
  BY DEF Overflow, Return
<1> HIDE DEF s
<1>5. ASSUME NEW b, acc' = [acc EXCEPT ![t] = b],
             \/ b = [a EXCEPT !.pc = "expand"]
             \/ b = [a EXCEPT !.bslot = s, !.ret = "idle", !.pc = "init_enter"]
      PROVE  Effect(t)
  <2>1. Typed(b)
    BY <1>1, <1>3, <1>5 DEF Typed, Accessor
  <2>2. /\ b.prev = a.prev /\ b.cur = a.cur /\ b.next = a.next
        /\ b.new_buckets = a.new_buckets
        /\ b.op = a.op /\ b.dnode = a.dnode
        /\ \/ b.pc = "expand" /\ b.ret = a.ret
           \/ b.pc = "init_enter" /\ b.ret = "idle"
    BY <1>1, <1>5 DEF Typed, Accessor
  <2>3. Local(b)
    BY <1>1, <2>2 DEF Local, Initialising
  <2>4. Owned(b) \subseteq Owned(a) /\ Unlinked(b) \subseteq Unlinked(a)
    BY <1>1, <2>2 DEF Local, Initialising, Owned, Unlinked
  <2> QED BY <1>2, <1>5, <2>1, <2>2, <2>3, <2>4, Seen, QuietEffect DEF TypeOK
<1> QED BY <1>2, <1>4, <1>5, ReturnEffect

(* expand has returned. *)
LEMMA ExpandedFacts ==
  ASSUME IInv, NEW t \in Accessors, acc[t].pc \in {"expand", "expand_size"}
  PROVE  LET a == acc[t]
             b == Expanded(a)
         IN  /\ Typed(b) /\ Local(b)
             /\ Owned(b) \subseteq Owned(a) /\ Unlinked(b) \subseteq Unlinked(a)
             /\ Known(t, b, b.prev) /\ Known(t, b, b.cur) /\ Known(t, b, b.next)
             /\ DOMAIN b.new_buckets = {}
<1> DEFINE a == acc[t]
           s == (a.slot + a.nbuckets) % Modulus
           b == [a EXCEPT !.bslot = s, !.ret = "idle", !.new_buckets = NoArray,
                          !.pc = "init_enter"]
<1>1. Typed(a) /\ Local(a)
  BY Reads DEF IInv, Locals
<1>2. Expanded(a) = b
  BY DEF Expanded
<1>3. s \in HashValues
  <2>1. a.slot \in Nat /\ a.nbuckets \in Nat
    BY <1>1, SizeAssumption DEF Typed, Accessor, HashValues
  <2> QED BY <2>1, SizeAssumption DEF HashValues
<1>4. IsArray(NoArray) /\ DOMAIN NoArray = {}
  BY Idle DEF Typed, IdleAccessor
<1> HIDE DEF s
<1>5. b.new_buckets = NoArray /\ b \in Accessor(NoArray)
  BY <1>1, <1>3 DEF Typed, Accessor
<1>6. Local(b)
  BY <1>1 DEF Typed, Accessor, Local, Initialising
<1>7. Owned(b) \subseteq Owned(a) /\ Unlinked(b) \subseteq Unlinked(a)
  BY <1>1 DEF Typed, Accessor, Local, Initialising, Owned, Unlinked
<1>8. b.prev = a.prev /\ b.cur = a.cur /\ b.next = a.next
  BY <1>1 DEF Typed, Accessor
<1> HIDE DEF b
<1> QED BY <1>2, <1>4, <1>5, <1>6, <1>7, <1>8, Seen DEF Typed, IInv

(* The copy of the slots. *)
LEMMA ExpandCopyEffect ==
  ASSUME IInv, NEW t \in Accessors, Fault(t) = "none", ExpandCopy(t)
  PROVE  Effect(t)
<1> USE DEF IInv
<1> DEFINE a == acc[t]
           array == copy_of_buckets
           b == [a EXCEPT !.new_buckets = array, !.pc = "expand_swap"]
<1>1. Typed(a) /\ Local(a) /\ a.pc = "expand"
  BY Reads DEF Locals, ExpandCopy, At
<1>2. UNCHANGED <<n_buckets, n_items, buckets, link, fault>>
  BY DEF ExpandCopy
<1>3. CASE MustExpand(a)
  <2>1. acc' = [acc EXCEPT ![t] = b]
    BY <1>3 DEF ExpandCopy
  <2>2. 0 .. n_buckets - 1 \subseteq DOMAIN buckets /\ ~(new_size < n_buckets)
    <3>1. SlotsUsed(a) \subseteq DOMAIN buckets
      BY NotFaulty
    <3>2. SlotsUsed(a) = 0 .. n_buckets - 1
      BY <1>1, <1>3 DEF SlotsUsed
    <3> QED BY <1>1, <1>3, <3>1, <3>2, NotFaulty DEF At
  <2>3. new_size \in 1 .. Modulus - 1
    <3>1. n_buckets \in 1 .. Modulus - 1 /\ Modulus \in Nat
      BY SizeAssumption DEF TypeOK
    <3> QED BY <2>2, <3>1 DEF new_size
  <2>4. /\ array \in [0 .. new_size - 1 -> Pointer]
        /\ \A s \in 0 .. new_size - 1 : array[s] = NULL \/ \E r \in DOMAIN buckets : array[s] = buckets[r]
    <3>1. \A s \in 0 .. new_size - 1 : s < n_buckets => s \in DOMAIN buckets
      BY <2>2, <2>3, SizeAssumption DEF TypeOK
    <3>2. \A s \in DOMAIN buckets : buckets[s] \in Pointer
      BY Reads
    <3> QED BY <3>1, <3>2 DEF copy_of_buckets, Pointer
  <2>5. IsArray(array) /\ Slotted(array)
    BY <2>3, <2>4, SizeAssumption DEF IsArray, Slotted
  <2> HIDE DEF array
  <2>6. \A s \in DOMAIN array : Known(t, b, array[s])
    BY <2>4, Seen
  <2>7. b.new_buckets = array /\ b \in Accessor(array)
    BY <1>1 DEF Typed, Accessor
  <2>8. Local(b)
    BY <1>1, <2>5 DEF Typed, Accessor, Local, Initialising
  <2>9. Owned(b) \subseteq Owned(a) /\ Unlinked(b) \subseteq Unlinked(a)
    BY <1>1 DEF Typed, Accessor, Local, Initialising, Owned, Unlinked
  <2>10. b.prev = a.prev /\ b.cur = a.cur /\ b.next = a.next
    BY <1>1 DEF Typed, Accessor
  <2>11. Typed(b)
    BY <2>5, <2>7 DEF Typed
  <2> HIDE DEF b
  <2> QED BY <1>2, <2>1, <2>6, <2>7, <2>8, <2>9, <2>10, <2>11, Seen, QuietEffect DEF TypeOK
<1>4. CASE ~MustExpand(a)
  <2>1. acc' = [acc EXCEPT ![t] = Expanded(a)]
    BY <1>4 DEF ExpandCopy
  <2> QED BY <1>1, <1>2, <2>1, ExpandedFacts, QuietEffect DEF TypeOK
<1> QED BY <1>3, <1>4

(* The swap of the arrays. *)
LEMMA ExpandSwapEffect ==
  ASSUME IInv, NEW t \in Accessors, ExpandSwap(t)
  PROVE  Effect(t)
<1> USE DEF IInv
<1> DEFINE a == acc[t]
           b == [a EXCEPT !.pc = "expand_size"]
<1>1. Typed(a) /\ Local(a) /\ a.pc = "expand_swap"
  BY Reads DEF Locals, ExpandSwap, At
<1>2. /\ acc' = [acc EXCEPT ![t] = b] /\ buckets' = a.new_buckets
      /\ UNCHANGED <<n_buckets, n_items, link, fault>>
  BY DEF ExpandSwap
<1>3. Typed(b)
  BY <1>1 DEF Typed, Accessor
<1>4. Local(b)
  BY <1>1 DEF Typed, Accessor, Local, Initialising
<1>5. Owned(b) \subseteq Owned(a) /\ Unlinked(b) \subseteq Unlinked(a)
  BY <1>1 DEF Typed, Accessor, Local, Initialising, Owned, Unlinked
<1>6. b.prev = a.prev /\ b.cur = a.cur /\ b.next = a.next /\ b.new_buckets = a.new_buckets
  BY <1>1 DEF Typed, Accessor
<1> HIDE DEF b
<1>7. IsArray(buckets') /\ \A s \in DOMAIN buckets' : Known(t, b, buckets'[s])
  BY <1>1, <1>2, Seen DEF Typed, IsArray
<1> QED BY <1>2, <1>3, <1>4, <1>5, <1>6, <1>7, Seen, WriteEffect DEF TypeOK, BucketNodes

(* The new size. *)
LEMMA ExpandSizeEffect ==
  ASSUME IInv, NEW t \in Accessors, ExpandSize(t)
  PROVE  Effect(t)
<1> USE DEF IInv
<1> DEFINE a == acc[t]
<1>1. Local(a) /\ a.pc = "expand_size"
  BY DEF Locals, ExpandSize, At
<1>2. /\ acc' = [acc EXCEPT ![t] = Expanded(a)]
      /\ n_buckets' = Cardinality(DOMAIN a.new_buckets)
      /\ UNCHANGED <<n_items, buckets, link, fault>>
  BY DEF ExpandSize
<1>3. PICK size \in 1 .. Modulus - 1 : a.new_buckets \in [0 .. size - 1 -> Pointer]
  BY <1>1 DEF Local, Slotted
<1>4. Cardinality(0 .. size - 1) = size
  <2>1. 0 \in Int /\ size - 1 \in Int /\ size \in Int /\ 0 <= size - 1
    BY SizeAssumption
  <2>2. Cardinality(0 .. size - 1) = IF 0 > size - 1 THEN 0 ELSE size - 1 - 0 + 1
    BY <2>1, FS_Interval
  <2> QED BY <2>1, <2>2
<1>5. n_buckets' \in 1 .. Modulus - 1
  BY <1>2, <1>3, <1>4
<1> QED BY <1>1, <1>2, <1>5, ExpandedFacts, QuietEffect DEF TypeOK

(* The slot is initialised already, or a node is allocated for it. *)
LEMMA InitEnterEffect ==
  ASSUME IInv, NEW t \in Accessors, Fault(t) = "none", InitEnter(t)
  PROVE  Effect(t)
<1> USE DEF IInv
<1> DEFINE a == acc[t]
           s == a.bslot
           n == NewNode("bucket", s)
           b == [a EXCEPT !.bnode = n, !.pc = "get_parent"]
<1>1. Typed(a) /\ Local(a) /\ a.pc = "init_enter" /\ Initialising(a)
  BY Reads DEF Locals, InitEnter, At, Initialising
<1>2. UNCHANGED <<n_buckets, buckets, n_items, fault>>
  BY DEF InitEnter
<1>3. CASE buckets[s] # NULL
  <2>1. acc' = [acc EXCEPT ![t] = InitReturned(a)] /\ UNCHANGED link
    BY <1>3 DEF InitEnter
  <2>2. Unlinked(a) \subseteq Owned(a)
    BY DEF Owned
  <2> QED BY <1>1, <1>2, <2>1, <2>2, InitReturnedFacts, QuietEffect DEF TypeOK
<1>4. CASE buckets[s] = NULL
  <2>1. /\ acc' = [acc EXCEPT ![t] = b]
        /\ Unused("bucket", s) # {} /\ Allocate(n)
    BY <1>4 DEF InitEnter
  <2>2. s \in HashValues
    BY <1>1 DEF Typed, Accessor
  <2>3. n \in Node /\ n.kind = "bucket" /\ n.hashv = s /\ n \notin live /\ ~Referenced(n)
    BY <2>1, <2>2, NewNodeFresh
  <2>4. BucketKeyAsserted(s)
    <3>1. ~AssertFails(a)
      BY NotFaulty
    <3> QED BY <1>1, <1>4, <3>1 DEF AssertFails
  <2>5. key(n) % 2 = 0
    BY <2>3, <2>4 DEF key, BucketKeyAsserted
  <2> HIDE DEF n
  <2>6. Typed(b)
    BY <1>1, <2>3 DEF Typed, Accessor, Pointer
  <2>7. /\ b.prev = a.prev /\ b.cur = a.cur /\ b.next = a.next
        /\ b.new_buckets = a.new_buckets /\ b.bslot = a.bslot
        /\ b.op = a.op /\ b.dnode = a.dnode /\ b.ret = a.ret
        /\ b.pc = "get_parent" /\ b.bnode = n
    BY <1>1 DEF Typed, Accessor
  <2>8. Local(b)
    BY <1>1, <2>3, <2>4, <2>7 DEF Local, Initialising
  <2>9. Owned(b) \subseteq Owned(a) \cup {n} /\ Unlinked(b) \subseteq Unlinked(a) \cup {n}
    BY <1>1, <2>7 DEF Owned, Unlinked
  <2> HIDE DEF b
  <2> QED BY <1>2, <2>1, <2>3, <2>5, <2>6, <2>7, <2>8, <2>9, Seen, AllocateEffect
<1> QED BY <1>3, <1>4

(* The plain store to a node that is still private. *)
LEMMA InitTestEffect ==
  ASSUME IInv, NEW t \in Accessors, InitTest(t)
  PROVE  Effect(t)
<1> USE DEF IInv
<1> DEFINE a == acc[t]
           pc == IF buckets[a.bslot] # NULL \/ OtherInstance(a) THEN "init_finish" ELSE "init_cas"
           b == [a EXCEPT !.pc = pc]
<1>1. Typed(a) /\ Local(a) /\ a.pc = "parent_loop"
  BY Reads DEF Locals, InitTest, At
<1>2. /\ acc' = [acc EXCEPT ![t] = b]
      /\ link' = [link EXCEPT ![a.bnode] = assign(link[a.bnode], a.next)]
      /\ UNCHANGED <<n_buckets, buckets, n_items, fault>>
  BY DEF InitTest
<1>3. pc \in {"init_finish", "init_cas"}
  OBVIOUS
<1> HIDE DEF pc
<1>4. Typed(b)
  BY <1>1, <1>3 DEF Typed, Accessor
<1>5. Local(b)
  BY <1>1, <1>3 DEF Typed, Accessor, Local, Initialising
<1>6. Owned(b) \subseteq Owned(a) /\ Unlinked(b) \subseteq Unlinked(a)
  BY <1>1, <1>3 DEF Typed, Accessor, Owned, Unlinked
<1>7. b.prev = a.prev /\ b.cur = a.cur /\ b.next = a.next /\ b.new_buckets = a.new_buckets
  BY <1>1 DEF Typed, Accessor
<1>8. a.bnode \in Node /\ a.bnode.kind = "bucket" /\ a.next \in Pointer
  BY <1>1 DEF Local, Initialising, Typed, Accessor
<1> HIDE DEF b
<1>9. \A m \in live : link'[m] = IF m = a.bnode THEN Word(a.next, link[m].mark) ELSE link[m]
  BY <1>2 DEF TypeOK, assign
<1>10. link' \in [live -> WordOver(Pointer)]
  <2>1. a.bnode \in live => assign(link[a.bnode], a.next) \in WordOver(Pointer)
    BY <1>8, Reads DEF assign, Word, WordOver
  <2> QED BY <1>2, <2>1 DEF TypeOK
<1>11. \A m \in live : Known(t, b, link'[m].ptr)
  <2> SUFFICES ASSUME NEW m \in live PROVE Known(t, b, link'[m].ptr)
    OBVIOUS
  <2>1. link'[m].ptr = a.next \/ link'[m].ptr = link[m].ptr
    <3>1. CASE m = a.bnode
      <4>1. link'[m] = Word(a.next, link[m].mark)
        BY <1>9, <3>1
      <4> QED BY <4>1 DEF Word
    <3>2. CASE m # a.bnode
      BY <1>9, <3>2
    <3> QED BY <3>1, <3>2
  <2>2. Known(t, b, a.next) /\ Known(t, b, link[m].ptr)
    BY Seen
  <2> QED BY <2>1, <2>2
<1>12. \A m \in live : link[m].mark => link'[m] = link[m]
  BY <1>8, <1>9 DEF BucketNodes
<1>13. \A m \in live : link'[m].mark = link[m].mark
  <2> SUFFICES ASSUME NEW m \in live PROVE link'[m].mark = link[m].mark
    OBVIOUS
  <2>1. CASE m = a.bnode
    <3>1. link'[m] = Word(a.next, link[m].mark)
      BY <1>9, <2>1
    <3> QED BY <3>1 DEF Word
  <2>2. CASE m # a.bnode
    BY <1>9, <2>2
  <2> QED BY <2>1, <2>2
<1>14. IsArray(buckets') /\ \A s \in DOMAIN buckets' : Known(t, b, buckets'[s])
  BY <1>2, Seen DEF TypeOK, IsArray
<1> QED BY <1>2, <1>4, <1>5, <1>6, <1>7, <1>10, <1>11, <1>12, <1>13, <1>14, Seen,
           WriteEffect DEF TypeOK

(* A compare and exchange of the link of c. *)
LEMMA CasEffect ==
  ASSUME IInv, NEW t \in Accessors, NEW a, acc' = [acc EXCEPT ![t] = a],
         Typed(a), Local(a), UNCHANGED <<n_buckets, buckets, n_items, fault>>,
         NEW c, NEW expected, NEW desired \in Pointer, NEW mark \in BOOLEAN,
         link' = [link EXCEPT ![c] = CAS(link[c], expected, desired, mark)],
         c \in live /\ CASMatches(link[c], expected) => Known(t, a, desired),
         mark => c.kind = "node" /\ Referenced(c),
         a.prev = acc[t].prev, a.cur = acc[t].cur, a.next = acc[t].next,
         a.new_buckets = acc[t].new_buckets,
         Owned(a) \subseteq Owned(acc[t]), Unlinked(a) \subseteq Unlinked(acc[t])
  PROVE  Effect(t)
<1> USE DEF IInv
<1>1. \A m \in live : link'[m] = IF m = c /\ CASMatches(link[c], expected)
                                 THEN Word(desired, mark) ELSE link[m]
  BY DEF TypeOK, CAS
<1>2. Word(desired, mark) \in WordOver(Pointer)
  BY DEF Word, WordOver
<1>3. link' \in [live -> WordOver(Pointer)]
  <2>1. \A m \in live : link'[m] \in WordOver(Pointer)
    BY <1>1, <1>2, Reads
  <2>2. DOMAIN link' = live /\ link' = [m \in live |-> link'[m]]
    BY DEF TypeOK
  <2> QED BY <2>1, <2>2
<1>4. \A m \in live : Known(t, a, link'[m].ptr)
  BY <1>1, Seen DEF Word
<1>5. \A m \in live : link[m].mark => link'[m] = link[m]
  BY <1>1 DEF CASMatches, Word
<1>6. \A m \in live : link'[m].mark => link[m].mark \/ (m.kind = "node" /\ Referenced(m))
  BY <1>1 DEF Word
<1>7. IsArray(buckets') /\ \A s \in DOMAIN buckets' : Known(t, a, buckets'[s])
  BY Seen DEF TypeOK, IsArray
<1> QED BY <1>3, <1>4, <1>5, <1>6, <1>7, Seen, WriteEffect DEF TypeOK

(* The CAS that links a bucket node. *)
LEMMA InitCasEffect ==
  ASSUME IInv, NEW t \in Accessors, InitCas(t)
  PROVE  Effect(t)
<1> USE DEF IInv
<1> DEFINE a == acc[t]
           pc == IF CASMatches(link[a.cur], a.next) THEN "init_finish" ELSE "get_parent"
           b == [a EXCEPT !.pc = pc]
<1>1. Typed(a) /\ Local(a) /\ a.pc = "init_cas"
  BY Reads DEF Locals, InitCas, At
<1>2. /\ acc' = [acc EXCEPT ![t] = b]
      /\ link' = [link EXCEPT ![a.cur] = CAS(link[a.cur], a.next, a.bnode, FALSE)]
      /\ UNCHANGED <<n_buckets, buckets, n_items, fault>>
  BY DEF InitCas
<1>3. /\ pc \in {"init_finish", "get_parent"}
      /\ CASMatches(link[a.cur], a.next) => pc = "init_finish"
  OBVIOUS
<1> HIDE DEF pc
<1>4. Typed(b)
  BY <1>1, <1>3 DEF Typed, Accessor
<1>5. Local(b)
  BY <1>1, <1>3 DEF Typed, Accessor, Local, Initialising
<1>6. Owned(b) \subseteq Owned(a) /\ Unlinked(b) \subseteq Unlinked(a)
  BY <1>1, <1>3 DEF Typed, Accessor, Owned, Unlinked
<1>7. b.prev = a.prev /\ b.cur = a.cur /\ b.next = a.next /\ b.new_buckets = a.new_buckets
  BY <1>1 DEF Typed, Accessor
<1>8. a.bnode \in Node /\ a.bnode.kind = "bucket" /\ a.bnode \in Pointer
  BY <1>1 DEF Local, Initialising, Pointer
<1>9. CASMatches(link[a.cur], a.next) => Known(t, b, a.bnode)
  <2>1. a.bnode \in Owned(a)
    BY <1>1 DEF Owned, Unlinked
  <2>2. b.pc = pc /\ b.op = a.op /\ b.dnode = a.dnode
    BY <1>1 DEF Typed, Accessor
  <2>3. a.op = "insert" => a.dnode.kind = "node"
    BY <1>1 DEF Local
  <2>4. pc = "init_finish" => a.bnode \notin Unlinked(b)
    BY <1>8, <2>2, <2>3 DEF Unlinked
  <2> QED BY <1>3, <2>1, <2>4 DEF Known
<1> HIDE DEF b
<1> QED BY <1>2, <1>4, <1>5, <1>6, <1>7, <1>8, <1>9, CasEffect


(* The slot is still empty, or another thread has published its node. *)
LEMMA InitFinishEffect ==
  ASSUME IInv, NEW t \in Accessors, InitFinish(t)
  PROVE  Effect(t)
<1> USE DEF IInv
<1> DEFINE a == acc[t]
<1>1. Typed(a) /\ Local(a) /\ a.pc = "init_finish"
  BY Reads DEF Locals, InitFinish, At
<1>2. UNCHANGED <<n_buckets, buckets, n_items, fault>>
  BY DEF InitFinish
<1>3. \/ acc' = [acc EXCEPT ![t] = [a EXCEPT !.pc = "init_check"]] /\ UNCHANGED link
      \/ acc' = [acc EXCEPT ![t] = [a EXCEPT !.pc = "init_assert"]] /\ Free(a.bnode)
  BY DEF InitFinish
<1>4. ASSUME NEW b, b = [a EXCEPT !.pc = "init_check"] \/ b = [a EXCEPT !.pc = "init_assert"]
      PROVE  /\ Typed(b) /\ Local(b)
             /\ Owned(b) \subseteq Owned(a) /\ Unlinked(b) \subseteq Unlinked(a)
             /\ b.prev = a.prev /\ b.cur = a.cur /\ b.next = a.next
             /\ b.new_buckets = a.new_buckets
             /\ b.pc = "init_assert" => a.bnode \notin Owned(b)
             /\ a.bnode \in Owned(a)
  <2>1. Typed(b)
    BY <1>1, <1>4 DEF Typed, Accessor
  <2>2. /\ b.prev = a.prev /\ b.cur = a.cur /\ b.next = a.next
        /\ b.new_buckets = a.new_buckets /\ b.bslot = a.bslot
        /\ b.op = a.op /\ b.dnode = a.dnode /\ b.ret = a.ret /\ b.bnode = a.bnode
        /\ b.pc \in {"init_check", "init_assert"}
    BY <1>1, <1>4 DEF Typed, Accessor
  <2>3. Local(b)
    BY <1>1, <2>2 DEF Local, Initialising
  <2>4. Owned(b) \subseteq Owned(a) /\ Unlinked(b) \subseteq Unlinked(a)
    BY <1>1, <2>2 DEF Owned, Unlinked
  <2>5. a.bnode.kind = "bucket" /\ (a.op = "insert" => a.dnode.kind = "node")
    BY <1>1 DEF Local, Initialising
  <2>6. b.pc = "init_assert" => a.bnode \notin Owned(b)
    BY <2>2, <2>5 DEF Owned, Unlinked
  <2>7. a.bnode \in Owned(a)
    BY <1>1 DEF Owned
  <2> QED BY <2>1, <2>2, <2>3, <2>4, <2>6, <2>7
<1>5. ASSUME NEW b, b = [a EXCEPT !.pc = "init_check"],
             acc' = [acc EXCEPT ![t] = b], UNCHANGED link
      PROVE  Effect(t)
  BY <1>2, <1>4, <1>5, Seen, QuietEffect DEF TypeOK
<1>6. ASSUME NEW b, b = [a EXCEPT !.pc = "init_assert"],
             acc' = [acc EXCEPT ![t] = b], Free(a.bnode)
      PROVE  Effect(t)
  <2>1. b.pc = "init_assert"
    BY <1>1, <1>6 DEF Typed, Accessor
  <2> QED BY <1>2, <1>4, <1>6, <2>1, Seen, FreeEffect DEF TypeOK
<1> QED BY <1>3, <1>5, <1>6

(* The slot gets a node that is linked, its own or that of another thread. *)
LEMMA PublishEffect ==
  ASSUME IInv, NEW t \in Accessors, InitOwn(t) \/ InitOther(t)
  PROVE  Effect(t)
<1> USE DEF IInv
<1> DEFINE a == acc[t]
<1>1. Typed(a) /\ Local(a) /\ a.pc \in {"init_own", "init_other"}
  BY Reads DEF Locals, InitOwn, InitOther, At
<1>2. UNCHANGED <<n_buckets, n_items, link, fault>>
  BY DEF InitOwn, InitOther
<1>3. ASSUME NEW b, NEW p, acc' = [acc EXCEPT ![t] = b],
             buckets' = [buckets EXCEPT ![a.bslot] = p],
             \/ b = [a EXCEPT !.next = a.bnode, !.pc = "init_assert"] /\ p = a.bnode
                /\ a.pc = "init_own"
             \/ b = [a EXCEPT !.pc = "init_discard"] /\ p = a.next /\ a.pc = "init_other"
      PROVE  Effect(t)
  <2>1. a.bnode \in Node /\ a.bnode.kind = "bucket" /\ (a.op = "insert" => a.dnode.kind = "node")
    BY <1>1 DEF Local, Initialising
  <2>2. Typed(b)
    <3>1. a.bnode \in Pointer
      BY <2>1 DEF Pointer
    <3> QED BY <1>1, <1>3, <3>1 DEF Typed, Accessor
  <2>3. /\ b.prev = a.prev /\ b.cur = a.cur /\ b.next = p
        /\ b.new_buckets = a.new_buckets /\ b.bslot = a.bslot
        /\ b.op = a.op /\ b.dnode = a.dnode /\ b.ret = a.ret /\ b.bnode = a.bnode
        /\ \/ b.pc = "init_assert" /\ a.pc = "init_own" /\ p = a.bnode
           \/ b.pc = "init_discard" /\ a.pc = "init_other" /\ p = a.next
    BY <1>1, <1>3 DEF Typed, Accessor
  <2>4. Local(b)
    BY <1>1, <2>3 DEF Local, Initialising
  <2>5. Owned(b) \subseteq Owned(a) /\ Unlinked(b) \subseteq Unlinked(a)
    BY <1>1, <2>3 DEF Owned, Unlinked
  <2>6. p \in Pointer /\ Known(t, b, p)
    <3>1. CASE p = a.bnode /\ b.pc = "init_assert"
      <4>1. a.bnode \in Owned(a)
        BY <1>1 DEF Owned
      <4>2. a.bnode \notin Unlinked(b)
        BY <2>1, <2>3, <3>1 DEF Unlinked
      <4> QED BY <2>1, <3>1, <4>1, <4>2 DEF Known, Pointer
    <3>2. CASE p = a.next
      BY <1>1, <3>2, Seen DEF Typed, Accessor
    <3> QED BY <2>3, <3>1, <3>2
  <2>7. IsArray(buckets')
    <3>1. PICK size \in 0 .. Modulus : buckets \in [0 .. size - 1 -> Pointer]
      BY DEF TypeOK, IsArray
    <3>2. buckets' \in [0 .. size - 1 -> Pointer]
      BY <1>3, <2>6, <3>1
    <3> QED BY <3>2 DEF IsArray
  <2>8. \A s \in DOMAIN buckets' : Known(t, b, buckets'[s])
    <3> SUFFICES ASSUME NEW s \in DOMAIN buckets' PROVE Known(t, b, buckets'[s])
      OBVIOUS
    <3>1. s \in DOMAIN buckets /\ buckets'[s] \in {p, buckets[s]}
      BY <1>3
    <3> QED BY <2>6, <3>1, Seen
  <2> QED BY <1>2, <1>3, <2>2, <2>3, <2>4, <2>5, <2>6, <2>7, <2>8, Seen, WriteEffect
          DEF TypeOK
<1>4. CASE InitOwn(t)
  <2>1. /\ buckets' = [buckets EXCEPT ![a.bslot] = a.bnode] /\ a.pc = "init_own"
        /\ acc' = [acc EXCEPT ![t] = [a EXCEPT !.next = a.bnode, !.pc = "init_assert"]]
    BY <1>4 DEF InitOwn, Published, At
  <2> QED BY <1>3, <2>1
<1>5. CASE InitOther(t)
  <2>1. /\ buckets' = [buckets EXCEPT ![a.bslot] = a.next] /\ a.pc = "init_other"
        /\ acc' = [acc EXCEPT ![t] = [a EXCEPT !.pc = "init_discard"]]
    BY <1>5 DEF InitOther, At
  <2> QED BY <1>3, <2>1
<1> QED BY <1>4, <1>5

(* The node of the thread that lost the race is deleted. *)
LEMMA InitDiscardEffect ==
  ASSUME IInv, NEW t \in Accessors, InitDiscard(t)
  PROVE  Effect(t)
<1> USE DEF IInv
<1> DEFINE a == acc[t]
           b == [a EXCEPT !.pc = "init_assert"]
<1>1. Typed(a) /\ Local(a) /\ a.pc = "init_discard"
  BY Reads DEF Locals, InitDiscard, At
<1>2. /\ UNCHANGED <<n_buckets, buckets, n_items, fault>>
      /\ acc' = [acc EXCEPT ![t] = b] /\ Free(a.bnode)
  BY DEF InitDiscard
<1>3. Typed(b)
  BY <1>1 DEF Typed, Accessor
<1>4. Local(b)
  BY <1>1 DEF Typed, Accessor, Local, Initialising
<1>5. Owned(b) \subseteq Owned(a) /\ Unlinked(b) \subseteq Unlinked(a)
  BY <1>1 DEF Typed, Accessor, Owned, Unlinked
<1>6. b.prev = a.prev /\ b.cur = a.cur /\ b.next = a.next /\ b.new_buckets = a.new_buckets
  BY <1>1 DEF Typed, Accessor
<1>7. a.bnode \in Owned(a) /\ a.bnode \notin Owned(b)
  <2>1. a.bnode.kind = "bucket" /\ (a.op = "insert" => a.dnode.kind = "node")
    BY <1>1 DEF Local, Initialising
  <2>2. b.pc = "init_assert" /\ b.op = a.op /\ b.dnode = a.dnode
    BY <1>1 DEF Typed, Accessor
  <2> QED BY <1>1, <2>1, <2>2 DEF Owned, Unlinked
<1> HIDE DEF b
<1> QED BY <1>2, <1>3, <1>4, <1>5, <1>6, <1>7, Seen, FreeEffect DEF TypeOK

(* The return of initialise_bucket. *)
LEMMA InitAssertEffect ==
  ASSUME IInv, NEW t \in Accessors, InitAssert(t)
  PROVE  Effect(t)
<1> USE DEF IInv
<1>1. Initialising(acc[t])
  BY DEF InitAssert, At, Initialising
<1>2. /\ acc' = [acc EXCEPT ![t] = InitReturned(acc[t])]
      /\ UNCHANGED <<n_buckets, buckets, n_items, link, fault>>
  BY DEF InitAssert
<1>3. Unlinked(acc[t]) \subseteq Owned(acc[t])
  BY DEF Owned
<1> QED BY <1>1, <1>2, <1>3, InitReturnedFacts, QuietEffect DEF TypeOK

-----------------------------------------------------------------------------
(***************************************************************************)
(* insert_node and delete_node.                                            *)
(***************************************************************************)
(* A new data node. *)
LEMMA InsertNewEffect ==
  ASSUME IInv, NEW t \in Accessors, InsertNew(t)
  PROVE  Effect(t)
<1> USE DEF IInv
<1> DEFINE a == acc[t]
           n == NewNode("node", a.hashv)
           b == [a EXCEPT !.nbuckets = n_buckets, !.dnode = n, !.pc = "find"]
<1>1. Typed(a) /\ Local(a) /\ a.pc = "insert_new"
  BY Reads DEF Locals, InsertNew, At
<1>2. /\ UNCHANGED <<n_buckets, buckets, n_items, fault>>
      /\ acc' = [acc EXCEPT ![t] = b] /\ Allocate(n) /\ Unused("node", a.hashv) # {}
  BY DEF InsertNew
<1>3. a.hashv \in HashValues
  BY <1>1 DEF Typed, Accessor
<1>4. n \in Node /\ n.kind = "node" /\ n \notin live /\ ~Referenced(n)
  BY <1>2, <1>3, NewNodeFresh
<1>5. n \in Pointer /\ n_buckets \in Nat
  BY <1>4, SizeAssumption DEF Pointer, TypeOK
<1> HIDE DEF n
<1>6. Typed(b)
  BY <1>1, <1>5 DEF Typed, Accessor
<1>7. /\ b.prev = a.prev /\ b.cur = a.cur /\ b.next = a.next
      /\ b.new_buckets = a.new_buckets /\ b.bnode = a.bnode
      /\ b.op = a.op /\ b.dnode = n /\ b.ret = a.ret /\ b.pc = "find"
  BY <1>1 DEF Typed, Accessor
<1>8. Local(b)
  BY <1>1, <1>4, <1>7 DEF Local, Initialising
<1>9. Owned(b) \subseteq Owned(a) \cup {n} /\ Unlinked(b) \subseteq Unlinked(a) \cup {n}
  BY <1>7 DEF Owned, Unlinked
<1> HIDE DEF b
<1> QED BY <1>2, <1>4, <1>6, <1>7, <1>8, <1>9, Seen, AllocateEffect

(* The key is in the list: the new node is deleted. *)
LEMMA InsertFoundEffect ==
  ASSUME IInv, NEW t \in Accessors, InsertFound(t)
  PROVE  Effect(t)
<1> USE DEF IInv
<1> DEFINE a == acc[t]
<1>1. /\ a.pc = "find_loop" /\ a.op = "insert" /\ Free(a.dnode)
      /\ acc' = [acc EXCEPT ![t] = IdleAccessor]
      /\ UNCHANGED <<n_buckets, buckets, n_items, fault>>
  BY DEF InsertFound, At, Discarded, Return
<1>2. a.dnode \in Owned(a)
  BY <1>1 DEF Owned, Unlinked
<1> QED BY <1>1, <1>2, Idle, Seen, FreeEffect DEF TypeOK

(* The plain store to the new node and the CAS that links it. *)
LEMMA InsertLinkEffect ==
  ASSUME IInv, NEW t \in Accessors, Fault(t) = "none", InsertLink(t)
  PROVE  Effect(t)
<1> USE DEF IInv
<1> DEFINE a == acc[t]
           c == a.cur
           d == a.dnode
           linked == CASMatches(link[c], a.next)
           pc == IF linked THEN "count" ELSE "find"
           b == [a EXCEPT !.pc = pc]
<1>1. Typed(a) /\ Local(a) /\ a.pc = "link" /\ a.op = "insert"
  BY Reads DEF Locals, Local, InsertLink, At
<1>2. /\ acc' = [acc EXCEPT ![t] = b]
      /\ link' = [link EXCEPT ![d] = assign(@, a.next), ![c] = CAS(@, a.next, d, FALSE)]
      /\ UNCHANGED <<n_buckets, buckets, n_items, fault>>
  BY DEF InsertLink, TryAgain
<1>3. pc \in {"count", "find"} /\ (linked => pc = "count")
  OBVIOUS
<1> HIDE DEF pc
<1>4. Typed(b)
  BY <1>1, <1>3 DEF Typed, Accessor
<1>5. /\ b.prev = a.prev /\ b.cur = a.cur /\ b.next = a.next
      /\ b.new_buckets = a.new_buckets /\ b.bnode = a.bnode
      /\ b.op = a.op /\ b.dnode = a.dnode /\ b.ret = a.ret /\ b.pc = pc
  BY <1>1 DEF Typed, Accessor
<1>6. Local(b)
  BY <1>1, <1>3, <1>5 DEF Local, Initialising
<1>7. Owned(b) \subseteq Owned(a) /\ Unlinked(b) \subseteq Unlinked(a)
  BY <1>1, <1>3, <1>5 DEF Owned, Unlinked
<1>8. /\ d \in Unlinked(a) /\ d \in Owned(a) /\ d \in Node /\ d \in live
      /\ ~Referenced(d) /\ ~link[d].mark
  <2>1. d \in Unlinked(a)
    BY <1>1 DEF Unlinked
  <2> QED BY <2>1 DEF Owned, PrivateNodes, NewNodesUnmarked, TypeOK
<1>9. c \in live /\ c # d
  <2>1. Touched(a) \subseteq live
    BY NotFaulty
  <2>2. Touched(a) = {c}
    BY <1>1 DEF Touched
  <2>3. Referenced(c)
    BY DEF Referenced
  <2> QED BY <1>8, <2>1, <2>2, <2>3
<1>10. linked => Known(t, b, d)
  <2>1. a.ret # "find_head" /\ ~Initialising(a)
    BY <1>1 DEF Local, Initialising
  <2>2. linked => d \notin Unlinked(b)
    BY <1>1, <1>3, <1>5, <2>1 DEF Unlinked
  <2> QED BY <1>8, <2>2 DEF Known
<1>11. a.next \in Pointer /\ d \in Pointer
  BY <1>1 DEF Typed, Accessor
<1>12. /\ link'[d] = Word(a.next, FALSE)
       /\ link'[c] = IF linked THEN Word(d, FALSE) ELSE link[c]
       /\ \A m \in live \ {c, d} : link'[m] = link[m]
       /\ link' \in [live -> WordOver(Pointer)]
  <2>1. assign(link[d], a.next) = Word(a.next, FALSE)
    <3>1. link[d].mark = FALSE
      BY <1>8, Reads DEF WordOver
    <3> QED BY <3>1 DEF assign
  <2>2. CAS(link[c], a.next, d, FALSE) = IF linked THEN Word(d, FALSE) ELSE link[c]
    BY DEF CAS
  <2>3. Word(a.next, FALSE) \in WordOver(Pointer) /\ Word(d, FALSE) \in WordOver(Pointer)
    BY <1>11 DEF Word, WordOver
  <2> DEFINE v == Word(a.next, FALSE)
             w == IF linked THEN Word(d, FALSE) ELSE link[c]
  <2>4. v \in WordOver(Pointer) /\ w \in WordOver(Pointer)
    BY <1>9, <2>3, Reads
  <2>5. link' = [link EXCEPT ![d] = v, ![c] = w]
    BY <1>2, <1>9, <2>1, <2>2
  <2> HIDE DEF v, w
  <2>6. /\ link'[d] = v /\ link'[c] = w
        /\ \A m \in live \ {c, d} : link'[m] = link[m]
        /\ link' \in [live -> WordOver(Pointer)]
    BY <1>8, <1>9, <2>4, <2>5 DEF TypeOK
  <2> QED BY <2>6 DEF v, w
<1> HIDE DEF b, linked
<1>13. \A m \in live : Known(t, b, link'[m].ptr)
  <2> SUFFICES ASSUME NEW m \in live PROVE Known(t, b, link'[m].ptr)
    OBVIOUS
  <2>1. Known(t, b, a.next) /\ Known(t, b, link[m].ptr)
    BY Seen
  <2>2. CASE m = d
    <3>1. link'[m].ptr = a.next
      BY <1>12, <2>2 DEF Word
    <3> QED BY <2>1, <3>1
  <2>3. CASE m = c /\ linked
    <3>1. link'[m].ptr = d
      BY <1>12, <2>3 DEF Word
    <3> QED BY <1>10, <2>3, <3>1
  <2>4. CASE m # d /\ ~(m = c /\ linked)
    BY <1>12, <2>1, <2>4
  <2> QED BY <2>2, <2>3, <2>4
<1>14. \A m \in live : link'[m].mark => link[m].mark
  <2> SUFFICES ASSUME NEW m \in live, link'[m].mark PROVE link[m].mark
    OBVIOUS
  <2>1. Word(a.next, FALSE).mark = FALSE /\ Word(d, FALSE).mark = FALSE
    BY DEF Word
  <2> QED BY <1>12, <2>1
<1>15. \A m \in live : link[m].mark => link'[m] = link[m]
  <2>1. linked => ~link[c].mark
    BY DEF linked, CASMatches, Word
  <2> QED BY <1>8, <1>12, <2>1
<1>16. IsArray(buckets') /\ \A s \in DOMAIN buckets' : Known(t, b, buckets'[s])
  BY <1>2, Seen DEF TypeOK, IsArray
<1> QED BY <1>2, <1>4, <1>5, <1>6, <1>7, <1>12, <1>13, <1>14, <1>15, <1>16, Seen,
           WriteEffect DEF TypeOK

(* The CAS that marks a node. *)
LEMMA DeleteMarkEffect ==
  ASSUME IInv, NEW t \in Accessors, DeleteMark(t)
  PROVE  Effect(t)
<1> USE DEF IInv
<1> DEFINE a == acc[t]
           pc == IF CASMatches(link[a.cur], a.next) THEN "unlink" ELSE "find"
           b == [a EXCEPT !.pc = pc]
<1>1. Typed(a) /\ Local(a) /\ a.pc = "mark" /\ a.op = "delete"
  BY Reads DEF Locals, Local, DeleteMark, At
<1>2. /\ acc' = [acc EXCEPT ![t] = b]
      /\ link' = [link EXCEPT ![a.cur] = CAS(link[a.cur], a.next, a.next, TRUE)]
      /\ UNCHANGED <<n_buckets, buckets, n_items, fault>>
  BY DEF DeleteMark, TryAgain
<1>3. pc \in {"unlink", "find"}
  OBVIOUS
<1> HIDE DEF pc
<1>4. Typed(b)
  BY <1>1, <1>3 DEF Typed, Accessor
<1>5. /\ b.prev = a.prev /\ b.cur = a.cur /\ b.next = a.next
      /\ b.new_buckets = a.new_buckets /\ b.bnode = a.bnode
      /\ b.op = a.op /\ b.dnode = a.dnode /\ b.ret = a.ret /\ b.pc = pc
  BY <1>1 DEF Typed, Accessor
<1>6. Local(b)
  BY <1>1, <1>3, <1>5 DEF Local, Initialising
<1>7. Owned(b) \subseteq Owned(a) /\ Unlinked(b) \subseteq Unlinked(a)
  BY <1>1, <1>3, <1>5 DEF Owned, Unlinked
<1>8. a.cur.kind = "node" /\ Referenced(a.cur) /\ a.next \in Pointer
  BY <1>1 DEF Local, Referenced, Typed, Accessor
<1>9. Known(t, b, a.next)
  BY Seen
<1> HIDE DEF b
<1> QED BY <1>2, <1>4, <1>5, <1>6, <1>7, <1>8, <1>9, CasEffect

(* The CAS that unlinks a node. *)
LEMMA DeleteUnlinkEffect ==
  ASSUME IInv, NEW t \in Accessors, DeleteUnlink(t)
  PROVE  Effect(t)
<1> USE DEF IInv
<1> DEFINE a == acc[t]
           pc == IF Unlinks(a) THEN "uncount" ELSE "find"
           b == [a EXCEPT !.pc = pc]
<1>1. Typed(a) /\ Local(a) /\ a.pc = "unlink" /\ a.op = "delete"
  BY Reads DEF Locals, Local, DeleteUnlink, At
<1>2. /\ acc' = [acc EXCEPT ![t] = b]
      /\ link' = [link EXCEPT ![a.prev] = CAS(link[a.prev], a.cur, a.next, FALSE)]
      /\ UNCHANGED <<n_buckets, buckets, n_items, fault>>
  BY DEF DeleteUnlink, TryAgain
<1>3. pc \in {"uncount", "find"}
  OBVIOUS
<1> HIDE DEF pc
<1>4. Typed(b)
  BY <1>1, <1>3 DEF Typed, Accessor
<1>5. /\ b.prev = a.prev /\ b.cur = a.cur /\ b.next = a.next
      /\ b.new_buckets = a.new_buckets /\ b.bnode = a.bnode
      /\ b.op = a.op /\ b.dnode = a.dnode /\ b.ret = a.ret /\ b.pc = pc
  BY <1>1 DEF Typed, Accessor
<1>6. Local(b)
  BY <1>1, <1>3, <1>5 DEF Local, Initialising
<1>7. Owned(b) \subseteq Owned(a) /\ Unlinked(b) \subseteq Unlinked(a)
  BY <1>1, <1>3, <1>5 DEF Owned, Unlinked
<1>8. a.next \in Pointer
  BY <1>1 DEF Typed, Accessor
<1>9. Known(t, b, a.next)
  BY Seen
<1> HIDE DEF b
<1> QED BY <1>2, <1>4, <1>5, <1>6, <1>7, <1>8, <1>9, CasEffect

(* The unlinked node is no longer counted. *)
LEMMA DeleteCountEffect ==
  ASSUME IInv, NEW t \in Accessors, DeleteCount(t)
  PROVE  Effect(t)
<1> USE DEF IInv
<1> DEFINE a == acc[t]
           b == [a EXCEPT !.pc = "reclaim"]
<1>1. acc' = [acc EXCEPT ![t] = b] /\ UNCHANGED <<buckets, link, fault>>
  BY DEF DeleteCount
<1>2. Typed(a) /\ Local(a) /\ a.pc = "uncount"
  BY Reads DEF Locals, DeleteCount, At
<1>3. n_items' \in HashValues
  BY SizeAssumption DEF DeleteCount, dec_item_count, TypeOK, HashValues
<1>4. Typed(b)
  BY <1>2 DEF Typed, Accessor
<1>5. Local(b)
  BY <1>2 DEF Typed, Accessor, Local, Initialising
<1>6. Owned(b) \subseteq Owned(a) /\ Unlinked(b) \subseteq Unlinked(a)
  BY <1>2 DEF Typed, Accessor, Local, Initialising, Owned, Unlinked
<1>7. b.prev = a.prev /\ b.cur = a.cur /\ b.next = a.next /\ b.new_buckets = a.new_buckets
  BY <1>2 DEF Typed, Accessor
<1> HIDE DEF b
<1> QED BY <1>1, <1>3, <1>4, <1>5, <1>6, <1>7, Seen, QuietEffect DEF TypeOK, DeleteCount

(* The unlinked node is deleted. *)
LEMMA DeleteReclaimEffect ==
  ASSUME IInv, NEW t \in Accessors, DeleteReclaim(t)
  PROVE  Effect(t)
<1> USE DEF IInv
<1> DEFINE a == acc[t]
<1>1. /\ a.pc = "reclaim" /\ Free(a.cur)
      /\ acc' = [acc EXCEPT ![t] = IdleAccessor]
      /\ UNCHANGED <<n_buckets, buckets, n_items, fault>>
  BY DEF DeleteReclaim, At, Return
<1>2. a.cur.kind = "node"
  BY <1>1 DEF Locals, Local
<1> QED BY <1>1, <1>2, Idle, Seen, FreeEffect DEF TypeOK

(* A fault changes nothing else. *)
LEMMA AbortEffect ==
  ASSUME IInv, NEW t \in Accessors, Abort(t)
  PROVE  Effect(t)
<1> USE DEF IInv
<1>1. acc' = [acc EXCEPT ![t] = acc[t]]
  BY DEF Abort, TypeOK
<1>2. fault' \in {"none", "assert", "memory"}
  BY DEF Abort, Fault
<1>3. Typed(acc[t]) /\ Local(acc[t])
  BY Reads DEF Locals
<1> QED BY <1>1, <1>2, <1>3, Seen, QuietEffect DEF Abort, TypeOK

-----------------------------------------------------------------------------
(***************************************************************************)
(* The theorems.                                                           *)
(***************************************************************************)
(* The list with the node of bucket 0, all accessors idle. *)
LEMMA InitInvariant == Init => IInv
<1> SUFFICES ASSUME Init PROVE IInv
  OBVIOUS
<1>1. Head \in Node /\ Head.kind = "bucket" /\ Head.hashv = 0
  BY SizeAssumption DEF Head, Node, HashValues
<1>2. key(Head) % 2 = 0
  <2>1. key(Head) = 0
    BY <1>1, HashAssumption DEF key, sol_bucket_key
  <2> QED BY <2>1
<1>3. live = {Head} /\ link[Head] = Word(NULL, FALSE)
  BY DEF Init, live
<1>4. link \in [live -> WordOver(Pointer)] /\ ~link[Head].mark
  <2>1. Word(NULL, FALSE) \in WordOver(Pointer)
    BY DEF Word, WordOver, Pointer
  <2>2. link \in [live -> WordOver(Pointer)]
    BY <1>3, <2>1 DEF Init
  <2> QED BY <1>3, <2>2 DEF Word
<1>5. IsArray(buckets)
  <2>1. Size \in 0 .. Modulus
    BY SizeAssumption
  <2>2. buckets \in [0 .. Size - 1 -> Pointer]
    BY <1>1 DEF Init, Pointer
  <2> QED BY <2>1, <2>2 DEF IsArray
<1>6. \A t \in Accessors : acc[t] = IdleAccessor
  BY DEF Init
<1>7. TypeOK
  <2>1. n_items \in HashValues /\ n_buckets \in 1 .. Modulus - 1 /\ fault = "none"
    BY SizeAssumption DEF Init, HashValues
  <2>2. acc = [t \in Accessors |-> acc[t]]
    BY DEF Init
  <2>3. \A t \in Accessors : Typed(acc[t])
    BY <1>6, Idle
  <2> QED BY <1>1, <1>3, <1>4, <1>5, <2>1, <2>2, <2>3 DEF TypeOK, Typed
<1>8. Locals
  BY <1>6, Idle DEF Locals
<1>9. BucketNodes
  BY <1>2, <1>3, <1>4 DEF BucketNodes
<1>10. OwnedNodes /\ NewNodesUnmarked /\ PrivateNodes
  BY <1>6, Idle DEF OwnedNodes, NewNodesUnmarked, PrivateNodes
<1> QED BY <1>7, <1>8, <1>9, <1>10 DEF IInv

(* Every step of an accessor has the effect described above. *)
LEMMA StepEffect ==
  ASSUME IInv, Next
  PROVE  \E t \in Accessors : Effect(t)
<1>1. PICK t \in Accessors : \/ Step(t)
                             \/ \E op \in Ops, h \in Hashes : Call(t, op, h)
                             \/ \E s \in 0 .. n_buckets - 1 : InitCall(t, s)
  BY DEF Next
<1>2. CASE Fault(t) = "none" /\ InitStep(t)
  BY <1>2, InitEnterEffect, GetParentEffect, ProbeEffect, ParentHeadEffect,
     ParentAdvanceEffect, InitTestEffect, InitCasEffect, InitFinishEffect, InitCheckEffect,
     PublishEffect, InitDiscardEffect, InitAssertEffect
     DEF InitStep
<1>3. CASE Fault(t) = "none" /\ FindStep(t)
  <2>1. FindItem(t) => Effect(t)
    BY ReturnEffect DEF FindItem, Return
  <2> QED BY <1>3, <2>1, FindStartEffect, FindHeadEffect, FindAdvanceEffect DEF FindStep
<1>4. CASE Fault(t) = "none" /\ InsertStep(t)
  BY <1>4, InsertNewEffect, InsertFoundEffect, InsertNotFoundEffect, InsertLinkEffect,
     InsertCountEffect, ScanHeadEffect, ScanAdvanceEffect, ScanDoneEffect, OverflowEffect,
     ExpandCopyEffect, ExpandSwapEffect, ExpandSizeEffect
     DEF InsertStep
<1>5. CASE Fault(t) = "none" /\ DeleteStep(t)
  <2>1. DeleteNotFound(t) => Effect(t)
    BY ReturnEffect DEF DeleteNotFound, Return
  <2> QED BY <1>5, <2>1, DeleteFoundEffect, DeleteMarkEffect, DeleteUnlinkEffect,
             DeleteCountEffect, DeleteReclaimEffect
             DEF DeleteStep
<1>6. CASE Abort(t)
  BY <1>6, AbortEffect
<1>7. CASE \E op \in Ops, h \in Hashes : Call(t, op, h)
  BY <1>7, CallEffect
<1>8. CASE \E s \in 0 .. n_buckets - 1 : InitCall(t, s)
  BY <1>8, InitCallEffect
<1> QED BY <1>1, <1>2, <1>3, <1>4, <1>5, <1>6, <1>7, <1>8 DEF Step

(* Nothing changes when nobody moves. *)
LEMMA StutterInvariant ==
  ASSUME IInv, UNCHANGED vars
  PROVE  IInv'
BY DEF IInv, vars, TypeOK, Locals, BucketNodes, OwnedNodes, NewNodesUnmarked, PrivateNodes,
       Referenced, live, IsArray

(* The inductive invariant holds in every reachable state. *)
THEOREM Invariance == Spec => []IInv
<1>1. IInv /\ [Next]_vars => IInv'
  BY StepEffect, EffectInvariant, StutterInvariant
<1> QED BY <1>1, InitInvariant, PTL DEF Spec

(* The variables keep their types: hash values, counts and slots stay in   *)
(* the range of their machine words, the table is an array with one slot   *)
(* at least, and every link is a word of an allocated node.                *)
THEOREM TypeCorrectness == Spec => []TypeOK
<1>1. IInv => TypeOK
  BY DEF IInv
<1> QED BY <1>1, Invariance, PTL

(* A new node is private until the CAS that links it, for any number of    *)
(* threads that insert, delete, initialise and expand (solist.hpp:356,     *)
(* 450, 461).                                                              *)
THEOREM NodesPrivate == Spec => []PrivateNodes
<1>1. IInv => PrivateNodes
  BY DEF IInv
<1> QED BY <1>1, Invariance, PTL

(* No step of any thread changes the next pointer of a marked node.        *)
THEOREM MarkFreezes == Spec => MarkedFrozen
<1>1. IInv /\ [Next]_vars =>
        [\A n \in live : link[n].mark /\ n \in live' => link'[n] = link[n]]_vars
  BY StepEffect, EffectInvariant
<1> QED BY <1>1, Invariance, PTL DEF Spec, MarkedFrozen

=============================================================================
