--------------------------- MODULE SoListSetProofs ---------------------------
(***************************************************************************)
(* Proofs that the list is a sorted, indexed and linearizable set, for any *)
(* number of accessors that insert and search concurrently, as long as     *)
(* deletes, bucket initialisations and expansions run alone.               *)
(***************************************************************************)
EXTENDS SoListRefinement, SoListProofs

(* The calls that have to run alone: every delete, and the steps that      *)
(* initialise a bucket or replace the bucket array.                        *)
Alone(a) ==
  \/ a.op = "delete"
  \/ a.pc \in {"get_parent", "probe", "parent_head", "parent_loop", "init_cas",
               "init_finish", "init_check", "init_own", "init_other", "init_discard"}
  \/ a.pc \in {"expand_swap", "expand_size"}

(* They do run alone, and no expansion makes the size wrap. *)
Calm ==
  /\ \A t, u \in Accessors : t # u /\ Alone(acc[t]) => At(u, "idle")
  /\ \A t \in Accessors : At(t, "expand") => 2 * n_buckets < Modulus

(* The allocated nodes that are not in the list: not linked yet, or        *)
(* unlinked and about to be freed.                                         *)
Hidden(a) == Unlinked(a) \cup {n \in {a.cur} : a.pc \in {"uncount", "reclaim"}}

Listed == {n \in live : \A t \in Accessors : n \notin Hidden(acc[t])}

(* The links l lead through a set of nodes in the order of their keys. *)
SplitOrdered(set, l) ==
  /\ \A n \in set : l[n].ptr \in set \cup {NULL}
  /\ \A n \in set : l[n].ptr # NULL => key(n) < key(l[n].ptr)
  /\ \A n, m \in set : key(n) < key(m) => l[n].ptr # NULL /\ key(l[n].ptr) <= key(m)
  /\ \A n, m \in set : key(n) = key(m) => n = m

(* The bucket node of a is linked, but not published yet. *)
Publishing(a) == a.pc \in {"init_finish", "init_check", "init_own"}

(* The slots and the bucket nodes of the list belong together. *)
Slots ==
  /\ buckets[0] = Head
  /\ \A s \in DOMAIN buckets : buckets[s] # NULL =>
       buckets[s] \in Listed /\ buckets[s].kind = "bucket" /\ buckets[s].hashv = s
  /\ \A n \in Listed : n.kind = "bucket" =>
       \/ n.hashv \in DOMAIN buckets /\ buckets[n.hashv] = n
       \/ \E t \in Accessors : Publishing(acc[t]) /\ acc[t].bnode = n

(* The size of the table divides the number of hash values. *)
Table ==
  /\ \E q \in 1 .. Modulus : n_buckets * q = Modulus
  /\ (\A t \in Accessors : ~At(t, "expand_size")) => DOMAIN buckets = 0 .. n_buckets - 1

(* A node before the key k has been reached, and its successor read. *)
Reached(a, k) ==
  /\ a.cur \in Listed /\ key(a.cur) <= k
  /\ a.next \in Listed \cup {NULL}
  /\ a.next # NULL => key(a.cur) < key(a.next)

(* The place for a node with the key k. *)
Place(a, k) ==
  /\ a.cur \in Listed /\ key(a.cur) < k
  /\ a.next \in Listed \cup {NULL}
  /\ a.next # NULL => k < key(a.next)

(* get_parent has come down from the new bucket in steps of key_step. *)
Probing(a) ==
  /\ n_buckets * a.key_step = Modulus
  /\ \E m \in 1 .. n_buckets - 1 : a.pb_key = m * a.key_step
  /\ a.pb_key <= sol_bucket_key(a.bslot)

(* What a call knows of the list. *)
CallFacts(a) ==
  /\ a.pc = "idle" => a.op = "none"
  /\ a.ret # "none" => Initialising(a)
  /\ Initialising(a) => \/ a.ret = "find_head"
                        \/ a.ret = "idle" /\ a.op \in {"insert", "init"}
  /\ a.op \in {"insert", "delete", "find"} => a.hashv \in Hashes
  /\ a.op = "insert" /\ a.pc # "insert_new" =>
       /\ a.dnode.hashv = a.hashv
       /\ a.ret # "idle" => a.nbuckets = n_buckets
  /\ a.pc \in {"count", "scan_head", "scan_loop"} => a.op = "insert"
  /\ a.pc \in {"overflow", "expand", "expand_swap", "expand_size"} =>
       a.op = "insert" /\ a.slot < n_buckets
  /\ a.pc = "expand_swap" => a.new_buckets = copy_of_buckets /\ 2 * n_buckets < Modulus
  /\ a.pc = "expand_size" =>
       DOMAIN buckets = 0 .. 2 * n_buckets - 1 /\ a.new_buckets = buckets /\ 2 * n_buckets < Modulus

SearchFacts(a) ==
  /\ a.pc = "find_head" \/ a.ret = "find_head" =>
       a.slot < n_buckets /\ sol_bucket_key(a.slot) < sol_node_key(a.hashv)
  /\ a.pc = "find_head" => buckets[a.slot] # NULL
  /\ a.pc = "find_loop" => Reached(a, sol_node_key(a.hashv))
  /\ a.pc = "find_loop" /\ a.op = "delete" => a.prev \in Listed /\ link[a.cur].ptr = a.next
  /\ a.pc = "link" => Place(a, sol_node_key(a.hashv))
  /\ a.pc \in {"count", "scan_head"} => a.cur \in Listed
  /\ a.pc = "scan_loop" => a.next \in Listed \cup {NULL}
  /\ a.pc \in {"mark", "unlink"} =>
       /\ a.prev \in Listed /\ a.cur \in Listed /\ link[a.cur].ptr = a.next
       /\ key(a.cur) = sol_node_key(a.hashv)
  /\ a.pc \in {"uncount", "reclaim"} => a.cur \in live

BucketFacts(a) ==
  /\ a.ret = "find_head" => a.slot = a.bslot
  /\ Initialising(a) => a.bslot < n_buckets
  /\ a.pc \in {"get_parent", "probe", "parent_head", "parent_loop", "init_cas",
               "init_finish", "init_check", "init_own"} => buckets[a.bslot] = NULL
  /\ a.pc = "probe" => Probing(a)
  /\ a.pc = "parent_head" =>
       /\ a.pb_key < sol_bucket_key(a.bslot)
       /\ reverse_hasht_bits[a.pb_key] < n_buckets
       /\ buckets[reverse_hasht_bits[a.pb_key]] # NULL
  /\ a.pc = "parent_loop" => Reached(a, sol_bucket_key(a.bslot)) /\ key(a.cur) < sol_bucket_key(a.bslot)
  /\ a.pc = "init_cas" => Place(a, sol_bucket_key(a.bslot)) /\ link[a.bnode].ptr = a.next
  /\ Publishing(a) => a.bnode \in Listed
  /\ a.pc \in {"init_finish", "init_check"} => a.cur \in Listed /\ link[a.cur].ptr = a.bnode
  /\ a.pc \notin {"init_other", "init_discard"}
  /\ a.pc = "init_assert" => buckets[a.bslot] # NULL

Facts(a) == CallFacts(a) /\ SearchFacts(a) /\ BucketFacts(a)

(* The data nodes are those that clients have inserted. *)
DataNodes == \A n \in Listed : n.kind = "node" => n.hashv \in Hashes

ListInv ==
  /\ SplitOrdered(Listed, link)
  /\ Slots /\ Table /\ DataNodes
  /\ \A t \in Accessors : Facts(acc[t])

-----------------------------------------------------------------------------
(***************************************************************************)
(* Lists in the order of their keys.                                       *)
(***************************************************************************)
(* Keys are natural numbers; those of data nodes are odd. *)
LEMMA KeyTypes ==
  /\ \A n \in Node : key(n) \in Nat
  /\ \A h \in HashValues : sol_node_key(h) \in Nat /\ sol_node_key(h) % 2 = 1
  /\ \A h \in HashValues : sol_bucket_key(h) \in HashValues
  /\ \A h \in HashValues : h \in Nat
<1>0. \A h \in HashValues : h \in Nat
  BY SizeAssumption DEF HashValues
<1>1. ASSUME NEW h \in HashValues
      PROVE  /\ sol_node_key(h) \in Nat /\ sol_node_key(h) % 2 = 1
             /\ sol_bucket_key(h) \in HashValues
  <2>1. reverse_hasht_bits[h] \in HashValues
    BY HashAssumption
  <2> QED BY <1>0, <2>1 DEF sol_node_key, sol_bucket_key
<1>2. ASSUME NEW n \in Node PROVE key(n) \in Nat
  <2>1. n.hashv \in HashValues
    BY DEF Node
  <2> QED BY <1>0, <1>1, <2>1 DEF key
<1> QED BY <1>0, <1>1, <1>2

(* The order does not depend on the links of other nodes, nor on marks. *)
LEMMA OrderFrame ==
  ASSUME NEW set, NEW l, NEW m, SplitOrdered(set, l),
         \A n \in set : m[n].ptr = l[n].ptr
  PROVE  SplitOrdered(set, m)
BY DEF SplitOrdered

(* A node linked between two neighbours, on either side of its key. *)
LEMMA OrderInsert ==
  ASSUME NEW set \in SUBSET Node, NEW l, NEW m, SplitOrdered(set, l),
         NEW c \in set, NEW d \in Node \ set,
         key(c) < key(d), l[c].ptr # NULL => key(d) < key(l[c].ptr),
         m[c].ptr = d, m[d].ptr = l[c].ptr,
         \A n \in set \ {c} : m[n].ptr = l[n].ptr
  PROVE  SplitOrdered(set \cup {d}, m)
<1>0. d # NULL /\ d # c /\ \A n \in set \cup {d} : key(n) \in Nat
  BY KeyTypes, NullAssumption
<1>1. /\ \A n \in set : l[n].ptr \in set \cup {NULL}
      /\ \A n \in set : l[n].ptr # NULL => key(n) < key(l[n].ptr)
      /\ \A n, x \in set : key(n) < key(x) => l[n].ptr # NULL /\ key(l[n].ptr) <= key(x)
      /\ \A n, x \in set : key(n) = key(x) => n = x
  BY DEF SplitOrdered
<1>2. \A x \in set : key(x) < key(d) => key(x) <= key(c)
  <2> SUFFICES ASSUME NEW x \in set, key(x) < key(d), ~(key(x) <= key(c)) PROVE FALSE
    OBVIOUS
  <2>1. key(c) < key(x)
    BY <1>0
  <2>2. l[c].ptr # NULL /\ key(l[c].ptr) <= key(x) /\ l[c].ptr \in set
    BY <1>1, <2>1
  <2> QED BY <1>0, <2>2
<1>3. \A x \in set : key(x) # key(d) /\ (key(d) < key(x) => l[c].ptr # NULL /\ key(l[c].ptr) <= key(x))
  <2> SUFFICES ASSUME NEW x \in set, key(d) <= key(x)
               PROVE  key(x) # key(d) /\ l[c].ptr # NULL /\ key(l[c].ptr) <= key(x)
    BY <1>0
  <2>1. key(c) < key(x)
    BY <1>0
  <2>2. l[c].ptr # NULL /\ key(l[c].ptr) <= key(x) /\ l[c].ptr \in set
    BY <1>1, <2>1
  <2> QED BY <1>0, <2>2
<1>4. \A n \in set \cup {d} : m[n].ptr \in set \cup {d} \cup {NULL}
  BY <1>1
<1>5. \A n \in set \cup {d} : m[n].ptr # NULL => key(n) < key(m[n].ptr)
  BY <1>0, <1>1
<1>6. ASSUME NEW n \in set \cup {d}, NEW x \in set \cup {d}, key(n) < key(x)
      PROVE  m[n].ptr # NULL /\ key(m[n].ptr) <= key(x)
  <2>1. CASE n = d
    <3>1. x \in set
      BY <1>0, <1>6, <2>1
    <3> QED BY <1>3, <1>6, <2>1, <3>1
  <2>2. CASE n = c
    <3>1. m[n].ptr = d
      BY <2>2
    <3>2. x \in set => key(d) <= key(x)
      BY <1>0, <1>2, <1>6, <2>2
    <3> QED BY <1>0, <3>1, <3>2
  <2>3. CASE n \in set /\ n # c /\ x \in set
    BY <1>1, <1>6, <2>3
  <2>4. CASE n \in set /\ n # c /\ x = d
    <3>1. key(n) <= key(c) /\ key(n) # key(c)
      BY <1>1, <1>2, <1>6, <2>4
    <3>2. key(n) < key(c)
      BY <1>0, <2>4, <3>1
    <3>3. l[n].ptr # NULL /\ key(l[n].ptr) <= key(c) /\ l[n].ptr \in set
      BY <1>1, <2>4, <3>2
    <3>4. key(l[n].ptr) <= key(d)
      BY <1>0, <3>3
    <3> QED BY <2>4, <3>3, <3>4
  <2> QED BY <2>1, <2>2, <2>3, <2>4
<1>7. \A n, x \in set \cup {d} : key(n) = key(x) => n = x
  BY <1>1, <1>3
<1> QED BY <1>4, <1>5, <1>6, <1>7 DEF SplitOrdered

(* A node unlinked by its predecessor. *)
LEMMA OrderDelete ==
  ASSUME NEW set \in SUBSET Node, NEW l, NEW m, SplitOrdered(set, l),
         NEW p \in set, NEW x \in set, l[p].ptr = x, m[p].ptr = l[x].ptr,
         \A n \in set \ {p} : m[n].ptr = l[n].ptr
  PROVE  SplitOrdered(set \ {x}, m)
<1>0. \A n \in set : key(n) \in Nat /\ n # NULL
  BY KeyTypes, NullAssumption
<1>1. /\ \A n \in set : l[n].ptr \in set \cup {NULL}
      /\ \A n \in set : l[n].ptr # NULL => key(n) < key(l[n].ptr)
      /\ \A n, y \in set : key(n) < key(y) => l[n].ptr # NULL /\ key(l[n].ptr) <= key(y)
      /\ \A n, y \in set : key(n) = key(y) => n = y
  BY DEF SplitOrdered
<1>2. key(p) < key(x) /\ p # x /\ (l[x].ptr # NULL => key(p) < key(l[x].ptr) /\ l[x].ptr # x)
  BY <1>0, <1>1
<1>3. ASSUME NEW n \in set \ {x}, n # p, l[n].ptr = x PROVE FALSE
  <2>1. key(n) < key(x)
    BY <1>0, <1>1, <1>3
  <2>2. CASE key(n) < key(p)
    <3>1. key(x) <= key(p)
      BY <1>1, <1>3, <2>2
    <3> QED BY <1>0, <1>2, <3>1
  <2>3. CASE key(p) < key(n)
    <3>1. key(x) <= key(n)
      BY <1>1, <2>3
    <3> QED BY <1>0, <2>1, <3>1
  <2>4. key(n) # key(p)
    BY <1>1, <1>3
  <2> QED BY <1>0, <2>2, <2>3, <2>4
<1>4. \A n \in set \ {x} : m[n].ptr \in (set \ {x}) \cup {NULL}
  BY <1>1, <1>2, <1>3
<1>5. \A n \in set \ {x} : m[n].ptr # NULL => key(n) < key(m[n].ptr)
  BY <1>1, <1>2
<1>6. ASSUME NEW n \in set \ {x}, NEW y \in set \ {x}, key(n) < key(y)
      PROVE  m[n].ptr # NULL /\ key(m[n].ptr) <= key(y)
  <2>1. CASE n = p
    <3>1. key(x) <= key(y) /\ key(x) # key(y)
      BY <1>1, <1>6, <2>1
    <3>2. key(x) < key(y)
      BY <1>0, <3>1
    <3> QED BY <1>1, <2>1, <3>2
  <2>2. CASE n # p
    BY <1>1, <1>6, <2>2
  <2> QED BY <2>1, <2>2
<1>7. \A n, y \in set \ {x} : key(n) = key(y) => n = y
  BY <1>1
<1> QED BY <1>4, <1>5, <1>6, <1>7 DEF SplitOrdered

(* There are finitely many nodes. *)
LEMMA NodeFinite == IsFiniteSet(Node)
<1> DEFINE triples == ({"bucket", "node"} \X HashValues) \X (1 .. Copies)
           f == [x \in triples |-> [kind |-> x[1][1], hashv |-> x[1][2], copy |-> x[2]]]
<1>1. IsFiniteSet(HashValues) /\ IsFiniteSet(1 .. Copies)
  BY SizeAssumption, FS_Interval DEF HashValues
<1>2. IsFiniteSet({"bucket", "node"})
  <2>1. IsFiniteSet({"bucket"}) /\ {"bucket", "node"} = {"bucket"} \cup {"node"}
    BY FS_Singleton
  <2> QED BY <2>1, FS_AddElement
<1>3. IsFiniteSet({"bucket", "node"} \X HashValues)
  BY <1>1, <1>2, FS_Product
<1>4. IsFiniteSet(triples)
  BY <1>1, <1>3, FS_Product
<1>5. ASSUME NEW n \in Node PROVE \E x \in triples : f[x] = n
  <2>1. n.kind \in {"bucket", "node"} /\ n.hashv \in HashValues /\ n.copy \in 1 .. Copies
    BY DEF Node
  <2>2. n = [kind |-> n.kind, hashv |-> n.hashv, copy |-> n.copy]
    BY DEF Node
  <2> DEFINE x == <<<<n.kind, n.hashv>>, n.copy>>
  <2>3. x \in triples
    BY <2>1
  <2>4. f[x] = [kind |-> n.kind, hashv |-> n.hashv, copy |-> n.copy]
    BY <2>3
  <2> QED BY <2>2, <2>3, <2>4
<1>6. Node \subseteq {f[x] : x \in triples}
  BY <1>5
<1>7. IsFiniteSet({f[x] : x \in triples})
  <2> HIDE DEF f, triples
  <2>1. \A x \in triples : f[x] \in {f[y] : y \in triples}
    OBVIOUS
  <2> DEFINE g == [x \in triples |-> f[x]]
             image == {f[x] : x \in triples}
  <2>2. g \in [triples -> image]
    BY <2>1
  <2>3. \A y \in image : \E x \in triples : g[x] = y
    OBVIOUS
  <2>4. g \in Surjection(triples, image)
    BY <2>2, <2>3 DEF Surjection
  <2> HIDE DEF g, image
  <2>5. IsFiniteSet(image)
    BY <1>4, <2>4, FS_Surjection
  <2> QED BY <2>5 DEF image
<1> QED BY <1>6, <1>7, FS_Subset

(* The nodes met after i steps of a walk from p. *)
WalkOf(after, p) ==
  /\ after[0] = {p} \ {NULL}
  /\ \A i \in Nat : after[i + 1] =
       after[i] \cup ({link[n].ptr : n \in after[i] \cap live} \ {NULL})

(* NodesFrom is the end of a walk. *)
LEMMA Walk ==
  ASSUME TypeOK, NEW p \in Pointer
  PROVE  \E after : WalkOf(after, p) /\ NodesFrom(p) = after[Cardinality(live)]
<1> DEFINE More(met) == met \cup ({get(link[n]) : n \in met \cap live} \ {NULL})
           start == {p} \ {NULL}
           E(f) == [i \in Nat |-> IF i = 0 THEN start ELSE More(f[i - 1])]
           after == CHOOSE f : f = E(f)
           X == SUBSET Pointer
           G == [met \in X |-> More(met)]
<1>1. ASSUME NEW met \in X PROVE More(met) \in X
  BY Reads DEF get
<1>2. start \in X /\ G \in [X -> X]
  BY <1>1
<1>3. \E F : F = E(F)
  <2>0. \A met \in X : G[met] = More(met)
    OBVIOUS
  <2> HIDE DEF X, G, More, start
  <2>1. PICK F \in [Nat -> X] : F[0] = start /\ \A i \in Nat : F[i + 1] = G[F[i]]
    BY <1>2, Recursion
  <2>2. ASSUME NEW i \in Nat PROVE F[i] = IF i = 0 THEN start ELSE More(F[i - 1])
    <3>1. CASE i = 0
      BY <2>1, <3>1
    <3>2. CASE i # 0
      <4>1. i - 1 \in Nat /\ (i - 1) + 1 = i
        BY <3>2
      <4>2. F[i] = G[F[i - 1]] /\ F[i - 1] \in X
        BY <2>1, <4>1
      <4> QED BY <2>0, <3>2, <4>2
    <3> QED BY <3>1, <3>2
  <2>3. F = E(F)
    BY <2>2
  <2> QED BY <2>3
<1>4. after = E(after)
  BY <1>3
<1>5. NodesFrom(p) = after[Cardinality(live)]
  BY DEF NodesFrom
<1> HIDE DEF after
<1>6. after[0] = start
  BY <1>4
<1>7. ASSUME NEW i \in Nat PROVE after[i + 1] = More(after[i])
  <2>1. i + 1 \in Nat /\ i + 1 # 0 /\ (i + 1) - 1 = i
    OBVIOUS
  <2>2. after[i + 1] = E(after)[i + 1]
    BY <1>4
  <2> HIDE DEF More, start
  <2> QED BY <2>1, <2>2
<1>8. WalkOf(after, p)
  BY <1>6, <1>7 DEF WalkOf, get
<1> QED BY <1>5, <1>8

(* The predecessor of a node in the order. *)
LEMMA Predecessor ==
  ASSUME NEW set \in SUBSET Node, SplitOrdered(set, link),
         NEW p \in set, NEW m \in set, key(p) < key(m)
  PROVE  \E n \in set : /\ key(p) <= key(n) /\ key(n) < key(m) /\ link[n].ptr = m
                        /\ \A k \in set : key(k) < key(m) => key(k) <= key(n)
<1>0. \A n \in set : key(n) \in Nat
  BY KeyTypes
<1> DEFINE B == {k \in set : key(k) < key(m)}
           T == {key(m) - key(k) : k \in B}
<1>1. T \in SUBSET Nat /\ T # {}
  BY <1>0
<1>2. PICK x \in T : \A y \in T : x <= y
  <2> HIDE DEF T
  <2> QED BY <1>1, LeastElement
<1>3. PICK n \in B : x = key(m) - key(n)
  OBVIOUS
<1>4. \A k \in B : key(k) <= key(n)
  <2> SUFFICES ASSUME NEW k \in B PROVE key(k) <= key(n)
    OBVIOUS
  <2>1. x <= key(m) - key(k)
    BY <1>2
  <2> QED BY <1>0, <1>3, <2>1
<1>5. link[n].ptr \in set /\ key(n) < key(link[n].ptr) /\ key(link[n].ptr) <= key(m)
  BY DEF SplitOrdered
<1>6. ~(key(link[n].ptr) < key(m))
  BY <1>0, <1>4, <1>5
<1>7. key(link[n].ptr) = key(m)
  BY <1>0, <1>5, <1>6
<1>8. link[n].ptr = m
  BY <1>5, <1>7 DEF SplitOrdered
<1> QED BY <1>0, <1>4, <1>8

(* A walk through a list in the order of its keys meets all that follows. *)
LEMMA OrderedWalk ==
  ASSUME TypeOK, NEW set \in SUBSET live, SplitOrdered(set, link), NEW p \in set
  PROVE  NodesFrom(p) = {m \in set : key(p) <= key(m)}
<1> DEFINE W == {m \in set : key(p) <= key(m)}
           Upto(m) == {k \in set : key(p) <= key(k) /\ key(k) <= key(m)}
<1>0. /\ \A n \in set : key(n) \in Nat /\ n # NULL
      /\ set \subseteq Node /\ p \in Pointer /\ IsFiniteSet(live) /\ Cardinality(live) \in Nat
  <2>1. live \subseteq Node /\ set \subseteq Node
    BY DEF TypeOK
  <2>2. IsFiniteSet(live)
    BY <2>1, NodeFinite, FS_Subset
  <2> QED BY <2>1, <2>2, KeyTypes, NullAssumption, FS_CardinalityType DEF Pointer
<1>1. PICK after : WalkOf(after, p) /\ NodesFrom(p) = after[Cardinality(live)]
  BY <1>0, Walk
<1>2. /\ after[0] = {p}
      /\ \A i \in Nat : after[i + 1] =
           after[i] \cup ({link[n].ptr : n \in after[i] \cap live} \ {NULL})
  BY <1>0, <1>1 DEF WalkOf
<1>3. \A i \in Nat : after[i] \subseteq W
  <2> DEFINE T == {i \in Nat : after[i] \subseteq W}
  <2>1. 0 \in T
    BY <1>0, <1>2
  <2>2. ASSUME NEW i \in Nat, i \in T PROVE i + 1 \in T
    <3>1. ASSUME NEW n \in after[i], link[n].ptr # NULL PROVE link[n].ptr \in W
      <4>1. n \in set /\ key(p) <= key(n)
        BY <2>2
      <4>2. link[n].ptr \in set /\ key(n) < key(link[n].ptr)
        BY <3>1, <4>1 DEF SplitOrdered
      <4> QED BY <1>0, <4>1, <4>2
    <3>2. after[i + 1] = after[i] \cup ({link[n].ptr : n \in after[i] \cap live} \ {NULL})
      BY <1>2
    <3> QED BY <2>2, <3>1, <3>2
  <2> HIDE DEF T
  <2>3. \A i \in Nat : i \in T
    BY <2>1, <2>2, SetInduction
  <2> QED BY <2>3 DEF T
<1>4. ASSUME NEW m \in set
      PROVE  /\ IsFiniteSet(Upto(m)) /\ Cardinality(Upto(m)) \in Nat
             /\ Cardinality(Upto(m)) <= Cardinality(live)
  <2>1. Upto(m) \subseteq live
    OBVIOUS
  <2> QED BY <1>0, <2>1, FS_Subset, FS_CardinalityType
<1>5. \A i \in Nat : \A m \in W : Cardinality(Upto(m)) <= i + 1 => m \in after[i]
  <2> DEFINE T == {i \in Nat : p \in after[i] /\ \A m \in W : Cardinality(Upto(m)) <= i + 1 => m \in after[i]}
  <2>1. ASSUME NEW m \in W, m # p
        PROVE  \E n \in W : /\ link[n].ptr = m /\ n \in live
                            /\ Cardinality(Upto(m)) = Cardinality(Upto(n)) + 1
                            /\ Cardinality(Upto(n)) \in Nat \ {0}
    <3>1. key(p) < key(m)
      <4>1. key(p) # key(m)
        BY <2>1 DEF SplitOrdered
      <4> QED BY <1>0, <4>1
    <3>2. PICK n \in set : /\ key(p) <= key(n) /\ key(n) < key(m) /\ link[n].ptr = m
                           /\ \A k \in set : key(k) < key(m) => key(k) <= key(n)
      BY <1>0, <3>1, Predecessor
    <3>3. ASSUME NEW k \in set PROVE key(k) <= key(n) <=> key(k) <= key(m) /\ k # m
      <4>1. key(k) = key(m) => k = m
        BY DEF SplitOrdered
      <4> QED BY <1>0, <3>2, <4>1
    <3>4. Upto(n) = Upto(m) \ {m} /\ m \in Upto(m)
      BY <1>0, <3>3
    <3>5. Cardinality(Upto(n)) = Cardinality(Upto(m)) - 1
      <4> HIDE DEF Upto
      <4> QED BY <1>4, <3>4, FS_RemoveElement
    <3>6. Cardinality(Upto(n)) # 0
      <4>1. Upto(n) # {}
        BY <1>0, <3>2
      <4> HIDE DEF Upto
      <4> QED BY <1>4, <4>1, FS_EmptySet
    <3> HIDE DEF Upto
    <3> QED BY <1>4, <3>2, <3>5, <3>6
  <2>2. 0 \in T
    <3> SUFFICES ASSUME NEW m \in W, Cardinality(Upto(m)) <= 0 + 1, m # p PROVE FALSE
      BY <1>2
    <3>1. PICK n \in W : /\ Cardinality(Upto(m)) = Cardinality(Upto(n)) + 1
                         /\ Cardinality(Upto(n)) \in Nat \ {0}
      BY <2>1
    <3> HIDE DEF Upto
    <3> QED BY <3>1
  <2>3. ASSUME NEW i \in Nat, i \in T PROVE i + 1 \in T
    <3>1. after[i + 1] = after[i] \cup ({link[n].ptr : n \in after[i] \cap live} \ {NULL})
      BY <1>2
    <3>2. ASSUME NEW m \in W, Cardinality(Upto(m)) <= (i + 1) + 1, m # p PROVE m \in after[i + 1]
      <4>1. PICK n \in W : /\ link[n].ptr = m /\ n \in live
                           /\ Cardinality(Upto(m)) = Cardinality(Upto(n)) + 1
                           /\ Cardinality(Upto(n)) \in Nat \ {0}
        BY <2>1, <3>2
      <4>2. Cardinality(Upto(n)) <= i + 1
        <5> HIDE DEF Upto
        <5> QED BY <3>2, <4>1
      <4>3. n \in after[i]
        BY <2>3, <4>2
      <4>4. link[n].ptr # NULL
        BY <1>0, <4>1
      <4> QED BY <3>1, <4>1, <4>3, <4>4
    <3> QED BY <2>3, <3>1, <3>2
  <2> HIDE DEF T
  <2>4. \A i \in Nat : i \in T
    BY <2>2, <2>3, SetInduction
  <2> QED BY <2>4 DEF T
<1>6. ASSUME NEW m \in W PROVE m \in after[Cardinality(live)]
  <2>1. Cardinality(Upto(m)) \in Nat /\ Cardinality(Upto(m)) <= Cardinality(live) + 1
    <3> HIDE DEF Upto
    <3> QED BY <1>0, <1>4
  <2> QED BY <1>0, <1>5, <2>1
<1> QED BY <1>0, <1>1, <1>3, <1>6

-----------------------------------------------------------------------------
(***************************************************************************)
(* What the invariant says.                                                *)
(***************************************************************************)
(* The table has a slot for each bucket. *)
LEMMA TableSlots ==
  ASSUME TypeOK, ListInv
  PROVE  0 .. n_buckets - 1 \subseteq DOMAIN buckets /\ 0 \in DOMAIN buckets
<1>0. n_buckets \in Nat \ {0}
  BY SizeAssumption DEF TypeOK
<1>1. CASE \A t \in Accessors : ~At(t, "expand_size")
  BY <1>0, <1>1 DEF ListInv, Table
<1>2. ASSUME NEW t \in Accessors, At(t, "expand_size")
      PROVE  0 .. n_buckets - 1 \subseteq DOMAIN buckets /\ 0 \in DOMAIN buckets
  <2>1. DOMAIN buckets = 0 .. 2 * n_buckets - 1
    BY <1>2 DEF ListInv, Facts, CallFacts, At
  <2> QED BY <1>0, <2>1
<1> QED BY <1>1, <1>2

(* The node of bucket 0 is the first of the list. *)
LEMMA HeadFirst ==
  ASSUME TypeOK, ListInv
  PROVE  /\ buckets[0] = Head /\ Head \in Listed
         /\ Listed \subseteq live /\ Listed \subseteq Node
         /\ \A n \in Listed : key(Head) <= key(n)
<1>1. Head \in Node /\ key(Head) = 0 /\ Head # NULL
  BY SizeAssumption, HashAssumption, NullAssumption DEF Head, Node, HashValues, key, sol_bucket_key
<1>2. buckets[0] = Head /\ Head \in Listed
  BY <1>1, TableSlots DEF ListInv, Slots
<1>3. Listed \subseteq live /\ Listed \subseteq Node
  BY DEF Listed, TypeOK
<1> QED BY <1>1, <1>2, <1>3, KeyTypes

(* The nodes that can be reached from bucket 0 are the allocated ones that *)
(* no call has hidden.                                                     *)
LEMMA ReachableListed ==
  ASSUME TypeOK, ListInv
  PROVE  Reachable = Listed
<1>1. Listed \in SUBSET live
  BY DEF Listed
<1>2. NodesFrom(Head) = {m \in Listed : key(Head) <= key(m)}
  BY <1>1, HeadFirst, OrderedWalk DEF ListInv
<1> QED BY <1>2, HeadFirst DEF Reachable

(* The links lead upwards. *)
LEMMA AscendingHolds ==
  ASSUME TypeOK, ListInv
  PROVE  Ascending
BY ReachableListed DEF Ascending, ListInv, SplitOrdered, get

(* The slots point into the list. *)
LEMMA BucketsIndexedHolds ==
  ASSUME TypeOK, ListInv
  PROVE  BucketsIndexed
BY ReachableListed, HeadFirst DEF BucketsIndexed, ListInv, Slots

(* The bucket from which a hash value is searched comes before its node. *)
LEMMA BucketBefore ==
  ASSUME TypeOK, ListInv, NEW h \in HashValues
  PROVE  LET s == h % n_buckets IN
         /\ s \in 0 .. n_buckets - 1 /\ s \in HashValues
         /\ sol_bucket_key(s) < sol_node_key(h)
<1> DEFINE s == h % n_buckets
<1>0. n_buckets \in 1 .. Modulus - 1 /\ Modulus \in Nat /\ h \in Nat
  BY SizeAssumption, KeyTypes DEF TypeOK
<1>1. s \in 0 .. n_buckets - 1
  BY <1>0
<1>2. s \in HashValues
  BY <1>0, <1>1 DEF HashValues
<1>3. PICK q \in 1 .. Modulus : n_buckets * q = Modulus
  BY DEF ListInv, Table
<1>4. n_buckets \in 1 .. Modulus
  BY <1>0
<1>5. reverse_hasht_bits[s] <= reverse_hasht_bits[h]
  BY <1>3, <1>4, ReverseAssumption
<1>6. q > 1
  <2>1. q = 1 => n_buckets * q = n_buckets
    BY <1>0
  <2> QED BY <1>0, <1>3, <2>1
<1>7. reverse_hasht_bits[s] % 2 = 0
  BY <1>1, <1>3, <1>4, <1>6, ReverseAssumption
<1>8. reverse_hasht_bits[s] \in Nat /\ reverse_hasht_bits[h] \in Nat
  BY <1>2, HashAssumption, KeyTypes
<1>9. sol_bucket_key(s) < sol_node_key(h)
  <2> HIDE DEF s
  <2> QED BY <1>5, <1>7, <1>8 DEF sol_bucket_key, sol_node_key
<1> QED BY <1>1, <1>2, <1>9

(* An item can be found. *)
LEMMA ItemsFindableHolds ==
  ASSUME TypeOK, ListInv
  PROVE  ItemsFindable
<1> SUFFICES ASSUME NEW n \in Reachable, n.kind = "node",
                    n.hashv % n_buckets \in DOMAIN buckets,
                    buckets[n.hashv % n_buckets] # NULL
             PROVE  n \in NodesFrom(buckets[n.hashv % n_buckets])
  BY DEF ItemsFindable
<1> DEFINE s == n.hashv % n_buckets
           p == buckets[s]
<1>1. n \in Listed /\ n \in Node /\ n.hashv \in HashValues
  BY ReachableListed, HeadFirst DEF Node
<1>2. p \in Listed /\ p.kind = "bucket" /\ p.hashv = s
  BY DEF ListInv, Slots
<1>3. key(p) = sol_bucket_key(s) /\ key(n) = sol_node_key(n.hashv)
  BY <1>2 DEF key
<1>4. key(p) < key(n) /\ key(p) \in Nat /\ key(n) \in Nat
  BY <1>1, <1>2, <1>3, BucketBefore, KeyTypes, HeadFirst
<1>5. Listed \in SUBSET live
  BY DEF Listed
<1> HIDE DEF p
<1>6. NodesFrom(p) = {m \in Listed : key(p) <= key(m)}
  BY <1>2, <1>5, OrderedWalk DEF ListInv
<1>7. n \in NodesFrom(p)
  BY <1>1, <1>4, <1>6
<1> QED BY <1>7 DEF p

(* Between calls nothing is hidden. *)
LEMMA NoLeakHolds ==
  ASSUME IInv, ListInv
  PROVE  NoLeak
<1>1. Quiescent => \A t \in Accessors : Hidden(acc[t]) \subseteq {}
  <2> SUFFICES ASSUME NEW t \in Accessors, acc[t].pc = "idle" PROVE Hidden(acc[t]) = {}
    BY DEF Quiescent, At
  <2>1. acc[t].ret # "find_head"
    BY DEF IInv, Locals, Local, Initialising
  <2> QED BY <2>1 DEF Hidden, Unlinked
<1> QED BY <1>1, ReachableListed DEF NoLeak, Listed, IInv

(* A smaller number is its own remainder. *)
LEMMA SmallRemainder ==
  ASSUME NEW x \in HashValues
  PROVE  x % Modulus = x
<1>1. x \in Int /\ 0 <= x /\ x < Modulus /\ Modulus \in Nat \ {0}
  BY SizeAssumption DEF HashValues
<1> HIDE DEF Modulus
<1> QED BY <1>1

(* The keys of the buckets of a table. *)
LEMMA TableKeys ==
  ASSUME NEW n \in 1 .. Modulus, NEW q \in 1 .. Modulus, n * q = Modulus
  PROVE  /\ \A h \in HashValues :
              h < n <=> \E m \in 0 .. n - 1 : reverse_hasht_bits[h] = m * q
         /\ n > 1 => reverse_hasht_bits[n \div 2] = q
BY ReverseAssumption

(* get_parent probes existing slots on its way down to bucket 0. *)
LEMMA ProbeStep ==
  ASSUME TypeOK, NEW a, Typed(a), Probing(a)
  PROVE  LET k == PreviousBucketKey(a) IN
         /\ k \in HashValues /\ k < a.pb_key
         /\ reverse_hasht_bits[k] \in 0 .. n_buckets - 1
         /\ k # 0 => \E m \in 1 .. n_buckets - 1 : k = m * a.key_step
<1> DEFINE q == a.key_step
           k == a.pb_key - q
<1>0. n_buckets \in 1 .. Modulus - 1 /\ Modulus \in Nat
  BY SizeAssumption DEF TypeOK
<1>1. q \in Nat /\ a.pb_key \in Nat /\ a.pb_key < Modulus
  BY SizeAssumption DEF Typed, Accessor, HashValues
<1>2. PICK m \in 1 .. n_buckets - 1 : a.pb_key = m * q
  BY DEF Probing
<1>3. n_buckets * q = Modulus
  BY DEF Probing
<1>4. q \in 1 .. Modulus
  <2>1. q # 0
    BY <1>0, <1>1, <1>3
  <2>2. q <= n_buckets * q
    BY <1>0, <1>1
  <2> QED BY <1>1, <1>3, <2>1, <2>2
<1>5. m - 1 \in 0 .. n_buckets - 1 /\ m \in Nat
  BY <1>0
<1>6. k = (m - 1) * q
  BY <1>1, <1>2, <1>5
<1>7. k \in Nat /\ k < a.pb_key
  <2>1. (m - 1) * q \in Nat
    BY <1>1, <1>5
  <2> QED BY <1>1, <1>4, <1>6, <2>1
<1>8. k \in HashValues
  BY <1>0, <1>1, <1>7 DEF HashValues
<1>9. PreviousBucketKey(a) = k
  BY <1>8, SmallRemainder DEF PreviousBucketKey
<1>10. reverse_hasht_bits[k] \in 0 .. n_buckets - 1
  <2> DEFINE h == reverse_hasht_bits[k]
  <2>1. h \in HashValues /\ reverse_hasht_bits[h] = k
    BY <1>8, HashAssumption
  <2> HIDE DEF h
  <2>2. h < n_buckets
    <3>1. n_buckets \in 1 .. Modulus
      BY <1>0
    <3> HIDE DEF k, q
    <3> QED BY <1>3, <1>4, <1>5, <1>6, <2>1, <3>1, ReverseAssumption DEF q
  <2>3. h \in Nat
    BY <2>1, KeyTypes
  <2> QED BY <1>0, <2>2, <2>3 DEF h
<1>11. k # 0 => \E j \in 1 .. n_buckets - 1 : k = j * a.key_step
  <2> SUFFICES ASSUME k # 0 PROVE m - 1 \in 1 .. n_buckets - 1
    BY <1>6
  <2>1. m - 1 # 0
    <3>1. m - 1 = 0 => (m - 1) * q = 0
      BY <1>1
    <3> QED BY <1>6, <3>1
  <2> QED BY <1>5, <2>1
<1> QED BY <1>7, <1>8, <1>9, <1>10, <1>11

(* The keys of buckets are even, those of data nodes odd. *)
LEMMA SlotEven ==
  ASSUME TypeOK, ListInv, NEW s \in 0 .. n_buckets - 1
  PROVE  s \in HashValues /\ BucketKeyAsserted(s)
<1>0. n_buckets \in 1 .. Modulus - 1 /\ Modulus \in Nat
  BY SizeAssumption DEF TypeOK
<1>1. PICK q \in 1 .. Modulus : n_buckets * q = Modulus
  BY DEF ListInv, Table
<1>2. q > 1
  <2>1. q = 1 => n_buckets * q = n_buckets
    BY <1>0
  <2> QED BY <1>0, <1>1, <2>1
<1>3. n_buckets \in 1 .. Modulus
  BY <1>0
<1>4. reverse_hasht_bits[s] % 2 = 0
  BY <1>1, <1>2, <1>3, ReverseAssumption
<1>5. s \in HashValues
  BY <1>0 DEF HashValues
<1> QED BY <1>4, <1>5 DEF BucketKeyAsserted, sol_bucket_key

(* The hash values that clients use do not abort the process. *)
EvenHashes == \A h \in Hashes : BucketKeyAsserted(h)

(* The slots that the next step uses exist. *)
LEMMA SlotsExist ==
  ASSUME IInv, ListInv, NEW t \in Accessors
  PROVE  SlotsUsed(acc[t]) \subseteq DOMAIN buckets
<1> USE DEF IInv
<1> DEFINE a == acc[t]
<1>1. Typed(a) /\ Facts(a) /\ n_buckets \in Nat \ {0}
  BY Reads, SizeAssumption DEF ListInv, TypeOK
<1>2. /\ a.hashv \in Nat /\ a.slot \in Nat /\ a.bslot \in Nat
      /\ a.pc = "find_head" => a.slot < n_buckets
      /\ Initialising(a) => a.bslot < n_buckets
  BY <1>1, KeyTypes DEF Typed, Accessor, Facts, SearchFacts, BucketFacts
<1>3. 0 .. n_buckets - 1 \subseteq DOMAIN buckets
  BY TableSlots
<1>4. CASE a.pc = "find"
  <2>1. SlotsUsed(a) = {a.hashv % n_buckets}
    BY <1>4 DEF SlotsUsed
  <2>2. a.hashv % n_buckets \in 0 .. n_buckets - 1
    BY <1>1, <1>2
  <2> QED BY <1>3, <2>1, <2>2
<1>5. CASE a.pc = "find_head"
  <2>1. SlotsUsed(a) = {a.slot}
    BY <1>5 DEF SlotsUsed
  <2> QED BY <1>1, <1>2, <1>3, <1>5, <2>1
<1>6. CASE a.pc = "probe"
  <2>1. SlotsUsed(a) = {reverse_hasht_bits[PreviousBucketKey(a)]}
    BY <1>6 DEF SlotsUsed
  <2>2. Probing(a)
    BY <1>1, <1>6 DEF Facts, BucketFacts
  <2> QED BY <1>1, <1>3, <2>1, <2>2, ProbeStep
<1>7. CASE a.pc = "parent_head"
  <2>1. SlotsUsed(a) = {reverse_hasht_bits[a.pb_key]}
    BY <1>7 DEF SlotsUsed
  <2>2. reverse_hasht_bits[a.pb_key] < n_buckets
    BY <1>1, <1>7 DEF Facts, BucketFacts
  <2>3. reverse_hasht_bits[a.pb_key] \in Nat
    BY <1>1, HashAssumption, KeyTypes DEF Typed, Accessor
  <2> QED BY <1>1, <1>3, <2>1, <2>2, <2>3
<1>8. CASE a.pc = "expand"
  <2>1. SlotsUsed(a) \subseteq 0 .. n_buckets - 1
    BY <1>8 DEF SlotsUsed
  <2> QED BY <1>3, <2>1
<1>9. CASE a.pc \notin {"find", "find_head", "probe", "parent_head", "expand"}
  <2>1. SlotsUsed(a) = {} \/ (SlotsUsed(a) = {a.bslot} /\ Initialising(a))
    BY <1>9 DEF SlotsUsed, Initialising
  <2> QED BY <1>1, <1>2, <1>3, <2>1
<1> QED BY <1>4, <1>5, <1>6, <1>7, <1>8, <1>9

(* A slot that is not NULL holds a node of the list. *)
LEMMA SlotListed ==
  ASSUME TypeOK, ListInv, NEW s \in Nat, s < n_buckets, buckets[s] # NULL
  PROVE  /\ s \in DOMAIN buckets
         /\ buckets[s] \in Listed /\ buckets[s] \in live /\ buckets[s] \in Node
         /\ buckets[s].kind = "bucket" /\ buckets[s].hashv = s
         /\ key(buckets[s]) = sol_bucket_key(s)
<1>1. s \in 0 .. n_buckets - 1
  BY SizeAssumption DEF TypeOK
<1>2. s \in DOMAIN buckets
  BY <1>1, TableSlots
<1>3. buckets[s] \in Listed /\ buckets[s].kind = "bucket" /\ buckets[s].hashv = s
  BY <1>2 DEF ListInv, Slots
<1> QED BY <1>2, <1>3, HeadFirst DEF key

(* The nodes that the next step dereferences are allocated. *)
LEMMA TouchedLive ==
  ASSUME IInv, ListInv, NEW t \in Accessors
  PROVE  Touched(acc[t]) \subseteq live
<1> USE DEF IInv
<1> DEFINE a == acc[t]
<1>1. Typed(a) /\ Facts(a) /\ Listed \subseteq live
  BY Reads, HeadFirst DEF ListInv
<1>2. a.slot \in Nat /\ a.bslot \in Nat /\ reverse_hasht_bits[a.pb_key] \in Nat
  BY <1>1, HashAssumption, KeyTypes DEF Typed, Accessor
<1>3. CASE a.pc = "find_head"
  <2>1. Touched(a) = {buckets[a.slot]}
    BY <1>3 DEF Touched
  <2>2. a.slot < n_buckets /\ buckets[a.slot] # NULL
    BY <1>1, <1>3 DEF Facts, SearchFacts
  <2> QED BY <1>2, <2>1, <2>2, SlotListed
<1>4. CASE a.pc = "parent_head"
  <2>1. Touched(a) = {buckets[reverse_hasht_bits[a.pb_key]]}
    BY <1>4 DEF Touched
  <2>2. /\ reverse_hasht_bits[a.pb_key] < n_buckets
        /\ buckets[reverse_hasht_bits[a.pb_key]] # NULL
    BY <1>1, <1>4 DEF Facts, BucketFacts
  <2> QED BY <1>2, <2>1, <2>2, SlotListed
<1>5. CASE a.pc \in {"init_discard", "init_assert"}
  <2>1. Touched(a) = {buckets[a.bslot]}
    BY <1>5 DEF Touched
  <2>2. a.bslot < n_buckets /\ buckets[a.bslot] # NULL
    BY <1>1, <1>5 DEF Facts, BucketFacts, Initialising
  <2> QED BY <1>2, <2>1, <2>2, SlotListed
<1>6. CASE a.pc \in {"find_loop", "link", "scan_head", "mark", "init_cas", "init_check",
                     "scan_loop", "parent_loop", "unlink", "reclaim"}
  <2>1. CASE a.pc \in {"find_loop", "parent_loop"}
    <3>1. a.cur \in Listed /\ a.next \in Listed \cup {NULL}
      BY <1>1, <2>1 DEF Facts, SearchFacts, BucketFacts, Reached
    <3>2. Touched(a) \subseteq ({a.next} \ {NULL}) \cup {a.cur}
      BY <2>1 DEF Touched
    <3> QED BY <1>1, <3>1, <3>2
  <2>2. CASE a.pc = "scan_loop"
    <3>1. a.next \in Listed \cup {NULL}
      BY <1>1, <2>2 DEF Facts, SearchFacts
    <3>2. Touched(a) \subseteq {a.next} \ {NULL}
      BY <2>2 DEF Touched
    <3> QED BY <1>1, <3>1, <3>2
  <2>3. CASE a.pc = "unlink"
    <3>1. Touched(a) = {a.prev}
      BY <2>3 DEF Touched
    <3> QED BY <1>1, <2>3, <3>1 DEF Facts, SearchFacts
  <2>4. CASE a.pc \in {"link", "scan_head", "mark", "init_cas", "init_check", "reclaim"}
    <3>1. Touched(a) = {a.cur}
      BY <2>4 DEF Touched
    <3>2. a.cur \in live
      BY <1>1, <2>4 DEF Facts, SearchFacts, BucketFacts, Place
    <3> QED BY <3>1, <3>2
  <2> QED BY <1>6, <2>1, <2>2, <2>3, <2>4
<1>7. CASE a.pc \notin {"find_head", "parent_head", "init_discard", "init_assert", "find_loop",
                        "link", "scan_head", "mark", "init_cas", "init_check",
                        "scan_loop", "parent_loop", "unlink", "reclaim"}
  <2>1. Touched(a) = {}
    BY <1>7 DEF Touched
  <2> QED BY <2>1
<1> QED BY <1>3, <1>4, <1>5, <1>6, <1>7

(* No assert fails. *)
LEMMA AssertsHold ==
  ASSUME IInv, ListInv, EvenHashes, NEW t \in Accessors
  PROVE  ~AssertFails(acc[t])
<1> USE DEF IInv
<1> DEFINE a == acc[t]
<1>1. Typed(a) /\ Local(a) /\ Facts(a)
  BY Reads DEF ListInv, Locals
<1>2. a.bslot \in Nat /\ n_buckets \in Nat \ {0}
  BY <1>1, SizeAssumption, KeyTypes DEF Typed, Accessor, TypeOK
<1>3. a.pc = "insert_new" => BucketKeyAsserted(a.hashv)
  BY <1>1 DEF Local, Facts, CallFacts, EvenHashes
<1>4. Initialising(a) => a.bslot < n_buckets /\ BucketKeyAsserted(a.bslot)
  <2>1. Initialising(a) => a.bslot < n_buckets
    BY <1>1 DEF Facts, BucketFacts
  <2>2. Initialising(a) => a.bslot \in 0 .. n_buckets - 1
    BY <1>2, <2>1
  <2> QED BY <2>1, <2>2, SlotEven
<1>5. BucketKeyAsserted(n_buckets \div 2)
  <2>1. n_buckets \div 2 \in 0 .. n_buckets - 1
    BY <1>2
  <2> QED BY <2>1, SlotEven
<1>6. a.pc \in {"init_discard", "init_assert"} => key(buckets[a.bslot]) = key(a.bnode)
  <2> SUFFICES ASSUME a.pc \in {"init_discard", "init_assert"}
               PROVE  key(buckets[a.bslot]) = key(a.bnode)
    OBVIOUS
  <2>1. a.bslot < n_buckets /\ buckets[a.bslot] # NULL
    BY <1>1 DEF Facts, BucketFacts, Initialising
  <2>2. key(buckets[a.bslot]) = sol_bucket_key(a.bslot)
    BY <1>2, <2>1, SlotListed
  <2>3. a.bnode.kind = "bucket" /\ a.bnode.hashv = a.bslot
    BY <1>1 DEF Local, Initialising
  <2> QED BY <2>2, <2>3 DEF key
<1> QED BY <1>2, <1>3, <1>4, <1>5, <1>6 DEF AssertFails, Initialising

(* No step of a calm process aborts it. *)
LEMMA NoFaultNext ==
  ASSUME IInv, ListInv, Calm, EvenHashes, NEW t \in Accessors
  PROVE  Fault(t) = "none"
<1> USE DEF IInv
<1>1. ASSUME At(t, "expand") PROVE ~(new_size < n_buckets)
  <2>1. 2 * n_buckets < Modulus /\ n_buckets \in Nat /\ Modulus \in Nat
    BY <1>1, SizeAssumption DEF Calm, TypeOK
  <2>2. n_buckets * 2 \in HashValues
    BY <2>1 DEF HashValues
  <2>3. new_size = n_buckets * 2
    BY <2>2, SmallRemainder DEF new_size
  <2> QED BY <2>1, <2>3
<1>2. ~BadAccess(t)
  BY <1>1, SlotsExist, TouchedLive DEF BadAccess
<1> QED BY <1>2, AssertsHold DEF Fault

-----------------------------------------------------------------------------
(***************************************************************************)
(* How a step of an accessor preserves the invariant.                      *)
(***************************************************************************)
(* A step of t in a calm process. *)
CalmStep(t) ==
  /\ IInv /\ IInv' /\ ListInv /\ Calm /\ Calm'
  /\ t \in Accessors
  /\ \A u \in Accessors \ {t} : acc'[u] = acc[u]
  /\ ~At(t, "idle") \/ ~At(t, "idle")'

(* What other calls know stays true while the list grows. *)
LEMMA OthersKnow ==
  ASSUME NEW t, CalmStep(t), NEW u \in Accessors \ {t},
         \/ Alone(acc[t]) \/ Alone(acc'[t])
         \/ Listed \subseteq Listed' /\ buckets' = buckets /\ n_buckets' = n_buckets
  PROVE  Facts(acc[u])'
<1> USE DEF CalmStep
<1> DEFINE a == acc[u]
<1>1. Facts(a) /\ Local(a) /\ acc'[u] = a
  BY DEF ListInv, IInv, Locals
<1>2. CASE a.pc = "idle"
  BY <1>1, <1>2 DEF Facts, CallFacts, SearchFacts, BucketFacts, Initialising, Publishing,
                    Reached, Place, Probing
<1>3. CASE a.pc # "idle"
  <2>1. ~Alone(acc[t]) /\ ~Alone(acc'[t])
    BY <1>1, <1>3 DEF Calm, At
  <2>2. ~Alone(a)
    BY <1>1 DEF Calm, At
  <2>3. Listed \subseteq Listed' /\ buckets' = buckets /\ n_buckets' = n_buckets
    BY <2>1
  <2>4. a.op # "delete" /\ a.pc \notin {"mark", "unlink", "uncount", "reclaim"}
    BY <1>1, <2>2 DEF Alone, Local
  <2>5. CallFacts(acc[u])'
    BY <1>1, <2>2, <2>3 DEF Alone, Facts, CallFacts
  <2>6. SearchFacts(acc[u])'
    BY <1>1, <2>2, <2>3, <2>4 DEF Alone, Facts, SearchFacts, Reached, Place
  <2>7. BucketFacts(acc[u])'
    BY <1>1, <2>2, <2>3 DEF Alone, Facts, BucketFacts, Publishing, Initialising
  <2> QED BY <2>5, <2>6, <2>7 DEF Facts
<1> QED BY <1>2, <1>3

(* The invariant after a step. *)
LEMMA StepInvariant ==
  ASSUME NEW t, CalmStep(t),
         SplitOrdered(Listed, link)', Slots', Table', DataNodes', Facts(acc[t])',
         \/ Alone(acc[t]) \/ Alone(acc'[t])
         \/ Listed \subseteq Listed' /\ buckets' = buckets /\ n_buckets' = n_buckets
  PROVE  ListInv'
<1>1. \A u \in Accessors : Facts(acc[u])'
  BY OthersKnow DEF CalmStep
<1> QED BY <1>1 DEF ListInv

(* The list is the same if no node is hidden, shown, allocated or freed. *)
LEMMA ListedSame ==
  ASSUME NEW t, CalmStep(t), live' \ Hidden(acc'[t]) = live \ Hidden(acc[t])
  PROVE  Listed' = Listed
<1> DEFINE others == {n \in live \cup live' : \A u \in Accessors \ {t} : n \notin Hidden(acc[u])}
<1>1. Listed = (live \ Hidden(acc[t])) \cap others
  BY DEF Listed, CalmStep
<1>2. Listed' = (live' \ Hidden(acc'[t])) \cap others
  BY DEF Listed, CalmStep
<1> QED BY <1>1, <1>2

(* A step that changes no link in the list and no slot. *)
LEMMA QuietStep ==
  ASSUME NEW t, CalmStep(t), UNCHANGED <<buckets, n_buckets>>,
         Listed' = Listed, \A n \in Listed : link'[n].ptr = link[n].ptr,
         Publishing(acc[t]) => Publishing(acc'[t]) /\ acc'[t].bnode = acc[t].bnode,
         ~At(t, "expand_size"), ~At(t, "expand_size")', Facts(acc[t])'
  PROVE  ListInv'
<1> USE DEF CalmStep
<1>1. SplitOrdered(Listed, link)'
  <2>1. SplitOrdered(Listed, link')
    BY OrderFrame DEF ListInv
  <2> QED BY <2>1
<1>2. Slots'
  <2>1. ASSUME NEW n \in Listed, NEW u \in Accessors, Publishing(acc[u]), acc[u].bnode = n
        PROVE  \E v \in Accessors : Publishing(acc'[v]) /\ acc'[v].bnode = n
    BY <2>1
  <2> QED BY <2>1 DEF ListInv, Slots
<1>3. Table'
  BY DEF ListInv, Table, At
<1>4. DataNodes'
  BY DEF ListInv, DataNodes
<1> QED BY <1>1, <1>2, <1>3, <1>4, StepInvariant

(* What a step keeps of the locals a. *)
SameSearch(a, b) == b.prev = a.prev /\ b.cur = a.cur /\ b.next = a.next
SameCall(a, b) ==
  /\ b.op = a.op /\ b.hashv = a.hashv /\ b.slot = a.slot
  /\ b.nbuckets = a.nbuckets /\ b.dnode = a.dnode
SameBucket(a, b) == b.bslot = a.bslot /\ b.bnode = a.bnode /\ b.ret = a.ret

-----------------------------------------------------------------------------
(***************************************************************************)
(* initialise_bucket.                                                      *)
(***************************************************************************)
(* The steps of initialise_bucket from its new node on. *)
LEMMA GetParentList ==
  ASSUME NEW t, CalmStep(t), GetParent(t)
  PROVE  ListInv' /\ Listed' = Listed
<1> USE DEF CalmStep
<1> DEFINE a == acc[t]
           b == acc'[t]
<1>1. Typed(a) /\ Local(a) /\ Facts(a) /\ a.pc = "get_parent"
  BY Reads DEF IInv, Locals, ListInv, GetParent, At
<1>2. /\ b.pc = "probe" /\ b.key_step = sol_bucket_key(n_buckets \div 2)
      /\ b.pb_key = key(a.bnode)
      /\ SameSearch(a, b) /\ SameCall(a, b) /\ SameBucket(a, b)
  BY <1>1 DEF GetParent, IInv, TypeOK, Typed, Accessor, SameSearch, SameCall, SameBucket
<1>3. UNCHANGED <<link, buckets, n_buckets>> /\ live' = live
  BY DEF GetParent, live
<1>4. Listed' = Listed
  <2>1. Hidden(b) = Hidden(a)
    BY <1>1, <1>2 DEF Hidden, Unlinked, SameSearch, SameCall, SameBucket
  <2> QED BY <1>3, <2>1, ListedSame
<1>5. Probing(acc[t])'
  <2> DEFINE s == a.bslot
  <2>0. n_buckets \in 1 .. Modulus - 1 /\ Modulus \in Nat
    BY SizeAssumption DEF IInv, TypeOK
  <2>1. s \in HashValues /\ s < n_buckets /\ buckets[s] = NULL
    BY <1>1 DEF Facts, BucketFacts, Initialising, Typed, Accessor
  <2>2. buckets[0] # NULL
    BY HeadFirst, NullAssumption DEF IInv
  <2>3. s # 0 /\ s \in Nat /\ n_buckets > 1
    BY <2>0, <2>1, <2>2, KeyTypes
  <2>4. PICK q \in 1 .. Modulus : n_buckets * q = Modulus
    BY DEF ListInv, Table
  <2>5. n_buckets \in 1 .. Modulus
    BY <2>0
  <2>6. sol_bucket_key(n_buckets \div 2) = q
    BY <2>3, <2>4, <2>5, TableKeys DEF sol_bucket_key
  <2>7. PICK m \in 0 .. n_buckets - 1 : reverse_hasht_bits[s] = m * q
    <3>1. \A h \in HashValues :
            h < n_buckets <=> \E m \in 0 .. n_buckets - 1 : reverse_hasht_bits[h] = m * q
      BY <2>4, <2>5, TableKeys
    <3> QED BY <2>1, <3>1
  <2>8. reverse_hasht_bits[s] # 0
    BY <2>1, <2>3, HashAssumption
  <2>9. m \in 1 .. n_buckets - 1
    <3>1. m = 0 => m * q = 0
      OBVIOUS
    <3> QED BY <2>0, <2>7, <2>8, <3>1
  <2>10. key(a.bnode) = reverse_hasht_bits[s] /\ reverse_hasht_bits[s] \in Nat
    BY <1>1, <2>1, KeyTypes, HashAssumption DEF Local, Initialising, key, sol_bucket_key
  <2> QED BY <1>2, <1>3, <2>4, <2>6, <2>7, <2>9, <2>10 DEF Probing, SameBucket, sol_bucket_key
<1>6. Facts(acc[t])'
  BY <1>1, <1>2, <1>3, <1>4, <1>5 DEF Facts, CallFacts, SearchFacts, BucketFacts, Initialising, Publishing, SameSearch,
       SameCall, SameBucket
<1> QED BY <1>1, <1>2, <1>3, <1>4, <1>6, QuietStep DEF Publishing, At

(* get_parent steps down to the next slot that may hold a parent, or has one. *)
LEMMA ProbeList ==
  ASSUME NEW t, CalmStep(t), Probe(t)
  PROVE  ListInv' /\ Listed' = Listed
<1> USE DEF CalmStep
<1> DEFINE a == acc[t]
           b == acc'[t]
           k == PreviousBucketKey(a)
           found == buckets[reverse_hasht_bits[k]] # NULL \/ k = 0
<1>1. Typed(a) /\ Local(a) /\ Facts(a) /\ a.pc = "probe"
  BY Reads DEF IInv, Locals, ListInv, Probe, At
<1>2. /\ b.pc = (IF found THEN "parent_head" ELSE "probe") /\ b.pb_key = k
      /\ b.key_step = a.key_step
      /\ SameSearch(a, b) /\ SameCall(a, b) /\ SameBucket(a, b)
  BY <1>1 DEF Probe, IInv, TypeOK, Typed, Accessor, SameSearch, SameCall, SameBucket
<1>3. UNCHANGED <<link, buckets, n_buckets>> /\ live' = live
  BY DEF Probe, live
<1>4. Listed' = Listed
  <2>1. Hidden(b) = Hidden(a)
    BY <1>1, <1>2 DEF Hidden, Unlinked, SameSearch, SameCall, SameBucket
  <2> QED BY <1>3, <2>1, ListedSame
<1>5. /\ k \in Nat /\ k < sol_bucket_key(a.bslot) /\ sol_bucket_key(a.bslot) \in Nat
      /\ reverse_hasht_bits[k] < n_buckets
      /\ k # 0 => \E m \in 1 .. n_buckets - 1 : k = m * a.key_step
      /\ n_buckets * a.key_step = Modulus
  <2>1. Probing(a)
    BY <1>1 DEF Facts, BucketFacts
  <2>2. /\ k \in HashValues /\ k < a.pb_key
        /\ reverse_hasht_bits[k] \in 0 .. n_buckets - 1
        /\ k # 0 => \E m \in 1 .. n_buckets - 1 : k = m * a.key_step
    BY <1>1, <2>1, ProbeStep DEF IInv
  <2>3. a.pb_key <= sol_bucket_key(a.bslot) /\ n_buckets * a.key_step = Modulus
    BY <2>1 DEF Probing
  <2>4. /\ k \in Nat /\ a.pb_key \in Nat /\ sol_bucket_key(a.bslot) \in Nat
        /\ n_buckets \in Nat
    BY <1>1, <2>2, KeyTypes, SizeAssumption DEF Typed, Accessor, IInv, TypeOK
  <2> HIDE DEF k
  <2> QED BY <2>2, <2>3, <2>4
<1> HIDE DEF k
<1>6. k = 0 => buckets[reverse_hasht_bits[k]] # NULL
  BY HeadFirst, NullAssumption, HashAssumption DEF IInv
<1>7. ASSUME ~found PROVE Probing(acc[t])'
  <2>1. \E m \in 1 .. n_buckets - 1 : k = m * a.key_step
    BY <1>5, <1>7
  <2>2. k <= sol_bucket_key(a.bslot)
    BY <1>5
  <2>3. b.bslot = a.bslot
    BY <1>2 DEF SameBucket
  <2> QED BY <1>2, <1>3, <1>5, <2>1, <2>2, <2>3 DEF Probing
<1>8. Facts(acc[t])'
  BY <1>1, <1>2, <1>3, <1>4, <1>5, <1>6, <1>7
     DEF Facts, CallFacts, SearchFacts, BucketFacts, Initialising, Publishing, SameSearch,
         SameCall, SameBucket
<1> QED BY <1>1, <1>2, <1>3, <1>4, <1>8, QuietStep DEF Publishing, At

(* The walk to the place of a new bucket node starts at the parent. *)
LEMMA ParentHeadList ==
  ASSUME NEW t, CalmStep(t), ParentHead(t)
  PROVE  ListInv' /\ Listed' = Listed
<1> USE DEF CalmStep
<1> DEFINE a == acc[t]
           b == acc'[t]
           s == reverse_hasht_bits[a.pb_key]
           head == buckets[s]
<1>1. Typed(a) /\ Local(a) /\ Facts(a) /\ a.pc = "parent_head"
  BY Reads DEF IInv, Locals, ListInv, ParentHead, At
<1>2. /\ b.pc = "parent_loop"
      /\ b.prev = head /\ b.cur = head /\ b.next = link[head].ptr
      /\ SameCall(a, b) /\ SameBucket(a, b)
  BY <1>1 DEF ParentHead, Positioned, get, IInv, TypeOK, Typed, Accessor, SameCall, SameBucket
<1>3. UNCHANGED <<link, buckets, n_buckets>> /\ live' = live
  BY DEF ParentHead, live
<1>4. Listed' = Listed
  <2>1. Hidden(b) = Hidden(a)
    BY <1>1, <1>2 DEF Hidden, Unlinked, SameCall, SameBucket
  <2> QED BY <1>3, <2>1, ListedSame
<1>5. head \in Listed /\ key(head) = a.pb_key /\ a.pb_key < sol_bucket_key(a.bslot)
  <2>1. s < n_buckets /\ head # NULL /\ a.pb_key < sol_bucket_key(a.bslot)
    BY <1>1 DEF Facts, BucketFacts
  <2>2. a.pb_key \in HashValues
    BY <1>1 DEF Typed, Accessor
  <2>3. s \in Nat /\ reverse_hasht_bits[s] = a.pb_key
    BY <2>2, HashAssumption, KeyTypes
  <2>4. head \in Listed /\ key(head) = sol_bucket_key(s)
    BY <2>1, <2>3, SlotListed DEF IInv
  <2> QED BY <2>1, <2>3, <2>4 DEF sol_bucket_key
<1> HIDE DEF head
<1>6. Reached(acc[t], sol_bucket_key(a.bslot))'
  <2>1. /\ link[head].ptr \in Listed \cup {NULL}
        /\ link[head].ptr # NULL => key(head) < key(link[head].ptr)
    BY <1>5 DEF ListInv, SplitOrdered
  <2>2. key(head) \in Nat /\ sol_bucket_key(a.bslot) \in Nat
    BY <1>1, <1>5, HeadFirst, KeyTypes DEF Typed, Accessor, IInv
  <2>3. b.cur \in Listed' /\ key(b.cur) <= sol_bucket_key(a.bslot)
    BY <1>2, <1>4, <1>5, <2>2
  <2> QED BY <1>2, <1>3, <1>4, <2>1, <2>3 DEF Reached, SameBucket
<1>7. Facts(acc[t])'
  BY <1>1, <1>2, <1>3, <1>4, <1>5, <1>6
     DEF Facts, CallFacts, SearchFacts, BucketFacts, Initialising, Publishing,
         SameCall, SameBucket
<1> QED BY <1>1, <1>2, <1>3, <1>4, <1>7, QuietStep DEF Publishing, At

(* The walk to the place of a new bucket node takes a step. *)
LEMMA ParentAdvanceList ==
  ASSUME NEW t, CalmStep(t), ParentAdvance(t)
  PROVE  ListInv' /\ Listed' = Listed
<1> USE DEF CalmStep
<1> DEFINE a == acc[t]
           b == acc'[t]
<1>1. Typed(a) /\ Local(a) /\ Facts(a) /\ a.pc = "parent_loop" /\ BeforeBucket(a)
  BY Reads DEF IInv, Locals, ListInv, ParentAdvance, At
<1>2. /\ b.pc = "parent_loop"
      /\ b.prev = a.cur /\ b.cur = a.next /\ b.next = link[a.next].ptr
      /\ SameCall(a, b) /\ SameBucket(a, b)
  BY <1>1 DEF ParentAdvance, Advanced, get, IInv, TypeOK, Typed, Accessor, SameCall, SameBucket
<1>3. UNCHANGED <<link, buckets, n_buckets>> /\ live' = live
  BY DEF ParentAdvance, live
<1>4. Listed' = Listed
  <2>1. Hidden(b) = Hidden(a)
    BY <1>1, <1>2 DEF Hidden, Unlinked, SameCall, SameBucket
  <2> QED BY <1>3, <2>1, ListedSame
<1>5. a.next \in Listed /\ key(a.next) < sol_bucket_key(a.bslot)
  <2>1. a.next \in Listed
    BY <1>1 DEF Facts, BucketFacts, Reached, BeforeBucket
  <2>2. key(a.bnode) = sol_bucket_key(a.bslot)
    BY <1>1 DEF Local, Initialising, key
  <2> QED BY <1>1, <2>1, <2>2 DEF BeforeBucket
<1>6. Reached(acc[t], sol_bucket_key(a.bslot))'
  <2>1. /\ link[a.next].ptr \in Listed \cup {NULL}
        /\ link[a.next].ptr # NULL => key(a.next) < key(link[a.next].ptr)
    BY <1>5 DEF ListInv, SplitOrdered
  <2>2. key(a.next) \in Nat /\ sol_bucket_key(a.bslot) \in Nat
    BY <1>1, <1>5, HeadFirst, KeyTypes DEF Typed, Accessor, IInv
  <2>3. b.cur \in Listed' /\ key(b.cur) <= sol_bucket_key(a.bslot)
    BY <1>2, <1>4, <1>5, <2>2
  <2> QED BY <1>2, <1>3, <1>4, <2>1, <2>3 DEF Reached, SameBucket
<1>7. Facts(acc[t])'
  BY <1>1, <1>2, <1>3, <1>4, <1>5, <1>6
     DEF Facts, CallFacts, SearchFacts, BucketFacts, Initialising, Publishing,
         SameCall, SameBucket
<1> QED BY <1>1, <1>2, <1>3, <1>4, <1>7, QuietStep DEF Publishing, At

(* The node just linked is found again behind its predecessor. *)
LEMMA InitCheckList ==
  ASSUME NEW t, CalmStep(t), InitCheck(t)
  PROVE  ListInv' /\ Listed' = Listed
<1> USE DEF CalmStep
<1> DEFINE a == acc[t]
           b == acc'[t]
<1>1. Typed(a) /\ Local(a) /\ Facts(a) /\ a.pc = "init_check"
  BY Reads DEF IInv, Locals, ListInv, InitCheck, At
<1>2. get(link[a.cur]) = a.bnode
  BY <1>1 DEF Facts, BucketFacts, get
<1>3. b.pc = "init_own" /\ SameSearch(a, b) /\ SameCall(a, b) /\ SameBucket(a, b)
  BY <1>1, <1>2 DEF InitCheck, IInv, TypeOK, Typed, Accessor, SameSearch, SameCall, SameBucket
<1>4. UNCHANGED <<link, buckets, n_buckets>> /\ live' = live
  BY DEF InitCheck, live
<1>5. Listed' = Listed
  <2>1. Hidden(b) = Hidden(a)
    BY <1>1, <1>3 DEF Hidden, Unlinked, SameSearch, SameCall, SameBucket
  <2> QED BY <1>4, <2>1, ListedSame
<1>6. Facts(acc[t])'
  BY <1>1, <1>3, <1>4, <1>5
     DEF Facts, CallFacts, SearchFacts, BucketFacts, Initialising, Publishing, SameSearch,
         SameCall, SameBucket
<1> QED BY <1>1, <1>3, <1>4, <1>5, <1>6, QuietStep DEF Publishing, At, SameBucket

(* An idle accessor hides no node and knows nothing. *)
LEMMA IdleKnows ==
  /\ Hidden(IdleAccessor) = {}
  /\ IdleAccessor.pc = "idle" /\ IdleAccessor.op = "none" /\ IdleAccessor.ret = "none"
BY DEF Hidden, Unlinked, IdleAccessor

(* A return that hides or frees nothing. *)
LEMMA ReturnList ==
  ASSUME NEW t, CalmStep(t), acc'[t] = IdleAccessor, UNCHANGED <<buckets, n_buckets>>,
         Listed' = Listed, \A n \in Listed : link'[n].ptr = link[n].ptr,
         ~Publishing(acc[t]), ~At(t, "expand_size")
  PROVE  ListInv'
<1>1. Facts(acc[t])'
  BY IdleKnows
     DEF Facts, CallFacts, SearchFacts, BucketFacts, Initialising, Publishing
<1>2. ~At(t, "expand_size")'
  BY IdleKnows DEF At
<1> QED BY <1>1, <1>2, QuietStep

(* initialise_bucket returns, its bucket initialised. *)
LEMMA InitReturnedList ==
  ASSUME NEW t, CalmStep(t), acc[t].pc \in {"init_enter", "init_assert"},
         acc'[t] = InitReturned(acc[t]), UNCHANGED <<link, buckets, n_buckets>>,
         buckets[acc[t].bslot] # NULL
  PROVE  ListInv' /\ Listed' = Listed
<1> USE DEF CalmStep
<1> DEFINE a == acc[t]
           b == acc'[t]
<1>1. Typed(a) /\ Local(a) /\ Facts(a) /\ live' = live
  BY Reads DEF IInv, Locals, ListInv, live
<1>2. CASE a.ret = "find_head"
  <2>1. /\ b.pc = "find_head" /\ b.ret = "none"
        /\ SameCall(a, b) /\ SameSearch(a, b)
    BY <1>1, <1>2 DEF InitReturned, Typed, Accessor, SameCall, SameSearch
  <2>2. Listed' = Listed
    <3>1. Hidden(b) = Hidden(a)
      BY <1>2, <2>1 DEF Hidden, Unlinked, SameCall, SameSearch
    <3> QED BY <1>1, <3>1, ListedSame
  <2>3. Facts(acc[t])'
    BY <1>1, <1>2, <2>1, <2>2
       DEF Facts, CallFacts, SearchFacts, BucketFacts, Initialising, Publishing, SameCall,
           SameSearch
  <2> QED BY <1>2, <2>1, <2>2, <2>3, QuietStep DEF Publishing, At
<1>3. CASE a.ret # "find_head"
  <2>1. b = IdleAccessor
    BY <1>3 DEF InitReturned
  <2>2. Hidden(a) = {}
    BY <1>3 DEF Hidden, Unlinked
  <2>3. Listed' = Listed
    BY <1>1, <2>1, <2>2, IdleKnows, ListedSame
  <2> QED BY <2>1, <2>3, ReturnList DEF Publishing, At
<1> QED BY <1>2, <1>3

(* The assertion at the end of initialise_bucket finds the slot filled. *)
LEMMA InitAssertList ==
  ASSUME NEW t, CalmStep(t), InitAssert(t)
  PROVE  ListInv' /\ Listed' = Listed
<1> USE DEF CalmStep
<1>1. acc[t].pc = "init_assert" /\ Facts(acc[t])
  BY DEF ListInv, InitAssert, At
<1>2. acc'[t] = InitReturned(acc[t]) /\ UNCHANGED <<link, buckets, n_buckets>>
  BY DEF InitAssert, IInv, TypeOK
<1>3. buckets[acc[t].bslot] # NULL
  BY <1>1 DEF Facts, BucketFacts
<1> QED BY <1>1, <1>2, <1>3, InitReturnedList

(* The new node of a bucket is hidden. *)
LEMMA InitEnterList ==
  ASSUME NEW t, CalmStep(t), InitEnter(t)
  PROVE  ListInv' /\ Listed' = Listed
<1> USE DEF CalmStep
<1> DEFINE a == acc[t]
           b == acc'[t]
           s == a.bslot
           n == NewNode("bucket", s)
<1>1. Typed(a) /\ Local(a) /\ Facts(a) /\ a.pc = "init_enter"
  BY Reads DEF IInv, Locals, ListInv, InitEnter, At
<1>2. CASE buckets[s] # NULL
  <2>1. acc'[t] = InitReturned(a) /\ UNCHANGED <<link, buckets, n_buckets>>
    BY <1>2 DEF InitEnter, IInv, TypeOK
  <2> QED BY <1>1, <1>2, <2>1, InitReturnedList
<1>3. CASE buckets[s] = NULL
  <2>1. /\ Unused("bucket", s) # {} /\ Allocate(n) /\ UNCHANGED <<buckets, n_buckets>>
        /\ acc' = [acc EXCEPT ![t].bnode = n, ![t].pc = "get_parent"]
    BY <1>3 DEF InitEnter
  <2>2. /\ b.pc = "get_parent" /\ b.bnode = n /\ b.bslot = s /\ b.ret = a.ret
        /\ SameSearch(a, b) /\ SameCall(a, b)
    <3> HIDE DEF n
    <3> QED BY <1>1, <2>1 DEF IInv, TypeOK, Typed, Accessor, SameSearch, SameCall
  <2>3. s \in HashValues
    BY <1>1 DEF Typed, Accessor
  <2>4. n \notin live
    BY <2>1, <2>3, NewNodeFresh
  <2> HIDE DEF n
  <2>5. live' = live \cup {n} /\ \A m \in live : link'[m] = link[m]
    BY <2>1, <2>4 DEF Allocate, live
  <2>6. Hidden(b) = Hidden(a) \cup {n}
    BY <1>1, <2>2 DEF Hidden, Unlinked, SameSearch, SameCall
  <2>7. Listed' = Listed
    <3>1. live' \ Hidden(b) = live \ Hidden(a)
      BY <2>4, <2>5, <2>6
    <3> QED BY <3>1, ListedSame
  <2>8. \A m \in Listed : link'[m].ptr = link[m].ptr
    BY <2>5 DEF Listed
  <2>9. Facts(acc[t])'
    BY <1>1, <1>3, <2>1, <2>2, <2>7
       DEF Facts, CallFacts, SearchFacts, BucketFacts, Initialising, Publishing, SameSearch,
           SameCall
  <2> QED BY <1>1, <2>1, <2>2, <2>7, <2>8, <2>9, QuietStep DEF Publishing, At
<1> QED BY <1>2, <1>3

(* While t is alone, the bucket that it initialises is not in the list. *)
LEMMA NoOtherBucket ==
  ASSUME NEW t, CalmStep(t), acc[t].pc = "parent_loop", NEW n \in Listed
  PROVE  key(n) # key(acc[t].bnode)
<1> USE DEF CalmStep
<1> DEFINE a == acc[t]
<1> SUFFICES ASSUME key(n) = key(a.bnode) PROVE FALSE
  OBVIOUS
<1>1. /\ a.bnode \in Node /\ a.bnode.kind = "bucket" /\ a.bnode.hashv = a.bslot
      /\ BucketKeyAsserted(a.bslot) /\ buckets[a.bslot] = NULL
  BY DEF IInv, Locals, Local, Initialising, ListInv, Facts, BucketFacts
<1>2. n \in Node /\ n # NULL
  BY HeadFirst, NullAssumption DEF IInv
<1>3. key(a.bnode) % 2 = 0
  BY <1>1 DEF key, BucketKeyAsserted
<1>4. n.kind = "bucket"
  <2>1. n.kind \in {"bucket", "node"}
    BY <1>2 DEF Node
  <2>2. n.kind # "node"
    BY <1>2, <1>3, Keys
  <2> QED BY <2>1, <2>2
<1>5. n.hashv = a.bslot
  <2>1. reverse_hasht_bits[n.hashv] = reverse_hasht_bits[a.bslot]
    BY <1>1, <1>4 DEF key, sol_bucket_key
  <2>2. n.hashv \in HashValues /\ a.bslot \in HashValues
    BY <1>1, <1>2 DEF Node
  <2> QED BY <2>1, <2>2, HashAssumption
<1>6. PICK u \in Accessors : Publishing(acc[u])
  BY <1>1, <1>2, <1>4, <1>5 DEF ListInv, Slots
<1>7. u # t /\ acc[u].pc # "idle"
  BY <1>6 DEF Publishing
<1> QED BY <1>7 DEF Calm, Alone, At

(* The walk ends at the place of the new bucket node. *)
LEMMA InitTestList ==
  ASSUME NEW t, CalmStep(t), InitTest(t)
  PROVE  ListInv' /\ Listed' = Listed
<1> USE DEF CalmStep
<1> DEFINE a == acc[t]
           b == acc'[t]
           n == a.bnode
<1>1. Typed(a) /\ Local(a) /\ Facts(a) /\ a.pc = "parent_loop" /\ ~BeforeBucket(a)
  BY Reads DEF IInv, Locals, ListInv, InitTest, At
<1>2. buckets[a.bslot] = NULL /\ Reached(a, sol_bucket_key(a.bslot)) /\ key(n) = sol_bucket_key(a.bslot)
      /\ key(a.cur) < sol_bucket_key(a.bslot)
  BY <1>1 DEF Facts, BucketFacts, Local, Initialising, key
<1>3. ~OtherInstance(a)
  BY <1>1, <1>2, NoOtherBucket DEF OtherInstance, Reached
<1>4. b.pc = "init_cas" /\ SameSearch(a, b) /\ SameCall(a, b) /\ SameBucket(a, b)
  BY <1>1, <1>2, <1>3 DEF InitTest, IInv, TypeOK, Typed, Accessor, SameSearch, SameCall, SameBucket
<1>5. n \in Hidden(a) /\ n \in live
  <2>1. n \in Unlinked(a)
    BY <1>1 DEF Unlinked
  <2> QED BY <2>1 DEF Hidden, IInv, PrivateNodes
<1>6. /\ UNCHANGED <<buckets, n_buckets>> /\ live' = live
      /\ link'[n].ptr = a.next /\ \A m \in live \ {n} : link'[m] = link[m]
  <2>1. link' = [link EXCEPT ![n] = assign(@, a.next)]
    BY DEF InitTest
  <2> QED BY <1>5, <2>1 DEF InitTest, live, assign, Word
<1>7. Listed' = Listed
  <2>1. Hidden(b) = Hidden(a)
    BY <1>1, <1>4 DEF Hidden, Unlinked, SameSearch, SameCall, SameBucket
  <2> QED BY <1>6, <2>1, ListedSame
<1>8. \A m \in Listed : link'[m].ptr = link[m].ptr
  BY <1>5, <1>6 DEF Listed
<1>9. Place(acc[t], sol_bucket_key(a.bslot))'
  <2>1. a.next # NULL => sol_bucket_key(a.bslot) < key(a.next)
    <3> SUFFICES ASSUME a.next # NULL PROVE sol_bucket_key(a.bslot) < key(a.next)
      OBVIOUS
    <3>1. a.next \in Listed /\ key(a.next) # key(n) /\ ~(key(a.next) < key(n))
      BY <1>1, <1>2, NoOtherBucket DEF Reached, BeforeBucket
    <3>2. key(a.next) \in Nat /\ key(n) \in Nat
      BY <1>1, <3>1, HeadFirst, KeyTypes DEF IInv, Local, Initialising
    <3> QED BY <1>2, <3>1, <3>2
  <2> QED BY <1>2, <1>4, <1>7, <2>1 DEF Place, Reached, SameSearch, SameBucket
<1>10. Facts(acc[t])'
  BY <1>1, <1>4, <1>6, <1>7, <1>9
     DEF Facts, CallFacts, SearchFacts, BucketFacts, Initialising, Publishing, SameSearch,
         SameCall, SameBucket
<1> QED BY <1>1, <1>4, <1>6, <1>7, <1>8, <1>10, QuietStep DEF Publishing, At

(* A private node becomes part of the list. *)
LEMMA ListedMore ==
  ASSUME NEW t, CalmStep(t), live' = live, NEW d \in Unlinked(acc[t]),
         Hidden(acc'[t]) = Hidden(acc[t]) \ {d}
  PROVE  Listed' = Listed \cup {d} /\ d \notin Listed /\ d \in live /\ d \in Node
<1> USE DEF CalmStep
<1>1. d \in live /\ d \in Node /\ d \in Hidden(acc[t])
  BY DEF IInv, PrivateNodes, TypeOK, Hidden
<1>2. ASSUME NEW u \in Accessors \ {t} PROVE d \notin Hidden(acc[u])
  <2>1. d \notin Unlinked(acc[u]) /\ ~Referenced(d)
    BY DEF IInv, PrivateNodes
  <2>2. d # acc[u].cur
    BY <2>1 DEF Referenced
  <2> QED BY <2>1, <2>2 DEF Hidden
<1>3. ASSUME NEW n \in live PROVE n \in Listed' <=> n \in Listed \cup {d}
  <2>1. n \in Listed <=> n \notin Hidden(acc[t]) /\ \A u \in Accessors \ {t} : n \notin Hidden(acc[u])
    BY DEF Listed
  <2>2. n \in Listed' <=> n \notin Hidden(acc'[t]) /\ \A u \in Accessors \ {t} : n \notin Hidden(acc[u])
    BY DEF Listed
  <2> QED BY <1>1, <1>2, <2>1, <2>2
<1>4. Listed \subseteq live /\ Listed' \subseteq live /\ d \notin Listed
  BY <1>1 DEF Listed
<1> QED BY <1>1, <1>3, <1>4

(* The CAS of initialise_bucket puts its node in its place. *)
LEMMA InitCasList ==
  ASSUME NEW t, CalmStep(t), InitCas(t)
  PROVE  ListInv' /\ (Listed' = Listed \/ Listed' = Listed \cup {acc[t].bnode})
<1> USE DEF CalmStep
<1> DEFINE a == acc[t]
           b == acc'[t]
           c == a.cur
           n == a.bnode
<1>1. Typed(a) /\ Local(a) /\ Facts(a) /\ a.pc = "init_cas"
  BY Reads DEF IInv, Locals, ListInv, InitCas, At
<1>2. /\ Place(a, sol_bucket_key(a.bslot)) /\ link[n].ptr = a.next
      /\ n \in Node /\ key(n) = sol_bucket_key(a.bslot) /\ n.kind = "bucket" /\ n.hashv = a.bslot
  BY <1>1 DEF Facts, BucketFacts, Local, Initialising, key
<1>3. n \in Unlinked(a) /\ n \in Hidden(a) /\ n \in live
  <2>1. n \in Unlinked(a)
    BY <1>1 DEF Unlinked
  <2> QED BY <2>1 DEF Hidden, IInv, PrivateNodes
<1>4. c \in Listed /\ c \in live /\ c # n
  BY <1>2, <1>3, HeadFirst DEF Place, IInv, Listed
<1>5. /\ UNCHANGED <<buckets, n_buckets>> /\ live' = live
      /\ link'[c] = CAS(link[c], a.next, n, FALSE)
      /\ \A m \in live \ {c} : link'[m] = link[m]
  <2>1. link' = [link EXCEPT ![c] = CAS(@, a.next, n, FALSE)]
    BY DEF InitCas
  <2> QED BY <1>4, <2>1 DEF InitCas, live
<1>6. /\ b.pc = (IF CASMatches(link[c], a.next) THEN "init_finish" ELSE "get_parent")
      /\ SameSearch(a, b) /\ SameCall(a, b) /\ SameBucket(a, b)
  BY <1>1 DEF InitCas, IInv, TypeOK, Typed, Accessor, SameSearch, SameCall, SameBucket
<1>7. CASE ~CASMatches(link[c], a.next)
  <2>1. b.pc = "get_parent" /\ link'[c] = link[c]
    BY <1>5, <1>6, <1>7 DEF CAS
  <2>2. Listed' = Listed
    <3>1. Hidden(b) = Hidden(a)
      BY <1>1, <1>6, <2>1 DEF Hidden, Unlinked, SameSearch, SameCall, SameBucket
    <3> QED BY <1>5, <3>1, ListedSame
  <2>3. \A m \in Listed : link'[m].ptr = link[m].ptr
    BY <1>5, <2>1 DEF Listed
  <2>4. Facts(acc[t])'
    BY <1>1, <1>5, <1>6, <2>1, <2>2
       DEF Facts, CallFacts, SearchFacts, BucketFacts, Initialising, Publishing, SameSearch,
           SameCall, SameBucket
  <2>5. ListInv'
    BY <1>1, <1>5, <2>1, <2>2, <2>3, <2>4, QuietStep DEF Publishing, At
  <2> QED BY <2>2, <2>5
<1>8. CASE CASMatches(link[c], a.next)
  <2>1. b.pc = "init_finish" /\ link[c].ptr = a.next /\ link'[c].ptr = n
    BY <1>5, <1>6, <1>8 DEF CAS, CASMatches, Word
  <2>2. Hidden(b) = Hidden(a) \ {n}
    <3>1. a.op = "insert" => a.dnode # n
      BY <1>1, <1>2 DEF Local
    <3> QED BY <1>1, <1>6, <2>1, <3>1 DEF Hidden, Unlinked, SameSearch, SameCall, SameBucket
  <2>3. Listed' = Listed \cup {n} /\ n \notin Listed
    BY <1>3, <1>5, <2>2, ListedMore
  <2>4. SplitOrdered(Listed, link)'
    <3>1. link'[n].ptr = link[c].ptr /\ \A m \in Listed \ {c} : link'[m].ptr = link[m].ptr
      BY <1>2, <1>3, <1>4, <1>5, <2>1 DEF Listed
    <3>2. Listed \in SUBSET Node
      BY HeadFirst DEF IInv
    <3>3. key(c) < key(n) /\ (link[c].ptr # NULL => key(n) < key(link[c].ptr))
      BY <1>2, <2>1 DEF Place
    <3>4. SplitOrdered(Listed \cup {n}, link')
      BY <1>2, <1>4, <2>1, <2>3, <3>1, <3>2, <3>3, OrderInsert DEF ListInv
    <3> QED BY <2>3, <3>4
  <2>5. Slots'
    <3>1. Publishing(acc'[t]) /\ acc'[t].bnode = n
      BY <1>6, <2>1 DEF Publishing, SameBucket
    <3>2. \A u \in Accessors : Publishing(acc[u]) => u # t
      BY <1>1 DEF Publishing
    <3> QED BY <1>5, <2>3, <3>1, <3>2 DEF ListInv, Slots
  <2>6. Table' /\ DataNodes'
    BY <1>1, <1>2, <1>5, <2>1, <2>3 DEF ListInv, Table, DataNodes, At
  <2>7. Facts(acc[t])'
    BY <1>1, <1>4, <1>5, <1>6, <2>1, <2>3
       DEF Facts, CallFacts, SearchFacts, BucketFacts, Initialising, Publishing, SameSearch,
           SameCall, SameBucket
  <2>8. ListInv'
    BY <1>5, <2>3, <2>4, <2>5, <2>6, <2>7, StepInvariant
  <2> QED BY <2>3, <2>8
<1> QED BY <1>7, <1>8

(* The CAS that linked the bucket node has succeeded; nothing moves. *)
LEMMA InitFinishList ==
  ASSUME NEW t, CalmStep(t), InitFinish(t)
  PROVE  ListInv' /\ Listed' = Listed /\ acc'[t].pc = "init_check" /\ UNCHANGED link
<1> USE DEF CalmStep
<1> DEFINE a == acc[t]
           b == acc'[t]
<1>1. Typed(a) /\ Local(a) /\ Facts(a) /\ a.pc = "init_finish"
  BY Reads DEF IInv, Locals, ListInv, InitFinish, At
<1>2. buckets[a.bslot] = NULL
  BY <1>1 DEF Facts, BucketFacts
<1>3. b.pc = "init_check" /\ SameSearch(a, b) /\ SameCall(a, b) /\ SameBucket(a, b)
  BY <1>1, <1>2 DEF InitFinish, IInv, TypeOK, Typed, Accessor, SameSearch, SameCall, SameBucket
<1>4. UNCHANGED <<link, buckets, n_buckets>> /\ live' = live
  BY <1>2 DEF InitFinish, live
<1>5. Listed' = Listed
  <2>1. Hidden(b) = Hidden(a)
    BY <1>1, <1>3 DEF Hidden, Unlinked, SameSearch, SameCall, SameBucket
  <2> QED BY <1>4, <2>1, ListedSame
<1>6. Facts(acc[t])'
  BY <1>1, <1>3, <1>4, <1>5
     DEF Facts, CallFacts, SearchFacts, BucketFacts, Initialising, Publishing, SameSearch,
         SameCall, SameBucket
<1>7. ListInv'
  BY <1>1, <1>3, <1>4, <1>5, <1>6, QuietStep DEF Publishing, At, SameBucket
<1> QED BY <1>3, <1>4, <1>5, <1>7

(* The slot of the new bucket is published. *)
LEMMA InitOwnList ==
  ASSUME NEW t, CalmStep(t), InitOwn(t)
  PROVE  /\ ListInv' /\ Listed' = Listed
         /\ buckets[acc[t].bslot] = NULL
         /\ buckets' = [buckets EXCEPT ![acc[t].bslot] = acc[t].bnode]
<1> USE DEF CalmStep
<1> DEFINE a == acc[t]
           b == acc'[t]
           s == a.bslot
           n == a.bnode
<1>1. Typed(a) /\ Local(a) /\ Facts(a) /\ a.pc = "init_own"
  BY Reads DEF IInv, Locals, ListInv, InitOwn, At
<1>2. /\ buckets[s] = NULL /\ s < n_buckets /\ n \in Listed
      /\ n.kind = "bucket" /\ n.hashv = s
  BY <1>1 DEF Facts, BucketFacts, Local, Initialising, Publishing
<1>3. /\ b.pc = "init_assert" /\ b.cur = a.cur
      /\ SameCall(a, b) /\ SameBucket(a, b)
  BY <1>1 DEF InitOwn, IInv, TypeOK, Typed, Accessor, SameCall, SameBucket
<1>4. /\ buckets' = [buckets EXCEPT ![s] = n] /\ DOMAIN buckets' = DOMAIN buckets
      /\ UNCHANGED <<link, n_buckets>> /\ live' = live
  BY DEF InitOwn, Published, live
<1>5. Listed' = Listed
  <2>1. Hidden(b) = Hidden(a)
    BY <1>1, <1>3 DEF Hidden, Unlinked, SameCall, SameBucket
  <2> QED BY <1>4, <2>1, ListedSame
<1>6. s \in DOMAIN buckets /\ s # 0 /\ buckets'[s] = n
  <2>1. s \in 0 .. n_buckets - 1
    BY <1>1, <1>2, SizeAssumption, KeyTypes DEF Typed, Accessor, IInv, TypeOK
  <2>2. s \in DOMAIN buckets
    BY <2>1, TableSlots DEF IInv
  <2>3. s # 0
    BY <1>2, HeadFirst, NullAssumption DEF IInv
  <2> QED BY <1>4, <2>2, <2>3
<1>7. \A x \in DOMAIN buckets : x # s => buckets'[x] = buckets[x]
  BY <1>4
<1>8. Slots'
  <2>1. buckets'[0] = Head
    BY <1>6, <1>7, TableSlots DEF ListInv, Slots, IInv
  <2>2. ASSUME NEW x \in DOMAIN buckets', buckets'[x] # NULL
        PROVE  buckets'[x] \in Listed /\ buckets'[x].kind = "bucket" /\ buckets'[x].hashv = x
    BY <1>2, <1>4, <1>6, <1>7, <2>2 DEF ListInv, Slots
  <2>3. ASSUME NEW m \in Listed, m.kind = "bucket"
        PROVE  m.hashv \in DOMAIN buckets' /\ buckets'[m.hashv] = m
    <3>1. \A u \in Accessors : Publishing(acc[u]) => u = t
      BY <1>1 DEF Calm, Alone, Publishing, At
    <3>2. m = n \/ (m.hashv \in DOMAIN buckets /\ buckets[m.hashv] = m)
      BY <2>3, <3>1 DEF ListInv, Slots
    <3>3. m # NULL
      BY HeadFirst, NullAssumption DEF IInv
    <3> QED BY <1>2, <1>4, <1>6, <1>7, <3>2, <3>3
  <2> QED BY <1>5, <2>1, <2>2, <2>3 DEF Slots
<1>9. SplitOrdered(Listed, link)' /\ Table' /\ DataNodes'
  BY <1>1, <1>3, <1>4, <1>5 DEF ListInv, Table, DataNodes, SplitOrdered, At
<1>10. Facts(acc[t])'
  <2>1. n # NULL
    BY <1>2, HeadFirst, NullAssumption DEF IInv
  <2> QED BY <1>1, <1>3, <1>4, <1>6, <2>1
     DEF Facts, CallFacts, SearchFacts, BucketFacts, Initialising, Publishing,
         SameCall, SameBucket
<1>11. Alone(acc[t])
  BY <1>1 DEF Alone
<1>12. ListInv'
  BY <1>8, <1>9, <1>10, <1>11, StepInvariant
<1> QED BY <1>2, <1>4, <1>5, <1>12

(* The branch for the node of another thread is never taken. *)
LEMMA NeverOther ==
  ASSUME NEW t, CalmStep(t)
  PROVE  ~InitOther(t) /\ ~InitDiscard(t)
BY DEF CalmStep, ListInv, Facts, BucketFacts, InitOther, InitDiscard, At

-----------------------------------------------------------------------------
(***************************************************************************)
(* find_node.                                                              *)
(***************************************************************************)
(* The search starts at the bucket of the hash value. *)
LEMMA FindStartList ==
  ASSUME NEW t, CalmStep(t), FindStart(t)
  PROVE  ListInv' /\ Listed' = Listed
<1> USE DEF CalmStep
<1> DEFINE a == acc[t]
           b == acc'[t]
           s == a.hashv % n_buckets
<1>1. Typed(a) /\ Local(a) /\ Facts(a) /\ a.pc = "find"
  BY Reads DEF IInv, Locals, ListInv, FindStart, At
<1>2. s \in 0 .. n_buckets - 1 /\ sol_bucket_key(s) < sol_node_key(a.hashv)
  BY <1>1, BucketBefore DEF IInv, Typed, Accessor
<1>3. s < n_buckets
  BY <1>2, SizeAssumption DEF IInv, TypeOK
<1> HIDE DEF s
<1>4. /\ b.slot = s /\ b.op = a.op /\ b.hashv = a.hashv
      /\ b.nbuckets = a.nbuckets /\ b.dnode = a.dnode /\ b.cur = a.cur
      /\ IF buckets[s] # NULL
         THEN b.pc = "find_head" /\ b.ret = a.ret
         ELSE b.pc = "init_enter" /\ b.ret = "find_head" /\ b.bslot = s
  <2>1. acc' = IF buckets[s] # NULL
               THEN [acc EXCEPT ![t].slot = s, ![t].pc = "find_head"]
               ELSE [acc EXCEPT ![t].slot = s, ![t].bslot = s,
                                ![t].ret = "find_head", ![t].pc = "init_enter"]
    BY DEF FindStart, s
  <2>2. CASE buckets[s] # NULL
    <3>1. acc' = [acc EXCEPT ![t].slot = s, ![t].pc = "find_head"]
      BY <2>1, <2>2
    <3> QED BY <1>1, <2>2, <3>1 DEF IInv, TypeOK, Typed, Accessor
  <2>3. CASE buckets[s] = NULL
    <3>1. acc' = [acc EXCEPT ![t].slot = s, ![t].bslot = s,
                             ![t].ret = "find_head", ![t].pc = "init_enter"]
      BY <2>1, <2>3
    <3> QED BY <1>1, <2>3, <3>1 DEF IInv, TypeOK, Typed, Accessor
  <2> QED BY <2>2, <2>3
<1>5. UNCHANGED <<link, buckets, n_buckets>> /\ live' = live
  BY DEF FindStart, live
<1>6. Listed' = Listed
  <2>1. Hidden(b) = Hidden(a)
    BY <1>1, <1>4 DEF Hidden, Unlinked
  <2> QED BY <1>5, <2>1, ListedSame
<1>7. Facts(acc[t])'
  BY <1>1, <1>2, <1>3, <1>4, <1>5, <1>6
     DEF Facts, CallFacts, SearchFacts, BucketFacts, Initialising, Publishing
<1> QED BY <1>1, <1>4, <1>5, <1>6, <1>7, QuietStep DEF Publishing, At

(* A search starts at the node of its bucket. *)
LEMMA FindHeadList ==
  ASSUME NEW t, CalmStep(t), FindHead(t)
  PROVE  ListInv' /\ Listed' = Listed
<1> USE DEF CalmStep
<1> DEFINE a == acc[t]
           b == acc'[t]
<1>1. Typed(a) /\ Local(a) /\ Facts(a) /\ a.pc = "find_head"
  BY Reads DEF IInv, Locals, ListInv, FindHead, At
<1>2. /\ b.pc = "find_loop"
      /\ b.prev = buckets[a.slot] /\ b.cur = buckets[a.slot]
      /\ b.next = link[buckets[a.slot]].ptr
      /\ SameCall(a, b) /\ SameBucket(a, b)
  BY <1>1 DEF FindHead, Positioned, get, IInv, TypeOK, Typed, Accessor, SameSearch, SameCall, SameBucket
<1>3. UNCHANGED <<link, buckets, n_buckets>> /\ live' = live
  BY DEF FindHead, live
<1>4. Listed' = Listed
  <2>1. a.ret # "find_head"
    BY <1>1 DEF Local, Initialising
  <2>2. Hidden(b) = Hidden(a)
    BY <1>1, <1>2, <2>1 DEF Hidden, Unlinked, SameSearch, SameCall, SameBucket
  <2> QED BY <1>3, <2>2, ListedSame
<1>5. /\ buckets[a.slot] \in Listed
      /\ key(buckets[a.slot]) <= sol_node_key(a.hashv)
  <2>1. /\ a.slot < n_buckets /\ buckets[a.slot] # NULL
        /\ sol_bucket_key(a.slot) < sol_node_key(a.hashv)
    BY <1>1 DEF Facts, SearchFacts
  <2>2. a.slot \in HashValues /\ a.hashv \in HashValues
    BY <1>1 DEF Typed, Accessor
  <2>3. buckets[a.slot] \in Listed /\ key(buckets[a.slot]) = sol_bucket_key(a.slot)
    BY <2>1, <2>2, SlotListed, KeyTypes DEF IInv
  <2>4. sol_bucket_key(a.slot) \in Nat /\ sol_node_key(a.hashv) \in Nat
    BY <2>2, KeyTypes
  <2> QED BY <2>1, <2>3, <2>4
<1>6. Reached(acc[t], sol_node_key(a.hashv))'
  <2>1. /\ link[buckets[a.slot]].ptr \in Listed \cup {NULL}
        /\ link[buckets[a.slot]].ptr # NULL => key(buckets[a.slot]) < key(link[buckets[a.slot]].ptr)
    BY <1>5 DEF ListInv, SplitOrdered
  <2> QED BY <1>2, <1>3, <1>4, <1>5, <2>1 DEF Reached, SameCall
<1>7. Facts(acc[t])'
  BY <1>1, <1>2, <1>3, <1>4, <1>5, <1>6
     DEF Facts, CallFacts, SearchFacts, BucketFacts, Initialising, Publishing, SameSearch,
         SameCall, SameBucket
<1> QED BY <1>1, <1>2, <1>3, <1>4, <1>7, QuietStep DEF Publishing, At

(* A search takes a step along the list. *)
LEMMA FindAdvanceList ==
  ASSUME NEW t, CalmStep(t), FindAdvance(t)
  PROVE  ListInv' /\ Listed' = Listed
<1> USE DEF CalmStep
<1> DEFINE a == acc[t]
           b == acc'[t]
<1>1. Typed(a) /\ Local(a) /\ Facts(a) /\ a.pc = "find_loop" /\ NotPast(a)
  BY Reads DEF IInv, Locals, ListInv, FindAdvance, At
<1>2. /\ b.pc = "find_loop"
      /\ b.prev = a.cur /\ b.cur = a.next /\ b.next = link[a.next].ptr
      /\ SameCall(a, b) /\ SameBucket(a, b)
  BY <1>1 DEF FindAdvance, Advanced, get, IInv, TypeOK, Typed, Accessor, SameSearch, SameCall, SameBucket
<1>3. UNCHANGED <<link, buckets, n_buckets>> /\ live' = live
  BY DEF FindAdvance, live
<1>4. Listed' = Listed
  <2>1. a.ret # "find_head"
    BY <1>1 DEF Local, Initialising
  <2>2. Hidden(b) = Hidden(a)
    BY <1>1, <1>2, <2>1 DEF Hidden, Unlinked, SameSearch, SameCall, SameBucket
  <2> QED BY <1>3, <2>2, ListedSame
<1>5. a.cur \in Listed /\ a.next \in Listed /\ key(a.next) <= sol_node_key(a.hashv)
  BY <1>1 DEF Facts, SearchFacts, Reached, NotPast
<1>6. Reached(acc[t], sol_node_key(a.hashv))'
  <2>1. /\ link[a.next].ptr \in Listed \cup {NULL}
        /\ link[a.next].ptr # NULL => key(a.next) < key(link[a.next].ptr)
    BY <1>5 DEF ListInv, SplitOrdered
  <2> QED BY <1>2, <1>3, <1>4, <1>5, <2>1 DEF Reached, SameCall
<1>7. Facts(acc[t])'
  BY <1>1, <1>2, <1>3, <1>4, <1>5, <1>6
     DEF Facts, CallFacts, SearchFacts, BucketFacts, Initialising, Publishing, SameSearch,
         SameCall, SameBucket
<1> QED BY <1>1, <1>2, <1>3, <1>4, <1>7, QuietStep DEF Publishing, At

(* find_item_node returns. *)
LEMMA FindItemList ==
  ASSUME NEW t, CalmStep(t), FindItem(t)
  PROVE  ListInv' /\ Listed' = Listed
<1> USE DEF CalmStep
<1> DEFINE a == acc[t]
<1>1. Local(a) /\ a.pc = "find_loop" /\ a.op = "find"
  BY DEF IInv, Locals, FindItem, At
<1>2. acc'[t] = IdleAccessor /\ UNCHANGED <<link, buckets, n_buckets>> /\ live' = live
  BY DEF FindItem, Return, IInv, TypeOK, live
<1>3. Listed' = Listed
  <2>1. Hidden(a) = {}
    BY <1>1 DEF Hidden, Unlinked, Local, Initialising
  <2> QED BY <1>2, <2>1, IdleKnows, ListedSame
<1> QED BY <1>1, <1>2, <1>3, ReturnList DEF Publishing, At

-----------------------------------------------------------------------------
(***************************************************************************)
(* The steps of insert_node and delete_node that only read.                *)
(***************************************************************************)
LEMMA DeleteNotFoundList ==
  ASSUME NEW t, CalmStep(t), DeleteNotFound(t)
  PROVE  ListInv' /\ Listed' = Listed
<1> USE DEF CalmStep
<1> DEFINE a == acc[t]
<1>1. Local(a) /\ a.pc = "find_loop" /\ a.op = "delete"
  BY DEF IInv, Locals, DeleteNotFound, At
<1>2. acc'[t] = IdleAccessor /\ UNCHANGED <<link, buckets, n_buckets>> /\ live' = live
  BY DEF DeleteNotFound, Return, IInv, TypeOK, live
<1>3. Listed' = Listed
  <2>1. Hidden(a) = {}
    BY <1>1 DEF Hidden, Unlinked, Local, Initialising
  <2> QED BY <1>2, <2>1, IdleKnows, ListedSame
<1> QED BY <1>1, <1>2, <1>3, ReturnList DEF Publishing, At

(* A delete has found its node. *)
LEMMA DeleteFoundList ==
  ASSUME NEW t, CalmStep(t), DeleteFound(t)
  PROVE  ListInv' /\ Listed' = Listed
<1> USE DEF CalmStep
<1> DEFINE a == acc[t]
           b == acc'[t]
<1>1. Typed(a) /\ Local(a) /\ Facts(a) /\ a.pc = "find_loop" /\ a.op = "delete" /\ Found(a)
  BY Reads DEF IInv, Locals, ListInv, DeleteFound, At
<1>2. /\ b.pc = "mark" /\ SameSearch(a, b) /\ SameCall(a, b) /\ SameBucket(a, b)
  BY <1>1 DEF DeleteFound, IInv, TypeOK, Typed, Accessor, SameSearch, SameCall, SameBucket
<1>3. UNCHANGED <<link, buckets, n_buckets>> /\ live' = live
  BY DEF DeleteFound, live
<1>4. Listed' = Listed
  <2>1. a.ret # "find_head"
    BY <1>1 DEF Local, Initialising
  <2>2. Hidden(b) = Hidden(a)
    BY <1>1, <1>2, <2>1 DEF Hidden, Unlinked, SameSearch, SameCall, SameBucket
  <2> QED BY <1>3, <2>2, ListedSame
<1>5. /\ a.prev \in Listed /\ a.cur \in Listed /\ link[a.cur].ptr = a.next
      /\ key(a.cur) = sol_node_key(a.hashv)
  BY <1>1 DEF Facts, SearchFacts, Reached, Found
<1>6. Facts(acc[t])'
  BY <1>1, <1>2, <1>3, <1>4, <1>5
     DEF Facts, CallFacts, SearchFacts, BucketFacts, Initialising, Publishing, SameSearch,
         SameCall, SameBucket
<1> QED BY <1>1, <1>2, <1>3, <1>4, <1>6, QuietStep DEF Publishing, At

(* An insert has found the place of its node. *)
LEMMA InsertNotFoundList ==
  ASSUME NEW t, CalmStep(t), InsertNotFound(t)
  PROVE  ListInv' /\ Listed' = Listed
<1> USE DEF CalmStep
<1> DEFINE a == acc[t]
           b == acc'[t]
<1>1. Typed(a) /\ Local(a) /\ Facts(a) /\ a.pc = "find_loop" /\ a.op = "insert" /\ ~Found(a) /\ ~NotPast(a)
  BY Reads DEF IInv, Locals, ListInv, InsertNotFound, At
<1>2. /\ b.pc = "link" /\ SameSearch(a, b) /\ SameCall(a, b) /\ SameBucket(a, b)
  BY <1>1 DEF InsertNotFound, IInv, TypeOK, Typed, Accessor, SameSearch, SameCall, SameBucket
<1>3. UNCHANGED <<link, buckets, n_buckets>> /\ live' = live
  BY DEF InsertNotFound, live
<1>4. Listed' = Listed
  <2>1. a.ret # "find_head"
    BY <1>1 DEF Local, Initialising
  <2>2. Hidden(b) = Hidden(a)
    BY <1>1, <1>2, <2>1 DEF Hidden, Unlinked, SameSearch, SameCall, SameBucket
  <2> QED BY <1>3, <2>2, ListedSame
<1>5. Place(a, sol_node_key(a.hashv))
  <2>1. a.cur \in Listed /\ key(a.cur) <= sol_node_key(a.hashv) /\ a.next \in Listed \cup {NULL}
    BY <1>1 DEF Facts, SearchFacts, Reached
  <2>2. /\ key(a.cur) \in Nat /\ sol_node_key(a.hashv) \in Nat
        /\ a.next # NULL => key(a.next) \in Nat
    BY <1>1, <2>1, HeadFirst, KeyTypes DEF Typed, Accessor, IInv
  <2>3. key(a.cur) # sol_node_key(a.hashv)
    BY <1>1 DEF Found
  <2>4. a.next # NULL => ~(key(a.next) <= sol_node_key(a.hashv))
    BY <1>1 DEF NotPast
  <2> QED BY <2>1, <2>2, <2>3, <2>4 DEF Place
<1>6. Place(acc[t], sol_node_key(acc[t].hashv))'
  BY <1>2, <1>4, <1>5 DEF Place, SameSearch, SameCall
<1>7. Facts(acc[t])'
  BY <1>1, <1>2, <1>3, <1>4, <1>6
     DEF Facts, CallFacts, SearchFacts, BucketFacts, Initialising, Publishing, SameSearch,
         SameCall, SameBucket
<1> QED BY <1>1, <1>2, <1>3, <1>4, <1>7, QuietStep DEF Publishing, At

(* The counter changes, the list does not. *)
LEMMA InsertCountList ==
  ASSUME NEW t, CalmStep(t), InsertCount(t)
  PROVE  ListInv' /\ Listed' = Listed
<1> USE DEF CalmStep
<1> DEFINE a == acc[t]
           b == acc'[t]
<1>1. Typed(a) /\ Local(a) /\ Facts(a) /\ a.pc = "count"
  BY Reads DEF IInv, Locals, ListInv, InsertCount, At
<1>2. /\ b.pc = "scan_head" /\ SameSearch(a, b) /\ SameCall(a, b) /\ SameBucket(a, b)
  BY <1>1 DEF InsertCount, IInv, TypeOK, Typed, Accessor, SameSearch, SameCall, SameBucket
<1>3. UNCHANGED <<link, buckets, n_buckets>> /\ live' = live
  BY DEF InsertCount, live
<1>4. Listed' = Listed
  <2>1. a.ret # "find_head"
    BY <1>1 DEF Local, Initialising
  <2>2. Hidden(b) = Hidden(a)
    BY <1>1, <1>2, <2>1 DEF Hidden, Unlinked, SameSearch, SameCall, SameBucket
  <2> QED BY <1>3, <2>2, ListedSame
<1>5. Facts(acc[t])'
  BY <1>1, <1>2, <1>3, <1>4
     DEF Facts, CallFacts, SearchFacts, BucketFacts, Initialising, Publishing, SameSearch,
         SameCall, SameBucket
<1> QED BY <1>1, <1>2, <1>3, <1>4, <1>5, QuietStep DEF Publishing, At

(* The count of the items of a bucket starts. *)
LEMMA ScanHeadList ==
  ASSUME NEW t, CalmStep(t), ScanHead(t)
  PROVE  ListInv' /\ Listed' = Listed
<1> USE DEF CalmStep
<1> DEFINE a == acc[t]
           b == acc'[t]
<1>1. Typed(a) /\ Local(a) /\ Facts(a) /\ a.pc = "scan_head"
  BY Reads DEF IInv, Locals, ListInv, ScanHead, At
<1>2. /\ b.pc = "scan_loop" /\ b.cur = a.cur /\ b.next = link[a.cur].ptr
      /\ SameCall(a, b) /\ SameBucket(a, b)
  BY <1>1 DEF ScanHead, get, IInv, TypeOK, Typed, Accessor, SameSearch, SameCall, SameBucket
<1>3. UNCHANGED <<link, buckets, n_buckets>> /\ live' = live
  BY DEF ScanHead, live
<1>4. Listed' = Listed
  <2>1. a.ret # "find_head"
    BY <1>1 DEF Local, Initialising
  <2>2. Hidden(b) = Hidden(a)
    BY <1>1, <1>2, <2>1 DEF Hidden, Unlinked, SameSearch, SameCall, SameBucket
  <2> QED BY <1>3, <2>2, ListedSame
<1>5. link[a.cur].ptr \in Listed \cup {NULL}
  <2>1. a.cur \in Listed
    BY <1>1 DEF Facts, SearchFacts
  <2> QED BY <2>1 DEF ListInv, SplitOrdered
<1>6. Facts(acc[t])'
  BY <1>1, <1>2, <1>3, <1>4, <1>5
     DEF Facts, CallFacts, SearchFacts, BucketFacts, Initialising, Publishing, SameSearch,
         SameCall, SameBucket
<1> QED BY <1>1, <1>2, <1>3, <1>4, <1>6, QuietStep DEF Publishing, At

(* The count of the items of a bucket goes on. *)
LEMMA ScanAdvanceList ==
  ASSUME NEW t, CalmStep(t), ScanAdvance(t)
  PROVE  ListInv' /\ Listed' = Listed
<1> USE DEF CalmStep
<1> DEFINE a == acc[t]
           b == acc'[t]
<1>1. Typed(a) /\ Local(a) /\ Facts(a) /\ a.pc = "scan_loop" /\ InBucket(a)
  BY Reads DEF IInv, Locals, ListInv, ScanAdvance, At
<1>2. /\ b.pc = "scan_loop" /\ b.cur = a.next /\ b.next = link[a.next].ptr
      /\ SameCall(a, b) /\ SameBucket(a, b)
  BY <1>1 DEF ScanAdvance, Advanced, get, IInv, TypeOK, Typed, Accessor, SameSearch, SameCall, SameBucket
<1>3. UNCHANGED <<link, buckets, n_buckets>> /\ live' = live
  BY DEF ScanAdvance, live
<1>4. Listed' = Listed
  <2>1. a.ret # "find_head"
    BY <1>1 DEF Local, Initialising
  <2>2. Hidden(b) = Hidden(a)
    BY <1>1, <1>2, <2>1 DEF Hidden, Unlinked, SameSearch, SameCall, SameBucket
  <2> QED BY <1>3, <2>2, ListedSame
<1>5. link[a.next].ptr \in Listed \cup {NULL}
  <2>1. a.next \in Listed
    BY <1>1 DEF Facts, SearchFacts, InBucket
  <2> QED BY <2>1 DEF ListInv, SplitOrdered
<1>6. Facts(acc[t])'
  BY <1>1, <1>2, <1>3, <1>4, <1>5
     DEF Facts, CallFacts, SearchFacts, BucketFacts, Initialising, Publishing, SameSearch,
         SameCall, SameBucket
<1> QED BY <1>1, <1>2, <1>3, <1>4, <1>6, QuietStep DEF Publishing, At

-----------------------------------------------------------------------------
(***************************************************************************)
(* The steps of insert_node and delete_node that write.                    *)
(***************************************************************************)
(* The new node is hidden. *)
LEMMA InsertNewList ==
  ASSUME NEW t, CalmStep(t), InsertNew(t)
  PROVE  ListInv' /\ Listed' = Listed
<1> USE DEF CalmStep
<1> DEFINE a == acc[t]
           b == acc'[t]
           n == NewNode("node", a.hashv)
<1>1. Typed(a) /\ Local(a) /\ Facts(a) /\ a.pc = "insert_new" /\ a.op = "insert"
  BY Reads DEF IInv, Locals, Local, ListInv, InsertNew, At
<1>2. /\ Unused("node", a.hashv) # {} /\ Allocate(n) /\ UNCHANGED <<buckets, n_buckets>>
      /\ acc' = [acc EXCEPT ![t].nbuckets = n_buckets, ![t].dnode = n, ![t].pc = "find"]
  BY DEF InsertNew
<1>3. a.hashv \in HashValues
  BY <1>1 DEF Typed, Accessor
<1>4. n \notin live /\ n.hashv = a.hashv
  BY <1>2, <1>3, NewNodeFresh
<1> HIDE DEF n
<1>5. /\ b.pc = "find" /\ b.dnode = n /\ b.nbuckets = n_buckets
      /\ b.op = a.op /\ b.hashv = a.hashv
      /\ SameSearch(a, b) /\ SameBucket(a, b)
  BY <1>1, <1>2 DEF IInv, TypeOK, Typed, Accessor, SameSearch, SameBucket
<1>6. live' = live \cup {n} /\ \A m \in live : link'[m] = link[m]
  BY <1>2, <1>4 DEF Allocate, live
<1>7. Hidden(b) = {n} /\ Hidden(a) = {}
  BY <1>1, <1>5 DEF Hidden, Unlinked, SameSearch, SameBucket, Local, Initialising
<1>8. Listed' = Listed
  <2>1. live' \ Hidden(b) = live \ Hidden(a)
    BY <1>4, <1>6, <1>7
  <2> QED BY <2>1, ListedSame
<1>9. \A m \in Listed : link'[m].ptr = link[m].ptr
  BY <1>6 DEF Listed
<1>10. Facts(acc[t])'
  BY <1>1, <1>2, <1>4, <1>5
     DEF Facts, CallFacts, SearchFacts, BucketFacts, Initialising, Publishing, SameSearch,
         SameBucket
<1> QED BY <1>1, <1>2, <1>5, <1>8, <1>9, <1>10, QuietStep DEF Publishing, At

(* The node of an insert that finds its key is freed. *)
LEMMA InsertFoundList ==
  ASSUME NEW t, CalmStep(t), InsertFound(t)
  PROVE  ListInv' /\ Listed' = Listed
<1> USE DEF CalmStep
<1> DEFINE a == acc[t]
<1>1. Local(a) /\ a.pc = "find_loop" /\ a.op = "insert"
  BY DEF IInv, Locals, InsertFound, At
<1>2. acc'[t] = IdleAccessor /\ UNCHANGED <<buckets, n_buckets>> /\ Free(a.dnode)
  BY DEF InsertFound, Discarded, Return, IInv, TypeOK
<1>3. live' = live \ {a.dnode} /\ \A m \in live' : link'[m] = link[m]
  BY <1>2 DEF Free, live
<1>4. Hidden(a) = {a.dnode}
  BY <1>1 DEF Hidden, Unlinked, Local, Initialising
<1>5. Listed' = Listed
  <2>1. live' \ Hidden(acc'[t]) = live \ Hidden(a)
    BY <1>2, <1>3, <1>4, IdleKnows
  <2> QED BY <2>1, ListedSame
<1>6. \A m \in Listed : link'[m].ptr = link[m].ptr
  <2>1. Listed' \subseteq live'
    BY DEF Listed
  <2> QED BY <1>3, <1>5, <2>1
<1> QED BY <1>1, <1>2, <1>5, <1>6, ReturnList DEF Publishing, At

(* The CAS of insert_node puts its node in its place, or fails. *)
LEMMA InsertLinkList ==
  ASSUME NEW t, CalmStep(t), InsertLink(t)
  PROVE  /\ ListInv'
         /\ IF CASMatches(link[acc[t].cur], acc[t].next)
            THEN /\ acc'[t] = [acc[t] EXCEPT !.pc = "count"]
                 /\ Listed' = Listed \cup {acc[t].dnode} /\ acc[t].dnode \notin Listed
                 /\ \A n \in Listed : key(n) # key(acc[t].dnode)
            ELSE acc'[t] = [acc[t] EXCEPT !.pc = "find"] /\ Listed' = Listed
<1> USE DEF CalmStep
<1> DEFINE a == acc[t]
           b == acc'[t]
           c == a.cur
           d == a.dnode
           linked == CASMatches(link[c], a.next)
<1>1. Typed(a) /\ Local(a) /\ Facts(a) /\ a.pc = "link" /\ a.op = "insert"
  BY Reads DEF IInv, Locals, Local, ListInv, InsertLink, At
<1>2. /\ Place(a, sol_node_key(a.hashv))
      /\ d \in Node /\ d.kind = "node" /\ d.hashv = a.hashv /\ key(d) = sol_node_key(a.hashv)
      /\ a.ret = "none" /\ a.hashv \in Hashes
  <2>1. d \in Node /\ d.kind = "node" /\ d.hashv = a.hashv
    BY <1>1 DEF Facts, CallFacts, Local
  <2>2. key(d) = sol_node_key(a.hashv)
    BY <2>1 DEF key
  <2> QED BY <1>1, <2>1, <2>2 DEF Facts, SearchFacts, CallFacts, Initialising
<1>3. d \in Unlinked(a) /\ d \in Hidden(a) /\ d \in live
  <2>1. d \in Unlinked(a)
    BY <1>1 DEF Unlinked
  <2> QED BY <2>1 DEF Hidden, IInv, PrivateNodes
<1>4. c \in Listed /\ c \in live /\ c # d
  BY <1>2, <1>3, HeadFirst DEF Place, IInv, Listed
<1>5. /\ UNCHANGED <<buckets, n_buckets>> /\ live' = live
      /\ link'[d].ptr = a.next
      /\ link'[c] = CAS(link[c], a.next, d, FALSE)
      /\ \A m \in live \ {c, d} : link'[m] = link[m]
  <2>1. link' = [link EXCEPT ![d] = assign(@, a.next), ![c] = CAS(@, a.next, d, FALSE)]
    BY DEF InsertLink
  <2> DEFINE v == assign(link[d], a.next)
             w == CAS(link[c], a.next, d, FALSE)
  <2>2. link' = [link EXCEPT ![d] = v, ![c] = w] /\ UNCHANGED <<buckets, n_buckets>>
    BY <1>4, <2>1 DEF InsertLink
  <2>3. v.ptr = a.next
    BY DEF assign, Word
  <2> HIDE DEF v, w
  <2>4. live' = live
    BY <2>2 DEF live
  <2>5. link'[d] = v /\ link'[c] = w /\ \A m \in live \ {c, d} : link'[m] = link[m]
    BY <1>3, <1>4, <2>2 DEF live
  <2> QED BY <2>2, <2>3, <2>4, <2>5 DEF w
<1>6. b = IF linked THEN [a EXCEPT !.pc = "count"] ELSE [a EXCEPT !.pc = "find"]
  BY DEF InsertLink, TryAgain, IInv, TypeOK
<1>7. /\ b.pc = IF linked THEN "count" ELSE "find"
      /\ SameSearch(a, b) /\ SameCall(a, b) /\ SameBucket(a, b)
  BY <1>1, <1>6 DEF Typed, Accessor, SameSearch, SameCall, SameBucket
<1>8. CASE ~linked
  <2>1. b.pc = "find" /\ link'[c] = link[c]
    BY <1>5, <1>7, <1>8 DEF CAS
  <2>2. Listed' = Listed
    <3>1. Hidden(b) = Hidden(a)
      BY <1>1, <1>7, <2>1 DEF Hidden, Unlinked, SameSearch, SameCall, SameBucket
    <3> QED BY <1>5, <3>1, ListedSame
  <2>3. \A m \in Listed : link'[m].ptr = link[m].ptr
    BY <1>3, <1>5, <2>1 DEF Listed
  <2>4. Facts(acc[t])'
    BY <1>1, <1>2, <1>5, <1>7, <2>1, <2>2
       DEF Facts, CallFacts, SearchFacts, BucketFacts, Initialising, Publishing, SameSearch,
           SameCall, SameBucket
  <2>5. ListInv'
    BY <1>1, <1>5, <2>1, <2>2, <2>3, <2>4, QuietStep DEF Publishing, At
  <2> QED BY <1>6, <1>8, <2>2, <2>5
<1>9. CASE linked
  <2>1. b.pc = "count" /\ link[c].ptr = a.next /\ link'[c].ptr = d
    BY <1>5, <1>7, <1>9 DEF CAS, CASMatches, Word
  <2>2. Hidden(b) = Hidden(a) \ {d}
    BY <1>1, <1>2, <1>7, <2>1 DEF Hidden, Unlinked, SameSearch, SameCall, SameBucket
  <2>3. Listed' = Listed \cup {d} /\ d \notin Listed
    BY <1>3, <1>5, <2>2, ListedMore
  <2>4. SplitOrdered(Listed, link)'
    <3>1. link'[d].ptr = link[c].ptr /\ \A m \in Listed \ {c} : link'[m].ptr = link[m].ptr
      BY <1>3, <1>5, <2>1 DEF Listed
    <3>2. Listed \in SUBSET Node
      BY HeadFirst DEF IInv
    <3>3. key(c) < key(d) /\ (link[c].ptr # NULL => key(d) < key(link[c].ptr))
      BY <1>2, <2>1 DEF Place
    <3>4. SplitOrdered(Listed \cup {d}, link')
      BY <1>2, <1>4, <2>1, <2>3, <3>1, <3>2, <3>3, OrderInsert DEF ListInv
    <3> QED BY <2>3, <3>4
  <2>5. \A n \in Listed : key(n) # key(d)
    <3>1. SplitOrdered(Listed \cup {d}, link')
      BY <2>3, <2>4
    <3> QED BY <2>3, <3>1 DEF SplitOrdered
  <2>6. Slots'
    <3>1. \A u \in Accessors : Publishing(acc[u]) => u # t
      BY <1>1 DEF Publishing
    <3> QED BY <1>2, <1>5, <2>3, <3>1 DEF ListInv, Slots
  <2>7. Table' /\ DataNodes'
    BY <1>1, <1>2, <1>5, <2>1, <2>3 DEF ListInv, Table, DataNodes, At
  <2>8. Facts(acc[t])'
    BY <1>1, <1>2, <1>4, <1>5, <1>7, <2>1, <2>3
       DEF Facts, CallFacts, SearchFacts, BucketFacts, Initialising, Publishing, SameSearch,
           SameCall, SameBucket
  <2>9. ListInv'
    BY <1>5, <2>3, <2>4, <2>6, <2>7, <2>8, StepInvariant
  <2> QED BY <1>6, <1>9, <2>3, <2>5, <2>9
<1> QED BY <1>8, <1>9

(* The mark changes no pointer. *)
LEMMA DeleteMarkList ==
  ASSUME NEW t, CalmStep(t), DeleteMark(t)
  PROVE  ListInv' /\ Listed' = Listed
<1> USE DEF CalmStep
<1> DEFINE a == acc[t]
           b == acc'[t]
           c == a.cur
           marked == CASMatches(link[c], a.next)
<1>1. Typed(a) /\ Local(a) /\ Facts(a) /\ a.pc = "mark" /\ a.op = "delete"
  BY Reads DEF IInv, Locals, Local, ListInv, DeleteMark, At
<1>2. c \in Listed /\ c \in live /\ link[c].ptr = a.next
  BY <1>1, HeadFirst DEF Facts, SearchFacts, IInv
<1>3. /\ b.pc = IF marked THEN "unlink" ELSE "find"
      /\ SameSearch(a, b) /\ SameCall(a, b) /\ SameBucket(a, b)
  <2>1. b = IF marked THEN [a EXCEPT !.pc = "unlink"] ELSE [a EXCEPT !.pc = "find"]
    BY DEF DeleteMark, TryAgain, IInv, TypeOK
  <2> QED BY <1>1, <2>1 DEF Typed, Accessor, SameSearch, SameCall, SameBucket
<1>4. /\ UNCHANGED <<buckets, n_buckets>> /\ live' = live
      /\ \A m \in live : link'[m].ptr = link[m].ptr
  <2>1. /\ link' = [link EXCEPT ![c] = CAS(@, a.next, a.next, TRUE)]
        /\ UNCHANGED <<buckets, n_buckets>>
    BY DEF DeleteMark
  <2>2. CAS(link[c], a.next, a.next, TRUE).ptr = link[c].ptr
    BY <1>2 DEF CAS, Word
  <2>3. live' = live
    BY <2>1 DEF live
  <2>4. \A m \in live : link'[m] = IF m = c THEN CAS(link[c], a.next, a.next, TRUE) ELSE link[m]
    BY <1>2, <2>1 DEF live
  <2> QED BY <2>1, <2>2, <2>3, <2>4
<1>5. Listed' = Listed
  <2>1. Hidden(b) = Hidden(a)
    BY <1>1, <1>3 DEF Hidden, Unlinked, SameSearch, SameCall, SameBucket
  <2> QED BY <1>4, <2>1, ListedSame
<1>6. \A m \in Listed : link'[m].ptr = link[m].ptr
  BY <1>4 DEF Listed
<1>7. Facts(acc[t])'
  BY <1>1, <1>2, <1>3, <1>4, <1>5
     DEF Facts, CallFacts, SearchFacts, BucketFacts, Initialising, Publishing, SameSearch,
         SameCall, SameBucket
<1> QED BY <1>1, <1>3, <1>4, <1>5, <1>6, <1>7, QuietStep DEF Publishing, At

(* The CAS that unlinks a node hides it, or fails. *)
LEMMA DeleteUnlinkList ==
  ASSUME NEW t, CalmStep(t), DeleteUnlink(t)
  PROVE  /\ ListInv'
         /\ IF Unlinks(acc[t])
            THEN /\ acc'[t] = [acc[t] EXCEPT !.pc = "uncount"]
                 /\ Listed' = Listed \ {acc[t].cur} /\ acc[t].cur \in Listed
            ELSE acc'[t] = [acc[t] EXCEPT !.pc = "find"] /\ Listed' = Listed
<1> USE DEF CalmStep
<1> DEFINE a == acc[t]
           b == acc'[t]
           c == a.cur
           p == a.prev
<1>1. /\ Typed(a) /\ Local(a) /\ Facts(a) /\ a.pc = "unlink" /\ a.op = "delete"
      /\ c \in Node /\ c.kind = "node" /\ a.ret = "none"
  <2>1. Typed(a) /\ Local(a) /\ Facts(a) /\ a.pc = "unlink"
    BY Reads DEF IInv, Locals, ListInv, DeleteUnlink, At
  <2> QED BY <2>1 DEF Local, Facts, CallFacts, Initialising
<1>2. c \in Listed /\ c \in live /\ link[c].ptr = a.next /\ p \in Listed /\ p \in live
  BY <1>1, HeadFirst DEF Facts, SearchFacts, IInv
<1>3. b = IF Unlinks(a) THEN [a EXCEPT !.pc = "uncount"] ELSE [a EXCEPT !.pc = "find"]
  BY DEF DeleteUnlink, TryAgain, IInv, TypeOK
<1>4. /\ b.pc = IF Unlinks(a) THEN "uncount" ELSE "find"
      /\ SameSearch(a, b) /\ SameCall(a, b) /\ SameBucket(a, b)
  BY <1>1, <1>3 DEF Typed, Accessor, SameSearch, SameCall, SameBucket
<1>5. /\ UNCHANGED <<buckets, n_buckets>> /\ live' = live
      /\ link'[p] = CAS(link[p], c, a.next, FALSE)
      /\ \A m \in live \ {p} : link'[m] = link[m]
  <2>1. /\ link' = [link EXCEPT ![p] = CAS(@, c, a.next, FALSE)]
        /\ UNCHANGED <<buckets, n_buckets>>
    BY DEF DeleteUnlink
  <2> QED BY <1>2, <2>1 DEF live
<1>6. Hidden(a) = {}
  BY <1>1 DEF Hidden, Unlinked
<1>7. CASE ~Unlinks(a)
  <2>1. b.pc = "find" /\ link'[p] = link[p]
    BY <1>4, <1>5, <1>7 DEF CAS, Unlinks
  <2>2. Listed' = Listed
    <3>1. Hidden(b) = {}
      BY <1>1, <1>4, <2>1 DEF Hidden, Unlinked, SameSearch, SameCall, SameBucket
    <3> QED BY <1>5, <1>6, <3>1, ListedSame
  <2>3. \A m \in Listed : link'[m].ptr = link[m].ptr
    BY <1>5, <2>1 DEF Listed
  <2>4. Facts(acc[t])'
    BY <1>1, <1>4, <1>5, <2>1, <2>2
       DEF Facts, CallFacts, SearchFacts, BucketFacts, Initialising, Publishing, SameSearch,
           SameCall, SameBucket
  <2>5. ListInv'
    BY <1>1, <1>5, <2>1, <2>2, <2>3, <2>4, QuietStep DEF Publishing, At
  <2> QED BY <1>3, <1>7, <2>2, <2>5
<1>8. CASE Unlinks(a)
  <2>1. b.pc = "uncount" /\ link[p].ptr = c /\ link'[p].ptr = a.next
    BY <1>4, <1>5, <1>8 DEF CAS, CASMatches, Word, Unlinks
  <2>2. Hidden(b) = {c}
    BY <1>1, <1>4, <2>1 DEF Hidden, Unlinked, SameSearch, SameCall, SameBucket
  <2>3. Listed' = Listed \ {c}
    <3>1. \A n \in live : n \in Listed' <=> n # c /\ n \in Listed
      <4>1. \A n \in live : n \in Listed <=> \A u \in Accessors \ {t} : n \notin Hidden(acc[u])
        BY <1>6 DEF Listed
      <4>2. \A n \in live : n \in Listed' <=> n # c /\ \A u \in Accessors \ {t} : n \notin Hidden(acc[u])
        BY <1>5, <2>2 DEF Listed
      <4> QED BY <4>1, <4>2
    <3>2. Listed \subseteq live /\ Listed' \subseteq live
      BY <1>5 DEF Listed
    <3> QED BY <3>1, <3>2
  <2>4. SplitOrdered(Listed, link)'
    <3>1. link'[p].ptr = link[c].ptr /\ \A m \in Listed \ {p} : link'[m].ptr = link[m].ptr
      BY <1>2, <1>5, <2>1 DEF Listed
    <3>2. Listed \in SUBSET Node
      BY HeadFirst DEF IInv
    <3>3. SplitOrdered(Listed \ {c}, link')
      BY <1>2, <2>1, <3>1, <3>2, OrderDelete DEF ListInv
    <3> QED BY <2>3, <3>3
  <2>5. Slots'
    <3>1. \A u \in Accessors : Publishing(acc[u]) => u # t
      BY <1>1 DEF Publishing
    <3> QED BY <1>1, <1>5, <2>3, <3>1 DEF ListInv, Slots
  <2>6. Table' /\ DataNodes'
    BY <1>1, <1>5, <2>1, <2>3 DEF ListInv, Table, DataNodes, At
  <2>7. Facts(acc[t])'
    BY <1>1, <1>2, <1>4, <1>5, <2>1
       DEF Facts, CallFacts, SearchFacts, BucketFacts, Initialising, Publishing, SameSearch,
           SameCall, SameBucket
  <2>8. Alone(a)
    BY <1>1 DEF Alone
  <2>9. ListInv'
    BY <2>4, <2>5, <2>6, <2>7, <2>8, StepInvariant
  <2> QED BY <1>2, <1>3, <1>8, <2>3, <2>9
<1> QED BY <1>7, <1>8

(* The counter changes, the unlinked node stays hidden. *)
LEMMA DeleteCountList ==
  ASSUME NEW t, CalmStep(t), DeleteCount(t)
  PROVE  ListInv' /\ Listed' = Listed
<1> USE DEF CalmStep
<1> DEFINE a == acc[t]
           b == acc'[t]
<1>1. Typed(a) /\ Local(a) /\ Facts(a) /\ a.pc = "uncount"
  BY Reads DEF IInv, Locals, ListInv, DeleteCount, At
<1>2. /\ b.pc = "reclaim" /\ SameSearch(a, b) /\ SameCall(a, b) /\ SameBucket(a, b)
  BY <1>1 DEF DeleteCount, IInv, TypeOK, Typed, Accessor, SameSearch, SameCall, SameBucket
<1>3. UNCHANGED <<link, buckets, n_buckets>> /\ live' = live
  BY DEF DeleteCount, live
<1>4. Listed' = Listed
  <2>1. a.ret # "find_head"
    BY <1>1 DEF Local, Initialising
  <2>2. Hidden(b) = Hidden(a)
    BY <1>1, <1>2, <2>1 DEF Hidden, Unlinked, SameSearch, SameCall, SameBucket
  <2> QED BY <1>3, <2>2, ListedSame
<1>5. Facts(acc[t])'
  BY <1>1, <1>2, <1>3, <1>4
     DEF Facts, CallFacts, SearchFacts, BucketFacts, Initialising, Publishing, SameSearch,
         SameCall, SameBucket
<1> QED BY <1>1, <1>2, <1>3, <1>4, <1>5, QuietStep DEF Publishing, At

(* The unlinked node is freed. *)
LEMMA DeleteReclaimList ==
  ASSUME NEW t, CalmStep(t), DeleteReclaim(t)
  PROVE  ListInv' /\ Listed' = Listed
<1> USE DEF CalmStep
<1> DEFINE a == acc[t]
<1>1. Local(a) /\ Facts(a) /\ a.pc = "reclaim" /\ a.op = "delete"
  BY DEF IInv, Locals, Local, ListInv, DeleteReclaim, At
<1>2. acc'[t] = IdleAccessor /\ UNCHANGED <<buckets, n_buckets>> /\ Free(a.cur)
  BY DEF DeleteReclaim, Return, IInv, TypeOK
<1>3. live' = live \ {a.cur} /\ \A m \in live' : link'[m] = link[m]
  BY <1>2 DEF Free, live
<1>4. Hidden(a) = {a.cur}
  BY <1>1 DEF Hidden, Unlinked
<1>5. Listed' = Listed
  <2>1. live' \ Hidden(acc'[t]) = live \ Hidden(a)
    BY <1>2, <1>3, <1>4, IdleKnows
  <2> QED BY <2>1, ListedSame
<1>6. \A m \in Listed : link'[m].ptr = link[m].ptr
  <2>1. Listed' \subseteq live'
    BY DEF Listed
  <2> QED BY <1>3, <1>5, <2>1
<1> QED BY <1>1, <1>2, <1>5, <1>6, ReturnList DEF Publishing, At

-----------------------------------------------------------------------------
(***************************************************************************)
(* The end of insert_node, expand and the calls.                           *)
(***************************************************************************)
(* The scan ends: the bucket is too long, or insert_node returns. *)
LEMMA ScanDoneList ==
  ASSUME NEW t, CalmStep(t), ScanDone(t)
  PROVE  ListInv' /\ Listed' = Listed
<1> USE DEF CalmStep
<1> DEFINE a == acc[t]
           b == acc'[t]
           s == a.hashv % n_buckets
<1>1. Typed(a) /\ Local(a) /\ Facts(a) /\ a.pc = "scan_loop" /\ a.ret # "find_head"
  BY Reads DEF IInv, Locals, Local, Initialising, ListInv, ScanDone, At
<1>2. UNCHANGED <<link, buckets, n_buckets>> /\ live' = live
  BY DEF ScanDone, live
<1>3. Hidden(a) = {}
  BY <1>1 DEF Hidden, Unlinked
<1>4. CASE Overflows(a)
  <2>1. s < n_buckets
    <3>1. s \in 0 .. n_buckets - 1
      BY <1>1, BucketBefore DEF IInv, Typed, Accessor
    <3> QED BY <3>1, SizeAssumption DEF IInv, TypeOK
  <2> HIDE DEF s
  <2>2. /\ b.pc = "overflow" /\ b.slot = s /\ b.op = a.op /\ b.hashv = a.hashv
        /\ b.nbuckets = a.nbuckets /\ b.dnode = a.dnode
        /\ SameSearch(a, b) /\ SameBucket(a, b)
    <3>1. acc' = [acc EXCEPT ![t].slot = s, ![t].pc = "overflow"]
      BY <1>4 DEF ScanDone, s
    <3> QED BY <1>1, <3>1 DEF IInv, TypeOK, Typed, Accessor, SameSearch, SameBucket
  <2>3. Listed' = Listed
    <3>1. Hidden(b) = {}
      BY <1>1, <2>2 DEF Hidden, Unlinked, SameBucket
    <3> QED BY <1>2, <1>3, <3>1, ListedSame
  <2>4. Facts(acc[t])'
    BY <1>1, <1>2, <2>1, <2>2, <2>3
       DEF Facts, CallFacts, SearchFacts, BucketFacts, Initialising, Publishing, SameSearch,
           SameBucket
  <2> QED BY <1>1, <1>2, <2>2, <2>3, <2>4, QuietStep DEF Publishing, At
<1>5. CASE ~Overflows(a)
  <2>1. b = IdleAccessor
    BY <1>5 DEF ScanDone, Return, IInv, TypeOK
  <2>2. Listed' = Listed
    BY <1>2, <1>3, <2>1, IdleKnows, ListedSame
  <2> QED BY <1>1, <1>2, <2>1, <2>2, ReturnList DEF Publishing, At
<1> QED BY <1>4, <1>5

(* The bucket is split, the table expanded, or neither. *)
LEMMA OverflowList ==
  ASSUME NEW t, CalmStep(t), Overflow(t)
  PROVE  ListInv' /\ Listed' = Listed
<1> USE DEF CalmStep
<1> DEFINE a == acc[t]
           b == acc'[t]
           s == (a.slot + a.nbuckets \div 2) % Modulus
<1>1. Typed(a) /\ Local(a) /\ Facts(a) /\ a.pc = "overflow" /\ a.ret # "find_head"
  BY Reads DEF IInv, Locals, Local, Initialising, ListInv, Overflow, At
<1>2. UNCHANGED <<link, buckets, n_buckets>> /\ live' = live
  BY DEF Overflow, live
<1>3. Hidden(a) = {}
  BY <1>1 DEF Hidden, Unlinked
<1> HIDE DEF s
<1>4. CASE acc' = [acc EXCEPT ![t].pc = "expand"]
  <2>1. b.pc = "expand" /\ SameSearch(a, b) /\ SameCall(a, b) /\ SameBucket(a, b)
    BY <1>1, <1>4 DEF IInv, TypeOK, Typed, Accessor, SameSearch, SameCall, SameBucket
  <2>2. Listed' = Listed
    <3>1. Hidden(b) = {}
      BY <1>1, <2>1 DEF Hidden, Unlinked, SameBucket
    <3> QED BY <1>2, <1>3, <3>1, ListedSame
  <2>3. Facts(acc[t])'
    BY <1>1, <1>2, <2>1, <2>2
       DEF Facts, CallFacts, SearchFacts, BucketFacts, Initialising, Publishing, SameSearch,
           SameCall, SameBucket
  <2> QED BY <1>1, <1>2, <2>1, <2>2, <2>3, QuietStep DEF Publishing, At
<1>5. CASE /\ s < n_buckets
           /\ acc' = [acc EXCEPT ![t].bslot = s, ![t].ret = "idle", ![t].pc = "init_enter"]
  <2>1. /\ b.pc = "init_enter" /\ b.bslot = s /\ b.ret = "idle"
        /\ SameSearch(a, b) /\ SameCall(a, b)
    BY <1>1, <1>5 DEF IInv, TypeOK, Typed, Accessor, SameSearch, SameCall
  <2>2. Listed' = Listed
    <3>1. Hidden(b) = {}
      BY <2>1 DEF Hidden, Unlinked
    <3> QED BY <1>2, <1>3, <3>1, ListedSame
  <2>3. Facts(acc[t])'
    BY <1>1, <1>2, <1>5, <2>1, <2>2
       DEF Facts, CallFacts, SearchFacts, BucketFacts, Initialising, Publishing, SameSearch,
           SameCall
  <2> QED BY <1>1, <1>2, <2>1, <2>2, <2>3, QuietStep DEF Publishing, At
<1>6. CASE Return(t)
  <2>1. b = IdleAccessor
    BY <1>6 DEF Return, IInv, TypeOK
  <2>2. Listed' = Listed
    BY <1>2, <1>3, <2>1, IdleKnows, ListedSame
  <2> QED BY <1>1, <1>2, <2>1, <2>2, ReturnList DEF Publishing, At
<1> QED BY <1>4, <1>5, <1>6 DEF Overflow, BucketExists, s

(* The size of the new table does not wrap. *)
LEMMA Doubled ==
  ASSUME TypeOK, 2 * n_buckets < Modulus
  PROVE  new_size = 2 * n_buckets /\ DOMAIN copy_of_buckets = 0 .. 2 * n_buckets - 1
<1>1. n_buckets \in Nat /\ n_buckets * 2 \in HashValues /\ n_buckets * 2 = 2 * n_buckets
  BY SizeAssumption DEF TypeOK, HashValues
<1>2. new_size = 2 * n_buckets
  BY <1>1, SmallRemainder DEF new_size
<1> QED BY <1>2 DEF copy_of_buckets

(* The array twice as long is filled, but not published yet. *)
LEMMA ExpandCopyList ==
  ASSUME NEW t, CalmStep(t), ExpandCopy(t)
  PROVE  ListInv' /\ Listed' = Listed
<1> USE DEF CalmStep
<1> DEFINE a == acc[t]
           b == acc'[t]
           array == copy_of_buckets
<1>1. /\ Typed(a) /\ Local(a) /\ Facts(a) /\ a.pc = "expand"
      /\ a.op = "insert" /\ a.ret = "none"
  <2>1. Typed(a) /\ Local(a) /\ Facts(a) /\ a.pc = "expand"
    BY Reads DEF IInv, Locals, ListInv, ExpandCopy, At
  <2> QED BY <2>1 DEF Facts, CallFacts, Initialising
<1>2. a.nbuckets = n_buckets /\ 2 * n_buckets < Modulus
  BY <1>1 DEF Facts, CallFacts, Calm, At
<1>3. UNCHANGED <<link, buckets, n_buckets>> /\ live' = live
  BY DEF ExpandCopy, live
<1>4. copy_of_buckets' = copy_of_buckets
  BY <1>3 DEF copy_of_buckets, new_size
<1> HIDE DEF array
<1>5. /\ b.pc = "expand_swap" /\ b.new_buckets = array
      /\ SameSearch(a, b) /\ SameCall(a, b) /\ SameBucket(a, b)
  <2>1. n_buckets >= n_buckets
    BY SizeAssumption DEF IInv, TypeOK
  <2>2. acc' = [acc EXCEPT ![t] = [a EXCEPT !.new_buckets = array, !.pc = "expand_swap"]]
    BY <1>2, <2>1 DEF ExpandCopy, MustExpand, array
  <2> QED BY <1>1, <2>2 DEF IInv, TypeOK, Typed, Accessor, SameSearch, SameCall, SameBucket
<1>6. Listed' = Listed
  <2>1. Hidden(a) = {} /\ Hidden(b) = {}
    BY <1>1, <1>5 DEF Hidden, Unlinked, SameBucket
  <2> QED BY <1>3, <2>1, ListedSame
<1>7. CallFacts(acc[t])'
  BY <1>1, <1>2, <1>3, <1>4, <1>5 DEF Facts, CallFacts, Initialising, SameCall, SameBucket, array
<1>8. SearchFacts(acc[t])' /\ BucketFacts(acc[t])'
  BY <1>1, <1>3, <1>5, <1>6 DEF SearchFacts, BucketFacts, Initialising, Publishing, SameBucket
<1>9. Facts(acc[t])'
  BY <1>7, <1>8 DEF Facts
<1> QED BY <1>1, <1>3, <1>5, <1>6, <1>9, QuietStep DEF Publishing, At

(* The new array has the slots of the old one. *)
LEMMA ExpandSwapList ==
  ASSUME NEW t, CalmStep(t), ExpandSwap(t)
  PROVE  /\ ListInv' /\ Listed' = Listed
         /\ \A s \in DOMAIN buckets : buckets'[s] = buckets[s]
<1> USE DEF CalmStep
<1> DEFINE a == acc[t]
           b == acc'[t]
<1>1. /\ Typed(a) /\ Local(a) /\ Facts(a) /\ a.pc = "expand_swap"
      /\ a.op = "insert" /\ a.ret = "none" /\ Alone(a)
  <2>1. Typed(a) /\ Local(a) /\ Facts(a) /\ a.pc = "expand_swap"
    BY Reads DEF IInv, Locals, ListInv, ExpandSwap, At
  <2> QED BY <2>1 DEF Facts, CallFacts, Initialising, Alone
<1>2. \A u \in Accessors \ {t} : acc[u].pc = "idle"
  BY <1>1 DEF Calm, At
<1>3. /\ 2 * n_buckets < Modulus /\ a.new_buckets = copy_of_buckets
      /\ n_buckets \in Nat \ {0} /\ DOMAIN buckets = 0 .. n_buckets - 1
  <2>1. 2 * n_buckets < Modulus /\ a.new_buckets = copy_of_buckets
    BY <1>1 DEF Facts, CallFacts
  <2>2. \A u \in Accessors : ~At(u, "expand_size")
    BY <1>1, <1>2 DEF At
  <2>3. DOMAIN buckets = 0 .. n_buckets - 1
    BY <2>2 DEF ListInv, Table
  <2>4. n_buckets \in Nat \ {0}
    BY SizeAssumption DEF IInv, TypeOK
  <2> QED BY <2>1, <2>3, <2>4
<1>4. UNCHANGED <<link, n_buckets>> /\ live' = live /\ buckets' = copy_of_buckets
  BY <1>3 DEF ExpandSwap, live
<1>5. /\ DOMAIN buckets' = 0 .. 2 * n_buckets - 1
      /\ \A s \in 0 .. 2 * n_buckets - 1 :
           buckets'[s] = IF s < n_buckets THEN buckets[s] ELSE NULL
  BY <1>3, <1>4, Doubled DEF copy_of_buckets, IInv
<1>6. \A s \in DOMAIN buckets :
        s \in DOMAIN buckets' /\ buckets'[s] = buckets[s]
  BY <1>3, <1>5
<1>7. /\ b.pc = "expand_size" /\ b.new_buckets = buckets'
      /\ SameSearch(a, b) /\ SameCall(a, b) /\ SameBucket(a, b)
  BY <1>1 DEF ExpandSwap, IInv, TypeOK, Typed, Accessor, SameSearch, SameCall, SameBucket
<1>8. Listed' = Listed
  <2>1. Hidden(a) = {} /\ Hidden(b) = {}
    BY <1>1, <1>7 DEF Hidden, Unlinked, SameBucket
  <2> QED BY <1>4, <2>1, ListedSame
<1>9. Slots'
  <2>1. buckets'[0] = Head
    BY <1>3, <1>6 DEF ListInv, Slots
  <2>2. ASSUME NEW s \in DOMAIN buckets', buckets'[s] # NULL
        PROVE  buckets'[s] \in Listed /\ buckets'[s].kind = "bucket" /\ buckets'[s].hashv = s
    <3>1. s \in DOMAIN buckets
      BY <1>3, <1>5, <2>2
    <3> QED BY <1>6, <2>2, <3>1 DEF ListInv, Slots
  <2>3. ASSUME NEW n \in Listed, n.kind = "bucket"
        PROVE  n.hashv \in DOMAIN buckets' /\ buckets'[n.hashv] = n
    <3>1. \A u \in Accessors : ~Publishing(acc[u])
      BY <1>1, <1>2 DEF Publishing
    <3> QED BY <1>6, <2>3, <3>1 DEF ListInv, Slots
  <2> QED BY <1>8, <2>1, <2>2, <2>3 DEF Slots
<1>10. SplitOrdered(Listed, link)' /\ Table' /\ DataNodes'
  BY <1>4, <1>7, <1>8 DEF ListInv, Table, DataNodes, SplitOrdered, At
<1>11. CallFacts(acc[t])'
  BY <1>1, <1>3, <1>4, <1>5, <1>7 DEF Facts, CallFacts, Initialising, SameCall, SameBucket
<1>12. SearchFacts(acc[t])' /\ BucketFacts(acc[t])'
  BY <1>1, <1>7 DEF SearchFacts, BucketFacts, Initialising, Publishing, SameBucket
<1>13. Facts(acc[t])'
  BY <1>11, <1>12 DEF Facts
<1>14. ListInv'
  BY <1>1, <1>9, <1>10, <1>13, StepInvariant
<1> QED BY <1>6, <1>8, <1>14

(* The table has doubled: the two halves of a bucket get apart. *)
LEMMA ExpandSizeList ==
  ASSUME NEW t, CalmStep(t), ExpandSize(t)
  PROVE  ListInv' /\ Listed' = Listed
<1> USE DEF CalmStep
<1> DEFINE a == acc[t]
           b == acc'[t]
           s == (a.slot + a.nbuckets) % Modulus
<1>1. /\ Typed(a) /\ Local(a) /\ Facts(a) /\ a.pc = "expand_size"
      /\ a.op = "insert" /\ a.ret = "none" /\ Alone(a)
  <2>1. Typed(a) /\ Local(a) /\ Facts(a) /\ a.pc = "expand_size"
    BY Reads DEF IInv, Locals, ListInv, ExpandSize, At
  <2> QED BY <2>1 DEF Facts, CallFacts, Initialising, Alone
<1>2. \A u \in Accessors \ {t} : acc[u].pc = "idle"
  BY <1>1 DEF Calm, At
<1>3. /\ 2 * n_buckets < Modulus /\ DOMAIN buckets = 0 .. 2 * n_buckets - 1
      /\ a.new_buckets = buckets /\ a.nbuckets = n_buckets /\ a.slot < n_buckets
      /\ n_buckets \in Nat \ {0} /\ a.slot \in HashValues /\ a.slot \in Nat
  <2>1. a.slot \in HashValues
    BY <1>1 DEF Typed, Accessor
  <2>2. n_buckets \in Nat \ {0}
    BY SizeAssumption DEF IInv, TypeOK
  <2>3. /\ 2 * n_buckets < Modulus /\ DOMAIN buckets = 0 .. 2 * n_buckets - 1
        /\ a.new_buckets = buckets /\ a.nbuckets = n_buckets /\ a.slot < n_buckets
    BY <1>1 DEF Facts, CallFacts
  <2> QED BY <2>1, <2>2, <2>3, KeyTypes
<1>4. UNCHANGED <<link, buckets>> /\ live' = live /\ n_buckets' = 2 * n_buckets
  <2>1. Cardinality(0 .. 2 * n_buckets - 1) = 2 * n_buckets
    <3>1. 0 \in Int /\ 2 * n_buckets - 1 \in Int /\ ~(0 > 2 * n_buckets - 1)
      BY <1>3
    <3>2. Cardinality(0 .. 2 * n_buckets - 1) = (2 * n_buckets - 1) - 0 + 1
      BY <3>1, FS_Interval
    <3> QED BY <1>3, <3>2
  <2> QED BY <1>3, <2>1 DEF ExpandSize, live
<1>5. s < 2 * n_buckets
  <2>1. a.slot + a.nbuckets \in HashValues /\ a.slot + a.nbuckets < 2 * n_buckets
    BY <1>3, SizeAssumption DEF HashValues
  <2> QED BY <2>1, SmallRemainder
<1> HIDE DEF s
<1>6. /\ b.pc = "init_enter" /\ b.bslot = s /\ b.ret = "idle"
      /\ SameSearch(a, b) /\ SameCall(a, b)
  <2>1. acc' = [acc EXCEPT ![t] = [a EXCEPT !.bslot = s, !.ret = "idle", !.new_buckets = NoArray,
                                            !.pc = "init_enter"]]
    BY DEF ExpandSize, Expanded, s
  <2> QED BY <1>1, <2>1 DEF IInv, TypeOK, Typed, Accessor, SameSearch, SameCall
<1>7. Listed' = Listed
  <2>1. Hidden(a) = {} /\ Hidden(b) = {}
    BY <1>1, <1>6 DEF Hidden, Unlinked
  <2> QED BY <1>4, <2>1, ListedSame
<1>8. Slots'
  <2>1. \A u \in Accessors : ~Publishing(acc[u])
    BY <1>1, <1>2 DEF Publishing
  <2> QED BY <1>4, <1>7, <2>1 DEF ListInv, Slots
<1>9. Table'
  <2>1. PICK q \in 1 .. Modulus : n_buckets * q = Modulus
    BY DEF ListInv, Table
  <2>2. n_buckets \in 1 .. Modulus /\ Modulus \in Nat \ {0} /\ q \in Nat
    BY SizeAssumption DEF IInv, TypeOK
  <2>3. q > 1
    BY <1>3, <2>1, <2>2
  <2>4. q % 2 = 0
    BY <2>1, <2>2, <2>3, ReverseAssumption
  <2>5. PICK r \in Nat : q = 2 * r
    <3>1. q = 2 * (q \div 2) /\ q \div 2 \in Nat
      BY <2>2, <2>4
    <3> QED BY <3>1
  <2>6. r \in 1 .. Modulus
    BY <2>2, <2>3, <2>5
  <2>7. (2 * n_buckets) * r = n_buckets * (2 * r)
    BY <1>3, <2>5
  <2> QED BY <1>3, <1>4, <2>1, <2>5, <2>6, <2>7 DEF Table
<1>10. SplitOrdered(Listed, link)' /\ DataNodes'
  BY <1>4, <1>7 DEF ListInv, DataNodes, SplitOrdered
<1>11. Facts(acc[t])'
  BY <1>1, <1>4, <1>5, <1>6
     DEF Facts, CallFacts, SearchFacts, BucketFacts, Initialising, Publishing, SameCall
<1>12. ListInv'
  BY <1>1, <1>8, <1>9, <1>10, <1>11, StepInvariant
<1> QED BY <1>7, <1>12

(* A call starts. *)
LEMMA CallList ==
  ASSUME NEW t, CalmStep(t), NEW op \in Ops, NEW h \in Hashes, Call(t, op, h)
  PROVE  ListInv' /\ Listed' = Listed
<1> USE DEF CalmStep
<1> DEFINE a == acc[t]
           b == acc'[t]
<1>1. Typed(a) /\ Local(a) /\ Facts(a) /\ a.pc = "idle" /\ a.op = "none" /\ a.ret = "none"
  <2>1. Typed(a) /\ Local(a) /\ Facts(a) /\ a.pc = "idle"
    BY Reads DEF IInv, Locals, ListInv, Call, At
  <2> QED BY <2>1 DEF Facts, CallFacts, Initialising
<1>2. UNCHANGED <<link, buckets, n_buckets>> /\ live' = live
  BY DEF Call, live
<1>3. /\ b.op = op /\ b.hashv = h /\ op # "init"
      /\ b.pc = IF op = "insert" THEN "insert_new" ELSE "find"
      /\ SameSearch(a, b) /\ SameBucket(a, b)
  BY <1>1 DEF Call, IInv, TypeOK, Typed, Accessor, SameSearch, SameBucket
<1>4. op \in {"insert", "delete", "find", "init"}
  BY OpsAssumption
<1>5. Listed' = Listed
  <2>1. Hidden(a) = {} /\ Hidden(b) = {}
    BY <1>1, <1>3 DEF Hidden, Unlinked, SameBucket
  <2> QED BY <1>2, <2>1, ListedSame
<1>6. Facts(acc[t])'
  BY <1>1, <1>3, <1>4
     DEF Facts, CallFacts, SearchFacts, BucketFacts, Initialising, Publishing, SameBucket
<1> QED BY <1>1, <1>2, <1>3, <1>5, <1>6, QuietStep DEF Publishing, At

(* A call of initialise_bucket by a client. *)
LEMMA InitCallList ==
  ASSUME NEW t, CalmStep(t), NEW s \in 0 .. n_buckets - 1, InitCall(t, s)
  PROVE  ListInv' /\ Listed' = Listed
<1> USE DEF CalmStep
<1> DEFINE a == acc[t]
           b == acc'[t]
<1>1. Typed(a) /\ Facts(a) /\ a.pc = "idle" /\ a.op = "none" /\ a.ret = "none"
  <2>1. Typed(a) /\ Facts(a) /\ a.pc = "idle"
    BY Reads DEF IInv, ListInv, InitCall, At
  <2> QED BY <2>1 DEF Facts, CallFacts, Initialising
<1>2. UNCHANGED <<link, buckets, n_buckets>> /\ live' = live /\ s < n_buckets
  BY SizeAssumption DEF InitCall, live, IInv, TypeOK
<1>3. b.op = "init" /\ b.pc = "init_enter" /\ b.bslot = s /\ b.ret = "idle"
  BY <1>1 DEF InitCall, IInv, TypeOK, Typed, Accessor
<1>4. Listed' = Listed
  <2>1. Hidden(a) = {} /\ Hidden(b) = {}
    BY <1>1, <1>3 DEF Hidden, Unlinked
  <2> QED BY <1>2, <2>1, ListedSame
<1>5. Facts(acc[t])'
  BY <1>2, <1>3
     DEF Facts, CallFacts, SearchFacts, BucketFacts, Initialising, Publishing
<1> QED BY <1>1, <1>2, <1>3, <1>4, <1>5, QuietStep DEF Publishing, At

-----------------------------------------------------------------------------
(***************************************************************************)
(* The invariant holds as long as the process is calm.                     *)
(***************************************************************************)
InCall(t) == InitStep(t) \/ FindStep(t) \/ InsertStep(t) \/ DeleteStep(t)

(* A step inside a call changes the locals of one accessor. *)
LEMMA OneAccessor ==
  ASSUME TypeOK, NEW t \in Accessors, InCall(t)
  PROVE  ~At(t, "idle") /\ \A u \in Accessors \ {t} : acc'[u] = acc[u]
<1>0. acc = [u \in Accessors |-> acc[u]]
  BY DEF TypeOK
<1>1. ASSUME InitStep(t)
      PROVE  ~At(t, "idle") /\ \A u \in Accessors \ {t} : acc'[u] = acc[u]
  <2>1. ~At(t, "idle")
    BY <1>1 DEF InitStep, InitEnter, GetParent, Probe, ParentHead, ParentAdvance, InitTest,
        InitCas, InitFinish, InitCheck, InitOwn, InitOther, InitDiscard, InitAssert, At
  <2>2. \A u \in Accessors \ {t} : acc'[u] = acc[u]
    BY <1>0, <1>1 DEF InitStep, InitEnter, GetParent, Probe, ParentHead, ParentAdvance,
        InitTest, InitCas, InitFinish, InitCheck, InitOwn, InitOther, InitDiscard, InitAssert
  <2> QED BY <2>1, <2>2
<1>2. ASSUME FindStep(t)
      PROVE  ~At(t, "idle") /\ \A u \in Accessors \ {t} : acc'[u] = acc[u]
  <2>1. ~At(t, "idle")
    BY <1>2 DEF FindStep, FindStart, FindHead, FindAdvance, FindItem, At
  <2>2. \A u \in Accessors \ {t} : acc'[u] = acc[u]
    BY <1>0, <1>2 DEF FindStep, FindStart, FindHead, FindAdvance, FindItem, Return
  <2> QED BY <2>1, <2>2
<1>3. ASSUME InsertStep(t)
      PROVE  ~At(t, "idle") /\ \A u \in Accessors \ {t} : acc'[u] = acc[u]
  <2>1. ~At(t, "idle")
    BY <1>3 DEF InsertStep, InsertNew, InsertFound, InsertNotFound, InsertLink, InsertCount,
        ScanHead, ScanAdvance, ScanDone, Overflow, ExpandCopy, ExpandSwap, ExpandSize, At
  <2>2. \A u \in Accessors \ {t} : acc'[u] = acc[u]
    BY <1>0, <1>3 DEF InsertStep, InsertNew, InsertFound, InsertNotFound, InsertLink,
        InsertCount, ScanHead, ScanAdvance, ScanDone, Overflow, ExpandCopy, ExpandSwap,
        ExpandSize, Return
  <2> QED BY <2>1, <2>2
<1>4. ASSUME DeleteStep(t)
      PROVE  ~At(t, "idle") /\ \A u \in Accessors \ {t} : acc'[u] = acc[u]
  <2>1. ~At(t, "idle")
    BY <1>4 DEF DeleteStep, DeleteNotFound, DeleteFound, DeleteMark, DeleteUnlink,
        DeleteCount, DeleteReclaim, At
  <2>2. \A u \in Accessors \ {t} : acc'[u] = acc[u]
    BY <1>0, <1>4 DEF DeleteStep, DeleteNotFound, DeleteFound, DeleteMark, DeleteUnlink,
        DeleteCount, DeleteReclaim, Return
  <2> QED BY <2>1, <2>2
<1> QED BY <1>1, <1>2, <1>3, <1>4 DEF InCall

(* The steps of the process, sorted by what they do. *)
LEMMA CalmSteps ==
  ASSUME IInv, IInv', ListInv, Calm, Calm', Next
  PROVE  \/ \E t \in Accessors : CalmStep(t) /\ fault = "none" /\ fault' = fault /\ InCall(t)
         \/ \E t \in Accessors : Abort(t)
         \/ \E t \in Accessors, op \in Ops, h \in Hashes : CalmStep(t) /\ Call(t, op, h)
         \/ \E t \in Accessors, s \in 0 .. n_buckets - 1 : CalmStep(t) /\ InitCall(t, s)
<1>1. PICK t \in Accessors :
        \/ fault = "none" /\ InCall(t)
        \/ Abort(t)
        \/ \E op \in Ops, h \in Hashes : Call(t, op, h)
        \/ \E s \in 0 .. n_buckets - 1 : InitCall(t, s)
  BY DEF Next, Step, InCall
<1>2. ASSUME fault = "none", InCall(t) PROVE CalmStep(t) /\ fault' = fault
  <2>1. CalmStep(t)
    BY <1>2, OneAccessor DEF CalmStep, IInv
  <2>2. fault' = fault
    <3>1. CASE InitStep(t)
      BY <3>1 DEF InitStep, InitEnter, GetParent, Probe, ParentHead, ParentAdvance, InitTest,
          InitCas, InitFinish, InitCheck, InitOwn, InitOther, InitDiscard, InitAssert
    <3>2. CASE FindStep(t)
      BY <3>2 DEF FindStep, FindStart, FindHead, FindAdvance, FindItem
    <3>3. CASE InsertStep(t)
      BY <3>3 DEF InsertStep, InsertNew, InsertFound, InsertNotFound, InsertLink, InsertCount,
          ScanHead, ScanAdvance, ScanDone, Overflow, ExpandCopy, ExpandSwap, ExpandSize
    <3>4. CASE DeleteStep(t)
      BY <3>4 DEF DeleteStep, DeleteNotFound, DeleteFound, DeleteMark, DeleteUnlink,
          DeleteCount, DeleteReclaim
    <3> QED BY <1>2, <3>1, <3>2, <3>3, <3>4 DEF InCall
  <2> QED BY <2>1, <2>2
<1>3. ASSUME NEW op \in Ops, NEW h \in Hashes, Call(t, op, h) PROVE CalmStep(t)
  <2>1. acc'[t].pc = IF op = "insert" THEN "insert_new" ELSE "find"
    BY <1>3, Reads DEF Call, IInv, TypeOK, Typed, Accessor
  <2> QED BY <1>3, <2>1 DEF CalmStep, Call, At, IInv, TypeOK
<1>4. ASSUME NEW s \in 0 .. n_buckets - 1, InitCall(t, s) PROVE CalmStep(t)
  <2>1. acc'[t].pc = "init_enter"
    BY <1>4, Reads DEF InitCall, IInv, TypeOK, Typed, Accessor
  <2> QED BY <1>4, <2>1 DEF CalmStep, InitCall, At, IInv, TypeOK
<1> QED BY <1>1, <1>2, <1>3, <1>4

(* Every step of a call preserves the order of the list. *)
LEMMA InCallList ==
  ASSUME NEW t, CalmStep(t), InCall(t)
  PROVE  ListInv'
<1>1. CASE InitStep(t)
  BY <1>1, InitEnterList, GetParentList, ProbeList, ParentHeadList, ParentAdvanceList, InitTestList,
     InitCasList, InitFinishList, InitCheckList, InitOwnList, NeverOther, InitAssertList
     DEF InitStep
<1>2. CASE FindStep(t)
  BY <1>2, FindStartList, FindHeadList, FindAdvanceList, FindItemList DEF FindStep
<1>3. CASE InsertStep(t)
  BY <1>3, InsertNewList, InsertFoundList, InsertNotFoundList, InsertLinkList, InsertCountList,
     ScanHeadList, ScanAdvanceList, ScanDoneList, OverflowList, ExpandCopyList, ExpandSwapList,
     ExpandSizeList DEF InsertStep
<1>4. CASE DeleteStep(t)
  BY <1>4, DeleteNotFoundList, DeleteFoundList, DeleteMarkList, DeleteUnlinkList,
     DeleteCountList, DeleteReclaimList DEF DeleteStep
<1> QED BY <1>1, <1>2, <1>3, <1>4 DEF InCall

(* Nothing but fault changes. *)
LEMMA SameList ==
  ASSUME ListInv, UNCHANGED <<n_buckets, buckets, link, acc>>
  PROVE  ListInv' /\ Listed' = Listed
<1>1. Listed' = Listed
  BY DEF Listed, live
<1>2. SplitOrdered(Listed, link)' /\ Slots' /\ Table' /\ DataNodes'
  BY <1>1 DEF ListInv, SplitOrdered, Slots, Table, DataNodes, At
<1>3. ASSUME NEW t \in Accessors PROVE Facts(acc[t])'
  <2>1. Facts(acc[t]) /\ copy_of_buckets' = copy_of_buckets
    BY DEF ListInv, copy_of_buckets, new_size
  <2>2. CallFacts(acc[t])'
    BY <2>1 DEF Facts, CallFacts, Initialising
  <2>3. SearchFacts(acc[t])'
    BY <1>1, <2>1 DEF Facts, SearchFacts, Reached, Place, live
  <2>4. BucketFacts(acc[t])'
    BY <1>1, <2>1 DEF Facts, BucketFacts, Reached, Place, Probing, Initialising, Publishing
  <2> QED BY <2>2, <2>3, <2>4 DEF Facts
<1> QED BY <1>1, <1>2, <1>3 DEF ListInv

(* Every step of a calm behaviour preserves the order of the list. *)
LEMMA CalmNext ==
  ASSUME IInv, IInv', ListInv, Calm, Calm', [Next]_vars
  PROVE  ListInv'
<1>1. CASE UNCHANGED vars
  BY <1>1, SameList DEF vars
<1>2. CASE Next
  <2>1. ASSUME NEW t \in Accessors, Abort(t) PROVE ListInv'
    BY <2>1, SameList DEF Abort
  <2> QED BY <1>2, <2>1, CalmSteps, InCallList, CallList, InitCallList
<1> QED BY <1>1, <1>2

(* The size of the new table divides the number of hash values: with a     *)
(* number of buckets that does not, get_parent does not probe the slots.   *)
PowerOfTwoSize == \E q \in 1 .. Modulus : Size * q = Modulus

(* The constructor leaves a list of one bucket node. *)
LEMMA InitList ==
  ASSUME PowerOfTwoSize, Init
  PROVE  ListInv
<1>1. /\ Head \in Node /\ key(Head) = 0 /\ Head # NULL
      /\ Head.kind = "bucket" /\ Head.hashv = 0
  BY SizeAssumption, HashAssumption, NullAssumption DEF Head, Node, HashValues, key, sol_bucket_key
<1>2. Size \in Nat \ {0}
  BY SizeAssumption
<1>3. \A t \in Accessors : acc[t] = IdleAccessor
  BY DEF Init
<1>4. live = {Head} /\ link[Head] = Word(NULL, FALSE)
  BY DEF Init, live
<1>5. Listed = {Head}
  BY <1>3, <1>4, IdleKnows DEF Listed
<1>6. SplitOrdered(Listed, link)
  BY <1>1, <1>4, <1>5 DEF SplitOrdered, Word
<1>7. DOMAIN buckets = 0 .. Size - 1 /\ \A s \in 0 .. Size - 1 : buckets[s] = IF s = 0 THEN Head ELSE NULL
  BY DEF Init
<1>8. Slots
  BY <1>1, <1>2, <1>5, <1>7 DEF Slots
<1>9. Table
  BY <1>7 DEF Table, Init, PowerOfTwoSize
<1>10. DataNodes
  BY <1>1, <1>5 DEF DataNodes
<1>11. \A t \in Accessors : Facts(acc[t])
  BY <1>3, IdleKnows DEF Facts, CallFacts, SearchFacts, BucketFacts, Initialising, Publishing
<1> QED BY <1>6, <1>8, <1>9, <1>10, <1>11 DEF ListInv

(* The list is split ordered, its slots lead into it and every call knows  *)
(* its place, as long as the process is calm.                              *)
THEOREM ListInvariance ==
  ASSUME PowerOfTwoSize
  PROVE  Spec /\ []Calm => []ListInv
<1>1. IInv /\ IInv' /\ ListInv /\ Calm /\ Calm' /\ [Next]_vars => ListInv'
  BY CalmNext
<1>2. Init => ListInv
  BY InitList
<1> QED BY <1>1, <1>2, Invariance, PTL DEF Spec

(* The next pointer of every node in the list leads to a larger key: the   *)
(* searches and the CAS sites (solist.hpp:366, 451, 539) find one place    *)
(* for a key, however many threads insert at once.                         *)
THEOREM SplitOrder ==
  ASSUME PowerOfTwoSize
  PROVE  Spec /\ []Calm => []Ascending
<1>1. IInv /\ ListInv => Ascending
  BY AscendingHolds DEF IInv
<1> QED BY <1>1, Invariance, ListInvariance, PTL

(* A published slot points to its own bucket node, which is allocated and  *)
(* in the list.                                                            *)
THEOREM SlotsLeadIntoList ==
  ASSUME PowerOfTwoSize
  PROVE  Spec /\ []Calm => []BucketsIndexed
<1>1. IInv /\ ListInv => BucketsIndexed
  BY BucketsIndexedHolds DEF IInv
<1> QED BY <1>1, Invariance, ListInvariance, PTL

(* Every item is behind the bucket from which find_node looks for it,      *)
(* however often the table has been expanded and its buckets split.        *)
THEOREM FoundFromItsBucket ==
  ASSUME PowerOfTwoSize
  PROVE  Spec /\ []Calm => []ItemsFindable
<1>1. IInv /\ ListInv => ItemsFindable
  BY ItemsFindableHolds DEF IInv
<1> QED BY <1>1, Invariance, ListInvariance, PTL

(* Between calls the list holds every allocated node, so the destructor    *)
(* frees them all.                                                         *)
THEOREM NothingLeaks ==
  ASSUME PowerOfTwoSize
  PROVE  Spec /\ []Calm => []NoLeak
<1>1. IInv /\ ListInv => NoLeak
  BY NoLeakHolds
<1> QED BY <1>1, Invariance, ListInvariance, PTL

(* No assert fails, and no freed node, NULL or slot outside the table is   *)
(* used, unless a hash value has an odd reversal (the assert of            *)
(* sol_bucket_key, solist.hpp:52).                                         *)
THEOREM NoAbort ==
  ASSUME PowerOfTwoSize, EvenHashes
  PROVE  Spec /\ []Calm => []NoFault
<1>1. IInv /\ IInv' /\ ListInv /\ Calm /\ Calm' /\ NoFault /\ [Next]_vars => NoFault'
  <2> SUFFICES ASSUME IInv, IInv', ListInv, Calm, Calm', NoFault, Next PROVE NoFault'
    BY DEF NoFault, vars
  <2>1. \A t \in Accessors : ~Abort(t)
    BY NoFaultNext DEF Abort
  <2> QED BY <2>1, CalmSteps DEF NoFault, Call, InitCall
<1>2. Init => NoFault
  BY DEF Init, NoFault
<1> QED BY <1>1, <1>2, Invariance, ListInvariance, PTL DEF Spec

(* A published slot survives every call and every expansion. *)
THEOREM SlotsStay ==
  ASSUME PowerOfTwoSize
  PROVE  Spec /\ []Calm => SlotStable
<1>1. IInv /\ IInv' /\ ListInv /\ Calm /\ Calm' /\ [Next]_vars =>
        [\A s \in DOMAIN buckets : buckets[s] # NULL => buckets'[s] = buckets[s]]_vars
  <2> SUFFICES ASSUME IInv, IInv', ListInv, Calm, Calm', Next
               PROVE  \A s \in DOMAIN buckets : buckets[s] # NULL => buckets'[s] = buckets[s]
    OBVIOUS
  <2>1. ASSUME NEW t, CalmStep(t), InCall(t)
        PROVE  \A s \in DOMAIN buckets : buckets[s] # NULL => buckets'[s] = buckets[s]
    <3>1. CASE InitOwn(t)
      BY <2>1, <3>1, InitOwnList
    <3>2. CASE ExpandSwap(t)
      BY <2>1, <3>2, ExpandSwapList
    <3>3. CASE InitStep(t) /\ ~InitOwn(t)
      BY <2>1, <3>3, NeverOther
         DEF InitStep, InitEnter, GetParent, Probe, ParentHead, ParentAdvance, InitTest,
             InitCas, InitFinish, InitCheck, InitAssert
    <3>4. CASE FindStep(t) \/ DeleteStep(t)
      BY <3>4 DEF FindStep, FindStart, FindHead, FindAdvance, FindItem, DeleteStep,
                  DeleteNotFound, DeleteFound, DeleteMark, DeleteUnlink, DeleteCount,
                  DeleteReclaim
    <3>5. CASE InsertStep(t) /\ ~ExpandSwap(t)
      BY <3>5 DEF InsertStep, InsertNew, InsertFound, InsertNotFound, InsertLink, InsertCount,
                  ScanHead, ScanAdvance, ScanDone, Overflow, ExpandCopy, ExpandSize
    <3> QED BY <2>1, <3>1, <3>2, <3>3, <3>4, <3>5 DEF InCall
  <2> QED BY <2>1, CalmSteps DEF Abort, Call, InitCall
<1> QED BY <1>1, Invariance, ListInvariance, PTL DEF Spec, SlotStable

(* One thread is always alone: then only the size of the table matters. *)
LEMMA OneThread ==
  ASSUME NEW t, Accessors = {t}, At(t, "expand") => 2 * n_buckets < Modulus
  PROVE  Calm
BY DEF Calm

-----------------------------------------------------------------------------
(***************************************************************************)
(* The list implements the set.                                            *)
(***************************************************************************)
(* The items are the hash values of the data nodes. *)
LEMMA ItemNodes ==
  ASSUME TypeOK, ListInv, NEW h
  PROVE  h \in Items <=> \E n \in Listed : n.kind = "node" /\ n.hashv = h
BY ReachableListed DEF Items

(* No two hash values share a key, if none has an odd reversal. *)
LEMMA NodeKeysDiffer ==
  ASSUME EvenHashes, NEW h \in Hashes, NEW g \in Hashes, sol_node_key(h) = sol_node_key(g)
  PROVE  h = g
<1> DEFINE r == reverse_hasht_bits[h]
           s == reverse_hasht_bits[g]
<1>1. r \in Nat /\ s \in Nat /\ reverse_hasht_bits[r] = h /\ reverse_hasht_bits[s] = g
  BY HashAssumption, KeyTypes
<1>2. r % 2 = 0 /\ s % 2 = 0
  BY DEF EvenHashes, BucketKeyAsserted, sol_bucket_key
<1>3. sol_node_key(h) = r + 1 /\ sol_node_key(g) = s + 1
  BY <1>2 DEF sol_node_key
<1>4. r = s
  <2>1. r + 1 = s + 1 /\ r \in Nat /\ s \in Nat
    BY <1>1, <1>3
  <2> HIDE DEF r, s
  <2> QED BY <2>1
<1> QED BY <1>1, <1>4

(* Only a data node has the key of a data node. *)
LEMMA NodeWithKey ==
  ASSUME IInv, ListInv, EvenHashes, NEW h \in Hashes, NEW n \in Listed,
         key(n) = sol_node_key(h)
  PROVE  n.kind = "node" /\ n.hashv = h
<1>1. n \in live /\ n \in Node
  BY HeadFirst DEF IInv
<1>2. key(n) % 2 = 1
  BY HashAssumption, KeyTypes
<1>3. n.kind = "node"
  BY <1>1, <1>2 DEF IInv, BucketNodes, Node
<1>4. n.hashv \in Hashes
  BY <1>3 DEF ListInv, DataNodes
<1> QED BY <1>3, <1>4, NodeKeysDiffer DEF key

(* An item is in the set iff a node with its key is in the list. *)
LEMMA Presence ==
  ASSUME IInv, ListInv, EvenHashes, NEW h \in Hashes
  PROVE  h \in Items <=> \E n \in Listed : key(n) = sol_node_key(h)
BY ItemNodes, NodeWithKey DEF IInv, key

(* The read of the pointer that spans the key settles the search. *)
LEMMA Settling ==
  ASSUME IInv, ListInv, EvenHashes, NEW h \in Hashes, NEW c \in Listed, NEW x,
         link[c].ptr = x, key(c) < sol_node_key(h),
         x = NULL \/ key(x) >= sol_node_key(h)
  PROVE  h \in Items <=> x # NULL /\ key(x) = sol_node_key(h)
<1>1. x \in Listed \cup {NULL}
  BY DEF ListInv, SplitOrdered
<1>2. ASSUME NEW n \in Listed, key(n) = sol_node_key(h)
      PROVE  x # NULL /\ key(x) = sol_node_key(h)
  <2>1. x # NULL /\ key(x) <= key(n)
    BY <1>2 DEF ListInv, SplitOrdered
  <2>2. x \in Node /\ n \in Node
    BY <1>1, <2>1, HeadFirst DEF IInv
  <2>3. key(x) \in Nat /\ key(n) \in Nat
    BY <2>2, KeyTypes
  <2> QED BY <1>2, <2>1, <2>3
<1> QED BY <1>1, <1>2, Presence

Calls == [t \in Accessors |-> AbstractCall(acc[t])]

(* What the steps of the accessor t are to the set. *)
LEMMA OneCall ==
  ASSUME NEW t, CalmStep(t)
  PROVE  Calls' = [Calls EXCEPT ![t] = AbstractCall(acc'[t])]
<1>1. \A u \in Accessors : Calls'[u] = IF u = t THEN AbstractCall(acc'[t]) ELSE Calls[u]
  <2>1. \A u \in Accessors \ {t} : AbstractCall(acc[u])' = AbstractCall(acc[u])
    BY DEF CalmStep, AbstractCall, Answer, Settled, SettledFound, Linked, Found
  <2>2. AbstractCall(acc[t])' = AbstractCall(acc'[t])
    BY DEF AbstractCall, Answer, Settled, SettledFound, Linked, Found
  <2> QED BY <2>1, <2>2 DEF Calls
<1> QED BY <1>1 DEF Calls, CalmStep

(* A step that changes neither the items nor its own call. *)
LEMMA SetStutter ==
  ASSUME NEW t, CalmStep(t), AbstractCall(acc'[t]) = AbstractCall(acc[t]), Items' = Items
  PROVE  UNCHANGED <<Items, Calls>>
BY OneCall DEF Calls, CalmStep

(* An accessor outside the calls of the set is idle. *)
LEMMA IdleCall ==
  ASSUME NEW a, a.op \in {"none", "init"}
  PROVE  AbstractCall(a) = Set!Idle
BY DEF AbstractCall, Set!Idle

(* A call that has its answer returns. *)
LEMMA SetReturn ==
  ASSUME NEW t, CalmStep(t), acc[t].op \notin {"none", "init"}, Answer(acc[t]) # NONE,
         acc'[t] = IdleAccessor, Items' = Items
  PROVE  Set!Next
<1>1. AbstractCall(acc[t]).op # "none" /\ AbstractCall(acc[t]).ans # NONE
  BY DEF AbstractCall
<1>2. AbstractCall(acc'[t]) = Set!Idle
  BY IdleKnows, IdleCall
<1>3. Calls' = [Calls EXCEPT ![t] = Set!Idle]
  BY <1>2, OneCall
<1>4. t \in Accessors
  BY DEF CalmStep
<1>5. Set!Return(t)
  BY <1>1, <1>3, <1>4 DEF Set!Return, Calls
<1> QED BY <1>4, <1>5 DEF Set!Next

(* A step that settles the answer of a call and applies its effect. *)
LEMMA SetApply ==
  ASSUME NEW t, CalmStep(t), NEW op \in {"insert", "delete", "find"}, NEW h,
         acc[t].op = op, acc[t].hashv = h, Answer(acc[t]) = NONE,
         acc'[t].op = op, acc'[t].hashv = h,
         Answer(acc'[t]) = IF op = "insert" THEN h \notin Items ELSE h \in Items,
         Items' = CASE op = "insert" -> Items \cup {h}
                    [] op = "delete" -> Items \ {h}
                    [] op = "find"   -> Items
  PROVE  Set!Next
<1>1. t \in Accessors
  BY DEF CalmStep
<1>2. AbstractCall(acc[t]) = [op |-> op, hashv |-> h, ans |-> NONE]
  BY DEF AbstractCall
<1> DEFINE ans == Answer(acc'[t])
<1>3. AbstractCall(acc'[t]) = [op |-> op, hashv |-> h, ans |-> ans]
  BY DEF AbstractCall
<1>4. Calls[t] = [op |-> op, hashv |-> h, ans |-> NONE]
  BY <1>1, <1>2 DEF Calls
<1>5. Calls' = [Calls EXCEPT ![t] = [op |-> op, hashv |-> h, ans |-> ans]]
  BY <1>3, OneCall
<1>6. ans = IF op = "insert" THEN ~(h \in Items) ELSE h \in Items
  OBVIOUS
<1> HIDE DEF ans
<1>7. Calls' = [Calls EXCEPT ![t].ans = ans]
  <2>1. [Calls[t] EXCEPT !.ans = ans] = [op |-> op, hashv |-> h, ans |-> ans]
    BY <1>4
  <2> QED BY <1>5, <2>1
<1>8. Set!Apply(t)
  BY <1>4, <1>6, <1>7 DEF Set!Apply, Calls
<1> QED BY <1>1, <1>8 DEF Set!Next

(* The list in the next state. *)
LEMMA ReachableListedNext == (TypeOK /\ ListInv => Reachable = Listed)'
<1>1. TypeOK /\ ListInv => Reachable = Listed
  BY ReachableListed
<1> QED BY <1>1, PTL

(* The items change only with the data nodes of the list. *)
LEMMA SameItems ==
  ASSUME NEW t, CalmStep(t), ListInv', \A n : n.kind = "node" => (n \in Listed' <=> n \in Listed)
  PROVE  Items' = Items
<1>1. Reachable = Listed /\ Reachable' = Listed'
  BY ReachableListed, ReachableListedNext DEF CalmStep, IInv
<1>2. {n \in Listed' : n.kind = "node"} = {n \in Listed : n.kind = "node"}
  OBVIOUS
<1> QED BY <1>1, <1>2 DEF Items

(* The answers of a call. *)
LEMMA Answers ==
  ASSUME NEW a
  PROVE  /\ a.pc \notin {"find_loop", "uncount", "reclaim"} /\ ~(a.op = "insert" /\ Linked(a)) =>
              Answer(a) = NONE
         /\ a.op = "insert" /\ Linked(a) /\ a.pc # "find_loop" => Answer(a) = TRUE
         /\ a.op = "delete" /\ a.pc \in {"uncount", "reclaim"} => Answer(a) = TRUE
<1>1. a.pc \notin {"find_loop", "uncount", "reclaim"} /\ ~(a.op = "insert" /\ Linked(a)) =>
        Answer(a) = NONE
  BY DEF Answer, Settled
<1>2. a.op = "insert" /\ Linked(a) /\ a.pc # "find_loop" => Answer(a) = TRUE
  BY DEF Answer, Settled
<1>3. a.op = "delete" /\ a.pc \in {"uncount", "reclaim"} => Answer(a) = TRUE
  BY DEF Answer, Settled
<1> QED BY <1>1, <1>2, <1>3

(* The answer of a call during its search. *)
LEMMA SearchAnswers ==
  ASSUME NEW a, a.pc = "find_loop", a.ret = "none"
  PROVE  /\ ~Settled(a) => Answer(a) = NONE
         /\ Settled(a) /\ a.op = "find" => Answer(a) = SettledFound(a)
         /\ Settled(a) /\ a.op = "insert" => Answer(a) = IF SettledFound(a) THEN FALSE ELSE NONE
         /\ Settled(a) /\ a.op = "delete" => Answer(a) = IF SettledFound(a) THEN NONE ELSE FALSE
<1>1. ~Linked(a)
  BY DEF Linked
<1> QED BY <1>1 DEF Answer

(* A step away from the search and the reclamation keeps the call. *)
LEMMA SameAnswer ==
  ASSUME NEW a, NEW b, b.op = a.op, b.hashv = a.hashv,
         a.pc \notin {"find_loop", "uncount", "reclaim"},
         b.pc \notin {"find_loop", "uncount", "reclaim"},
         a.op = "insert" => (Linked(a) <=> Linked(b))
  PROVE  AbstractCall(b) = AbstractCall(a)
<1>1. Answer(b) = Answer(a)
  BY Answers
<1> QED BY <1>1 DEF AbstractCall

(* A step of initialise_bucket leaves the call as it is. *)
LEMMA InitKeeps ==
  ASSUME NEW t, CalmStep(t), InitStep(t), ~InitEnter(t) \/ ~UNCHANGED link, ~InitAssert(t)
  PROVE  LET a == acc[t]
             b == acc'[t]
         IN  /\ b.op = a.op /\ b.hashv = a.hashv /\ b.ret = a.ret
             /\ Initialising(a) /\ Initialising(b)
<1> USE DEF CalmStep
<1> DEFINE a == acc[t]
           b == acc'[t]
           Same == /\ b.op = a.op /\ b.hashv = a.hashv /\ b.ret = a.ret
                   /\ Initialising(a) /\ Initialising(b)
<1>0. Typed(a) /\ acc = [u \in Accessors |-> acc[u]]
  BY Reads DEF IInv, TypeOK
<1>1. CASE InitEnter(t)
  <2> DEFINE n == NewNode("bucket", a.bslot)
  <2>1. a.pc = "init_enter" /\ acc' = [acc EXCEPT ![t].bnode = n, ![t].pc = "get_parent"]
    BY <1>1 DEF InitEnter, At
  <2> HIDE DEF n
  <2> QED BY <1>0, <2>1 DEF Typed, Accessor, Initialising
<1>2. CASE GetParent(t)
  <2> DEFINE k == key(a.bnode)
             step == sol_bucket_key(n_buckets \div 2)
  <2>1. a.pc = "get_parent"
        /\ acc' = [acc EXCEPT ![t].key_step = step, ![t].pb_key = k, ![t].pc = "probe"]
    BY <1>2 DEF GetParent, At
  <2> HIDE DEF k, step
  <2> QED BY <1>0, <2>1 DEF Typed, Accessor, Initialising
<1>3. CASE Probe(t)
  <2> DEFINE k == PreviousBucketKey(a)
             pc == IF buckets[reverse_hasht_bits[k]] # NULL \/ k = 0 THEN "parent_head" ELSE "probe"
  <2>1. a.pc = "probe" /\ acc' = [acc EXCEPT ![t].pb_key = k, ![t].pc = pc]
    BY <1>3 DEF Probe, At
  <2>2. pc \in {"parent_head", "probe"}
    OBVIOUS
  <2> HIDE DEF k, pc
  <2> QED BY <1>0, <2>1, <2>2 DEF Typed, Accessor, Initialising
<1>4. CASE ParentHead(t)
  BY <1>0, <1>4 DEF ParentHead, Positioned, Typed, Accessor, Initialising, At
<1>5. CASE ParentAdvance(t)
  BY <1>0, <1>5 DEF ParentAdvance, Advanced, Typed, Accessor, Initialising, At
<1>6. CASE InitTest(t)
  BY <1>0, <1>6 DEF InitTest, Typed, Accessor, Initialising, At
<1>7. CASE InitCas(t)
  BY <1>0, <1>7 DEF InitCas, Typed, Accessor, Initialising, At
<1>8. CASE InitFinish(t)
  BY <1>0, <1>8 DEF InitFinish, Typed, Accessor, Initialising, At
<1>9. CASE InitCheck(t)
  BY <1>0, <1>9 DEF InitCheck, Typed, Accessor, Initialising, At
<1>10. CASE InitOwn(t)
  BY <1>0, <1>10 DEF InitOwn, Typed, Accessor, Initialising, At
<1> QED BY <1>1, <1>2, <1>3, <1>4, <1>5, <1>6, <1>7, <1>8, <1>9, <1>10, NeverOther DEF InitStep

(* The data nodes of the list while a bucket is initialised. *)
LEMMA InitData ==
  ASSUME NEW t, CalmStep(t), InitStep(t)
  PROVE  ListInv' /\ \A n : n.kind = "node" => (n \in Listed' <=> n \in Listed)
<1>1. CASE InitCas(t)
  <2>1. acc[t].bnode.kind = "bucket"
    BY <1>1 DEF CalmStep, IInv, Locals, Local, Initialising, InitCas, At
  <2> QED BY <1>1, <2>1, InitCasList
<1>2. CASE ~InitCas(t)
  BY <1>2, InitEnterList, GetParentList, ProbeList, ParentHeadList, ParentAdvanceList,
     InitTestList, InitFinishList, InitCheckList, InitOwnList, NeverOther, InitAssertList
     DEF InitStep
<1> QED BY <1>1, <1>2

(* initialise_bucket returns: unseen, or the end of an insert. *)
LEMMA InitReturnedSet ==
  ASSUME NEW t, CalmStep(t), Initialising(acc[t]), acc'[t] = InitReturned(acc[t]), Items' = Items
  PROVE  Set!Next \/ UNCHANGED <<Items, Calls>>
<1> USE DEF CalmStep
<1> DEFINE a == acc[t]
           b == acc'[t]
<1>1. Typed(a) /\ CallFacts(a) /\ a.pc \notin {"find_loop", "uncount", "reclaim"}
  BY Reads DEF IInv, ListInv, Facts, Initialising
<1>2. CASE a.ret = "find_head"
  <2>1. b.pc = "find_head" /\ b.ret = "none" /\ b.op = a.op /\ b.hashv = a.hashv
    BY <1>1, <1>2 DEF InitReturned, Typed, Accessor
  <2>2. ~Linked(a) /\ ~Linked(b)
    BY <1>2, <2>1 DEF Linked, Initialising
  <2>3. AbstractCall(b) = AbstractCall(a)
    BY <1>1, <2>1, <2>2, SameAnswer
  <2> QED BY <2>3, SetStutter
<1>3. CASE a.ret = "idle"
  <2>1. b = IdleAccessor
    BY <1>3 DEF InitReturned
  <2>2. CASE a.op = "init"
    <3>1. AbstractCall(b) = AbstractCall(a)
      BY <2>1, <2>2, IdleKnows, IdleCall
    <3> QED BY <3>1, SetStutter
  <2>3. CASE a.op = "insert"
    <3>1. Answer(a) = TRUE
      BY <1>1, <1>3, <2>3, Answers DEF Linked
    <3>2. Answer(a) # NONE
      BY <3>1, NoneAssumption
    <3> QED BY <2>1, <2>3, <3>2, SetReturn
  <2> QED BY <1>1, <1>3, <2>2, <2>3 DEF CallFacts
<1> QED BY <1>1, <1>2, <1>3 DEF CallFacts

(* initialise_bucket does not touch the set. *)
LEMMA InitStepSet ==
  ASSUME NEW t, CalmStep(t), InitStep(t)
  PROVE  Set!Next \/ UNCHANGED <<Items, Calls>>
<1> USE DEF CalmStep
<1>1. Items' = Items
  BY InitData, SameItems
<1>2. CASE InitAssert(t) \/ (InitEnter(t) /\ acc' = [acc EXCEPT ![t] = InitReturned(@)])
  <2>1. Initialising(acc[t]) /\ acc'[t] = InitReturned(acc[t])
    BY <1>2 DEF InitAssert, InitEnter, At, Initialising, IInv, TypeOK
  <2> QED BY <1>1, <2>1, InitReturnedSet
<1>3. CASE ~InitAssert(t) /\ ~(InitEnter(t) /\ acc' = [acc EXCEPT ![t] = InitReturned(@)])
  <2>1. InitEnter(t) => ~UNCHANGED link
    <3> SUFFICES ASSUME InitEnter(t) PROVE ~UNCHANGED link
      OBVIOUS
    <3> DEFINE s == acc[t].bslot
               n == NewNode("bucket", s)
    <3>1. Unused("bucket", s) # {} /\ Allocate(n) /\ s \in HashValues
      BY <1>3, Reads DEF InitEnter, IInv, Typed, Accessor
    <3>2. n \notin live
      BY <3>1, NewNodeFresh
    <3> HIDE DEF n
    <3>3. DOMAIN link' = live \cup {n}
      BY <3>1 DEF Allocate
    <3> QED BY <3>2, <3>3 DEF live
  <2>2. LET a == acc[t]
            b == acc'[t]
        IN  /\ b.op = a.op /\ b.hashv = a.hashv /\ b.ret = a.ret
            /\ Initialising(a) /\ Initialising(b)
    BY <1>3, <2>1, InitKeeps
  <2>3. AbstractCall(acc'[t]) = AbstractCall(acc[t])
    <3>1. Linked(acc[t]) <=> Linked(acc'[t])
      BY <2>2 DEF Linked, Initialising
    <3> QED BY <2>2, <3>1, SameAnswer DEF Initialising
  <2> QED BY <1>1, <2>3, SetStutter
<1> QED BY <1>2, <1>3

(* A call that has no answer before and after the step. *)
LEMMA SameCallPending ==
  ASSUME NEW a, NEW b, b.op = a.op, b.hashv = a.hashv, Answer(a) = NONE, Answer(b) = NONE
  PROVE  AbstractCall(b) = AbstractCall(a)
BY DEF AbstractCall

(* A search that has not passed the key reads the next pointer. *)
LEMMA SearchMoves ==
  ASSUME NEW t, CalmStep(t), EvenHashes, Items' = Items,
         acc[t].op \in {"insert", "delete", "find"}, Answer(acc[t]) = NONE,
         acc'[t].op = acc[t].op, acc'[t].hashv = acc[t].hashv,
         acc'[t].pc = "find_loop", acc'[t].ret = "none",
         acc'[t].cur \in Listed, acc'[t].next = link[acc'[t].cur].ptr,
         key(acc'[t].cur) < sol_node_key(acc[t].hashv)
  PROVE  Set!Next \/ UNCHANGED <<Items, Calls>>
<1> USE DEF CalmStep
<1> DEFINE a == acc[t]
           b == acc'[t]
           h == a.hashv
<1>1. h \in Hashes /\ h \in HashValues
  BY HashAssumption DEF ListInv, Facts, CallFacts
<1>2. ~Found(b)
  <2>1. key(b.cur) \in Nat /\ sol_node_key(h) \in Nat
    BY <1>1, KeyTypes, HeadFirst DEF IInv
  <2> QED BY <2>1 DEF Found
<1>3. Settled(b) => (h \in Items <=> SettledFound(b))
  <2> SUFFICES ASSUME Settled(b) PROVE h \in Items <=> SettledFound(b)
    OBVIOUS
  <2>1. b.next = NULL \/ key(b.next) >= sol_node_key(h)
    BY DEF Settled
  <2>2. h \in Items <=> b.next # NULL /\ key(b.next) = sol_node_key(h)
    BY <1>1, <2>1, Settling
  <2> QED BY <1>2, <2>2 DEF SettledFound
<1>4. CASE Answer(b) = NONE
  BY <1>4, SameCallPending, SetStutter
<1>5. CASE Answer(b) # NONE
  <2>1. Settled(b)
    BY <1>5, SearchAnswers
  <2>2. CASE a.op = "find"
    <3>1. Answer(b) = SettledFound(b)
      BY <2>1, <2>2, SearchAnswers
    <3>2. Answer(b) = (h \in Items)
      <4>1. CASE SettledFound(b)
        <5>1. SettledFound(b) = TRUE
          BY <4>1 DEF SettledFound
        <5>2. (h \in Items) = TRUE
          BY <1>3, <2>1, <4>1
        <5> QED BY <3>1, <5>1, <5>2
      <4>2. CASE ~SettledFound(b)
        <5>1. SettledFound(b) = FALSE
          BY <4>2 DEF SettledFound
        <5>2. (h \in Items) = FALSE
          BY <1>3, <2>1, <4>2
        <5> QED BY <3>1, <5>1, <5>2
      <4> QED BY <4>1, <4>2
    <3> QED BY <2>2, <3>2, SetApply
  <2>3. CASE a.op = "insert"
    <3>1. SettledFound(b) /\ Answer(b) = FALSE
      BY <1>5, <2>1, <2>3, SearchAnswers
    <3>2. h \in Items
      BY <1>3, <2>1, <3>1
    <3>3. Items' = Items \cup {h}
      BY <3>2
    <3>4. Answer(b) = (h \notin Items)
      BY <3>1, <3>2
    <3> QED BY <2>3, <3>3, <3>4, SetApply
  <2>4. CASE a.op = "delete"
    <3>1. ~SettledFound(b) /\ Answer(b) = FALSE
      BY <1>5, <2>1, <2>4, SearchAnswers
    <3>2. h \notin Items
      BY <1>3, <2>1, <3>1
    <3>3. Items' = Items \ {h}
      BY <3>2
    <3>4. Answer(b) = (h \in Items)
      <4>1. (h \in Items) = FALSE
        BY <3>2
      <4> QED BY <3>1, <4>1
    <3> QED BY <2>4, <3>3, <3>4, SetApply
  <2> QED BY <2>2, <2>3, <2>4
<1> QED BY <1>4, <1>5

(* A search that has passed the key knows its outcome. *)
LEMMA SearchDone ==
  ASSUME NEW t, CalmStep(t), At(t, "find_loop"), ~NotPast(acc[t])
  PROVE  /\ Settled(acc[t]) /\ (SettledFound(acc[t]) <=> Found(acc[t]))
         /\ acc[t].ret = "none"
<1> USE DEF CalmStep
<1> DEFINE a == acc[t]
<1>1. Typed(a) /\ Facts(a) /\ a.pc = "find_loop"
  BY Reads DEF IInv, ListInv, At
<1>2. a.ret = "none" /\ a.next \in Listed \cup {NULL}
  BY <1>1 DEF Facts, CallFacts, SearchFacts, Reached, Initialising
<1>3. a.next # NULL => key(a.next) \in Nat
  BY <1>2, KeyTypes, HeadFirst DEF IInv
<1>4. sol_node_key(a.hashv) \in Nat
  BY <1>1, KeyTypes DEF Typed, Accessor
<1>5. a.next # NULL => key(a.next) > sol_node_key(a.hashv)
  BY <1>3, <1>4 DEF NotPast
<1> QED BY <1>1, <1>2, <1>3, <1>4, <1>5 DEF Settled, SettledFound

(* A step of a search is a step of the set, or none. *)
LEMMA FindStepSet ==
  ASSUME NEW t, CalmStep(t), FindStep(t), EvenHashes
  PROVE  Set!Next \/ UNCHANGED <<Items, Calls>>
<1> USE DEF CalmStep
<1> DEFINE a == acc[t]
           b == acc'[t]
<1>0. Typed(a) /\ Local(a) /\ Facts(a) /\ acc = [u \in Accessors |-> acc[u]]
  BY Reads DEF IInv, TypeOK, Locals, ListInv
<1>1. Items' = Items
  BY FindStartList, FindHeadList, FindAdvanceList, FindItemList, SameItems DEF FindStep
<1>2. CASE a.op \in {"none", "init"} /\ b.op = a.op
  <2>1. AbstractCall(b) = AbstractCall(a)
    BY <1>2, IdleCall
  <2> QED BY <1>1, <2>1, SetStutter
<1>3. CASE FindStart(t)
  <2> DEFINE s == a.hashv % n_buckets
  <2>1. /\ a.pc = "find"
        /\ acc' = IF buckets[s] # NULL
                  THEN [acc EXCEPT ![t].slot = s, ![t].pc = "find_head"]
                  ELSE [acc EXCEPT ![t].slot = s, ![t].bslot = s,
                                   ![t].ret = "find_head", ![t].pc = "init_enter"]
    BY <1>3 DEF FindStart, At
  <2>2. a.ret = "none"
    BY <1>0, <2>1 DEF Facts, CallFacts, Initialising
  <2> HIDE DEF s
  <2>3. /\ b.op = a.op /\ b.hashv = a.hashv
        /\ b.pc \in {"find_head", "init_enter"} /\ b.ret \in {"none", "find_head"}
    <3>1. CASE buckets[s] # NULL
      BY <1>0, <2>1, <2>2, <3>1 DEF Typed, Accessor
    <3>2. CASE buckets[s] = NULL
      BY <1>0, <2>1, <3>2 DEF Typed, Accessor
    <3> QED BY <3>1, <3>2
  <2>4. ~Linked(a) /\ ~Linked(b)
    BY <2>1, <2>2, <2>3 DEF Linked
  <2>5. AbstractCall(b) = AbstractCall(a)
    BY <2>1, <2>3, <2>4, SameAnswer
  <2> QED BY <1>1, <2>5, SetStutter
<1>4. CASE FindHead(t)
  <2>1. /\ a.pc = "find_head" /\ a.ret = "none"
        /\ a.slot < n_buckets /\ buckets[a.slot] # NULL
        /\ sol_bucket_key(a.slot) < sol_node_key(a.hashv)
    BY <1>0, <1>4 DEF FindHead, At, Facts, CallFacts, SearchFacts, Initialising
  <2>2. /\ b.pc = "find_loop" /\ b.ret = "none" /\ b.op = a.op /\ b.hashv = a.hashv
        /\ b.cur = buckets[a.slot] /\ b.next = link[b.cur].ptr
    BY <1>0, <1>4, <2>1 DEF FindHead, Positioned, get, Typed, Accessor
  <2>3. b.cur \in Listed /\ key(b.cur) < sol_node_key(a.hashv)
    <3>1. a.slot \in Nat
      BY <1>0, KeyTypes DEF Typed, Accessor
    <3> QED BY <2>1, <2>2, <3>1, SlotListed DEF IInv
  <2>4. Answer(a) = NONE
    BY <2>1, Answers DEF Linked
  <2>5. CASE a.op \in {"insert", "delete", "find"}
    BY <1>1, <2>2, <2>3, <2>4, <2>5, SearchMoves
  <2> QED BY <1>0, <1>2, <2>2, <2>5 DEF Typed, Accessor
<1>5. CASE FindAdvance(t)
  <2>1. a.pc = "find_loop" /\ a.ret = "none" /\ NotPast(a) /\ a.next \in Listed
    BY <1>0, <1>5 DEF FindAdvance, At, NotPast, Facts, CallFacts, SearchFacts, Reached, Initialising
  <2>2. /\ b.pc = "find_loop" /\ b.ret = "none" /\ b.op = a.op /\ b.hashv = a.hashv
        /\ b.cur = a.next /\ b.next = link[b.cur].ptr
    BY <1>0, <1>5, <2>1 DEF FindAdvance, Advanced, get, Typed, Accessor
  <2>3. key(a.next) \in Nat /\ sol_node_key(a.hashv) \in Nat
    BY <1>0, <2>1, KeyTypes, HeadFirst DEF Typed, Accessor, IInv
  <2>4. CASE Settled(a)
    <3>1. key(a.next) = sol_node_key(a.hashv) /\ SettledFound(a)
      BY <2>1, <2>3, <2>4 DEF Settled, NotPast, SettledFound
    <3>2. Found(b) /\ SettledFound(b)
      BY <2>2, <3>1 DEF Found, SettledFound
    <3>3. Settled(b)
      <4>1. b.next \in Listed \cup {NULL} /\ (b.next # NULL => key(b.cur) < key(b.next))
        BY <2>1, <2>2 DEF ListInv, SplitOrdered
      <4>2. b.next # NULL => key(b.next) \in Nat
        BY <4>1, KeyTypes, HeadFirst DEF IInv
      <4> QED BY <2>2, <2>3, <3>1, <4>1, <4>2 DEF Settled
    <3>4. CASE a.op \in {"insert", "delete", "find"}
      <4>1. Answer(b) = Answer(a)
        BY <2>1, <2>2, <2>4, <3>1, <3>2, <3>3, <3>4, SearchAnswers DEF SettledFound
      <4>2. AbstractCall(b) = AbstractCall(a)
        BY <2>2, <4>1 DEF AbstractCall
      <4> QED BY <1>1, <4>2, SetStutter
    <3> QED BY <1>0, <1>2, <2>2, <3>4 DEF Typed, Accessor
  <2>5. CASE ~Settled(a)
    <3>1. Answer(a) = NONE
      BY <2>1, <2>5, SearchAnswers
    <3>2. key(b.cur) < sol_node_key(a.hashv)
      BY <2>1, <2>2, <2>3, <2>5 DEF Settled, NotPast
    <3>3. CASE a.op \in {"insert", "delete", "find"}
      BY <1>1, <2>1, <2>2, <3>1, <3>2, <3>3, SearchMoves
    <3> QED BY <1>0, <1>2, <2>2, <3>3 DEF Typed, Accessor
  <2> QED BY <2>4, <2>5
<1>6. CASE FindItem(t)
  <2>1. a.op = "find" /\ a.pc = "find_loop" /\ ~NotPast(a) /\ b = IdleAccessor
    BY <1>6 DEF FindItem, At, Return, IInv, TypeOK
  <2>2. Settled(a) /\ a.ret = "none"
    BY <2>1, SearchDone DEF At
  <2>3. Answer(a) = SettledFound(a)
    BY <2>1, <2>2, SearchAnswers
  <2>4. SettledFound(a) \in BOOLEAN
    BY DEF SettledFound
  <2>5. Answer(a) # NONE
    BY <2>3, <2>4, NoneAssumption
  <2> QED BY <1>1, <2>1, <2>5, SetReturn
<1> QED BY <1>3, <1>4, <1>5, <1>6 DEF FindStep

(* The steps of insert_node up to its CAS. *)
LEMMA InsertSearchSet ==
  ASSUME NEW t, CalmStep(t), InsertNew(t) \/ InsertFound(t) \/ InsertNotFound(t)
  PROVE  Set!Next \/ UNCHANGED <<Items, Calls>>
<1> USE DEF CalmStep
<1> DEFINE a == acc[t]
           b == acc'[t]
<1>0. Typed(a) /\ Local(a) /\ Facts(a) /\ acc = [u \in Accessors |-> acc[u]]
  BY Reads DEF IInv, TypeOK, Locals, ListInv
<1>1. Items' = Items
  BY InsertNewList, InsertFoundList, InsertNotFoundList, SameItems
<1>2. CASE InsertNew(t)
  <2> DEFINE n == NewNode("node", a.hashv)
  <2>1. /\ a.pc = "insert_new"
        /\ acc' = [acc EXCEPT ![t].nbuckets = n_buckets, ![t].dnode = n, ![t].pc = "find"]
    BY <1>2 DEF InsertNew, At
  <2>2. a.ret = "none"
    BY <1>0, <2>1 DEF Facts, CallFacts, Initialising
  <2> HIDE DEF n
  <2>3. b.op = a.op /\ b.hashv = a.hashv /\ b.pc = "find" /\ b.ret = "none"
    BY <1>0, <2>1, <2>2 DEF Typed, Accessor
  <2>4. AbstractCall(b) = AbstractCall(a)
    BY <2>1, <2>2, <2>3, SameAnswer DEF Linked
  <2> QED BY <1>1, <2>4, SetStutter
<1>3. CASE InsertFound(t)
  <2>1. a.op = "insert" /\ a.pc = "find_loop" /\ ~NotPast(a) /\ Found(a) /\ b = IdleAccessor
    BY <1>0, <1>3 DEF InsertFound, At, Return
  <2>2. Settled(a) /\ SettledFound(a) /\ a.ret = "none"
    BY <2>1, SearchDone DEF At
  <2>3. Answer(a) = FALSE
    BY <2>1, <2>2, SearchAnswers
  <2> QED BY <1>1, <2>1, <2>3, SetReturn, NoneAssumption
<1>4. CASE InsertNotFound(t)
  <2>1. a.op = "insert" /\ a.pc = "find_loop" /\ ~NotPast(a) /\ ~Found(a)
    BY <1>4 DEF InsertNotFound, At
  <2>2. Settled(a) /\ ~SettledFound(a) /\ a.ret = "none"
    BY <2>1, SearchDone DEF At
  <2>3. Answer(a) = NONE
    BY <2>1, <2>2, SearchAnswers
  <2>4. b.pc = "link" /\ b.op = a.op /\ b.hashv = a.hashv /\ b.ret = "none"
    BY <1>0, <1>4, <2>2 DEF InsertNotFound, Typed, Accessor
  <2>5. Answer(b) = NONE
    BY <2>4, Answers DEF Linked
  <2>6. AbstractCall(b) = AbstractCall(a)
    BY <2>3, <2>4, <2>5, SameCallPending
  <2> QED BY <1>1, <2>6, SetStutter
<1> QED BY <1>2, <1>3, <1>4

(* The CAS that links the node adds the item. *)
LEMMA InsertLinkSet ==
  ASSUME NEW t, CalmStep(t), InsertLink(t), EvenHashes
  PROVE  Set!Next \/ UNCHANGED <<Items, Calls>>
<1> USE DEF CalmStep
<1> DEFINE a == acc[t]
           b == acc'[t]
           d == a.dnode
           h == a.hashv
<1>1. /\ Typed(a) /\ a.pc = "link" /\ a.op = "insert" /\ a.ret = "none"
      /\ d.kind = "node" /\ d.hashv = h
  <2>1. Typed(a) /\ Local(a) /\ Facts(a) /\ a.pc = "link"
    BY Reads DEF IInv, Locals, ListInv, InsertLink, At
  <2> QED BY <2>1 DEF Local, Facts, CallFacts, Initialising
<1>2. Answer(a) = NONE
  BY <1>1, Answers DEF Linked
<1>3. CASE CASMatches(link[a.cur], a.next)
  <2>1. /\ b = [a EXCEPT !.pc = "count"] /\ ListInv'
        /\ Listed' = Listed \cup {d} /\ \A n \in Listed : key(n) # key(d)
    BY <1>3, InsertLinkList
  <2>2. b.pc = "count" /\ b.op = "insert" /\ b.hashv = h
    BY <1>1, <2>1 DEF Typed, Accessor
  <2>3. h \notin Items
    BY <1>1, <2>1, ItemNodes DEF IInv, key
  <2>4. Items' = Items \cup {h}
    <3>1. Reachable = Listed /\ Reachable' = Listed'
      BY <2>1, ReachableListed, ReachableListedNext DEF IInv
    <3> QED BY <1>1, <2>1, <3>1 DEF Items
  <2>5. Answer(b) = (h \notin Items)
    <3>1. Answer(b) = TRUE
      BY <2>2, Answers DEF Linked
    <3>2. (h \notin Items) = TRUE
      BY <2>3
    <3> QED BY <3>1, <3>2
  <2> QED BY <1>1, <1>2, <2>2, <2>4, <2>5, SetApply
<1>4. CASE ~CASMatches(link[a.cur], a.next)
  <2>1. b = [a EXCEPT !.pc = "find"] /\ ListInv' /\ Listed' = Listed
    BY <1>4, InsertLinkList
  <2>2. b.pc = "find" /\ b.op = a.op /\ b.hashv = a.hashv /\ b.ret = "none"
    BY <1>1, <2>1 DEF Typed, Accessor
  <2>3. AbstractCall(b) = AbstractCall(a)
    BY <1>1, <2>2, SameAnswer DEF Linked
  <2> QED BY <2>1, <2>3, SameItems, SetStutter
<1> QED BY <1>3, <1>4

(* After its CAS an insert has its answer; the rest is unseen. *)
LEMMA InsertedSet ==
  ASSUME NEW t, CalmStep(t), acc[t].op = "insert", Linked(acc[t]), acc[t].pc # "find_loop",
         Items' = Items,
         \/ acc'[t] = IdleAccessor
         \/ /\ acc'[t].op = "insert" /\ acc'[t].hashv = acc[t].hashv
            /\ Linked(acc'[t]) /\ acc'[t].pc # "find_loop"
  PROVE  Set!Next \/ UNCHANGED <<Items, Calls>>
<1>1. Answer(acc[t]) = TRUE
  BY Answers
<1>2. CASE acc'[t] = IdleAccessor
  BY <1>1, <1>2, SetReturn, NoneAssumption
<1>3. CASE /\ acc'[t].op = "insert" /\ acc'[t].hashv = acc[t].hashv
           /\ Linked(acc'[t]) /\ acc'[t].pc # "find_loop"
  <2>1. Answer(acc'[t]) = TRUE
    BY <1>3, Answers
  <2>2. AbstractCall(acc'[t]) = AbstractCall(acc[t])
    BY <1>1, <1>3, <2>1 DEF AbstractCall
  <2> QED BY <2>2, SetStutter
<1> QED BY <1>2, <1>3

(* A step of insert_node is a step of the set, or none. *)
LEMMA InsertStepSet ==
  ASSUME NEW t, CalmStep(t), InsertStep(t), EvenHashes
  PROVE  Set!Next \/ UNCHANGED <<Items, Calls>>
<1> USE DEF CalmStep
<1> DEFINE a == acc[t]
           b == acc'[t]
<1>0. Typed(a) /\ Local(a) /\ Facts(a) /\ acc = [u \in Accessors |-> acc[u]]
  BY Reads DEF IInv, TypeOK, Locals, ListInv
<1>1. CASE InsertNew(t) \/ InsertFound(t) \/ InsertNotFound(t)
  BY <1>1, InsertSearchSet
<1>2. CASE InsertLink(t)
  BY <1>2, InsertLinkSet
<1>3. CASE ~(InsertNew(t) \/ InsertFound(t) \/ InsertNotFound(t) \/ InsertLink(t))
  <2>1. Items' = Items
    BY <1>3, InsertCountList, ScanHeadList, ScanAdvanceList, ScanDoneList, OverflowList,
       ExpandCopyList, ExpandSwapList, ExpandSizeList, SameItems DEF InsertStep
  <2>2. a.pc \in {"count", "scan_head", "scan_loop", "overflow", "expand", "expand_swap", "expand_size"}
    BY <1>3 DEF InsertStep, InsertCount, ScanHead, ScanAdvance, ScanDone, Overflow,
                ExpandCopy, ExpandSwap, ExpandSize, At
  <2>3. a.op = "insert" /\ Linked(a) /\ a.pc # "find_loop"
    BY <1>0, <2>2 DEF Facts, CallFacts, Linked
  <2> DEFINE After == /\ b.op = a.op /\ b.hashv = a.hashv
                      /\ Linked(b) /\ b.pc # "find_loop"
  <2>4. CASE InsertCount(t)
    <3>1. After
      BY <1>0, <2>4 DEF InsertCount, Typed, Accessor, Linked
    <3> QED BY <2>1, <2>3, <3>1, InsertedSet
  <2>5. CASE ScanHead(t)
    <3>1. After
      BY <1>0, <2>5 DEF ScanHead, Typed, Accessor, Linked
    <3> QED BY <2>1, <2>3, <3>1, InsertedSet
  <2>6. CASE ScanAdvance(t)
    <3>1. After
      BY <1>0, <2>6 DEF ScanAdvance, Advanced, Typed, Accessor, Linked, At
    <3> QED BY <2>1, <2>3, <3>1, InsertedSet
  <2>7. CASE ScanDone(t)
    <3>1. CASE b = IdleAccessor
      BY <2>1, <2>3, <3>1, InsertedSet
    <3>2. CASE b # IdleAccessor
      <4> DEFINE s == a.hashv % n_buckets
      <4>1. acc' = [acc EXCEPT ![t].slot = s, ![t].pc = "overflow"]
        BY <1>0, <2>7, <3>2 DEF ScanDone, Return
      <4> HIDE DEF s
      <4>2. After
        BY <1>0, <4>1 DEF Typed, Accessor, Linked
      <4> QED BY <2>1, <2>3, <4>2, InsertedSet
    <3> QED BY <3>1, <3>2
  <2>8. CASE Overflow(t)
    <3> DEFINE s == (a.slot + a.nbuckets \div 2) % Modulus
    <3>1. \/ acc' = [acc EXCEPT ![t].pc = "expand"]
          \/ acc' = [acc EXCEPT ![t].bslot = s, ![t].ret = "idle", ![t].pc = "init_enter"]
          \/ acc' = [acc EXCEPT ![t] = IdleAccessor]
      BY <2>8 DEF Overflow, Return
    <3> HIDE DEF s
    <3>2. CASE acc' = [acc EXCEPT ![t].pc = "expand"]
      <4>1. After
        BY <1>0, <3>2 DEF Typed, Accessor, Linked
      <4> QED BY <2>1, <2>3, <4>1, InsertedSet
    <3>3. CASE acc' = [acc EXCEPT ![t].bslot = s, ![t].ret = "idle", ![t].pc = "init_enter"]
      <4>1. After
        BY <1>0, <3>3 DEF Typed, Accessor, Linked
      <4> QED BY <2>1, <2>3, <4>1, InsertedSet
    <3>4. CASE acc' = [acc EXCEPT ![t] = IdleAccessor]
      <4>1. b = IdleAccessor
        BY <1>0, <3>4
      <4> QED BY <2>1, <2>3, <4>1, InsertedSet
    <3> QED BY <3>1, <3>2, <3>3, <3>4
  <2>9. CASE ExpandCopy(t)
    <3> DEFINE array == copy_of_buckets
               s == (a.slot + a.nbuckets) % Modulus
    <3>1. \/ acc' = [acc EXCEPT ![t] = [a EXCEPT !.new_buckets = array, !.pc = "expand_swap"]]
          \/ acc' = [acc EXCEPT ![t] = [a EXCEPT !.bslot = s, !.ret = "idle",
                                                 !.new_buckets = NoArray, !.pc = "init_enter"]]
      BY <2>9 DEF ExpandCopy, Expanded
    <3> HIDE DEF array, s
    <3>2. After
      <4>1. CASE acc' = [acc EXCEPT ![t] = [a EXCEPT !.new_buckets = array, !.pc = "expand_swap"]]
        BY <1>0, <4>1 DEF Typed, Accessor, Linked
      <4>2. CASE acc' = [acc EXCEPT ![t] = [a EXCEPT !.bslot = s, !.ret = "idle",
                                                     !.new_buckets = NoArray, !.pc = "init_enter"]]
        BY <1>0, <4>2 DEF Typed, Accessor, Linked
      <4> QED BY <3>1, <4>1, <4>2
    <3> QED BY <2>1, <2>3, <3>2, InsertedSet
  <2>10. CASE ExpandSwap(t)
    <3>1. After
      BY <1>0, <2>10 DEF ExpandSwap, Typed, Accessor, Linked
    <3> QED BY <2>1, <2>3, <3>1, InsertedSet
  <2>11. CASE ExpandSize(t)
    <3> DEFINE s == (a.slot + a.nbuckets) % Modulus
    <3>1. acc' = [acc EXCEPT ![t] = [a EXCEPT !.bslot = s, !.ret = "idle",
                                              !.new_buckets = NoArray, !.pc = "init_enter"]]
      BY <2>11 DEF ExpandSize, Expanded
    <3> HIDE DEF s
    <3>2. After
      BY <1>0, <3>1 DEF Typed, Accessor, Linked
    <3> QED BY <2>1, <2>3, <3>2, InsertedSet
  <2> QED BY <1>3, <2>4, <2>5, <2>6, <2>7, <2>8, <2>9, <2>10, <2>11 DEF InsertStep
<1> QED BY <1>1, <1>2, <1>3

(* The CAS that unlinks the node removes the item. *)
LEMMA DeleteUnlinkSet ==
  ASSUME NEW t, CalmStep(t), DeleteUnlink(t), EvenHashes
  PROVE  Set!Next \/ UNCHANGED <<Items, Calls>>
<1> USE DEF CalmStep
<1> DEFINE a == acc[t]
           b == acc'[t]
           c == a.cur
           h == a.hashv
<1>1. /\ Typed(a) /\ Facts(a) /\ a.pc = "unlink" /\ a.op = "delete"
      /\ h \in Hashes /\ c \in Listed /\ key(c) = sol_node_key(h)
  <2>1. Typed(a) /\ Local(a) /\ Facts(a) /\ a.pc = "unlink"
    BY Reads DEF IInv, Locals, ListInv, DeleteUnlink, At
  <2> QED BY <2>1 DEF Local, Facts, CallFacts, SearchFacts
<1>2. Answer(a) = NONE
  BY <1>1, Answers
<1>3. c.kind = "node" /\ c.hashv = h
  BY <1>1, NodeWithKey
<1>4. CASE Unlinks(a)
  <2>1. b = [a EXCEPT !.pc = "uncount"] /\ ListInv' /\ Listed' = Listed \ {c}
    BY <1>4, DeleteUnlinkList
  <2>2. b.pc = "uncount" /\ b.op = "delete" /\ b.hashv = h
    BY <1>1, <2>1 DEF Typed, Accessor
  <2>3. h \in Items
    BY <1>1, <1>3, ItemNodes DEF IInv
  <2>4. Items' = Items \ {h}
    <3>1. Reachable = Listed /\ Reachable' = Listed'
      BY <2>1, ReachableListed, ReachableListedNext DEF IInv
    <3>2. \A n \in Listed : n.kind = "node" /\ n.hashv = h => n = c
      BY <1>1, <1>3 DEF ListInv, SplitOrdered, key
    <3>3. \A g : g \in Items <=> \E n \in Listed : n.kind = "node" /\ n.hashv = g
      BY <3>1 DEF Items
    <3>4. \A g : g \in Items' <=> \E n \in Listed \ {c} : n.kind = "node" /\ n.hashv = g
      BY <2>1, <3>1 DEF Items
    <3> QED BY <1>3, <3>2, <3>3, <3>4
  <2>5. Answer(b) = (h \in Items)
    <3>1. Answer(b) = TRUE
      BY <2>2, Answers
    <3>2. (h \in Items) = TRUE
      BY <2>3
    <3> QED BY <3>1, <3>2
  <2> QED BY <1>1, <1>2, <2>2, <2>4, <2>5, SetApply
<1>5. CASE ~Unlinks(a)
  <2>1. b = [a EXCEPT !.pc = "find"] /\ ListInv' /\ Listed' = Listed
    BY <1>5, DeleteUnlinkList
  <2>2. b.pc = "find" /\ b.op = a.op /\ b.hashv = a.hashv
    BY <1>1, <2>1 DEF Typed, Accessor
  <2>3. AbstractCall(b) = AbstractCall(a)
    BY <1>1, <2>2, SameAnswer
  <2> QED BY <2>1, <2>3, SameItems, SetStutter
<1> QED BY <1>4, <1>5

(* A step of delete_node is a step of the set, or none. *)
LEMMA DeleteStepSet ==
  ASSUME NEW t, CalmStep(t), DeleteStep(t), EvenHashes
  PROVE  Set!Next \/ UNCHANGED <<Items, Calls>>
<1> USE DEF CalmStep
<1> DEFINE a == acc[t]
           b == acc'[t]
<1>0. Typed(a) /\ Local(a) /\ Facts(a) /\ acc = [u \in Accessors |-> acc[u]]
  BY Reads DEF IInv, TypeOK, Locals, ListInv
<1>1. CASE DeleteNotFound(t)
  <2>1. a.op = "delete" /\ a.pc = "find_loop" /\ ~NotPast(a) /\ ~Found(a) /\ b = IdleAccessor
    BY <1>0, <1>1 DEF DeleteNotFound, At, Return
  <2>2. Settled(a) /\ ~SettledFound(a) /\ a.ret = "none"
    BY <2>1, SearchDone DEF At
  <2>3. Answer(a) = FALSE
    BY <2>1, <2>2, SearchAnswers
  <2>4. Items' = Items
    BY <1>1, DeleteNotFoundList, SameItems
  <2> QED BY <2>1, <2>3, <2>4, SetReturn, NoneAssumption
<1>2. CASE DeleteFound(t)
  <2>1. a.op = "delete" /\ a.pc = "find_loop" /\ ~NotPast(a) /\ Found(a)
    BY <1>2 DEF DeleteFound, At
  <2>2. Settled(a) /\ SettledFound(a) /\ a.ret = "none"
    BY <2>1, SearchDone DEF At
  <2>3. Answer(a) = NONE
    BY <2>1, <2>2, SearchAnswers
  <2>4. b.pc = "mark" /\ b.op = a.op /\ b.hashv = a.hashv
    BY <1>0, <1>2 DEF DeleteFound, Typed, Accessor
  <2>5. Answer(b) = NONE
    BY <2>1, <2>4, Answers
  <2>6. AbstractCall(b) = AbstractCall(a)
    BY <2>3, <2>4, <2>5, SameCallPending
  <2>7. Items' = Items
    BY <1>2, DeleteFoundList, SameItems
  <2> QED BY <2>6, <2>7, SetStutter
<1>3. CASE DeleteMark(t)
  <2>1. a.pc = "mark" /\ a.op = "delete"
    BY <1>0, <1>3 DEF DeleteMark, At, Local
  <2>2. b.pc \in {"unlink", "find"} /\ b.op = a.op /\ b.hashv = a.hashv
    BY <1>0, <1>3 DEF DeleteMark, TryAgain, Typed, Accessor
  <2>3. AbstractCall(b) = AbstractCall(a)
    BY <2>1, <2>2, SameAnswer
  <2>4. Items' = Items
    BY <1>3, DeleteMarkList, SameItems
  <2> QED BY <2>3, <2>4, SetStutter
<1>4. CASE DeleteUnlink(t)
  BY <1>4, DeleteUnlinkSet
<1>5. CASE DeleteReclaim(t)
  <2>1. a.pc = "reclaim" /\ a.op = "delete" /\ b = IdleAccessor
    BY <1>0, <1>5 DEF DeleteReclaim, At, Local, Return
  <2>2. Answer(a) = TRUE
    BY <2>1, Answers
  <2>3. Items' = Items
    BY <1>5, DeleteReclaimList, SameItems
  <2> QED BY <2>1, <2>2, <2>3, SetReturn, NoneAssumption
<1>6. CASE DeleteCount(t)
  <2>1. a.pc = "uncount" /\ a.op = "delete"
    BY <1>0, <1>6 DEF DeleteCount, At, Local
  <2>2. b.pc = "reclaim" /\ b.op = a.op /\ b.hashv = a.hashv
    BY <1>0, <1>6 DEF DeleteCount, Typed, Accessor
  <2>3. Answer(a) = TRUE /\ Answer(b) = TRUE
    BY <2>1, <2>2, Answers
  <2>4. AbstractCall(b) = AbstractCall(a)
    BY <2>2, <2>3 DEF AbstractCall
  <2>5. Items' = Items
    BY <1>6, DeleteCountList, SameItems
  <2> QED BY <2>4, <2>5, SetStutter
<1> QED BY <1>1, <1>2, <1>3, <1>4, <1>5, <1>6 DEF DeleteStep

(* A call becomes a call of the set, unless it initialises a bucket. *)
LEMMA CallSet ==
  ASSUME NEW t, CalmStep(t), NEW op \in Ops, NEW h \in Hashes, Call(t, op, h)
  PROVE  Set!Next
<1> USE DEF CalmStep
<1> DEFINE a == acc[t]
           b == acc'[t]
<1>1. Typed(a) /\ Facts(a) /\ a.pc = "idle" /\ acc = [u \in Accessors |-> acc[u]]
  BY Reads DEF IInv, TypeOK, ListInv, Call, At
<1>2. a.op = "none" /\ a.ret = "none"
  BY <1>1 DEF Facts, CallFacts, Initialising
<1>3. /\ b.op = op /\ b.hashv = h /\ b.ret = "none" /\ b.pc \in {"insert_new", "find"}
      /\ op \in Ops \ {"init"}
  BY <1>1, <1>2 DEF Call, Typed, Accessor
<1>4. op \notin {"none", "init"}
  BY <1>3, OpsAssumption
<1>5. Answer(b) = NONE
  BY <1>3, Answers DEF Linked
<1>6. AbstractCall(b) = [op |-> op, hashv |-> h, ans |-> NONE]
  BY <1>3, <1>4, <1>5 DEF AbstractCall
<1>7. Calls[t] = Set!Idle
  BY <1>2, IdleCall DEF Calls
<1>8. Calls' = [Calls EXCEPT ![t] = [op |-> op, hashv |-> h, ans |-> NONE]]
  BY <1>6, OneCall
<1>9. Items' = Items
  BY CallList, SameItems
<1>10. Set!Call(t, op, h)
  BY <1>7, <1>8, <1>9 DEF Set!Call, Calls
<1> QED BY <1>3, <1>10 DEF Set!Next

(* A call of initialise_bucket is no call of the set. *)
LEMMA InitCallSet ==
  ASSUME NEW t, CalmStep(t), NEW s \in 0 .. n_buckets - 1, InitCall(t, s)
  PROVE  UNCHANGED <<Items, Calls>>
<1> USE DEF CalmStep
<1> DEFINE a == acc[t]
           b == acc'[t]
<1>1. Typed(a) /\ Facts(a) /\ a.pc = "idle" /\ acc = [u \in Accessors |-> acc[u]]
  BY Reads DEF IInv, TypeOK, ListInv, InitCall, At
<1>2. a.op = "none" /\ b.op = "init"
  BY <1>1 DEF Facts, CallFacts, InitCall, Typed, Accessor
<1>3. AbstractCall(b) = AbstractCall(a)
  BY <1>2, IdleCall
<1>4. Items' = Items
  BY InitCallList, SameItems
<1> QED BY <1>3, <1>4, SetStutter

(* The list is empty at first. *)
LEMMA InitSet ==
  ASSUME PowerOfTwoSize, Init
  PROVE  Set!Init
<1>1. ListInv /\ TypeOK
  BY InitList, InitInvariant DEF IInv
<1>2. Items = {}
  <2>1. Listed \subseteq {Head}
    BY DEF Listed, live, Init
  <2>2. Head.kind # "node"
    BY DEF Head
  <2>3. \A h : h \notin Items
    BY <1>1, <2>1, <2>2, ItemNodes
  <2> QED BY <2>3
<1>3. Calls = [t \in Accessors |-> Set!Idle]
  BY IdleKnows, IdleCall DEF Calls, Init
<1> QED BY <1>2, <1>3 DEF Set!Init, Calls

(* Every insert, delete and find is one atomic operation of a set, with    *)
(* the answer the set would give, for any number of threads that insert    *)
(* and search at once: the CAS or the read of the next pointer at which it *)
(* takes effect is between its call and its return.                        *)
THEOREM Linearizable ==
  ASSUME PowerOfTwoSize, EvenHashes
  PROVE  Spec /\ []Calm => ImplementsSet
<1>1. Init => Set!Init
  BY InitSet
<1>2. IInv /\ IInv' /\ ListInv /\ Calm /\ Calm' /\ [Next]_vars =>
        [Set!Next]_<<Items, [t \in Accessors |-> AbstractCall(acc[t])]>>
  <2> SUFFICES ASSUME IInv, IInv', ListInv, Calm, Calm', [Next]_vars
               PROVE  Set!Next \/ UNCHANGED <<Items, Calls>>
    BY DEF Calls
  <2>1. ASSUME UNCHANGED <<n_buckets, buckets, link, acc>>
        PROVE  UNCHANGED <<Items, Calls>>
    <3>1. Calls' = Calls
      BY <2>1 DEF Calls, AbstractCall, Answer, Settled, SettledFound, Linked, Found
    <3>2. Reachable = Listed /\ Reachable' = Listed' /\ Listed' = Listed
      BY <2>1, SameList, ReachableListed, ReachableListedNext DEF IInv
    <3> QED BY <3>1, <3>2 DEF Items
  <2>2. CASE UNCHANGED vars
    BY <2>1, <2>2 DEF vars
  <2>3. CASE Next
    <3>1. ASSUME NEW t \in Accessors, Abort(t) PROVE UNCHANGED <<Items, Calls>>
      BY <2>1, <3>1 DEF Abort
    <3>2. ASSUME NEW t, CalmStep(t), InCall(t) PROVE Set!Next \/ UNCHANGED <<Items, Calls>>
      BY <3>2, InitStepSet, FindStepSet, InsertStepSet, DeleteStepSet DEF InCall
    <3> QED BY <2>3, <3>1, <3>2, CalmSteps, CallSet, InitCallSet
  <2> QED BY <2>2, <2>3
<1> QED BY <1>1, <1>2, Invariance, ListInvariance, PTL DEF Spec, ImplementsSet, Set!Spec

-----------------------------------------------------------------------------
(***************************************************************************)
(* The number of items.                                                    *)
(***************************************************************************)
(* A remainder is unique. *)
LEMMA Remainder ==
  ASSUME NEW M \in Nat \ {0}, NEW y \in Int, NEW q \in Int, NEW r \in 0 .. M - 1, y = q * M + r
  PROVE  y % M = r
<1> DEFINE p == y \div M
           s == y % M
<1>1. y = M * p + s /\ p \in Int /\ s \in 0 .. M - 1
  OBVIOUS
<1> HIDE DEF p, s
<1> DEFINE d == q - p
<1>2. d \in Int /\ d * M = s - r
  BY <1>1
<1> HIDE DEF d
<1>3. ~(d >= 1)
  <2>1. d >= 1 => d * M >= M
    BY <1>2
  <2> QED BY <1>1, <1>2, <2>1
<1>4. ~(d <= -1)
  <2>1. d <= -1 => d * M <= -M
    BY <1>2
  <2> QED BY <1>1, <1>2, <2>1
<1>5. d = 0
  BY <1>2, <1>3, <1>4
<1>6. s = r
  BY <1>1, <1>2, <1>5
<1> QED BY <1>6 DEF s

(* The counter wraps in both directions. *)
LEMMA Wraps ==
  ASSUME TypeOK
  PROVE  /\ inc_item_count \in Int /\ dec_item_count \in Int
         /\ \E j \in Int : inc_item_count = n_items + 1 + j * Modulus
         /\ \E j \in Int : dec_item_count = n_items - 1 + j * Modulus
<1> DEFINE M == Modulus
           x == n_items
<1>1. M \in Nat \ {0} /\ x \in 0 .. M - 1
  BY SizeAssumption DEF TypeOK, HashValues
<1>2. inc_item_count = (x + 1) % M /\ dec_item_count = (x - 1) % M
  BY DEF inc_item_count, dec_item_count
<1> HIDE DEF M, x
<1>3. \A y \in Int : y % M \in Int /\ y \div M \in Int /\ y % M = y + (-(y \div M)) * M
  <2> SUFFICES ASSUME NEW y \in Int
               PROVE  y % M \in Int /\ y \div M \in Int /\ y % M = y + (-(y \div M)) * M
    OBVIOUS
  <2>1. y = M * (y \div M) + (y % M) /\ y % M \in Int /\ y \div M \in Int
    BY <1>1
  <2> DEFINE p == y \div M
             s == y % M
  <2> HIDE DEF p, s
  <2>2. y = M * p + s /\ p \in Int /\ s \in Int
    BY <2>1 DEF p, s
  <2>3. s = y + (-p) * M
    BY <1>1, <2>2
  <2> QED BY <2>1, <2>3 DEF p, s
<1>4. x + 1 \in Int /\ x - 1 \in Int
  BY <1>1
<1>5. \E j \in Int : (x + 1) % M = x + 1 + j * M
  <2>1. -((x + 1) \div M) \in Int
    BY <1>3, <1>4
  <2> QED BY <1>3, <1>4, <2>1
<1>6. \E j \in Int : (x - 1) % M = x - 1 + j * M
  <2>1. -((x - 1) \div M) \in Int
    BY <1>3, <1>4
  <2> QED BY <1>3, <1>4, <2>1
<1>7. (x + 1) % M \in Int /\ (x - 1) % M \in Int
  BY <1>3, <1>4
<1> QED BY <1>2, <1>5, <1>6, <1>7 DEF M, x

(* The counts before and after the counter is moved. *)
LEMMA Balance ==
  ASSUME NEW x \in Int, NEW c \in Int, NEW d \in Int, NEW r \in Int,
         NEW k \in Int, NEW j \in Int, NEW M \in Int, x + c = d + r + k * M
  PROVE  /\ (x + 1 + j * M) + (c - 1) = d + r + (k + j) * M
         /\ (x - 1 + j * M) + c = d + (r - 1) + (k + j) * M
<1>1. k * M \in Int /\ j * M \in Int /\ (k + j) * M = k * M + j * M
  OBVIOUS
<1> QED BY <1>1

(* Linked and not counted yet, unlinked and still counted. *)
Counting == {t \in Accessors : At(t, "count")}
Uncounting == {t \in Accessors : At(t, "uncount")}
Data == {n \in Listed : n.kind = "node"}

CountInv ==
  /\ IsFiniteSet(Counting) /\ IsFiniteSet(Uncounting)
  /\ \E k \in Int :
       n_items + Cardinality(Counting) = Cardinality(Data) + Cardinality(Uncounting) + k * Modulus

(* The data nodes of the list can be counted. *)
LEMMA DataFinite ==
  ASSUME TypeOK
  PROVE  IsFiniteSet(Data) /\ Cardinality(Data) \in Nat
<1>1. Data \in SUBSET Node
  BY DEF Data, Listed, TypeOK
<1> QED BY <1>1, NodeFinite, FS_Subset, FS_CardinalityType

(* There is one data node for each item. *)
LEMMA DataItems ==
  ASSUME IInv, ListInv
  PROVE  Cardinality(Items) = Cardinality(Data)
<1> DEFINE f == [n \in Data |-> n.hashv]
<1>1. Items = {n.hashv : n \in Data}
  BY ReachableListed DEF Items, Data, IInv
<1>2. \A n, m \in Data : n.hashv = m.hashv => n = m
  BY DEF Data, ListInv, SplitOrdered, key
<1>3. f \in Bijection(Data, Items)
  BY <1>1, <1>2 DEF Bijection, Injection, Surjection, IsInjective
<1> QED BY <1>3, DataFinite, FS_Bijection DEF ExistsBijection, IInv

(* With no call under way the counter is the number of items. *)
LEMMA CountExactHolds ==
  ASSUME IInv, ListInv, CountInv
  PROVE  CountExact
<1> SUFFICES ASSUME Quiescent PROVE n_items = Cardinality(Items) % Modulus
  BY DEF CountExact
<1>1. Counting = {} /\ Uncounting = {}
  BY DEF Quiescent, Counting, Uncounting, At
<1>2. Cardinality({}) = 0
  BY FS_EmptySet
<1> DEFINE c == Cardinality(Data)
           M == Modulus
           x == n_items
<1>3. c \in Nat /\ M \in Nat \ {0} /\ x \in 0 .. M - 1
  BY SizeAssumption, DataFinite DEF IInv, TypeOK, HashValues
<1>4. PICK k \in Int : x + 0 = c + 0 + k * M
  BY <1>1, <1>2 DEF CountInv
<1> HIDE DEF c, M, x
<1>5. c = (-k) * M + x /\ -k \in Int /\ c \in Int
  BY <1>3, <1>4
<1>6. c % M = x
  BY <1>3, <1>5, Remainder
<1> QED BY <1>6, DataItems DEF c, M, x

(* A step that does not count. *)
LEMMA CountSame ==
  ASSUME CountInv, n_items' = n_items, Data' = Data, Counting' = Counting, Uncounting' = Uncounting
  PROVE  CountInv'
BY DEF CountInv

(* A step that neither counts nor changes the data nodes. *)
LEMMA CountOther ==
  ASSUME NEW t, CalmStep(t), CountInv, n_items' = n_items,
         \A n : n.kind = "node" => (n \in Listed' <=> n \in Listed),
         acc[t].pc \notin {"count", "uncount"}, acc'[t].pc \notin {"count", "uncount"}
  PROVE  CountInv'
<1>1. Data' = Data
  BY DEF Data
<1>2. Counting' = Counting /\ Uncounting' = Uncounting
  BY DEF Counting, Uncounting, At, CalmStep
<1> QED BY <1>1, <1>2, CountSame

(* The sets after the step of one accessor. *)
LEMMA CountSets ==
  ASSUME NEW t, CalmStep(t), CountInv
  PROVE  /\ Counting' = IF acc'[t].pc = "count" THEN Counting \cup {t} ELSE Counting \ {t}
         /\ Uncounting' = IF acc'[t].pc = "uncount" THEN Uncounting \cup {t} ELSE Uncounting \ {t}
         /\ t \in Counting <=> acc[t].pc = "count"
         /\ t \in Uncounting <=> acc[t].pc = "uncount"
         /\ IsFiniteSet(Counting) /\ IsFiniteSet(Uncounting) /\ IsFiniteSet(Data)
         /\ Cardinality(Counting) \in Nat /\ Cardinality(Uncounting) \in Nat
         /\ Cardinality(Data) \in Nat /\ n_items \in Int /\ Modulus \in Int
<1>1. Counting' = IF acc'[t].pc = "count" THEN Counting \cup {t} ELSE Counting \ {t}
  BY DEF Counting, At, CalmStep
<1>2. Uncounting' = IF acc'[t].pc = "uncount" THEN Uncounting \cup {t} ELSE Uncounting \ {t}
  BY DEF Uncounting, At, CalmStep
<1>3. (t \in Counting <=> acc[t].pc = "count") /\ (t \in Uncounting <=> acc[t].pc = "uncount")
  BY DEF Counting, Uncounting, At, CalmStep
<1>4. n_items \in Int /\ Modulus \in Int
  BY SizeAssumption DEF CalmStep, IInv, TypeOK, HashValues
<1>5. /\ IsFiniteSet(Counting) /\ IsFiniteSet(Uncounting) /\ IsFiniteSet(Data)
      /\ Cardinality(Counting) \in Nat /\ Cardinality(Uncounting) \in Nat /\ Cardinality(Data) \in Nat
  BY DataFinite, FS_CardinalityType DEF CalmStep, IInv, CountInv
<1> QED BY <1>1, <1>2, <1>3, <1>4, <1>5

(* The four steps that count. *)
LEMMA CountInsertLink ==
  ASSUME NEW t, CalmStep(t), CountInv, InsertLink(t)
  PROVE  CountInv'
<1> USE DEF CalmStep
<1> DEFINE a == acc[t]
           b == acc'[t]
           d == a.dnode
<1>1. Typed(a) /\ a.pc = "link" /\ a.op = "insert" /\ d.kind = "node"
  BY Reads DEF IInv, Locals, Local, InsertLink, At
<1>2. n_items' = n_items
  BY DEF InsertLink
<1>3. CASE CASMatches(link[a.cur], a.next)
  <2>1. /\ b = [a EXCEPT !.pc = "count"]
        /\ Listed' = Listed \cup {d} /\ d \notin Listed
    BY <1>3, InsertLinkList
  <2>2. b.pc = "count"
    BY <1>1, <2>1 DEF Typed, Accessor
  <2>3. Data' = Data \cup {d} /\ d \notin Data
    BY <1>1, <2>1 DEF Data
  <2>4. Counting' = Counting \cup {t} /\ t \notin Counting /\ Uncounting' = Uncounting
    BY <1>1, <2>2, CountSets
  <2>5. /\ Cardinality(Data') = Cardinality(Data) + 1
        /\ Cardinality(Counting') = Cardinality(Counting) + 1 /\ IsFiniteSet(Counting')
    BY <2>3, <2>4, CountSets, FS_AddElement
  <2>6. PICK k \in Int : n_items + Cardinality(Counting)
                          = Cardinality(Data) + Cardinality(Uncounting) + k * Modulus
    BY DEF CountInv
  <2>7. n_items' + Cardinality(Counting') = Cardinality(Data') + Cardinality(Uncounting') + k * Modulus
    <3> DEFINE m == k * Modulus
    <3>1. m \in Int
      BY CountSets
    <3> HIDE DEF m
    <3> QED BY <1>2, <2>4, <2>5, <2>6, <3>1, CountSets DEF m
  <2> QED BY <2>4, <2>5, <2>7, CountSets DEF CountInv
<1>4. CASE ~CASMatches(link[a.cur], a.next)
  <2>1. b = [a EXCEPT !.pc = "find"] /\ Listed' = Listed
    BY <1>4, InsertLinkList
  <2>2. b.pc = "find"
    BY <1>1, <2>1 DEF Typed, Accessor
  <2> QED BY <1>1, <1>2, <2>1, <2>2, CountOther
<1> QED BY <1>3, <1>4

(* insert_node counts the node it has linked. *)
LEMMA CountInsertCount ==
  ASSUME NEW t, CalmStep(t), CountInv, InsertCount(t)
  PROVE  CountInv'
<1> USE DEF CalmStep
<1>1. acc[t].pc = "count" /\ acc'[t].pc = "scan_head"
  BY Reads DEF InsertCount, At, IInv, TypeOK, Typed, Accessor
<1>2. Data' = Data
  BY InsertCountList DEF Data
<1>3. Counting' = Counting \ {t} /\ t \in Counting /\ Uncounting' = Uncounting
  BY <1>1, CountSets
<1>4. Cardinality(Counting') = Cardinality(Counting) - 1 /\ IsFiniteSet(Counting')
  BY <1>3, CountSets, FS_RemoveElement
<1>5. PICK k \in Int : n_items + Cardinality(Counting)
                        = Cardinality(Data) + Cardinality(Uncounting) + k * Modulus
  BY DEF CountInv
<1>6. PICK j \in Int : n_items' = n_items + 1 + j * Modulus
  BY Wraps DEF InsertCount, IInv
<1>7. n_items' + Cardinality(Counting')
        = Cardinality(Data') + Cardinality(Uncounting') + (k + j) * Modulus
  <2>1. /\ n_items \in Int /\ Modulus \in Int /\ Cardinality(Counting) \in Int
        /\ Cardinality(Data) \in Int /\ Cardinality(Uncounting) \in Int
    BY CountSets
  <2>2. (n_items + 1 + j * Modulus) + (Cardinality(Counting) - 1)
          = Cardinality(Data) + Cardinality(Uncounting) + (k + j) * Modulus
    BY <1>5, <2>1, Balance
  <2> QED BY <1>2, <1>3, <1>4, <1>6, <2>2
<1>8. k + j \in Int
  OBVIOUS
<1> QED BY <1>3, <1>4, <1>7, <1>8, CountSets DEF CountInv

(* delete_node unlinks a node that is still counted. *)
LEMMA CountDeleteUnlink ==
  ASSUME NEW t, CalmStep(t), CountInv, DeleteUnlink(t)
  PROVE  CountInv'
<1> USE DEF CalmStep
<1> DEFINE a == acc[t]
           b == acc'[t]
           c == a.cur
<1>1. Typed(a) /\ a.pc = "unlink" /\ c.kind = "node"
  BY Reads DEF IInv, Locals, Local, DeleteUnlink, At
<1>2. n_items' = n_items
  BY DEF DeleteUnlink
<1>3. CASE Unlinks(a)
  <2>1. /\ b = [a EXCEPT !.pc = "uncount"]
        /\ Listed' = Listed \ {c} /\ c \in Listed
    BY <1>3, DeleteUnlinkList
  <2>2. b.pc = "uncount"
    BY <1>1, <2>1 DEF Typed, Accessor
  <2>3. Data' = Data \ {c} /\ c \in Data
    BY <1>1, <2>1 DEF Data
  <2>4. Uncounting' = Uncounting \cup {t} /\ t \notin Uncounting /\ Counting' = Counting
    BY <1>1, <2>2, CountSets
  <2>5. /\ Cardinality(Data') = Cardinality(Data) - 1
        /\ Cardinality(Uncounting') = Cardinality(Uncounting) + 1 /\ IsFiniteSet(Uncounting')
    <3>1. Cardinality(Data') = Cardinality(Data) - 1
      BY <2>3, CountSets, FS_RemoveElement
    <3>2. Cardinality(Uncounting') = Cardinality(Uncounting) + 1 /\ IsFiniteSet(Uncounting')
      BY <2>4, CountSets, FS_AddElement
    <3> QED BY <3>1, <3>2
  <2>6. PICK k \in Int : n_items + Cardinality(Counting)
                          = Cardinality(Data) + Cardinality(Uncounting) + k * Modulus
    BY DEF CountInv
  <2>7. n_items' + Cardinality(Counting') = Cardinality(Data') + Cardinality(Uncounting') + k * Modulus
    <3> DEFINE m == k * Modulus
    <3>1. m \in Int
      BY CountSets
    <3> HIDE DEF m
    <3> QED BY <1>2, <2>4, <2>5, <2>6, <3>1, CountSets DEF m
  <2> QED BY <2>4, <2>5, <2>7, CountSets DEF CountInv
<1>4. CASE ~Unlinks(a)
  <2>1. b = [a EXCEPT !.pc = "find"] /\ Listed' = Listed
    BY <1>4, DeleteUnlinkList
  <2>2. b.pc = "find"
    BY <1>1, <2>1 DEF Typed, Accessor
  <2> QED BY <1>1, <1>2, <2>1, <2>2, CountOther
<1> QED BY <1>3, <1>4

(* delete_node takes back the count of the node it has unlinked. *)
LEMMA CountDeleteCount ==
  ASSUME NEW t, CalmStep(t), CountInv, DeleteCount(t)
  PROVE  CountInv'
<1> USE DEF CalmStep
<1>1. acc[t].pc = "uncount" /\ acc'[t].pc = "reclaim"
  BY Reads DEF DeleteCount, At, IInv, TypeOK, Typed, Accessor
<1>2. Data' = Data
  BY DeleteCountList DEF Data
<1>3. Uncounting' = Uncounting \ {t} /\ t \in Uncounting /\ Counting' = Counting
  BY <1>1, CountSets
<1>4. Cardinality(Uncounting') = Cardinality(Uncounting) - 1 /\ IsFiniteSet(Uncounting')
  BY <1>3, CountSets, FS_RemoveElement
<1>5. PICK k \in Int : n_items + Cardinality(Counting)
                        = Cardinality(Data) + Cardinality(Uncounting) + k * Modulus
  BY DEF CountInv
<1>6. PICK j \in Int : n_items' = n_items - 1 + j * Modulus
  BY Wraps DEF DeleteCount, IInv
<1>7. n_items' + Cardinality(Counting')
        = Cardinality(Data') + Cardinality(Uncounting') + (k + j) * Modulus
  <2>1. /\ n_items \in Int /\ Modulus \in Int /\ Cardinality(Counting) \in Int
        /\ Cardinality(Data) \in Int /\ Cardinality(Uncounting) \in Int
    BY CountSets
  <2> QED BY <1>2, <1>3, <1>4, <1>5, <1>6, <2>1, Balance
<1>8. k + j \in Int
  OBVIOUS
<1> QED BY <1>3, <1>4, <1>7, <1>8, CountSets DEF CountInv

(* All the other steps leave the counts alone. *)
LEMMA CountInit ==
  ASSUME NEW t, CalmStep(t), CountInv, InitStep(t)
  PROVE  CountInv'
<1> USE DEF CalmStep
<1>1. n_items' = n_items
  BY DEF InitStep, InitEnter, GetParent, Probe, ParentHead, ParentAdvance, InitTest,
         InitCas, InitFinish, InitCheck, InitOwn, InitOther, InitDiscard, InitAssert
<1>2. acc[t].pc \notin {"count", "uncount"}
  BY DEF InitStep, InitEnter, GetParent, Probe, ParentHead, ParentAdvance, InitTest,
         InitCas, InitFinish, InitCheck, InitOwn, InitOther, InitDiscard, InitAssert, At
<1>3. acc'[t].pc \notin {"count", "uncount"}
  <2>1. CASE ~InitAssert(t) /\ (~InitEnter(t) \/ ~UNCHANGED link)
    BY <2>1, InitKeeps DEF Initialising
  <2>2. CASE InitAssert(t) \/ (InitEnter(t) /\ UNCHANGED link)
    <3>1. acc'[t] = InitReturned(acc[t])
      <4>1. CASE InitAssert(t)
        BY <4>1 DEF InitAssert, IInv, TypeOK
      <4>2. CASE InitEnter(t) /\ UNCHANGED link
        <5> DEFINE s == acc[t].bslot
                   n == NewNode("bucket", s)
        <5>1. ~(Unused("bucket", s) # {} /\ Allocate(n))
          <6> SUFFICES ASSUME Unused("bucket", s) # {}, Allocate(n) PROVE FALSE
            OBVIOUS
          <6>1. s \in HashValues
            BY Reads DEF IInv, Typed, Accessor
          <6>2. n \notin live
            BY <6>1, NewNodeFresh
          <6> HIDE DEF n
          <6>3. DOMAIN link' = live \cup {n}
            BY DEF Allocate
          <6> QED BY <4>2, <6>2, <6>3 DEF live
        <5> QED BY <4>2, <5>1 DEF InitEnter, IInv, TypeOK
      <4> QED BY <2>2, <4>1, <4>2
    <3>2. CASE acc[t].ret = "find_head"
      BY <3>1, <3>2, Reads DEF InitReturned, IInv, Typed, Accessor
    <3>3. CASE acc[t].ret # "find_head"
      BY <3>1, <3>3, IdleKnows DEF InitReturned
    <3> QED BY <3>2, <3>3
  <2> QED BY <2>1, <2>2
<1> QED BY <1>1, <1>2, <1>3, InitData, CountOther

(* A search leaves the count alone. *)
LEMMA CountFind ==
  ASSUME NEW t, CalmStep(t), CountInv, FindStep(t)
  PROVE  CountInv'
<1> USE DEF CalmStep
<1>0. Typed(acc[t]) /\ acc = [u \in Accessors |-> acc[u]]
  BY Reads DEF IInv, TypeOK
<1>1. n_items' = n_items /\ acc[t].pc \notin {"count", "uncount"}
  BY DEF FindStep, FindStart, FindHead, FindAdvance, FindItem, At
<1>2. Listed' = Listed
  BY FindStartList, FindHeadList, FindAdvanceList, FindItemList DEF FindStep
<1>3. acc'[t].pc \notin {"count", "uncount"}
  <2>1. CASE FindStart(t)
    BY <1>0, <2>1 DEF FindStart, Typed, Accessor
  <2>2. CASE FindHead(t)
    BY <1>0, <2>2 DEF FindHead, Positioned, Typed, Accessor
  <2>3. CASE FindAdvance(t)
    BY <1>0, <2>3 DEF FindAdvance, Advanced, Typed, Accessor, At
  <2>4. CASE FindItem(t)
    BY <1>0, <2>4, IdleKnows DEF FindItem, Return
  <2> QED BY <2>1, <2>2, <2>3, <2>4 DEF FindStep
<1> QED BY <1>1, <1>2, <1>3, CountOther

(* Every step of insert_node keeps the balance. *)
LEMMA CountInsert ==
  ASSUME NEW t, CalmStep(t), CountInv, InsertStep(t)
  PROVE  CountInv'
<1> USE DEF CalmStep
<1> DEFINE a == acc[t]
<1>0. Typed(a) /\ acc = [u \in Accessors |-> acc[u]]
  BY Reads DEF IInv, TypeOK
<1>1. CASE InsertLink(t) \/ InsertCount(t)
  BY <1>1, CountInsertLink, CountInsertCount
<1>2. CASE ~(InsertLink(t) \/ InsertCount(t))
  <2>1. n_items' = n_items /\ acc[t].pc \notin {"count", "uncount"}
    BY <1>2 DEF InsertStep, InsertNew, InsertFound, InsertNotFound, ScanHead, ScanAdvance, ScanDone,
                Overflow, ExpandCopy, ExpandSwap, ExpandSize, At
  <2>2. Listed' = Listed
    BY <1>2, InsertNewList, InsertFoundList, InsertNotFoundList, ScanHeadList, ScanAdvanceList,
       ScanDoneList, OverflowList, ExpandCopyList, ExpandSwapList, ExpandSizeList DEF InsertStep
  <2>3. acc'[t].pc \notin {"count", "uncount"}
    <3>1. CASE InsertNew(t)
      <4> DEFINE n == NewNode("node", a.hashv)
      <4>1. acc' = [acc EXCEPT ![t].nbuckets = n_buckets, ![t].dnode = n, ![t].pc = "find"]
        BY <3>1 DEF InsertNew
      <4> HIDE DEF n
      <4> QED BY <1>0, <4>1 DEF Typed, Accessor
    <3>2. CASE InsertFound(t)
      BY <1>0, <3>2, IdleKnows DEF InsertFound, Return
    <3>3. CASE InsertNotFound(t)
      BY <1>0, <3>3 DEF InsertNotFound, Typed, Accessor
    <3>4. CASE ScanHead(t)
      BY <1>0, <3>4 DEF ScanHead, Typed, Accessor
    <3>5. CASE ScanAdvance(t)
      BY <1>0, <3>5 DEF ScanAdvance, Advanced, Typed, Accessor, At
    <3>6. CASE ScanDone(t)
      <4> DEFINE s == a.hashv % n_buckets
      <4>1. \/ acc' = [acc EXCEPT ![t].slot = s, ![t].pc = "overflow"]
            \/ acc' = [acc EXCEPT ![t] = IdleAccessor]
        BY <3>6 DEF ScanDone, Return
      <4> HIDE DEF s
      <4> QED BY <1>0, <4>1, IdleKnows DEF Typed, Accessor
    <3>7. CASE Overflow(t)
      <4> DEFINE s == (a.slot + a.nbuckets \div 2) % Modulus
      <4>1. \/ acc' = [acc EXCEPT ![t].pc = "expand"]
            \/ acc' = [acc EXCEPT ![t].bslot = s, ![t].ret = "idle", ![t].pc = "init_enter"]
            \/ acc' = [acc EXCEPT ![t] = IdleAccessor]
        BY <3>7 DEF Overflow, Return
      <4> HIDE DEF s
      <4>2. CASE acc' = [acc EXCEPT ![t].pc = "expand"]
        BY <1>0, <4>2 DEF Typed, Accessor
      <4>3. CASE acc' = [acc EXCEPT ![t].bslot = s, ![t].ret = "idle", ![t].pc = "init_enter"]
        BY <1>0, <4>3 DEF Typed, Accessor
      <4>4. CASE acc' = [acc EXCEPT ![t] = IdleAccessor]
        BY <1>0, <4>4, IdleKnows
      <4> QED BY <4>1, <4>2, <4>3, <4>4
    <3>8. CASE ExpandCopy(t) \/ ExpandSize(t)
      <4> DEFINE array == copy_of_buckets
                 s == (a.slot + a.nbuckets) % Modulus
      <4>1. \/ acc' = [acc EXCEPT ![t] = [a EXCEPT !.new_buckets = array, !.pc = "expand_swap"]]
            \/ acc' = [acc EXCEPT ![t] = [a EXCEPT !.bslot = s, !.ret = "idle",
                                                   !.new_buckets = NoArray, !.pc = "init_enter"]]
        BY <3>8 DEF ExpandCopy, ExpandSize, Expanded
      <4> HIDE DEF array, s
      <4> QED BY <1>0, <4>1 DEF Typed, Accessor
    <3>9. CASE ExpandSwap(t)
      BY <1>0, <3>9 DEF ExpandSwap, Typed, Accessor
    <3> QED BY <1>2, <3>1, <3>2, <3>3, <3>4, <3>5, <3>6, <3>7, <3>8, <3>9 DEF InsertStep
  <2> QED BY <2>1, <2>2, <2>3, CountOther
<1> QED BY <1>1, <1>2

(* Every step of delete_node keeps the balance. *)
LEMMA CountDelete ==
  ASSUME NEW t, CalmStep(t), CountInv, DeleteStep(t)
  PROVE  CountInv'
<1> USE DEF CalmStep
<1>0. Typed(acc[t]) /\ acc = [u \in Accessors |-> acc[u]]
  BY Reads DEF IInv, TypeOK
<1>1. CASE DeleteUnlink(t) \/ DeleteCount(t)
  BY <1>1, CountDeleteUnlink, CountDeleteCount
<1>2. CASE DeleteNotFound(t) \/ DeleteFound(t) \/ DeleteMark(t) \/ DeleteReclaim(t)
  <2>1. n_items' = n_items /\ acc[t].pc \notin {"count", "uncount"}
    BY <1>2 DEF DeleteNotFound, DeleteFound, DeleteMark, DeleteReclaim, At
  <2>2. Listed' = Listed
    BY <1>2, DeleteNotFoundList, DeleteFoundList, DeleteMarkList, DeleteReclaimList
  <2>3. acc'[t].pc \notin {"count", "uncount"}
    <3>1. CASE DeleteNotFound(t) \/ DeleteReclaim(t)
      BY <1>0, <3>1, IdleKnows DEF DeleteNotFound, DeleteReclaim, Return
    <3>2. CASE DeleteFound(t)
      BY <1>0, <3>2 DEF DeleteFound, Typed, Accessor
    <3>3. CASE DeleteMark(t)
      BY <1>0, <3>3 DEF DeleteMark, TryAgain, Typed, Accessor
    <3> QED BY <1>2, <3>1, <3>2, <3>3
  <2> QED BY <2>1, <2>2, <2>3, CountOther
<1> QED BY <1>1, <1>2 DEF DeleteStep

(* An empty list counts no item. *)
LEMMA CountInitial ==
  ASSUME Init
  PROVE  CountInv
<1>1. Counting = {} /\ Uncounting = {}
  BY IdleKnows DEF Counting, Uncounting, At, Init
<1>2. Data = {}
  BY DEF Data, Listed, live, Init, Head
<1>3. IsFiniteSet({}) /\ Cardinality({}) = 0 /\ n_items = 0
  BY FS_EmptySet DEF Init
<1>4. 0 + 0 = 0 + 0 + 0 * Modulus /\ 0 \in Int
  BY SizeAssumption
<1> QED BY <1>1, <1>2, <1>3, <1>4 DEF CountInv

(* Between calls n_items is the number of items, whatever the order of the *)
(* increments and decrements that follow the linking and unlinking.        *)
THEOREM ItemsCounted ==
  ASSUME PowerOfTwoSize
  PROVE  Spec /\ []Calm => []CountExact
<1>1. IInv /\ IInv' /\ ListInv /\ Calm /\ Calm' /\ CountInv /\ [Next]_vars => CountInv'
  <2> SUFFICES ASSUME IInv, IInv', ListInv, Calm, Calm', CountInv, [Next]_vars PROVE CountInv'
    OBVIOUS
  <2>1. ASSUME UNCHANGED <<n_buckets, buckets, n_items, link, acc>> PROVE CountInv'
    BY <2>1, CountSame DEF Data, Listed, live, Counting, Uncounting, At
  <2>2. CASE UNCHANGED vars
    BY <2>1, <2>2 DEF vars
  <2>3. CASE Next
    <3>1. ASSUME NEW t \in Accessors, Abort(t) PROVE CountInv'
      BY <2>1, <3>1 DEF Abort
    <3>2. ASSUME NEW t, CalmStep(t), InCall(t) PROVE CountInv'
      BY <3>2, CountInit, CountFind, CountInsert, CountDelete DEF InCall
    <3>3. ASSUME NEW t, CalmStep(t), NEW op \in Ops, NEW h \in Hashes, Call(t, op, h) PROVE CountInv'
      <4>1. Typed(acc[t]) /\ acc = [u \in Accessors |-> acc[u]]
        BY <3>3, Reads DEF CalmStep, IInv, TypeOK
      <4>2. acc[t].pc = "idle" /\ acc'[t].pc \in {"insert_new", "find"} /\ n_items' = n_items
        BY <3>3, <4>1 DEF Call, At, Typed, Accessor, CalmStep
      <4> QED BY <3>3, <4>2, CallList, CountOther
    <3>4. ASSUME NEW t, CalmStep(t), NEW s \in 0 .. n_buckets - 1, InitCall(t, s) PROVE CountInv'
      <4>1. Typed(acc[t]) /\ acc = [u \in Accessors |-> acc[u]]
        BY <3>4, Reads DEF CalmStep, IInv, TypeOK
      <4>2. acc[t].pc = "idle" /\ acc'[t].pc = "init_enter" /\ n_items' = n_items
        BY <3>4, <4>1 DEF InitCall, At, Typed, Accessor, CalmStep
      <4> QED BY <3>4, <4>2, InitCallList, CountOther
    <3> QED BY <2>3, <3>1, <3>2, <3>3, <3>4, CalmSteps
  <2> QED BY <2>2, <2>3
<1>2. Init => CountInv
  BY CountInitial
<1>3. IInv /\ ListInv /\ CountInv => CountExact
  BY CountExactHolds
<1> QED BY <1>1, <1>2, <1>3, Invariance, ListInvariance, PTL DEF Spec

(* A single thread is always calm: with any sequence of inserts, deletes,  *)
(* searches, bucket initialisations and expansions the list is a set, and  *)
(* the process never aborts, until the size of the table would wrap.       *)
THEOREM OneThreadSet ==
  ASSUME PowerOfTwoSize, EvenHashes, NEW t, Accessors = {t}
  PROVE  Spec /\ [](At(t, "expand") => 2 * n_buckets < Modulus) => ImplementsSet /\ []NoFault
<1>1. (At(t, "expand") => 2 * n_buckets < Modulus) => Calm
  BY OneThread
<1> QED BY <1>1, Linearizable, NoAbort, PTL

=============================================================================
